----------------------------- MODULE OutputVolume -----------------------------
(***************************************************************************)
(* The volume of an AirPlay output (internal/app remote.go): what Remote   *)
(* keeps of it, and what the receiver plays at. Commands come one at a     *)
(* time, under the commands mutex, and speak to the receiver without the   *)
(* lock on the player's state; the worker of a playback attempt attaches   *)
(* its session, and sets the volume it then read, while commands go on.    *)
(*                                                                         *)
(* Nobody turns the knob of a receiver here. A request to a session that   *)
(* was closed fails; any other may fail.                                   *)
(***************************************************************************)
EXTENDS Integers, FiniteSets

CONSTANTS
  Outputs,      \* receivers
  Volumes,      \* 0..100 in the code
  Unset,        \* no volume
  MaxPlays,     \* bound on playback attempts
  MaxVolumes    \* bound on volume commands

VARIABLES
  output,      \* saved.Output
  volume,      \* saved.Volume
  known,       \* volumeKnown
  pending,     \* volumePending
  session,     \* Remote.session: the attempt whose session is attached, or 0
  generation,  \* the attempt that is current
  current,     \* whether there is one, rather than none after a cancel
  command,     \* the volume command under way: [to, session], or [to |-> Unset]
  receiver,    \* what each receiver plays at
  worker,      \* where each attempt is
  copied,      \* what it copied when it attached: a volume to set, or Unset
  volumes,     \* volume commands so far
  wanted       \* history: what the user set last, if playback was stopped then

vars == <<output, volume, known, pending, session, generation, current, command, receiver,
          worker, copied, volumes, wanted>>

Attempts == 1..MaxPlays
Idle == [to |-> Unset, session |-> 0]

Init ==
  /\ output \in Outputs /\ volume \in Volumes
  /\ known = FALSE /\ pending = FALSE
  /\ session = 0 /\ generation = 0 /\ current = FALSE /\ command = Idle
  /\ receiver \in [Outputs -> Volumes]
  /\ worker = [g \in Attempts |-> "off"] /\ copied = [g \in Attempts |-> Unset]
  /\ volumes = 0 /\ wanted = Unset

\* cancelPlayback: the attempt goes on until it notices that it is not current.
Cancelled == session' = 0 /\ current' = FALSE

Play ==
  /\ command = Idle /\ generation < MaxPlays
  /\ session' = 0 /\ current' = TRUE
  /\ generation' = generation + 1
  /\ worker' = [worker EXCEPT ![generation'] = "connecting"]
  /\ UNCHANGED <<output, volume, known, pending, command, receiver, copied, volumes, wanted>>

Stop ==
  /\ command = Idle /\ current
  /\ Cancelled
  /\ UNCHANGED <<output, volume, known, pending, generation, command, receiver, worker, copied,
                 volumes, wanted>>

\* The volume of the new output is read, or stays unknown.
Select ==
  /\ command = Idle
  /\ output' \in Outputs
  /\ Cancelled /\ pending' = FALSE
  /\ \/ volume' = receiver[output'] /\ known' = TRUE
     \/ known' = FALSE /\ UNCHANGED volume
  /\ wanted' = Unset
  /\ UNCHANGED <<generation, command, receiver, worker, copied, volumes>>

\* Looks for the session; then, without the lock, speaks to it if there is one;
\* then, with the lock, keeps the volume.
Volume ==
  /\ command = Idle /\ volumes < MaxVolumes
  /\ \E v \in Volumes : command' = [to |-> v, session |-> session]
  /\ volumes' = volumes + 1
  /\ UNCHANGED <<output, volume, known, pending, session, generation, current, receiver, worker,
                 copied, wanted>>

VolumeKept ==
  /\ command # Idle
  /\ receiver' = IF command.session = 0 THEN receiver
                 ELSE [receiver EXCEPT ![output] = command.to]
  /\ volume' = command.to /\ known' = TRUE /\ pending' = (command.session = 0)
  /\ wanted' = IF current THEN Unset ELSE command.to
  /\ command' = Idle
  /\ UNCHANGED <<output, session, generation, current, worker, copied, volumes>>

VolumeFails ==
  /\ command.session # 0 /\ command' = Idle
  /\ UNCHANGED <<output, volume, known, pending, session, generation, current, receiver, worker,
                 copied, volumes, wanted>>

Goto(g, to) == worker' = [worker EXCEPT ![g] = to]
IsCurrent(g) == current /\ generation = g

\* The worker that holds the playback mutex; others wait for it to connect.
HasPlayback(g) == \A h \in Attempts \ {g} : worker[h] \in {"off", "connecting", "gone"}

\* The session is attached if the attempt is current still; a volume that is
\* pending is copied.
Attach(g) ==
  /\ worker[g] = "connecting" /\ HasPlayback(g)
  /\ IF IsCurrent(g)
     THEN /\ Goto(g, "attached") /\ session' = g
          /\ copied' = [copied EXCEPT ![g] = IF pending THEN volume ELSE Unset]
     ELSE Goto(g, "gone") /\ UNCHANGED <<session, copied>>
  /\ UNCHANGED <<output, volume, known, pending, generation, current, command, receiver, volumes,
                 wanted>>

\* Metadata and artwork go first; then the volume is set.
SetVolume(g) ==
  /\ worker[g] = "attached" /\ IsCurrent(g)
  /\ receiver' = IF copied[g] = Unset THEN receiver ELSE [receiver EXCEPT ![output] = copied[g]]
  /\ Goto(g, IF copied[g] = Unset THEN "playing" ELSE "set")
  /\ UNCHANGED <<output, volume, known, pending, session, generation, current, command, copied,
                 volumes, wanted>>

\* The receiver has answered: the volume is not pending any more, whoever is
\* current by now.
Clear(g) ==
  /\ worker[g] = "set"
  /\ pending' = FALSE
  /\ Goto(g, "playing")
  /\ UNCHANGED <<output, volume, known, session, generation, current, command, receiver, copied,
                 volumes, wanted>>

\* A request fails, or the attempt ends or notices that it was cancelled.
Leave(g) ==
  /\ worker[g] \in {"connecting", "attached", "playing"}
  /\ Goto(g, "gone")
  /\ UNCHANGED <<output, volume, known, pending, session, generation, current, command, receiver,
                 copied, volumes, wanted>>

Next ==
  \/ Play \/ Stop \/ Select \/ Volume \/ VolumeKept \/ VolumeFails
  \/ \E g \in Attempts : Attach(g) \/ SetVolume(g) \/ Clear(g) \/ Leave(g)

Spec == Init /\ [][Next]_vars

-----------------------------------------------------------------------------

\* Once playback has started, the receiver plays at the volume the user set
\* while it was stopped ("Starting playback preserves the receiver volume unless
\* the user explicitly set one while stopped", API.md:229).
StoppedVolumeIsApplied ==
  \A g \in Attempts :
    worker[g] = "playing" /\ IsCurrent(g) /\ command = Idle /\ wanted # Unset
      => receiver[output] = wanted
=============================================================================
