------------------------------ MODULE Playback ------------------------------
(***************************************************************************)
(* The transport life cycle of Remote (internal/app/remote.go): who may    *)
(* talk to the receiver, and how a command, the event loop, the playback   *)
(* workers and Close hand it to each other.                                *)
(*                                                                         *)
(*   commands  mutex held by a client request, a turn of the event loop or *)
(*             Close from its first to its last step                       *)
(*   mu        mutex of the short sections; each of them is one action     *)
(*   playback  mutex a worker holds from its start to its exit             *)
(*                                                                         *)
(* start() spawns one worker. It is told to go by its context (live), by   *)
(* the generation counter, and by its session being closed under it. Which *)
(* track is played is the subject of RemoteQueue; here a request either    *)
(* starts something, stops it, or leaves the transport alone.              *)
(***************************************************************************)
EXTENDS Integers, Sequences, FiniteSets

CONSTANTS
  MaxStarts,    \* bound: playback attempts, by requests and by the loop
  MaxRequests,  \* bound: HTTP requests that take the commands mutex
  EndCap,       \* capacity of the channel r.end (16 in the code)
  Continuous    \* the receiver's sessions play on over the queue, as
                \* AirPlay's do: progress is checked against the queue

ASSUME PlaybackAssumption ==
  /\ MaxStarts \in Nat
  /\ MaxRequests \in Nat
  /\ EndCap \in Nat \ {0}
  /\ Continuous \in BOOLEAN

Workers == 1..MaxStarts
Attempts == 1..2              \* play() runs once, or twice after a reconnect
Sessions == Workers \X Attempts
NoWorker == 0
NoSession == <<0, 0>>

Resting == {"stop", "pause"}
Busy == {"loading", "play"}

\* The outcomes play() tells apart: end of track, a source or decoder error
\* (remoteTrackError), ErrSessionNotStarted or a broken artwork channel before
\* audio, and any other receiver or transport error.
Outcomes == {"eof", "track", "notstarted", "transport"}
Events == [gen : Nat, err : Outcomes]
NoEvent == [gen |-> 0, err |-> "eof"]

VARIABLES
  (* the handler that holds the commands mutex *)
  commands,    \* "free", "client", "loop" or "close"
  step,        \* where the holder stands; "idle" when there is none
  after,       \* what follows the cancelPlayback under way
  taken,       \* the cancel function and session that cancelPlayback took
  event,       \* the event the loop received and is handling
  requests,    \* client requests so far
  starts,      \* playback attempts so far
  (* fields of Remote guarded by mu *)
  generation,
  cancel,      \* worker that r.cancel cancels, or NoWorker
  session,     \* r.session, or NoSession
  state,       \* r.state
  armed,       \* a sleep timer deadline is set
  matches,     \* queue and modes are those that what is loading or playing
               \* was started with; TRUE while the player rests
  (* shutdown and the event loop *)
  closed,      \* r.closed, and r.done is closed with it
  closer,      \* Close(): "no", "waiting" in wg.Wait, "returned"
  loop,        \* "select", "event", "tick" or "gone"
  end,         \* the channel r.end
  (* the workers *)
  playback,    \* worker that holds the playback mutex, or NoWorker
  pc,          \* where each worker stands
  gen,         \* the generation each worker was started for
  live,        \* its context is not cancelled
  try,         \* which attempt of play() it is in
  err,         \* what that attempt returned
  (* the receiver *)
  open         \* sessions whose sockets are open

handlerVars == <<commands, step, after, taken, event, requests, starts>>
muVars == <<generation, cancel, session, state, armed, matches>>
loopVars == <<closed, closer, loop, end>>
workerVars == <<playback, pc, gen, live, try, err>>
vars == <<handlerVars, muVars, loopVars, workerVars, open>>

HandlerSteps == {"idle", "decide", "start", "cancel", "unwind", "close",
                 "begin", "next", "rest", "stop", "giveup", "leave"}
WorkerSteps == {"idle", "queued", "open", "connect", "attach", "setup",
                "stream", "close", "verdict", "backoff", "send", "gone"}

TypeOK ==
  /\ commands \in {"free", "client", "loop", "close"}
  /\ step \in HandlerSteps
  /\ after \in HandlerSteps
  /\ taken \in [cancel : Workers \cup {NoWorker},
                session : Sessions \cup {NoSession}]
  /\ event \in Events
  /\ requests \in 0..MaxRequests
  /\ starts \in 0..MaxStarts
  /\ generation \in Nat
  /\ cancel \in Workers \cup {NoWorker}
  /\ session \in Sessions \cup {NoSession}
  /\ state \in Resting \cup Busy
  /\ armed \in BOOLEAN
  /\ matches \in BOOLEAN
  /\ closed \in BOOLEAN
  /\ closer \in {"no", "waiting", "returned"}
  /\ loop \in {"select", "event", "tick", "gone"}
  /\ end \in Seq(Events) /\ Len(end) <= EndCap
  /\ playback \in Workers \cup {NoWorker}
  /\ pc \in [Workers -> WorkerSteps]
  /\ gen \in [Workers -> Nat]
  /\ live \in [Workers -> BOOLEAN]
  /\ try \in [Workers -> Attempts]
  /\ err \in [Workers -> Outcomes]
  /\ open \in SUBSET Sessions

Init ==
  /\ commands = "free" /\ step = "idle" /\ after = "idle"
  /\ taken = [cancel |-> NoWorker, session |-> NoSession]
  /\ event = NoEvent
  /\ requests = 0 /\ starts = 0
  /\ generation = 0
  /\ cancel = NoWorker /\ session = NoSession
  /\ state \in Resting
  /\ armed = FALSE
  /\ matches = TRUE
  /\ closed = FALSE /\ closer = "no"
  /\ loop = "select" /\ end = <<>>
  /\ playback = NoWorker
  /\ pc = [w \in Workers |-> "idle"]
  /\ gen = [w \in Workers |-> 0]
  /\ live = [w \in Workers |-> FALSE]
  /\ try = [w \in Workers |-> 1]
  /\ err = [w \in Workers |-> "eof"]
  /\ open = {}

-----------------------------------------------------------------------------
(* The handlers: one program, run by whoever holds the commands mutex.     *)

\* The holder moves from one of its steps to another.
Goto(from, to) == step = from /\ step' = to

\* The holder moves on by way of cancelPlayback, and then to "to".
CancelThen(from, to) == Goto(from, "cancel") /\ after' = to

ClientLock ==
  /\ commands = "free" /\ requests < MaxRequests
  /\ commands' = "client" /\ requests' = requests + 1
  /\ Goto("idle", "decide")
  /\ UNCHANGED <<after, taken, event, starts, muVars, loopVars, workerVars, open>>

\* Command refuses every request once the server is closing.
NeverRefused == FALSE
Refused == closed

ClientRefused ==
  /\ commands = "client" /\ Refused
  /\ Goto("decide", "leave")
  /\ UNCHANGED <<commands, after, taken, event, requests, starts,
                 muVars, loopVars, workerVars, open>>

\* Edits in place are answered by a restart while a session plays on over the
\* queue; one that is not published yet is left to the old plan.
Restarts == Continuous /\ session # NoSession

\* An edit of the queue, of a mode or of the timer changes fields under mu.
EditInPlace ==
  /\ armed' \in BOOLEAN
  /\ matches' \in BOOLEAN /\ (state \in Resting => matches')
  /\ UNCHANGED <<generation, cancel, session, state>>

\* An invalid request, or one that leaves the transport alone.
ClientEdit ==
  /\ commands = "client" /\ ~Refused
  /\ Goto("decide", "leave")
  /\ \/ UNCHANGED muVars
     \/ ~Restarts /\ EditInPlace
  /\ UNCHANGED <<commands, after, taken, event, requests, starts,
                 loopVars, workerVars, open>>

\* append, move, remove, repeat, shuffle and timer while a session plays on.
ClientRestart ==
  /\ commands = "client" /\ ~Refused
  /\ Restarts /\ EditInPlace
  /\ Goto("decide", "start")
  /\ UNCHANGED <<commands, after, taken, event, requests, starts,
                 loopVars, workerVars, open>>

\* pause, local, outputs, stop, clear: cancelPlayback, and state is set again.
ClientHalt ==
  /\ commands = "client" /\ ~Refused
  /\ \E to \in {"rest", "stop"} : CancelThen("decide", to)
  /\ UNCHANGED <<commands, taken, event, requests, starts,
                 muVars, loopVars, workerVars, open>>

\* start, seek, select, next, previous, remove cancel first and then start;
\* play calls startWithPolicy directly.
ClientPlay ==
  /\ commands = "client" /\ ~Refused
  /\ \/ CancelThen("decide", "start")
     \/ Goto("decide", "start") /\ UNCHANGED after
  /\ UNCHANGED <<commands, taken, event, requests, starts,
                 muVars, loopVars, workerVars, open>>

\* PUT /playback-settings takes the same mutex but does not look at closed: a
\* changed gain restarts whatever is loading or playing.
ClientSettings ==
  /\ commands = "client"
  /\ \/ state \in Busy /\ CancelThen("decide", "start")
     \/ state \notin Busy /\ Goto("decide", "leave") /\ UNCHANGED after
  /\ UNCHANGED <<commands, taken, event, requests, starts,
                 muVars, loopVars, workerVars, open>>

\* start() finds the output, the track and its file; it cancels what plays.
StartAccepted ==
  /\ starts < MaxStarts
  /\ starts' = starts + 1
  /\ CancelThen("start", "begin")
  /\ UNCHANGED <<commands, taken, event, requests,
                 muVars, loopVars, workerVars, open>>

\* start() fails. startWithPolicy cancels, and skipFailed either picks another
\* track and goes round, or gives up.
StartRejected ==
  /\ \/ starts < MaxStarts /\ starts' = starts + 1 /\ CancelThen("start", "start")
     \/ UNCHANGED starts /\ CancelThen("start", "giveup")
  /\ UNCHANGED <<commands, taken, event, requests,
                 muVars, loopVars, workerVars, open>>

\* The mu section of cancelPlayback. The mutant leaves r.session in place.
CancelTakeKeepsSession ==
  /\ Goto("cancel", "unwind")
  /\ generation' = generation + 1
  /\ taken' = [cancel |-> cancel, session |-> session]
  /\ cancel' = NoWorker
  /\ state' \in Resting /\ matches' = TRUE
  /\ UNCHANGED <<commands, after, event, requests, starts, armed, session,
                 loopVars, workerVars, open>>

CancelTake ==
  /\ Goto("cancel", "unwind")
  /\ generation' = generation + 1
  /\ taken' = [cancel |-> cancel, session |-> session]
  /\ cancel' = NoWorker /\ session' = NoSession
  /\ state' \in Resting /\ matches' = TRUE
  /\ UNCHANGED <<commands, after, event, requests, starts, armed,
                 loopVars, workerVars, open>>

CancelContext ==
  /\ Goto("unwind", "close")
  /\ live' = [w \in Workers |-> live[w] /\ w # taken.cancel]
  /\ UNCHANGED <<commands, after, taken, event, requests, starts, muVars,
                 loopVars, playback, pc, gen, try, err, open>>

CancelClose ==
  /\ Goto("close", after)
  /\ after' = "idle"
  /\ open' = open \ {taken.session}
  /\ taken' = [cancel |-> NoWorker, session |-> NoSession]
  /\ UNCHANGED <<commands, event, requests, starts, muVars, loopVars, workerVars>>

\* The last mu section of start(), and the new worker, which takes along the
\* queue and the modes as they are: only a holder of commands edits them.
Begin ==
  /\ Goto("begin", "leave")
  /\ cancel' = starts
  /\ state' = "loading"
  /\ pc' = [pc EXCEPT ![starts] = "queued"]
  /\ gen' = [gen EXCEPT ![starts] = generation]
  /\ live' = [live EXCEPT ![starts] = TRUE]
  /\ UNCHANGED <<commands, after, taken, event, requests, starts, generation,
                 session, armed, matches, loopVars, playback, try, err, open>>

\* What the loop does with a valid event once playback is cancelled: an end of
\* track advances, pauses or stops; a track error may be skipped; any other
\* error leaves the queue paused.
LoopNext ==
  /\ step = "next"
  /\ step' \in IF event.err = "eof" THEN {"start", "rest", "stop"}
               ELSE IF event.err = "track" THEN {"start", "giveup"}
               ELSE {"giveup"}
  /\ armed' \in IF event.err = "eof" THEN {armed, FALSE} ELSE {armed}
  /\ UNCHANGED <<commands, after, taken, event, requests, starts, generation,
                 cancel, session, state, matches, loopVars, workerVars, open>>

\* The handler leaves the state that cancelPlayback set, or replaces it; local,
\* outputs, stop and clear disarm the timer.
Settle ==
  /\ step \in {"rest", "stop", "giveup"}
  /\ step' = "leave"
  /\ state' \in CASE step = "rest" -> {state}
                  [] step = "stop" -> {"stop"}
                  [] step = "giveup" -> Resting
  /\ armed' \in IF commands = "client" THEN {armed, FALSE} ELSE {armed}
  /\ UNCHANGED <<commands, after, taken, event, requests, starts, generation,
                 cancel, session, matches, loopVars, workerVars, open>>

Leave ==
  /\ Goto("leave", "idle")
  /\ commands' = "free"
  /\ IF commands = "loop"
     THEN loop' = "select" /\ event' = NoEvent
     ELSE UNCHANGED <<loop, event>>
  /\ UNCHANGED <<after, taken, requests, starts, muVars, closed, closer, end,
                 workerVars, open>>

Handler ==
  \/ ClientRefused \/ ClientEdit \/ ClientRestart \/ ClientHalt \/ ClientPlay
  \/ ClientSettings
  \/ StartAccepted \/ StartRejected
  \/ CancelTake \/ CancelContext \/ CancelClose
  \/ Begin \/ LoopNext \/ Settle \/ Leave

-----------------------------------------------------------------------------
(* The event loop and Close.                                               *)

LoopReceive ==
  /\ loop = "select" /\ end # <<>>
  /\ loop' = "event"
  /\ end' = Tail(end)
  /\ event' = Head(end)
  /\ UNCHANGED <<commands, step, after, taken, requests, starts, muVars,
                 closed, closer, workerVars, open>>

\* An event counts only for the generation that is still current; the mutant
\* heeds late ones.
HeededLate(e) == ~closed
Heeded(e) == ~closed /\ e.gen = generation

LoopEvent ==
  /\ loop = "event" /\ commands = "free"
  /\ commands' = "loop"
  /\ IF Heeded(event)
     THEN CancelThen("idle", "next")
     ELSE Goto("idle", "leave") /\ UNCHANGED after
  /\ UNCHANGED <<taken, event, requests, starts, muVars, loopVars,
                 workerVars, open>>

LoopTick ==
  /\ loop = "select" /\ armed
  /\ loop' = "tick"
  /\ UNCHANGED <<handlerVars, muVars, closed, closer, end, workerVars, open>>

\* An expired deadline pauses now, or at the end of the track.
LoopDeadline ==
  /\ loop = "tick" /\ commands = "free"
  /\ commands' = "loop"
  /\ armed' = FALSE
  /\ \/ armed /\ CancelThen("idle", "rest")
     \/ Goto("idle", "leave") /\ UNCHANGED after
  /\ UNCHANGED <<taken, event, requests, starts, generation, cancel, session,
                 state, matches, loopVars, workerVars, open>>

LoopDone ==
  /\ loop = "select" /\ closed
  /\ loop' = "gone"
  /\ UNCHANGED <<handlerVars, muVars, closed, closer, end, workerVars, open>>

CloseLock ==
  /\ closer = "no" /\ commands = "free"
  /\ commands' = "close"
  /\ closed' = TRUE /\ closer' = "waiting"
  /\ CancelThen("idle", "rest")
  /\ UNCHANGED <<taken, event, requests, starts, muVars, loop, end,
                 workerVars, open>>

\* wg.Wait returns when the loop and every worker are gone.
CloseReturn ==
  /\ closer = "waiting" /\ commands # "close"
  /\ loop = "gone" /\ \A w \in Workers : pc[w] \in {"idle", "gone"}
  /\ closer' = "returned"
  /\ UNCHANGED <<handlerVars, muVars, closed, loop, end, workerVars, open>>

Loop == LoopReceive \/ LoopEvent \/ LoopTick \/ LoopDeadline \/ LoopDone

-----------------------------------------------------------------------------
(* The worker that start() spawns.                                         *)

Own(w) == <<w, try[w]>>

\* Worker w moves on and leaves the rest of the worker state alone.
Advance(w, from, to) ==
  /\ pc[w] = from
  /\ pc' = [pc EXCEPT ![w] = to]

\* The playback mutex, then ctx.Err(): a worker cancelled while it waited goes.
NoPlaybackMutex == TRUE
PlaybackFree == playback = NoWorker

WorkerLock(w) ==
  /\ PlaybackFree
  /\ IF live[w] THEN Advance(w, "queued", "open") /\ playback' = w
                ELSE Advance(w, "queued", "gone") /\ UNCHANGED playback
  /\ UNCHANGED <<handlerVars, muVars, loopVars, gen, live, try, err, open>>

\* openPCM waits for the cache, converts if it must, and opens the file.
WorkerOpen(w) ==
  /\ \/ Advance(w, "open", "connect") /\ UNCHANGED err
     \/ Advance(w, "open", "verdict") /\ err' = [err EXCEPT ![w] = "track"]
  /\ UNCHANGED <<handlerVars, muVars, loopVars, playback, gen, live, try, open>>

WorkerConnect(w) ==
  /\ \/ /\ Advance(w, "connect", "attach")
        /\ open' = open \cup {Own(w)}
        /\ UNCHANGED err
     \/ /\ Advance(w, "connect", "verdict")
        /\ err' = [err EXCEPT ![w] = "transport"]
        /\ UNCHANGED open
  /\ UNCHANGED <<handlerVars, muVars, loopVars, playback, gen, live, try>>

\* A worker compares its generation with the current one under mu before it
\* publishes its session and before it reports progress.
NeverSuperseded(w) == FALSE
Superseded(w) == gen[w] # generation

\* The mu section that publishes the session, unless it came too late.
WorkerAttach(w) ==
  /\ \/ /\ ~Superseded(w)
        /\ Advance(w, "attach", "setup")
        /\ session' = Own(w)
        /\ UNCHANGED err
     \/ /\ Superseded(w)
        /\ Advance(w, "attach", "close")
        /\ err' = [err EXCEPT ![w] = "transport"]
        /\ UNCHANGED session
  /\ UNCHANGED <<handlerVars, generation, cancel, state, armed, matches, loopVars,
                 playback, gen, live, try, open>>

\* Metadata, artwork and volume go through before the stream starts, if the
\* session is still open and the receiver accepts them.
WorkerSetup(w) ==
  /\ \/ Advance(w, "setup", "stream") /\ Own(w) \in open /\ UNCHANGED err
     \/ /\ Advance(w, "setup", "close")
        /\ \E e \in {"notstarted", "transport"} : err' = [err EXCEPT ![w] = e]
  /\ UNCHANGED <<handlerVars, muVars, loopVars, playback, gen, live, try, open>>

\* The progress callback of Stream; streamQueue's also compares the queue and
\* the modes with those of its plan and is mute when they were edited since.
Heeds == Continuous => matches

WorkerProgress(w) ==
  /\ pc[w] = "stream"
  /\ ~Superseded(w) /\ Heeds
  /\ state' = "play"
  /\ UNCHANGED <<handlerVars, generation, cancel, session, armed, matches, loopVars,
                 workerVars, open>>

WorkerStreamEnds(w) ==
  /\ Advance(w, "stream", "close")
  /\ \E e \in Outcomes \ {"track"} : err' = [err EXCEPT ![w] = e]
  /\ UNCHANGED <<handlerVars, muVars, loopVars, playback, gen, live, try, open>>

\* The deferred calls of play(): the session is closed, the lease released.
WorkerClose(w) ==
  /\ Advance(w, "close", "verdict")
  /\ open' = open \ {Own(w)}
  /\ UNCHANGED <<handlerVars, muVars, loopVars, playback, gen, live, try, err>>

\* context.AfterFunc: a cancelled context closes the session in a goroutine
\* of its own, until play() returns.
AfterFunc(w) ==
  /\ pc[w] \in {"attach", "setup", "stream"} /\ ~live[w]
  /\ Own(w) \in open
  /\ open' = open \ {Own(w)}
  /\ UNCHANGED <<handlerVars, muVars, loopVars, workerVars>>

\* A session that never started is tried once more; the mutant has no limit.
AlwaysRetries(w) == err[w] = "notstarted"
Retries(w) == err[w] = "notstarted" /\ try[w] = 1

\* A cancelled worker goes without a word; the others report how they ended.
WorkerVerdict(w) ==
  /\ IF ~live[w]
     THEN Advance(w, "verdict", "gone") /\ playback' = NoWorker
     ELSE /\ UNCHANGED playback
          /\ Advance(w, "verdict",
                     IF Retries(w) THEN "backoff" ELSE "send")
  /\ UNCHANGED <<handlerVars, muVars, loopVars, gen, live, try, err, open>>

WorkerBackoff(w) ==
  /\ \/ ~live[w] /\ Advance(w, "backoff", "gone") /\ playback' = NoWorker /\ UNCHANGED try
     \/ /\ Advance(w, "backoff", "open")
        /\ try' = [try EXCEPT ![w] = 2]
        /\ UNCHANGED playback
  /\ UNCHANGED <<handlerVars, muVars, loopVars, gen, live, err, open>>

\* The channel may be full; r.done lets the worker go without sending. The
\* mutant never gives up.
EndHasRoom == Len(end) < EndCap

NeverGivesUp == FALSE
GivesUp == closed

WorkerSend(w) ==
  /\ Advance(w, "send", "gone")
  /\ playback' = NoWorker
  /\ \/ EndHasRoom /\ end' = Append(end, [gen |-> gen[w], err |-> err[w]])
     \/ GivesUp /\ UNCHANGED end
  /\ UNCHANGED <<handlerVars, muVars, closed, closer, loop, gen, live, try, err, open>>

Worker(w) ==
  \/ WorkerLock(w) \/ WorkerOpen(w) \/ WorkerConnect(w) \/ WorkerAttach(w)
  \/ WorkerSetup(w) \/ WorkerProgress(w) \/ WorkerStreamEnds(w) \/ WorkerClose(w)
  \/ AfterFunc(w) \/ WorkerVerdict(w) \/ WorkerBackoff(w) \/ WorkerSend(w)

Next ==
  \/ ClientLock \/ Handler \/ Loop \/ CloseLock \/ CloseReturn
  \/ \E w \in Workers : Worker(w)

Spec == Init /\ [][Next]_vars

-----------------------------------------------------------------------------
(* Fairness. A handler that holds the mutex runs on: nothing in it waits for *)
(* a worker. Requests are finite in number, so a mutex is free for good in   *)
(* the end and weak fairness is enough for those that wait for it. Calls on  *)
(* the receiver have timeouts and fail when the session is closed under      *)
(* them: a worker always leaves setup, and a stream reports progress or      *)
(* fails, but a stream whose session is open may go on for ever.             *)

Promptly(w) ==
  \/ WorkerLock(w) \/ WorkerOpen(w) \/ WorkerConnect(w) \/ WorkerAttach(w)
  \/ WorkerSetup(w) \/ WorkerClose(w) \/ WorkerVerdict(w) \/ WorkerBackoff(w)
  \/ WorkerSend(w)
  \/ Own(w) \notin open /\ WorkerStreamEnds(w)

Fairness ==
  /\ WF_vars(Handler)
  /\ WF_vars(LoopReceive \/ LoopEvent \/ LoopDeadline \/ LoopDone)
  /\ WF_vars(CloseReturn)
  /\ \A w \in Workers :
       WF_vars(Promptly(w)) /\ WF_vars(WorkerProgress(w)) /\ WF_vars(AfterFunc(w))

FairSpec == Spec /\ Fairness

-----------------------------------------------------------------------------
(* Properties.                                                             *)

\* At most one receiver session is open, however starts, cancels, reconnects
\* and the deferred closes interleave: a worker connects only after the
\* previous worker has closed its session and given up the playback mutex.
OneTransport == \A s, t \in open : s = t

\* Whenever no handler is running, a session that is past its publication
\* belongs to the current generation: a reply to pause, seek or a new start
\* means the old transport is closed or was never published.
ReplyMeansQuiet ==
  commands = "free" =>
    \A w \in Workers :
      pc[w] \in {"setup", "stream"} /\ Own(w) \in open => gen[w] = generation

\* After Close has cancelled playback nothing plays again, although requests
\* in flight still take the mutex: PUT /playback-settings restarts only what
\* is busy, and a worker of an older generation reports no progress.
ClosedStaysQuiet ==
  closed /\ ~(commands = "close" /\ step = "cancel") => state \notin Busy

\* r.session is never a session of a superseded generation, so a volume
\* command never talks to a receiver that the user has left.
SessionIsCurrent == session # NoSession => gen[session[1]] = generation

\* Every start is resolved: it plays, fails, or is superseded, unless the queue
\* or a mode is edited before its continuous session is published: no restart
\* follows such an edit, and the progress of the old plan is not shown.
LoadingResolves == state = "loading" ~> state # "loading" \/ ~Heeds

\* Close returns: the loop and every worker find out and go, also a worker
\* that is blocked on a full channel while it holds the playback mutex. From
\* then on there is no worker, no event loop and no open session.
CloseCompletes ==
  closer = "waiting" ~>
    [](/\ closer = "returned" /\ loop = "gone" /\ open = {}
       /\ \A w \in Workers : pc[w] \in {"idle", "gone"})

\* The player that clients see. An end is outstanding from the worker's send to
\* the end of the loop's turn, and being acted on until playback is cancelled.
EndsOutstanding ==
  {end[i].gen : i \in DOMAIN end}
    \cup (IF loop = "event" THEN {event.gen} ELSE {})
EndTaken == IF step = "cancel" /\ after = "next" THEN event.gen ELSE 0

Player == INSTANCE Transport WITH
  request <- generation,
  mode <- state,
  heard <- {gen[s[1]] : s \in open},
  ended <- EndsOutstanding,
  turn <- EndTaken

ImplementsTransport == Player!Spec
=============================================================================
