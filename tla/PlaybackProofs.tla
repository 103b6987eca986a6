--------------------------- MODULE PlaybackProofs ---------------------------
(***************************************************************************)
(* Proofs about Playback for every number of workers and requests and      *)
(* every capacity of the channel.                                          *)
(*                                                                         *)
(* Each safety property is inductive only together with a few facts about  *)
(* where the handler and the workers stand. The facts are stated below,    *)
(* one group per property; every lemma goes through the actions once.      *)
(***************************************************************************)
EXTENDS Playback, TLAPS

-----------------------------------------------------------------------------
(* The inductive strengthenings.                                           *)

\* The steps at which a worker holds the playback mutex, and those at which
\* its session may be open.
Holding == {"open", "connect", "attach", "setup", "stream", "close",
            "verdict", "backoff", "send"}
Connected == {"attach", "setup", "stream", "close"}

\* A worker between its lock and its exit is the one that holds the mutex.
HolderIsOwner == \A w \in Workers : pc[w] \in Holding => playback = w

\* An open session belongs to a connected worker, and to its present attempt.
OpenIsOwned == \A s \in open : pc[s[1]] \in Connected /\ s[2] = try[s[1]]

\* The worker that Begin will start has not run yet.
NextIsFresh ==
  /\ \A w \in Workers : w > starts => pc[w] = "idle"
  /\ after = "begin" => step \in {"cancel", "unwind", "close"}
  /\ step = "begin" \/ after = "begin" =>
       starts \in Workers /\ pc[starts] = "idle"

TransportInv == HolderIsOwner /\ OpenIsOwned /\ NextIsFresh

\* Close has taken the mutex and is about to cancel playback.
Closing == commands = "close" /\ step = "cancel"

\* No worker is ahead of the generation; after Close each of them is behind.
GenerationBounds ==
  /\ \A w \in Workers : gen[w] <= generation
  /\ closed /\ ~Closing => \A w \in Workers : gen[w] < generation

\* After Close no handler is on its way to start().
NoStartAfterClose ==
  closed => /\ step \notin {"start", "begin", "next"}
            /\ after \notin {"start", "begin", "next"}

QuietInv == GenerationBounds /\ NoStartAfterClose /\ ClosedStaysQuiet

\* A worker whose published session is open.
Sounding(w) == pc[w] \in {"setup", "stream"} /\ Own(w) \in open

\* The open session of the current generation is the published one; one of an
\* older generation is the one that cancelPlayback took and is about to close.
FreeIsIdle == commands = "free" => step = "idle"
SoundingIsKnown ==
  \A w \in Workers : Sounding(w) =>
    IF gen[w] = generation THEN session = Own(w)
    ELSE step \in {"unwind", "close"} /\ taken.session = Own(w)

ReplyInv == FreeIsIdle /\ SoundingIsKnown

\* The steps that a handler reaches through the mu section of cancelPlayback
\* only, up to the one that sets state again.
Cancelled == {"unwind", "close", "begin", "next", "rest", "stop", "giveup"}

\* No worker is ahead of the generation, and one that was started has a counted
\* one; while the player rests each of them is behind, and between
\* cancelPlayback and the next start the player rests.
GenerationIsCounted ==
  \A w \in Workers : gen[w] <= generation /\ (pc[w] # "idle" => 1 <= gen[w])
RestIsBehind ==
  state \in Resting => \A w \in Workers : pc[w] # "idle" => gen[w] < generation
CancelledRests == step \in Cancelled => state \in Resting /\ generation > 0

\* What cancelPlayback took is of an older generation, so neither the cancelled
\* context nor the closed session is one of the current generation, and a
\* stream of the current generation has its session open.
TakenIsOld ==
  step \in {"unwind", "close"} =>
    \A w \in Workers :
      w = taken.cancel \/ (\E i \in Attempts : taken.session = <<w, i>>)
        => gen[w] < generation
LiveIsCurrent ==
  \A w \in Workers : pc[w] # "idle" /\ gen[w] = generation => live[w]
StreamIsOpen ==
  \A w \in Workers :
    pc[w] = "stream" /\ gen[w] = generation => Own(w) \in open

\* The ends on their way are of counted generations; the one that the loop
\* cancels playback for is of the current one.
EventsAreCounted ==
  /\ \A i \in DOMAIN end : end[i].gen \in 1..generation
  /\ loop = "event" => event.gen \in 1..generation
TurnIsCurrent ==
  step = "cancel" /\ after = "next" => loop = "event" /\ event.gen = generation

PlayerInv ==
  /\ GenerationIsCounted /\ RestIsBehind /\ CancelledRests
  /\ TakenIsOld /\ LiveIsCurrent /\ StreamIsOpen
  /\ EventsAreCounted /\ TurnIsCurrent

-----------------------------------------------------------------------------
(* Types.                                                                  *)

USE DEF NoWorker

LEMMA TypeInit == Init => TypeOK
<1> SUFFICES ASSUME Init PROVE TypeOK
  OBVIOUS
<1> USE DEF Init
<1>1. step \in HandlerSteps /\ after \in HandlerSteps
  BY DEF HandlerSteps
<1>2. taken \in [cancel : Workers \cup {NoWorker},
                 session : Sessions \cup {NoSession}]
  OBVIOUS
<1>3. event \in Events
  BY DEF NoEvent, Events, Outcomes
<1>4. requests \in 0..MaxRequests /\ starts \in 0..MaxStarts
  BY PlaybackAssumption
<1>5. end \in Seq(Events) /\ Len(end) <= EndCap
  BY PlaybackAssumption
<1>6. pc \in [Workers -> WorkerSteps]
  BY DEF WorkerSteps
<1>7. /\ try \in [Workers -> Attempts]
      /\ err \in [Workers -> Outcomes]
      /\ live \in [Workers -> BOOLEAN]
  BY DEF Attempts, Outcomes
<1> QED
  BY <1>1, <1>2, <1>3, <1>4, <1>5, <1>6, <1>7 DEF TypeOK

LEMMA TypeHandler == TypeOK /\ (ClientLock \/ Handler \/ CloseLock) => TypeOK'
<1> SUFFICES ASSUME TypeOK, ClientLock \/ Handler \/ CloseLock PROVE TypeOK'
  OBVIOUS
<1> USE DEF TypeOK, handlerVars, muVars, loopVars, workerVars, Goto, CancelThen
<1>1. CASE ClientLock
  BY <1>1, PlaybackAssumption DEF ClientLock, HandlerSteps
<1>2. CASE ClientRefused \/ ClientEdit \/ ClientRestart
  BY <1>2 DEF ClientRefused, ClientEdit, ClientRestart, EditInPlace,
              HandlerSteps
<1>3. CASE ClientHalt \/ ClientPlay \/ ClientSettings
  BY <1>3 DEF ClientHalt, ClientPlay, ClientSettings, HandlerSteps
<1>4. CASE StartAccepted \/ StartRejected
  <2>1. starts' \in 0..MaxStarts
    BY <1>4, PlaybackAssumption DEF StartAccepted, StartRejected
  <2> QED
    BY <1>4, <2>1 DEF StartAccepted, StartRejected, HandlerSteps
<1>5. CASE CancelTake
  BY <1>5 DEF CancelTake, Resting, HandlerSteps
<1>6. CASE CancelContext
  BY <1>6 DEF CancelContext, HandlerSteps
<1>7. CASE CancelClose
  BY <1>7 DEF CancelClose, HandlerSteps
<1>8. CASE Begin
  <2>1. step' \in HandlerSteps
    BY <1>8 DEF Begin, HandlerSteps
  <2>2. cancel' \in Workers \cup {NoWorker}
    BY <1>8, PlaybackAssumption DEF Begin, Workers
  <2>3. state' \in Resting \cup Busy
    BY <1>8 DEF Begin, Busy
  <2>4. pc' \in [Workers -> WorkerSteps]
    BY <1>8 DEF Begin, WorkerSteps
  <2>5. gen' \in [Workers -> Nat] /\ live' \in [Workers -> BOOLEAN]
    BY <1>8 DEF Begin
  <2> QED
    BY <1>8, <2>1, <2>2, <2>3, <2>4, <2>5 DEF Begin
<1>9. CASE LoopNext
  <2>1. step' \in HandlerSteps
    BY <1>9 DEF LoopNext, HandlerSteps
  <2>2. armed' \in BOOLEAN
    BY <1>9 DEF LoopNext
  <2> QED
    BY <1>9, <2>1, <2>2 DEF LoopNext
<1>10. CASE Settle
  <2>1. step' \in HandlerSteps
    BY <1>10 DEF Settle, HandlerSteps
  <2>2. state' \in Resting \cup Busy
    BY <1>10 DEF Settle, Resting
  <2>3. armed' \in BOOLEAN
    BY <1>10 DEF Settle
  <2> QED
    BY <1>10, <2>1, <2>2, <2>3 DEF Settle
<1>11. CASE Leave
  BY <1>11 DEF Leave, Events, NoEvent, Outcomes, HandlerSteps
<1>12. CASE CloseLock
  BY <1>12 DEF CloseLock, HandlerSteps
<1> QED
  BY <1>1, <1>2, <1>3, <1>4, <1>5, <1>6, <1>7, <1>8, <1>9, <1>10, <1>11, <1>12
  DEF Handler

LEMMA TypeLoop == TypeOK /\ (Loop \/ CloseReturn) => TypeOK'
<1> SUFFICES ASSUME TypeOK, Loop \/ CloseReturn PROVE TypeOK'
  OBVIOUS
<1> USE DEF TypeOK, handlerVars, muVars, loopVars, workerVars
<1>1. CASE LoopReceive
  <2>1. end' \in Seq(Events) /\ Len(end') <= EndCap /\ event' \in Events
    BY <1>1, PlaybackAssumption DEF LoopReceive
  <2> QED
    BY <1>1, <2>1 DEF LoopReceive
<1>2. CASE LoopEvent
  BY <1>2 DEF LoopEvent, Goto, CancelThen, HandlerSteps
<1>3. CASE LoopTick \/ LoopDone
  BY <1>3 DEF LoopTick, LoopDone
<1>4. CASE LoopDeadline
  <2>1. step' \in HandlerSteps /\ after' \in HandlerSteps
    BY <1>4 DEF LoopDeadline, Goto, CancelThen, HandlerSteps
  <2>2. armed' \in BOOLEAN /\ commands' = "loop"
    BY <1>4 DEF LoopDeadline
  <2> QED
    BY <1>4, <2>1, <2>2 DEF LoopDeadline
<1>5. CASE CloseReturn
  BY <1>5 DEF CloseReturn
<1> QED
  BY <1>1, <1>2, <1>3, <1>4, <1>5 DEF Loop

LEMMA TypeAdvance ==
  ASSUME NEW w \in Workers, NEW from, NEW to \in WorkerSteps,
         TypeOK, Advance(w, from, to)
  PROVE  pc' \in [Workers -> WorkerSteps]
BY DEF TypeOK, Advance

LEMMA TypeWorker ==
  ASSUME NEW w \in Workers, TypeOK, Worker(w) PROVE TypeOK'
<1>0. /\ \A to \in WorkerSteps : \A from : Advance(w, from, to) =>
           pc' \in [Workers -> WorkerSteps]
      /\ {"open", "connect", "attach", "setup", "stream", "close", "verdict",
          "backoff", "send", "gone"} \subseteq WorkerSteps
      /\ {"eof", "track", "notstarted", "transport"} \subseteq Outcomes
  BY TypeAdvance DEF WorkerSteps, Outcomes
<1>00. Own(w) \in Sessions
  BY DEF Own, Sessions, TypeOK
<1>1. CASE WorkerLock(w)
  <2>1. pc' \in [Workers -> WorkerSteps]
    BY <1>0, <1>1 DEF WorkerLock
  <2> QED
    BY <1>1, <2>1 DEF WorkerLock, TypeOK, handlerVars, muVars, loopVars
<1>2. CASE WorkerOpen(w)
  <2>1. pc' \in [Workers -> WorkerSteps]
    BY <1>0, <1>2 DEF WorkerOpen
  <2>2. err' \in [Workers -> Outcomes]
    BY <1>0, <1>2 DEF WorkerOpen, TypeOK
  <2> QED
    BY <1>2, <2>1, <2>2 DEF WorkerOpen, TypeOK, handlerVars, muVars, loopVars
<1>3. CASE WorkerConnect(w)
  <2>1. pc' \in [Workers -> WorkerSteps]
    BY <1>0, <1>3 DEF WorkerConnect
  <2>2. err' \in [Workers -> Outcomes] /\ open' \in SUBSET Sessions
    BY <1>0, <1>00, <1>3 DEF WorkerConnect, TypeOK
  <2> QED
    BY <1>3, <2>1, <2>2
    DEF WorkerConnect, TypeOK, handlerVars, muVars, loopVars
<1>4. CASE WorkerAttach(w)
  <2>1. pc' \in [Workers -> WorkerSteps]
    BY <1>0, <1>4 DEF WorkerAttach
  <2>2. err' \in [Workers -> Outcomes] /\ session' \in Sessions \cup {NoSession}
    BY <1>0, <1>00, <1>4 DEF WorkerAttach, TypeOK
  <2> QED
    BY <1>4, <2>1, <2>2 DEF WorkerAttach, TypeOK, handlerVars, loopVars
<1>5. CASE WorkerSetup(w)
  <2>1. pc' \in [Workers -> WorkerSteps]
    BY <1>0, <1>5 DEF WorkerSetup
  <2>2. err' \in [Workers -> Outcomes]
    BY <1>0, <1>5 DEF WorkerSetup, TypeOK
  <2> QED
    BY <1>5, <2>1, <2>2 DEF WorkerSetup, TypeOK, handlerVars, muVars, loopVars
<1>6. CASE WorkerProgress(w)
  BY <1>6 DEF WorkerProgress, TypeOK, Busy, handlerVars, loopVars, workerVars
<1>7. CASE WorkerStreamEnds(w)
  <2>1. pc' \in [Workers -> WorkerSteps]
    BY <1>0, <1>7 DEF WorkerStreamEnds
  <2>2. err' \in [Workers -> Outcomes]
    BY <1>7 DEF WorkerStreamEnds, TypeOK
  <2> QED
    BY <1>7, <2>1, <2>2
    DEF WorkerStreamEnds, TypeOK, handlerVars, muVars, loopVars
<1>8. CASE WorkerClose(w)
  <2>1. pc' \in [Workers -> WorkerSteps]
    BY <1>0, <1>8 DEF WorkerClose
  <2> QED
    BY <1>8, <2>1 DEF WorkerClose, TypeOK, handlerVars, muVars, loopVars
<1>9. CASE AfterFunc(w)
  BY <1>9 DEF AfterFunc, TypeOK, handlerVars, muVars, loopVars, workerVars
<1>10. CASE WorkerVerdict(w)
  <2>1. pc' \in [Workers -> WorkerSteps]
    BY <1>0, <1>10 DEF WorkerVerdict
  <2> QED
    BY <1>10, <2>1 DEF WorkerVerdict, TypeOK, handlerVars, muVars, loopVars
<1>11. CASE WorkerBackoff(w)
  <2>1. pc' \in [Workers -> WorkerSteps]
    BY <1>0, <1>11 DEF WorkerBackoff
  <2>2. try' \in [Workers -> Attempts]
    BY <1>11 DEF WorkerBackoff, TypeOK, Attempts
  <2> QED
    BY <1>11, <2>1, <2>2
    DEF WorkerBackoff, TypeOK, handlerVars, muVars, loopVars
<1>12. CASE WorkerSend(w)
  <2>1. pc' \in [Workers -> WorkerSteps]
    BY <1>0, <1>12 DEF WorkerSend
  <2>2. [gen |-> gen[w], err |-> err[w]] \in Events
    BY DEF Events, TypeOK
  <2>3. end' \in Seq(Events)
    <3>1. end \in Seq(Events)
      BY DEF TypeOK
    <3>2. end' = Append(end, [gen |-> gen[w], err |-> err[w]]) \/ end' = end
      BY <1>12 DEF WorkerSend
    <3> QED
      BY <2>2, <3>1, <3>2
  <2>4. Len(end') <= EndCap
    BY <1>12, <2>2, PlaybackAssumption DEF WorkerSend, EndHasRoom, TypeOK
  <2> QED
    BY <1>12, <2>1, <2>3, <2>4 DEF WorkerSend, TypeOK, handlerVars, muVars
<1> QED
  BY <1>1, <1>2, <1>3, <1>4, <1>5, <1>6, <1>7, <1>8, <1>9, <1>10, <1>11, <1>12
  DEF Worker

LEMMA TypeStep == TypeOK /\ [Next]_vars => TypeOK'
<1> SUFFICES ASSUME TypeOK, [Next]_vars PROVE TypeOK'
  OBVIOUS
<1>1. CASE UNCHANGED vars
  BY <1>1 DEF TypeOK, vars, handlerVars, muVars, loopVars, workerVars
<1> QED
  BY <1>1, TypeHandler, TypeLoop, TypeWorker DEF Next

\* Every variable keeps its type, and the channel r.end never holds more than
\* its capacity.
THEOREM TypeCorrect == Spec => []TypeOK
<1>1. Init => TypeOK
  BY TypeInit
<1>2. TypeOK /\ [Next]_vars => TypeOK'
  BY TypeStep
<1> QED
  BY <1>1, <1>2, PTL DEF Spec

-----------------------------------------------------------------------------
(* One transport.                                                          *)

LEMMA TransportInit == Init => TransportInv
BY DEF Init, TransportInv, HolderIsOwner, OpenIsOwned, NextIsFresh, Holding,
       Workers

\* A handler step starts a worker at most; it never opens a session.
LEMMA TransportHandler ==
  ASSUME TypeOK, TransportInv, ClientLock \/ Handler \/ CloseLock
  PROVE  TransportInv'
<1> USE DEF TransportInv, HolderIsOwner, OpenIsOwned, NextIsFresh
<1>1. CASE Begin
  <2>1. starts \in Workers /\ pc[starts] = "idle" /\ after # "begin"
    BY <1>1 DEF Begin, Goto
  <2>2. /\ pc' = [pc EXCEPT ![starts] = "queued"]
        /\ UNCHANGED <<open, try, playback, starts, after>>
        /\ step' = "leave"
    BY <1>1 DEF Begin, Goto, loopVars
  <2>3. HolderIsOwner'
    BY <2>1, <2>2 DEF TypeOK, Holding
  <2>4. OpenIsOwned'
    BY <2>1, <2>2 DEF TypeOK, Connected
  <2>5. NextIsFresh'
    BY <2>1, <2>2 DEF TypeOK, Workers
  <2> QED
    BY <2>3, <2>4, <2>5
<1>2. CASE StartAccepted \/ StartRejected
  <2>1. /\ UNCHANGED <<pc, playback, open, try>>
        /\ after # "begin"
        /\ step' = "cancel"
    BY <1>2 DEF StartAccepted, StartRejected, CancelThen, Goto, workerVars
  <2>2. \/ starts' = starts + 1 /\ starts < MaxStarts
        \/ starts' = starts /\ after' # "begin"
    BY <1>2 DEF StartAccepted, StartRejected, CancelThen
  <2>3. starts \in Nat /\ MaxStarts \in Nat /\ (starts < MaxStarts => starts + 1 \in Workers)
    BY PlaybackAssumption DEF TypeOK, Workers
  <2>4. \A w \in Workers : w \in Nat
    BY DEF Workers
  <2>5. NextIsFresh'
    <3>1. CASE starts' = starts + 1 /\ starts < MaxStarts
      BY <2>1, <2>3, <2>4, <3>1
    <3>2. CASE starts' = starts /\ after' # "begin"
      BY <2>1, <3>2
    <3> QED
      BY <2>2, <3>1, <3>2
  <2> QED
    BY <2>1, <2>5
<1>3. CASE CancelTake \/ CancelContext \/ CancelClose
  <2>1. UNCHANGED <<pc, playback, try, starts>> /\ open' \subseteq open
    BY <1>3 DEF CancelTake, CancelContext, CancelClose, workerVars
  <2>2. NextIsFresh'
    BY <1>3, <2>1 DEF CancelTake, CancelContext, CancelClose, Goto
  <2> QED
    BY <2>1, <2>2
<1>4. CASE \/ ClientLock \/ ClientRefused \/ ClientEdit \/ ClientRestart \/ ClientHalt
           \/ ClientPlay \/ ClientSettings \/ LoopNext \/ Settle \/ Leave
           \/ CloseLock
  <2>1. UNCHANGED <<pc, playback, try, starts, open>>
    BY <1>4 DEF ClientLock, ClientRefused, ClientEdit, ClientRestart,
                EditInPlace, ClientHalt, ClientPlay, ClientSettings, LoopNext,
                Settle, Leave, CloseLock, workerVars
  <2>2. step' # "begin" /\ after' # "begin"
    BY <1>4 DEF ClientLock, ClientRefused, ClientEdit, ClientRestart,
                EditInPlace, ClientHalt, ClientPlay, ClientSettings, LoopNext,
                Settle, Leave, CloseLock, Goto, CancelThen
  <2> QED
    BY <2>1, <2>2
<1> QED
  BY <1>1, <1>2, <1>3, <1>4 DEF Handler

LEMMA TransportLoop ==
  ASSUME TypeOK, TransportInv, Loop \/ CloseReturn
  PROVE  TransportInv'
<1>1. UNCHANGED <<pc, playback, try, starts, open>>
  BY DEF Loop, LoopReceive, LoopEvent, LoopTick, LoopDeadline, LoopDone,
         CloseReturn, workerVars, handlerVars
<1>2. CASE LoopReceive \/ LoopTick \/ LoopDone \/ CloseReturn
  <2>1. UNCHANGED <<step, after>>
    BY <1>2 DEF LoopReceive, LoopTick, LoopDone, CloseReturn, handlerVars
  <2> QED
    BY <1>1, <2>1 DEF TransportInv, HolderIsOwner, OpenIsOwned, NextIsFresh
<1>3. CASE LoopEvent \/ LoopDeadline
  <2>1. step = "idle" /\ after # "begin"
    BY <1>3 DEF LoopEvent, LoopDeadline, Goto, CancelThen, TransportInv,
                NextIsFresh
  <2>2. step' # "begin" /\ after' # "begin"
    BY <1>3, <2>1 DEF LoopEvent, LoopDeadline, Goto, CancelThen
  <2> QED
    BY <1>1, <2>2 DEF TransportInv, HolderIsOwner, OpenIsOwned, NextIsFresh
<1> QED
  BY <1>2, <1>3 DEF Loop

\* Worker w changes its own program counter and nobody else's, and it was
\* started, so it is not the fresh one.
LEMMA WorkerMoves ==
  ASSUME NEW w \in Workers, TypeOK, Worker(w)
  PROVE  /\ pc[w] # "idle" /\ pc'[w] # "idle"
         /\ \A v \in Workers : v # w => pc'[v] = pc[v]
         /\ UNCHANGED <<starts, step, after>>
         /\ \A v \in Workers : v # w => try'[v] = try[v]
<1> USE DEF TypeOK
<1>1. UNCHANGED <<starts, step, after>>
  BY DEF Worker, WorkerLock, WorkerOpen, WorkerConnect, WorkerAttach,
         WorkerSetup, WorkerProgress, WorkerStreamEnds, WorkerClose, AfterFunc,
         WorkerVerdict, WorkerBackoff, WorkerSend, handlerVars
<1>2. \A v \in Workers : v # w => try'[v] = try[v]
  BY DEF Worker, WorkerLock, WorkerOpen, WorkerConnect, WorkerAttach,
         WorkerSetup, WorkerProgress, WorkerStreamEnds, WorkerClose, AfterFunc,
         WorkerVerdict, WorkerBackoff, WorkerSend, workerVars
<1>3. \/ UNCHANGED pc /\ pc[w] # "idle"
      \/ \E from, to \in WorkerSteps \ {"idle"} : Advance(w, from, to)
  BY DEF Worker, WorkerLock, WorkerOpen, WorkerConnect, WorkerAttach,
         WorkerSetup, WorkerProgress, WorkerStreamEnds, WorkerClose, AfterFunc,
         WorkerVerdict, WorkerBackoff, WorkerSend, workerVars, WorkerSteps
<1> QED
  BY <1>1, <1>2, <1>3 DEF Advance

\* A worker that is past its lock excludes every other one; its session opens
\* in WorkerConnect and is closed before the worker reaches its verdict.
LEMMA TransportWorker ==
  ASSUME NEW w \in Workers, TypeOK, TransportInv, Worker(w)
  PROVE  TransportInv'
<1> USE DEF TransportInv, HolderIsOwner, OpenIsOwned
<1>1. /\ pc[w] # "idle" /\ pc'[w] # "idle"
      /\ \A v \in Workers : v # w => pc'[v] = pc[v] /\ try'[v] = try[v]
      /\ UNCHANGED <<starts, step, after>>
  BY WorkerMoves
<1>2. NextIsFresh'
  BY <1>1 DEF NextIsFresh
<1>3. /\ open \subseteq Sessions
      /\ \A s \in open : s[1] \in Workers /\ s = <<s[1], s[2]>>
      /\ \A s \in open : s[1] # w => s[1] \in Workers \ {w}
  BY DEF TypeOK, Sessions
\* The steps that hold on to the playback mutex, or never had it.
<1>4. ASSUME UNCHANGED playback, pc[w] \in Holding \/ pc'[w] \notin Holding
      PROVE  HolderIsOwner'
  BY <1>1, <1>4
\* The steps of the session that leave it to the same attempt.
<1>5. ASSUME open' \subseteq open, UNCHANGED try, pc'[w] \in Connected
      PROVE  OpenIsOwned'
  BY <1>1, <1>3, <1>5
<1>6. CASE WorkerLock(w)
  <2>1. pc[w] = "queued" /\ UNCHANGED <<open, try>>
    BY <1>6 DEF WorkerLock, Advance
  <2>2. OpenIsOwned'
    BY <1>1, <1>3, <2>1 DEF Connected
  <2>3. CASE live[w]
    <3>1. playback = NoWorker /\ playback' = w
      BY <1>6, <2>3 DEF WorkerLock, PlaybackFree
    <3>2. \A v \in Workers : pc[v] \notin Holding
      BY <3>1 DEF Workers
    <3> QED
      BY <1>1, <1>2, <2>2, <3>1, <3>2
  <2>4. CASE ~live[w]
    <3>1. UNCHANGED playback /\ pc'[w] = "gone"
      BY <1>6, <2>4 DEF WorkerLock, Advance, TypeOK
    <3> QED
      BY <1>2, <1>4, <2>2, <3>1 DEF Holding
  <2> QED
    BY <2>3, <2>4
<1>7. CASE WorkerOpen(w) \/ WorkerVerdict(w) \/ WorkerBackoff(w) \/ WorkerSend(w)
  <2>1. pc[w] \in Holding \ Connected /\ UNCHANGED open
    BY <1>7 DEF WorkerOpen, WorkerVerdict, WorkerBackoff, WorkerSend, Advance,
                Holding, Connected
  <2>2. OpenIsOwned'
    BY <1>1, <1>3, <2>1
  <2>3. playback' = playback \/ (playback' = NoWorker /\ pc'[w] = "gone")
    <3>1. CASE WorkerOpen(w)
      BY <3>1 DEF WorkerOpen
    <3>2. CASE WorkerVerdict(w)
      BY <3>2 DEF WorkerVerdict, Advance, TypeOK
    <3>3. CASE WorkerBackoff(w)
      BY <3>3 DEF WorkerBackoff, Advance, TypeOK
    <3>4. CASE WorkerSend(w)
      BY <3>4 DEF WorkerSend, Advance, TypeOK
    <3> QED
      BY <1>7, <3>1, <3>2, <3>3, <3>4
  <2>4. \A v \in Workers : v # w => pc[v] \notin Holding
    BY <2>1
  <2>5. HolderIsOwner'
    BY <1>1, <1>4, <2>1, <2>3, <2>4 DEF Holding
  <2> QED
    BY <1>2, <2>2, <2>5
<1>8. CASE WorkerConnect(w)
  <2>1. /\ pc[w] = "connect" /\ UNCHANGED <<playback, try>>
        /\ \/ pc'[w] = "attach" /\ open' = open \cup {<<w, try[w]>>}
           \/ pc'[w] = "verdict" /\ open' = open
    BY <1>8 DEF WorkerConnect, Advance, TypeOK, Own
  <2>2. HolderIsOwner'
    BY <1>4, <2>1 DEF Holding
  <2>3. \A s \in open : s[1] # w
    BY <2>1 DEF Connected
  <2>4. OpenIsOwned'
    BY <1>1, <1>3, <2>1, <2>3 DEF Connected
  <2> QED
    BY <1>2, <2>2, <2>4
<1>9. CASE \/ WorkerAttach(w) \/ WorkerSetup(w) \/ WorkerProgress(w)
           \/ WorkerStreamEnds(w) \/ AfterFunc(w)
  <2>1. /\ pc[w] \in Connected /\ pc'[w] \in Connected
        /\ open' \subseteq open /\ UNCHANGED <<playback, try>>
    BY <1>9 DEF WorkerAttach, WorkerSetup, WorkerProgress, WorkerStreamEnds,
                AfterFunc, Advance, TypeOK, Connected, workerVars
  <2> QED
    BY <1>2, <1>4, <1>5, <2>1 DEF Connected, Holding
<1>10. CASE WorkerClose(w)
  <2>1. /\ pc[w] = "close" /\ UNCHANGED <<playback, try>>
        /\ open' = open \ {<<w, try[w]>>}
    BY <1>10 DEF WorkerClose, Advance, Own
  <2>2. HolderIsOwner'
    BY <1>4, <2>1 DEF Holding
  <2>3. \A s \in open' : s[1] # w
    BY <1>3, <2>1
  <2>4. OpenIsOwned'
    BY <1>1, <1>3, <2>1, <2>3
  <2> QED
    BY <1>2, <2>2, <2>4
<1> QED
  BY <1>6, <1>7, <1>8, <1>9, <1>10 DEF Worker

LEMMA TransportStep == TypeOK /\ TransportInv /\ [Next]_vars => TransportInv'
<1> SUFFICES ASSUME TypeOK, TransportInv, [Next]_vars PROVE TransportInv'
  OBVIOUS
<1>1. CASE UNCHANGED vars
  BY <1>1 DEF TransportInv, HolderIsOwner, OpenIsOwned, NextIsFresh, vars,
              handlerVars, workerVars
<1> QED
  BY <1>1, TransportHandler, TransportLoop, TransportWorker DEF Next

LEMMA TransportSafe == TypeOK /\ TransportInv => OneTransport
<1> SUFFICES ASSUME TypeOK, TransportInv, NEW s \in open, NEW t \in open
             PROVE  s = t
  BY DEF OneTransport
<1>1. /\ s[1] \in Workers /\ s = <<s[1], s[2]>>
      /\ t[1] \in Workers /\ t = <<t[1], t[2]>>
  BY DEF TypeOK, Sessions
<1>2. pc[s[1]] \in Holding /\ pc[t[1]] \in Holding
  BY DEF TransportInv, OpenIsOwned, Connected, Holding
<1>3. s[1] = playback /\ t[1] = playback
  BY <1>1, <1>2 DEF TransportInv, HolderIsOwner
<1>4. s[2] = try[s[1]] /\ t[2] = try[t[1]]
  BY DEF TransportInv, OpenIsOwned
<1> QED
  BY <1>1, <1>3, <1>4

\* At most one receiver session is ever open, for any number of overlapping
\* starts, cancels, reconnects and deferred closes.
THEOREM OneTransportHolds == Spec => []OneTransport
<1>1. Init => TypeOK /\ TransportInv
  BY TypeInit, TransportInit
<1>2. TypeOK /\ TransportInv /\ [Next]_vars => (TypeOK /\ TransportInv)'
  BY TypeStep, TransportStep
<1>3. TypeOK /\ TransportInv => OneTransport
  BY TransportSafe
<1> QED
  BY <1>1, <1>2, <1>3, PTL DEF Spec

-----------------------------------------------------------------------------
(* The published session.                                                  *)

LEMMA SessionStep == TypeOK /\ SessionIsCurrent /\ [Next]_vars => SessionIsCurrent'
<1> SUFFICES ASSUME TypeOK, SessionIsCurrent, [Next]_vars
             PROVE  SessionIsCurrent'
  OBVIOUS
<1>0. session # NoSession => session[1] \in Workers
  BY DEF TypeOK, Sessions
<1>1. ASSUME UNCHANGED <<generation, session, gen>> PROVE SessionIsCurrent'
  BY <1>1 DEF SessionIsCurrent
<1>2. CASE CancelTake
  BY <1>2 DEF CancelTake, SessionIsCurrent
<1>3. CASE Begin
  <2>1. /\ UNCHANGED <<generation, session>>
        /\ gen' = [gen EXCEPT ![starts] = generation]
    BY <1>3 DEF Begin
  <2> QED
    BY <1>0, <2>1 DEF SessionIsCurrent, TypeOK
<1>4. CASE \E w \in Workers : WorkerAttach(w)
  <2>1. PICK w \in Workers : WorkerAttach(w)
    BY <1>4
  <2>2. UNCHANGED <<generation, gen>>
    BY <2>1 DEF WorkerAttach
  <2>3. session' = session \/ (session' = <<w, try[w]>> /\ gen[w] = generation)
    BY <2>1 DEF WorkerAttach, Superseded, Own
  <2> QED
    BY <2>2, <2>3 DEF SessionIsCurrent
<1>5. CASE \/ ClientLock \/ Loop \/ CloseLock \/ CloseReturn \/ UNCHANGED vars
           \/ Handler /\ ~CancelTake /\ ~Begin
  <2>1. UNCHANGED <<generation, session, gen>>
    BY <1>5
    DEF ClientLock, Loop, CloseLock, CloseReturn, vars, Handler, LoopReceive,
        LoopEvent, LoopTick, LoopDeadline, LoopDone, ClientRefused, ClientEdit,
        ClientRestart, EditInPlace, ClientHalt, ClientPlay, ClientSettings,
        StartAccepted, StartRejected, CancelContext, CancelClose, LoopNext,
        Settle, Leave, muVars, workerVars
  <2> QED
    BY <1>1, <2>1
<1>6. ASSUME NEW w \in Workers, Worker(w), ~WorkerAttach(w)
      PROVE  UNCHANGED <<generation, session, gen>>
  BY <1>6
  DEF Worker, WorkerLock, WorkerOpen, WorkerConnect, WorkerSetup,
      WorkerProgress, WorkerStreamEnds, WorkerClose, AfterFunc, WorkerVerdict,
      WorkerBackoff, WorkerSend, muVars, workerVars
<1> QED
  BY <1>1, <1>2, <1>3, <1>4, <1>5, <1>6 DEF Next

\* r.session always belongs to the generation that is current: a volume
\* command cannot reach the receiver of a superseded start.
THEOREM SessionIsCurrentHolds == Spec => []SessionIsCurrent
<1>1. Init => TypeOK /\ SessionIsCurrent
  BY TypeInit DEF Init, SessionIsCurrent
<1>2. TypeOK /\ SessionIsCurrent /\ [Next]_vars => (TypeOK /\ SessionIsCurrent)'
  BY TypeStep, SessionStep
<1> QED
  BY <1>1, <1>2, PTL DEF Spec

-----------------------------------------------------------------------------
(* Quiet after Close.                                                      *)

LEMMA QuietInit == Init => QuietInv
BY DEF Init, QuietInv, GenerationBounds, NoStartAfterClose, ClosedStaysQuiet,
       Closing

\* Closing, and all that GenerationBounds speaks of, stays as it is.
LEMMA QuietHandler ==
  ASSUME TypeOK, QuietInv, ClientLock \/ Handler \/ CloseLock
  PROVE  QuietInv'
<1> USE DEF QuietInv, NoStartAfterClose
<1>1. /\ generation \in Nat
      /\ \A w \in Workers : gen[w] \in Nat
      /\ Resting \cap Busy = {}
      /\ closed \in BOOLEAN
  BY DEF TypeOK, Resting, Busy
\* The steps that touch neither the generations, nor state, nor closed, and
\* do not end Close's own cancelPlayback.
<1>2. ASSUME UNCHANGED <<closed, generation, gen, state>>, Closing => Closing'
      PROVE  GenerationBounds' /\ ClosedStaysQuiet'
  BY <1>2 DEF GenerationBounds, ClosedStaysQuiet, Closing
<1>3. CASE CancelTake
  <2>1. /\ generation' = generation + 1 /\ state' \in Resting
        /\ UNCHANGED <<closed, gen, after>> /\ step' = "unwind"
    BY <1>3 DEF CancelTake, Goto, loopVars, workerVars
  <2>2. GenerationBounds'
    BY <1>1, <2>1 DEF GenerationBounds
  <2>3. ClosedStaysQuiet'
    BY <1>1, <2>1 DEF ClosedStaysQuiet
  <2> QED
    BY <2>1, <2>2, <2>3
<1>4. CASE Begin
  <2>1. ~closed /\ step' = "leave" /\ UNCHANGED <<closed, generation>>
    BY <1>4 DEF Begin, Goto, loopVars
  <2>2. \A w \in Workers : gen'[w] = gen[w] \/ gen'[w] = generation
    BY <1>4 DEF Begin, TypeOK
  <2>3. GenerationBounds'
    BY <1>1, <2>1, <2>2 DEF GenerationBounds
  <2>4. ClosedStaysQuiet'
    BY <2>1 DEF ClosedStaysQuiet
  <2> QED
    BY <2>1, <2>3, <2>4
<1>5. CASE Settle
  <2>1. /\ UNCHANGED <<closed, generation, gen, after, commands>>
        /\ step # "cancel" /\ step' = "leave"
        /\ state' = state \/ state' \in Resting
    BY <1>5 DEF Settle, Resting, loopVars, workerVars
  <2>2. GenerationBounds'
    BY <2>1 DEF GenerationBounds, Closing
  <2>3. ClosedStaysQuiet'
    BY <1>1, <2>1 DEF ClosedStaysQuiet
  <2> QED
    BY <2>1, <2>2, <2>3
<1>6. CASE CloseLock
  <2>1. /\ UNCHANGED <<generation, gen>>
        /\ commands' = "close" /\ step' = "cancel" /\ after' = "rest"
    BY <1>6 DEF CloseLock, CancelThen, Goto, muVars, workerVars
  <2> QED
    BY <2>1 DEF GenerationBounds, ClosedStaysQuiet, Closing
<1>7. CASE ClientSettings
  <2>1. /\ UNCHANGED <<closed, generation, gen, state, commands>>
        /\ commands = "client"
    BY <1>7 DEF ClientSettings, muVars, loopVars, workerVars
  <2>2. GenerationBounds' /\ ClosedStaysQuiet'
    BY <1>2, <2>1 DEF Closing
  <2>3. closed => state \notin Busy
    BY <2>1 DEF ClosedStaysQuiet
  <2>4. NoStartAfterClose'
    BY <1>7, <2>1, <2>3 DEF ClientSettings, CancelThen, Goto
  <2> QED
    BY <2>2, <2>4
<1>8. CASE \/ ClientLock \/ ClientRefused \/ ClientEdit \/ ClientRestart \/ ClientHalt
           \/ ClientPlay \/ StartAccepted \/ StartRejected \/ LoopNext
           \/ CancelContext \/ CancelClose \/ Leave
  <2>1. UNCHANGED <<closed, generation, gen, state>>
    BY <1>8 DEF ClientLock, ClientRefused, ClientEdit, ClientRestart,
                EditInPlace, ClientHalt, ClientPlay, StartAccepted,
                StartRejected, LoopNext, CancelContext, CancelClose, Leave,
                muVars, loopVars, workerVars
  <2>2. NoStartAfterClose'
    BY <1>8, <2>1
    DEF ClientLock, ClientRefused, ClientEdit, ClientRestart, EditInPlace,
        ClientHalt, ClientPlay, Refused, StartAccepted, StartRejected, LoopNext,
        CancelContext, CancelClose, Leave, CancelThen, Goto
  <2>3. ~closed \/ (Closing => Closing')
    BY <1>8
    DEF ClientLock, ClientRefused, ClientEdit, ClientRestart, EditInPlace,
        ClientHalt, ClientPlay, Refused, StartAccepted, StartRejected, LoopNext,
        CancelContext, CancelClose, Leave, CancelThen, Goto, Closing
  <2>4. GenerationBounds' /\ ClosedStaysQuiet'
    BY <1>2, <2>1, <2>3 DEF GenerationBounds, ClosedStaysQuiet
  <2> QED
    BY <2>2, <2>4
<1> QED
  BY <1>3, <1>4, <1>5, <1>6, <1>7, <1>8 DEF Handler

LEMMA QuietLoop ==
  ASSUME TypeOK, QuietInv, Loop \/ CloseReturn PROVE QuietInv'
<1>1. UNCHANGED <<closed, generation, gen, state>>
  BY DEF Loop, LoopReceive, LoopEvent, LoopTick, LoopDeadline, LoopDone,
         CloseReturn, muVars, loopVars, workerVars
<1>2. CASE LoopReceive \/ LoopTick \/ LoopDone \/ CloseReturn
  <2>1. UNCHANGED <<step, after, commands>>
    BY <1>2 DEF LoopReceive, LoopTick, LoopDone, CloseReturn, handlerVars
  <2> QED
    BY <1>1, <2>1
    DEF QuietInv, GenerationBounds, NoStartAfterClose, ClosedStaysQuiet, Closing
<1>3. CASE LoopEvent
  <2>1. commands = "free" /\ commands' = "loop"
    BY <1>3 DEF LoopEvent
  <2>2. NoStartAfterClose'
    BY <1>1, <1>3 DEF LoopEvent, Heeded, CancelThen, Goto, QuietInv,
                      NoStartAfterClose
  <2> QED
    BY <1>1, <2>1, <2>2
    DEF QuietInv, GenerationBounds, ClosedStaysQuiet, Closing
<1>4. CASE LoopDeadline
  <2>1. commands = "free" /\ commands' = "loop"
    BY <1>4 DEF LoopDeadline
  <2>2. NoStartAfterClose'
    BY <1>1, <1>4 DEF LoopDeadline, CancelThen, Goto, QuietInv,
                      NoStartAfterClose
  <2> QED
    BY <1>1, <2>1, <2>2
    DEF QuietInv, GenerationBounds, ClosedStaysQuiet, Closing
<1> QED
  BY <1>2, <1>3, <1>4 DEF Loop

\* The only step of a worker that sets state is its report of progress, and
\* after Close every worker is behind the generation.
LEMMA QuietWorker ==
  ASSUME NEW w \in Workers, TypeOK, QuietInv, Worker(w) PROVE QuietInv'
<1>1. UNCHANGED <<closed, generation, gen, step, after, commands>>
  BY DEF Worker, WorkerLock, WorkerOpen, WorkerConnect, WorkerAttach,
         WorkerSetup, WorkerProgress, WorkerStreamEnds, WorkerClose, AfterFunc,
         WorkerVerdict, WorkerBackoff, WorkerSend, handlerVars, muVars,
         loopVars, workerVars
<1>2. UNCHANGED state \/ gen[w] = generation
  BY DEF Worker, WorkerLock, WorkerOpen, WorkerConnect, WorkerAttach,
         WorkerSetup, WorkerProgress, WorkerStreamEnds, WorkerClose, AfterFunc,
         WorkerVerdict, WorkerBackoff, WorkerSend, Superseded, muVars
<1>3. GenerationBounds' /\ NoStartAfterClose'
  BY <1>1 DEF QuietInv, GenerationBounds, NoStartAfterClose, Closing
<1>4. closed /\ ~Closing => gen[w] < generation /\ gen[w] \in Nat
  BY DEF QuietInv, GenerationBounds, TypeOK
<1>5. ClosedStaysQuiet'
  BY <1>1, <1>2, <1>4 DEF QuietInv, ClosedStaysQuiet, Closing, TypeOK
<1> QED
  BY <1>3, <1>5 DEF QuietInv

LEMMA QuietStep == TypeOK /\ QuietInv /\ [Next]_vars => QuietInv'
<1> SUFFICES ASSUME TypeOK, QuietInv, [Next]_vars PROVE QuietInv'
  OBVIOUS
<1>1. CASE UNCHANGED vars
  BY <1>1 DEF QuietInv, GenerationBounds, NoStartAfterClose, ClosedStaysQuiet,
              Closing, vars, handlerVars, muVars, loopVars, workerVars
<1> QED
  BY <1>1, QuietHandler, QuietLoop, QuietWorker DEF Next

\* Once Close has cancelled playback nothing is loading or playing again,
\* whatever requests and workers are still in flight.
THEOREM ClosedStaysQuietHolds == Spec => []ClosedStaysQuiet
<1>1. Init => TypeOK /\ QuietInv
  BY TypeInit, QuietInit
<1>2. TypeOK /\ QuietInv /\ [Next]_vars => (TypeOK /\ QuietInv)'
  BY TypeStep, QuietStep
<1>3. QuietInv => ClosedStaysQuiet
  BY DEF QuietInv
<1> QED
  BY <1>1, <1>2, <1>3, PTL DEF Spec
-----------------------------------------------------------------------------
(* What a reply means.                                                     *)

\* Where the holder of commands stands, and what it took, matters to nothing
\* but a session of an older generation.
LEMMA ReplyHandler ==
  ASSUME TypeOK, TransportInv, ReplyInv, ClientLock \/ Handler \/ CloseLock
  PROVE  ReplyInv'
<1> USE DEF ReplyInv, SoundingIsKnown, Sounding, Own
<1>1. FreeIsIdle'
  <2>1. CASE ClientLock \/ CloseLock
    BY <2>1 DEF ClientLock, CloseLock, FreeIsIdle
  <2>2. CASE Leave
    BY <2>2 DEF Leave, Goto, FreeIsIdle
  <2>3. CASE Handler /\ ~Leave
    <3>1. UNCHANGED commands /\ step # "idle"
      BY <2>3
      DEF Handler, ClientRefused, ClientEdit, ClientRestart, EditInPlace,
          ClientHalt, ClientPlay, ClientSettings, StartAccepted, StartRejected,
          CancelTake, CancelContext, CancelClose, Begin, LoopNext, Settle, Goto,
          CancelThen
    <3> QED
      BY <3>1 DEF FreeIsIdle
  <2> QED
    BY <2>1, <2>2, <2>3
<1>2. CASE CancelTake
  <2>1. /\ step = "cancel" /\ step' = "unwind"
        /\ taken'.session = session /\ generation' = generation + 1
        /\ UNCHANGED <<pc, gen, try, open>>
    BY <1>2 DEF CancelTake, Goto, workerVars
  <2>2. \A w \in Workers : Sounding(w) => session = Own(w) /\ gen[w] # generation + 1
    BY <2>1 DEF TypeOK
  <2> QED
    BY <1>1, <2>1, <2>2
<1>3. CASE CancelContext
  <2>1. /\ step = "unwind" /\ step' = "close"
        /\ UNCHANGED <<generation, session, taken, pc, gen, try, open>>
    BY <1>3 DEF CancelContext, Goto, muVars
  <2> QED
    BY <1>1, <2>1
<1>4. CASE CancelClose
  <2>1. /\ open' = open \ {taken.session}
        /\ UNCHANGED <<generation, session, pc, gen, try>>
    BY <1>4 DEF CancelClose, muVars, workerVars
  <2> QED
    BY <1>1, <2>1
<1>5. CASE Begin
  <2>1. /\ step = "begin" /\ pc[starts] = "idle" /\ starts \in Workers
        /\ UNCHANGED <<generation, session, open, try>>
        /\ pc' = [pc EXCEPT ![starts] = "queued"]
        /\ gen' = [gen EXCEPT ![starts] = generation]
    BY <1>5 DEF Begin, Goto, TransportInv, NextIsFresh
  <2>2. \A w \in Workers : Sounding(w)' =>
          w # starts /\ Sounding(w) /\ gen'[w] = gen[w]
    BY <2>1 DEF TypeOK
  <2> QED
    BY <1>1, <2>1, <2>2
<1>6. CASE ~(CancelTake \/ CancelContext \/ CancelClose \/ Begin)
  <2>1. /\ step \notin {"unwind", "close"}
        /\ UNCHANGED <<generation, session, pc, gen, try, open>>
    BY <1>6
    DEF ClientLock, CloseLock, Handler, ClientRefused, ClientEdit,
        ClientRestart, EditInPlace, ClientHalt, ClientPlay, ClientSettings,
        StartAccepted, StartRejected, LoopNext, Settle, Leave, Goto, CancelThen,
        muVars, workerVars
  <2> QED
    BY <1>1, <2>1
<1> QED
  BY <1>2, <1>3, <1>4, <1>5, <1>6

LEMMA ReplyLoop ==
  ASSUME ReplyInv, Loop \/ CloseReturn PROVE ReplyInv'
<1>1. UNCHANGED <<generation, session, taken, pc, gen, try, open>>
  BY DEF Loop, LoopReceive, LoopEvent, LoopTick, LoopDeadline, LoopDone,
         CloseReturn, handlerVars, muVars, workerVars
<1>2. \/ UNCHANGED <<commands, step>>
      \/ step = "idle" /\ commands' = "loop"
  BY DEF Loop, LoopReceive, LoopEvent, LoopTick, LoopDeadline, LoopDone,
         CloseReturn, handlerVars, Goto, CancelThen
<1> QED
  BY <1>1, <1>2 DEF ReplyInv, FreeIsIdle, SoundingIsKnown, Sounding, Own

\* A worker publishes its session under the current generation; until it has
\* closed the session no other worker is past its lock.
LEMMA ReplyWorker ==
  ASSUME NEW w \in Workers, TypeOK, TransportInv, ReplyInv, Worker(w)
  PROVE  ReplyInv'
<1> USE DEF ReplyInv, SoundingIsKnown, Sounding, Own
<1>1. UNCHANGED <<commands, step, taken, generation, gen>>
  BY DEF Worker, WorkerLock, WorkerOpen, WorkerConnect, WorkerAttach,
         WorkerSetup, WorkerProgress, WorkerStreamEnds, WorkerClose, AfterFunc,
         WorkerVerdict, WorkerBackoff, WorkerSend, handlerVars, muVars,
         workerVars
<1>2. FreeIsIdle'
  BY <1>1 DEF FreeIsIdle
<1>3. \A v \in Workers : v # w => pc'[v] = pc[v] /\ try'[v] = try[v]
  BY WorkerMoves
<1>4. CASE WorkerAttach(w)
  <2>1. pc[w] = "attach" /\ UNCHANGED <<try, open>>
    BY <1>4 DEF WorkerAttach, Advance
  <2>2. \A v \in Workers : v # w => ~Sounding(v)
    BY <2>1 DEF TransportInv, HolderIsOwner, Holding
  <2>3. \/ pc'[w] = "close"
        \/ session' = Own(w) /\ gen[w] = generation
    BY <1>4 DEF WorkerAttach, Advance, Superseded, TypeOK
  <2> QED
    BY <1>1, <1>2, <1>3, <2>1, <2>2, <2>3
<1>5. CASE WorkerConnect(w)
  <2>1. UNCHANGED <<session, try>> /\ pc'[w] \notin {"setup", "stream"}
        /\ open' \subseteq open \cup {Own(w)}
    BY <1>5 DEF WorkerConnect, Advance, TypeOK, muVars
  <2>2. \A v \in Workers : Sounding(v)' => Sounding(v)
    BY <1>3, <2>1
  <2> QED
    BY <1>1, <1>2, <2>1, <2>2
<1>6. CASE WorkerBackoff(w)
  <2>1. UNCHANGED <<session, open>> /\ pc'[w] \notin {"setup", "stream"}
    BY <1>6 DEF WorkerBackoff, Advance, TypeOK, muVars
  <2> QED
    BY <1>1, <1>2, <1>3, <2>1
<1>7. CASE ~(WorkerAttach(w) \/ WorkerConnect(w) \/ WorkerBackoff(w))
  <2>1. UNCHANGED <<session, try>> /\ open' \subseteq open
    BY <1>7
    DEF Worker, WorkerLock, WorkerOpen, WorkerSetup, WorkerProgress,
        WorkerStreamEnds, WorkerClose, AfterFunc, WorkerVerdict, WorkerSend,
        muVars, workerVars
  <2>2. pc'[w] \in {"setup", "stream"} => pc[w] \in {"setup", "stream"}
    BY <1>7
    DEF Worker, WorkerLock, WorkerOpen, WorkerSetup, WorkerProgress,
        WorkerStreamEnds, WorkerClose, AfterFunc, WorkerVerdict, WorkerSend,
        Advance, TypeOK, workerVars
  <2>3. \A v \in Workers : Sounding(v)' => Sounding(v)
    BY <1>3, <2>1, <2>2
  <2> QED
    BY <1>1, <1>2, <2>1, <2>3
<1> QED
  BY <1>4, <1>5, <1>6, <1>7

LEMMA ReplyStep ==
  TypeOK /\ TransportInv /\ ReplyInv /\ [Next]_vars => ReplyInv'
<1> SUFFICES ASSUME TypeOK, TransportInv, ReplyInv, [Next]_vars PROVE ReplyInv'
  OBVIOUS
<1>1. CASE UNCHANGED vars
  BY <1>1 DEF ReplyInv, FreeIsIdle, SoundingIsKnown, Sounding, Own, vars,
              handlerVars, muVars, workerVars
<1> QED
  BY <1>1, ReplyHandler, ReplyLoop, ReplyWorker DEF Next

\* Whenever no handler runs, a session that is past its publication and open is
\* of the current generation: the answer to a pause, a seek or a new start
\* means that the old transport is closed, or will never be published.
THEOREM ReplyMeansQuietHolds == Spec => []ReplyMeansQuiet
<1>1. Init => TypeOK /\ TransportInv /\ ReplyInv
  BY TypeInit, TransportInit
  DEF Init, ReplyInv, FreeIsIdle, SoundingIsKnown, Sounding
<1>2. TypeOK /\ TransportInv /\ ReplyInv /\ [Next]_vars
      => (TypeOK /\ TransportInv /\ ReplyInv)'
  BY TypeStep, TransportStep, ReplyStep
<1>3. ReplyInv => ReplyMeansQuiet
  BY DEF ReplyInv, FreeIsIdle, SoundingIsKnown, Sounding, ReplyMeansQuiet
<1> QED
  BY <1>1, <1>2, <1>3, PTL DEF Spec
-----------------------------------------------------------------------------
(* The player that clients see.                                            *)

LEMMA PlayerHandler ==
  ASSUME TypeOK, TransportInv, PlayerInv, ClientLock \/ Handler \/ CloseLock
  PROVE  PlayerInv'
<1> USE DEF PlayerInv, GenerationIsCounted, RestIsBehind, CancelledRests,
            TakenIsOld, LiveIsCurrent, StreamIsOpen, EventsAreCounted,
            TurnIsCurrent, Own
<1>1. /\ generation \in Nat
      /\ \A w \in Workers : gen[w] \in Nat
      /\ Resting \cap Busy = {}
  BY DEF TypeOK, Resting, Busy
<1>2. CASE CancelTake
  <2>1. /\ generation' = generation + 1 /\ state' \in Resting
        /\ step' = "unwind"
        /\ UNCHANGED <<pc, gen, live, try, open, end, loop, event>>
    BY <1>2 DEF CancelTake, Goto, workerVars, loopVars
  <2>2. /\ GenerationIsCounted' /\ RestIsBehind' /\ CancelledRests'
        /\ TakenIsOld' /\ LiveIsCurrent' /\ StreamIsOpen'
    BY <1>1, <2>1
  <2>3. EventsAreCounted' /\ TurnIsCurrent'
    BY <1>1, <2>1
  <2> QED
    BY <2>2, <2>3
<1>3. CASE CancelContext
  <2>1. /\ step = "unwind" /\ step' = "close"
        /\ live' = [w \in Workers |-> live[w] /\ w # taken.cancel]
        /\ UNCHANGED <<taken, generation, state, pc, gen, try, open, end, loop,
                       event>>
    BY <1>3 DEF CancelContext, Goto, muVars, loopVars
  <2>2. CancelledRests' /\ TakenIsOld'
    BY <2>1 DEF Cancelled
  <2>3. LiveIsCurrent'
    <3> SUFFICES ASSUME NEW w \in Workers, pc[w] # "idle", gen[w] = generation
                 PROVE  live'[w]
      BY <2>1
    <3>1. w # taken.cancel
      BY <1>1, <2>1
    <3>2. live[w]
      OBVIOUS
    <3>3. live'[w] = (live[w] /\ w # taken.cancel)
      BY <2>1, Zenon
    <3> QED
      BY <3>1, <3>2, <3>3, Zenon
  <2> QED
    BY <2>1, <2>2, <2>3
<1>4. CASE CancelClose
  <2>1. /\ step = "close" /\ after' = "idle"
        /\ open' = open \ {taken.session}
        /\ UNCHANGED <<generation, state, pc, gen, live, try, end, loop, event>>
    BY <1>4 DEF CancelClose, Goto, muVars, workerVars, loopVars
  <2>2. StreamIsOpen'
    <3>1. \A w \in Workers : try[w] \in Attempts
      BY DEF TypeOK
    <3>2. \A w \in Workers : Own(w) = taken.session => gen[w] < generation
      BY <2>1, <3>1
    <3> QED
      BY <1>1, <2>1, <3>2
  <2>3. CancelledRests'
    BY <2>1 DEF Cancelled
  <2>4. TakenIsOld'
    <3>1. taken' = [cancel |-> NoWorker, session |-> NoSession]
      BY <1>4 DEF CancelClose
    <3> QED
      BY <3>1 DEF Workers, NoSession
  <2> QED
    BY <2>1, <2>2, <2>3, <2>4
<1>5. CASE Begin
  <2>1. /\ step = "begin" /\ step' = "leave" /\ state' = "loading"
        /\ starts \in Workers /\ pc[starts] = "idle"
        /\ UNCHANGED <<generation, try, open, end, loop, event>>
    BY <1>5 DEF Begin, Goto, loopVars, TransportInv, NextIsFresh
  <2>2. state' \notin Resting /\ step' \notin Cancelled /\ generation > 0
    BY <2>1 DEF Resting, Cancelled
  <2>3. \A w \in Workers :
          \/ gen'[w] = generation /\ live'[w] /\ pc'[w] = "queued"
          \/ /\ gen'[w] = gen[w] /\ pc'[w] = pc[w] /\ live'[w] = live[w]
             /\ w # starts
    BY <1>5, <2>1 DEF Begin, TypeOK
  <2>4. GenerationIsCounted' /\ LiveIsCurrent' /\ StreamIsOpen'
    BY <1>1, <2>1, <2>2, <2>3
  <2> QED
    BY <1>1, <2>1, <2>2, <2>4
<1>6. CASE Settle
  <2>1. /\ step \in Cancelled /\ step' = "leave" /\ step' \notin Cancelled
        /\ UNCHANGED <<generation, pc, gen, live, try, open, end, loop, event>>
    BY <1>6 DEF Settle, Cancelled, workerVars, loopVars
  <2> QED
    BY <2>1
<1>7. CASE Leave
  <2>1. /\ step = "leave" /\ step' = "idle"
        /\ UNCHANGED <<generation, state, pc, gen, live, try, open, end>>
        /\ (loop' = "select" \/ UNCHANGED <<loop, event>>)
    BY <1>7 DEF Leave, Goto, muVars, workerVars
  <2> QED
    BY <2>1 DEF Cancelled
<1>8. CASE ~(\/ CancelTake \/ CancelContext \/ CancelClose \/ Begin \/ Settle
             \/ Leave)
  <2>1. UNCHANGED <<generation, state, pc, gen, live, try, open, end, loop, event>>
    BY <1>8
    DEF ClientLock, CloseLock, Handler, ClientRefused, ClientEdit,
        ClientRestart, EditInPlace, ClientHalt, ClientPlay, ClientSettings,
        StartAccepted, StartRejected, LoopNext, muVars, workerVars, loopVars
  <2>2. /\ step' \in Cancelled => step \in Cancelled
        /\ step' \notin {"unwind", "close"}
        /\ step' = "cancel" => after' # "next"
    BY <1>8
    DEF ClientLock, CloseLock, Handler, ClientRefused, ClientEdit,
        ClientRestart, EditInPlace, ClientHalt, ClientPlay, ClientSettings,
        StartAccepted, StartRejected, LoopNext, Goto, CancelThen, Cancelled
  <2> QED
    BY <2>1, <2>2
<1> QED
  BY <1>2, <1>3, <1>4, <1>5, <1>6, <1>7, <1>8

\* The first of a channel leaves it; the others stay.
LEMMA HeadLeaves ==
  ASSUME NEW S, NEW s \in Seq(S), s # <<>>
  PROVE  /\ \A i \in DOMAIN Tail(s) : i + 1 \in DOMAIN s /\ Tail(s)[i] = s[i + 1]
         /\ \A i \in DOMAIN s : i = 1 \/ (i - 1 \in DOMAIN Tail(s) /\ Tail(s)[i - 1] = s[i])
         /\ 1 \in DOMAIN s /\ Head(s) = s[1]
OBVIOUS

LEMMA PlayerLoop ==
  ASSUME TypeOK, PlayerInv, Loop \/ CloseReturn PROVE PlayerInv'
<1>1. UNCHANGED <<generation, state, taken, pc, gen, live, try, open>>
  BY DEF Loop, LoopReceive, LoopEvent, LoopTick, LoopDeadline, LoopDone,
         CloseReturn, handlerVars, muVars, workerVars
<1>2. UNCHANGED step \/ step' \in {"cancel", "leave"}
  BY DEF Loop, LoopReceive, LoopEvent, LoopTick, LoopDeadline, LoopDone,
         CloseReturn, handlerVars, Goto, CancelThen
<1>3. /\ GenerationIsCounted' /\ RestIsBehind' /\ CancelledRests'
      /\ TakenIsOld' /\ LiveIsCurrent' /\ StreamIsOpen'
  BY <1>1, <1>2
  DEF PlayerInv, GenerationIsCounted, RestIsBehind, CancelledRests, Cancelled,
      TakenIsOld, LiveIsCurrent, StreamIsOpen, Own
<1>4. EventsAreCounted' /\ TurnIsCurrent'
  <2> USE DEF PlayerInv, EventsAreCounted, TurnIsCurrent
  <2>1. CASE LoopReceive
    <3>1. /\ loop = "select" /\ end # <<>> /\ end' = Tail(end)
          /\ event' = Head(end) /\ UNCHANGED <<step, after>>
      BY <2>1 DEF LoopReceive
    <3>2. end \in Seq(Events)
      BY DEF TypeOK
    <3>3. EventsAreCounted'
      BY <1>1, <3>1, <3>2, HeadLeaves
    <3> QED
      BY <3>1, <3>3
  <2>2. CASE LoopEvent
    <3>1. loop = "event" /\ UNCHANGED <<loop, end, event>>
      BY <2>2 DEF LoopEvent, loopVars
    <3>2. step' = "cancel" => event.gen = generation
      BY <2>2 DEF LoopEvent, Heeded, CancelThen, Goto
    <3> QED
      BY <1>1, <3>1, <3>2
  <2>3. CASE LoopTick \/ LoopDone \/ CloseReturn
    <3>1. /\ UNCHANGED <<end, event, step, after>>
          /\ (loop = "select" /\ loop' # "event") \/ UNCHANGED loop
      BY <2>3 DEF LoopTick, LoopDone, CloseReturn, handlerVars
    <3> QED
      BY <1>1, <3>1
  <2>4. CASE LoopDeadline
    <3>1. /\ UNCHANGED <<end, event, loop>>
          /\ step' = "cancel" => after' = "rest"
      BY <2>4 DEF LoopDeadline, loopVars, CancelThen, Goto
    <3> QED
      BY <1>1, <3>1
  <2> QED
    BY <2>1, <2>2, <2>3, <2>4 DEF Loop
<1> QED
  BY <1>3, <1>4 DEF PlayerInv

\* What a worker sends is of its own generation.
LEMMA SendAppends ==
  ASSUME NEW w \in Workers, TypeOK, Worker(w)
  PROVE  \/ UNCHANGED end
         \/ /\ end' = Append(end, [gen |-> gen[w], err |-> err[w]])
            /\ pc[w] = "send"
            /\ UNCHANGED <<generation, state, gen, open, loop, step, after, event>>
BY DEF Worker, WorkerLock, WorkerOpen, WorkerConnect, WorkerAttach,
       WorkerSetup, WorkerProgress, WorkerStreamEnds, WorkerClose, AfterFunc,
       WorkerVerdict, WorkerBackoff, WorkerSend, Advance, loopVars,
       handlerVars, muVars

\* The only step of a worker that sets state is its report of progress, and no
\* worker may report while the player rests.
LEMMA PlayerWorker ==
  ASSUME NEW w \in Workers, TypeOK, TransportInv, PlayerInv, Worker(w)
  PROVE  PlayerInv'
<1>1. UNCHANGED <<generation, gen, live, taken, step, after, loop, event>>
  BY DEF Worker, WorkerLock, WorkerOpen, WorkerConnect, WorkerAttach,
         WorkerSetup, WorkerProgress, WorkerStreamEnds, WorkerClose, AfterFunc,
         WorkerVerdict, WorkerBackoff, WorkerSend, handlerVars, muVars,
         workerVars, loopVars
<1>2. /\ pc[w] # "idle"
      /\ \A v \in Workers : pc'[v] # "idle" => pc[v] # "idle"
      /\ \A v \in Workers : v # w => pc'[v] = pc[v] /\ try'[v] = try[v]
  BY WorkerMoves
<1>3. UNCHANGED state \/ WorkerProgress(w)
  BY DEF Worker, WorkerLock, WorkerOpen, WorkerConnect, WorkerAttach,
         WorkerSetup, WorkerStreamEnds, WorkerClose, AfterFunc, WorkerVerdict,
         WorkerBackoff, WorkerSend, muVars
<1>4. ASSUME WorkerProgress(w) PROVE state' \notin Resting /\ state \notin Resting
  <2>1. gen[w] = generation /\ pc[w] # "idle" /\ state' = "play"
    BY <1>4 DEF WorkerProgress, Superseded
  <2>2. gen[w] \in Nat
    BY DEF TypeOK
  <2> QED
    BY <2>1, <2>2 DEF PlayerInv, RestIsBehind, Resting
<1>5. /\ GenerationIsCounted' /\ RestIsBehind' /\ CancelledRests'
      /\ TakenIsOld' /\ LiveIsCurrent' /\ TurnIsCurrent'
  BY <1>1, <1>2, <1>3, <1>4
  DEF PlayerInv, GenerationIsCounted, RestIsBehind, CancelledRests, TakenIsOld,
      LiveIsCurrent, TurnIsCurrent
<1>6. EventsAreCounted'
  <2>1. 1 <= gen[w] /\ gen[w] <= generation /\ gen[w] \in Nat /\ generation \in Nat
    BY <1>2 DEF PlayerInv, GenerationIsCounted, TypeOK
  <2>2. end \in Seq(Events)
    BY DEF TypeOK
  <2>3. CASE UNCHANGED end
    BY <1>1, <2>3 DEF PlayerInv, EventsAreCounted
  <2>4. CASE end' = Append(end, [gen |-> gen[w], err |-> err[w]])
    <3>1. \A i \in DOMAIN end' : end'[i].gen \in 1..generation
      BY <2>1, <2>2, <2>4 DEF PlayerInv, EventsAreCounted
    <3> QED
      BY <1>1, <3>1 DEF PlayerInv, EventsAreCounted
  <2> QED
    BY <2>3, <2>4, SendAppends
<1>7. StreamIsOpen'
  <2> USE DEF PlayerInv, StreamIsOpen, Own
  <2>1. SUFFICES ASSUME NEW v \in Workers, pc'[v] = "stream", gen'[v] = generation'
                 PROVE  Own(v)' \in open'
    OBVIOUS
  <2>2. gen[v] = generation /\ live[v]
    BY <1>1, <1>2, <2>1 DEF LiveIsCurrent
  <2>3. CASE v # w
    <3>1. pc[v] = "stream" /\ try'[v] = try[v] /\ <<v, try[v]>> \in open
      BY <1>1, <1>2, <2>1, <2>3
    <3>2. open \ {Own(w)} \subseteq open'
      BY DEF Worker, WorkerLock, WorkerOpen, WorkerConnect, WorkerAttach,
             WorkerSetup, WorkerProgress, WorkerStreamEnds, WorkerClose,
             AfterFunc, WorkerVerdict, WorkerBackoff, WorkerSend
    <3> QED
      BY <2>3, <3>1, <3>2
  <2>4. CASE v = w /\ pc[w] = "stream"
    <3>1. WorkerProgress(w)
      BY <2>1, <2>2, <2>4
      DEF Worker, WorkerLock, WorkerOpen, WorkerConnect, WorkerAttach,
          WorkerSetup, WorkerStreamEnds, WorkerClose, AfterFunc,
          WorkerVerdict, WorkerBackoff, WorkerSend, Advance, TypeOK
    <3> QED
      BY <1>1, <2>1, <2>4, <3>1 DEF WorkerProgress, workerVars
  <2>5. CASE v = w /\ pc[w] # "stream"
    <3>1. WorkerSetup(w)
      BY <2>1, <2>5
      DEF Worker, WorkerLock, WorkerOpen, WorkerConnect, WorkerAttach,
          WorkerProgress, WorkerStreamEnds, WorkerClose, AfterFunc,
          WorkerVerdict, WorkerBackoff, WorkerSend, Advance, TypeOK, workerVars
    <3>2. Own(w) \in open /\ UNCHANGED <<open, try>>
      BY <2>1, <2>5, <3>1 DEF WorkerSetup, Advance, TypeOK
    <3> QED
      BY <2>5, <3>2
  <2> QED
    BY <2>3, <2>4, <2>5
<1> QED
  BY <1>5, <1>6, <1>7 DEF PlayerInv

LEMMA PlayerStep ==
  TypeOK /\ TransportInv /\ PlayerInv /\ [Next]_vars => PlayerInv'
<1> SUFFICES ASSUME TypeOK, TransportInv, PlayerInv, [Next]_vars
             PROVE  PlayerInv'
  OBVIOUS
<1>1. CASE UNCHANGED vars
  BY <1>1 DEF PlayerInv, GenerationIsCounted, RestIsBehind, CancelledRests,
              TakenIsOld, LiveIsCurrent, StreamIsOpen, EventsAreCounted,
              TurnIsCurrent, Own, vars, handlerVars, muVars, loopVars,
              workerVars
<1> QED
  BY <1>1, PlayerHandler, PlayerLoop, PlayerWorker DEF Next

Heard == {gen[s[1]] : s \in open}

\* Only a worker opens and closes sessions; while it is past its lock nobody
\* else's is open.
LEMMA ClosedIsSilent ==
  ASSUME TypeOK, TransportInv, NEW s, open' = open \ {s}, UNCHANGED gen
  PROVE  Heard' = Heard \/ (Heard # {} /\ Heard' = {})
<1>1. \A t, u \in open : t = u
  BY TransportSafe DEF OneTransport
<1>2. CASE s \in open
  <2>1. open = {s} /\ open' = {}
    BY <1>1, <1>2
  <2> QED
    BY <2>1 DEF Heard
<1>3. CASE s \notin open
  BY <1>3 DEF Heard
<1> QED
  BY <1>2, <1>3

LEMMA PlayerInit == Init => Player!Init
BY DEF Init, Player!Init, Resting, Player!Resting, EndsOutstanding, EndTaken

\* Outside the loop's cancelPlayback no end is being acted on.
LEMMA TurnElsewhere ==
  ASSUME step # "cancel" \/ after # "next", step' # "cancel" \/ after' # "next"
  PROVE  EndTaken = 0 /\ EndTaken' = 0
BY DEF EndTaken

\* A step of a handler is a request, the settling of one, a start, the end of
\* the request whose end was heeded, or the close of the session that was taken.
LEMMA PlayerHandlerMaps ==
  ASSUME TypeOK, TransportInv, PlayerInv, ClientLock \/ Handler \/ CloseLock
  PROVE  Player!Next \/ UNCHANGED Player!vars
<1> USE DEF Player!Next, Player!vars, Player!Resting, Resting
<1>1. CASE CancelTake
  <2>1. /\ step = "cancel" /\ step' = "unwind"
        /\ generation' = generation + 1 /\ state' \in Resting
        /\ UNCHANGED <<gen, open, end, loop, event>>
    BY <1>1 DEF CancelTake, Goto, workerVars, loopVars
  <2>2. EndTaken' = 0 /\ UNCHANGED EndsOutstanding
    BY <2>1 DEF EndTaken, EndsOutstanding
  <2>3. CASE after = "next"
    <3>1. EndTaken = generation /\ generation # 0
      BY <2>1, <2>3 DEF EndTaken, PlayerInv, TurnIsCurrent, EventsAreCounted,
                        TypeOK
    <3>2. Player!Finish
      BY <2>1, <2>2, <3>1 DEF Player!Finish
    <3> QED
      BY <3>2
  <2>4. CASE after # "next"
    <3>1. EndTaken = 0
      BY <2>4 DEF EndTaken
    <3>2. Player!Ask
      BY <2>1, <2>2, <3>1 DEF Player!Ask
    <3> QED
      BY <3>2
  <2> QED
    BY <2>3, <2>4
<1>2. CASE CancelClose
  <2>1. /\ open' = open \ {taken.session} /\ step = "close" /\ after' = "idle"
        /\ UNCHANGED <<generation, state, gen, end, loop, event>>
    BY <1>2 DEF CancelClose, Goto, muVars, workerVars, loopVars
  <2>2. Heard' = Heard \/ (Heard # {} /\ Heard' = {})
    BY <2>1, ClosedIsSilent
  <2>3. UNCHANGED <<EndTaken, EndsOutstanding>>
    BY <2>1 DEF EndTaken, EndsOutstanding
  <2> QED
    BY <2>1, <2>2, <2>3 DEF Heard, Player!Close
<1>3. CASE Begin
  <2>1. /\ step = "begin" /\ step' = "leave"
        /\ pc[starts] = "idle" /\ starts \in Workers
        /\ UNCHANGED <<generation, open, end, loop, event>> /\ state' = "loading"
        /\ gen' = [gen EXCEPT ![starts] = generation]
    BY <1>3 DEF Begin, Goto, TransportInv, NextIsFresh, loopVars
  <2>2. \A s \in open : s[1] \in Workers /\ s[1] # starts
    BY <2>1 DEF TransportInv, OpenIsOwned, Connected, TypeOK, Sessions
  <2>3. \A s \in open : gen'[s[1]] = gen[s[1]]
    BY <2>1, <2>2 DEF TypeOK
  <2>4. Heard' = Heard
    BY <2>1, <2>3 DEF Heard
  <2>5. state \in Resting
    BY <2>1 DEF PlayerInv, CancelledRests, Cancelled
  <2>6. EndTaken = 0 /\ UNCHANGED <<EndTaken, EndsOutstanding>>
    BY <2>1 DEF EndTaken, EndsOutstanding
  <2> QED
    BY <2>1, <2>4, <2>5, <2>6 DEF Heard, Player!Load
<1>4. CASE Settle
  <2>1. /\ step \in Cancelled /\ step' = "leave" /\ step # "cancel"
        /\ UNCHANGED <<generation, gen, open, end, loop, event>>
    BY <1>4 DEF Settle, Cancelled, workerVars, loopVars
  <2>2. state \in Resting
    BY <2>1 DEF PlayerInv, CancelledRests
  <2>3. state' \in Resting
    BY <1>4, <2>2 DEF Settle
  <2>4. UNCHANGED <<EndTaken, EndsOutstanding>>
    BY <2>1 DEF EndTaken, EndsOutstanding
  <2> QED
    BY <2>1, <2>2, <2>3, <2>4 DEF Player!Settle
<1>5. CASE Leave
  <2>1. /\ step = "leave" /\ step' = "idle"
        /\ UNCHANGED <<generation, state, gen, open, end>>
        /\ (loop' = "select" \/ UNCHANGED <<loop, event>>)
    BY <1>5 DEF Leave, Goto, muVars, workerVars
  <2>2. UNCHANGED EndTaken /\ EndsOutstanding' \subseteq EndsOutstanding
    BY <2>1 DEF EndTaken, EndsOutstanding
  <2>3. Player!Forget
    BY <2>1, <2>2 DEF Player!Forget
  <2> QED
    BY <2>3
<1>6. CASE ~(CancelTake \/ CancelClose \/ Begin \/ Settle \/ Leave)
  <2>1. UNCHANGED <<generation, state, gen, open, end, loop, event>>
    BY <1>6
    DEF ClientLock, CloseLock, Handler, ClientRefused, ClientEdit,
        ClientRestart, EditInPlace, ClientHalt, ClientPlay, ClientSettings,
        StartAccepted, StartRejected, CancelContext, LoopNext, muVars,
        workerVars, loopVars
  <2>2. step # "cancel" /\ (step' = "cancel" => after' # "next")
    BY <1>6
    DEF ClientLock, CloseLock, Handler, ClientRefused, ClientEdit,
        ClientRestart, EditInPlace, ClientHalt, ClientPlay, ClientSettings,
        StartAccepted, StartRejected, CancelContext, LoopNext, Goto, CancelThen
  <2>3. UNCHANGED <<EndTaken, EndsOutstanding>>
    BY <2>1, <2>2 DEF EndTaken, EndsOutstanding
  <2> QED
    BY <2>1, <2>3
<1> QED
  BY <1>1, <1>2, <1>3, <1>4, <1>5, <1>6

\* A step of a worker opens its session when there is none, closes it, reports
\* the progress of what is being loaded, or the end.
LEMMA PlayerWorkerMaps ==
  ASSUME NEW w \in Workers, TypeOK, TransportInv, PlayerInv, Worker(w)
  PROVE  Player!Next \/ UNCHANGED Player!vars
<1> USE DEF Player!Next, Player!vars
<1>0. /\ UNCHANGED <<generation, gen, step, after, loop, event>>
      /\ UNCHANGED EndTaken
  <2>1. UNCHANGED <<generation, gen, step, after, loop, event>>
    BY DEF Worker, WorkerLock, WorkerOpen, WorkerConnect, WorkerAttach,
           WorkerSetup, WorkerProgress, WorkerStreamEnds, WorkerClose,
           AfterFunc, WorkerVerdict, WorkerBackoff, WorkerSend, handlerVars,
           muVars, workerVars, loopVars
  <2> QED
    BY <2>1 DEF EndTaken
<1>01. UNCHANGED end => UNCHANGED EndsOutstanding
  BY <1>0 DEF EndsOutstanding
<1>1. CASE WorkerConnect(w)
  <2>1. /\ pc[w] = "connect"
        /\ open' = open \cup {<<w, try[w]>>} \/ open' = open
        /\ UNCHANGED <<state, end>>
    BY <1>1 DEF WorkerConnect, Advance, Own, muVars, loopVars
  <2>2. ASSUME NEW s \in open PROVE FALSE
    <3>1. s[1] \in Workers /\ pc[s[1]] \in Connected
      BY <2>2 DEF TypeOK, Sessions, TransportInv, OpenIsOwned
    <3>2. playback = w /\ playback = s[1]
      BY <2>1, <3>1 DEF TransportInv, HolderIsOwner, Holding, Connected
    <3> QED
      BY <2>1, <3>1, <3>2 DEF Connected
  <2>3. CASE open' = open
    BY <1>0, <1>01, <2>1, <2>3
  <2>4. CASE open' = open \cup {<<w, try[w]>>}
    <3>1. open = {} /\ open' = {<<w, try[w]>>}
      BY <2>2, <2>4
    <3>2. Heard = {} /\ Heard' = {gen[w]}
      BY <1>0, <3>1 DEF Heard
    <3>3. gen[w] \in 1..generation
      BY <2>1 DEF PlayerInv, GenerationIsCounted, TypeOK
    <3> QED
      BY <1>0, <1>01, <2>1, <3>2, <3>3 DEF Heard, Player!Open
  <2> QED
    BY <2>1, <2>3, <2>4
<1>2. CASE WorkerClose(w) \/ AfterFunc(w)
  <2>1. /\ open' = open \ {Own(w)}
        /\ UNCHANGED <<state, end>>
    BY <1>2 DEF WorkerClose, AfterFunc, muVars, loopVars
  <2>2. Heard' = Heard \/ (Heard # {} /\ Heard' = {})
    BY <1>0, <2>1, ClosedIsSilent
  <2> QED
    BY <1>0, <1>01, <2>1, <2>2 DEF Heard, Player!Close
<1>3. CASE WorkerProgress(w)
  <2>1. /\ pc[w] = "stream" /\ gen[w] = generation /\ state' = "play"
        /\ UNCHANGED <<open, end>>
    BY <1>3 DEF WorkerProgress, Superseded, workerVars, loopVars
  <2>2. state \notin Resting
    BY <2>1 DEF PlayerInv, RestIsBehind, TypeOK
  <2>3. state \in {"loading", "play"}
    BY <2>2 DEF TypeOK, Busy
  <2>4. Heard = {generation}
    <3>1. open = {Own(w)}
      BY <2>1, TransportSafe DEF PlayerInv, StreamIsOpen, OneTransport
    <3> QED
      BY <2>1, <3>1 DEF Heard, Own
  <2> QED
    BY <1>0, <1>01, <2>1, <2>3, <2>4 DEF Heard, Player!Play
<1>4. CASE WorkerSend(w)
  <2>1. pc[w] = "send" /\ UNCHANGED <<state, open>>
    BY <1>4 DEF WorkerSend, Advance, muVars
  <2>2. CASE UNCHANGED end
    BY <1>0, <1>01, <2>1, <2>2
  <2>3. CASE end' = Append(end, [gen |-> gen[w], err |-> err[w]])
    <3>1. gen[w] \in 1..generation
      BY <2>1 DEF PlayerInv, GenerationIsCounted, TypeOK
    <3>2. {end'[i].gen : i \in DOMAIN end'}
            = {end[i].gen : i \in DOMAIN end} \cup {gen[w]}
      <4>1. end \in Seq(Events)
        BY DEF TypeOK
      <4>2. /\ DOMAIN end' = DOMAIN end \cup {Len(end) + 1}
            /\ \A i \in DOMAIN end : end'[i] = end[i]
            /\ end'[Len(end) + 1].gen = gen[w]
        BY <2>3, <4>1
      <4> QED
        BY <4>2
    <3>3. EndsOutstanding' = EndsOutstanding \cup {gen[w]}
      BY <1>0, <3>2 DEF EndsOutstanding
    <3>4. Player!Report
      BY <1>0, <2>1, <3>1, <3>3 DEF Player!Report
    <3> QED
      BY <3>4
  <2> QED
    BY <2>2, <2>3, SendAppends
<1>5. CASE ~(\/ WorkerConnect(w) \/ WorkerClose(w) \/ AfterFunc(w)
             \/ WorkerProgress(w) \/ WorkerSend(w))
  <2>1. UNCHANGED <<state, open, end>>
    BY <1>5
    DEF Worker, WorkerLock, WorkerOpen, WorkerAttach, WorkerSetup,
        WorkerStreamEnds, WorkerVerdict, WorkerBackoff, muVars, loopVars
  <2> QED
    BY <1>0, <1>01, <2>1
<1> QED
  BY <1>1, <1>2, <1>3, <1>4, <1>5

\* The loop receives an end, and heeds it only when it is of the latest request.
LEMMA PlayerLoopMaps ==
  ASSUME TypeOK, PlayerInv, Loop \/ CloseReturn
  PROVE  Player!Next \/ UNCHANGED Player!vars
<1> USE DEF Player!Next, Player!vars
<1>1. UNCHANGED <<generation, state, gen, open>>
  BY DEF Loop, LoopReceive, LoopEvent, LoopTick, LoopDeadline, LoopDone,
         CloseReturn, muVars, workerVars
<1>2. CASE LoopReceive
  <2>1. /\ loop = "select" /\ loop' = "event" /\ end # <<>> /\ end' = Tail(end)
        /\ event' = Head(end) /\ UNCHANGED <<step, after>>
    BY <1>2 DEF LoopReceive
  <2>2. end \in Seq(Events)
    BY DEF TypeOK
  <2>3. UNCHANGED EndsOutstanding
    <3>1. /\ \A i \in DOMAIN end' : i + 1 \in DOMAIN end /\ end'[i] = end[i + 1]
          /\ \A i \in DOMAIN end : i = 1 \/ (i - 1 \in DOMAIN end' /\ end'[i - 1] = end[i])
          /\ 1 \in DOMAIN end /\ event' = end[1]
      BY <2>1, <2>2, HeadLeaves
    <3>2. EndsOutstanding = {end[i].gen : i \in DOMAIN end}
      BY <2>1 DEF EndsOutstanding
    <3>3. EndsOutstanding' = {end'[i].gen : i \in DOMAIN end'} \cup {end[1].gen}
      BY <2>1, <3>1 DEF EndsOutstanding
    <3> QED
      BY <3>1, <3>2, <3>3
  <2>4. UNCHANGED EndTaken
    BY <2>1 DEF EndTaken, PlayerInv, TurnIsCurrent
  <2> QED
    BY <1>1, <2>3, <2>4
<1>3. CASE LoopEvent
  <2>1. /\ loop = "event" /\ step = "idle"
        /\ UNCHANGED <<loop, end, event>>
        /\ \/ step' = "cancel" /\ after' = "next" /\ event.gen = generation
           \/ step' = "leave"
    BY <1>3 DEF LoopEvent, Heeded, CancelThen, Goto, loopVars
  <2>2. UNCHANGED EndsOutstanding /\ EndTaken = 0
        /\ event.gen \in EndsOutstanding
    BY <2>1 DEF EndsOutstanding, EndTaken
  <2>3. CASE step' = "leave"
    BY <1>1, <2>2, <2>3 DEF EndTaken
  <2>4. CASE step' = "cancel" /\ after' = "next" /\ event.gen = generation
    <3>1. EndTaken' = generation
      BY <2>1, <2>4 DEF EndTaken
    <3>2. Player!Heed
      BY <1>1, <2>2, <2>4, <3>1 DEF Player!Heed
    <3> QED
      BY <3>2
  <2> QED
    BY <2>1, <2>3, <2>4
<1>4. CASE LoopTick \/ LoopDeadline \/ LoopDone \/ CloseReturn
  <2>1. /\ UNCHANGED <<end, event>>
        /\ (loop = "select" /\ loop' # "event") \/ UNCHANGED loop
        /\ \/ UNCHANGED <<step, after>>
           \/ step = "idle" /\ (step' = "cancel" => after' = "rest")
    BY <1>4 DEF LoopTick, LoopDeadline, LoopDone, CloseReturn, handlerVars,
                loopVars, CancelThen, Goto
  <2>2. UNCHANGED <<EndsOutstanding, EndTaken>>
    BY <2>1 DEF EndsOutstanding, EndTaken
  <2> QED
    BY <1>1, <2>2
<1> QED
  BY <1>2, <1>3, <1>4 DEF Loop

LEMMA PlayerMaps ==
  TypeOK /\ TransportInv /\ PlayerInv /\ [Next]_vars
    => [Player!Next]_Player!vars
<1> SUFFICES ASSUME TypeOK, TransportInv, PlayerInv, [Next]_vars
             PROVE  Player!Next \/ UNCHANGED Player!vars
  OBVIOUS
<1>1. CASE UNCHANGED vars
  <2>1. UNCHANGED <<generation, state, gen, open>>
        /\ UNCHANGED <<end, loop, event, step, after>>
    BY <1>1 DEF vars, handlerVars, muVars, loopVars, workerVars
  <2>2. UNCHANGED <<EndsOutstanding, EndTaken>>
    BY <2>1 DEF EndsOutstanding, EndTaken
  <2> QED
    BY <2>1, <2>2 DEF Player!vars
<1> QED
  BY <1>1, PlayerHandlerMaps, PlayerWorkerMaps, PlayerLoopMaps DEF Next

\* The goroutines of Remote implement the player of Transport: one transport at
\* a time, opened only after the one before it was closed; the status turns to
\* "play" only for the latest request, with its own transport open; and an end
\* that comes late, from a request that was superseded, ends nothing.
THEOREM PlaybackImplementsTransport == Spec => ImplementsTransport
<1>1. Init => TypeOK /\ TransportInv /\ PlayerInv
  <2> SUFFICES ASSUME Init PROVE PlayerInv
    BY TypeInit, TransportInit
  <2>1. /\ GenerationIsCounted /\ RestIsBehind /\ CancelledRests
        /\ TakenIsOld /\ LiveIsCurrent /\ StreamIsOpen
    BY DEF Init, GenerationIsCounted, RestIsBehind, CancelledRests, Cancelled,
           TakenIsOld, LiveIsCurrent, StreamIsOpen
  <2>2. EventsAreCounted /\ TurnIsCurrent
    BY DEF Init, EventsAreCounted, TurnIsCurrent
  <2> QED
    BY <2>1, <2>2 DEF PlayerInv
<1>2. TypeOK /\ TransportInv /\ PlayerInv /\ [Next]_vars
      => (TypeOK /\ TransportInv /\ PlayerInv)'
  BY TypeStep, TransportStep, PlayerStep
<1> QED
  BY <1>1, <1>2, PlayerInit, PlayerMaps, PTL
  DEF Spec, ImplementsTransport, Player!Spec
=============================================================================
