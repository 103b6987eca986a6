---------------------------- MODULE RemoteQueue ----------------------------
(***************************************************************************)
(* What Remote plays (internal/app/remote.go): the queue and its place in  *)
(* it, the commands of POST /remote, the turns of the event loop, skipping *)
(* of failed tracks, the sleep timer, the listening session, remote.json   *)
(* and the restart from it.                                                *)
(*                                                                         *)
(* The transport is reduced to the one worker of the current generation;   *)
(* Playback shows that no other worker is heard. A command runs under the  *)
(* commands mutex in steps: it takes its snapshot of the state, edits,     *)
(* starts, persists. Between two of them the worker reports progress,      *)
(* because progress takes only mu.                                         *)
(***************************************************************************)
EXTENDS PlayQueue, FiniteSets

CONSTANTS
  Tracks,      \* track IDs
  MaxQueue,    \* bound: length of a queue (10000 in the code)
  Scenarios    \* what a behaviour may consist of: [lists, the queues that clients
               \* start; added, the tracks they append; room, a bound on the
               \* length of the queue; commands, what they send; continuous,
               \* whether sessions play one track into the next (streamQueue);
               \* repeat, shuffle and failure, the modes it finds on disk]

ASSUME RemoteAssumption ==
  /\ MaxQueue \in Nat \ {0}
  /\ \A s \in Scenarios :
       /\ s.lists \subseteq BoundedSeq(Tracks, s.room) \ {<<>>}
       /\ s.added \subseteq Tracks
       /\ s.room \in 1..MaxQueue
       /\ s.continuous \in BOOLEAN
       /\ s.repeat \in RepeatModes /\ s.shuffle \in BOOLEAN
       /\ s.failure \in {"stop", "skip"}

\* Positions in a track: its start, and behind it. One past the end is among the
\* reasons why start() fails.
Positions == 0..1

\* RemoteSaved. heard stands for PlaybackSession and Listened: the tracks
\* whose seconds were added up since resetHistoryLocked made the session ID.
Saved == [queue : BoundedSeq(Tracks, MaxQueue), index : 0..MaxQueue,
          visited : SUBSET Tracks, repeat : RepeatModes, shuffle : BOOLEAN,
          position : Positions, heard : SUBSET Tracks, counted : BOOLEAN,
          failure : {"stop", "skip"}, deadline : {"off", "set", "due"},
          finish : BOOLEAN, waiting : BOOLEAN]

EmptySaved ==
  [queue |-> <<>>, index |-> 0, visited |-> {}, repeat |-> "off",
   shuffle |-> FALSE, position |-> 0, heard |-> {}, counted |-> FALSE,
   failure |-> "stop", deadline |-> "off", finish |-> FALSE, waiting |-> FALSE]

\* The worker of the current generation: what it plays, whether its session is
\* published in r.session ("streaming"), whether it was heard since, and whether
\* a continuous session has taken the successor into its buffer. Crossed marks
\* one that start() made from a copy which the worker before left behind, until
\* its first report is stored.
NoWorker == [phase |-> "none", plan |-> EmptySaved, buffered |-> FALSE, crossed |-> FALSE]

\* The handler that holds the commands mutex; index and playing are the
\* snapshot that command() takes before it does anything, copy is the one that
\* start() takes.
Idle == [at |-> "idle", origin |-> "client", index |-> 0, playing |-> FALSE,
         copy |-> EmptySaved]

Busy == {"loading", "play"}

VARIABLES
  scenario, \* the scenario of this behaviour; never changes
  saved,    \* r.saved
  state,    \* r.state
  failed,   \* r.failed: the tracks that failed in this sequence of failures
  worker,   \* the worker of the current generation
  handler,  \* who holds the commands mutex, and where it stands
  disk      \* remote.json

vars == <<scenario, saved, state, failed, worker, handler, disk>>

TypeOK ==
  /\ saved \in Saved /\ disk \in Saved
  /\ state \in {"stop", "pause", "loading", "play"}
  /\ failed \in SUBSET Tracks
  /\ worker \in [phase : {"none", "loading", "streaming", "heard"}, plan : Saved,
                 buffered : BOOLEAN, crossed : BOOLEAN]
  /\ handler \in [at : {"idle", "command", "start", "begin", "persist"},
                  origin : {"client", "end", "error", "tick"},
                  index : 0..MaxQueue, playing : BOOLEAN, copy : Saved]

Init ==
  /\ scenario \in Scenarios
  /\ disk = [EmptySaved EXCEPT !.repeat = scenario.repeat, !.shuffle = scenario.shuffle]
  /\ saved = [disk EXCEPT !.failure = scenario.failure]
  /\ state = "stop"
  /\ failed = {}
  /\ worker = NoWorker
  /\ handler = Idle

-----------------------------------------------------------------------------
(* Pieces of the handlers.                                                 *)

Goto(to) == handler' = [handler EXCEPT !.at = to]

\* resetHistoryLocked: a new session ID. The mutant keeps the old one.
KeepHistory(s) == s
ResetHistory(s) == [s EXCEPT !.heard = {}, !.counted = FALSE]

Disarmed(s) == [s EXCEPT !.deadline = "off", !.finish = FALSE, !.waiting = FALSE]

Restful == IF saved.queue = <<>> THEN "stop" ELSE "pause"

\* cancelPlayback, and then the state the handler sets.
CancelInto(mode) == worker' = NoWorker /\ state' = mode
CancelPlayback == CancelInto(Restful)

Attached == worker.phase \in {"streaming", "heard"}

\* The last lines of command(): an edit restarts a continuous session, because
\* it may have buffered a successor that is no longer the next track.
AfterEdit ==
  Goto(IF handler.playing /\ scenario.continuous /\ Attached
       THEN "start" ELSE "persist")

Command(name) == handler.at = "command" /\ name \in scenario.commands

-----------------------------------------------------------------------------
(* The commands of POST /remote.                                           *)

Request ==
  /\ handler.at = "idle"
  /\ handler' = [at |-> "command", origin |-> "client", index |-> saved.index,
                 playing |-> state \in Busy, copy |-> EmptySaved]
  /\ UNCHANGED <<scenario, saved, state, failed, worker, disk>>

Start ==
  /\ Command("start")
  /\ \E queue \in scenario.lists, position \in {0, 1} :
     \E index \in 0..(Len(queue) - 1) :
       saved' = ResetHistory(ResetRound(
                  [saved EXCEPT !.queue = queue, !.index = index,
                                !.position = position, !.waiting = FALSE]))
  /\ CancelInto("pause")
  /\ failed' = {}
  /\ \E to \in {"start", "persist"} : Goto(to)
  /\ UNCHANGED <<scenario, disk>>

Play ==
  /\ Command("play")
  /\ failed' = {}
  /\ Goto("start")
  /\ UNCHANGED <<scenario, saved, state, worker, disk>>

Pause ==
  /\ \/ Command("pause") /\ UNCHANGED saved
     \/ Command("local") /\ saved' = Disarmed(saved)
  /\ CancelPlayback
  /\ Goto("persist")
  /\ UNCHANGED <<scenario, failed, disk>>

\* stop, and the choice of another output.
Stop ==
  /\ Command("stop")
  /\ saved' = ResetHistory([Disarmed(saved) EXCEPT !.position = 0])
  /\ CancelInto("stop")
  /\ Goto("persist")
  /\ UNCHANGED <<scenario, failed, disk>>

Clear ==
  /\ Command("clear")
  /\ saved' = [Disarmed(saved) EXCEPT !.queue = <<>>, !.index = 0,
                                      !.visited = {}, !.position = 0]
  /\ CancelInto("stop")
  /\ Goto("persist")
  /\ UNCHANGED <<scenario, failed, disk>>

\* The length checked is that of the track in the snapshot.
Seek ==
  /\ Command("seek") /\ handler.index < Len(saved.queue)
  /\ \E position \in {0, 1} : saved' = [saved EXCEPT !.position = position]
  /\ CancelPlayback
  /\ Goto(IF handler.playing THEN "start" ELSE "persist")
  /\ UNCHANGED <<scenario, failed, disk>>

\* Select, previous and next go to an index and start there.
GoTo(s, index) ==
  /\ index < Len(s.queue)
  /\ saved' = ResetHistory(Mark([s EXCEPT !.index = index, !.position = 0,
                                          !.waiting = FALSE]))
  /\ Goto("start")

Select ==
  /\ \/ /\ Command("select")
        /\ \E index \in 0..(Len(saved.queue) - 1) : GoTo(saved, index)
     \/ /\ Command("previous")
        /\ GoTo(saved, IF handler.index = 0 THEN 0 ELSE handler.index - 1)
     \/ /\ Command("next")
        /\ \E s \in Advance(saved, TRUE) : GoTo(s, s.index)
  /\ CancelPlayback
  /\ failed' = {}
  /\ UNCHANGED <<scenario, disk>>

NoNext ==
  /\ Command("next") /\ Advance(saved, TRUE) = {}
  /\ CancelPlayback
  /\ failed' = {}
  /\ Goto("persist")
  /\ UNCHANGED <<scenario, saved, disk>>

QueueHasRoom == Len(saved.queue) < scenario.room

\* append, move, repeat, shuffle and timer edit in place.
Edit ==
  /\ \/ /\ Command("append")
        /\ \E p \in 0..Len(saved.queue), t \in scenario.added :
             QueueHasRoom /\ saved' = Appended(saved, p, <<t>>)
     \/ /\ Command("move")
        /\ \E p, q \in 0..(Len(saved.queue) - 1) : saved' = Moved(saved, p, q)
     \/ /\ Command("repeat")
        /\ \E repeat \in RepeatModes : saved' = [saved EXCEPT !.repeat = repeat]
     \/ /\ Command("shuffle")
        /\ saved' = ResetRound([saved EXCEPT !.shuffle = ~@])
     \/ /\ Command("timer")
        /\ \E deadline \in {"off", "set", "due"}, finish \in BOOLEAN :
             saved' = [saved EXCEPT !.deadline = deadline, !.finish = finish,
                                    !.waiting = finish /\ deadline = "off"]
  /\ AfterEdit
  /\ UNCHANGED <<scenario, state, failed, worker, disk>>

\* remove decides with the index of the snapshot whether it is the current
\* track that goes.
Delete ==
  /\ Command("remove")
  /\ \E p \in 0..(Len(saved.queue) - 1) :
       LET current == p = handler.index
           rest == Removed(saved, p, current)
           moves == IF current /\ rest.shuffle /\ rest.queue # <<>>
                    THEN AdvanceShuffle(rest) ELSE {}
           stuck == current /\ rest.shuffle /\ moves = {}
       IN /\ \E s \in IF moves = {} THEN {rest} ELSE moves :
               saved' = IF current
                        THEN ResetHistory([s EXCEPT !.position = 0, !.waiting = FALSE])
                        ELSE s
          /\ IF current
             THEN /\ CancelInto(IF rest.queue = <<>> THEN "stop" ELSE "pause")
                  /\ Goto(IF handler.playing /\ ~stuck /\ rest.queue # <<>>
                          THEN "start" ELSE "persist")
             ELSE /\ state' = (IF rest.queue = <<>> THEN "stop" ELSE state)
                  /\ AfterEdit /\ UNCHANGED worker
  /\ UNCHANGED <<scenario, failed, disk>>

\* The failure policy is saved in a file of its own; a changed gain restarts.
Settings ==
  /\ \/ /\ Command("failure")
        /\ \E failure \in {"stop", "skip"} : saved' = [saved EXCEPT !.failure = failure]
        /\ Goto("persist")
        /\ UNCHANGED <<state, worker>>
     \/ /\ Command("gain") /\ state \in Busy
        /\ CancelPlayback
        /\ Goto("start")
        /\ UNCHANGED saved
  /\ UNCHANGED <<scenario, failed, disk>>

\* A command that fails its checks; the navigation commands clear failed first.
Reject ==
  /\ handler.at = "command"
  /\ failed' \in {failed, {}}
  /\ Goto("persist")
  /\ UNCHANGED <<scenario, saved, state, worker, disk>>

-----------------------------------------------------------------------------
(* startWithPolicy, skipFailed and the end of the handler.                 *)

\* What a worker uses of its copy of saved.
Plan(s) == [s EXCEPT !.position = 0, !.counted = FALSE, !.failure = "stop"]

\* start() takes its copy of saved and finds everything it needs.
StartReads ==
  /\ handler.at = "start" /\ InRange(saved)
  /\ handler' = [handler EXCEPT !.at = "begin", !.copy = Plan(saved)]
  /\ UNCHANGED <<scenario, saved, state, failed, worker, disk>>

\* Only now it cancels what was playing, and starts a worker with its copy. A
\* boundary of the session before may have moved the place in between.
StartSucceeds ==
  /\ handler.at = "begin"
  /\ worker' = [phase |-> "loading", plan |-> handler.copy, buffered |-> FALSE,
                crossed |-> At(handler.copy) # At(saved)]
  /\ state' = "loading"
  /\ handler' = [handler EXCEPT !.at = "persist", !.copy = EmptySaved]
  /\ UNCHANGED <<scenario, saved, failed, disk>>

\* The mutant skips although the timer wants to stop.
MaySkipAnyway == saved.failure = "skip" /\ InRange(saved)
MaySkip ==
  /\ saved.failure = "skip" /\ ~saved.waiting /\ saved.deadline # "due"
  /\ InRange(saved)

\* The mutant forgets which tracks failed before.
FailedLast == {At(saved)}
FailedNow == failed \cup {At(saved)}

\* The track cannot be played, and the policy finds another one. Which track it
\* marks is the one at the index now, also if start() read another.
Skip ==
  /\ MaySkip
  /\ failed' = FailedNow
  /\ \E s \in SkipFinds(saved, FailedNow) :
       saved' = ResetHistory([s EXCEPT !.position = 0])

\* The policy looked everywhere in vain.
SkipGivesUp ==
  /\ MaySkip
  /\ failed' = FailedNow
  /\ saved' \in SkipExhausts(saved, FailedNow)

\* A failed startWithPolicy after the end of a track leaves the queue paused,
\* whatever state it has set.
GiveUpInto(mode) ==
  /\ CancelInto(IF handler.origin = "end" THEN "pause" ELSE mode)
  /\ Goto("persist")

StartFails ==
  /\ handler.at = "start"
  /\ \/ Skip /\ CancelPlayback /\ Goto("start")
     \/ SkipGivesUp /\ GiveUpInto("stop")
     \/ GiveUpInto(Restful) /\ UNCHANGED <<saved, failed>>
  /\ UNCHANGED <<scenario, disk>>

\* What a restart uses of remote.json; the failure policy it takes from the
\* playback settings, a file of its own.
Written(s) == [s EXCEPT !.failure = "stop"]

\* persist writes remote.json at once by renaming it. The mutant leaves it to
\* the tick.
PersistLater ==
  /\ handler.at = "persist"
  /\ handler' = Idle
  /\ UNCHANGED <<scenario, saved, state, failed, worker, disk>>

Persist ==
  /\ handler.at = "persist"
  /\ disk' = Written(saved)
  /\ handler' = Idle
  /\ UNCHANGED <<scenario, saved, state, failed, worker>>

-----------------------------------------------------------------------------
(* The event loop.                                                         *)

Turn(to, origin) ==
  handler' = [Idle EXCEPT !.at = to, !.origin = origin]

\* The worker reports the end of its track. Stream calls progress at least once
\* before it returns without an error.
EndOfTrack ==
  /\ handler.at = "idle" /\ worker.phase = "heard" /\ ~worker.buffered
  /\ worker' = NoWorker
  /\ failed' = {}
  /\ LET due == saved.deadline = "due"
         s == ResetHistory([saved EXCEPT !.position = 0,
                                         !.deadline = IF due THEN "off" ELSE @,
                                         !.waiting = @ \/ due])
     IN \/ /\ s.waiting
           /\ saved' = [s EXCEPT !.waiting = FALSE]
           /\ state' = "pause" /\ Turn("persist", "end")
        \/ /\ ~s.waiting /\ Advance(s, FALSE) = {}
           /\ saved' = s
           /\ state' = "stop" /\ Turn("persist", "end")
        \/ /\ ~s.waiting /\ saved' \in Advance(s, FALSE)
           /\ state' = Restful /\ Turn("start", "end")
  /\ UNCHANGED <<scenario, disk>>

\* The worker reports a source or decoder error: it could not open the track,
\* at first or when it reconnects.
TrackError ==
  /\ handler.at = "idle" /\ worker.phase \in {"loading", "streaming"}
  /\ worker' = NoWorker
  /\ \/ Skip /\ state' = Restful /\ Turn("start", "error")
     \/ SkipGivesUp /\ state' = "stop" /\ Turn("persist", "error")
     \/ ~MaySkip /\ state' = Restful /\ Turn("persist", "error") /\ UNCHANGED <<saved, failed>>
  /\ UNCHANGED <<scenario, disk>>

\* The worker reports a receiver, pairing or transport error.
TransportError ==
  /\ handler.at = "idle" /\ worker.phase # "none"
  /\ CancelPlayback
  /\ Turn("persist", "error")
  /\ UNCHANGED <<scenario, saved, failed, disk>>

\* The tick finds the deadline expired: it pauses now, or asks for the end of
\* the track.
Tick ==
  /\ handler.at = "idle" /\ saved.deadline = "due"
  /\ IF saved.finish /\ state \in Busy
     THEN /\ saved' = [saved EXCEPT !.deadline = "off", !.waiting = TRUE]
          /\ UNCHANGED <<state, worker, handler>>
     ELSE /\ saved' = [saved EXCEPT !.deadline = "off", !.waiting = FALSE]
          /\ CancelPlayback
          /\ Turn("persist", "tick")
  /\ UNCHANGED <<scenario, failed, disk>>

\* Every five seconds the tick writes the progress.
TickPersist ==
  /\ handler.at = "idle" /\ state \in Busy
  /\ disk' = Written(saved)
  /\ UNCHANGED <<scenario, saved, state, failed, worker, handler>>

DeadlinePasses ==
  /\ saved.deadline = "set"
  /\ saved' = [saved EXCEPT !.deadline = "due"]
  /\ UNCHANGED <<scenario, state, failed, worker, handler, disk>>

-----------------------------------------------------------------------------
(* The worker.                                                             *)

Attach ==
  /\ worker.phase = "loading"
  /\ worker' = [worker EXCEPT !.phase = "streaming"]
  /\ UNCHANGED <<scenario, saved, state, failed, handler, disk>>

\* A continuous session is heard only while the queue and the modes are those
\* its plan was made from. The mutant hears it anyway.
AnyPlan == TRUE
InPlan ==
  /\ worker.plan.queue = saved.queue /\ worker.plan.repeat = saved.repeat
  /\ worker.plan.shuffle = saved.shuffle

\* The progress callback: what it reports is stored, or ignored. The mark is that
\* of the worker's copy, which only a crossed worker has from another session.
Progress ==
  /\ Attached /\ (scenario.continuous => InPlan)
  /\ worker' = [worker EXCEPT !.phase = "heard", !.crossed = FALSE]
  /\ \E counted \in {TRUE, saved.counted /\ ~worker.crossed} :
       saved' = [saved EXCEPT
                   !.index = IF scenario.continuous THEN worker.plan.index ELSE @,
                   !.position = 1,
                   !.heard = worker.plan.heard \cup {At(worker.plan)},
                   !.counted = counted]
  /\ state' = "play"
  /\ UNCHANGED <<scenario, failed, handler, disk>>

ProgressIgnored ==
  /\ Attached /\ scenario.continuous /\ ~InPlan
  /\ worker' = [worker EXCEPT !.phase = "heard"]
  /\ UNCHANGED <<scenario, saved, state, failed, handler, disk>>

\* The successor is prepared from the plan, and it goes into the stream behind
\* the current track if nothing has changed since and no timer is set.
NoTimer(s) == ~s.waiting /\ s.deadline = "off" /\ ~s.finish

Buffer ==
  /\ Attached /\ scenario.continuous /\ ~worker.buffered
  /\ NoTimer(worker.plan) /\ Advance(worker.plan, FALSE) # {}
  /\ InPlan /\ NoTimer(saved)
  /\ worker' = [worker EXCEPT !.buffered = TRUE]
  /\ UNCHANGED <<scenario, saved, state, failed, handler, disk>>

\* The successor becomes audible: its first progress commits the plan.
Boundary ==
  /\ worker.phase = "heard" /\ worker.buffered /\ InPlan
  /\ \E s \in Advance(worker.plan, FALSE) :
       LET plan == ResetHistory([s EXCEPT !.position = 0])
       IN /\ worker' = [worker EXCEPT !.plan = plan, !.buffered = FALSE, !.crossed = FALSE]
          /\ saved' = [saved EXCEPT !.index = plan.index, !.position = 0,
                         !.visited = plan.visited, !.heard = {}, !.counted = FALSE]
  /\ state' = "play"
  /\ UNCHANGED <<scenario, failed, handler, disk>>

-----------------------------------------------------------------------------
(* NewRemote reads remote.json again, after a crash or an orderly Close.   *)

Restored(d) ==
  LET last == IF d.queue = <<>> THEN 0 ELSE Len(d.queue) - 1
  IN Disarmed(Mark([d EXCEPT !.index = IF @ > last THEN last ELSE @]))

Restart ==
  /\ \/ UNCHANGED disk                            \* a crash, at any point
     \/ handler.at = "idle" /\ disk' = Written(saved)      \* Close persists
  /\ saved' = [Restored(disk') EXCEPT !.failure = saved.failure]
  /\ state' = IF saved'.queue = <<>> THEN "stop" ELSE "pause"
  /\ failed' = {}
  /\ worker' = NoWorker
  /\ handler' = Idle
  /\ UNCHANGED scenario

Execute ==
  \/ Start \/ Play \/ Pause \/ Stop \/ Clear \/ Seek \/ Select \/ NoNext
  \/ Edit \/ Delete \/ Settings \/ Reject

Next ==
  \/ Request \/ Execute
  \/ StartReads \/ StartSucceeds \/ StartFails \/ Persist
  \/ EndOfTrack \/ TrackError \/ TransportError \/ Tick \/ TickPersist
  \/ DeadlinePasses
  \/ Attach \/ Progress \/ ProgressIgnored \/ Buffer \/ Boundary
  \/ Restart

Spec == Init /\ [][Next]_vars

\* A handler that has begun to start something does not stop half way.
FairSpec == Spec /\ WF_vars(StartReads \/ StartSucceeds \/ StartFails)

-----------------------------------------------------------------------------
(* Properties.                                                             *)

\* The index points into the queue; markShuffleLocked, start and the handlers
\* index the queue with it while they hold mu.
IndexInRange == saved.queue # <<>> => InRange(saved)

\* What is heard is what is shown: between two handlers the worker plays the
\* track at the index, whatever was edited, skipped or restarted meanwhile. Only
\* one that crossed with a boundary of the session before plays the track that
\* start() had read, until its first report brings the index back to it.
HeardIsCurrent ==
  handler.at = "idle" /\ worker.phase # "none" /\ ~worker.crossed =>
    InRange(saved) /\ At(worker.plan) = At(saved)

\* The seconds and the mark of a listening session belong to the current track:
\* no song is counted for the time another one was heard. Two things break
\* this: clear, which keeps the session for whatever is appended and played next,
\* and a skip that gives up on another track than it began with.
HistoryIsOfCurrent ==
  saved.queue # <<>> /\ InRange(saved) /\ "clear" \notin scenario.commands =>
    /\ saved.heard \subseteq {At(saved)}
    /\ saved.counted => saved.heard # {}

Occurrences(queue, t) == Cardinality({i \in DOMAIN queue : queue[i] = t})

\* An edit of the queue keeps the current track, unless it removes it.
EditsKeepCurrent ==
  [][(Edit \/ Delete) /\ saved.queue # <<>>
     /\ Occurrences(saved'.queue, At(saved)) >= Occurrences(saved.queue, At(saved))
       => InRange(saved') /\ At(saved') = At(saved)]_vars

\* A removal that decides with an index which a boundary has left since.
RemoveRace == Delete /\ handler.index # saved.index

\* While a stop at the end of the track is asked for, or the deadline is over,
\* only a command leaves the track: no end of track, no skip, and no boundary
\* of a session that had its successor in the buffer when the timer was set. The
\* report of a worker that crossed with an earlier boundary may take it back.
TimerHoldsTrack ==
  [][(handler.at = "idle" \/ handler.origin # "client") /\ ~Restart /\ ~worker.crossed
     /\ (saved.waiting \/ saved.deadline = "due") /\ saved.queue # <<>> /\ saved'.queue = saved.queue
       => At(saved') = At(saved)]_vars

\* With shuffle, the failures that skipFailed remembers are of the round: what
\* failed was visited in it, or, since a skip has gone into it, what was visited
\* has failed.
FailedThisRound ==
  \/ failed \cup {At(saved)} \subseteq saved.visited
  \/ saved.visited \subseteq failed \cup {At(saved)}

\* A skip that gives up under list repeat has seen every track of the queue
\* fail; none that might play was missed. Shuffled, only if what failed is of
\* this round: a boundary and the removal of the current track keep older
\* failures, and then the tries may be used up before all tracks were seen.
SkipTriesAll ==
  [][(StartFails \/ TrackError) /\ SkipGivesUp /\ saved.repeat = "all"
     /\ (saved.shuffle => FailedThisRound)
       => Distinct(saved) \subseteq failed']_vars

\* Skipping comes to an end although every track may fail.
SkipEnds == handler.at = "start" ~> handler.at \in {"idle", "persist"}

\* What was acknowledged survives a kill: the queue, the modes, the place in
\* the queue and the shuffle round are those before the restart, and no timer
\* is armed. A place that a continuous session reached by itself is written by
\* the next tick only.
AcknowledgedSurvives ==
  [][Restart /\ handler.at = "idle" =>
       /\ saved'.queue = saved.queue
       /\ saved'.repeat = saved.repeat /\ saved'.shuffle = saved.shuffle
       /\ ~scenario.continuous =>
            /\ saved'.index = saved.index
            /\ saved.shuffle => saved'.visited = saved.visited
       /\ saved'.deadline = "off" /\ ~saved'.waiting]_vars
=============================================================================
