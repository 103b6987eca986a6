---------------------------- MODULE ShuffleRound ----------------------------
(***************************************************************************)
(* Shuffled playback over a queue that is edited while it plays: the order *)
(* of advanceShuffleLocked against what a listener hears. "round" is what  *)
(* was heard since the round began, recorded from the outside; the code    *)
(* keeps its own record, visited, and the two must lead to the same songs. *)
(***************************************************************************)
EXTENDS PlayQueue, FiniteSets

CONSTANTS
  Tracks,    \* track IDs
  MaxQueue   \* bound: length of the queue (10000 in the code)

ASSUME ShuffleAssumption == Tracks # {} /\ MaxQueue \in Nat \ {0}

VARIABLES
  saved,   \* the part of RemoteSaved that decides the order
  round    \* the tracks heard in this round

vars == <<saved, round>>

Saved == [queue : BoundedSeq(Tracks, MaxQueue), index : Nat,
          visited : SUBSET Tracks, repeat : RepeatModes, shuffle : {TRUE}]

TypeOK ==
  /\ saved \in Saved
  /\ IF saved.queue = <<>> THEN saved.index = 0 ELSE InRange(saved)
  /\ round \in SUBSET Tracks

\* A queue has been started, or shuffle switched on.
Init ==
  /\ \E queue \in BoundedSeq(Tracks, MaxQueue) \ {<<>>}, repeat \in RepeatModes :
     \E index \in 0..(Len(queue) - 1) :
       saved = ResetRound([queue |-> queue, index |-> index, visited |-> {},
                           repeat |-> repeat, shuffle |-> TRUE])
  /\ round = {At(saved)}

\* The listener's book: a new round begins once every track of the queue has
\* been heard in the old one.
Hear(t, queue) ==
  round' = IF ToSet(queue) \subseteq round THEN {t} ELSE round \cup {t}

\* The end of a track, or the Next button.
Forward ==
  \E manual \in BOOLEAN :
    /\ saved' \in Advance(saved, manual)
    /\ IF saved.repeat = "single" /\ ~manual
       THEN UNCHANGED round
       ELSE Hear(At(saved'), saved.queue)

\* A song picked by hand joins the round.
Select ==
  \E i \in 0..(Len(saved.queue) - 1) :
    /\ saved' = Mark([saved EXCEPT !.index = i])
    /\ round' = round \cup {At(saved')}

\* What is appended to an empty queue begins a round of its own.
Insert ==
  \E p \in 0..Len(saved.queue), t \in Tracks :
    /\ Len(saved.queue) < MaxQueue
    /\ saved' = Appended(saved, p, <<t>>)
    /\ round' = IF saved.queue = <<>> THEN {t} ELSE round

Rearrange ==
  \E p, q \in 0..(Len(saved.queue) - 1) :
    /\ saved' = Moved(saved, p, q)
    /\ UNCHANGED round

\* Removing the current track moves on at once, if the round has a next track.
Delete ==
  \E p \in 0..(Len(saved.queue) - 1) :
    LET current == p = saved.index
        rest == Removed(saved, p, current)
        moves == IF rest.queue = <<>> \/ ~current THEN {} ELSE AdvanceShuffle(rest)
    IN IF moves = {} THEN saved' = rest /\ UNCHANGED round
       ELSE saved' \in moves /\ Hear(At(saved'), rest.queue)

SetRepeat ==
  \E repeat \in RepeatModes :
    /\ saved' = [saved EXCEPT !.repeat = repeat]
    /\ UNCHANGED round

Next == Forward \/ Select \/ Insert \/ Rearrange \/ Delete \/ SetRepeat

Spec == Init /\ [][Next]_vars

-----------------------------------------------------------------------------
\* Shuffle plays each distinct track once per round (README "AirPlay shuffle
\* plays each distinct queued track once per round"), also when the queue is
\* edited, when tracks occur twice, and when songs are picked by hand.
OncePerRound ==
  [][Forward => \/ At(saved') \notin round
                \/ ToSet(saved.queue) \subseteq round
                \/ saved.repeat = "single" /\ At(saved') = At(saved)]_vars

\* A round ends only when it is complete: without list repeat the player stops
\* only after every track of the queue was heard.
StopsWhenComplete ==
  saved.queue # <<>> /\ saved.repeat = "off" /\ Advance(saved, FALSE) = {} =>
    ToSet(saved.queue) \subseteq round

\* No song is heard twice in a row across the end of a round when there is an
\* alternative.
NoRepeatAcrossRounds ==
  [][Forward /\ saved.repeat # "single" /\ At(saved') = At(saved) =>
       Cardinality(ToSet(saved.queue)) = 1]_vars
=============================================================================
