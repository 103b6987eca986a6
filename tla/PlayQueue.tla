----------------------------- MODULE PlayQueue -----------------------------
(***************************************************************************)
(* The queue arithmetic of internal/app/remote.go and remote_shuffle.go:   *)
(* how RemoteSaved changes when the player moves on. Each operator maps a  *)
(* saved record to the saved record the Go function leaves behind. A       *)
(* function that draws at random or may fail maps it to the SET of records *)
(* it can leave; the empty set stands for a result of false.               *)
(*                                                                         *)
(* The fields used here are queue (a sequence of track IDs), index (zero   *)
(* based), visited (ShuffleVisited), repeat and shuffle.                   *)
(***************************************************************************)
EXTENDS Integers, Sequences, SequencesExt

RepeatModes == {"off", "all", "single"}

InRange(s) == s.index \in 0..(Len(s.queue) - 1)

\* The track at the index.
At(s) == s.queue[s.index + 1]

\* The distinct tracks of the queue.
Distinct(s) == ToSet(s.queue)

\* markShuffleLocked: the current track joins the round.
Mark(s) == IF s.queue = <<>> THEN s ELSE [s EXCEPT !.visited = @ \cup {At(s)}]

\* resetShuffleLocked: a round that has only the current track.
ResetRound(s) == Mark([s EXCEPT !.visited = {}])

\* The first positions of the tracks that are not in "seen".
FirstUnseen(s, seen) ==
  {i \in 0..(Len(s.queue) - 1) :
     /\ s.queue[i + 1] \notin seen
     /\ \A j \in 1..i : s.queue[j] # s.queue[i + 1]}

\* The mutant draws a new round from all tracks, the current one included.
NewRoundFromAll(s) == FirstUnseen(s, {})

\* The candidates of a new round: any track but the current one, if there is one.
NewRound(s) ==
  LET others == FirstUnseen(s, {At(s)})
  IN IF others = {} THEN {s.index} ELSE others

\* advanceShuffleLocked. The mutants forget to begin the new round, and look
\* for a next track only further down the queue.
AdvanceShuffleSameRound(s) ==
  LET fresh == FirstUnseen(s, s.visited)
      moves == IF fresh # {} THEN fresh ELSE IF s.repeat = "all" THEN NewRound(s) ELSE {}
  IN {Mark([s EXCEPT !.index = i]) : i \in moves}

AdvanceShuffleDownwards(s) ==
  LET fresh == {i \in FirstUnseen(s, s.visited) : i > s.index}
  IN IF fresh # {} THEN {Mark([s EXCEPT !.index = i]) : i \in fresh}
     ELSE IF s.repeat = "all"
     THEN {ResetRound([s EXCEPT !.index = i]) : i \in NewRound(s)}
     ELSE {}

AdvanceShuffle(s) ==
  LET fresh == FirstUnseen(s, s.visited)
  IN IF fresh # {} THEN {Mark([s EXCEPT !.index = i]) : i \in fresh}
     ELSE IF s.repeat = "all"
     THEN {ResetRound([s EXCEPT !.index = i]) : i \in NewRound(s)}
     ELSE {}

\* advanceLocked without shuffle.
AdvanceInOrder(s) ==
  IF s.index + 1 < Len(s.queue) THEN {Mark([s EXCEPT !.index = @ + 1])}
  ELSE IF s.repeat = "all" THEN {ResetRound([s EXCEPT !.index = 0])}
  ELSE {}

\* advanceLocked; "manual" is the Next button or a skip.
Advance(s, manual) ==
  IF s.queue = <<>> THEN {}
  ELSE IF ~manual /\ s.repeat = "single" THEN {s}
  ELSE IF s.shuffle THEN AdvanceShuffle(s) ELSE AdvanceInOrder(s)

\* The loop of skipFailed: it advances at most once per queue position until it
\* meets a track that has not failed. The mutant looks at one track only.
SkipOnce(s) == 1
SkipTries(s) == Len(s.queue)

\* Searching(s, failed)[k] holds the records after k advances that all landed on
\* failed tracks.
Searching(s, failed) ==
  LET after[k \in 0..SkipTries(s)] ==
        IF k = 0 THEN {s}
        ELSE UNION {{t \in Advance(u, TRUE) : At(t) \in failed} : u \in after[k - 1]}
  IN after

SkipFinds(s, failed) ==
  UNION {UNION {{t \in Advance(u, TRUE) : At(t) \notin failed} : u \in Searching(s, failed)[k]} :
         k \in 0..(SkipTries(s) - 1)}

SkipExhausts(s, failed) ==
  LET after == Searching(s, failed)
      n == SkipTries(s)
  IN after[n] \cup UNION {{u \in after[k] : Advance(u, TRUE) = {}} : k \in 0..(n - 1)}

-----------------------------------------------------------------------------
(* The edits of the queue, on zero based positions p and q.                *)

\* append: ids go in at p, and the current occurrence keeps its place in the
\* order. The mutant lets an insertion right before the current track pass it.
AppendedAfter(s, p, ids) ==
  [s EXCEPT !.queue = SubSeq(s.queue, 1, p) \o ids \o SubSeq(s.queue, p + 1, Len(s.queue)),
            !.index = IF s.queue # <<>> /\ p < @ THEN @ + Len(ids) ELSE @]

Appended(s, p, ids) ==
  LET t == [s EXCEPT
              !.queue = SubSeq(s.queue, 1, p) \o ids \o SubSeq(s.queue, p + 1, Len(s.queue)),
              !.index = IF s.queue # <<>> /\ p <= @ THEN @ + Len(ids) ELSE @]
  IN IF s.queue = <<>> THEN ResetRound(t) ELSE t

\* move: the track at p goes to q.
Moved(s, p, q) ==
  [s EXCEPT
     !.queue = InsertAt(RemoveAt(@, p + 1), q + 1, @[p + 1]),
     !.index = CASE @ = p -> q
                 [] p < @ /\ q >= @ -> @ - 1
                 [] p > @ /\ q <= @ -> @ + 1
                 [] OTHER -> @]

\* remove: the track at p goes; an index past the end is pulled back only for
\* the track the command took for the current one. The mutant never does.
RemovedUnclamped(s, p, current) ==
  [s EXCEPT !.queue = RemoveAt(@, p + 1), !.index = IF p < @ THEN @ - 1 ELSE @]

Removed(s, p, current) ==
  LET queue == RemoveAt(s.queue, p + 1)
      index == IF p < s.index THEN s.index - 1 ELSE s.index
      last  == IF queue = <<>> THEN 0 ELSE Len(queue) - 1
  IN [s EXCEPT !.queue = queue,
               !.index = IF current /\ index > last THEN last ELSE index]
=============================================================================
