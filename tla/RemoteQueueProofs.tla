------------------------- MODULE RemoteQueueProofs --------------------------
(***************************************************************************)
(* Proofs about RemoteQueue, for every queue, every set of commands and    *)
(* every interleaving of commands, turns of the event loop, progress and   *)
(* restarts, in continuous sessions and in others. One step is left out:   *)
(* the removal of a track at an index that a boundary has moved since the  *)
(* command took its snapshot (RemoveRace, run queue_remove_race).          *)
(***************************************************************************)
EXTENDS RemoteQueue, TLAPS, FiniteSetTheorems, SequenceTheorems, WellFoundedInduction

-----------------------------------------------------------------------------
(* Sequences and their edits.                                              *)

LEMMA BoundedIsSeq ==
  ASSUME NEW S, NEW n \in Nat, NEW s
  PROVE  s \in BoundedSeq(S, n) <=> s \in Seq(S) /\ Len(s) <= n
<1>1. ASSUME s \in BoundedSeq(S, n) PROVE s \in Seq(S) /\ Len(s) <= n
  <2>1. PICK m \in 0..n : s \in [1..m -> S]
    BY <1>1 DEF BoundedSeq, SeqOf
  <2>2. s \in Seq(S) /\ Len(s) = m
    BY <2>1
  <2> QED
    BY <2>1, <2>2
<1>2. ASSUME s \in Seq(S), Len(s) <= n PROVE s \in BoundedSeq(S, n)
  <2>1. Len(s) \in 0..n /\ s \in [1..Len(s) -> S]
    BY <1>2
  <2> QED
    BY <2>1 DEF BoundedSeq, SeqOf
<1> QED
  BY <1>1, <1>2

LEMMA RemoveAtIs ==
  ASSUME NEW S, NEW s \in Seq(S), NEW i \in 1..Len(s)
  PROVE  /\ RemoveAt(s, i) \in Seq(S)
         /\ Len(RemoveAt(s, i)) = Len(s) - 1
         /\ \A j \in 1..(Len(s) - 1) :
              RemoveAt(s, i)[j] = IF j < i THEN s[j] ELSE s[j + 1]
<1> DEFINE a == SubSeq(s, 1, i - 1)
           b == SubSeq(s, i + 1, Len(s))
<1>1. a \in Seq(S) /\ Len(a) = i - 1 /\ \A j \in 1..(i - 1) : a[j] = s[j]
  OBVIOUS
<1>2. b \in Seq(S) /\ Len(b) = Len(s) - i /\ \A j \in 1..(Len(s) - i) : b[j] = s[i + j]
  OBVIOUS
<1>3. RemoveAt(s, i) = a \o b
  BY DEF RemoveAt
<1> HIDE DEF a, b
<1>4. /\ a \o b \in Seq(S) /\ Len(a \o b) = Len(a) + Len(b)
      /\ \A j \in 1..(Len(a) + Len(b)) :
           (a \o b)[j] = IF j <= Len(a) THEN a[j] ELSE b[j - Len(a)]
  BY <1>1, <1>2, ConcatProperties
<1>5. Len(a) + Len(b) = Len(s) - 1 /\ Len(s) \in Nat
  BY <1>1, <1>2
<1>6. ASSUME NEW j \in 1..(Len(s) - 1)
      PROVE  (a \o b)[j] = IF j < i THEN s[j] ELSE s[j + 1]
  <2>1. CASE j < i
    <3>1. j \in 1..(i - 1) /\ j <= Len(a)
      BY <1>1, <1>5, <2>1
    <3> QED
      BY <1>1, <1>4, <1>5, <2>1, <3>1
  <2>2. CASE ~(j < i)
    <3>1. ~(j <= Len(a)) /\ j - Len(a) \in 1..(Len(s) - i) /\ i + (j - Len(a)) = j + 1
      BY <1>1, <1>5, <2>2
    <3>2. b[j - Len(a)] = s[j + 1]
      BY <1>2, <3>1
    <3>3. (a \o b)[j] = b[j - Len(a)]
      BY <1>4, <1>5, <3>1
    <3> QED
      BY <2>2, <3>2, <3>3
  <2> QED
    BY <2>1, <2>2
<1> QED
  BY <1>3, <1>4, <1>5, <1>6

LEMMA InsertAtIs ==
  ASSUME NEW S, NEW s \in Seq(S), NEW i \in 1..(Len(s) + 1), NEW e \in S
  PROVE  /\ InsertAt(s, i, e) \in Seq(S)
         /\ Len(InsertAt(s, i, e)) = Len(s) + 1
         /\ \A j \in 1..(Len(s) + 1) :
              InsertAt(s, i, e)[j] = IF j < i THEN s[j] ELSE IF j = i THEN e ELSE s[j - 1]
<1> DEFINE a == SubSeq(s, 1, i - 1)
           b == SubSeq(s, i, Len(s))
<1>1. a \in Seq(S) /\ Len(a) = i - 1 /\ \A j \in 1..(i - 1) : a[j] = s[j]
  OBVIOUS
<1>2. b \in Seq(S) /\ Len(b) = Len(s) - i + 1 /\ \A j \in 1..(Len(s) - i + 1) : b[j] = s[i + j - 1]
  OBVIOUS
<1>3. InsertAt(s, i, e) = (a \o <<e>>) \o b
  BY DEF InsertAt
<1> DEFINE c == a \o <<e>>
<1>4. c \in Seq(S) /\ Len(c) = i /\ c[i] = e /\ \A j \in 1..(i - 1) : c[j] = s[j]
  BY <1>1
<1> HIDE DEF a, b, c
<1>5. InsertAt(s, i, e) = c \o b
  BY <1>3 DEF c
<1>6. /\ c \o b \in Seq(S) /\ Len(c \o b) = Len(c) + Len(b)
      /\ \A j \in 1..(Len(c) + Len(b)) :
           (c \o b)[j] = IF j <= Len(c) THEN c[j] ELSE b[j - Len(c)]
  BY <1>2, <1>4, ConcatProperties
<1>7. Len(c) + Len(b) = Len(s) + 1 /\ Len(s) \in Nat
  BY <1>2, <1>4
<1>8. ASSUME NEW j \in 1..(Len(s) + 1)
      PROVE  (c \o b)[j] = IF j < i THEN s[j] ELSE IF j = i THEN e ELSE s[j - 1]
  <2>1. CASE j <= i
    <3>1. (c \o b)[j] = c[j] /\ (j = i \/ j \in 1..(i - 1))
      BY <1>4, <1>6, <1>7, <2>1
    <3> QED
      BY <1>4, <1>7, <2>1, <3>1
  <2>2. CASE ~(j <= i)
    <3>1. j - i \in 1..(Len(s) - i + 1) /\ i + (j - i) - 1 = j - 1
      BY <1>7, <2>2
    <3>2. b[j - i] = s[j - 1]
      BY <1>2, <3>1
    <3>3. (c \o b)[j] = b[j - i]
      BY <1>4, <1>6, <1>7, <2>2
    <3>4. ~(j < i) /\ j # i
      BY <1>7, <2>2
    <3> QED
      BY <3>2, <3>3, <3>4
  <2> QED
    BY <2>1, <2>2
<1> QED
  BY <1>5, <1>6, <1>7, <1>8

\* A track goes in behind the first p of a queue.
Spliced(s, p, e) == SubSeq(s, 1, p) \o <<e>> \o SubSeq(s, p + 1, Len(s))

LEMMA SplicedIs ==
  ASSUME NEW S, NEW s \in Seq(S), NEW p \in 0..Len(s), NEW e \in S
  PROVE  /\ Spliced(s, p, e) \in Seq(S)
         /\ Len(Spliced(s, p, e)) = Len(s) + 1
         /\ \A j \in 1..(Len(s) + 1) :
              Spliced(s, p, e)[j] = IF j <= p THEN s[j] ELSE IF j = p + 1 THEN e ELSE s[j - 1]
<1> DEFINE r == InsertAt(s, p + 1, e)
<1>1. (p + 1) - 1 = p
  OBVIOUS
<1>2. Spliced(s, p, e) = r
  BY <1>1, Zenon DEF InsertAt, Spliced
<1>3. p + 1 \in 1..(Len(s) + 1)
  OBVIOUS
<1>4. /\ r \in Seq(S) /\ Len(r) = Len(s) + 1
      /\ \A j \in 1..(Len(s) + 1) :
           r[j] = IF j < p + 1 THEN s[j] ELSE IF j = p + 1 THEN e ELSE s[j - 1]
  BY <1>3, InsertAtIs
<1> HIDE DEF r
<1>5. \A j \in 1..(Len(s) + 1) : (j < p + 1) <=> (j <= p)
  OBVIOUS
<1> QED
  BY <1>2, <1>4, <1>5

\* A set of natural numbers that is not empty has a least element.
LEMMA LeastNumber ==
  ASSUME NEW S \in SUBSET Nat, S # {}
  PROVE  \E n \in S : \A m \in S : n <= m
<1>1. PICK n \in S : \A m \in S : <<m, n>> \notin OpToRel(<, Nat)
  BY NatLessThanWellFounded, WFMin
<1>2. \A m \in S : m \in Nat /\ n \in Nat /\ ~(m < n)
  BY <1>1 DEF OpToRel
<1> QED
  BY <1>2

-----------------------------------------------------------------------------
(* Moving on.                                                              *)

\* What is not in "seen" has a first position, and none is left if and only if
\* everything was seen.
LEMMA FirstUnseenIs ==
  ASSUME NEW S, NEW s, s.queue \in Seq(S), NEW seen
  PROVE  /\ \A i \in FirstUnseen(s, seen) :
              i \in 0..(Len(s.queue) - 1) /\ s.queue[i + 1] \notin seen
         /\ FirstUnseen(s, seen) = {} <=> ToSet(s.queue) \subseteq seen
<1> DEFINE q == s.queue
<1>1. FirstUnseen(s, seen) = {i \in 0..(Len(q) - 1) : q[i + 1] \notin seen
                                /\ \A j \in 1..i : q[j] # q[i + 1]}
  BY DEF FirstUnseen
<1>2. ToSet(q) = {q[i] : i \in 1..Len(q)} /\ Len(q) \in Nat
  BY DEF ToSet
<1> HIDE DEF q
<1>3. \A i \in FirstUnseen(s, seen) : i \in 0..(Len(q) - 1) /\ q[i + 1] \notin seen
  BY <1>1
<1>4. ASSUME ToSet(q) \subseteq seen PROVE FirstUnseen(s, seen) = {}
  <2>1. \A i \in 0..(Len(q) - 1) : i + 1 \in 1..Len(q)
    BY <1>2
  <2> QED
    BY <1>2, <1>3, <1>4, <2>1
<1>5. ASSUME ~(ToSet(q) \subseteq seen) PROVE FirstUnseen(s, seen) # {}
  <2> DEFINE At1 == {n \in 1..Len(q) : q[n] \notin seen}
  <2>1. At1 \in SUBSET Nat /\ At1 # {}
    BY <1>2, <1>5
  <2>2. PICK n \in At1 : \A m \in At1 : n <= m
    BY <2>1, LeastNumber, Zenon
  <2>3. n \in 1..Len(q) /\ q[n] \notin seen
    BY <2>2
  <2>4. n - 1 \in 0..(Len(q) - 1) /\ (n - 1) + 1 = n
    BY <1>2, <2>3
  <2>5. ASSUME NEW j \in 1..(n - 1) PROVE q[j] # q[n]
    <3>1. j \in 1..Len(q) /\ ~(n <= j)
      BY <1>2, <2>3
    <3> QED
      BY <2>2, <2>3, <3>1
  <2>6. n - 1 \in FirstUnseen(s, seen)
    BY <1>1, <2>3, <2>4, <2>5
  <2> QED
    BY <2>6
<1> QED
  BY <1>3, <1>4, <1>5 DEF q

-----------------------------------------------------------------------------
(* Saved records.                                                          *)

\* A saved record whose index is a place in its queue.
Kept(s) ==
  /\ s \in Saved
  /\ s.queue = <<>> => s.index = 0
  /\ s.queue # <<>> => InRange(s)

\* And the round of a shuffled queue has the track at that place. A worker that
\* crossed with a boundary breaks this: its progress moves the index alone.
Sound(s) ==
  /\ Kept(s)
  /\ ~scenario.continuous /\ s.queue # <<>> /\ s.shuffle => At(s) \in s.visited

\* What two records have in common.
SameModes(s, t) == t.repeat = s.repeat /\ t.shuffle = s.shuffle
SamePlace(s, t) ==
  t.queue = s.queue /\ t.index = s.index /\ t.visited = s.visited /\ SameModes(s, t)
SameHistory(s, t) == t.heard = s.heard /\ t.counted = s.counted
SameTimer(s, t) == t.deadline = s.deadline /\ t.finish = s.finish /\ t.waiting = s.waiting
NoHistory(t) == t.heard = {} /\ t.counted = FALSE

LEMMA KeptIs ==
  ASSUME NEW s, Kept(s)
  PROVE  /\ s \in Saved /\ s.queue \in Seq(Tracks) /\ s.queue \in BoundedSeq(Tracks, MaxQueue)
         /\ Len(s.queue) \in Nat /\ Len(s.queue) <= MaxQueue
         /\ s.index \in 0..MaxQueue /\ s.index \in Nat
         /\ s.visited \in SUBSET Tracks /\ s.heard \in SUBSET Tracks
         /\ s.repeat \in RepeatModes /\ s.shuffle \in BOOLEAN /\ s.counted \in BOOLEAN
         /\ s.queue = <<>> <=> Len(s.queue) = 0
         /\ s.queue # <<>> =>
              /\ s.index \in 0..(Len(s.queue) - 1) /\ s.index + 1 \in 1..Len(s.queue)
              /\ At(s) \in Tracks /\ At(s) \in ToSet(s.queue)
<1>1. /\ s \in Saved /\ s.queue \in BoundedSeq(Tracks, MaxQueue)
      /\ s.index \in 0..MaxQueue
      /\ s.visited \in SUBSET Tracks /\ s.heard \in SUBSET Tracks
      /\ s.repeat \in RepeatModes /\ s.shuffle \in BOOLEAN /\ s.counted \in BOOLEAN
  BY DEF Kept, Saved
<1>2. s.queue \in Seq(Tracks) /\ Len(s.queue) <= MaxQueue
  BY <1>1, BoundedIsSeq, RemoteAssumption
<1>3. Len(s.queue) \in Nat /\ s.index \in Nat /\ (s.queue = <<>> <=> Len(s.queue) = 0)
  BY <1>1, <1>2
<1>4. ASSUME s.queue # <<>>
      PROVE  /\ s.index \in 0..(Len(s.queue) - 1) /\ s.index + 1 \in 1..Len(s.queue)
             /\ At(s) \in Tracks /\ At(s) \in ToSet(s.queue)
  <2>1. s.index \in 0..(Len(s.queue) - 1)
    BY <1>4 DEF InRange, Kept
  <2>2. s.index + 1 \in 1..Len(s.queue)
    BY <1>3, <2>1
  <2> QED
    BY <1>2, <2>1, <2>2 DEF At, ToSet
<1> QED
  BY <1>1, <1>2, <1>3, <1>4

LEMMA QueueTyped ==
  ASSUME NEW q
  PROVE  q \in BoundedSeq(Tracks, MaxQueue) <=> q \in Seq(Tracks) /\ Len(q) <= MaxQueue
  BY BoundedIsSeq, RemoteAssumption

LEMMA PlaceTyped ==
  ASSUME NEW q \in Seq(Tracks), Len(q) <= MaxQueue, NEW i \in 0..(Len(q) - 1)
  PROVE  q \in BoundedSeq(Tracks, MaxQueue) /\ i \in 0..MaxQueue
<1>1. MaxQueue \in Nat /\ Len(q) \in Nat
  BY RemoteAssumption
<1>2. i \in 0..MaxQueue
  BY <1>1
<1> QED
  BY <1>2, QueueTyped

LEMMA SomePositions ==
  {0, 1} \subseteq Positions /\ 0 \in Positions
  BY DEF Positions

\* Another queue and a place in it.
Edited(s, queue, index) == [s EXCEPT !.queue = queue, !.index = index]

LEMMA EditedIs ==
  ASSUME NEW s \in Saved, NEW q \in BoundedSeq(Tracks, MaxQueue), NEW i \in 0..MaxQueue
  PROVE  LET t == Edited(s, q, i)
         IN  /\ t \in Saved /\ t.queue = q /\ t.index = i /\ t.visited = s.visited
             /\ SameModes(s, t) /\ SameHistory(s, t) /\ SameTimer(s, t)
  BY DEF Saved, SameModes, SameHistory, SameTimer, Edited

\* Another place in the same queue.
LEMMA IndexIs ==
  ASSUME NEW s \in Saved, NEW i \in 0..MaxQueue
  PROVE  LET t == [s EXCEPT !.index = i]
         IN  /\ t \in Saved /\ t.queue = s.queue /\ t.index = i /\ t.visited = s.visited
             /\ SameModes(s, t) /\ SameHistory(s, t) /\ SameTimer(s, t)
  BY DEF Saved, SameModes, SameHistory, SameTimer

LEMMA ResetHistoryIs ==
  ASSUME NEW s \in Saved
  PROVE  LET t == ResetHistory(s)
         IN  t \in Saved /\ SamePlace(s, t) /\ NoHistory(t) /\ SameTimer(s, t)
  BY DEF Saved, SameModes, SamePlace, NoHistory, SameTimer, ResetHistory

LEMMA DisarmedIs ==
  ASSUME NEW s \in Saved
  PROVE  LET t == Disarmed(s)
         IN  /\ t \in Saved /\ SamePlace(s, t) /\ SameHistory(s, t) /\ t.position = s.position
             /\ t.deadline = "off" /\ t.finish = FALSE /\ t.waiting = FALSE
  BY DEF Saved, SameModes, SamePlace, SameHistory, Disarmed

\* markShuffleLocked and resetShuffleLocked change the record of the round only.
LEMMA MarkIs ==
  ASSUME NEW s, Kept(s)
  PROVE  LET t == Mark(s)
         IN  /\ Kept(t) /\ t.queue = s.queue /\ t.index = s.index
             /\ t.visited = IF s.queue = <<>> THEN s.visited ELSE s.visited \cup {At(s)}
             /\ SameModes(s, t) /\ SameHistory(s, t) /\ SameTimer(s, t)
<1>1. CASE s.queue = <<>>
  BY <1>1, KeptIs DEF Mark, SameModes, SameHistory, SameTimer
<1>2. CASE s.queue # <<>>
  <2>1. s \in Saved /\ s.visited \cup {At(s)} \in SUBSET Tracks
    BY <1>2, KeptIs
  <2>2. Mark(s) = [s EXCEPT !.visited = s.visited \cup {At(s)}]
    BY <1>2 DEF Mark
  <2> DEFINE v == s.visited \cup {At(s)}
             t == [s EXCEPT !.visited = v]
  <2> HIDE DEF v
  <2>3. /\ t \in Saved /\ t.queue = s.queue /\ t.index = s.index /\ t.visited = v
        /\ SameModes(s, t) /\ SameHistory(s, t) /\ SameTimer(s, t)
    BY <2>1 DEF Saved, SameModes, SameHistory, SameTimer, v
  <2>4. Mark(s) = t
    BY <2>2 DEF v
  <2> HIDE DEF t
  <2> QED
    BY <1>2, <2>3, <2>4 DEF Kept, InRange, v
<1> QED
  BY <1>1, <1>2

LEMMA ResetRoundIs ==
  ASSUME NEW s, Kept(s)
  PROVE  LET t == ResetRound(s)
         IN  /\ Kept(t) /\ t.queue = s.queue /\ t.index = s.index
             /\ t.visited = IF s.queue = <<>> THEN {} ELSE {At(s)}
             /\ SameModes(s, t) /\ SameHistory(s, t) /\ SameTimer(s, t)
<1> DEFINE u == [s EXCEPT !.visited = {}]
<1>1. s \in Saved
  BY DEF Kept
<1>2. /\ u \in Saved /\ u.queue = s.queue /\ u.index = s.index /\ u.visited = {}
      /\ SameModes(s, u) /\ SameHistory(s, u) /\ SameTimer(s, u)
  BY <1>1 DEF Saved, SameModes, SameHistory, SameTimer
<1>3. ResetRound(s) = Mark(u)
  BY DEF ResetRound
<1> HIDE DEF u
<1>4. Kept(u) /\ At(u) = At(s)
  BY <1>2 DEF Kept, InRange, At
<1>5. /\ Kept(Mark(u)) /\ Mark(u).queue = u.queue /\ Mark(u).index = u.index
      /\ Mark(u).visited = IF u.queue = <<>> THEN u.visited ELSE u.visited \cup {At(u)}
      /\ SameModes(u, Mark(u)) /\ SameHistory(u, Mark(u)) /\ SameTimer(u, Mark(u))
  BY <1>4, MarkIs
<1> QED
  BY <1>2, <1>3, <1>4, <1>5 DEF SameModes, SameHistory, SameTimer

\* What is the same after moving on: everything but the index and the round.
Onward(s, t) ==
  t.queue = s.queue /\ SameModes(s, t) /\ SameHistory(s, t) /\ SameTimer(s, t)

\* Another place in the queue, marked as the current one or with a new round.
LEMMA GoneTo ==
  ASSUME NEW s, Kept(s), NEW i \in 0..(Len(s.queue) - 1)
  PROVE  LET u == [s EXCEPT !.index = i]
         IN  /\ Sound(Mark(u)) /\ Onward(s, Mark(u)) /\ Mark(u).index = i
             /\ Sound(ResetRound(u)) /\ Onward(s, ResetRound(u)) /\ ResetRound(u).index = i
             /\ s.queue # <<>>
<1> DEFINE u == [s EXCEPT !.index = i]
<1>1. s \in Saved /\ s.queue # <<>> /\ i \in 0..MaxQueue
  <2>1. Len(s.queue) \in Nat /\ Len(s.queue) <= MaxQueue /\ (s.queue = <<>> <=> Len(s.queue) = 0)
    BY KeptIs
  <2>2. Len(s.queue) # 0 /\ i \in 0..MaxQueue
    BY <2>1, RemoteAssumption
  <2> QED
    BY <2>1, <2>2, KeptIs
<1>2. u \in Saved /\ u.queue = s.queue /\ u.index = i /\ Onward(s, u)
  BY <1>1, IndexIs DEF Onward
<1> HIDE DEF u
<1>3. Kept(u)
  BY <1>1, <1>2 DEF Kept, InRange
<1>4. /\ Kept(Mark(u)) /\ Mark(u).queue = u.queue /\ Mark(u).index = i
      /\ At(u) \in Mark(u).visited /\ Onward(u, Mark(u))
  BY <1>1, <1>2, <1>3, MarkIs DEF Onward
<1>5. /\ Kept(ResetRound(u)) /\ ResetRound(u).queue = u.queue /\ ResetRound(u).index = i
      /\ At(u) \in ResetRound(u).visited /\ Onward(u, ResetRound(u))
  BY <1>1, <1>2, <1>3, ResetRoundIs DEF Onward
<1>6. At(Mark(u)) = At(u) /\ At(ResetRound(u)) = At(u)
  BY <1>2, <1>4, <1>5 DEF At
<1>7. ASSUME NEW t, Onward(u, t) PROVE Onward(s, t)
  BY <1>2, <1>7 DEF Onward, SameModes, SameHistory, SameTimer
<1> QED
  BY <1>1, <1>4, <1>5, <1>6, <1>7 DEF Sound, u

LEMMA AdvanceShuffleIs ==
  ASSUME NEW s, Kept(s), s.queue # <<>>
  PROVE  /\ \A t \in AdvanceShuffle(s) : Sound(t) /\ Onward(s, t)
         /\ AdvanceShuffle(s) = {} => At(s) \in s.visited
<1> DEFINE fresh == FirstUnseen(s, s.visited)
           others == FirstUnseen(s, {At(s)})
<1>1. s.queue \in Seq(Tracks) /\ s.index \in 0..(Len(s.queue) - 1) /\ At(s) \in ToSet(s.queue)
  BY KeptIs
<1>2. /\ \A i \in fresh : i \in 0..(Len(s.queue) - 1)
      /\ fresh = {} => ToSet(s.queue) \subseteq s.visited
  BY <1>1, FirstUnseenIs
<1>3. \A i \in others : i \in 0..(Len(s.queue) - 1)
  BY <1>1, FirstUnseenIs
<1>4. NewRound(s) = IF others = {} THEN {s.index} ELSE others
  BY DEF NewRound
<1> HIDE DEF fresh, others
<1>5. \A i \in NewRound(s) : i \in 0..(Len(s.queue) - 1)
  BY <1>1, <1>3, <1>4
<1>6. CASE fresh # {}
  <2>1. AdvanceShuffle(s) = {Mark([s EXCEPT !.index = i]) : i \in fresh}
    BY <1>6 DEF AdvanceShuffle, fresh
  <2>2. AdvanceShuffle(s) # {}
    BY <1>6, <2>1
  <2>3. ASSUME NEW t \in AdvanceShuffle(s) PROVE Sound(t) /\ Onward(s, t)
    <3>1. PICK i \in fresh : t = Mark([s EXCEPT !.index = i])
      BY <2>1
    <3>2. i \in 0..(Len(s.queue) - 1)
      BY <1>2
    <3> QED
      BY <3>1, <3>2, GoneTo
  <2> QED
    BY <2>2, <2>3
<1>7. CASE fresh = {}
  <2>1. ToSet(s.queue) \subseteq s.visited
    BY <1>2, <1>7
  <2>2. ASSUME NEW t \in AdvanceShuffle(s) PROVE Sound(t) /\ Onward(s, t)
    <3>1. t \in {ResetRound([s EXCEPT !.index = i]) : i \in NewRound(s)}
      BY <1>7 DEF AdvanceShuffle, fresh
    <3>2. PICK i \in NewRound(s) : t = ResetRound([s EXCEPT !.index = i])
      BY <3>1
    <3>3. i \in 0..(Len(s.queue) - 1)
      BY <1>5
    <3> QED
      BY <3>2, <3>3, GoneTo
  <2> QED
    BY <1>1, <2>1, <2>2
<1> QED
  BY <1>6, <1>7

\* Where shuffle goes: to a track that was not visited, or, when all were, into
\* a round that has that track only.
LEMMA ShuffledIs ==
  ASSUME NEW s, Kept(s), s.queue # <<>>, NEW t \in AdvanceShuffle(s)
  PROVE  /\ At(t) \in Distinct(s)
         /\ \/ At(t) \notin s.visited /\ t.visited = s.visited \cup {At(t)}
            \/ Distinct(s) \subseteq s.visited /\ t.visited = {At(t)}
<1> DEFINE fresh == FirstUnseen(s, s.visited)
<1>1. Sound(t) /\ Onward(s, t)
  BY AdvanceShuffleIs
<1>2. At(t) \in Distinct(s)
  BY <1>1, KeptIs DEF Sound, Onward, Distinct
<1>3. s.queue \in Seq(Tracks) /\ s \in Saved /\ Len(s.queue) \in Nat
  BY KeptIs
<1>4. /\ \A i \in fresh : i \in 0..(Len(s.queue) - 1) /\ s.queue[i + 1] \notin s.visited
      /\ fresh = {} => Distinct(s) \subseteq s.visited
  BY <1>3, FirstUnseenIs DEF Distinct
<1> HIDE DEF fresh
<1>5. ASSUME NEW i \in 0..(Len(s.queue) - 1)
      PROVE  LET u == [s EXCEPT !.index = i]
             IN  /\ Kept(u) /\ u.queue = s.queue /\ u.visited = s.visited
                 /\ At(u) = s.queue[i + 1]
                 /\ Mark(u).visited = s.visited \cup {At(u)} /\ At(Mark(u)) = At(u)
                 /\ ResetRound(u).visited = {At(u)} /\ At(ResetRound(u)) = At(u)
  <2> DEFINE u == [s EXCEPT !.index = i]
  <2>1. i \in 0..MaxQueue
    BY <1>3, PlaceTyped, KeptIs
  <2>2. /\ u \in Saved /\ u.queue = s.queue /\ u.index = i /\ u.visited = s.visited
    BY <1>3, <2>1, IndexIs
  <2> HIDE DEF u
  <2>3. Kept(u) /\ At(u) = s.queue[i + 1]
    BY <2>2 DEF Kept, InRange, At
  <2>4. /\ Mark(u).queue = u.queue /\ Mark(u).index = u.index
        /\ Mark(u).visited = s.visited \cup {At(u)}
        /\ ResetRound(u).queue = u.queue /\ ResetRound(u).index = u.index
        /\ ResetRound(u).visited = {At(u)}
    BY <2>2, <2>3, MarkIs, ResetRoundIs
  <2> QED
    BY <2>2, <2>3, <2>4 DEF At, u
<1>6. CASE fresh # {}
  <2>1. PICK i \in fresh : t = Mark([s EXCEPT !.index = i])
    BY <1>6 DEF AdvanceShuffle, fresh
  <2>2. At(t) = s.queue[i + 1] /\ t.visited = s.visited \cup {At(t)}
    BY <1>4, <1>5, <2>1
  <2> QED
    BY <1>2, <1>4, <2>2
<1>7. CASE fresh = {}
  <2>1. PICK i \in NewRound(s) : t = ResetRound([s EXCEPT !.index = i])
    BY <1>7 DEF AdvanceShuffle, fresh
  <2>2. i \in 0..(Len(s.queue) - 1)
    BY <1>3, FirstUnseenIs, KeptIs DEF NewRound
  <2>3. t.visited = {At(t)}
    BY <1>5, <2>1, <2>2
  <2> QED
    BY <1>2, <1>4, <1>7, <2>3
<1> QED
  BY <1>6, <1>7

\* Every outcome of advanceLocked is a place in the same queue.
LEMMA AdvanceIs ==
  ASSUME NEW s, Sound(s), NEW manual \in BOOLEAN, NEW t \in Advance(s, manual)
  PROVE  s.queue # <<>> /\ Sound(t) /\ Onward(s, t)
<1>1. s.queue # <<>> /\ Kept(s)
  BY DEF Advance, Sound
<1>2. /\ Len(s.queue) \in Nat /\ s.index \in Nat /\ 0 \in 0..(Len(s.queue) - 1)
      /\ s.index \in 0..(Len(s.queue) - 1)
  <2>1. Len(s.queue) \in Nat /\ s.index \in Nat /\ Len(s.queue) # 0
        /\ s.index \in 0..(Len(s.queue) - 1)
    BY <1>1, KeptIs
  <2> QED
    BY <2>1
<1>3. CASE ~manual /\ s.repeat = "single"
  <2>1. t = s
    BY <1>1, <1>3 DEF Advance
  <2> QED
    BY <1>1, <2>1 DEF Onward, SameModes, SameHistory, SameTimer
<1>4. CASE ~(~manual /\ s.repeat = "single") /\ s.shuffle
  <2>1. t \in AdvanceShuffle(s)
    BY <1>1, <1>4 DEF Advance
  <2> QED
    BY <1>1, <2>1, AdvanceShuffleIs
<1>5. CASE ~(~manual /\ s.repeat = "single") /\ ~s.shuffle
  <2>1. t \in AdvanceInOrder(s)
    BY <1>1, <1>5 DEF Advance
  <2>2. CASE s.index + 1 < Len(s.queue)
    <3>1. t = Mark([s EXCEPT !.index = s.index + 1])
      BY <2>1, <2>2 DEF AdvanceInOrder
    <3>2. s.index + 1 \in 0..(Len(s.queue) - 1)
      BY <1>2, <2>2
    <3> QED
      BY <1>1, <3>1, <3>2, GoneTo
  <2>3. CASE ~(s.index + 1 < Len(s.queue))
    <3>1. t = ResetRound([s EXCEPT !.index = 0])
      BY <2>1, <2>3 DEF AdvanceInOrder
    <3> QED
      BY <1>1, <1>2, <3>1, GoneTo
  <2> QED
    BY <2>2, <2>3
<1> QED
  BY <1>3, <1>4, <1>5

-----------------------------------------------------------------------------
(* The edits.                                                              *)

\* An edit that leaves the place at the same track keeps the record sound.
LEMMA EditedSound ==
  ASSUME NEW s, Sound(s), s.queue # <<>>, NEW q \in Seq(Tracks), Len(q) <= MaxQueue,
         NEW i \in 0..(Len(q) - 1), q[i + 1] = s.queue[s.index + 1]
  PROVE  LET t == Edited(s, q, i)
         IN  /\ Sound(t) /\ t.queue = q /\ t.index = i /\ At(t) = At(s)
             /\ t.visited = s.visited
             /\ SameModes(s, t) /\ SameHistory(s, t) /\ SameTimer(s, t)
<1> DEFINE t == Edited(s, q, i)
<1>1. s \in Saved /\ q \in BoundedSeq(Tracks, MaxQueue) /\ i \in 0..MaxQueue
  BY PlaceTyped, KeptIs DEF Sound
<1>2. /\ t \in Saved /\ t.queue = q /\ t.index = i /\ t.visited = s.visited
      /\ SameModes(s, t) /\ SameHistory(s, t) /\ SameTimer(s, t)
  BY <1>1, EditedIs
<1> HIDE DEF t
<1>3. At(t) = At(s) /\ q # <<>>
  BY <1>2 DEF At
<1>4. Sound(t)
  BY <1>2, <1>3 DEF Sound, Kept, InRange, SameModes
<1> QED
  BY <1>2, <1>3, <1>4 DEF t

\* append keeps the current track, and begins a round if there is none.
LEMMA AppendedIs ==
  ASSUME NEW s, Sound(s), Len(s.queue) < MaxQueue, NEW p \in 0..Len(s.queue), NEW e \in Tracks
  PROVE  LET t == Appended(s, p, <<e>>)
         IN  /\ Sound(t) /\ t.queue # <<>>
             /\ s.queue # <<>> => At(t) = At(s)
             /\ t.visited = IF s.queue = <<>> THEN {At(t)} ELSE s.visited
             /\ SameHistory(s, t) /\ SameTimer(s, t) /\ SameModes(s, t)
<1> DEFINE o == s.queue
           q == Spliced(o, p, e)
           i == IF o # <<>> /\ p <= s.index THEN s.index + 1 ELSE s.index
           r == Edited(s, q, i)
           t == Appended(s, p, <<e>>)
<1>1. /\ s \in Saved /\ o \in Seq(Tracks) /\ Len(o) \in Nat /\ s.index \in Nat
      /\ o # <<>> => s.index \in 0..(Len(o) - 1)
      /\ o = <<>> <=> Len(o) = 0
      /\ o = <<>> => s.index = 0
  BY KeptIs DEF Sound, Kept
<1>2. /\ q \in Seq(Tracks) /\ Len(q) = Len(o) + 1
      /\ \A j \in 1..(Len(o) + 1) :
           q[j] = IF j <= p THEN o[j] ELSE IF j = p + 1 THEN e ELSE o[j - 1]
  <2>1. o \in Seq(Tracks) /\ p \in 0..Len(o) /\ e \in Tracks
    BY <1>1
  <2> HIDE DEF o
  <2> QED
    BY <2>1, SplicedIs
<1>3. t = IF o = <<>> THEN ResetRound(r) ELSE r
  <2> DEFINE m == IF o # <<>> /\ p <= s.index THEN s.index + Len(<<e>>) ELSE s.index
             u == Edited(s, q, m)
  <2>1. Len(<<e>>) = 1
    OBVIOUS
  <2>2. m = i
    BY <2>1
  <2>3. t = IF o = <<>> THEN ResetRound(u) ELSE u
    BY DEF Appended, Spliced, Edited
  <2> HIDE DEF q, m, i
  <2>4. u = r
    BY <2>2
  <2> HIDE DEF u, r
  <2> QED
    BY <2>3, <2>4
<1> HIDE DEF q, t
<1>4. i \in 0..(Len(q) - 1) /\ i \in Nat /\ q # <<>> /\ Len(q) <= MaxQueue
  BY <1>1, <1>2, RemoteAssumption
<1>5. o # <<>> => q[i + 1] = o[s.index + 1]
  <2> SUFFICES ASSUME o # <<>> PROVE q[i + 1] = o[s.index + 1]
    OBVIOUS
  <2>1. CASE p <= s.index
    <3>1. i + 1 = (s.index + 1) + 1 /\ i + 1 \in 1..(Len(o) + 1)
      BY <1>1, <2>1
    <3>2. ~(i + 1 <= p) /\ i + 1 # p + 1 /\ (i + 1) - 1 = s.index + 1
      BY <1>1, <2>1, <3>1
    <3> HIDE DEF o, i
    <3> QED
      BY <1>2, <3>1, <3>2
  <2>2. CASE ~(p <= s.index)
    <3>1. i + 1 = s.index + 1 /\ i + 1 \in 1..(Len(o) + 1) /\ i + 1 <= p
      BY <1>1, <2>2
    <3> HIDE DEF o, i
    <3> QED
      BY <1>2, <3>1
  <2> QED
    BY <2>1, <2>2
<1> HIDE DEF i
<1>6. CASE o # <<>>
  <2>1. /\ Sound(r) /\ r.queue = q /\ At(r) = At(s) /\ r.visited = s.visited
        /\ SameModes(s, r) /\ SameHistory(s, r) /\ SameTimer(s, r)
    <3>1. /\ s.queue # <<>> /\ q \in Seq(Tracks) /\ Len(q) <= MaxQueue
          /\ i \in 0..(Len(q) - 1) /\ q[i + 1] = s.queue[s.index + 1]
      BY <1>2, <1>4, <1>5, <1>6
    <3> HIDE DEF o
    <3> QED
      BY <3>1, EditedSound
  <2> HIDE DEF r
  <2> QED
    BY <1>3, <1>4, <1>6, <2>1 DEF t
<1>7. CASE o = <<>>
  <2>1. q \in BoundedSeq(Tracks, MaxQueue) /\ i \in 0..MaxQueue
    BY <1>2, <1>4, PlaceTyped
  <2>2. /\ r \in Saved /\ r.queue = q /\ r.index = i
        /\ SameModes(s, r) /\ SameHistory(s, r) /\ SameTimer(s, r)
    BY <1>1, <2>1, EditedIs
  <2> HIDE DEF r
  <2>3. Kept(r)
    BY <1>4, <2>2 DEF Kept, InRange
  <2>4. /\ Kept(t) /\ t.queue = q /\ t.index = i /\ t.visited = {At(r)}
        /\ SameModes(r, t) /\ SameHistory(r, t) /\ SameTimer(r, t)
    BY <1>3, <1>4, <1>7, <2>2, <2>3, ResetRoundIs
  <2>5. At(t) = At(r)
    BY <2>2, <2>4 DEF At
  <2> QED
    BY <1>4, <1>7, <2>2, <2>4, <2>5 DEF Sound, SameModes, SameHistory, SameTimer, t
<1> QED
  BY <1>6, <1>7

\* move keeps the current track.
LEMMA MovedIs ==
  ASSUME NEW s, Sound(s), s.queue # <<>>,
         NEW p \in 0..(Len(s.queue) - 1), NEW k \in 0..(Len(s.queue) - 1)
  PROVE  LET t == Moved(s, p, k)
         IN  /\ Sound(t) /\ t.queue # <<>> /\ At(t) = At(s) /\ t.visited = s.visited
             /\ SameModes(s, t) /\ SameHistory(s, t) /\ SameTimer(s, t)
<1> DEFINE o == s.queue
           x == o[p + 1]
           a == RemoveAt(o, p + 1)
           q == InsertAt(a, k + 1, x)
           i == CASE s.index = p -> k
                  [] p < s.index /\ k >= s.index -> s.index - 1
                  [] p > s.index /\ k <= s.index -> s.index + 1
                  [] OTHER -> s.index
           r == Edited(s, q, i)
<1>1. /\ o \in Seq(Tracks) /\ Len(o) \in Nat /\ s.index \in Nat /\ Len(o) <= MaxQueue
      /\ s.index \in 0..(Len(o) - 1)
  BY KeptIs DEF Sound
<1>2. /\ p + 1 \in 1..Len(o) /\ x \in Tracks
      /\ p \in 0..(Len(o) - 1) /\ k \in 0..(Len(o) - 1)
  BY <1>1
<1>3. /\ a \in Seq(Tracks) /\ Len(a) = Len(o) - 1
      /\ \A j \in 1..(Len(o) - 1) : a[j] = IF j < p + 1 THEN o[j] ELSE o[j + 1]
  BY <1>1, <1>2, RemoveAtIs
<1>4. Moved(s, p, k) = r
  <2> HIDE DEF i
  <2> QED
    BY <1>1 DEF Moved, Edited, i
<1> HIDE DEF a, x
<1>5. k + 1 \in 1..(Len(a) + 1)
  BY <1>1, <1>3
<1>6. /\ q \in Seq(Tracks) /\ Len(q) = Len(a) + 1
      /\ \A j \in 1..(Len(a) + 1) :
           q[j] = IF j < k + 1 THEN a[j] ELSE IF j = k + 1 THEN x ELSE a[j - 1]
  <2>1. a \in Seq(Tracks) /\ x \in Tracks
    BY <1>2, <1>3
  <2> DEFINE n == k + 1
  <2>2. n \in 1..(Len(a) + 1)
    BY <1>5
  <2> HIDE DEF o, i, n, q
  <2>3. /\ InsertAt(a, n, x) \in Seq(Tracks) /\ Len(InsertAt(a, n, x)) = Len(a) + 1
        /\ \A j \in 1..(Len(a) + 1) :
             InsertAt(a, n, x)[j] = IF j < n THEN a[j] ELSE IF j = n THEN x ELSE a[j - 1]
    BY <2>1, <2>2, InsertAtIs
  <2>4. q = InsertAt(a, n, x)
    BY DEF q, n
  <2>5. /\ q \in Seq(Tracks) /\ Len(q) = Len(a) + 1
        /\ \A j \in 1..(Len(a) + 1) :
             q[j] = IF j < n THEN a[j] ELSE IF j = n THEN x ELSE a[j - 1]
    BY <2>3, <2>4
  <2> QED
    BY <2>5 DEF n
<1> HIDE DEF q, o
<1>7. Len(q) = Len(o)
  BY <1>1, <1>3, <1>6
<1>8. i \in 0..(Len(o) - 1) /\ q[i + 1] = o[s.index + 1]
  <2>1. CASE s.index = p
    <3>1. i = k
      BY <2>1
    <3>2. i + 1 \in 1..(Len(a) + 1) /\ i + 1 = k + 1
      BY <1>5, <3>1
    <3>3. q[i + 1] = x
      BY <1>6, <3>2
    <3> HIDE DEF i
    <3>4. i \in 0..(Len(o) - 1) /\ q[i + 1] = q[k + 1]
      BY <1>2, <3>1
    <3>5. x = o[s.index + 1]
      BY <2>1 DEF x
    <3> QED
      BY <3>3, <3>4, <3>5
  <2>2. CASE s.index # p /\ p < s.index /\ k >= s.index
    <3>1. i = s.index - 1
      BY <2>2, <1>1, <1>2
    <3>2. /\ i + 1 \in 1..(Len(a) + 1) /\ i + 1 < k + 1 /\ i + 1 \in 1..(Len(o) - 1)
          /\ ~(i + 1 < p + 1) /\ (i + 1) + 1 = s.index + 1
      BY <1>1, <1>2, <1>3, <2>2, <3>1
    <3>3. q[i + 1] = o[s.index + 1]
      BY <1>3, <1>6, <3>2
    <3> HIDE DEF i
    <3> QED
      BY <1>1, <1>2, <2>2, <3>1, <3>3
  <2>3. CASE s.index # p /\ p > s.index /\ k <= s.index
    <3>1. i = s.index + 1
      BY <2>3, <1>1, <1>2
    <3>2. /\ i + 1 \in 1..(Len(a) + 1) /\ ~(i + 1 < k + 1) /\ i + 1 # k + 1
          /\ (i + 1) - 1 = s.index + 1
          /\ s.index + 1 \in 1..(Len(o) - 1) /\ s.index + 1 < p + 1
      BY <1>1, <1>2, <1>3, <2>3, <3>1
    <3>3. q[i + 1] = o[s.index + 1]
      BY <1>3, <1>6, <3>2
    <3> QED
      BY <1>1, <1>2, <3>1, <3>2, <3>3
  <2>4. CASE p < s.index /\ k < s.index
    <3>1. i = s.index
      BY <2>4, <1>1, <1>2
    <3>2. /\ i + 1 \in 1..(Len(a) + 1) /\ ~(i + 1 < k + 1) /\ i + 1 # k + 1
          /\ (i + 1) - 1 \in 1..(Len(o) - 1) /\ ~((i + 1) - 1 < p + 1)
          /\ ((i + 1) - 1) + 1 = s.index + 1
      BY <1>1, <1>2, <1>3, <2>4, <3>1
    <3>3. q[i + 1] = o[s.index + 1]
      BY <1>3, <1>6, <3>2
    <3> QED
      BY <1>1, <1>2, <3>1, <3>2, <3>3
  <2>5. CASE p > s.index /\ k > s.index
    <3>1. i = s.index
      BY <2>5, <1>1, <1>2
    <3>2. /\ i + 1 \in 1..(Len(a) + 1) /\ i + 1 < k + 1 /\ i + 1 \in 1..(Len(o) - 1)
          /\ i + 1 < p + 1
      BY <1>1, <1>2, <1>3, <2>5, <3>1
    <3>3. q[i + 1] = o[s.index + 1]
      BY <1>3, <1>6, <3>1, <3>2
    <3> QED
      BY <1>1, <1>2, <3>1, <3>2, <3>3
  <2> QED
    BY <1>1, <2>1, <2>2, <2>3, <2>4, <2>5
<1> HIDE DEF i
<1>9. q # <<>> /\ Len(q) <= MaxQueue /\ i \in 0..(Len(q) - 1)
  BY <1>1, <1>6, <1>7, <1>8
<1>10. q[i + 1] = s.queue[s.index + 1]
  BY <1>8 DEF o
<1>11. /\ Sound(r) /\ r.queue = q /\ At(r) = At(s) /\ r.visited = s.visited
       /\ SameModes(s, r) /\ SameHistory(s, r) /\ SameTimer(s, r)
  BY <1>6, <1>9, <1>10, EditedSound
<1> HIDE DEF r
<1> QED
  BY <1>4, <1>9, <1>11

\* The place in what a removal leaves.
RemovedIndex(s, p) ==
  LET queue == RemoveAt(s.queue, p + 1)
      index == IF p < s.index THEN s.index - 1 ELSE s.index
      last == IF queue = <<>> THEN 0 ELSE Len(queue) - 1
  IN IF p = s.index /\ index > last THEN last ELSE index

LEMMA RemovedIndexIs ==
  ASSUME NEW s, Sound(s), s.queue # <<>>, NEW p \in 0..(Len(s.queue) - 1)
  PROVE  LET q == RemoveAt(s.queue, p + 1)
             i == RemovedIndex(s, p)
         IN  /\ q \in Seq(Tracks) /\ Len(q) <= MaxQueue
             /\ q = <<>> => i = 0
             /\ q # <<>> => i \in 0..(Len(q) - 1)
             /\ p # s.index => q # <<>> /\ q[i + 1] = s.queue[s.index + 1]
<1> DEFINE o == s.queue
           q == RemoveAt(o, p + 1)
           index == IF p < s.index THEN s.index - 1 ELSE s.index
           last == IF q = <<>> THEN 0 ELSE Len(q) - 1
           i == IF p = s.index /\ index > last THEN last ELSE index
<1>1. /\ o \in Seq(Tracks) /\ Len(o) \in Nat /\ s.index \in Nat /\ Len(o) <= MaxQueue
      /\ s.index \in 0..(Len(o) - 1)
  BY KeptIs DEF Sound
<1>2. p + 1 \in 1..Len(o) /\ p \in 0..(Len(o) - 1)
  BY <1>1
<1>3. /\ q \in Seq(Tracks) /\ Len(q) = Len(o) - 1
      /\ \A j \in 1..(Len(o) - 1) : q[j] = IF j < p + 1 THEN o[j] ELSE o[j + 1]
  BY <1>1, <1>2, RemoveAtIs
<1>4. RemovedIndex(s, p) = i
  BY DEF RemovedIndex
<1> HIDE DEF q, o
<1>5. /\ Len(q) \in Nat /\ Len(q) <= MaxQueue /\ (q = <<>> <=> Len(q) = 0)
  BY <1>1, <1>3, RemoteAssumption
<1>6. i \in Nat /\ (q = <<>> => i = 0) /\ (q # <<>> => i \in 0..(Len(q) - 1))
  <2>1. CASE p = s.index
    <3>1. index = s.index
      BY <2>1, <1>1
    <3>2. s.index <= Len(q)
      BY <1>1, <1>3
    <3>3. i = IF s.index > last THEN last ELSE s.index
      BY <2>1, <3>1
    <3> QED
      BY <1>1, <1>5, <3>2, <3>3
  <2>2. CASE p < s.index
    <3>1. i = s.index - 1
      BY <1>1, <1>2, <2>2
    <3> QED
      BY <1>1, <1>2, <1>3, <1>5, <2>2, <3>1
  <2>3. CASE p > s.index
    <3>1. i = s.index
      BY <1>1, <1>2, <2>3
    <3> QED
      BY <1>1, <1>2, <1>3, <1>5, <2>3, <3>1
  <2> QED
    BY <1>1, <1>2, <2>1, <2>2, <2>3
<1>7. p # s.index => q # <<>> /\ q[i + 1] = o[s.index + 1]
  <2>1. CASE p < s.index
    <3>1. i = s.index - 1
      BY <1>1, <1>2, <2>1
    <3>2. i + 1 \in 1..(Len(o) - 1) /\ ~(i + 1 < p + 1) /\ (i + 1) + 1 = s.index + 1
      BY <1>1, <1>2, <2>1, <3>1
    <3>3. q[i + 1] = o[s.index + 1]
      BY <1>3, <3>2
    <3> QED
      BY <1>1, <1>3, <1>5, <3>2, <3>3
  <2>2. CASE p > s.index
    <3>1. i = s.index
      BY <1>1, <1>2, <2>2
    <3>2. i + 1 \in 1..(Len(o) - 1) /\ i + 1 < p + 1
      BY <1>1, <1>2, <2>2, <3>1
    <3>3. q[i + 1] = o[s.index + 1]
      BY <1>3, <3>1, <3>2
    <3> QED
      BY <1>1, <1>3, <1>5, <3>2, <3>3
  <2> QED
    BY <1>1, <1>2, <2>1, <2>2
<1> HIDE DEF i
<1> QED
  BY <1>3, <1>4, <1>5, <1>6, <1>7 DEF q, o

\* remove keeps the current track, or its place in what is left.
LEMMA RemovedIs ==
  ASSUME NEW s, Sound(s), s.queue # <<>>, NEW p \in 0..(Len(s.queue) - 1)
  PROVE  LET t == Removed(s, p, p = s.index)
         IN  /\ Kept(t) /\ t.queue = RemoveAt(s.queue, p + 1) /\ t.visited = s.visited
             /\ p # s.index => Sound(t) /\ t.queue # <<>> /\ At(t) = At(s)
             /\ SameModes(s, t) /\ SameHistory(s, t) /\ SameTimer(s, t)
<1> DEFINE q == RemoveAt(s.queue, p + 1)
           i == RemovedIndex(s, p)
           r == Edited(s, q, i)
<1>1. Removed(s, p, p = s.index) = r
  BY DEF Removed, Edited, RemovedIndex
<1>2. /\ q \in Seq(Tracks) /\ Len(q) <= MaxQueue
      /\ q = <<>> => i = 0
      /\ q # <<>> => i \in 0..(Len(q) - 1)
      /\ p # s.index => q # <<>> /\ q[i + 1] = s.queue[s.index + 1]
  BY RemovedIndexIs
<1> HIDE DEF i, q
<1>3. s \in Saved /\ q \in BoundedSeq(Tracks, MaxQueue) /\ i \in 0..MaxQueue
  <2>1. 0 \in 0..MaxQueue
    BY RemoteAssumption
  <2>2. CASE q = <<>>
    BY <1>2, <2>1, <2>2, QueueTyped, KeptIs DEF Sound
  <2>3. CASE q # <<>>
    BY <1>2, <2>3, PlaceTyped, KeptIs DEF Sound
  <2> QED
    BY <2>2, <2>3
<1>4. /\ r \in Saved /\ r.queue = q /\ r.index = i /\ r.visited = s.visited
      /\ SameModes(s, r) /\ SameHistory(s, r) /\ SameTimer(s, r)
  BY <1>3, EditedIs
<1> HIDE DEF r
<1>5. Kept(r)
  BY <1>2, <1>4 DEF Kept, InRange
<1>6. p # s.index => Sound(r) /\ r.queue # <<>> /\ At(r) = At(s)
  BY <1>2, <1>4, <1>5 DEF Sound, SameModes, At
<1> QED
  BY <1>1, <1>4, <1>5, <1>6 DEF q

-----------------------------------------------------------------------------
(* Skipping.                                                               *)

\* One more advance of the loop of skipFailed that lands on a failed track.
FailedNext(S, bad) == UNION {{t \in Advance(u, TRUE) : At(t) \in bad} : u \in S}

\* The advances of the loop, written down one after the other.
SearchTo(m, g, c, bad) == [n \in 0..m |-> IF n = 0 THEN c ELSE FailedNext(g[n - 1], bad)]

LEMMA SearchExists ==
  ASSUME NEW c, NEW bad
  PROVE  \A m \in Nat : \E g : g = SearchTo(m, g, c, bad)
<1> DEFINE G(m, g) == SearchTo(m, g, c, bad)
<1> USE DEF SearchTo
<1> DEFINE Bad == {m \in Nat : ~\E g : g = G(m, g)}
<1>1. Bad = {}
  <2> SUFFICES ASSUME Bad # {} PROVE FALSE
    OBVIOUS
  <2>0. Bad \in SUBSET Nat
    OBVIOUS
  <2>1. PICK m \in Bad : \A l \in Bad : m <= l
    BY <2>0, LeastNumber, Zenon
  <2>2. m \in Nat /\ ~\E g : g = G(m, g)
    BY <2>1
  <2>3. CASE m = 0
    <3> DEFINE h == [n \in 0..0 |-> c]
    <3>1. h = G(m, h)
      BY <2>3
    <3> HIDE DEF h, G, SearchTo
    <3> QED
      BY <2>2, <3>1
  <2>4. CASE m # 0
    <3>1. m - 1 \in Nat /\ ~(m <= m - 1)
      BY <2>2, <2>4
    <3>2. PICK g : g = G(m - 1, g)
      BY <2>1, <3>1
    <3> DEFINE h == [n \in 0..m |-> IF n = m THEN FailedNext(g[m - 1], bad) ELSE g[n]]
    <3>3. ASSUME NEW n \in 0..m
          PROVE  h[n] = IF n = 0 THEN c ELSE FailedNext(h[n - 1], bad)
      <4>1. CASE n = m
        BY <2>2, <2>4, <4>1, <3>1
      <4>2. CASE n # m
        <5>1. n \in 0..(m - 1) /\ (n # 0 => n - 1 \in 0..m /\ n - 1 # m)
          BY <4>2, <2>2
        <5>2. g[n] = IF n = 0 THEN c ELSE FailedNext(g[n - 1], bad)
          BY <3>2, <5>1
        <5>3. h[n] = g[n] /\ (n # 0 => h[n - 1] = g[n - 1])
          BY <4>2, <5>1
        <5> HIDE DEF h
        <5> QED
          BY <5>2, <5>3, Zenon
      <4> QED
        BY <4>1, <4>2
    <3>4. h = G(m, h)
      BY <3>3
    <3> HIDE DEF h, G, SearchTo
    <3> QED
      BY <2>2, <3>4
  <2> QED
    BY <2>3, <2>4
<1> HIDE DEF SearchTo
<1> QED
  BY <1>1

\* The search is what the loop does.
LEMMA SearchingIs ==
  ASSUME NEW s, Len(s.queue) \in Nat, NEW bad
  PROVE  \A k \in 0..Len(s.queue) :
           Searching(s, bad)[k]
             = IF k = 0 THEN {s} ELSE FailedNext(Searching(s, bad)[k - 1], bad)
<1> DEFINE N == Len(s.queue)
           c == {s}
           G(g) == SearchTo(N, g, c, bad)
           U == CHOOSE g : g = G(g)
<1>0. N \in Nat
  OBVIOUS
<1>1. \E g : g = G(g)
  <2> HIDE DEF N, c
  <2> QED
    BY <1>0, SearchExists
<1>2. U = G(U)
  BY <1>1
<1>3. Searching(s, bad) = U
  BY DEF Searching, SkipTries, FailedNext, SearchTo
<1> HIDE DEF U
<1>4. \A n \in 0..N : U[n] = IF n = 0 THEN c ELSE FailedNext(U[n - 1], bad)
  BY <1>2 DEF SearchTo
<1> QED
  BY <1>3, <1>4

\* Wherever the loop looks it is in the same queue.
LEMMA SearchedIs ==
  ASSUME NEW s, Sound(s), NEW bad
  PROVE  \A k \in 0..Len(s.queue) : \A t \in Searching(s, bad)[k] : Sound(t) /\ Onward(s, t)
<1> DEFINE N == Len(s.queue)
           U == Searching(s, bad)
           Good(n) == \A t \in U[n] : Sound(t) /\ Onward(s, t)
           Bad == {n \in 0..N : ~Good(n)}
<1>1. N \in Nat
  BY KeptIs DEF Sound
<1>2. \A k \in 0..N : U[k] = IF k = 0 THEN {s} ELSE FailedNext(U[k - 1], bad)
  BY <1>1, SearchingIs
<1> HIDE DEF U, N
<1>3. Bad = {}
  <2> SUFFICES ASSUME Bad # {} PROVE FALSE
    OBVIOUS
  <2>0. Bad \in SUBSET Nat
    BY <1>1
  <2>1. PICK n \in Bad : \A l \in Bad : n <= l
    BY <2>0, LeastNumber, Zenon
  <2>2. n \in 0..N /\ ~Good(n)
    BY <2>1
  <2>3. CASE n = 0
    <3>1. U[n] = {s}
      BY <1>2, <2>2, <2>3
    <3>2. Onward(s, s)
      BY DEF Onward, SameModes, SameHistory, SameTimer
    <3> QED
      BY <2>2, <3>1, <3>2
  <2>4. CASE n # 0
    <3>1. n - 1 \in 0..N /\ ~(n <= n - 1)
      BY <1>1, <2>2, <2>4
    <3>2. Good(n - 1)
      BY <2>1, <3>1
    <3>3. U[n] = FailedNext(U[n - 1], bad)
      BY <1>2, <2>2, <2>4
    <3>4. ASSUME NEW t \in U[n] PROVE Sound(t) /\ Onward(s, t)
      <4>1. PICK u \in U[n - 1] : t \in Advance(u, TRUE)
        BY <3>3 DEF FailedNext
      <4>2. Sound(u) /\ Onward(s, u)
        BY <3>2
      <4>3. Sound(t) /\ Onward(u, t)
        BY <4>1, <4>2, AdvanceIs
      <4> QED
        BY <4>2, <4>3 DEF Onward, SameModes, SameHistory, SameTimer
    <3> QED
      BY <2>2, <3>4
  <2> QED
    BY <2>3, <2>4
<1> QED
  BY <1>3 DEF N, U

LEMMA SkipFindsIs ==
  ASSUME NEW s, Sound(s), NEW bad, NEW t \in SkipFinds(s, bad)
  PROVE  Sound(t) /\ Onward(s, t)
<1>1. Len(s.queue) \in Nat
  BY KeptIs DEF Sound
<1>2. PICK k \in 0..(Len(s.queue) - 1) :
        t \in UNION {{v \in Advance(u, TRUE) : At(v) \notin bad} : u \in Searching(s, bad)[k]}
  BY DEF SkipFinds, SkipTries
<1>3. PICK u \in Searching(s, bad)[k] : t \in Advance(u, TRUE)
  BY <1>2
<1>4. k \in 0..Len(s.queue)
  BY <1>1
<1>5. Sound(u) /\ Onward(s, u)
  BY <1>3, <1>4, SearchedIs
<1>6. Sound(t) /\ Onward(u, t)
  BY <1>3, <1>5, AdvanceIs
<1> QED
  BY <1>5, <1>6 DEF Onward, SameModes, SameHistory, SameTimer

LEMMA SkipExhaustsIs ==
  ASSUME NEW s, Sound(s), NEW bad, NEW t \in SkipExhausts(s, bad)
  PROVE  Sound(t) /\ Onward(s, t)
<1>1. Len(s.queue) \in Nat
  BY KeptIs DEF Sound
<1>2. PICK k \in 0..Len(s.queue) : t \in Searching(s, bad)[k]
  <2>1. CASE t \in Searching(s, bad)[Len(s.queue)]
    <3>1. Len(s.queue) \in 0..Len(s.queue)
      BY <1>1
    <3> QED
      BY <2>1, <3>1
  <2>2. CASE t \notin Searching(s, bad)[Len(s.queue)]
    <3>1. t \in UNION {{u \in Searching(s, bad)[k] : Advance(u, TRUE) = {}} :
                         k \in 0..(Len(s.queue) - 1)}
      BY <2>2 DEF SkipExhausts, SkipTries
    <3>2. PICK k \in 0..(Len(s.queue) - 1) : t \in Searching(s, bad)[k]
      BY <3>1
    <3>3. k \in 0..Len(s.queue)
      BY <1>1
    <3> QED
      BY <3>2, <3>3
  <2> QED
    BY <2>1, <2>2
<1> QED
  BY <1>2, SearchedIs

\* What NewRemote makes of a sound remote.json: the same place, and no timer.
LEMMA RestoredIs ==
  ASSUME NEW d, Sound(d)
  PROVE  LET t == Restored(d)
         IN  /\ Sound(t) /\ t.queue = d.queue /\ t.index = d.index /\ SameModes(d, t)
             /\ ~scenario.continuous /\ d.shuffle => t.visited = d.visited
             /\ SameHistory(d, t)
             /\ t.deadline = "off" /\ t.waiting = FALSE
<1> DEFINE last == IF d.queue = <<>> THEN 0 ELSE Len(d.queue) - 1
           i == IF d.index > last THEN last ELSE d.index
           u == [d EXCEPT !.index = i]
           t == Restored(d)
<1>1. /\ d \in Saved /\ d.index \in Nat /\ Len(d.queue) \in Nat /\ d.index \in 0..MaxQueue
      /\ d.queue = <<>> => d.index = 0
      /\ d.queue # <<>> => d.index \in 0..(Len(d.queue) - 1)
  BY KeptIs DEF Sound, Kept
<1>2. i = d.index
  BY <1>1
<1>3. t = Disarmed(Mark(u))
  BY DEF Restored
<1> HIDE DEF i, t
<1>4. /\ u \in Saved /\ u.queue = d.queue /\ u.index = d.index /\ u.visited = d.visited
      /\ SameModes(d, u) /\ SameHistory(d, u) /\ SameTimer(d, u)
  BY <1>1, <1>2, IndexIs
<1> HIDE DEF u
<1>5. Kept(u) /\ At(u) = At(d)
  BY <1>4 DEF Sound, Kept, InRange, At
<1> DEFINE m == Mark(u)
<1>6. /\ Kept(m) /\ m.queue = u.queue /\ m.index = u.index
      /\ m.visited = IF u.queue = <<>> THEN u.visited ELSE u.visited \cup {At(u)}
      /\ SameModes(u, m) /\ SameHistory(u, m)
  BY <1>5, MarkIs
<1> HIDE DEF m
<1>7. /\ t \in Saved /\ SamePlace(m, t) /\ SameHistory(m, t)
      /\ t.deadline = "off" /\ t.waiting = FALSE
  <2>1. m \in Saved
    BY <1>6 DEF Kept
  <2> QED
    BY <1>3, <2>1, DisarmedIs DEF m
<1>8. /\ t.queue = d.queue /\ t.index = d.index /\ SameModes(d, t) /\ SameHistory(d, t)
      /\ t.visited = m.visited /\ At(t) = At(d)
  BY <1>4, <1>6, <1>7 DEF SamePlace, SameModes, SameHistory, At
<1>9. Sound(t)
  <2>1. Kept(t)
    BY <1>7, <1>8 DEF Sound, Kept, InRange
  <2>2. t.queue # <<>> => At(t) \in t.visited
    BY <1>4, <1>5, <1>6, <1>8
  <2> QED
    BY <2>1, <2>2 DEF Sound
<1>10. ASSUME ~scenario.continuous, d.shuffle PROVE t.visited = d.visited
  <2>1. CASE d.queue = <<>>
    BY <1>4, <1>6, <1>8, <2>1
  <2>2. CASE d.queue # <<>>
    <3>1. At(d) \in d.visited
      BY <1>10, <2>2 DEF Sound
    <3> QED
      BY <1>4, <1>5, <1>6, <1>8, <2>2, <3>1
  <2> QED
    BY <2>1, <2>2
<1> QED
  BY <1>7, <1>8, <1>9, <1>10 DEF t

-----------------------------------------------------------------------------
(* The invariant.                                                          *)

States == {"stop", "pause", "loading", "play"}
Workers == [phase : {"none", "loading", "streaming", "heard"}, plan : Saved,
            buffered : BOOLEAN, crossed : BOOLEAN]
Handlers == [at : {"idle", "command", "start", "begin", "persist"},
             origin : {"client", "end", "error", "tick"},
             index : 0..MaxQueue, playing : BOOLEAN, copy : Saved]

TypesOk(sc, st, f, w, h) ==
  /\ sc \in Scenarios /\ st \in States /\ f \in SUBSET Tracks
  /\ w \in Workers /\ h \in Handlers

\* The place, on disk and in the copies of the worker and of start() too.
SoundOk(s, w, h, d) == Sound(s) /\ Sound(d) /\ Sound(w.plan) /\ Sound(h.copy)

\* Whoever plays is playing the current track, or has crossed with a boundary;
\* a command knows of it.
WorkerOk(s, st, w, h) ==
  w.phase # "none" =>
    /\ s.queue # <<>> /\ w.plan.queue # <<>>
    /\ At(w.plan) = At(s) \/ w.crossed
    /\ st \in Busy
    /\ h.at = "command" => h.playing
    /\ ~(h.at \in {"start", "begin"} /\ h.origin # "client")

\* A successor is in the stream only as long as no timer is armed; a command
\* that arms one starts again.
BufferOk(sc, s, w, h) ==
  w.buffered =>
    /\ sc.continuous /\ w.phase \in {"streaming", "heard"}
    /\ h.at \notin {"start", "begin"} => NoTimer(s)

\* Only a boundary comes between the copy that start() takes and the worker.
CopyOk(sc, s, w, h) ==
  /\ w.crossed => sc.continuous
  /\ h.at = "begin" =>
       /\ s.queue # <<>> /\ h.copy.queue # <<>>
       /\ ~sc.continuous => At(h.copy) = At(s)

CommandOk(sc, s, h) ==
  h.at = "command" => h.origin = "client" /\ (~sc.continuous => h.index = s.index)

\* Whenever nobody is at work remote.json has what was acknowledged.
DiskOk(sc, s, h, d) ==
  h.at = "idle" =>
    /\ d.queue = s.queue /\ SameModes(s, d)
    /\ ~sc.continuous => d.index = s.index /\ (s.shuffle => d.visited = s.visited)

Ok(sc, s, st, f, w, h, d) ==
  /\ TypesOk(sc, st, f, w, h) /\ SoundOk(s, w, h, d) /\ WorkerOk(s, st, w, h)
  /\ BufferOk(sc, s, w, h) /\ CopyOk(sc, s, w, h) /\ CommandOk(sc, s, h)
  /\ DiskOk(sc, s, h, d)

Inv == Ok(scenario, saved, state, failed, worker, handler, disk)

LEMMA NobodyIs ==
  /\ NoWorker \in Workers /\ NoWorker.phase = "none" /\ NoWorker.buffered = FALSE
  /\ NoWorker.plan = EmptySaved /\ Sound(EmptySaved) /\ NoWorker.crossed = FALSE
  /\ Idle \in Handlers /\ Idle.at = "idle" /\ Idle.copy = EmptySaved
<1>1. <<>> \in BoundedSeq(Tracks, MaxQueue) /\ 0 \in 0..MaxQueue
  <2>1. <<>> \in Seq(Tracks) /\ Len(<<>>) = 0
    OBVIOUS
  <2>2. Len(<<>>) <= MaxQueue /\ 0 \in 0..MaxQueue
    BY <2>1, RemoteAssumption
  <2> QED
    BY <2>1, <2>2, QueueTyped
<1>2. EmptySaved \in Saved
  BY <1>1, SomePositions DEF EmptySaved, Saved, RepeatModes
<1>3. Sound(EmptySaved)
  BY <1>2 DEF Sound, Kept, EmptySaved
<1>4. Idle \in Handlers /\ Idle.at = "idle" /\ Idle.copy = EmptySaved
  BY <1>1, <1>2 DEF Idle, Handlers
<1> QED
  BY <1>2, <1>3, <1>4 DEF NoWorker, Workers

\* The modes that a scenario begins with.
LEMMA BeginningIs ==
  ASSUME Init
  PROVE  /\ Sound(saved) /\ Sound(disk) /\ saved.queue = <<>> /\ disk.queue = <<>>
         /\ SameModes(saved, disk) /\ disk.index = saved.index
         /\ disk.visited = saved.visited /\ NoHistory(saved) /\ NoHistory(disk)
<1>1. /\ scenario \in Scenarios
      /\ disk = [EmptySaved EXCEPT !.repeat = scenario.repeat, !.shuffle = scenario.shuffle]
      /\ saved = [disk EXCEPT !.failure = scenario.failure]
  BY DEF Init
<1>2. /\ scenario.repeat \in RepeatModes /\ scenario.shuffle \in BOOLEAN
      /\ scenario.failure \in {"stop", "skip"}
  BY <1>1, RemoteAssumption
<1>3. /\ EmptySaved \in Saved /\ EmptySaved.queue = <<>> /\ EmptySaved.index = 0
      /\ NoHistory(EmptySaved)
  BY NobodyIs DEF Sound, Kept, EmptySaved, NoHistory
<1>4. /\ disk \in Saved /\ disk.queue = <<>> /\ disk.index = 0 /\ NoHistory(disk)
  BY <1>1, <1>2, <1>3 DEF Saved, NoHistory
<1>5. /\ saved \in Saved /\ SamePlace(disk, saved) /\ SameHistory(disk, saved)
  BY <1>1, <1>2, <1>4 DEF Saved, SamePlace, SameModes, SameHistory
<1> QED
  BY <1>4, <1>5 DEF Sound, Kept, SamePlace, SameModes, SameHistory, NoHistory

LEMMA InitInv ==
  Init => Inv
<1> SUFFICES ASSUME Init PROVE Inv
  OBVIOUS
<1>1. /\ scenario \in Scenarios
      /\ state = "stop" /\ failed = {} /\ worker = NoWorker /\ handler = Idle
  BY DEF Init
<1>2. TypesOk(scenario, state, failed, worker, handler)
  BY <1>1, NobodyIs DEF TypesOk, States
<1>3. SoundOk(saved, worker, handler, disk) /\ WorkerOk(saved, state, worker, handler)
  BY <1>1, NobodyIs, BeginningIs DEF SoundOk, WorkerOk
<1>4. /\ BufferOk(scenario, saved, worker, handler) /\ CopyOk(scenario, saved, worker, handler)
      /\ CommandOk(scenario, saved, handler)
  BY <1>1, NobodyIs DEF BufferOk, CopyOk, CommandOk
<1>5. DiskOk(scenario, saved, handler, disk)
  BY BeginningIs DEF DiskOk
<1> QED
  BY <1>2, <1>3, <1>4, <1>5 DEF Inv, Ok

LEMMA InvIs ==
  ASSUME Inv
  PROVE  /\ scenario \in Scenarios /\ state \in States /\ failed \in SUBSET Tracks
         /\ worker \in Workers /\ handler \in Handlers
         /\ Sound(saved) /\ Sound(disk) /\ Sound(worker.plan) /\ Sound(handler.copy)
         /\ WorkerOk(saved, state, worker, handler)
         /\ BufferOk(scenario, saved, worker, handler)
         /\ CopyOk(scenario, saved, worker, handler)
         /\ CommandOk(scenario, saved, handler)
         /\ DiskOk(scenario, saved, handler, disk)
  BY DEF Inv, Ok, TypesOk, SoundOk

LEMMA InvNext ==
  ASSUME scenario' = scenario
  PROVE  Inv' <=> Ok(scenario', saved', state', failed', worker', handler', disk')
  BY DEF Inv, Ok, SoundOk, Sound

\* A handler that has ended playback needs a place to leave the queue at.
LEMMA QuietOk ==
  ASSUME Inv, worker' = NoWorker, handler' \in Handlers, handler'.at \in {"start", "persist"},
         Sound(saved'), disk' = disk, scenario' = scenario, failed' \in SUBSET Tracks,
         state' \in States, Sound(handler'.copy)
  PROVE  Inv'
<1>1. scenario \in Scenarios /\ Sound(disk)
  BY InvIs
<1>2. TypesOk(scenario', state', failed', worker', handler')
  BY <1>1, NobodyIs DEF TypesOk
<1>3. SoundOk(saved', worker', handler', disk') /\ WorkerOk(saved', state', worker', handler')
  BY <1>1, NobodyIs DEF SoundOk, WorkerOk
<1>4. BufferOk(scenario', saved', worker', handler') /\ CopyOk(scenario', saved', worker', handler')
  BY NobodyIs DEF BufferOk, CopyOk
<1>5. CommandOk(scenario', saved', handler') /\ DiskOk(scenario', saved', handler', disk')
  BY DEF CommandOk, DiskOk
<1> QED
  BY <1>2, <1>3, <1>4, <1>5, InvNext DEF Ok

\* One that has not must keep the current track, and start again if it arms a
\* timer while a successor is in the stream.
LEMMA OngoingOk ==
  ASSUME Inv, handler.at = "command", worker' = worker,
         NEW to \in {"start", "persist"}, handler' = [handler EXCEPT !.at = to],
         Sound(saved'), disk' = disk, scenario' = scenario, failed' \in SUBSET Tracks,
         state' \in States,
         worker.phase # "none" =>
           saved'.queue # <<>> /\ At(saved') = At(saved) /\ state' \in Busy,
         worker.buffered /\ to = "persist" => NoTimer(saved')
  PROVE  Inv'
<1>1. /\ scenario \in Scenarios /\ Sound(disk) /\ Sound(worker.plan) /\ worker \in Workers
      /\ handler \in Handlers /\ WorkerOk(saved, state, worker, handler)
      /\ BufferOk(scenario, saved, worker, handler) /\ CopyOk(scenario, saved, worker, handler)
      /\ CommandOk(scenario, saved, handler) /\ Sound(handler.copy)
  BY InvIs
<1>2. /\ handler' \in Handlers /\ handler'.at = to /\ handler'.origin = handler.origin
      /\ handler'.copy = handler.copy
  BY <1>1 DEF Handlers
<1>3. handler'.origin = "client"
  BY <1>1, <1>2 DEF CommandOk
<1>4. TypesOk(scenario', state', failed', worker', handler')
  BY <1>1, <1>2 DEF TypesOk
<1>5. SoundOk(saved', worker', handler', disk')
  BY <1>1, <1>2 DEF SoundOk
<1>6. WorkerOk(saved', state', worker', handler')
  BY <1>1, <1>2, <1>3 DEF WorkerOk
<1>7. BufferOk(scenario', saved', worker', handler') /\ CopyOk(scenario', saved', worker', handler')
  BY <1>1, <1>2 DEF BufferOk, CopyOk
<1>8. CommandOk(scenario', saved', handler') /\ DiskOk(scenario', saved', handler', disk')
  BY <1>2 DEF CommandOk, DiskOk
<1> QED
  BY <1>4, <1>5, <1>6, <1>7, <1>8, InvNext DEF Ok

-----------------------------------------------------------------------------
(* The commands.                                                           *)

\* What changes neither the queue nor the place nor the round.
LEMMA SamePlaceSound ==
  ASSUME NEW s, Sound(s), NEW t \in Saved, SamePlace(s, t)
  PROVE  Sound(t) /\ At(t) = At(s) /\ t.queue = s.queue
  BY DEF Sound, Kept, SamePlace, SameModes, InRange, At

LEMMA GotoIs ==
  ASSUME Inv, NEW to \in {"start", "persist"}, handler' = [handler EXCEPT !.at = to]
  PROVE  /\ handler' \in Handlers /\ handler'.at \in {"start", "persist"} /\ handler'.at = to
         /\ Sound(handler'.copy)
<1>1. handler \in Handlers /\ Sound(handler.copy)
  BY InvIs
<1> QED
  BY <1>1 DEF Handlers

\* The queues that clients start.
LEMMA ListIs ==
  ASSUME NEW sc \in Scenarios, NEW q \in sc.lists
  PROVE  q \in Seq(Tracks) /\ Len(q) <= MaxQueue /\ q # <<>> /\ Len(q) \in Nat
<1>1. q \in BoundedSeq(Tracks, sc.room) /\ q # <<>> /\ sc.room \in 1..MaxQueue /\ MaxQueue \in Nat
  BY RemoteAssumption
<1>2. sc.room \in Nat /\ sc.room <= MaxQueue
  BY <1>1
<1>3. q \in Seq(Tracks) /\ Len(q) <= sc.room
  BY <1>1, <1>2, BoundedIsSeq
<1>4. Len(q) \in Nat
  BY <1>3
<1> QED
  BY <1>1, <1>2, <1>3, <1>4

LEMMA StartedIs ==
  ASSUME NEW s \in Saved, NEW q \in Seq(Tracks), Len(q) <= MaxQueue, NEW i \in 0..(Len(q) - 1),
         NEW position \in Positions
  PROVE  LET t == ResetHistory(ResetRound([s EXCEPT !.queue = q, !.index = i,
                                                    !.position = position, !.waiting = FALSE]))
         IN  Sound(t) /\ t.queue = q /\ t.index = i /\ NoHistory(t)
<1> DEFINE u == [s EXCEPT !.queue = q, !.index = i, !.position = position, !.waiting = FALSE]
           r == ResetRound(u)
           t == ResetHistory(r)
<1>1. q \in BoundedSeq(Tracks, MaxQueue) /\ i \in 0..MaxQueue
  BY PlaceTyped
<1>2. u \in Saved /\ u.queue = q /\ u.index = i
  BY <1>1 DEF Saved
<1> HIDE DEF u
<1>3. q # <<>>
  OBVIOUS
<1>4. Kept(u)
  BY <1>2, <1>3 DEF Kept, InRange
<1>5. Kept(r) /\ r.queue = q /\ r.index = i /\ r.visited = {At(u)}
  BY <1>2, <1>3, <1>4, ResetRoundIs
<1> HIDE DEF r
<1>6. Sound(r)
  BY <1>2, <1>5 DEF Sound, At
<1>7. t \in Saved /\ SamePlace(r, t) /\ NoHistory(t)
  BY <1>5, ResetHistoryIs DEF Kept
<1> HIDE DEF t
<1>8. Sound(t) /\ t.queue = q /\ t.index = i
  BY <1>5, <1>6, <1>7, SamePlaceSound DEF SamePlace
<1> QED
  BY <1>7, <1>8 DEF t, r, u

LEMMA StartOk ==
  ASSUME Inv, Start
  PROVE  Inv' /\ NoHistory(saved')
<1>1. PICK q \in scenario.lists, position \in {0, 1} :
        \E index \in 0..(Len(q) - 1) :
          saved' = ResetHistory(ResetRound([saved EXCEPT !.queue = q, !.index = index,
                                              !.position = position, !.waiting = FALSE]))
  BY DEF Start
<1>2. PICK i \in 0..(Len(q) - 1) :
          saved' = ResetHistory(ResetRound([saved EXCEPT !.queue = q, !.index = i,
                                              !.position = position, !.waiting = FALSE]))
  BY <1>1
<1>3. /\ worker' = NoWorker /\ state' = "pause" /\ failed' = {} /\ disk' = disk
      /\ scenario' = scenario
  BY DEF Start, CancelInto
<1>4. PICK to \in {"start", "persist"} : handler' = [handler EXCEPT !.at = to]
  BY DEF Start, Goto
<1>5. handler' \in Handlers /\ handler'.at \in {"start", "persist"} /\ Sound(handler'.copy)
  BY <1>4, GotoIs
<1>6. saved \in Saved /\ q \in Seq(Tracks) /\ Len(q) <= MaxQueue /\ position \in Positions
  BY InvIs, ListIs, SomePositions DEF Sound, Kept
<1>7. Sound(saved') /\ NoHistory(saved')
  BY <1>2, <1>6, StartedIs
<1> QED
  BY <1>3, <1>5, <1>7, QuietOk DEF States

LEMMA WentTo ==
  ASSUME NEW s, Kept(s), NEW i \in 0..(Len(s.queue) - 1)
  PROVE  LET t == ResetHistory(Mark([s EXCEPT !.index = i, !.position = 0, !.waiting = FALSE]))
         IN  Sound(t) /\ t.queue = s.queue /\ t.index = i /\ NoHistory(t)
<1> DEFINE u == [s EXCEPT !.index = i, !.position = 0, !.waiting = FALSE]
           m == Mark(u)
           t == ResetHistory(m)
<1>1. s \in Saved /\ i \in 0..MaxQueue /\ 0 \in Positions /\ s.queue # <<>>
  <2>1. s.queue \in Seq(Tracks) /\ Len(s.queue) <= MaxQueue
    BY KeptIs
  <2>2. i \in 0..MaxQueue /\ s.queue # <<>>
    BY <2>1, PlaceTyped
  <2> QED
    BY <2>2, SomePositions DEF Kept
<1>2. u \in Saved /\ u.queue = s.queue /\ u.index = i
  BY <1>1 DEF Saved
<1> HIDE DEF u
<1>3. Kept(u)
  BY <1>1, <1>2 DEF Kept, InRange
<1>4. Kept(m) /\ m.queue = s.queue /\ m.index = i /\ At(u) \in m.visited
  BY <1>1, <1>2, <1>3, MarkIs
<1> HIDE DEF m
<1>5. Sound(m)
  BY <1>2, <1>4 DEF Sound, At
<1>6. t \in Saved /\ SamePlace(m, t) /\ NoHistory(t)
  BY <1>4, ResetHistoryIs DEF Kept
<1> HIDE DEF t
<1>7. Sound(t) /\ t.queue = s.queue /\ t.index = i
  BY <1>4, <1>5, <1>6, SamePlaceSound DEF SamePlace
<1> QED
  BY <1>6, <1>7 DEF t, m, u

LEMMA SelectOk ==
  ASSUME Inv, Select
  PROVE  Inv' /\ NoHistory(saved')
<1>1. Sound(saved) /\ Kept(saved)
  BY InvIs DEF Sound
<1>2. PICK s, i : Kept(s) /\ i \in 0..(Len(s.queue) - 1) /\ GoTo(s, i)
  <2>1. CASE \E index \in 0..(Len(saved.queue) - 1) : GoTo(saved, index)
    BY <1>1, <2>1
  <2>2. CASE GoTo(saved, IF handler.index = 0 THEN 0 ELSE handler.index - 1)
    <3> DEFINE i == IF handler.index = 0 THEN 0 ELSE handler.index - 1
    <3>1. handler \in Handlers
      BY InvIs
    <3>2. handler.index \in Nat
      BY <3>1, RemoteAssumption DEF Handlers
    <3>3. i \in Nat /\ i < Len(saved.queue) /\ Len(saved.queue) \in Nat
      BY <1>1, <2>2, <3>2, KeptIs DEF GoTo
    <3>4. i \in 0..(Len(saved.queue) - 1)
      BY <3>3
    <3> QED
      BY <1>1, <2>2, <3>4
  <2>3. CASE \E s \in Advance(saved, TRUE) : GoTo(s, s.index)
    <3>1. PICK s \in Advance(saved, TRUE) : GoTo(s, s.index)
      BY <2>3
    <3>2. Sound(s) /\ saved.queue # <<>> /\ s.queue = saved.queue
      BY <1>1, <3>1, AdvanceIs DEF Onward
    <3>3. Kept(s) /\ s.index \in 0..(Len(s.queue) - 1)
      BY <3>2, KeptIs DEF Sound
    <3> QED
      BY <3>1, <3>3
  <2> QED
    BY <2>1, <2>2, <2>3 DEF Select
<1>3. /\ saved' = ResetHistory(Mark([s EXCEPT !.index = i, !.position = 0, !.waiting = FALSE]))
      /\ handler' = [handler EXCEPT !.at = "start"]
  BY <1>2 DEF GoTo, Goto
<1>4. Sound(saved') /\ NoHistory(saved')
  BY <1>2, <1>3, WentTo
<1>5. /\ worker' = NoWorker /\ state' \in States /\ failed' = {} /\ disk' = disk
      /\ scenario' = scenario
  BY DEF Select, CancelPlayback, CancelInto, Restful, States
<1>6. handler' \in Handlers /\ handler'.at \in {"start", "persist"} /\ Sound(handler'.copy)
  BY <1>3, GotoIs
<1> QED
  BY <1>4, <1>5, <1>6, QuietOk

\* Pause, stop, clear, seek and a next without a track: playback ends, and the
\* place stays or the queue goes.
LEMMA PauseOk ==
  ASSUME Inv, Pause
  PROVE  Inv' /\ SamePlace(saved, saved') /\ SameHistory(saved, saved')
<1>1. Sound(saved) /\ saved \in Saved
  BY InvIs DEF Sound, Kept
<1>2. saved' \in Saved /\ SamePlace(saved, saved') /\ SameHistory(saved, saved')
  <2>1. CASE saved' = saved
    BY <1>1, <2>1 DEF SamePlace, SameModes, SameHistory
  <2>2. CASE saved' = Disarmed(saved)
    BY <1>1, <2>2, DisarmedIs
  <2> QED
    BY <2>1, <2>2 DEF Pause
<1>3. Sound(saved')
  BY <1>1, <1>2, SamePlaceSound
<1>4. /\ worker' = NoWorker /\ state' \in States /\ failed' = failed /\ disk' = disk
      /\ scenario' = scenario /\ handler' = [handler EXCEPT !.at = "persist"]
  BY DEF Pause, CancelPlayback, CancelInto, Restful, States, Goto
<1>5. /\ handler' \in Handlers /\ handler'.at \in {"start", "persist"} /\ failed \in SUBSET Tracks
      /\ Sound(handler'.copy)
  BY <1>4, GotoIs, InvIs
<1> QED
  BY <1>2, <1>3, <1>4, <1>5, QuietOk

LEMMA StopOk ==
  ASSUME Inv, Stop
  PROVE  Inv' /\ NoHistory(saved') /\ SamePlace(saved, saved')
<1>1. Sound(saved) /\ saved \in Saved
  BY InvIs DEF Sound, Kept
<1> DEFINE u == Disarmed(saved)
           p == [u EXCEPT !.position = 0]
<1>2. u \in Saved /\ SamePlace(saved, u)
  BY <1>1, DisarmedIs
<1> HIDE DEF u
<1>3. p \in Saved /\ SamePlace(u, p)
  BY <1>2, SomePositions DEF Saved, SamePlace, SameModes
<1> HIDE DEF p
<1>4. saved' = ResetHistory(p)
  BY DEF Stop, p, u
<1>5. saved' \in Saved /\ SamePlace(p, saved') /\ NoHistory(saved')
  BY <1>3, <1>4, ResetHistoryIs
<1>6. SamePlace(saved, saved') /\ Sound(saved')
  <2>1. SamePlace(saved, saved')
    BY <1>2, <1>3, <1>5 DEF SamePlace, SameModes
  <2> QED
    BY <1>1, <1>5, <2>1, SamePlaceSound
<1>7. /\ worker' = NoWorker /\ state' \in States /\ failed' = failed /\ disk' = disk
      /\ scenario' = scenario /\ handler' = [handler EXCEPT !.at = "persist"]
  BY DEF Stop, CancelInto, States, Goto
<1>8. /\ handler' \in Handlers /\ handler'.at \in {"start", "persist"} /\ failed \in SUBSET Tracks
      /\ Sound(handler'.copy)
  BY <1>7, GotoIs, InvIs
<1> QED
  BY <1>5, <1>6, <1>7, <1>8, QuietOk

LEMMA ClearOk ==
  ASSUME Inv, Clear
  PROVE  Inv' /\ saved'.queue = <<>>
<1>1. saved \in Saved
  BY InvIs DEF Sound, Kept
<1> DEFINE u == Disarmed(saved)
<1>2. u \in Saved
  BY <1>1, DisarmedIs
<1> HIDE DEF u
<1>3. saved' = [u EXCEPT !.queue = <<>>, !.index = 0, !.visited = {}, !.position = 0]
  BY DEF Clear, u
<1>4. <<>> \in BoundedSeq(Tracks, MaxQueue) /\ 0 \in 0..MaxQueue
  BY NobodyIs DEF Sound, Kept, EmptySaved, Saved
<1>5. saved' \in Saved /\ saved'.queue = <<>> /\ saved'.index = 0
  BY <1>2, <1>3, <1>4, SomePositions DEF Saved
<1>6. Sound(saved')
  BY <1>5 DEF Sound, Kept
<1>7. /\ worker' = NoWorker /\ state' \in States /\ failed' = failed /\ disk' = disk
      /\ scenario' = scenario /\ handler' = [handler EXCEPT !.at = "persist"]
  BY DEF Clear, CancelInto, States, Goto
<1>8. /\ handler' \in Handlers /\ handler'.at \in {"start", "persist"} /\ failed \in SUBSET Tracks
      /\ Sound(handler'.copy)
  BY <1>7, GotoIs, InvIs
<1> QED
  BY <1>5, <1>6, <1>7, <1>8, QuietOk

LEMMA SeekOk ==
  ASSUME Inv, Seek
  PROVE  Inv' /\ SamePlace(saved, saved') /\ SameHistory(saved, saved')
<1>1. Sound(saved) /\ saved \in Saved
  BY InvIs DEF Sound, Kept
<1>2. PICK position \in {0, 1} : saved' = [saved EXCEPT !.position = position]
  BY DEF Seek
<1>3. position \in Positions
  BY SomePositions
<1>4. saved' \in Saved /\ SamePlace(saved, saved') /\ SameHistory(saved, saved')
  BY <1>1, <1>2, <1>3 DEF Saved, SamePlace, SameModes, SameHistory
<1>5. Sound(saved')
  BY <1>1, <1>4, SamePlaceSound
<1>6. /\ worker' = NoWorker /\ state' \in States /\ failed' = failed /\ disk' = disk
      /\ scenario' = scenario
  BY DEF Seek, CancelPlayback, CancelInto, Restful, States
<1>7. PICK to \in {"start", "persist"} : handler' = [handler EXCEPT !.at = to]
  BY DEF Seek, Goto
<1>8. /\ handler' \in Handlers /\ handler'.at \in {"start", "persist"} /\ failed \in SUBSET Tracks
      /\ Sound(handler'.copy)
  BY <1>7, GotoIs, InvIs
<1> QED
  BY <1>4, <1>5, <1>6, <1>8, QuietOk

LEMMA NoNextOk ==
  ASSUME Inv, NoNext
  PROVE  Inv' /\ saved' = saved
<1>1. /\ worker' = NoWorker /\ state' \in States /\ failed' = {} /\ disk' = disk
      /\ scenario' = scenario /\ handler' = [handler EXCEPT !.at = "persist"] /\ saved' = saved
  BY DEF NoNext, CancelPlayback, CancelInto, Restful, States, Goto
<1>2. /\ handler' \in Handlers /\ handler'.at \in {"start", "persist"} /\ Sound(saved')
      /\ Sound(handler'.copy)
  BY <1>1, GotoIs, InvIs
<1> QED
  BY <1>1, <1>2, QuietOk

LEMMA RequestOk ==
  ASSUME Inv, Request
  PROVE  Inv'
<1>1. /\ scenario \in Scenarios /\ state \in States /\ failed \in SUBSET Tracks
      /\ worker \in Workers /\ Sound(saved) /\ Sound(disk) /\ Sound(worker.plan)
      /\ WorkerOk(saved, state, worker, handler)
      /\ BufferOk(scenario, saved, worker, handler) /\ CopyOk(scenario, saved, worker, handler)
  BY InvIs
<1>2. /\ handler.at = "idle" /\ scenario' = scenario /\ saved' = saved /\ state' = state
      /\ failed' = failed /\ worker' = worker /\ disk' = disk
      /\ handler' = [at |-> "command", origin |-> "client", index |-> saved.index,
                     playing |-> state \in Busy, copy |-> EmptySaved]
  BY DEF Request
<1>3. saved.index \in 0..MaxQueue /\ (state \in Busy) \in BOOLEAN /\ EmptySaved \in Saved
  BY <1>1, NobodyIs, KeptIs DEF Sound, Kept
<1>4. /\ handler' \in Handlers /\ handler'.at = "command" /\ handler'.origin = "client"
      /\ handler'.index = saved.index /\ handler'.playing = (state \in Busy)
      /\ Sound(handler'.copy)
  BY <1>2, <1>3, NobodyIs DEF Handlers
<1>5. TypesOk(scenario', state', failed', worker', handler') /\ SoundOk(saved', worker', handler', disk')
  BY <1>1, <1>2, <1>4 DEF TypesOk, SoundOk
<1>6. /\ WorkerOk(saved', state', worker', handler') /\ BufferOk(scenario', saved', worker', handler')
      /\ CopyOk(scenario', saved', worker', handler')
  BY <1>1, <1>2, <1>4 DEF WorkerOk, BufferOk, CopyOk
<1>7. CommandOk(scenario', saved', handler') /\ DiskOk(scenario', saved', handler', disk')
  BY <1>2, <1>4 DEF CommandOk, DiskOk
<1> QED
  BY <1>2, <1>5, <1>6, <1>7, InvNext DEF Ok

\* What holds while a command runs.
LEMMA CommandIs ==
  ASSUME Inv, handler.at = "command"
  PROVE  /\ worker.phase # "none" =>
              saved.queue # <<>> /\ state \in Busy /\ handler.playing
         /\ worker.buffered => scenario.continuous /\ Attached /\ handler.playing /\ NoTimer(saved)
         /\ ~scenario.continuous => handler.index = saved.index
<1>1. /\ WorkerOk(saved, state, worker, handler) /\ BufferOk(scenario, saved, worker, handler)
      /\ CommandOk(scenario, saved, handler)
  BY InvIs
<1> QED
  BY <1>1 DEF WorkerOk, BufferOk, CommandOk, Attached

LEMMA PlayOk ==
  ASSUME Inv, Play
  PROVE  Inv' /\ saved' = saved
<1>1. /\ handler.at = "command" /\ worker' = worker /\ saved' = saved /\ state' = state
      /\ failed' = {} /\ disk' = disk /\ scenario' = scenario
      /\ handler' = [handler EXCEPT !.at = "start"]
  BY DEF Play, Goto, Command
<1>2. Sound(saved') /\ state' \in States
  BY <1>1, InvIs
<1>3. worker.phase # "none" => saved'.queue # <<>> /\ At(saved') = At(saved) /\ state' \in Busy
  BY <1>1, CommandIs
<1> QED
  BY <1>1, <1>2, <1>3, OngoingOk

LEMMA RejectOk ==
  ASSUME Inv, Reject
  PROVE  Inv' /\ saved' = saved
<1>1. /\ handler.at = "command" /\ worker' = worker /\ saved' = saved /\ state' = state
      /\ failed' \in {failed, {}} /\ disk' = disk /\ scenario' = scenario
      /\ handler' = [handler EXCEPT !.at = "persist"]
  BY DEF Reject, Goto
<1>2. Sound(saved') /\ state' \in States /\ failed' \in SUBSET Tracks
  BY <1>1, InvIs
<1>3. /\ worker.phase # "none" => saved'.queue # <<>> /\ At(saved') = At(saved) /\ state' \in Busy
      /\ worker.buffered => NoTimer(saved')
  BY <1>1, CommandIs
<1> QED
  BY <1>1, <1>2, <1>3, OngoingOk

LEMMA SettingsOk ==
  ASSUME Inv, Settings
  PROVE  Inv' /\ SamePlace(saved, saved') /\ SameHistory(saved, saved')
<1>1. /\ disk' = disk /\ scenario' = scenario /\ failed' = failed /\ failed \in SUBSET Tracks
      /\ handler.at = "command" /\ Sound(saved) /\ saved \in Saved /\ state \in States
  BY InvIs DEF Settings, Command, Sound, Kept
<1>2. CASE Command("failure") /\ (\E failure \in {"stop", "skip"} : saved' = [saved EXCEPT !.failure = failure])
           /\ Goto("persist") /\ UNCHANGED <<state, worker>>
  <2>1. PICK failure \in {"stop", "skip"} : saved' = [saved EXCEPT !.failure = failure]
    BY <1>2
  <2>2. /\ saved' \in Saved /\ SamePlace(saved, saved') /\ SameHistory(saved, saved')
        /\ SameTimer(saved, saved')
    BY <1>1, <2>1 DEF Saved, SamePlace, SameModes, SameHistory, SameTimer
  <2>3. Sound(saved') /\ At(saved') = At(saved) /\ saved'.queue = saved.queue
    BY <1>1, <2>2, SamePlaceSound
  <2>4. handler' = [handler EXCEPT !.at = "persist"] /\ worker' = worker /\ state' = state
    BY <1>2 DEF Goto
  <2>5. /\ worker.phase # "none" => saved'.queue # <<>> /\ At(saved') = At(saved) /\ state' \in Busy
        /\ worker.buffered => NoTimer(saved')
    BY <1>1, <2>2, <2>3, <2>4, CommandIs DEF NoTimer, SameTimer
  <2> QED
    BY <1>1, <2>2, <2>3, <2>4, <2>5, OngoingOk
<1>3. CASE CancelPlayback /\ Goto("start") /\ UNCHANGED saved
  <2>1. /\ worker' = NoWorker /\ state' \in States /\ saved' = saved
        /\ handler' = [handler EXCEPT !.at = "start"]
    BY <1>3 DEF CancelPlayback, CancelInto, Restful, States, Goto
  <2>2. handler' \in Handlers /\ handler'.at \in {"start", "persist"} /\ Sound(handler'.copy)
    BY <2>1, GotoIs
  <2>3. SamePlace(saved, saved') /\ SameHistory(saved, saved')
    BY <2>1 DEF SamePlace, SameModes, SameHistory
  <2> QED
    BY <1>1, <2>1, <2>2, <2>3, QuietOk
<1> QED
  BY <1>2, <1>3 DEF Settings

\* The edits in place keep the current track and its session.
LEMMA EditIs ==
  ASSUME Inv, Edit
  PROVE  /\ Sound(saved') /\ SameHistory(saved, saved')
         /\ saved.queue # <<>> => saved'.queue # <<>> /\ At(saved') = At(saved)
<1>1. /\ Sound(saved) /\ Kept(saved) /\ saved \in Saved /\ scenario \in Scenarios
      /\ Len(saved.queue) \in Nat
  BY InvIs, KeptIs DEF Sound, Kept
<1>2. CASE \E p \in 0..Len(saved.queue), t \in scenario.added :
             QueueHasRoom /\ saved' = Appended(saved, p, <<t>>)
  <2>1. PICK p \in 0..Len(saved.queue), t \in scenario.added :
           QueueHasRoom /\ saved' = Appended(saved, p, <<t>>)
    BY <1>2
  <2>2. t \in Tracks /\ scenario.room \in 1..MaxQueue /\ MaxQueue \in Nat
    BY <1>1, RemoteAssumption
  <2>3. Len(saved.queue) < MaxQueue
    BY <1>1, <2>1, <2>2 DEF QueueHasRoom
  <2>4. /\ Sound(Appended(saved, p, <<t>>)) /\ Appended(saved, p, <<t>>).queue # <<>>
        /\ saved.queue # <<>> => At(Appended(saved, p, <<t>>)) = At(saved)
        /\ SameHistory(saved, Appended(saved, p, <<t>>))
    BY <1>1, <2>2, <2>3, AppendedIs
  <2> QED
    BY <2>1, <2>4
<1>3. CASE \E p, q \in 0..(Len(saved.queue) - 1) : saved' = Moved(saved, p, q)
  <2>1. PICK p \in 0..(Len(saved.queue) - 1), q \in 0..(Len(saved.queue) - 1) :
           saved' = Moved(saved, p, q)
    BY <1>3
  <2>2. saved.queue # <<>>
    BY <1>1
  <2>3. /\ Sound(Moved(saved, p, q)) /\ Moved(saved, p, q).queue # <<>>
        /\ At(Moved(saved, p, q)) = At(saved) /\ SameHistory(saved, Moved(saved, p, q))
    BY <1>1, <2>2, MovedIs
  <2> QED
    BY <2>1, <2>3
<1>4. CASE \E repeat \in RepeatModes : saved' = [saved EXCEPT !.repeat = repeat]
  <2>1. PICK repeat \in RepeatModes : saved' = [saved EXCEPT !.repeat = repeat]
    BY <1>4
  <2>2. /\ saved' \in Saved /\ saved'.queue = saved.queue /\ saved'.index = saved.index
        /\ saved'.visited = saved.visited /\ saved'.shuffle = saved.shuffle
        /\ SameHistory(saved, saved')
    BY <1>1, <2>1 DEF Saved, SameHistory
  <2> QED
    BY <1>1, <2>2 DEF Sound, Kept, InRange, At
<1>5. CASE saved' = ResetRound([saved EXCEPT !.shuffle = ~@])
  <2> DEFINE u == [saved EXCEPT !.shuffle = ~saved.shuffle]
  <2>1. /\ u \in Saved /\ u.queue = saved.queue /\ u.index = saved.index
        /\ SameHistory(saved, u)
    BY <1>1 DEF Saved, SameHistory
  <2>2. saved' = ResetRound(u)
    BY <1>5
  <2> HIDE DEF u
  <2>3. Kept(u) /\ At(u) = At(saved)
    BY <1>1, <2>1 DEF Kept, InRange, At
  <2>4. /\ Kept(saved') /\ saved'.queue = u.queue /\ saved'.index = u.index
        /\ u.queue # <<>> => saved'.visited = {At(u)}
        /\ SameHistory(u, saved')
    BY <2>2, <2>3, ResetRoundIs
  <2> QED
    BY <2>1, <2>3, <2>4 DEF Sound, At, SameHistory
<1>6. CASE \E deadline \in {"off", "set", "due"}, finish \in BOOLEAN :
             saved' = [saved EXCEPT !.deadline = deadline, !.finish = finish,
                                    !.waiting = finish /\ deadline = "off"]
  <2>1. PICK deadline \in {"off", "set", "due"}, finish \in BOOLEAN :
             saved' = [saved EXCEPT !.deadline = deadline, !.finish = finish,
                                    !.waiting = finish /\ deadline = "off"]
    BY <1>6
  <2>2. (finish /\ deadline = "off") \in BOOLEAN
    OBVIOUS
  <2>3. saved' \in Saved /\ SamePlace(saved, saved') /\ SameHistory(saved, saved')
    BY <1>1, <2>1, <2>2 DEF Saved, SamePlace, SameModes, SameHistory
  <2> QED
    BY <1>1, <2>3, SamePlaceSound
<1> QED
  BY <1>2, <1>3, <1>4, <1>5, <1>6 DEF Edit

LEMMA EditOk ==
  ASSUME Inv, Edit
  PROVE  Inv'
<1>1. /\ handler.at = "command" /\ worker' = worker /\ state' = state /\ failed' = failed
      /\ disk' = disk /\ scenario' = scenario
  BY DEF Edit, Command
<1> DEFINE to == IF handler.playing /\ scenario.continuous /\ Attached THEN "start" ELSE "persist"
<1>2. to \in {"start", "persist"} /\ handler' = [handler EXCEPT !.at = to]
  BY DEF Edit, AfterEdit, Goto
<1>3. worker.buffered => to = "start"
  BY <1>1, CommandIs
<1> HIDE DEF to
<1>4. Sound(saved') /\ state' \in States /\ failed' \in SUBSET Tracks
  BY <1>1, EditIs, InvIs
<1>5. worker.phase # "none" => saved'.queue # <<>> /\ At(saved') = At(saved) /\ state' \in Busy
  BY <1>1, CommandIs, EditIs
<1> QED
  BY <1>1, <1>2, <1>3, <1>4, <1>5, OngoingOk

\* remove keeps the current track and its session, or it leaves the place where
\* that track was, with a new session.
LEMMA DeleteIs ==
  ASSUME Inv, ~RemoveRace, Delete
  PROVE  /\ Sound(saved') /\ saved.queue # <<>>
         /\ \/ /\ saved'.queue # <<>> /\ At(saved') = At(saved) /\ SameHistory(saved, saved')
               /\ AfterEdit /\ worker' = worker /\ state' = state
            \/ /\ saved'.queue = RemoveAt(saved.queue, saved.index + 1) /\ NoHistory(saved')
               /\ worker' = NoWorker /\ state' \in States
               /\ \E to \in {"start", "persist"} : handler' = [handler EXCEPT !.at = to]
<1>1. Sound(saved) /\ Len(saved.queue) \in Nat
  BY InvIs, KeptIs DEF Sound
<1>2. handler.index = saved.index
  BY DEF RemoveRace
<1>3. PICK p \in 0..(Len(saved.queue) - 1) :
       LET current == p = handler.index
           rest == Removed(saved, p, current)
           moves == IF current /\ rest.shuffle /\ rest.queue # <<>>
                    THEN AdvanceShuffle(rest) ELSE {}
           stuck == current /\ rest.shuffle /\ moves = {}
       IN /\ \E s \in IF moves = {} THEN {rest} ELSE moves :
               saved' = IF current
                        THEN ResetHistory([s EXCEPT !.position = 0, !.waiting = FALSE])
                        ELSE s
          /\ IF current
             THEN /\ CancelInto(IF rest.queue = <<>> THEN "stop" ELSE "pause")
                  /\ Goto(IF handler.playing /\ ~stuck /\ rest.queue # <<>>
                          THEN "start" ELSE "persist")
             ELSE /\ state' = (IF rest.queue = <<>> THEN "stop" ELSE state)
                  /\ AfterEdit /\ UNCHANGED worker
  BY DEF Delete
<1> DEFINE rest == Removed(saved, p, p = saved.index)
           moves == IF p = saved.index /\ rest.shuffle /\ rest.queue # <<>>
                    THEN AdvanceShuffle(rest) ELSE {}
           stuck == p = saved.index /\ rest.shuffle /\ moves = {}
<1>4. saved.queue # <<>>
  BY <1>1
<1>5. PICK s \in IF moves = {} THEN {rest} ELSE moves :
        saved' = IF p = saved.index
                 THEN ResetHistory([s EXCEPT !.position = 0, !.waiting = FALSE])
                 ELSE s
  BY <1>2, <1>3
<1>6. IF p = saved.index
      THEN /\ CancelInto(IF rest.queue = <<>> THEN "stop" ELSE "pause")
           /\ Goto(IF handler.playing /\ ~stuck /\ rest.queue # <<>>
                   THEN "start" ELSE "persist")
      ELSE /\ state' = (IF rest.queue = <<>> THEN "stop" ELSE state)
           /\ AfterEdit /\ UNCHANGED worker
  BY <1>2, <1>3
<1>7. /\ Kept(rest) /\ rest.queue = RemoveAt(saved.queue, p + 1)
      /\ p # saved.index => Sound(rest) /\ rest.queue # <<>> /\ At(rest) = At(saved)
      /\ SameHistory(saved, rest) /\ SameModes(saved, rest) /\ rest.visited = saved.visited
  BY <1>1, <1>4, RemovedIs
<1>8. CASE p # saved.index
  <2>1. s = rest /\ saved' = s
    BY <1>5, <1>8
  <2> QED
    BY <1>4, <1>6, <1>7, <1>8, <2>1
<1>9. CASE p = saved.index
  <2>1. moves = IF rest.shuffle /\ rest.queue # <<>> THEN AdvanceShuffle(rest) ELSE {}
    BY <1>9
  <2>2. /\ CancelInto(IF rest.queue = <<>> THEN "stop" ELSE "pause")
        /\ Goto(IF handler.playing /\ ~stuck /\ rest.queue # <<>> THEN "start" ELSE "persist")
    BY <1>6, <1>9
  <2>3. /\ worker' = NoWorker /\ state' \in States
        /\ \E to \in {"start", "persist"} : handler' = [handler EXCEPT !.at = to]
    BY <2>2 DEF CancelInto, States, Goto
  <2>4. rest.queue = RemoveAt(saved.queue, saved.index + 1)
    BY <1>7, <1>9
  <2> HIDE DEF rest, moves
  <2>5. Sound(s) /\ s.queue = rest.queue
    <3>1. CASE rest.shuffle /\ rest.queue # <<>>
      <4>1. moves = AdvanceShuffle(rest)
        BY <2>1, <3>1
      <4>2. CASE moves = {}
        <5>1. s = rest /\ At(rest) \in rest.visited
          BY <1>5, <1>7, <3>1, <4>1, <4>2, AdvanceShuffleIs
        <5> QED
          BY <1>7, <5>1 DEF Sound
      <4>3. CASE moves # {}
        <5>1. s \in AdvanceShuffle(rest)
          BY <1>5, <4>1, <4>3
        <5>2. Sound(s) /\ Onward(rest, s)
          BY <1>7, <3>1, <5>1, AdvanceShuffleIs
        <5> QED
          BY <5>2 DEF Onward
      <4> QED
        BY <4>2, <4>3
    <3>2. CASE ~(rest.shuffle /\ rest.queue # <<>>)
      <4>1. s = rest
        BY <1>5, <2>1, <3>2
      <4> QED
        BY <1>7, <3>2, <4>1 DEF Sound
    <3> QED
      BY <3>1, <3>2
  <2> DEFINE u == [s EXCEPT !.position = 0, !.waiting = FALSE]
  <2>6. u \in Saved /\ SamePlace(s, u)
    BY <2>5, SomePositions DEF Sound, Kept, Saved, SamePlace, SameModes
  <2>7. saved' = ResetHistory(u)
    BY <1>5, <1>9
  <2> HIDE DEF u
  <2>8. Sound(u) /\ u.queue = s.queue
    BY <2>5, <2>6, SamePlaceSound
  <2>9. saved' \in Saved /\ SamePlace(u, saved') /\ NoHistory(saved')
    BY <2>6, <2>7, ResetHistoryIs
  <2>10. Sound(saved') /\ saved'.queue = u.queue
    BY <2>8, <2>9, SamePlaceSound
  <2> QED
    BY <1>4, <2>3, <2>4, <2>5, <2>8, <2>9, <2>10
<1> QED
  BY <1>8, <1>9

LEMMA DeleteOk ==
  ASSUME Inv, ~RemoveRace, Delete
  PROVE  Inv'
<1>1. /\ handler.at = "command" /\ failed' = failed /\ failed \in SUBSET Tracks
      /\ disk' = disk /\ scenario' = scenario /\ state \in States
  BY InvIs DEF Delete, Command
<1>2. CASE /\ saved'.queue # <<>> /\ At(saved') = At(saved)
           /\ AfterEdit /\ worker' = worker /\ state' = state
  <2> DEFINE to == IF handler.playing /\ scenario.continuous /\ Attached THEN "start" ELSE "persist"
  <2>1. to \in {"start", "persist"} /\ handler' = [handler EXCEPT !.at = to]
    BY <1>2 DEF AfterEdit, Goto
  <2>2. worker.buffered => to = "start"
    BY <1>1, CommandIs
  <2> HIDE DEF to
  <2>3. worker.phase # "none" => saved'.queue # <<>> /\ At(saved') = At(saved) /\ state' \in Busy
    BY <1>1, <1>2, CommandIs
  <2> QED
    BY <1>1, <1>2, <2>1, <2>2, <2>3, DeleteIs, OngoingOk
<1>3. CASE /\ worker' = NoWorker /\ state' \in States
           /\ \E to \in {"start", "persist"} : handler' = [handler EXCEPT !.at = to]
  <2>1. handler' \in Handlers /\ handler'.at \in {"start", "persist"} /\ Sound(handler'.copy)
    BY <1>3, GotoIs
  <2> QED
    BY <1>1, <1>3, <2>1, DeleteIs, QuietOk
<1> QED
  BY <1>2, <1>3, DeleteIs

-----------------------------------------------------------------------------
(* Starting, skipping and the end of a handler.                            *)

\* The copy of saved that a worker takes.
LEMMA PlanIs ==
  ASSUME NEW s, Sound(s)
  PROVE  LET t == Plan(s)
         IN  /\ Sound(t) /\ t.queue = s.queue /\ At(t) = At(s)
             /\ t.heard = s.heard /\ t.counted = FALSE
<1> DEFINE t == Plan(s)
<1>1. s \in Saved
  BY DEF Sound, Kept
<1>2. t \in Saved /\ SamePlace(s, t) /\ t.heard = s.heard /\ t.counted = FALSE
  BY <1>1, SomePositions DEF Saved, SamePlace, SameModes, Plan
<1> HIDE DEF t
<1>3. Sound(t) /\ At(t) = At(s) /\ t.queue = s.queue
  BY <1>2, SamePlaceSound
<1> QED
  BY <1>2, <1>3 DEF t

LEMMA StartReadsOk ==
  ASSUME Inv, StartReads
  PROVE  Inv' /\ saved' = saved
<1>1. /\ scenario \in Scenarios /\ state \in States /\ failed \in SUBSET Tracks
      /\ worker \in Workers /\ handler \in Handlers /\ Sound(saved) /\ Sound(disk)
      /\ Sound(worker.plan) /\ WorkerOk(saved, state, worker, handler)
      /\ BufferOk(scenario, saved, worker, handler) /\ CopyOk(scenario, saved, worker, handler)
  BY InvIs
<1>2. /\ handler' = [handler EXCEPT !.at = "begin", !.copy = Plan(saved)]
      /\ handler.at = "start" /\ InRange(saved)
      /\ UNCHANGED <<scenario, saved, state, failed, worker, disk>>
  BY DEF StartReads
<1>3. saved.queue # <<>>
  <2>1. saved.index \in 0..(Len(saved.queue) - 1) /\ Len(saved.queue) \in Nat
    BY <1>1, <1>2, KeptIs DEF Sound, InRange
  <2> QED
    BY <1>1, <2>1, KeptIs DEF Sound
<1>4. /\ Sound(Plan(saved)) /\ Plan(saved).queue = saved.queue /\ At(Plan(saved)) = At(saved)
      /\ Plan(saved) \in Saved
  BY <1>1, PlanIs DEF Sound, Kept
<1>5. /\ handler' \in Handlers /\ handler'.at = "begin" /\ handler'.copy = Plan(saved)
      /\ handler'.origin = handler.origin
  BY <1>1, <1>2, <1>4 DEF Handlers
<1>6. TypesOk(scenario', state', failed', worker', handler') /\ SoundOk(saved', worker', handler', disk')
  BY <1>1, <1>2, <1>4, <1>5 DEF TypesOk, SoundOk
<1>7. WorkerOk(saved', state', worker', handler') /\ BufferOk(scenario', saved', worker', handler')
  BY <1>1, <1>2, <1>5 DEF WorkerOk, BufferOk
<1>8. CopyOk(scenario', saved', worker', handler')
  BY <1>1, <1>2, <1>3, <1>4, <1>5 DEF CopyOk
<1>9. CommandOk(scenario', saved', handler') /\ DiskOk(scenario', saved', handler', disk')
  BY <1>5 DEF CommandOk, DiskOk
<1> QED
  BY <1>2, <1>6, <1>7, <1>8, <1>9, InvNext DEF Ok

LEMMA StartSucceedsOk ==
  ASSUME Inv, StartSucceeds
  PROVE  Inv' /\ saved' = saved
<1>1. /\ scenario \in Scenarios /\ Sound(disk) /\ Sound(saved) /\ handler \in Handlers
      /\ failed \in SUBSET Tracks /\ CopyOk(scenario, saved, worker, handler)
      /\ Sound(handler.copy) /\ handler.copy \in Saved
  BY InvIs DEF Sound, Kept
<1> DEFINE copy == handler.copy
           crossed == At(copy) # At(saved)
<1>2. /\ worker' = [phase |-> "loading", plan |-> copy, buffered |-> FALSE, crossed |-> crossed]
      /\ state' = "loading" /\ handler' = [handler EXCEPT !.at = "persist", !.copy = EmptySaved]
      /\ scenario' = scenario /\ saved' = saved /\ failed' = failed /\ disk' = disk
      /\ handler.at = "begin"
  BY DEF StartSucceeds
<1>3. handler' \in Handlers /\ handler'.at = "persist" /\ Sound(handler'.copy)
  <2>1. EmptySaved \in Saved /\ Sound(EmptySaved)
    BY NobodyIs DEF Sound, Kept
  <2> QED
    BY <1>1, <1>2, <2>1 DEF Handlers
<1>4. /\ saved.queue # <<>> /\ copy.queue # <<>> /\ crossed \in BOOLEAN
      /\ crossed => scenario.continuous
      /\ At(copy) = At(saved) \/ crossed
  BY <1>1, <1>2 DEF CopyOk
<1> HIDE DEF copy, crossed
<1>5. /\ worker' \in Workers /\ worker'.phase = "loading" /\ worker'.plan = copy
      /\ worker'.buffered = FALSE /\ worker'.crossed = crossed
  BY <1>1, <1>2, <1>4 DEF Workers, copy
<1>6. TypesOk(scenario', state', failed', worker', handler') /\ SoundOk(saved', worker', handler', disk')
  BY <1>1, <1>2, <1>3, <1>5 DEF TypesOk, SoundOk, States, copy
<1>7. WorkerOk(saved', state', worker', handler') /\ BufferOk(scenario', saved', worker', handler')
  BY <1>2, <1>3, <1>4, <1>5 DEF WorkerOk, BufferOk, Busy
<1>8. CopyOk(scenario', saved', worker', handler')
  BY <1>2, <1>3, <1>4, <1>5 DEF CopyOk
<1>9. CommandOk(scenario', saved', handler') /\ DiskOk(scenario', saved', handler', disk')
  BY <1>3 DEF CommandOk, DiskOk
<1> QED
  BY <1>2, <1>6, <1>7, <1>8, <1>9, InvNext DEF Ok

\* Both outcomes of skipFailed leave a place in the same queue; only one that
\* finds a track begins a new session.
LEMMA SkipIs ==
  ASSUME Inv, Skip
  PROVE  /\ Sound(saved') /\ NoHistory(saved') /\ failed' \in SUBSET Tracks
         /\ \E s \in SkipFinds(saved, FailedNow) : SamePlace(s, saved')
<1>1. Sound(saved) /\ failed \in SUBSET Tracks /\ MaySkip /\ failed' = FailedNow
  BY InvIs DEF Skip
<1>2. FailedNow \in SUBSET Tracks
  <2>1. saved.queue # <<>>
    BY <1>1, KeptIs DEF MaySkip, InRange, Sound
  <2> QED
    BY <1>1, <2>1, KeptIs DEF FailedNow, Sound
<1>3. PICK s \in SkipFinds(saved, FailedNow) : saved' = ResetHistory([s EXCEPT !.position = 0])
  BY DEF Skip
<1>4. Sound(s)
  BY <1>1, <1>3, SkipFindsIs
<1> DEFINE u == [s EXCEPT !.position = 0]
<1>5. u \in Saved /\ SamePlace(s, u)
  BY <1>4, SomePositions DEF Sound, Kept, Saved, SamePlace, SameModes
<1> HIDE DEF u
<1>6. saved' \in Saved /\ SamePlace(u, saved') /\ NoHistory(saved')
  BY <1>3, <1>5, ResetHistoryIs DEF u
<1>7. Sound(saved')
  BY <1>4, <1>5, <1>6, SamePlaceSound
<1>8. SamePlace(s, saved')
  BY <1>5, <1>6 DEF SamePlace, SameModes
<1> QED
  BY <1>1, <1>2, <1>3, <1>6, <1>7, <1>8

LEMMA SkipGivesUpIs ==
  ASSUME Inv, SkipGivesUp
  PROVE  /\ Sound(saved') /\ SameHistory(saved, saved') /\ saved'.queue = saved.queue
         /\ failed' \in SUBSET Tracks
<1>1. Sound(saved) /\ failed \in SUBSET Tracks /\ MaySkip /\ failed' = FailedNow
  BY InvIs DEF SkipGivesUp
<1>2. FailedNow \in SUBSET Tracks
  <2>1. saved.queue # <<>>
    BY <1>1, KeptIs DEF MaySkip, InRange, Sound
  <2> QED
    BY <1>1, <2>1, KeptIs DEF FailedNow, Sound
<1>3. Sound(saved') /\ Onward(saved, saved')
  BY <1>1, SkipExhaustsIs DEF SkipGivesUp
<1> QED
  BY <1>1, <1>2, <1>3 DEF Onward

LEMMA StartFailsOk ==
  ASSUME Inv, StartFails
  PROVE  Inv'
<1>1. Sound(saved) /\ failed \in SUBSET Tracks /\ disk' = disk /\ scenario' = scenario
  BY InvIs DEF StartFails
<1>2. CASE Skip /\ CancelPlayback /\ Goto("start")
  <2>1. /\ worker' = NoWorker /\ state' \in States /\ handler' = [handler EXCEPT !.at = "start"]
    BY <1>2 DEF CancelPlayback, CancelInto, Restful, States, Goto
  <2>2. handler' \in Handlers /\ handler'.at \in {"start", "persist"} /\ Sound(handler'.copy)
    BY <2>1, GotoIs
  <2> QED
    BY <1>1, <1>2, <2>1, <2>2, SkipIs, QuietOk
<1>3. ASSUME NEW mode \in States, GiveUpInto(mode), Sound(saved'), failed' \in SUBSET Tracks
      PROVE  Inv'
  <2>1. /\ worker' = NoWorker /\ state' \in States /\ handler' = [handler EXCEPT !.at = "persist"]
    BY <1>3 DEF GiveUpInto, CancelInto, States, Goto
  <2>2. handler' \in Handlers /\ handler'.at \in {"start", "persist"} /\ Sound(handler'.copy)
    BY <2>1, GotoIs
  <2> QED
    BY <1>1, <1>3, <2>1, <2>2, QuietOk
<1>4. CASE SkipGivesUp /\ GiveUpInto("stop")
  <2>1. "stop" \in States
    BY DEF States
  <2> QED
    BY <1>3, <1>4, <2>1, SkipGivesUpIs
<1>5. CASE GiveUpInto(Restful) /\ UNCHANGED <<saved, failed>>
  <2>1. Restful \in States
    BY DEF Restful, States
  <2> QED
    BY <1>1, <1>3, <1>5, <2>1
<1> QED
  BY <1>2, <1>4, <1>5 DEF StartFails

\* What is written has everything but the failure policy.
LEMMA WrittenIs ==
  ASSUME NEW s, Sound(s)
  PROVE  LET t == Written(s)
         IN  Sound(t) /\ SamePlace(s, t) /\ SameHistory(s, t) /\ At(t) = At(s)
<1> DEFINE t == Written(s)
<1>1. s \in Saved
  BY DEF Sound, Kept
<1>2. t \in Saved /\ SamePlace(s, t) /\ SameHistory(s, t)
  BY <1>1 DEF Saved, SamePlace, SameModes, SameHistory, Written
<1> HIDE DEF t
<1>3. Sound(t) /\ At(t) = At(s)
  BY <1>2, SamePlaceSound
<1> QED
  BY <1>2, <1>3 DEF t

LEMMA PersistOk ==
  ASSUME Inv, Persist
  PROVE  Inv' /\ saved' = saved
<1>1. /\ scenario \in Scenarios /\ state \in States /\ failed \in SUBSET Tracks
      /\ worker \in Workers /\ Sound(saved) /\ Sound(worker.plan)
      /\ WorkerOk(saved, state, worker, handler)
      /\ BufferOk(scenario, saved, worker, handler) /\ CopyOk(scenario, saved, worker, handler)
  BY InvIs
<1>2. /\ handler.at = "persist" /\ disk' = Written(saved) /\ handler' = Idle
      /\ scenario' = scenario /\ saved' = saved /\ state' = state /\ failed' = failed
      /\ worker' = worker
  BY DEF Persist
<1>3. Idle \in Handlers /\ Idle.at = "idle" /\ Sound(Idle.copy)
  BY NobodyIs
<1>4. Sound(Written(saved)) /\ SamePlace(saved, Written(saved))
  BY <1>1, WrittenIs
<1>5. TypesOk(scenario', state', failed', worker', handler') /\ SoundOk(saved', worker', handler', disk')
  BY <1>1, <1>2, <1>3, <1>4 DEF TypesOk, SoundOk
<1>6. /\ WorkerOk(saved', state', worker', handler') /\ BufferOk(scenario', saved', worker', handler')
      /\ CopyOk(scenario', saved', worker', handler')
  BY <1>1, <1>2, <1>3 DEF WorkerOk, BufferOk, CopyOk
<1>7. CommandOk(scenario', saved', handler') /\ DiskOk(scenario', saved', handler', disk')
  BY <1>2, <1>3, <1>4 DEF CommandOk, DiskOk, SamePlace
<1> QED
  BY <1>2, <1>5, <1>6, <1>7, InvNext DEF Ok

-----------------------------------------------------------------------------
(* The event loop.                                                         *)

LEMMA TurnIs ==
  ASSUME NEW to \in {"start", "persist"}, NEW origin \in {"end", "error", "tick"},
         Turn(to, origin)
  PROVE  handler' \in Handlers /\ handler'.at = to /\ Sound(handler'.copy)
  BY NobodyIs DEF Turn, Handlers

\* The record at the end of a track: a new session, and the sleep timer asks to
\* stop here if it was waiting or is over.
Ended(s) ==
  ResetHistory([s EXCEPT !.position = 0,
                         !.deadline = IF s.deadline = "due" THEN "off" ELSE @,
                         !.waiting = @ \/ s.deadline = "due"])

LEMMA EndedIs ==
  ASSUME NEW s, Sound(s)
  PROVE  LET t == Ended(s)
         IN  /\ Sound(t) /\ t \in Saved /\ SamePlace(s, t) /\ NoHistory(t)
             /\ t.waiting <=> s.waiting \/ s.deadline = "due"
<1> DEFINE d == IF s.deadline = "due" THEN "off" ELSE s.deadline
           w == s.waiting \/ s.deadline = "due"
           u == [s EXCEPT !.position = 0, !.deadline = d, !.waiting = w]
           t == Ended(s)
<1>1. s \in Saved /\ d \in {"off", "set", "due"} /\ w \in BOOLEAN
  BY DEF Sound, Kept, Saved
<1>2. t = ResetHistory(u)
  BY DEF Ended
<1> HIDE DEF d, w, t
<1>3. u \in Saved /\ SamePlace(s, u) /\ u.waiting = w
  BY <1>1, SomePositions DEF Saved, SamePlace, SameModes
<1> HIDE DEF u
<1>4. t \in Saved /\ SamePlace(u, t) /\ NoHistory(t) /\ t.waiting = w
  BY <1>2, <1>3, ResetHistoryIs DEF SameTimer
<1>5. SamePlace(s, t)
  BY <1>3, <1>4 DEF SamePlace, SameModes
<1>6. Sound(t)
  BY <1>4, <1>5, SamePlaceSound
<1> QED
  BY <1>4, <1>5, <1>6 DEF t, w

\* After the end of a track nothing of its session is left, and a timer that
\* wanted to stop keeps the track.
LEMMA EndOfTrackIs ==
  ASSUME Inv, EndOfTrack
  PROVE  /\ Sound(saved') /\ NoHistory(saved')
         /\ saved.waiting \/ saved.deadline = "due" => At(saved') = At(saved)
         /\ handler' \in Handlers /\ handler'.at \in {"start", "persist"}
         /\ state' \in States /\ Sound(handler'.copy)
<1> DEFINE s == Ended(saved)
<1>1. /\ Sound(s) /\ s \in Saved /\ SamePlace(saved, s) /\ NoHistory(s)
      /\ s.waiting <=> saved.waiting \/ saved.deadline = "due"
      /\ At(s) = At(saved)
  BY InvIs, EndedIs, SamePlaceSound
<1>2. \/ s.waiting /\ saved' = [s EXCEPT !.waiting = FALSE] /\ state' = "pause" /\ Turn("persist", "end")
      \/ ~s.waiting /\ saved' = s /\ state' = "stop" /\ Turn("persist", "end")
      \/ ~s.waiting /\ saved' \in Advance(s, FALSE) /\ state' = Restful /\ Turn("start", "end")
  BY DEF EndOfTrack, Ended
<1> HIDE DEF s
<1>3. /\ handler' \in Handlers /\ handler'.at \in {"start", "persist"} /\ state' \in States
      /\ Sound(handler'.copy)
  BY <1>2, TurnIs DEF Restful, States
<1>4. CASE s.waiting /\ saved' = [s EXCEPT !.waiting = FALSE]
  <2>1. saved' \in Saved /\ SamePlace(s, saved') /\ NoHistory(saved')
    BY <1>1, <1>4 DEF Saved, SamePlace, SameModes, NoHistory
  <2> QED
    BY <1>1, <1>3, <2>1, SamePlaceSound
<1>5. CASE ~s.waiting /\ saved' = s
  BY <1>1, <1>3, <1>5
<1>6. CASE ~s.waiting /\ saved' \in Advance(s, FALSE)
  <2>1. Sound(saved') /\ Onward(s, saved')
    BY <1>1, <1>6, AdvanceIs
  <2> QED
    BY <1>1, <1>3, <1>6, <2>1 DEF Onward, SameHistory, NoHistory
<1> QED
  BY <1>2, <1>4, <1>5, <1>6

LEMMA EndOfTrackOk ==
  ASSUME Inv, EndOfTrack
  PROVE  Inv'
<1>1. /\ worker' = NoWorker /\ failed' = {} /\ disk' = disk /\ scenario' = scenario
  BY DEF EndOfTrack
<1> QED
  BY <1>1, EndOfTrackIs, QuietOk

LEMMA TrackErrorOk ==
  ASSUME Inv, TrackError
  PROVE  Inv'
<1>1. /\ worker' = NoWorker /\ disk' = disk /\ scenario' = scenario
      /\ Sound(saved) /\ failed \in SUBSET Tracks
  BY InvIs DEF TrackError
<1>2. /\ state' \in States
      /\ Turn("start", "error") \/ Turn("persist", "error")
  BY DEF TrackError, Restful, States
<1>3. handler' \in Handlers /\ handler'.at \in {"start", "persist"} /\ Sound(handler'.copy)
  BY <1>2, TurnIs
<1>4. Sound(saved') /\ failed' \in SUBSET Tracks
  <2>1. Skip \/ SkipGivesUp \/ (saved' = saved /\ failed' = failed)
    BY DEF TrackError
  <2> QED
    BY <1>1, <2>1, SkipIs, SkipGivesUpIs
<1> QED
  BY <1>1, <1>2, <1>3, <1>4, QuietOk

LEMMA TransportErrorOk ==
  ASSUME Inv, TransportError
  PROVE  Inv' /\ saved' = saved
<1>1. /\ worker' = NoWorker /\ disk' = disk /\ scenario' = scenario /\ saved' = saved
      /\ failed' = failed /\ state' \in States /\ Turn("persist", "error")
  BY DEF TransportError, CancelPlayback, CancelInto, Restful, States
<1>2. handler' \in Handlers /\ handler'.at \in {"start", "persist"} /\ Sound(handler'.copy)
  BY <1>1, TurnIs
<1> QED
  BY <1>1, <1>2, InvIs, QuietOk

\* The timer alone changes.
LEMMA StillOk ==
  ASSUME Inv, UNCHANGED <<scenario, state, failed, worker, handler, disk>>,
         saved' \in Saved, SamePlace(saved, saved'),
         worker.buffered /\ handler.at \notin {"start", "begin"} => NoTimer(saved')
  PROVE  Inv'
<1>1. /\ scenario \in Scenarios /\ state \in States /\ failed \in SUBSET Tracks
      /\ worker \in Workers /\ handler \in Handlers /\ Sound(saved) /\ Sound(disk)
      /\ Sound(worker.plan) /\ WorkerOk(saved, state, worker, handler)
      /\ BufferOk(scenario, saved, worker, handler) /\ CopyOk(scenario, saved, worker, handler)
      /\ CommandOk(scenario, saved, handler) /\ DiskOk(scenario, saved, handler, disk)
      /\ Sound(handler.copy)
  BY InvIs
<1>2. Sound(saved') /\ At(saved') = At(saved) /\ saved'.queue = saved.queue
  BY <1>1, SamePlaceSound
<1>3. TypesOk(scenario', state', failed', worker', handler') /\ SoundOk(saved', worker', handler', disk')
  BY <1>1, <1>2 DEF TypesOk, SoundOk
<1>4. /\ WorkerOk(saved', state', worker', handler') /\ BufferOk(scenario', saved', worker', handler')
      /\ CopyOk(scenario', saved', worker', handler')
  BY <1>1, <1>2 DEF WorkerOk, BufferOk, CopyOk
<1>5. CommandOk(scenario', saved', handler') /\ DiskOk(scenario', saved', handler', disk')
  BY <1>1 DEF CommandOk, DiskOk, SamePlace, SameModes
<1> QED
  BY <1>3, <1>4, <1>5, InvNext DEF Ok

LEMMA TickOk ==
  ASSUME Inv, Tick
  PROVE  Inv' /\ SamePlace(saved, saved') /\ SameHistory(saved, saved')
<1>1. /\ handler.at = "idle" /\ saved.deadline = "due" /\ Sound(saved) /\ saved \in Saved
      /\ scenario' = scenario /\ failed' = failed /\ disk' = disk /\ failed \in SUBSET Tracks
  BY InvIs DEF Tick, Sound, Kept
<1>2. /\ saved' \in Saved /\ SamePlace(saved, saved') /\ SameHistory(saved, saved')
  <2>1. \E on \in BOOLEAN : saved' = [saved EXCEPT !.deadline = "off", !.waiting = on]
    BY DEF Tick
  <2>2. saved' \in Saved
    BY <1>1, <2>1 DEF Saved
  <2> QED
    BY <1>1, <2>1, <2>2 DEF Saved, SamePlace, SameModes, SameHistory
<1>3. CASE saved.finish /\ state \in Busy
  <2>1. state' = state /\ worker' = worker /\ handler' = handler
    BY <1>3 DEF Tick
  <2>2. ~worker.buffered
    BY <1>1, InvIs DEF BufferOk, NoTimer
  <2> QED
    BY <1>1, <1>2, <2>1, <2>2, StillOk
<1>4. CASE ~(saved.finish /\ state \in Busy)
  <2>1. worker' = NoWorker /\ state' \in States /\ Turn("persist", "tick")
    BY <1>4 DEF Tick, CancelPlayback, CancelInto, Restful, States
  <2>2. handler' \in Handlers /\ handler'.at \in {"start", "persist"} /\ Sound(handler'.copy)
    BY <2>1, TurnIs
  <2>3. Sound(saved')
    BY <1>1, <1>2, SamePlaceSound
  <2> QED
    BY <1>1, <1>2, <2>1, <2>2, <2>3, QuietOk
<1> QED
  BY <1>3, <1>4

LEMMA DeadlinePassesOk ==
  ASSUME Inv, DeadlinePasses
  PROVE  Inv' /\ SamePlace(saved, saved') /\ SameHistory(saved, saved')
<1>1. saved \in Saved /\ BufferOk(scenario, saved, worker, handler)
  BY InvIs DEF Sound, Kept
<1>2. saved' \in Saved /\ SamePlace(saved, saved') /\ SameHistory(saved, saved')
  BY <1>1 DEF DeadlinePasses, Saved, SamePlace, SameModes, SameHistory
<1>3. worker.buffered => handler.at \in {"start", "begin"}
  BY <1>1 DEF DeadlinePasses, BufferOk, NoTimer
<1> QED
  BY <1>2, <1>3, StillOk DEF DeadlinePasses

LEMMA TickPersistOk ==
  ASSUME Inv, TickPersist
  PROVE  Inv' /\ saved' = saved
<1>1. /\ scenario \in Scenarios /\ state \in States /\ failed \in SUBSET Tracks
      /\ worker \in Workers /\ handler \in Handlers /\ Sound(saved)
      /\ Sound(worker.plan) /\ WorkerOk(saved, state, worker, handler)
      /\ BufferOk(scenario, saved, worker, handler) /\ CopyOk(scenario, saved, worker, handler)
      /\ CommandOk(scenario, saved, handler) /\ Sound(handler.copy)
  BY InvIs
<1>2. /\ disk' = Written(saved)
      /\ UNCHANGED <<scenario, saved, state, failed, worker, handler>>
  BY DEF TickPersist
<1>3. Sound(Written(saved)) /\ SamePlace(saved, Written(saved))
  BY <1>1, WrittenIs
<1>4. TypesOk(scenario', state', failed', worker', handler') /\ SoundOk(saved', worker', handler', disk')
  BY <1>1, <1>2, <1>3 DEF TypesOk, SoundOk
<1>5. /\ WorkerOk(saved', state', worker', handler') /\ BufferOk(scenario', saved', worker', handler')
      /\ CopyOk(scenario', saved', worker', handler')
  BY <1>1, <1>2 DEF WorkerOk, BufferOk, CopyOk
<1>6. CommandOk(scenario', saved', handler') /\ DiskOk(scenario', saved', handler', disk')
  BY <1>1, <1>2, <1>3 DEF CommandOk, DiskOk, SamePlace
<1> QED
  BY <1>2, <1>4, <1>5, <1>6, InvNext DEF Ok

-----------------------------------------------------------------------------
(* The worker.                                                             *)

\* What holds while a worker is attached.
LEMMA AttachedIs ==
  ASSUME Inv, worker.phase # "none"
  PROVE  /\ saved.queue # <<>> /\ worker.plan.queue # <<>>
         /\ At(worker.plan) = At(saved) \/ (worker.crossed /\ scenario.continuous)
         /\ state \in Busy
         /\ handler.at = "command" => handler.playing
         /\ ~(handler.at \in {"start", "begin"} /\ handler.origin # "client")
  BY InvIs DEF WorkerOk, CopyOk

LEMMA AttachOk ==
  ASSUME Inv, Attach
  PROVE  Inv' /\ saved' = saved
<1>1. /\ scenario \in Scenarios /\ state \in States /\ failed \in SUBSET Tracks
      /\ worker \in Workers /\ handler \in Handlers /\ Sound(saved) /\ Sound(disk)
      /\ Sound(worker.plan) /\ WorkerOk(saved, state, worker, handler)
      /\ BufferOk(scenario, saved, worker, handler) /\ CopyOk(scenario, saved, worker, handler)
      /\ CommandOk(scenario, saved, handler) /\ DiskOk(scenario, saved, handler, disk)
      /\ Sound(handler.copy)
  BY InvIs
<1>2. /\ worker.phase = "loading" /\ worker' = [worker EXCEPT !.phase = "streaming"]
      /\ UNCHANGED <<scenario, saved, state, failed, handler, disk>>
  BY DEF Attach
<1>3. /\ worker' \in Workers /\ worker'.phase = "streaming" /\ worker'.plan = worker.plan
      /\ worker'.buffered = worker.buffered /\ worker'.crossed = worker.crossed
  BY <1>1, <1>2 DEF Workers
<1>4. TypesOk(scenario', state', failed', worker', handler') /\ SoundOk(saved', worker', handler', disk')
  BY <1>1, <1>2, <1>3 DEF TypesOk, SoundOk
<1>5. /\ WorkerOk(saved', state', worker', handler') /\ BufferOk(scenario', saved', worker', handler')
      /\ CopyOk(scenario', saved', worker', handler')
  BY <1>1, <1>2, <1>3 DEF WorkerOk, BufferOk, CopyOk
<1>6. CommandOk(scenario', saved', handler') /\ DiskOk(scenario', saved', handler', disk')
  BY <1>1, <1>2 DEF CommandOk, DiskOk
<1> QED
  BY <1>2, <1>4, <1>5, <1>6, InvNext DEF Ok

\* Progress stores the place of the worker's plan in the queue they agree on: the
\* place of the current track, unless the worker has crossed.
LEMMA ProgressIs ==
  ASSUME Inv, Progress
  PROVE  /\ Sound(saved') /\ saved'.queue = saved.queue /\ SameModes(saved, saved')
         /\ saved'.visited = saved.visited /\ SameTimer(saved, saved')
         /\ saved.queue # <<>> /\ At(saved') = At(worker.plan)
         /\ ~worker.crossed => At(saved') = At(saved)
         /\ ~scenario.continuous => saved'.index = saved.index
         /\ saved'.heard = worker.plan.heard \cup {At(saved')}
<1>1. /\ Sound(saved) /\ saved \in Saved /\ Sound(worker.plan) /\ worker \in Workers
      /\ At(worker.plan) = At(saved) \/ (worker.crossed /\ scenario.continuous)
      /\ saved.queue # <<>> /\ worker.plan.queue # <<>>
      /\ scenario.continuous => worker.plan.queue = saved.queue
  BY InvIs, AttachedIs DEF Progress, Attached, Sound, Kept, InPlan
<1>2. PICK counted \in {TRUE, saved.counted /\ ~worker.crossed} :
       saved' = [saved EXCEPT
                   !.index = IF scenario.continuous THEN worker.plan.index ELSE @,
                   !.position = 1,
                   !.heard = worker.plan.heard \cup {At(worker.plan)},
                   !.counted = counted]
  BY DEF Progress
<1> DEFINE i == IF scenario.continuous THEN worker.plan.index ELSE saved.index
           h == worker.plan.heard \cup {At(worker.plan)}
<1>3. i \in 0..MaxQueue /\ h \in SUBSET Tracks /\ counted \in BOOLEAN /\ 1 \in Positions
  <2>1. saved.counted \in BOOLEAN /\ worker.crossed \in BOOLEAN
    BY <1>1 DEF Saved, Workers
  <2>2. counted \in BOOLEAN
    BY <2>1
  <2> QED
    BY <1>1, <2>2, KeptIs, SomePositions DEF Sound
<1>4. i \in 0..(Len(saved.queue) - 1) /\ saved.queue[i + 1] = At(worker.plan)
  <2>1. CASE scenario.continuous
    <3>1. worker.plan.index \in 0..(Len(worker.plan.queue) - 1)
      BY <1>1, KeptIs DEF Sound
    <3> QED
      BY <1>1, <2>1, <3>1 DEF At
  <2>2. CASE ~scenario.continuous
    BY <1>1, <2>2, KeptIs DEF Sound, At
  <2> QED
    BY <2>1, <2>2
<1>5. ~scenario.continuous => i = saved.index
  OBVIOUS
<1>6. saved' = [saved EXCEPT !.index = i, !.position = 1, !.heard = h, !.counted = counted]
  BY <1>2
<1> HIDE DEF i, h
<1>7. /\ saved' \in Saved /\ saved'.queue = saved.queue /\ saved'.index = i
      /\ saved'.visited = saved.visited /\ SameModes(saved, saved') /\ SameTimer(saved, saved')
      /\ saved'.heard = h
  BY <1>1, <1>3, <1>6 DEF Saved, SameModes, SameTimer
<1>8. At(saved') = At(worker.plan)
  BY <1>4, <1>7 DEF At
<1>9. Sound(saved')
  <2>1. Kept(saved')
    BY <1>1, <1>4, <1>7 DEF Kept, InRange
  <2>2. ~scenario.continuous => At(saved') = At(saved)
    BY <1>1, <1>8
  <2> QED
    BY <1>1, <1>7, <2>1, <2>2 DEF Sound, SameModes
<1> QED
  BY <1>1, <1>5, <1>7, <1>8, <1>9 DEF h

LEMMA ProgressOk ==
  ASSUME Inv, Progress
  PROVE  Inv'
<1>1. /\ scenario \in Scenarios /\ failed \in SUBSET Tracks /\ Attached
      /\ worker \in Workers /\ handler \in Handlers /\ Sound(disk) /\ Sound(handler.copy)
      /\ Sound(worker.plan) /\ WorkerOk(saved, state, worker, handler)
      /\ BufferOk(scenario, saved, worker, handler) /\ CopyOk(scenario, saved, worker, handler)
      /\ CommandOk(scenario, saved, handler) /\ DiskOk(scenario, saved, handler, disk)
  BY InvIs DEF Progress
<1>2. /\ worker' = [worker EXCEPT !.phase = "heard", !.crossed = FALSE] /\ state' = "play"
      /\ UNCHANGED <<scenario, failed, handler, disk>>
  BY DEF Progress
<1>3. /\ Sound(saved') /\ saved'.queue = saved.queue /\ SameModes(saved, saved')
      /\ saved'.visited = saved.visited /\ SameTimer(saved, saved')
      /\ At(saved') = At(worker.plan) /\ saved.queue # <<>>
      /\ ~worker.crossed => At(saved') = At(saved)
      /\ ~scenario.continuous => saved'.index = saved.index
  BY ProgressIs
<1>4. /\ worker' \in Workers /\ worker'.phase = "heard" /\ worker'.plan = worker.plan
      /\ worker'.buffered = worker.buffered /\ worker'.crossed = FALSE
  BY <1>1, <1>2 DEF Workers
<1>5. TypesOk(scenario', state', failed', worker', handler') /\ SoundOk(saved', worker', handler', disk')
  BY <1>1, <1>2, <1>3, <1>4 DEF TypesOk, SoundOk, States
<1>6. WorkerOk(saved', state', worker', handler') /\ BufferOk(scenario', saved', worker', handler')
  BY <1>1, <1>2, <1>3, <1>4 DEF WorkerOk, BufferOk, Busy, Attached, NoTimer, SameTimer
<1>7. CopyOk(scenario', saved', worker', handler')
  BY <1>1, <1>2, <1>3, <1>4 DEF CopyOk
<1>8. CommandOk(scenario', saved', handler') /\ DiskOk(scenario', saved', handler', disk')
  BY <1>1, <1>2, <1>3 DEF CommandOk, DiskOk, SameModes
<1> QED
  BY <1>2, <1>5, <1>6, <1>7, <1>8, InvNext DEF Ok

LEMMA ProgressIgnoredOk ==
  ASSUME Inv, ProgressIgnored
  PROVE  Inv' /\ saved' = saved
<1>1. /\ scenario \in Scenarios /\ state \in States /\ failed \in SUBSET Tracks /\ Attached
      /\ worker \in Workers /\ handler \in Handlers /\ Sound(saved) /\ Sound(disk)
      /\ Sound(worker.plan) /\ WorkerOk(saved, state, worker, handler)
      /\ BufferOk(scenario, saved, worker, handler) /\ CopyOk(scenario, saved, worker, handler)
      /\ CommandOk(scenario, saved, handler) /\ DiskOk(scenario, saved, handler, disk)
      /\ Sound(handler.copy)
  BY InvIs DEF ProgressIgnored
<1>2. /\ worker' = [worker EXCEPT !.phase = "heard"]
      /\ UNCHANGED <<scenario, saved, state, failed, handler, disk>>
  BY DEF ProgressIgnored
<1>3. /\ worker' \in Workers /\ worker'.phase = "heard" /\ worker'.plan = worker.plan
      /\ worker'.buffered = worker.buffered /\ worker'.crossed = worker.crossed
  BY <1>1, <1>2 DEF Workers
<1>4. TypesOk(scenario', state', failed', worker', handler') /\ SoundOk(saved', worker', handler', disk')
  BY <1>1, <1>2, <1>3 DEF TypesOk, SoundOk
<1>5. /\ WorkerOk(saved', state', worker', handler') /\ BufferOk(scenario', saved', worker', handler')
      /\ CopyOk(scenario', saved', worker', handler')
  BY <1>1, <1>2, <1>3 DEF WorkerOk, BufferOk, CopyOk, Attached
<1>6. CommandOk(scenario', saved', handler') /\ DiskOk(scenario', saved', handler', disk')
  BY <1>1, <1>2 DEF CommandOk, DiskOk
<1> QED
  BY <1>2, <1>4, <1>5, <1>6, InvNext DEF Ok

LEMMA BufferActionOk ==
  ASSUME Inv, Buffer
  PROVE  Inv' /\ saved' = saved
<1>1. /\ scenario \in Scenarios /\ state \in States /\ failed \in SUBSET Tracks /\ Attached
      /\ worker \in Workers /\ handler \in Handlers /\ Sound(saved) /\ Sound(disk)
      /\ Sound(worker.plan) /\ WorkerOk(saved, state, worker, handler)
      /\ CommandOk(scenario, saved, handler) /\ DiskOk(scenario, saved, handler, disk)
      /\ CopyOk(scenario, saved, worker, handler) /\ Sound(handler.copy)
  BY InvIs DEF Buffer
<1>2. /\ worker' = [worker EXCEPT !.buffered = TRUE] /\ scenario.continuous /\ NoTimer(saved)
      /\ UNCHANGED <<scenario, saved, state, failed, handler, disk>>
  BY DEF Buffer
<1>3. /\ worker' \in Workers /\ worker'.phase = worker.phase /\ worker'.plan = worker.plan
      /\ worker'.buffered = TRUE /\ worker'.crossed = worker.crossed
  BY <1>1, <1>2 DEF Workers
<1>4. TypesOk(scenario', state', failed', worker', handler') /\ SoundOk(saved', worker', handler', disk')
  BY <1>1, <1>2, <1>3 DEF TypesOk, SoundOk
<1>5. /\ WorkerOk(saved', state', worker', handler') /\ BufferOk(scenario', saved', worker', handler')
      /\ CopyOk(scenario', saved', worker', handler')
  BY <1>1, <1>2, <1>3 DEF WorkerOk, BufferOk, CopyOk, Attached
<1>6. CommandOk(scenario', saved', handler') /\ DiskOk(scenario', saved', handler', disk')
  BY <1>1, <1>2 DEF CommandOk, DiskOk
<1> QED
  BY <1>2, <1>4, <1>5, <1>6, InvNext DEF Ok

\* At a boundary the place and the session are those of the new plan.
LEMMA BoundaryIs ==
  ASSUME Inv, Boundary
  PROVE  /\ Sound(saved') /\ saved'.queue = saved.queue /\ SameModes(saved, saved')
         /\ SameTimer(saved, saved') /\ NoHistory(saved') /\ saved.queue # <<>>
         /\ worker' \in Workers /\ worker'.phase = worker.phase /\ worker'.buffered = FALSE
         /\ Sound(worker'.plan) /\ worker'.plan.queue # <<>> /\ At(worker'.plan) = At(saved')
         /\ worker'.plan.heard = {} /\ worker'.crossed = FALSE
<1>1. /\ Sound(saved) /\ saved \in Saved /\ Sound(worker.plan) /\ worker \in Workers
      /\ saved.queue # <<>> /\ worker.plan.queue = saved.queue
      /\ worker.plan.repeat = saved.repeat /\ worker.plan.shuffle = saved.shuffle
  BY InvIs, AttachedIs DEF Boundary, Sound, Kept, InPlan
<1>2. PICK s \in Advance(worker.plan, FALSE) :
       LET plan == ResetHistory([s EXCEPT !.position = 0])
       IN /\ worker' = [worker EXCEPT !.plan = plan, !.buffered = FALSE, !.crossed = FALSE]
          /\ saved' = [saved EXCEPT !.index = plan.index, !.position = 0,
                         !.visited = plan.visited, !.heard = {}, !.counted = FALSE]
  BY DEF Boundary
<1> DEFINE u == [s EXCEPT !.position = 0]
           plan == ResetHistory(u)
<1>3. /\ worker' = [worker EXCEPT !.plan = plan, !.buffered = FALSE, !.crossed = FALSE]
      /\ saved' = [saved EXCEPT !.index = plan.index, !.position = 0,
                     !.visited = plan.visited, !.heard = {}, !.counted = FALSE]
  BY <1>2
<1>4. Sound(s) /\ Onward(worker.plan, s)
  BY <1>1, AdvanceIs
<1>5. u \in Saved /\ SamePlace(s, u)
  BY <1>4, SomePositions DEF Sound, Kept, Saved, SamePlace, SameModes
<1> HIDE DEF u
<1>6. plan \in Saved /\ SamePlace(u, plan) /\ NoHistory(plan)
  BY <1>5, ResetHistoryIs
<1> HIDE DEF plan
<1>7. /\ Sound(plan) /\ plan.queue = saved.queue /\ plan.shuffle = saved.shuffle
  BY <1>1, <1>4, <1>5, <1>6, SamePlaceSound DEF Onward, SamePlace, SameModes
<1> DEFINE i == plan.index
           v == plan.visited
<1>8. i \in 0..MaxQueue /\ v \in SUBSET Tracks /\ 0 \in Positions
  BY <1>7, KeptIs, SomePositions DEF Sound
<1>9. saved' = [saved EXCEPT !.index = i, !.position = 0, !.visited = v,
                             !.heard = {}, !.counted = FALSE]
  BY <1>3
<1> HIDE DEF i, v
<1>10. /\ saved' \in Saved /\ saved'.queue = saved.queue /\ saved'.index = i
       /\ saved'.visited = v /\ SameModes(saved, saved') /\ SameTimer(saved, saved')
       /\ NoHistory(saved')
  BY <1>1, <1>8, <1>9 DEF Saved, SameModes, SameTimer, NoHistory
<1>11. At(saved') = At(plan)
  BY <1>7, <1>10 DEF At, i
<1>12. Sound(saved')
  BY <1>1, <1>7, <1>10, <1>11 DEF Sound, Kept, InRange, SameModes, i, v
<1>13. /\ worker' \in Workers /\ worker'.phase = worker.phase /\ worker'.buffered = FALSE
       /\ worker'.plan = plan /\ worker'.crossed = FALSE
  BY <1>1, <1>3, <1>6 DEF Workers
<1> QED
  BY <1>1, <1>6, <1>7, <1>10, <1>11, <1>12, <1>13 DEF NoHistory

LEMMA BoundaryOk ==
  ASSUME Inv, Boundary
  PROVE  Inv'
<1>1. /\ scenario \in Scenarios /\ failed \in SUBSET Tracks /\ scenario.continuous
      /\ handler \in Handlers /\ Sound(disk) /\ worker.phase = "heard"
      /\ WorkerOk(saved, state, worker, handler) /\ CommandOk(scenario, saved, handler)
      /\ DiskOk(scenario, saved, handler, disk) /\ CopyOk(scenario, saved, worker, handler)
      /\ Sound(handler.copy)
  BY InvIs DEF Boundary, BufferOk
<1>2. state' = "play" /\ UNCHANGED <<scenario, failed, handler, disk>>
  BY DEF Boundary
<1>3. TypesOk(scenario', state', failed', worker', handler') /\ SoundOk(saved', worker', handler', disk')
  BY <1>1, <1>2, BoundaryIs DEF TypesOk, SoundOk, States
<1>4. /\ WorkerOk(saved', state', worker', handler') /\ BufferOk(scenario', saved', worker', handler')
      /\ CopyOk(scenario', saved', worker', handler')
  BY <1>1, <1>2, BoundaryIs DEF WorkerOk, BufferOk, CopyOk, Busy
<1>5. CommandOk(scenario', saved', handler') /\ DiskOk(scenario', saved', handler', disk')
  BY <1>1, <1>2, BoundaryIs DEF CommandOk, DiskOk, SameModes
<1> QED
  BY <1>2, <1>3, <1>4, <1>5, InvNext DEF Ok

-----------------------------------------------------------------------------
(* Restart.                                                                *)

\* A restart comes back to what remote.json says, and what is there was sound
\* before it: written by the last handler, or by an orderly close.
LEMMA RestartIs ==
  ASSUME Inv, Restart
  PROVE  /\ Sound(disk') /\ Sound(saved') /\ saved'.queue = disk'.queue
         /\ saved'.index = disk'.index /\ SameModes(disk', saved')
         /\ ~scenario.continuous /\ disk'.shuffle => saved'.visited = disk'.visited
         /\ SameHistory(disk', saved') /\ At(saved') = At(disk')
         /\ saved'.deadline = "off" /\ saved'.waiting = FALSE
         /\ disk' = disk \/ disk' = Written(saved)
         /\ handler.at = "idle" => DiskOk(scenario, saved, handler, disk')
<1>1. /\ Sound(saved) /\ Sound(disk) /\ DiskOk(scenario, saved, handler, disk)
      /\ saved.failure \in {"stop", "skip"}
  BY InvIs DEF Sound, Kept, Saved
<1>2. disk' = disk \/ disk' = Written(saved)
  BY DEF Restart
<1>3. Sound(disk')
  BY <1>1, <1>2, WrittenIs
<1>4. DiskOk(scenario, saved, handler, Written(saved))
  BY <1>1, WrittenIs DEF DiskOk, SamePlace
<1> DEFINE d == disk'
           t == Restored(d)
<1>5. /\ Sound(t) /\ t.queue = d.queue /\ t.index = d.index /\ SameModes(d, t)
      /\ ~scenario.continuous /\ d.shuffle => t.visited = d.visited
      /\ SameHistory(d, t) /\ t.deadline = "off" /\ t.waiting = FALSE
  BY <1>3, RestoredIs
<1>6. saved' = [t EXCEPT !.failure = saved.failure]
  BY DEF Restart
<1> HIDE DEF t, d
<1>7. /\ saved' \in Saved /\ SamePlace(t, saved') /\ SameHistory(t, saved')
      /\ SameTimer(t, saved')
  BY <1>1, <1>5, <1>6 DEF Sound, Kept, Saved, SamePlace, SameModes, SameHistory, SameTimer
<1>8. Sound(saved') /\ At(saved') = At(t) /\ At(t) = At(d)
  BY <1>5, <1>7, SamePlaceSound DEF At
<1> QED
  BY <1>1, <1>2, <1>3, <1>4, <1>5, <1>7, <1>8
     DEF SamePlace, SameModes, SameHistory, SameTimer, d

LEMMA RestartOk ==
  ASSUME Inv, Restart
  PROVE  Inv'
<1>1. /\ scenario \in Scenarios /\ scenario' = scenario /\ failed' = {} /\ worker' = NoWorker
      /\ handler' = Idle /\ state' \in States
  BY InvIs DEF Restart, States
<1>2. Idle \in Handlers /\ Idle.at = "idle" /\ Sound(Idle.copy)
  BY NobodyIs
<1>3. TypesOk(scenario', state', failed', worker', handler') /\ SoundOk(saved', worker', handler', disk')
  BY <1>1, <1>2, NobodyIs, RestartIs DEF TypesOk, SoundOk
<1>4. /\ WorkerOk(saved', state', worker', handler') /\ BufferOk(scenario', saved', worker', handler')
      /\ CopyOk(scenario', saved', worker', handler')
  BY <1>1, <1>2, NobodyIs DEF WorkerOk, BufferOk, CopyOk
<1>5. CommandOk(scenario', saved', handler') /\ DiskOk(scenario', saved', handler', disk')
  BY <1>1, <1>2, RestartIs DEF CommandOk, DiskOk, SameModes
<1> QED
  BY <1>1, <1>3, <1>4, <1>5, InvNext DEF Ok

-----------------------------------------------------------------------------
(* Every step, and the theorems.                                           *)

LEMMA NextInv ==
  ASSUME Inv, ~RemoveRace, [Next]_vars
  PROVE  Inv'
<1>1. CASE Execute
  <2>1. CASE Start
    BY <2>1, StartOk
  <2>2. CASE Play
    BY <2>2, PlayOk
  <2>3. CASE Pause
    BY <2>3, PauseOk
  <2>4. CASE Stop
    BY <2>4, StopOk
  <2>5. CASE Clear
    BY <2>5, ClearOk
  <2>6. CASE Seek
    BY <2>6, SeekOk
  <2>7. CASE Select
    BY <2>7, SelectOk
  <2>8. CASE NoNext
    BY <2>8, NoNextOk
  <2>9. CASE Edit
    BY <2>9, EditOk
  <2>10. CASE Delete
    BY <2>10, DeleteOk
  <2>11. CASE Settings
    BY <2>11, SettingsOk
  <2>12. CASE Reject
    BY <2>12, RejectOk
  <2> QED
    BY <1>1, <2>1, <2>2, <2>3, <2>4, <2>5, <2>6, <2>7, <2>8, <2>9, <2>10, <2>11, <2>12
       DEF Execute
<1>2. CASE UNCHANGED vars
  BY <1>2, InvNext DEF vars, Inv
<1>3. CASE Request
  BY <1>3, RequestOk
<1>4. CASE StartReads
  BY <1>4, StartReadsOk
<1>5. CASE StartSucceeds
  BY <1>5, StartSucceedsOk
<1>6. CASE StartFails
  BY <1>6, StartFailsOk
<1>7. CASE Persist
  BY <1>7, PersistOk
<1>8. CASE EndOfTrack
  BY <1>8, EndOfTrackOk
<1>9. CASE TrackError
  BY <1>9, TrackErrorOk
<1>10. CASE TransportError
  BY <1>10, TransportErrorOk
<1>11. CASE Tick
  BY <1>11, TickOk
<1>12. CASE TickPersist
  BY <1>12, TickPersistOk
<1>13. CASE DeadlinePasses
  BY <1>13, DeadlinePassesOk
<1>14. CASE Attach
  BY <1>14, AttachOk
<1>15. CASE Progress
  BY <1>15, ProgressOk
<1>16. CASE ProgressIgnored
  BY <1>16, ProgressIgnoredOk
<1>17. CASE Buffer
  BY <1>17, BufferActionOk
<1>18. CASE Boundary
  BY <1>18, BoundaryOk
<1>19. CASE Restart
  BY <1>19, RestartOk
<1> QED
  BY <1>1, <1>2, <1>3, <1>4, <1>5, <1>6, <1>7, <1>8, <1>9, <1>10, <1>11, <1>12,
     <1>13, <1>14, <1>15, <1>16, <1>17, <1>18, <1>19 DEF Next

\* As long as no removal decides with an index that a boundary has left, the
\* places of the queue, of the plan and of remote.json are sound, who plays plays
\* the current track or has crossed with a boundary, and between two handlers
\* remote.json has the queue.
THEOREM InvHolds ==
  Spec /\ [][~RemoveRace]_vars => []Inv
<1>1. Init => Inv
  BY InitInv
<1>2. Inv /\ [Next]_vars /\ [~RemoveRace]_vars => Inv'
  <2> SUFFICES ASSUME Inv, [Next]_vars, [~RemoveRace]_vars PROVE Inv'
    OBVIOUS
  <2>1. CASE ~RemoveRace
    BY <2>1, NextInv
  <2>2. CASE UNCHANGED vars
    BY <2>2, InvNext DEF vars, Inv
  <2> QED
    BY <2>1, <2>2
<1> QED
  BY <1>1, <1>2, PTL DEF Spec

\* Every variable keeps to its type, whatever clients send and whenever the
\* server dies: no index, position or visited track comes from outside.
THEOREM TypeCorrect ==
  Spec /\ [][~RemoveRace]_vars => []TypeOK
<1>1. Inv => TypeOK
  BY InvIs DEF TypeOK, States, Workers, Handlers, Sound, Kept
<1> QED
  BY <1>1, InvHolds, PTL

\* The index always points into the queue (markShuffleLocked and the handlers
\* index the queue with it).
THEOREM IndexInRangeHolds ==
  Spec /\ [][~RemoveRace]_vars => []IndexInRange
<1>1. Inv => IndexInRange
  BY InvIs DEF IndexInRange, Sound, Kept
<1> QED
  BY <1>1, InvHolds, PTL

\* Between two handlers what the worker plays is the track at the index, unless
\* start() made it from a copy that a boundary has left behind since; then the
\* first report that is stored brings the index back to it.
THEOREM HeardIsCurrentHolds ==
  Spec /\ [][~RemoveRace]_vars => []HeardIsCurrent
<1>1. Inv => HeardIsCurrent
  BY InvIs, AttachedIs DEF HeardIsCurrent, Sound, Kept
<1> QED
  BY <1>1, InvHolds, PTL

\* Taking one occurrence of a track out of a queue leaves fewer of them.
LEMMA FewerOccurrences ==
  ASSUME NEW q \in Seq(Tracks), NEW n \in 1..Len(q)
  PROVE  ~(Occurrences(RemoveAt(q, n), q[n]) >= Occurrences(q, q[n]))
<1> DEFINE r == RemoveAt(q, n)
           t == q[n]
           S == {i \in DOMAIN q : q[i] = t}
           T == {i \in DOMAIN r : r[i] = t}
           f == [i \in T |-> IF i < n THEN i ELSE i + 1]
<1>1. /\ r \in Seq(Tracks) /\ Len(r) = Len(q) - 1 /\ Len(q) \in Nat
      /\ \A j \in 1..(Len(q) - 1) : r[j] = IF j < n THEN q[j] ELSE q[j + 1]
  BY RemoveAtIs
<1>2. DOMAIN q = 1..Len(q) /\ DOMAIN r = 1..(Len(q) - 1)
  BY <1>1
<1> HIDE DEF r, t
<1>3. n \in S
  BY <1>2 DEF t
<1>4. IsFiniteSet(S) /\ Cardinality(S) \in Nat
  <2>1. IsFiniteSet(1..Len(q)) /\ S \in SUBSET (1..Len(q))
    BY <1>1, <1>2, FS_Interval
  <2>2. IsFiniteSet(S)
    BY <2>1, FS_Subset
  <2> QED
    BY <2>2, FS_CardinalityType
<1>5. IsFiniteSet(S \ {n}) /\ Cardinality(S \ {n}) = Cardinality(S) - 1
  BY <1>3, <1>4, FS_RemoveElement
<1>6. f \in Injection(T, S \ {n})
  <2>1. ASSUME NEW i \in T PROVE f[i] \in S \ {n}
    <3>1. i \in 1..(Len(q) - 1) /\ r[i] = t /\ f[i] = IF i < n THEN i ELSE i + 1
      BY <1>2
    <3>2. r[i] = IF i < n THEN q[i] ELSE q[i + 1]
      BY <1>1, <3>1
    <3>3. f[i] \in 1..Len(q) /\ f[i] # n /\ q[f[i]] = t
      BY <1>1, <3>1, <3>2
    <3> QED
      BY <1>2, <3>3
  <2>2. ASSUME NEW i \in T, NEW j \in T, f[i] = f[j] PROVE i = j
    <3>1. i \in 1..(Len(q) - 1) /\ j \in 1..(Len(q) - 1)
      BY <1>2
    <3>2. f[i] = (IF i < n THEN i ELSE i + 1) /\ f[j] = (IF j < n THEN j ELSE j + 1)
      OBVIOUS
    <3> QED
      BY <1>1, <2>2, <3>1, <3>2
  <2>3. f \in [T -> S \ {n}]
    BY <2>1
  <2> HIDE DEF f, T, S
  <2> QED
    BY <2>2, <2>3 DEF Injection, IsInjective
<1> HIDE DEF f, S, T
<1>7. IsFiniteSet(T) /\ Cardinality(T) <= Cardinality(S \ {n})
  BY <1>5, <1>6, FS_Injection
<1>8. Cardinality(T) \in Nat
  BY <1>7, FS_CardinalityType
<1>9. ~(Cardinality(T) >= Cardinality(S))
  BY <1>4, <1>5, <1>7, <1>8
<1> QED
  BY <1>9 DEF Occurrences, S, T, r, t

\* An edit of the queue keeps the current track, unless it removes it: append,
\* move and remove adjust the index to the edited queue. It compares tracks, not
\* their occurrences: an edit may leave the place for another one with the same
\* track.
THEOREM EditsKeepCurrentHolds ==
  Spec /\ [][~RemoveRace]_vars => EditsKeepCurrent
<1> DEFINE Kind == (Edit \/ Delete) /\ saved.queue # <<>>
                   /\ Occurrences(saved'.queue, At(saved)) >= Occurrences(saved.queue, At(saved))
           Good == InRange(saved') /\ At(saved') = At(saved)
<1>1. ASSUME Inv, ~RemoveRace, Kind PROVE Good
  <2>1. CASE Edit
    BY <1>1, <2>1, EditIs DEF Sound, Kept
  <2>2. CASE Delete
    <3>1. saved.queue \in Seq(Tracks) /\ saved.index + 1 \in 1..Len(saved.queue)
      BY <1>1, InvIs, KeptIs DEF Sound
    <3>2. saved'.queue # RemoveAt(saved.queue, saved.index + 1)
      BY <1>1, <3>1, FewerOccurrences DEF At
    <3> QED
      BY <1>1, <2>2, <3>2, DeleteIs DEF Sound, Kept
  <2> QED
    BY <1>1, <2>1, <2>2
<1>2. Inv /\ [~RemoveRace]_vars => [Kind => Good]_vars
  BY <1>1
<1> QED
  BY <1>2, InvHolds, PTL DEF Spec, EditsKeepCurrent

\* While the sleep timer wants to stop, or is over, only a command leaves the
\* track. A successor in the stream does not cross over: none goes in while a
\* timer is set, and the command that sets one starts the session again. The first
\* report of a worker that crossed before may still bring the index back.
THEOREM TimerHoldsTrackHolds ==
  Spec /\ [][~RemoveRace]_vars => TimerHoldsTrack
<1> DEFINE Kind == /\ handler.at = "idle" \/ handler.origin # "client"
                   /\ ~Restart /\ ~worker.crossed
                   /\ saved.waiting \/ saved.deadline = "due"
                   /\ saved.queue # <<>> /\ saved'.queue = saved.queue
           Good == At(saved') = At(saved)
<1>1. ASSUME Inv, [Next]_vars, Kind PROVE Good
  <2>1. handler.at # "command" /\ Sound(saved) /\ BufferOk(scenario, saved, worker, handler)
    BY <1>1, InvIs DEF CommandOk
  <2>2. ~MaySkip /\ ~NoTimer(saved)
    BY <1>1, <2>1 DEF MaySkip, NoTimer, Sound, Kept, Saved
  <2>3. CASE saved' = saved
    BY <2>3
  <2>4. CASE SamePlace(saved, saved')
    BY <2>1, <2>4 DEF SamePlace, At
  <2>5. CASE Execute
    <3>1. FALSE
      BY <2>1, <2>5 DEF Execute, Start, Play, Pause, Stop, Clear, Seek, Select, NoNext, Edit,
                        Delete, Settings, Reject, Command
    <3> QED
      BY <3>1
  <2>6. CASE StartFails
    BY <2>2, <2>3, <2>6 DEF StartFails, Skip, SkipGivesUp
  <2>7. CASE TrackError
    BY <2>2, <2>3, <2>7 DEF TrackError, Skip, SkipGivesUp
  <2>8. CASE EndOfTrack
    BY <1>1, <2>8, EndOfTrackIs
  <2>9. CASE Tick
    BY <1>1, <2>4, <2>9, TickOk
  <2>10. CASE DeadlinePasses
    BY <1>1, <2>4, <2>10, DeadlinePassesOk
  <2>11. CASE Progress
    BY <1>1, <2>11, ProgressIs
  <2>12. CASE Boundary
    <3>1. worker.buffered /\ worker.phase = "heard"
      BY <2>12 DEF Boundary
    <3>2. handler.at \in {"start", "begin"}
      BY <2>1, <2>2, <3>1 DEF BufferOk
    <3>3. handler.origin = "client"
      BY <1>1, <3>1, <3>2, AttachedIs
    <3> QED
      BY <1>1, <3>2, <3>3
  <2>13. CASE Request \/ StartReads \/ StartSucceeds \/ Persist \/ TransportError \/ TickPersist \/ Attach
              \/ ProgressIgnored \/ Buffer \/ UNCHANGED vars
    BY <2>3, <2>13 DEF Request, StartReads, StartSucceeds, Persist, TransportError, TickPersist, Attach,
                       ProgressIgnored, Buffer, vars
  <2>14. ~Restart
    BY <1>1
  <2> QED
    BY <1>1, <2>5, <2>6, <2>7, <2>8, <2>9, <2>10, <2>11, <2>12, <2>13, <2>14 DEF Next
<1>2. Inv /\ [Next]_vars => [Kind => Good]_vars
  BY <1>1
<1> QED
  BY <1>2, InvHolds, PTL DEF Spec, TimerHoldsTrack

\* What was acknowledged survives a kill: the last handler wrote remote.json
\* before it let the next one in, and NewRemote finds the same place there.
THEOREM AcknowledgedSurvivesHolds ==
  Spec /\ [][~RemoveRace]_vars => AcknowledgedSurvives
<1> DEFINE Good == /\ saved'.queue = saved.queue
                   /\ saved'.repeat = saved.repeat /\ saved'.shuffle = saved.shuffle
                   /\ ~scenario.continuous =>
                        /\ saved'.index = saved.index
                        /\ saved.shuffle => saved'.visited = saved.visited
                   /\ saved'.deadline = "off" /\ ~saved'.waiting
<1>1. ASSUME Inv, Restart, handler.at = "idle" PROVE Good
  BY <1>1, RestartIs DEF DiskOk, SameModes
<1>2. Inv /\ [Next]_vars => [Restart /\ handler.at = "idle" => Good]_vars
  BY <1>1
<1> QED
  BY <1>2, InvHolds, PTL DEF Spec, AcknowledgedSurvives

-----------------------------------------------------------------------------
(* The listening session.                                                  *)

\* A session is about the track at the index, and an empty queue has none.
Hist(s) ==
  /\ s.queue # <<>> => s.heard \subseteq {At(s)} /\ (s.counted => s.heard # {})
  /\ s.queue = <<>> => NoHistory(s)

PlanHist(w) == w.phase # "none" => w.plan.heard \subseteq {At(w.plan)}
CopyHist(h) == h.at = "begin" => h.copy.heard \subseteq {At(h.copy)}

HistInv ==
  "clear" \notin scenario.commands =>
    Hist(saved) /\ Hist(disk) /\ PlanHist(worker) /\ CopyHist(handler)

\* What keeps the track, if there is one, and the session.
Onto(s, t) ==
  SameHistory(s, t) /\ (s.queue # <<>> => t.queue # <<>> /\ At(t) = At(s))

\* skipFailed gives up on another track than it began with: it has moved the
\* index and leaves the session as it is.
GivesUpElsewhere ==
  (StartFails \/ TrackError) /\ SkipGivesUp /\ At(saved') # At(saved)

LEMMA OntoSelf ==
  ASSUME NEW s PROVE Onto(s, s)
  BY DEF Onto, SameHistory

LEMMA OntoSamePlace ==
  ASSUME NEW s, NEW t, SamePlace(s, t), SameHistory(s, t)
  PROVE  Onto(s, t)
  BY DEF Onto, SamePlace, At

LEMMA OntoHist ==
  ASSUME NEW s, NEW t, Hist(s), Onto(s, t)
  PROVE  Hist(t)
  BY DEF Onto, Hist, SameHistory, NoHistory

\* A step begins a new session, or it keeps the session and the track, or it
\* is the progress of the worker or a restart.
LEMMA HistoryStep ==
  ASSUME Inv, ~RemoveRace, [Next]_vars, "clear" \notin scenario.commands, ~GivesUpElsewhere
  PROVE  NoHistory(saved') \/ Onto(saved, saved') \/ Progress \/ Restart
<1>1. CASE Execute
  <2>1. ~Clear
    BY DEF Clear, Command
  <2>2. CASE Start \/ Select \/ Stop
    BY <2>2, StartOk, SelectOk, StopOk
  <2>3. CASE Play \/ NoNext \/ Reject
    <3>1. saved' = saved
      BY <2>3, PlayOk, NoNextOk, RejectOk
    <3> QED
      BY <3>1, OntoSelf
  <2>4. CASE Pause \/ Seek \/ Settings
    <3>1. SamePlace(saved, saved') /\ SameHistory(saved, saved')
      BY <2>4, PauseOk, SeekOk, SettingsOk
    <3> QED
      BY <3>1, OntoSamePlace
  <2>5. CASE Edit
    BY <2>5, EditIs DEF Onto
  <2>6. CASE Delete
    BY <2>6, DeleteIs DEF Onto
  <2> QED
    BY <1>1, <2>1, <2>2, <2>3, <2>4, <2>5, <2>6 DEF Execute
<1>2. ASSUME SkipGivesUp, StartFails \/ TrackError PROVE Onto(saved, saved')
  <2>1. At(saved') = At(saved)
    BY <1>2 DEF GivesUpElsewhere
  <2> QED
    BY <1>2, <2>1, SkipGivesUpIs DEF Onto
<1>3. CASE StartFails
  BY <1>2, <1>3, SkipIs, OntoSelf DEF StartFails
<1>4. CASE TrackError
  BY <1>2, <1>4, SkipIs, OntoSelf DEF TrackError
<1>5. CASE EndOfTrack \/ Boundary
  BY <1>5, EndOfTrackIs, BoundaryIs
<1>6. CASE Tick \/ DeadlinePasses
  <2>1. SamePlace(saved, saved') /\ SameHistory(saved, saved')
    BY <1>6, TickOk, DeadlinePassesOk
  <2> QED
    BY <2>1, OntoSamePlace
<1>7. CASE Request \/ StartReads \/ StartSucceeds \/ Persist \/ TransportError \/ TickPersist \/ Attach
           \/ ProgressIgnored \/ Buffer \/ UNCHANGED vars
  <2>1. saved' = saved
    BY <1>7 DEF Request, StartReads, StartSucceeds, Persist, TransportError, TickPersist, Attach,
                ProgressIgnored, Buffer, vars
  <2> QED
    BY <2>1, OntoSelf
<1> QED
  BY <1>1, <1>3, <1>4, <1>5, <1>6, <1>7 DEF Next

\* What the other copies are after a step.
LEMMA CopiesStep ==
  ASSUME Inv, [Next]_vars
  PROVE  /\ disk' = disk \/ (disk' = Written(saved))
         /\ handler'.at = "begin" => handler' = handler \/ StartReads
         /\ \/ worker' = NoWorker
            \/ worker'.plan = worker.plan /\ (worker'.phase # "none" => worker.phase # "none")
            \/ StartSucceeds
            \/ Boundary
<1>1. /\ disk' = disk \/ disk' = Written(saved)
  BY DEF Next, Execute, vars, Request, Start, Play, Pause, Stop, Clear, Seek, Select, NoNext,
         Edit, Delete, Settings, Reject, StartReads, StartSucceeds, StartFails, Persist, EndOfTrack,
         TrackError, TransportError, Tick, TickPersist, DeadlinePasses, Attach, Progress,
         ProgressIgnored, Buffer, Boundary, Restart
<1>2. worker \in Workers /\ handler \in Handlers
  BY InvIs
<1>3. ASSUME handler'.at = "begin" PROVE handler' = handler \/ StartReads
  <2>1. ASSUME NEW to \in {"start", "persist"}, Goto(to) PROVE handler'.at # "begin"
    BY <1>2, <2>1 DEF Goto, Handlers
  <2>2. ASSUME NEW to \in {"start", "persist"}, NEW origin, Turn(to, origin)
        PROVE  handler'.at # "begin"
    BY <2>2, NobodyIs DEF Turn, Handlers
  <2>3. ~Execute
    <3>1. ~AfterEdit
      BY <1>3, <2>1 DEF AfterEdit
    <3>2. ~\E s, i : GoTo(s, i)
      BY <1>3, <2>1 DEF GoTo
    <3> QED
      BY <1>3, <2>1, <3>1, <3>2 DEF Execute, Start, Play, Pause, Stop, Clear, Seek, Select, NoNext,
         Edit, Delete, Settings, Reject
  <2>4. ~StartFails /\ ~StartSucceeds /\ ~Persist /\ ~Restart /\ ~Request
    <3>1. ~GiveUpInto("stop") /\ ~GiveUpInto(Restful)
      BY <1>3, <2>1 DEF GiveUpInto
    <3>2. ~StartFails
      BY <1>3, <2>1, <3>1 DEF StartFails
    <3>3. ~StartSucceeds
      BY <1>2, <1>3 DEF StartSucceeds, Handlers
    <3>4. ~Persist /\ ~Restart /\ ~Request
      BY <1>3, NobodyIs DEF Persist, Restart, Request
    <3> QED
      BY <3>2, <3>3, <3>4
  <2>5. ~EndOfTrack /\ ~TrackError /\ ~TransportError
    BY <1>3, <2>2 DEF EndOfTrack, TrackError, TransportError
  <2>6. CASE Tick
    BY <1>3, <2>2, <2>6 DEF Tick
  <2> QED
    BY <2>3, <2>4, <2>5, <2>6 DEF Next, TickPersist, DeadlinePasses, Attach, Progress,
       ProgressIgnored, Buffer, Boundary, vars
<1>4. \/ worker' = NoWorker \/ worker' = worker \/ StartSucceeds \/ Boundary
      \/ Attach \/ Progress \/ ProgressIgnored \/ Buffer
  BY DEF Next, Execute, vars, Request, Start, Play, Pause, Stop, Clear, Seek, Select, NoNext,
         Edit, Delete, Settings, Reject, StartReads, StartFails, Persist, EndOfTrack,
         TrackError, TransportError, Tick, TickPersist, DeadlinePasses, Restart,
         CancelPlayback, CancelInto, GiveUpInto
<1>5. CASE Attach \/ Progress \/ ProgressIgnored \/ Buffer
  BY <1>2, <1>5 DEF Attach, Progress, ProgressIgnored, Buffer, Workers, Attached
<1> QED
  BY <1>1, <1>3, <1>4, <1>5

LEMMA HistNext ==
  ASSUME Inv, ~RemoveRace, [Next]_vars, ~GivesUpElsewhere, HistInv
  PROVE  HistInv'
<1>1. scenario' = scenario
  BY DEF Next, Execute, vars, Request, Start, Play, Pause, Stop, Clear, Seek, Select, NoNext,
         Edit, Delete, Settings, Reject, StartReads, StartSucceeds, StartFails, Persist, EndOfTrack,
         TrackError, TransportError, Tick, TickPersist, DeadlinePasses, Attach, Progress,
         ProgressIgnored, Buffer, Boundary, Restart
<1> SUFFICES ASSUME "clear" \notin scenario.commands
             PROVE  Hist(saved') /\ Hist(disk') /\ PlanHist(worker') /\ CopyHist(handler')
  BY <1>1 DEF HistInv
<1>2. Hist(saved) /\ Hist(disk) /\ PlanHist(worker) /\ CopyHist(handler)
  BY DEF HistInv
<1>3. Sound(saved) /\ Sound(disk) /\ Sound(worker.plan) /\ handler \in Handlers
  BY InvIs
<1>4. Hist(disk')
  <2>1. Hist(Written(saved))
    BY <1>2, <1>3, WrittenIs, OntoSamePlace, OntoHist
  <2> QED
    BY <1>2, <2>1, CopiesStep
<1>5. PlanHist(worker')
  <2>1. CASE worker' = NoWorker
    BY <2>1, NobodyIs DEF PlanHist
  <2>2. CASE worker'.plan = worker.plan /\ (worker'.phase # "none" => worker.phase # "none")
    BY <1>2, <2>2 DEF PlanHist
  <2>3. CASE StartSucceeds
    <3>1. worker'.plan = handler.copy /\ handler.at = "begin"
      BY <2>3 DEF StartSucceeds
    <3> QED
      BY <1>2, <3>1 DEF PlanHist, CopyHist
  <2>4. CASE Boundary
    BY <2>4, BoundaryIs DEF PlanHist
  <2> QED
    BY <2>1, <2>2, <2>3, <2>4, CopiesStep
<1>6. Hist(saved')
  <2>1. CASE NoHistory(saved')
    BY <2>1 DEF NoHistory, Hist
  <2>2. CASE Onto(saved, saved')
    BY <1>2, <2>2, OntoHist
  <2>3. CASE Progress
    <3>1. saved'.queue # <<>> /\ saved'.heard = worker.plan.heard \cup {At(saved')}
      BY <2>3, ProgressIs
    <3>2. worker.plan.heard \subseteq {At(saved')}
      BY <1>2, <2>3, ProgressIs DEF PlanHist, Progress, Attached
    <3> QED
      BY <3>1, <3>2 DEF Hist
  <2>4. CASE Restart
    <3>1. Onto(disk', saved')
      BY <2>4, RestartIs DEF Onto
    <3> QED
      BY <1>4, <3>1, OntoHist
  <2> QED
    BY <2>1, <2>2, <2>3, <2>4, HistoryStep
<1>7. CopyHist(handler')
  <2>1. CASE handler' = handler
    BY <1>2, <2>1 DEF CopyHist
  <2>2. CASE StartReads
    <3>1. handler'.copy = Plan(saved)
      BY <1>3, <2>2 DEF StartReads, Handlers
    <3>2. Plan(saved).heard = saved.heard /\ At(Plan(saved)) = At(saved)
      BY <1>3, PlanIs
    <3>3. saved.heard \subseteq {At(saved)}
      BY <1>2 DEF Hist, NoHistory
    <3> QED
      BY <3>1, <3>2, <3>3 DEF CopyHist
  <2> QED
    BY <2>1, <2>2, CopiesStep DEF CopyHist
<1> QED
  BY <1>4, <1>5, <1>6, <1>7

\* The seconds and the mark of a listening session belong to the current track,
\* unless the queue is cleared or a skip gives up on another track (run
\* skip_keeps_session): every other step that leaves a track begins a session.
THEOREM HistoryIsOfCurrentHolds ==
  Spec /\ [][~RemoveRace]_vars /\ [][~GivesUpElsewhere]_vars => []HistoryIsOfCurrent
<1>1. Init => HistInv
  BY NobodyIs, BeginningIs DEF Init, HistInv, Hist, PlanHist, CopyHist
<1>2. Inv /\ [Next]_vars /\ [~RemoveRace]_vars /\ [~GivesUpElsewhere]_vars /\ HistInv => HistInv'
  <2> SUFFICES ASSUME Inv, [Next]_vars, [~RemoveRace]_vars, [~GivesUpElsewhere]_vars, HistInv
               PROVE  HistInv'
    OBVIOUS
  <2>1. CASE ~GivesUpElsewhere /\ ~RemoveRace
    BY <2>1, HistNext
  <2>2. CASE UNCHANGED vars
    BY <2>2 DEF vars, HistInv, Hist, PlanHist, CopyHist, NoHistory
  <2> QED
    BY <2>1, <2>2
<1>3. HistInv => HistoryIsOfCurrent
  BY DEF HistInv, Hist, HistoryIsOfCurrent
<1> QED
  BY <1>1, <1>2, <1>3, InvHolds, PTL DEF Spec

-----------------------------------------------------------------------------
(* What a skip that gives up has seen.                                      *)

\* A claim about the records that the loop of skipFailed passes through holds
\* after each of its advances if it holds at first and every advance keeps it.
\* G[k] has the records for which the claim holds after k advances.
LEMMA SearchKeeps ==
  ASSUME NEW s, Len(s.queue) \in Nat, NEW bad, NEW G, s \in G[0],
         \A k \in 1..Len(s.queue) : \A u \in G[k - 1] : \A t \in Advance(u, TRUE) :
           u \in Searching(s, bad)[k - 1] /\ At(t) \in bad => t \in G[k]
  PROVE  \A k \in 0..Len(s.queue) : Searching(s, bad)[k] \subseteq G[k]
<1> DEFINE N == Len(s.queue)
           U == Searching(s, bad)
           Bad == {n \in 0..N : ~(U[n] \subseteq G[n])}
<1>1. \A k \in 0..N : U[k] = IF k = 0 THEN {s} ELSE FailedNext(U[k - 1], bad)
  BY SearchingIs
<1>2. N \in Nat /\ \A k \in 1..N : \A u \in G[k - 1] : \A t \in Advance(u, TRUE) :
                     u \in U[k - 1] /\ At(t) \in bad => t \in G[k]
  OBVIOUS
<1> HIDE DEF U, N
<1>3. Bad = {}
  <2> SUFFICES ASSUME Bad # {} PROVE FALSE
    OBVIOUS
  <2>0. Bad \in SUBSET Nat
    BY <1>2
  <2>1. PICK n \in Bad : \A l \in Bad : n <= l
    BY <2>0, LeastNumber, Zenon
  <2>2. n \in 0..N /\ ~(U[n] \subseteq G[n])
    BY <2>1
  <2>3. CASE n = 0
    BY <1>1, <2>2, <2>3
  <2>4. CASE n # 0
    <3>1. n - 1 \in 0..N /\ n \in 1..N /\ ~(n <= n - 1)
      BY <1>2, <2>2, <2>4
    <3>2. U[n - 1] \subseteq G[n - 1]
      BY <2>1, <3>1
    <3>3. U[n] = FailedNext(U[n - 1], bad)
      BY <1>1, <2>2, <2>4
    <3>4. ASSUME NEW t \in U[n] PROVE t \in G[n]
      <4>1. PICK u \in U[n - 1] : t \in Advance(u, TRUE) /\ At(t) \in bad
        BY <3>3 DEF FailedNext
      <4> QED
        BY <1>2, <3>1, <3>2, <4>1
    <3> QED
      BY <2>2, <3>4
  <2> QED
    BY <2>3, <2>4
<1> QED
  BY <1>3 DEF N, U

\* Under list repeat there is always a next track.
LEMMA NeverStuck ==
  ASSUME NEW s, Kept(s), s.queue # <<>>, s.repeat = "all"
  PROVE  Advance(s, TRUE) # {}
<1>1. CASE s.shuffle
  <2>1. NewRound(s) # {}
    BY DEF NewRound
  <2>2. AdvanceShuffle(s) # {}
    BY <2>1 DEF AdvanceShuffle
  <2> QED
    BY <1>1, <2>2 DEF Advance
<1>2. CASE ~s.shuffle
  BY <1>2 DEF Advance, AdvanceInOrder
<1> QED
  BY <1>1, <1>2

\* A failed track that an advance leads to is among the next.
LEMMA FailedNextHas ==
  ASSUME NEW S, NEW bad, NEW u \in S, NEW t \in Advance(u, TRUE), At(t) \in bad
  PROVE  t \in FailedNext(S, bad)
<1> DEFINE From(v) == {r \in Advance(v, TRUE) : At(r) \in bad}
<1>1. t \in From(u)
  OBVIOUS
<1>2. FailedNext(S, bad) = UNION {From(v) : v \in S}
  BY DEF FailedNext
<1> HIDE DEF From
<1> QED
  BY <1>1, <1>2

\* In order, the loop passes every place of the queue once.
LEMMA InOrderTries ==
  ASSUME NEW s, Sound(s), s.queue # <<>>, ~s.shuffle, NEW bad, At(s) \in bad,
         NEW w \in Searching(s, bad)[Len(s.queue)]
  PROVE  Distinct(s) \subseteq bad
<1> DEFINE N == Len(s.queue)
           U == Searching(s, bad)
           Wrap(k) == IF s.index + k < N THEN s.index + k ELSE s.index + k - N
           Seen(k) == \A j \in 0..k : s.queue[Wrap(j) + 1] \in bad
           G == [k \in 0..N |-> {t \in U[k] : t.index = Wrap(k) /\ Seen(k)}]
<1>1. N \in Nat \ {0} /\ s.index \in 0..(N - 1) /\ s.queue \in Seq(Tracks) /\ N \in 0..N
      /\ 0 \in 0..N /\ N = Len(s.queue)
  <2>1. N \in Nat /\ s.index \in 0..(N - 1) /\ s.queue \in Seq(Tracks)
    BY KeptIs DEF Sound
  <2> QED
    BY <2>1
<1>2. \A k \in 0..N : \A t \in U[k] : Sound(t) /\ Onward(s, t)
  BY SearchedIs
<1>3. \A k \in 0..N : U[k] = IF k = 0 THEN {s} ELSE FailedNext(U[k - 1], bad)
  BY <1>1, SearchingIs
<1>4. \A k \in 0..N : \A t : t \in G[k] <=> t \in U[k] /\ t.index = Wrap(k) /\ Seen(k)
  OBVIOUS
<1>5. \A k \in Nat : Wrap(k) = IF s.index + k < N THEN s.index + k ELSE s.index + k - N
  OBVIOUS
<1>6. \A k \in Nat : Seen(k) <=> \A j \in 0..k : s.queue[Wrap(j) + 1] \in bad
  OBVIOUS
<1>7. w \in U[N] /\ At(s) \in bad
  OBVIOUS
<1> HIDE DEF Seen, Wrap, U, N
<1>8. s \in G[0]
  <2>1. s \in U[0]
    BY <1>1, <1>3
  <2>2. Wrap(0) = s.index
    BY <1>1, <1>5
  <2>3. s.queue[Wrap(0) + 1] \in bad
    BY <2>2 DEF At
  <2>4. Seen(0)
    <3>1. \A j \in 0..0 : j = 0
      OBVIOUS
    <3> QED
      BY <2>3, <3>1, <1>6
  <2> QED
    BY <1>1, <1>4, <2>1, <2>2, <2>4
<1>9. ASSUME NEW k \in 1..N, NEW u \in G[k - 1], NEW t \in Advance(u, TRUE),
             u \in U[k - 1], At(t) \in bad
      PROVE  t \in G[k]
  <2>1. k - 1 \in 0..N /\ k \in 0..N /\ k - 1 \in Nat /\ k \in Nat /\ k # 0
    BY <1>1
  <2>2. Sound(u) /\ Onward(s, u) /\ u.index = Wrap(k - 1) /\ Seen(k - 1)
    BY <1>2, <1>4, <1>9, <2>1
  <2>3. Sound(t) /\ Onward(u, t)
    BY <2>2, AdvanceIs
  <2>4. u.queue = s.queue /\ t.queue = s.queue /\ ~u.shuffle /\ Kept(u)
    BY <2>2, <2>3 DEF Onward, SameModes, Sound
  <2>5. t \in AdvanceInOrder(u)
    BY <2>4 DEF Advance
  <2>6. t.index = IF u.index + 1 < N THEN u.index + 1 ELSE 0
    <3>1. CASE u.index + 1 < N
      <4>1. t = Mark([u EXCEPT !.index = u.index + 1])
        BY <1>1, <2>4, <2>5, <3>1 DEF AdvanceInOrder
      <4>2. u.index + 1 \in 0..(Len(u.queue) - 1)
        BY <1>1, <2>4, <3>1, KeptIs
      <4> QED
        BY <2>4, <3>1, <4>1, <4>2, GoneTo
    <3>2. CASE ~(u.index + 1 < N)
      <4>1. t = ResetRound([u EXCEPT !.index = 0])
        BY <1>1, <2>4, <2>5, <3>2 DEF AdvanceInOrder
      <4>2. 0 \in 0..(Len(u.queue) - 1)
        BY <1>1, <2>4
      <4> QED
        BY <2>4, <3>2, <4>1, <4>2, GoneTo
    <3> QED
      BY <3>1, <3>2
  <2>7. t.index = Wrap(k)
    <3>1. Wrap(k - 1) = (IF s.index + (k - 1) < N THEN s.index + (k - 1)
                                                 ELSE s.index + (k - 1) - N)
      BY <1>5, <2>1
    <3>2. Wrap(k) = IF s.index + k < N THEN s.index + k ELSE s.index + k - N
      BY <1>5, <2>1
    <3>3. k \in 1..N /\ s.index \in 0..(N - 1) /\ N \in Nat
      BY <1>1
    <3>4. u.index = Wrap(k - 1)
      BY <2>2
    <3> QED
      BY <2>6, <3>1, <3>2, <3>3, <3>4
  <2>8. s.queue[Wrap(k) + 1] \in bad
    BY <1>9, <2>4, <2>7 DEF At
  <2>9. Seen(k)
    <3>1. \A j \in 0..k : j \in 0..(k - 1) \/ j = k
      BY <2>1
    <3>2. \A j \in 0..(k - 1) : s.queue[Wrap(j) + 1] \in bad
      BY <1>6, <2>1, <2>2
    <3>3. \A j \in 0..k : s.queue[Wrap(j) + 1] \in bad
      BY <2>8, <3>1, <3>2
    <3> QED
      BY <1>6, <2>1, <3>3
  <2>10. t \in U[k]
    <3> HIDE DEF G
    <3>1. U[k] = FailedNext(U[k - 1], bad)
      BY <1>3, <2>1
    <3>2. u \in U[k - 1] /\ t \in Advance(u, TRUE) /\ At(t) \in bad
      BY <1>9
    <3>3. t \in FailedNext(U[k - 1], bad)
      BY <3>2, FailedNextHas
    <3> QED
      BY <3>1, <3>3
  <2> QED
    BY <1>4, <2>1, <2>7, <2>9, <2>10
<1>10. w \in G[N]
  <2> HIDE DEF G
  <2>1. \A k \in 0..N : U[k] \subseteq G[k]
    BY <1>1, <1>8, <1>9, SearchKeeps DEF N, U
  <2> QED
    BY <1>1, <1>7, <2>1
<1>11. \A j \in 0..N : s.queue[Wrap(j) + 1] \in bad
  BY <1>1, <1>4, <1>6, <1>10
<1>12. ASSUME NEW i \in 1..N PROVE s.queue[i] \in bad
  <2> DEFINE j == IF s.index < i THEN i - 1 - s.index ELSE i - 1 - s.index + N
  <2>1. j \in 0..N /\ j \in Nat
    BY <1>1
  <2>2. Wrap(j) = IF s.index + j < N THEN s.index + j ELSE s.index + j - N
    BY <1>5, <2>1
  <2>3. Wrap(j) + 1 = i
    <3>0. i \in 1..N /\ N \in Nat /\ s.index \in 0..(N - 1)
      BY <1>1
    <3>1. CASE s.index < i
      <4>1. j = i - 1 - s.index
        BY <3>1
      <4> HIDE DEF j
      <4> QED
        BY <2>2, <3>0, <4>1
    <3>2. CASE ~(s.index < i)
      <4>1. j = i - 1 - s.index + N
        BY <3>2
      <4> HIDE DEF j
      <4> QED
        BY <2>2, <3>0, <3>2, <4>1
    <3> QED
      BY <3>1, <3>2
  <2> HIDE DEF j
  <2> QED
    BY <1>11, <2>1, <2>3
<1> QED
  BY <1>1, <1>12 DEF Distinct, ToSet

\* What shuffle has visited and what has failed: either everything that failed
\* was visited, or nothing else was. The first holds while the round is the one
\* in which the failures began, the second since a skip went into the next.
Round(s, f) == f \cup {At(s)} \subseteq s.visited \/ s.visited \subseteq f \cup {At(s)}

LEMMA RoundMoves ==
  ASSUME NEW s, Kept(s), s.queue # <<>>, s.shuffle, NEW f, At(s) \in f, Round(s, f),
         NEW t \in Advance(s, TRUE)
  PROVE  Round(t, f)
<1>1. t \in AdvanceShuffle(s)
  BY DEF Advance
<1>2. CASE t.visited = s.visited \cup {At(t)}
  BY <1>2 DEF Round
<1>3. CASE t.visited = {At(t)}
  BY <1>3 DEF Round
<1> QED
  BY <1>1, <1>2, <1>3, ShuffledIs

LEMMA SearchRound ==
  ASSUME NEW s, Sound(s), s.queue # <<>>, s.shuffle, NEW f, At(s) \in f, Round(s, f)
  PROVE  \A k \in 0..Len(s.queue) : \A t \in Searching(s, f)[k] : At(t) \in f /\ Round(t, f)
<1> DEFINE N == Len(s.queue)
           U == Searching(s, f)
           G == [k \in 0..N |-> {t \in U[k] : At(t) \in f /\ Round(t, f)}]
<1>1. N \in Nat /\ 0 \in 0..N /\ N = Len(s.queue)
  <2>1. N \in Nat
    BY KeptIs DEF Sound
  <2> QED
    BY <2>1
<1>2. \A k \in 0..N : \A t \in U[k] : Sound(t) /\ Onward(s, t)
  BY SearchedIs
<1>3. \A k \in 0..N : U[k] = IF k = 0 THEN {s} ELSE FailedNext(U[k - 1], f)
  BY <1>1, SearchingIs
<1>4. \A k \in 0..N : \A t : t \in G[k] <=> t \in U[k] /\ At(t) \in f /\ Round(t, f)
  OBVIOUS
<1> HIDE DEF U, N
<1>5. s \in G[0]
  BY <1>1, <1>3, <1>4
<1>6. ASSUME NEW k \in 1..N, NEW u \in G[k - 1], NEW t \in Advance(u, TRUE),
             u \in U[k - 1], At(t) \in f
      PROVE  t \in G[k]
  <2>1. k - 1 \in 0..N /\ k \in 0..N /\ k # 0
    BY <1>1
  <2>2. Sound(u) /\ Onward(s, u) /\ At(u) \in f /\ Round(u, f)
    BY <1>2, <1>4, <1>6, <2>1
  <2>3. Kept(u) /\ u.queue # <<>> /\ u.shuffle
    BY <2>2 DEF Sound, Onward, SameModes
  <2>4. Round(t, f)
    BY <2>2, <2>3, RoundMoves
  <2>5. t \in U[k]
    <3> HIDE DEF G
    <3>1. U[k] = FailedNext(U[k - 1], f)
      BY <1>3, <2>1
    <3>2. u \in U[k - 1] /\ t \in Advance(u, TRUE) /\ At(t) \in f
      BY <1>6
    <3>3. t \in FailedNext(U[k - 1], f)
      BY <3>2, FailedNextHas
    <3> QED
      BY <3>1, <3>3
  <2> QED
    BY <1>4, <1>6, <2>1, <2>4, <2>5
<1>7. \A k \in 0..N : U[k] \subseteq G[k]
  <2> HIDE DEF G
  <2> QED
    BY <1>1, <1>5, <1>6, SearchKeeps DEF N, U
<1> QED
  BY <1>4, <1>7 DEF N, U

\* A queue has no more tracks than places.
LEMMA DistinctFinite ==
  ASSUME NEW s, s.queue \in Seq(Tracks)
  PROVE  IsFiniteSet(Distinct(s)) /\ Cardinality(Distinct(s)) <= Len(s.queue)
<1> DEFINE q == s.queue
           D == {q[i] : i \in 1..Len(q)}
           f == [i \in 1..Len(q) |-> q[i]]
<1>1. Distinct(s) = D /\ Len(q) \in Nat
  BY DEF Distinct, ToSet
<1>2. IsFiniteSet(1..Len(q)) /\ Cardinality(1..Len(q)) = Len(q)
  <2>1. Len(q) = Len(q) - 1 + 1
    BY <1>1
  <2> QED
    BY <1>1, <2>1, FS_Interval
<1>3. f \in Surjection(1..Len(q), D)
  BY DEF Surjection
<1> HIDE DEF q, D, f
<1>4. IsFiniteSet(D) /\ Cardinality(D) <= Cardinality(1..Len(q))
  BY <1>2, <1>3, FS_Surjection
<1> QED
  BY <1>1, <1>2, <1>4 DEF q

\* Shuffled, the loop sees every track: a track that has not failed is still to
\* be visited in the round, and each advance visits another one.
LEMMA ShuffledTries ==
  ASSUME NEW s, Sound(s), s.queue # <<>>, s.shuffle, NEW bad, At(s) \in bad, Round(s, bad),
         NEW w \in Searching(s, bad)[Len(s.queue)]
  PROVE  Distinct(s) \subseteq bad
<1> SUFFICES ASSUME NEW x \in Distinct(s), x \notin bad PROVE FALSE
  OBVIOUS
<1> DEFINE N == Len(s.queue)
           U == Searching(s, bad)
           D == Distinct(s)
           Count(t) == Cardinality(t.visited \cap D)
           Far(t, k) == k # 0 => t.visited \subseteq bad /\ k <= Count(t)
           G == [k \in 0..N |-> {t \in U[k] : Far(t, k)}]
<1>1. N \in Nat \ {0} /\ N \in 0..N /\ 0 \in 0..N /\ s.queue \in Seq(Tracks)
      /\ N = Len(s.queue) /\ D = Distinct(s) /\ x \in D /\ x \notin bad /\ w \in U[N]
  <2>1. N \in Nat /\ N # 0 /\ s.queue \in Seq(Tracks)
    BY KeptIs DEF Sound
  <2> QED
    BY <2>1
<1>2. IsFiniteSet(D) /\ Cardinality(D) \in Nat /\ Cardinality(D) <= N
  BY <1>1, DistinctFinite, FS_CardinalityType
<1>3. ASSUME NEW V
      PROVE  /\ IsFiniteSet(V \cap D) /\ Cardinality(V \cap D) \in Nat
             /\ Cardinality(V \cap D) <= Cardinality(D)
             /\ Cardinality(V \cap D) = Cardinality(D) => D \subseteq V
  <2>1. V \cap D \in SUBSET D
    OBVIOUS
  <2>2. /\ IsFiniteSet(V \cap D) /\ Cardinality(V \cap D) <= Cardinality(D)
        /\ Cardinality(V \cap D) = Cardinality(D) => V \cap D = D
    BY <1>2, <2>1, FS_Subset
  <2> QED
    BY <2>2, FS_CardinalityType
<1>4. \A k \in 0..N : \A t \in U[k] :
        Sound(t) /\ Onward(s, t) /\ At(t) \in bad /\ Round(t, bad)
  BY SearchedIs, SearchRound
<1>5. \A k \in 0..N : U[k] = IF k = 0 THEN {s} ELSE FailedNext(U[k - 1], bad)
  BY <1>1, SearchingIs
<1>6. \A k \in 0..N : \A t : t \in G[k] <=> t \in U[k] /\ Far(t, k)
  OBVIOUS
<1> HIDE DEF U, N, D
<1>7. s \in G[0]
  BY <1>1, <1>5, <1>6
<1>8. ASSUME NEW k \in 1..N, NEW u \in G[k - 1], NEW t \in Advance(u, TRUE),
             u \in U[k - 1], At(t) \in bad
      PROVE  t \in G[k]
  <2>1. k - 1 \in 0..N /\ k \in 0..N /\ k # 0 /\ k \in Nat
    BY <1>1
  <2>2. Sound(u) /\ Onward(s, u) /\ At(u) \in bad /\ Round(u, bad) /\ Far(u, k - 1)
    BY <1>4, <1>6, <1>8, <2>1
  <2>3. Kept(u) /\ u.queue # <<>> /\ u.shuffle /\ Distinct(u) = D
    BY <2>2, <1>1 DEF Sound, Onward, SameModes, Distinct
  <2>4. t \in AdvanceShuffle(u)
    BY <2>3 DEF Advance
  <2>5. /\ At(t) \in D
        /\ \/ At(t) \notin u.visited /\ t.visited = u.visited \cup {At(t)}
           \/ D \subseteq u.visited /\ t.visited = {At(t)}
    BY <2>3, <2>4, ShuffledIs
  <2>6. t \in U[k]
    <3> HIDE DEF G
    <3>1. U[k] = FailedNext(U[k - 1], bad)
      BY <1>5, <2>1
    <3>2. u \in U[k - 1] /\ t \in Advance(u, TRUE) /\ At(t) \in bad
      BY <1>8
    <3>3. t \in FailedNext(U[k - 1], bad)
      BY <3>2, FailedNextHas
    <3> QED
      BY <3>1, <3>3
  <2>7. CASE At(t) \notin u.visited /\ t.visited = u.visited \cup {At(t)}
    <3>1. u.visited \subseteq bad
      BY <1>8, <2>2, <2>7 DEF Round
    <3>2. t.visited \subseteq bad
      BY <1>8, <2>7, <3>1
    <3>3. t.visited \cap D = (u.visited \cap D) \cup {At(t)} /\ At(t) \notin u.visited \cap D
      BY <2>5, <2>7
    <3>4. Count(t) = Count(u) + 1
      BY <1>3, <3>3, FS_AddElement
    <3>5. Count(u) \in Nat /\ (k - 1 # 0 => k - 1 <= Count(u))
      BY <1>3, <2>2
    <3>6. k <= Count(t)
      <4> HIDE DEF Count
      <4> QED
        BY <2>1, <3>4, <3>5
    <3> QED
      BY <1>6, <2>1, <2>6, <3>2, <3>6
  <2>8. CASE D \subseteq u.visited /\ t.visited = {At(t)}
    <3>1. k - 1 = 0
      BY <1>1, <2>2, <2>8
    <3>2. t.visited \cap D = {At(t)}
      BY <2>5, <2>8
    <3>3. Count(t) = 1
      BY <3>2, FS_Singleton
    <3>4. t.visited \subseteq bad
      BY <1>8, <2>8
    <3>5. k <= Count(t)
      <4> HIDE DEF Count
      <4> QED
        BY <2>1, <3>1, <3>3
    <3> QED
      BY <1>6, <2>1, <2>6, <3>4, <3>5
  <2> QED
    BY <2>5, <2>7, <2>8
<1>9. w \in G[N]
  <2> HIDE DEF G
  <2>1. \A k \in 0..N : U[k] \subseteq G[k]
    BY <1>1, <1>7, <1>8, SearchKeeps DEF N, U
  <2> QED
    BY <1>1, <2>1
<1>10. w.visited \subseteq bad /\ N <= Cardinality(w.visited \cap D)
  BY <1>1, <1>6, <1>9
<1>11. Cardinality(w.visited \cap D) = Cardinality(D)
  <2>1. Cardinality(w.visited \cap D) \in Nat /\ Cardinality(w.visited \cap D) <= Cardinality(D)
    BY <1>3
  <2> HIDE DEF G, Far, Count
  <2> QED
    BY <1>1, <1>2, <1>10, <2>1
<1>12. D \subseteq w.visited
  BY <1>3, <1>11
<1> QED
  BY <1>1, <1>10, <1>12

\* The failure that a skip begins with changes nothing: the current track is on
\* both sides.
LEMMA FailedRound ==
  ASSUME Inv, saved.shuffle => FailedThisRound, MaySkip
  PROVE  /\ Sound(saved) /\ saved.queue # <<>> /\ At(saved) \in FailedNow
         /\ saved.shuffle => Round(saved, FailedNow)
<1>1. Sound(saved) /\ saved.queue # <<>>
  BY InvIs, KeptIs DEF MaySkip, InRange, Sound
<1> QED
  BY <1>1 DEF FailedThisRound, Round, FailedNow

\* Where the loop ends in vain.
LEMMA ExhaustedAt ==
  ASSUME NEW s, Len(s.queue) \in Nat, NEW bad, NEW t \in SkipExhausts(s, bad)
  PROVE  \E k \in 0..Len(s.queue) :
           t \in Searching(s, bad)[k] /\ (k = Len(s.queue) \/ Advance(t, TRUE) = {})
<1>1. CASE t \in Searching(s, bad)[Len(s.queue)]
  <2>1. Len(s.queue) \in 0..Len(s.queue)
    OBVIOUS
  <2> QED
    BY <1>1, <2>1
<1>2. CASE t \notin Searching(s, bad)[Len(s.queue)]
  <2>1. t \in UNION {{u \in Searching(s, bad)[k] : Advance(u, TRUE) = {}} :
                       k \in 0..(Len(s.queue) - 1)}
    BY <1>2 DEF SkipExhausts, SkipTries
  <2>2. PICK k \in 0..(Len(s.queue) - 1) :
          t \in Searching(s, bad)[k] /\ Advance(t, TRUE) = {}
    BY <2>1
  <2>3. k \in 0..Len(s.queue)
    OBVIOUS
  <2> QED
    BY <2>2, <2>3
<1> QED
  BY <1>1, <1>2

\* A loop that gives up under list repeat has gone all the way, and seen every
\* track fail.
LEMMA GivenUp ==
  ASSUME Inv, saved.shuffle => FailedThisRound, SkipGivesUp, saved.repeat = "all"
  PROVE  Distinct(saved) \subseteq failed'
<1> DEFINE f == FailedNow
           N == Len(saved.queue)
<1>1. MaySkip /\ failed' = f /\ saved' \in SkipExhausts(saved, f)
  BY DEF SkipGivesUp
<1>2. /\ Sound(saved) /\ saved.queue # <<>> /\ At(saved) \in f /\ N \in Nat
      /\ saved.shuffle => Round(saved, f)
  BY <1>1, FailedRound, KeptIs DEF Sound
<1> HIDE DEF f
<1>3. PICK k \in 0..N :
        saved' \in Searching(saved, f)[k] /\ (k = N \/ Advance(saved', TRUE) = {})
  BY <1>1, <1>2, ExhaustedAt
<1>4. Sound(saved') /\ Onward(saved, saved')
  BY <1>2, <1>3, SearchedIs
<1>5. Kept(saved') /\ saved'.queue # <<>> /\ saved'.repeat = "all"
  BY <1>2, <1>4 DEF Sound, Onward, SameModes
<1>6. Advance(saved', TRUE) # {}
  BY <1>5, NeverStuck
<1>7. saved' \in Searching(saved, f)[N]
  BY <1>3, <1>6
<1>8. CASE saved.shuffle
  BY <1>1, <1>2, <1>7, <1>8, ShuffledTries
<1>9. CASE ~saved.shuffle
  BY <1>1, <1>2, <1>7, <1>9, InOrderTries
<1> QED
  BY <1>8, <1>9

\* A skip that gives up under list repeat has seen every track of the queue
\* fail, in order always, and with shuffle if what failed before is of this round
\* (skipFailed tries once per place of the queue, and with shuffle its tries may
\* reach into the next round).
THEOREM SkipTriesAllHolds ==
  Spec /\ [][~RemoveRace]_vars => SkipTriesAll
<1> DEFINE Kind == (StartFails \/ TrackError) /\ SkipGivesUp /\ saved.repeat = "all"
                   /\ (saved.shuffle => FailedThisRound)
           Good == Distinct(saved) \subseteq failed'
<1>1. Inv => [Kind => Good]_vars
  BY GivenUp
<1>2. Spec /\ [][~RemoveRace]_vars => [][Kind => Good]_vars
  BY <1>1, InvHolds, PTL
<1> QED
  BY <1>2 DEF SkipTriesAll

=============================================================================
