------------------------- MODULE ShuffleRoundProofs -------------------------
(***************************************************************************)
(* Proofs about ShuffleRound, for queues of any length with any duplicates *)
(* and every sequence of edits. The invariant is that the record the code  *)
(* keeps is the listener's: visited is what was heard in this round.       *)
(***************************************************************************)
EXTENDS ShuffleRound, TLAPS, FiniteSetTheorems, SequenceTheorems, WellFoundedInduction

-----------------------------------------------------------------------------
(* Sequences and their edits.                                              *)

LEMMA BoundedIsSeq ==
  ASSUME NEW S, NEW n \in Nat, NEW s
  PROVE  s \in BoundedSeq(S, n) <=> s \in Seq(S) /\ Len(s) <= n
<1>1. ASSUME s \in BoundedSeq(S, n) PROVE s \in Seq(S) /\ Len(s) <= n
  <2>1. PICK m \in 0..n : s \in [1..m -> S]
    BY <1>1 DEF BoundedSeq, SeqOf
  <2>2. s \in Seq(S) /\ Len(s) = m
    BY <2>1
  <2> QED
    BY <2>1, <2>2
<1>2. ASSUME s \in Seq(S), Len(s) <= n PROVE s \in BoundedSeq(S, n)
  <2>1. Len(s) \in 0..n /\ s \in [1..Len(s) -> S]
    BY <1>2
  <2> QED
    BY <2>1 DEF BoundedSeq, SeqOf
<1> QED
  BY <1>1, <1>2

LEMMA RemoveAtIs ==
  ASSUME NEW S, NEW s \in Seq(S), NEW i \in 1..Len(s)
  PROVE  /\ RemoveAt(s, i) \in Seq(S)
         /\ Len(RemoveAt(s, i)) = Len(s) - 1
         /\ \A j \in 1..(Len(s) - 1) :
              RemoveAt(s, i)[j] = IF j < i THEN s[j] ELSE s[j + 1]
<1> DEFINE a == SubSeq(s, 1, i - 1)
           b == SubSeq(s, i + 1, Len(s))
<1>1. a \in Seq(S) /\ Len(a) = i - 1 /\ \A j \in 1..(i - 1) : a[j] = s[j]
  OBVIOUS
<1>2. b \in Seq(S) /\ Len(b) = Len(s) - i /\ \A j \in 1..(Len(s) - i) : b[j] = s[i + j]
  OBVIOUS
<1>3. RemoveAt(s, i) = a \o b
  BY DEF RemoveAt
<1> HIDE DEF a, b
<1>4. /\ a \o b \in Seq(S) /\ Len(a \o b) = Len(a) + Len(b)
      /\ \A j \in 1..(Len(a) + Len(b)) :
           (a \o b)[j] = IF j <= Len(a) THEN a[j] ELSE b[j - Len(a)]
  BY <1>1, <1>2, ConcatProperties
<1>5. Len(a) + Len(b) = Len(s) - 1 /\ Len(s) \in Nat
  BY <1>1, <1>2
<1>6. ASSUME NEW j \in 1..(Len(s) - 1)
      PROVE  (a \o b)[j] = IF j < i THEN s[j] ELSE s[j + 1]
  <2>1. CASE j < i
    <3>1. j \in 1..(i - 1) /\ j <= Len(a)
      BY <1>1, <1>5, <2>1
    <3> QED
      BY <1>1, <1>4, <1>5, <2>1, <3>1
  <2>2. CASE ~(j < i)
    <3>1. ~(j <= Len(a)) /\ j - Len(a) \in 1..(Len(s) - i) /\ i + (j - Len(a)) = j + 1
      BY <1>1, <1>5, <2>2
    <3>2. b[j - Len(a)] = s[j + 1]
      BY <1>2, <3>1
    <3>3. (a \o b)[j] = b[j - Len(a)]
      BY <1>4, <1>5, <3>1
    <3> QED
      BY <2>2, <3>2, <3>3
  <2> QED
    BY <2>1, <2>2
<1> QED
  BY <1>3, <1>4, <1>5, <1>6

LEMMA InsertAtIs ==
  ASSUME NEW S, NEW s \in Seq(S), NEW i \in 1..(Len(s) + 1), NEW e \in S
  PROVE  /\ InsertAt(s, i, e) \in Seq(S)
         /\ Len(InsertAt(s, i, e)) = Len(s) + 1
         /\ \A j \in 1..(Len(s) + 1) :
              InsertAt(s, i, e)[j] = IF j < i THEN s[j] ELSE IF j = i THEN e ELSE s[j - 1]
<1> DEFINE a == SubSeq(s, 1, i - 1)
           b == SubSeq(s, i, Len(s))
<1>1. a \in Seq(S) /\ Len(a) = i - 1 /\ \A j \in 1..(i - 1) : a[j] = s[j]
  OBVIOUS
<1>2. b \in Seq(S) /\ Len(b) = Len(s) - i + 1 /\ \A j \in 1..(Len(s) - i + 1) : b[j] = s[i + j - 1]
  OBVIOUS
<1>3. InsertAt(s, i, e) = (a \o <<e>>) \o b
  BY DEF InsertAt
<1> DEFINE c == a \o <<e>>
<1>4. c \in Seq(S) /\ Len(c) = i /\ c[i] = e /\ \A j \in 1..(i - 1) : c[j] = s[j]
  BY <1>1
<1> HIDE DEF a, b, c
<1>5. InsertAt(s, i, e) = c \o b
  BY <1>3 DEF c
<1>6. /\ c \o b \in Seq(S) /\ Len(c \o b) = Len(c) + Len(b)
      /\ \A j \in 1..(Len(c) + Len(b)) :
           (c \o b)[j] = IF j <= Len(c) THEN c[j] ELSE b[j - Len(c)]
  BY <1>2, <1>4, ConcatProperties
<1>7. Len(c) + Len(b) = Len(s) + 1 /\ Len(s) \in Nat
  BY <1>2, <1>4
<1>8. ASSUME NEW j \in 1..(Len(s) + 1)
      PROVE  (c \o b)[j] = IF j < i THEN s[j] ELSE IF j = i THEN e ELSE s[j - 1]
  <2>1. CASE j <= i
    <3>1. (c \o b)[j] = c[j] /\ (j = i \/ j \in 1..(i - 1))
      BY <1>4, <1>6, <1>7, <2>1
    <3> QED
      BY <1>4, <1>7, <2>1, <3>1
  <2>2. CASE ~(j <= i)
    <3>1. j - i \in 1..(Len(s) - i + 1) /\ i + (j - i) - 1 = j - 1
      BY <1>7, <2>2
    <3>2. b[j - i] = s[j - 1]
      BY <1>2, <3>1
    <3>3. (c \o b)[j] = b[j - i]
      BY <1>4, <1>6, <1>7, <2>2
    <3>4. ~(j < i) /\ j # i
      BY <1>7, <2>2
    <3> QED
      BY <3>2, <3>3, <3>4
  <2> QED
    BY <2>1, <2>2
<1> QED
  BY <1>5, <1>6, <1>7, <1>8

\* A track goes in behind the first p of a queue.
Spliced(s, p, e) == SubSeq(s, 1, p) \o <<e>> \o SubSeq(s, p + 1, Len(s))

LEMMA SplicedIs ==
  ASSUME NEW S, NEW s \in Seq(S), NEW p \in 0..Len(s), NEW e \in S
  PROVE  /\ Spliced(s, p, e) \in Seq(S)
         /\ Len(Spliced(s, p, e)) = Len(s) + 1
         /\ \A j \in 1..(Len(s) + 1) :
              Spliced(s, p, e)[j] = IF j <= p THEN s[j] ELSE IF j = p + 1 THEN e ELSE s[j - 1]
<1> DEFINE r == InsertAt(s, p + 1, e)
<1>1. (p + 1) - 1 = p
  OBVIOUS
<1>2. Spliced(s, p, e) = r
  BY <1>1, Zenon DEF InsertAt, Spliced
<1>3. p + 1 \in 1..(Len(s) + 1)
  OBVIOUS
<1>4. /\ r \in Seq(S) /\ Len(r) = Len(s) + 1
      /\ \A j \in 1..(Len(s) + 1) :
           r[j] = IF j < p + 1 THEN s[j] ELSE IF j = p + 1 THEN e ELSE s[j - 1]
  BY <1>3, InsertAtIs
<1> HIDE DEF r
<1>5. \A j \in 1..(Len(s) + 1) : (j < p + 1) <=> (j <= p)
  OBVIOUS
<1> QED
  BY <1>2, <1>4, <1>5

\* A set of natural numbers that is not empty has a least element.
LEMMA LeastNumber ==
  ASSUME NEW S \in SUBSET Nat, S # {}
  PROVE  \E n \in S : \A m \in S : n <= m
<1>1. PICK n \in S : \A m \in S : <<m, n>> \notin OpToRel(<, Nat)
  BY NatLessThanWellFounded, WFMin
<1>2. \A m \in S : m \in Nat /\ n \in Nat /\ ~(m < n)
  BY <1>1 DEF OpToRel
<1> QED
  BY <1>2

-----------------------------------------------------------------------------
(* Moving on.                                                              *)

\* What is not in "seen" has a first position, and none is left if and only if
\* everything was seen.
LEMMA FirstUnseenIs ==
  ASSUME NEW S, NEW s, s.queue \in Seq(S), NEW seen
  PROVE  /\ \A i \in FirstUnseen(s, seen) :
              i \in 0..(Len(s.queue) - 1) /\ s.queue[i + 1] \notin seen
         /\ FirstUnseen(s, seen) = {} <=> ToSet(s.queue) \subseteq seen
<1> DEFINE q == s.queue
<1>1. FirstUnseen(s, seen) = {i \in 0..(Len(q) - 1) : q[i + 1] \notin seen
                                /\ \A j \in 1..i : q[j] # q[i + 1]}
  BY DEF FirstUnseen
<1>2. ToSet(q) = {q[i] : i \in 1..Len(q)} /\ Len(q) \in Nat
  BY DEF ToSet
<1> HIDE DEF q
<1>3. \A i \in FirstUnseen(s, seen) : i \in 0..(Len(q) - 1) /\ q[i + 1] \notin seen
  BY <1>1
<1>4. ASSUME ToSet(q) \subseteq seen PROVE FirstUnseen(s, seen) = {}
  <2>1. \A i \in 0..(Len(q) - 1) : i + 1 \in 1..Len(q)
    BY <1>2
  <2> QED
    BY <1>2, <1>3, <1>4, <2>1
<1>5. ASSUME ~(ToSet(q) \subseteq seen) PROVE FirstUnseen(s, seen) # {}
  <2> DEFINE At1 == {n \in 1..Len(q) : q[n] \notin seen}
  <2>1. At1 \in SUBSET Nat /\ At1 # {}
    BY <1>2, <1>5
  <2>2. PICK n \in At1 : \A m \in At1 : n <= m
    BY <2>1, LeastNumber, Zenon
  <2>3. n \in 1..Len(q) /\ q[n] \notin seen
    BY <2>2
  <2>4. n - 1 \in 0..(Len(q) - 1) /\ (n - 1) + 1 = n
    BY <1>2, <2>3
  <2>5. ASSUME NEW j \in 1..(n - 1) PROVE q[j] # q[n]
    <3>1. j \in 1..Len(q) /\ ~(n <= j)
      BY <1>2, <2>3
    <3> QED
      BY <2>2, <2>3, <3>1
  <2>6. n - 1 \in FirstUnseen(s, seen)
    BY <1>1, <2>3, <2>4, <2>5
  <2> QED
    BY <2>6
<1> QED
  BY <1>3, <1>4, <1>5 DEF q

\* A record of the saved state, field by field.
Rec(queue, index, visited, repeat, shuffle) ==
  [queue |-> queue, index |-> index, visited |-> visited, repeat |-> repeat,
   shuffle |-> shuffle]

LEMMA SavedIs ==
  ASSUME NEW s
  PROVE  s \in Saved <=> /\ s = Rec(s.queue, s.index, s.visited, s.repeat, s.shuffle)
                         /\ s.queue \in Seq(Tracks) /\ Len(s.queue) <= MaxQueue
                         /\ s.index \in Nat /\ s.visited \in SUBSET Tracks
                         /\ s.repeat \in RepeatModes /\ s.shuffle \in {TRUE}
<1>1. s \in Saved <=> /\ s = Rec(s.queue, s.index, s.visited, s.repeat, s.shuffle)
                      /\ s.queue \in BoundedSeq(Tracks, MaxQueue)
                      /\ s.index \in Nat /\ s.visited \in SUBSET Tracks
                      /\ s.repeat \in RepeatModes /\ s.shuffle \in {TRUE}
  BY DEF Saved, Rec
<1> QED
  BY <1>1, BoundedIsSeq, ShuffleAssumption

\* The parts of such a record, and its changes.
LEMMA RecIs ==
  ASSUME NEW q, NEW i, NEW v, NEW r, NEW h
  PROVE  /\ Rec(q, i, v, r, h).queue = q /\ Rec(q, i, v, r, h).index = i
         /\ Rec(q, i, v, r, h).visited = v /\ Rec(q, i, v, r, h).repeat = r
         /\ Rec(q, i, v, r, h).shuffle = h
         /\ At(Rec(q, i, v, r, h)) = q[i + 1]
  BY DEF Rec, At

LEMMA RecIndexed ==
  ASSUME NEW s, NEW q, NEW i, NEW v, NEW r, NEW h, s = Rec(q, i, v, r, h), NEW x
  PROVE  [s EXCEPT !.index = x] = Rec(q, x, v, r, h)
  BY DEF Rec

\* What an edit of the queue leaves.
Edited(s, queue, index) == [s EXCEPT !.queue = queue, !.index = index]

LEMMA RecEdited ==
  ASSUME NEW s, NEW q, NEW i, NEW v, NEW r, NEW h, s = Rec(q, i, v, r, h), NEW x, NEW y
  PROVE  Edited(s, x, y) = Rec(x, y, v, r, h)
<1>1. Edited(s, x, y) = [[s EXCEPT !.queue = x] EXCEPT !.index = y]
  BY DEF Edited
<1>2. [s EXCEPT !.queue = x] = Rec(x, i, v, r, h)
  BY DEF Rec
<1>3. [Rec(x, i, v, r, h) EXCEPT !.index = y] = Rec(x, y, v, r, h)
  BY DEF Rec
<1> QED
  BY <1>1, <1>2, <1>3, Zenon

\* A place in a queue.
Placed(s) == s \in Saved /\ s.queue # <<>> /\ InRange(s)

LEMMA PlacedIs ==
  ASSUME NEW s, Placed(s)
  PROVE  /\ s.queue \in Seq(Tracks) /\ Len(s.queue) \in Nat \ {0}
         /\ s.index \in 0..(Len(s.queue) - 1)
         /\ At(s) \in Tracks /\ At(s) \in ToSet(s.queue)
<1>1. s.queue \in Seq(Tracks) /\ s.queue # <<>> /\ s.index \in 0..(Len(s.queue) - 1)
  BY SavedIs DEF Placed, InRange
<1>2. s.index + 1 \in 1..Len(s.queue) /\ Len(s.queue) \in Nat \ {0}
  BY <1>1
<1> QED
  BY <1>1, <1>2 DEF At, ToSet

LEMMA MarkIs ==
  ASSUME NEW s, Placed(s)
  PROVE  Mark(s) = Rec(s.queue, s.index, s.visited \cup {At(s)}, s.repeat, s.shuffle)
<1>1. s = Rec(s.queue, s.index, s.visited, s.repeat, s.shuffle) /\ s.queue # <<>>
  BY SavedIs DEF Placed
<1>2. Mark(s) = [s EXCEPT !.visited = @ \cup {At(s)}]
  BY <1>1 DEF Mark
<1> QED
  BY <1>1, <1>2 DEF Rec

LEMMA ResetRoundIs ==
  ASSUME NEW s, Placed(s)
  PROVE  ResetRound(s) = Rec(s.queue, s.index, {At(s)}, s.repeat, s.shuffle)
<1> DEFINE r == [s EXCEPT !.visited = {}]
<1>1. s = Rec(s.queue, s.index, s.visited, s.repeat, s.shuffle) /\ s.shuffle \in {TRUE}
  BY SavedIs DEF Placed
<1>2. r = Rec(s.queue, s.index, {}, s.repeat, s.shuffle)
  BY <1>1 DEF Rec
<1>3. /\ r.queue = s.queue /\ r.index = s.index /\ r.visited = {}
      /\ r.repeat = s.repeat /\ r.shuffle = s.shuffle
  BY <1>2 DEF Rec
<1> HIDE DEF r
<1>4. At(r) = At(s)
  BY <1>3 DEF At
<1>5. r \in Saved
  <2>1. {} \in SUBSET Tracks
    OBVIOUS
  <2>2. /\ s.queue \in Seq(Tracks) /\ Len(s.queue) <= MaxQueue /\ s.index \in Nat
        /\ s.repeat \in RepeatModes
    BY SavedIs DEF Placed
  <2>3. r = Rec(r.queue, r.index, r.visited, r.repeat, r.shuffle)
    BY <1>2, <1>3
  <2> QED
    BY <1>1, <1>3, <2>1, <2>2, <2>3, SavedIs
<1>6. Placed(r)
  BY <1>3, <1>5 DEF Placed, InRange
<1>7. Mark(r) = Rec(s.queue, s.index, {At(s)}, s.repeat, s.shuffle)
  <2>1. Mark(r) = Rec(r.queue, r.index, r.visited \cup {At(r)}, r.repeat, r.shuffle)
    BY <1>6, MarkIs
  <2>2. r.visited \cup {At(r)} = {At(s)}
    BY <1>3, <1>4
  <2> QED
    BY <1>3, <2>1, <2>2
<1> QED
  BY <1>7 DEF ResetRound, r

\* Both stay at their place.
LEMMA RoundPlaced ==
  ASSUME NEW s, Placed(s), NEW v \in SUBSET Tracks
  PROVE  LET t == Rec(s.queue, s.index, v, s.repeat, s.shuffle)
         IN  Placed(t) /\ t.queue = s.queue /\ t.visited = v /\ At(t) = At(s)
<1> DEFINE t == Rec(s.queue, s.index, v, s.repeat, s.shuffle)
<1>1. /\ t.queue = s.queue /\ t.index = s.index /\ t.visited = v /\ t.repeat = s.repeat
      /\ t.shuffle = s.shuffle /\ At(t) = At(s)
  BY RecIs DEF At
<1>2. t = Rec(t.queue, t.index, t.visited, t.repeat, t.shuffle)
  BY <1>1
<1> HIDE DEF t
<1>3. t \in Saved
  BY <1>1, <1>2, SavedIs DEF Placed
<1>4. Placed(t)
  BY <1>1, <1>3 DEF Placed, InRange
<1> QED
  BY <1>1, <1>4 DEF t

LEMMA ResetRoundPlaced ==
  ASSUME NEW s, Placed(s)
  PROVE  Placed(ResetRound(s)) /\ ResetRound(s).visited = {At(ResetRound(s))}
<1> DEFINE v == {At(s)}
<1>1. v \in SUBSET Tracks
  BY PlacedIs
<1>2. ResetRound(s) = Rec(s.queue, s.index, v, s.repeat, s.shuffle)
  BY ResetRoundIs
<1> HIDE DEF v
<1>3. Placed(ResetRound(s)) /\ ResetRound(s).visited = v /\ At(ResetRound(s)) = At(s)
  BY <1>1, <1>2, RoundPlaced
<1> QED
  BY <1>3 DEF v

LEMMA MarkPlaced ==
  ASSUME NEW s, Placed(s)
  PROVE  /\ Placed(Mark(s)) /\ At(Mark(s)) = At(s)
         /\ Mark(s).visited = s.visited \cup {At(s)}
<1> DEFINE v == s.visited \cup {At(s)}
<1>1. v \in SUBSET Tracks
  BY PlacedIs, SavedIs DEF Placed
<1>2. Mark(s) = Rec(s.queue, s.index, v, s.repeat, s.shuffle)
  BY MarkIs
<1> HIDE DEF v
<1>3. Placed(Mark(s)) /\ Mark(s).visited = v /\ At(Mark(s)) = At(s)
  BY <1>1, <1>2, RoundPlaced
<1> QED
  BY <1>3 DEF v

\* The outcomes of advanceShuffleLocked: a track that was not heard, or, when
\* all were and the list repeats, the first of a new round.
NextInRound(s, t) ==
  /\ At(t) \notin s.visited
  /\ t.visited = s.visited \cup {At(t)}

NextRound(s, t) ==
  /\ ToSet(s.queue) \subseteq s.visited
  /\ t.visited = {At(t)}
  /\ At(t) # At(s) \/ ToSet(s.queue) = {At(s)}

LEMMA AdvanceShuffleIs ==
  ASSUME NEW s, Placed(s)
  PROVE  /\ \A t \in AdvanceShuffle(s) :
              /\ Placed(t) /\ t.queue = s.queue /\ t.repeat = s.repeat
              /\ NextInRound(s, t) \/ NextRound(s, t)
         /\ AdvanceShuffle(s) = {} => ToSet(s.queue) \subseteq s.visited
<1> DEFINE q == s.queue
<1>1. /\ s = Rec(q, s.index, s.visited, s.repeat, s.shuffle)
      /\ q \in Seq(Tracks) /\ Len(q) <= MaxQueue /\ s.visited \in SUBSET Tracks
      /\ s.repeat \in RepeatModes /\ s.shuffle \in {TRUE} /\ q # <<>>
  BY SavedIs DEF Placed
<1>2. At(s) = q[s.index + 1] /\ At(s) \in ToSet(q) /\ s.index \in 0..(Len(q) - 1)
  BY PlacedIs DEF At
<1> DEFINE fresh == FirstUnseen(s, s.visited)
           others == FirstUnseen(s, {At(s)})
<1>3. /\ \A i \in fresh : i \in 0..(Len(q) - 1) /\ q[i + 1] \notin s.visited
      /\ fresh = {} <=> ToSet(q) \subseteq s.visited
  BY <1>1, FirstUnseenIs
<1>4. /\ \A i \in others : i \in 0..(Len(q) - 1) /\ q[i + 1] \notin {At(s)}
      /\ others = {} <=> ToSet(q) \subseteq {At(s)}
  BY <1>1, FirstUnseenIs
<1>5. NewRound(s) = IF others = {} THEN {s.index} ELSE others
  BY DEF NewRound
<1> HIDE DEF fresh, others
<1>6. ASSUME NEW i \in 0..(Len(q) - 1)
      PROVE  LET u == [s EXCEPT !.index = i]
             IN  /\ Mark(u) = Rec(q, i, s.visited \cup {q[i + 1]}, s.repeat, s.shuffle)
                 /\ ResetRound(u) = Rec(q, i, {q[i + 1]}, s.repeat, s.shuffle)
                 /\ Placed(Mark(u)) /\ Placed(ResetRound(u))
  <2> DEFINE u == [s EXCEPT !.index = i]
  <2>1. u = Rec(q, i, s.visited, s.repeat, s.shuffle)
    BY <1>1 DEF Rec
  <2> HIDE DEF u
  <2>2. /\ u.queue = q /\ u.index = i /\ u.visited = s.visited
        /\ u.repeat = s.repeat /\ u.shuffle = s.shuffle /\ At(u) = q[i + 1]
    BY <2>1, RecIs
  <2>3. ASSUME NEW v \in SUBSET Tracks PROVE Placed(Rec(q, i, v, s.repeat, s.shuffle))
    <3> DEFINE w == Rec(q, i, v, s.repeat, s.shuffle)
    <3>1. /\ w.queue = q /\ w.index = i /\ w.visited = v
          /\ w.repeat = s.repeat /\ w.shuffle = s.shuffle
      BY RecIs
    <3>2. w = Rec(w.queue, w.index, w.visited, w.repeat, w.shuffle)
      BY <3>1
    <3> HIDE DEF w
    <3>3. i \in Nat
      OBVIOUS
    <3>4. w \in Saved
      BY <1>1, <3>1, <3>2, <3>3, SavedIs
    <3>5. Placed(w)
      BY <1>1, <3>1, <3>4 DEF Placed, InRange
    <3> QED
      BY <3>5 DEF w
  <2>4. Placed(u)
    BY <1>1, <2>1, <2>3
  <2>5. q[i + 1] \in Tracks
    BY <2>2, <2>4, PlacedIs
  <2>6. Mark(u) = Rec(q, i, s.visited \cup {q[i + 1]}, s.repeat, s.shuffle)
    <3>1. Mark(u) = Rec(u.queue, u.index, u.visited \cup {At(u)}, u.repeat, u.shuffle)
      BY <2>4, MarkIs
    <3> QED
      BY <2>2, <3>1
  <2>7. ResetRound(u) = Rec(q, i, {q[i + 1]}, s.repeat, s.shuffle)
    <3>1. ResetRound(u) = Rec(u.queue, u.index, {At(u)}, u.repeat, u.shuffle)
      BY <2>4, ResetRoundIs
    <3> QED
      BY <2>2, <3>1
  <2>9. Placed(Mark(u)) /\ Placed(ResetRound(u))
    BY <1>1, <2>3, <2>5, <2>6, <2>7
  <2> QED
    BY <2>6, <2>7, <2>9 DEF u
<1>7. CASE fresh # {}
  <2>1. AdvanceShuffle(s) = {Mark([s EXCEPT !.index = i]) : i \in fresh}
    BY <1>7 DEF AdvanceShuffle, fresh
  <2>2. ASSUME NEW i \in fresh
        PROVE  LET t == Mark([s EXCEPT !.index = i])
               IN  Placed(t) /\ t.queue = q /\ t.repeat = s.repeat /\ NextInRound(s, t)
    <3> DEFINE t == Mark([s EXCEPT !.index = i])
    <3>1. t = Rec(q, i, s.visited \cup {q[i + 1]}, s.repeat, s.shuffle) /\ Placed(t)
      BY <1>3, <1>6
    <3> HIDE DEF t
    <3>2. t.queue = q /\ t.repeat = s.repeat /\ t.visited = s.visited \cup {q[i + 1]} /\ At(t) = q[i + 1]
      BY <3>1, RecIs
    <3>3. NextInRound(s, t)
      BY <1>3, <3>2 DEF NextInRound
    <3> QED
      BY <3>1, <3>2, <3>3 DEF t
  <2>3. ASSUME NEW t \in AdvanceShuffle(s)
        PROVE  Placed(t) /\ t.queue = q /\ t.repeat = s.repeat /\ NextInRound(s, t)
    <3>1. PICK i \in fresh : t = Mark([s EXCEPT !.index = i])
      BY <2>1
    <3> QED
      BY <2>2, <3>1
  <2>4. AdvanceShuffle(s) # {}
    BY <1>7, <2>1
  <2> QED
    BY <2>3, <2>4
<1>8. CASE fresh = {} /\ s.repeat = "all"
  <2>1. AdvanceShuffle(s) = {ResetRound([s EXCEPT !.index = i]) : i \in NewRound(s)}
    BY <1>8 DEF AdvanceShuffle, fresh
  <2>2. ASSUME NEW i \in NewRound(s)
        PROVE  LET t == ResetRound([s EXCEPT !.index = i])
               IN  Placed(t) /\ t.queue = q /\ t.repeat = s.repeat /\ NextRound(s, t)
    <3> DEFINE t == ResetRound([s EXCEPT !.index = i])
    <3>0. i \in 0..(Len(q) - 1) /\ (q[i + 1] # At(s) \/ ToSet(q) = {At(s)})
      BY <1>2, <1>4, <1>5
    <3>1. t = Rec(q, i, {q[i + 1]}, s.repeat, s.shuffle) /\ Placed(t)
      BY <1>6, <3>0
    <3> HIDE DEF t
    <3>2. t.queue = q /\ t.repeat = s.repeat /\ t.visited = {q[i + 1]} /\ At(t) = q[i + 1]
      BY <3>1, RecIs
    <3>3. NextRound(s, t)
      BY <1>3, <1>8, <3>0, <3>2 DEF NextRound
    <3> QED
      BY <3>1, <3>2, <3>3 DEF t
  <2>3. ASSUME NEW t \in AdvanceShuffle(s)
        PROVE  Placed(t) /\ t.queue = q /\ t.repeat = s.repeat /\ NextRound(s, t)
    <3>1. PICK i \in NewRound(s) : t = ResetRound([s EXCEPT !.index = i])
      BY <2>1
    <3> QED
      BY <2>2, <3>1
  <2> QED
    BY <1>3, <1>8, <2>3
<1>9. CASE fresh = {} /\ s.repeat # "all"
  BY <1>3, <1>9 DEF AdvanceShuffle, fresh
<1> QED
  BY <1>7, <1>8, <1>9

-----------------------------------------------------------------------------
(* The edits.                                                              *)

\* What saved is where the queue may be empty.
Kept(s) == s \in Saved /\ (s.queue = <<>> => s.index = 0) /\ (s.queue # <<>> => InRange(s))

LEMMA KeptIs ==
  ASSUME NEW s, Kept(s)
  PROVE  /\ s = Rec(s.queue, s.index, s.visited, s.repeat, s.shuffle)
         /\ s.queue \in Seq(Tracks) /\ Len(s.queue) \in Nat /\ Len(s.queue) <= MaxQueue
         /\ s.index \in Nat /\ s.visited \in SUBSET Tracks
         /\ s.repeat \in RepeatModes /\ s.shuffle \in {TRUE}
         /\ s.queue # <<>> => /\ s.index \in 0..(Len(s.queue) - 1)
                             /\ s.index + 1 \in 1..Len(s.queue)
         /\ s.queue = <<>> <=> Len(s.queue) = 0
<1>1. /\ s = Rec(s.queue, s.index, s.visited, s.repeat, s.shuffle)
      /\ s.queue \in Seq(Tracks) /\ Len(s.queue) <= MaxQueue
      /\ s.index \in Nat /\ s.visited \in SUBSET Tracks
      /\ s.repeat \in RepeatModes /\ s.shuffle \in {TRUE}
  BY SavedIs DEF Kept
<1>2. Len(s.queue) \in Nat /\ (s.queue = <<>> <=> Len(s.queue) = 0)
  BY <1>1
<1>3. s.queue # <<>> => s.index \in 0..(Len(s.queue) - 1)
  BY DEF Kept, InRange
<1>4. s.index \in 0..(Len(s.queue) - 1) => s.index + 1 \in 1..Len(s.queue)
  BY <1>1, <1>2
<1> QED
  BY <1>1, <1>2, <1>3, <1>4

\* Another queue and another index in the same record.
LEMMA ChangedIs ==
  ASSUME NEW s, Kept(s), NEW q \in Seq(Tracks), Len(q) <= MaxQueue,
         NEW i \in Nat, q = <<>> => i = 0, q # <<>> => i \in 0..(Len(q) - 1)
  PROVE  LET t == Rec(q, i, s.visited, s.repeat, s.shuffle)
         IN  /\ Kept(t) /\ t.queue = q /\ t.index = i /\ At(t) = q[i + 1]
             /\ t.visited = s.visited /\ t.repeat = s.repeat
<1> DEFINE t == Rec(q, i, s.visited, s.repeat, s.shuffle)
<1>1. /\ t.queue = q /\ t.index = i /\ t.visited = s.visited /\ t.repeat = s.repeat
      /\ t.shuffle = s.shuffle /\ At(t) = q[i + 1]
  BY RecIs
<1>2. t = Rec(t.queue, t.index, t.visited, t.repeat, t.shuffle)
  BY <1>1
<1> HIDE DEF t
<1>3. t \in Saved
  BY <1>1, <1>2, KeptIs, SavedIs
<1>4. Kept(t)
  BY <1>1, <1>3 DEF Kept, InRange
<1> QED
  BY <1>1, <1>4 DEF t

\* Appending keeps the current track, and begins a round if there is none.
LEMMA AppendedIs ==
  ASSUME NEW s, Kept(s), Len(s.queue) < MaxQueue, NEW p \in 0..Len(s.queue), NEW e \in Tracks
  PROVE  LET t == Appended(s, p, <<e>>)
         IN  /\ Placed(t)
             /\ s.queue = <<>> => At(t) = e /\ t.visited = {e}
             /\ s.queue # <<>> => At(t) = At(s) /\ t.visited = s.visited
<1> DEFINE o == s.queue
           q == Spliced(o, p, e)
           i == IF o # <<>> /\ p <= s.index THEN s.index + 1 ELSE s.index
           r == Rec(q, i, s.visited, s.repeat, s.shuffle)
<1>1. /\ s = Rec(o, s.index, s.visited, s.repeat, s.shuffle)
      /\ o \in Seq(Tracks) /\ Len(o) \in Nat /\ s.index \in Nat
      /\ o # <<>> => s.index \in 0..(Len(o) - 1)
      /\ o = <<>> <=> Len(o) = 0
      /\ o = <<>> => s.index = 0
  BY KeptIs DEF Kept
<1>2. /\ q \in Seq(Tracks) /\ Len(q) = Len(o) + 1
      /\ \A j \in 1..(Len(o) + 1) :
           q[j] = IF j <= p THEN o[j] ELSE IF j = p + 1 THEN e ELSE o[j - 1]
  <2>1. o \in Seq(Tracks) /\ p \in 0..Len(o) /\ e \in Tracks
    BY <1>1
  <2> HIDE DEF o
  <2> QED
    BY <2>1, SplicedIs
<1>3. Appended(s, p, <<e>>) = IF o = <<>> THEN ResetRound(r) ELSE r
  <2> DEFINE m == IF o # <<>> /\ p <= s.index THEN s.index + Len(<<e>>) ELSE s.index
             u == Edited(s, q, m)
  <2>1. Len(<<e>>) = 1
    OBVIOUS
  <2>2. m = i
    BY <2>1
  <2>3. Appended(s, p, <<e>>) = IF o = <<>> THEN ResetRound(u) ELSE u
    BY DEF Appended, Spliced, Edited
  <2> HIDE DEF q, m, i
  <2>4. u = Rec(q, m, s.visited, s.repeat, s.shuffle)
    BY <1>1, RecEdited
  <2>5. u = r
    BY <2>2, <2>4
  <2> HIDE DEF u, r
  <2> QED
    BY <2>3, <2>5
<1> HIDE DEF q
<1>4. i \in 0..(Len(q) - 1) /\ i \in Nat /\ q # <<>> /\ Len(q) <= MaxQueue
  BY <1>1, <1>2, ShuffleAssumption
<1>5. o # <<>> => q[i + 1] = o[s.index + 1]
  <2> SUFFICES ASSUME o # <<>> PROVE q[i + 1] = o[s.index + 1]
    OBVIOUS
  <2>1. CASE p <= s.index
    <3>1. i + 1 = (s.index + 1) + 1 /\ i + 1 \in 1..(Len(o) + 1)
      BY <1>1, <2>1
    <3>2. ~(i + 1 <= p) /\ i + 1 # p + 1 /\ (i + 1) - 1 = s.index + 1
      BY <1>1, <2>1, <3>1
    <3> HIDE DEF o, i
    <3> QED
      BY <1>2, <3>1, <3>2
  <2>2. CASE ~(p <= s.index)
    <3>1. i + 1 = s.index + 1 /\ i + 1 \in 1..(Len(o) + 1) /\ i + 1 <= p
      BY <1>1, <2>2
    <3> HIDE DEF o, i
    <3> QED
      BY <1>2, <3>1
  <2> QED
    BY <2>1, <2>2
<1>6. o = <<>> => q[i + 1] = e
  BY <1>1, <1>2
<1> HIDE DEF i
<1>7. Kept(r) /\ r.queue = q /\ r.index = i /\ At(r) = q[i + 1] /\ r.visited = s.visited
  BY <1>2, <1>4, ChangedIs
<1> DEFINE t == Appended(s, p, <<e>>)
<1>8. t = IF o = <<>> THEN ResetRound(r) ELSE r
  BY <1>3
<1> HIDE DEF r, t
<1>9. Placed(r)
  BY <1>4, <1>7 DEF Kept, Placed
<1>10. CASE o = <<>>
  <2>1. t = Rec(r.queue, r.index, {e}, r.repeat, r.shuffle)
    BY <1>6, <1>7, <1>8, <1>9, <1>10, ResetRoundIs
  <2>2. t.queue = r.queue /\ t.index = r.index /\ t.visited = {e} /\ t.repeat = r.repeat
        /\ t.shuffle = r.shuffle /\ At(t) = r.queue[r.index + 1]
    BY <2>1, RecIs
  <2>3. t = Rec(t.queue, t.index, t.visited, t.repeat, t.shuffle)
    BY <2>1, <2>2
  <2>4. {e} \in SUBSET Tracks
    OBVIOUS
  <2>5. t \in Saved
    BY <1>7, <2>2, <2>3, <2>4, KeptIs, SavedIs
  <2>6. Placed(t)
    BY <1>9, <2>2, <2>5 DEF Placed, InRange
  <2> QED
    BY <1>6, <1>7, <1>10, <2>2, <2>6 DEF At, t
<1>11. CASE o # <<>>
  BY <1>5, <1>7, <1>8, <1>9, <1>11 DEF At, t
<1> QED
  BY <1>10, <1>11

\* Moving a track keeps the current one.
LEMMA MovedIs ==
  ASSUME NEW s, Kept(s), s.queue # <<>>,
         NEW p \in 0..(Len(s.queue) - 1), NEW k \in 0..(Len(s.queue) - 1)
  PROVE  LET t == Moved(s, p, k)
         IN  Placed(t) /\ At(t) = At(s) /\ t.visited = s.visited
<1> DEFINE o == s.queue
           x == o[p + 1]
           a == RemoveAt(o, p + 1)
           q == InsertAt(a, k + 1, x)
           i == CASE s.index = p -> k
                  [] p < s.index /\ k >= s.index -> s.index - 1
                  [] p > s.index /\ k <= s.index -> s.index + 1
                  [] OTHER -> s.index
           r == Rec(q, i, s.visited, s.repeat, s.shuffle)
<1>1. /\ s = Rec(o, s.index, s.visited, s.repeat, s.shuffle)
      /\ o \in Seq(Tracks) /\ Len(o) \in Nat /\ s.index \in Nat /\ Len(o) <= MaxQueue
      /\ s.index \in 0..(Len(o) - 1)
  BY KeptIs
<1>2. /\ p + 1 \in 1..Len(o) /\ x \in Tracks
      /\ p \in 0..(Len(o) - 1) /\ k \in 0..(Len(o) - 1)
  BY <1>1
<1>3. /\ a \in Seq(Tracks) /\ Len(a) = Len(o) - 1
      /\ \A j \in 1..(Len(o) - 1) : a[j] = IF j < p + 1 THEN o[j] ELSE o[j + 1]
  BY <1>1, <1>2, RemoveAtIs
<1>4. Moved(s, p, k) = r
  <2> HIDE DEF i
  <2>1. Moved(s, p, k) = Edited(s, q, i)
    BY <1>1 DEF Moved, Edited, i
  <2> HIDE DEF q
  <2> QED
    BY <1>1, <2>1, RecEdited
<1> HIDE DEF a, x
<1>5. k + 1 \in 1..(Len(a) + 1)
  BY <1>1, <1>3
<1>6. /\ q \in Seq(Tracks) /\ Len(q) = Len(a) + 1
      /\ \A j \in 1..(Len(a) + 1) :
           q[j] = IF j < k + 1 THEN a[j] ELSE IF j = k + 1 THEN x ELSE a[j - 1]
  BY <1>2, <1>3, <1>5, InsertAtIs
<1> HIDE DEF q, o
<1>7. Len(q) = Len(o)
  BY <1>1, <1>3, <1>6
<1>8. i \in 0..(Len(o) - 1) /\ q[i + 1] = o[s.index + 1]
  <2>1. CASE s.index = p
    <3>1. i = k
      BY <2>1
    <3>2. i + 1 \in 1..(Len(a) + 1) /\ i + 1 = k + 1
      BY <1>5, <3>1
    <3>3. q[i + 1] = x
      BY <1>6, <3>2
    <3> HIDE DEF i
    <3>4. i \in 0..(Len(o) - 1) /\ q[i + 1] = q[k + 1]
      BY <1>2, <3>1
    <3>5. x = o[s.index + 1]
      BY <2>1 DEF x
    <3> QED
      BY <3>3, <3>4, <3>5
  <2>2. CASE s.index # p /\ p < s.index /\ k >= s.index
    <3>1. i = s.index - 1
      BY <2>2, <1>1, <1>2
    <3>2. /\ i + 1 \in 1..(Len(a) + 1) /\ i + 1 < k + 1 /\ i + 1 \in 1..(Len(o) - 1)
          /\ ~(i + 1 < p + 1) /\ (i + 1) + 1 = s.index + 1
      BY <1>1, <1>2, <1>3, <2>2, <3>1
    <3>3. q[i + 1] = o[s.index + 1]
      BY <1>3, <1>6, <3>2
    <3> HIDE DEF i
    <3> QED
      BY <1>1, <1>2, <2>2, <3>1, <3>3
  <2>3. CASE s.index # p /\ p > s.index /\ k <= s.index
    <3>1. i = s.index + 1
      BY <2>3, <1>1, <1>2
    <3>2. /\ i + 1 \in 1..(Len(a) + 1) /\ ~(i + 1 < k + 1) /\ i + 1 # k + 1
          /\ (i + 1) - 1 = s.index + 1
          /\ s.index + 1 \in 1..(Len(o) - 1) /\ s.index + 1 < p + 1
      BY <1>1, <1>2, <1>3, <2>3, <3>1
    <3>3. q[i + 1] = o[s.index + 1]
      BY <1>3, <1>6, <3>2
    <3> QED
      BY <1>1, <1>2, <3>1, <3>2, <3>3
  <2>4. CASE p < s.index /\ k < s.index
    <3>1. i = s.index
      BY <2>4, <1>1, <1>2
    <3>2. /\ i + 1 \in 1..(Len(a) + 1) /\ ~(i + 1 < k + 1) /\ i + 1 # k + 1
          /\ (i + 1) - 1 \in 1..(Len(o) - 1) /\ ~((i + 1) - 1 < p + 1)
          /\ ((i + 1) - 1) + 1 = s.index + 1
      BY <1>1, <1>2, <1>3, <2>4, <3>1
    <3>3. q[i + 1] = o[s.index + 1]
      BY <1>3, <1>6, <3>2
    <3> QED
      BY <1>1, <1>2, <3>1, <3>2, <3>3
  <2>5. CASE p > s.index /\ k > s.index
    <3>1. i = s.index
      BY <2>5, <1>1, <1>2
    <3>2. /\ i + 1 \in 1..(Len(a) + 1) /\ i + 1 < k + 1 /\ i + 1 \in 1..(Len(o) - 1)
          /\ i + 1 < p + 1
      BY <1>1, <1>2, <1>3, <2>5, <3>1
    <3>3. q[i + 1] = o[s.index + 1]
      BY <1>3, <1>6, <3>1, <3>2
    <3> QED
      BY <1>1, <1>2, <3>1, <3>2, <3>3
  <2> QED
    BY <1>1, <2>1, <2>2, <2>3, <2>4, <2>5
<1> HIDE DEF i
<1>9. q # <<>> /\ Len(q) <= MaxQueue /\ i \in Nat /\ i \in 0..(Len(q) - 1)
  BY <1>1, <1>6, <1>7, <1>8
<1>10. Kept(r) /\ r.queue = q /\ r.index = i /\ At(r) = q[i + 1] /\ r.visited = s.visited
  BY <1>6, <1>9, ChangedIs
<1> HIDE DEF r
<1> QED
  BY <1>4, <1>8, <1>9, <1>10 DEF Kept, Placed, At, o

\* Removing a track keeps the current one, or leaves a place in what is left.
LEMMA RemovedIs ==
  ASSUME NEW s, Kept(s), s.queue # <<>>, NEW p \in 0..(Len(s.queue) - 1)
  PROVE  LET t == Removed(s, p, p = s.index)
         IN  /\ Kept(t) /\ t.visited = s.visited
             /\ p # s.index => t.queue # <<>> /\ At(t) = At(s)
<1> DEFINE o == s.queue
           q == RemoveAt(o, p + 1)
           index == IF p < s.index THEN s.index - 1 ELSE s.index
           last == IF q = <<>> THEN 0 ELSE Len(q) - 1
           i == IF p = s.index /\ index > last THEN last ELSE index
           r == Rec(q, i, s.visited, s.repeat, s.shuffle)
<1>1. /\ s = Rec(o, s.index, s.visited, s.repeat, s.shuffle)
      /\ o \in Seq(Tracks) /\ Len(o) \in Nat /\ s.index \in Nat /\ Len(o) <= MaxQueue
      /\ s.index \in 0..(Len(o) - 1)
  BY KeptIs
<1>2. p + 1 \in 1..Len(o) /\ p \in 0..(Len(o) - 1)
  BY <1>1
<1>3. /\ q \in Seq(Tracks) /\ Len(q) = Len(o) - 1
      /\ \A j \in 1..(Len(o) - 1) : q[j] = IF j < p + 1 THEN o[j] ELSE o[j + 1]
  BY <1>1, <1>2, RemoveAtIs
<1>4. Removed(s, p, p = s.index) = r
  <2>1. Removed(s, p, p = s.index) = Edited(s, q, i)
    BY DEF Removed, Edited
  <2> HIDE DEF q, i
  <2> QED
    BY <1>1, <2>1, RecEdited
<1> HIDE DEF q, o
<1>5. /\ Len(q) \in Nat /\ Len(q) <= MaxQueue /\ (q = <<>> <=> Len(q) = 0)
  BY <1>1, <1>3, ShuffleAssumption
<1>6. i \in Nat /\ (q = <<>> => i = 0) /\ (q # <<>> => i \in 0..(Len(q) - 1))
  <2>1. CASE p = s.index
    <3>1. index = s.index
      BY <2>1, <1>1
    <3>2. s.index <= Len(q)
      BY <1>1, <1>3
    <3>3. i = IF s.index > last THEN last ELSE s.index
      BY <2>1, <3>1
    <3> QED
      BY <1>1, <1>5, <3>2, <3>3
  <2>2. CASE p < s.index
    <3>1. i = s.index - 1
      BY <1>1, <1>2, <2>2
    <3> QED
      BY <1>1, <1>2, <1>3, <1>5, <2>2, <3>1
  <2>3. CASE p > s.index
    <3>1. i = s.index
      BY <1>1, <1>2, <2>3
    <3> QED
      BY <1>1, <1>2, <1>3, <1>5, <2>3, <3>1
  <2> QED
    BY <1>1, <1>2, <2>1, <2>2, <2>3
<1>7. p # s.index => q # <<>> /\ q[i + 1] = o[s.index + 1]
  <2>1. CASE p < s.index
    <3>1. i = s.index - 1
      BY <1>1, <1>2, <2>1
    <3>2. i + 1 \in 1..(Len(o) - 1) /\ ~(i + 1 < p + 1) /\ (i + 1) + 1 = s.index + 1
      BY <1>1, <1>2, <2>1, <3>1
    <3>3. q[i + 1] = o[s.index + 1]
      BY <1>3, <3>2
    <3> QED
      BY <1>1, <1>3, <1>5, <3>2, <3>3
  <2>2. CASE p > s.index
    <3>1. i = s.index
      BY <1>1, <1>2, <2>2
    <3>2. i + 1 \in 1..(Len(o) - 1) /\ i + 1 < p + 1
      BY <1>1, <1>2, <2>2, <3>1
    <3>3. q[i + 1] = o[s.index + 1]
      BY <1>3, <3>1, <3>2
    <3> QED
      BY <1>1, <1>3, <1>5, <3>2, <3>3
  <2> QED
    BY <1>1, <1>2, <2>1, <2>2
<1> HIDE DEF i
<1>8. Kept(r) /\ r.queue = q /\ r.index = i /\ At(r) = q[i + 1] /\ r.visited = s.visited
  BY <1>3, <1>5, <1>6, ChangedIs
<1> HIDE DEF r
<1> QED
  BY <1>4, <1>7, <1>8 DEF At, o

-----------------------------------------------------------------------------
(* The invariant.                                                          *)

\* The code's record of the round is the listener's, and the track that plays
\* belongs to it.
RoundInv ==
  /\ TypeOK
  /\ saved.visited = round
  /\ saved.queue # <<>> => At(saved) \in round

\* The same of a record s of the player and a set r of the listener.
Booked(s, r) ==
  /\ Kept(s) /\ r \in SUBSET Tracks
  /\ s.visited = r
  /\ s.queue # <<>> => At(s) \in r

LEMMA InvIsBooked ==
  /\ RoundInv <=> Booked(saved, round)
  /\ RoundInv' <=> Booked(saved', round')
  BY DEF RoundInv, Booked, TypeOK, Kept, InRange, At, Saved

LEMMA PlacedIsBooked ==
  ASSUME NEW s, Placed(s), NEW r, s.visited = r, At(s) \in r
  PROVE  Booked(s, r)
<1>1. Kept(s)
  BY DEF Placed, Kept
<1>2. s.visited \in SUBSET Tracks
  BY SavedIs DEF Placed
<1> QED
  BY <1>1, <1>2 DEF Booked

LEMMA BookedIsPlaced ==
  ASSUME NEW s, NEW r, Booked(s, r), s.queue # <<>>
  PROVE  Placed(s) /\ s.visited = r /\ At(s) \in r
  BY DEF Booked, Kept, Placed

\* What hearing the next track makes of the round, in the code and in the book.
LEMMA HearIsBooked ==
  ASSUME NEW s, Placed(s), s.visited = round, saved' \in AdvanceShuffle(s),
         Hear(At(saved'), s.queue)
  PROVE  Booked(saved', round')
<1> DEFINE t == saved'
           r == round'
<1>1. t \in AdvanceShuffle(s)
  OBVIOUS
<1>2. r = IF ToSet(s.queue) \subseteq round THEN {At(t)} ELSE round \cup {At(t)}
  BY DEF Hear
<1> HIDE DEF t, r
<1>3. Placed(t) /\ t.queue = s.queue /\ (NextInRound(s, t) \/ NextRound(s, t))
  BY <1>1, AdvanceShuffleIs
<1>4. At(t) \in ToSet(s.queue)
  BY <1>3, PlacedIs
<1>5. CASE NextInRound(s, t)
  <2>1. At(t) \notin round /\ t.visited = round \cup {At(t)}
    BY <1>5 DEF NextInRound
  <2>2. ~(ToSet(s.queue) \subseteq round)
    BY <1>4, <2>1
  <2>3. t.visited = r /\ At(t) \in r
    BY <1>2, <2>1, <2>2
  <2> QED
    BY <1>3, <2>3, PlacedIsBooked DEF t, r
<1>6. CASE NextRound(s, t)
  <2>1. ToSet(s.queue) \subseteq round /\ t.visited = {At(t)}
    BY <1>6 DEF NextRound
  <2>2. t.visited = r /\ At(t) \in r
    BY <1>2, <2>1
  <2> QED
    BY <1>3, <2>2, PlacedIsBooked DEF t, r
<1> QED
  BY <1>3, <1>5, <1>6

LEMMA InitInv ==
  Init => RoundInv
<1> SUFFICES ASSUME Init PROVE RoundInv
  OBVIOUS
<1>1. PICK queue \in BoundedSeq(Tracks, MaxQueue) \ {<<>>}, repeat \in RepeatModes :
        \E index \in 0..(Len(queue) - 1) :
          saved = ResetRound([queue |-> queue, index |-> index, visited |-> {},
                              repeat |-> repeat, shuffle |-> TRUE])
  BY DEF Init
<1>2. PICK index \in 0..(Len(queue) - 1) :
        saved = ResetRound([queue |-> queue, index |-> index, visited |-> {},
                            repeat |-> repeat, shuffle |-> TRUE])
  BY <1>1
<1> DEFINE h == TRUE
           e == {}
           s == Rec(queue, index, e, repeat, h)
<1>3. saved = ResetRound(s)
  BY <1>2 DEF Rec
<1>4. queue \in Seq(Tracks) /\ Len(queue) <= MaxQueue /\ queue # <<>> /\ index \in Nat
  BY BoundedIsSeq, ShuffleAssumption
<1>5. e \in SUBSET Tracks /\ h \in {TRUE}
  OBVIOUS
<1> HIDE DEF h, e
<1>6. s.queue = queue /\ s.index = index /\ s.visited = e /\ s.repeat = repeat /\ s.shuffle = h
  BY RecIs
<1>7. s = Rec(s.queue, s.index, s.visited, s.repeat, s.shuffle)
  BY <1>6
<1> HIDE DEF s
<1>8. s \in Saved
  BY <1>4, <1>5, <1>6, <1>7, SavedIs
<1>9. Placed(s)
  BY <1>4, <1>6, <1>8 DEF Placed, InRange
<1>10. Placed(saved) /\ saved.visited = {At(saved)}
  BY <1>3, <1>9, ResetRoundPlaced
<1>11. round = {At(saved)}
  BY DEF Init
<1> QED
  BY <1>10, <1>11, PlacedIsBooked, InvIsBooked

LEMMA NextInv ==
  RoundInv /\ [Next]_vars => RoundInv'
<1> SUFFICES ASSUME RoundInv, [Next]_vars PROVE Booked(saved', round')
  BY InvIsBooked
<1>1. Booked(saved, round)
  BY InvIsBooked
<1>2. /\ Kept(saved) /\ saved.visited = round /\ round \in SUBSET Tracks
      /\ saved.queue # <<>> => At(saved) \in round
  BY <1>1 DEF Booked
<1>3. saved.queue # <<>> => Placed(saved)
  BY <1>1, BookedIsPlaced
<1>4. CASE Forward
  <2>1. PICK manual \in BOOLEAN :
          /\ saved' \in Advance(saved, manual)
          /\ IF saved.repeat = "single" /\ ~manual
             THEN UNCHANGED round
             ELSE Hear(At(saved'), saved.queue)
    BY <1>4 DEF Forward
  <2>2. CASE saved.repeat = "single" /\ ~manual
    <3>1. saved' = saved /\ round' = round
      BY <2>1, <2>2 DEF Advance
    <3> QED
      BY <1>1, <3>1
  <2>3. CASE ~(saved.repeat = "single" /\ ~manual)
    <3>1. saved.queue # <<>> /\ saved.shuffle
      BY <1>2, <2>1, KeptIs DEF Advance
    <3>2. saved' \in AdvanceShuffle(saved) /\ Hear(At(saved'), saved.queue)
      BY <2>1, <2>3, <3>1 DEF Advance
    <3> QED
      BY <1>2, <1>3, <3>1, <3>2, HearIsBooked
  <2> QED
    BY <2>2, <2>3
<1>5. CASE Select
  <2>1. PICK i \in 0..(Len(saved.queue) - 1) :
          /\ saved' = Mark([saved EXCEPT !.index = i])
          /\ round' = round \cup {At(saved')}
    BY <1>5 DEF Select
  <2> DEFINE u == Rec(saved.queue, i, saved.visited, saved.repeat, saved.shuffle)
  <2>2. saved = Rec(saved.queue, saved.index, saved.visited, saved.repeat, saved.shuffle)
    BY <1>2, KeptIs
  <2>3. saved' = Mark(u)
    <3>1. [saved EXCEPT !.index = i] = u
      BY <2>2, RecIndexed
    <3> QED
      BY <2>1, <3>1
  <2>4. /\ saved.queue \in Seq(Tracks) /\ Len(saved.queue) <= MaxQueue /\ i \in Nat
        /\ saved.queue # <<>>
    <3>1. saved.queue \in Seq(Tracks) /\ Len(saved.queue) <= MaxQueue
      BY <1>2, KeptIs
    <3> QED
      BY <3>1
  <2>5. Kept(u) /\ u.queue = saved.queue /\ u.visited = round
    BY <1>2, <2>4, ChangedIs
  <2> HIDE DEF u
  <2>6. Placed(u)
    BY <2>4, <2>5 DEF Kept, Placed
  <2>7. Placed(Mark(u)) /\ At(Mark(u)) = At(u) /\ Mark(u).visited = round \cup {At(u)}
    BY <2>5, <2>6, MarkPlaced
  <2> QED
    BY <2>1, <2>3, <2>7, PlacedIsBooked
<1>6. CASE Insert
  <2>1. PICK p \in 0..Len(saved.queue), e \in Tracks :
          /\ Len(saved.queue) < MaxQueue
          /\ saved' = Appended(saved, p, <<e>>)
          /\ round' = IF saved.queue = <<>> THEN {e} ELSE round
    BY <1>6 DEF Insert
  <2>2. /\ Placed(saved')
        /\ saved.queue = <<>> => At(saved') = e /\ saved'.visited = {e}
        /\ saved.queue # <<>> => At(saved') = At(saved) /\ saved'.visited = saved.visited
    BY <1>2, <2>1, AppendedIs
  <2>3. saved'.visited = round' /\ At(saved') \in round'
    BY <1>2, <2>1, <2>2
  <2> QED
    BY <2>2, <2>3, PlacedIsBooked
<1>7. CASE Rearrange
  <2>1. PICK p \in 0..(Len(saved.queue) - 1), k \in 0..(Len(saved.queue) - 1) :
          saved' = Moved(saved, p, k) /\ round' = round
    BY <1>7 DEF Rearrange
  <2>2. saved.queue # <<>>
    BY <1>2, KeptIs
  <2>3. Placed(saved') /\ At(saved') = At(saved) /\ saved'.visited = saved.visited
    BY <1>2, <2>1, <2>2, MovedIs
  <2> QED
    BY <1>2, <2>1, <2>2, <2>3, PlacedIsBooked
<1>8. CASE Delete
  <2>1. PICK p \in 0..(Len(saved.queue) - 1) :
          LET current == p = saved.index
              rest == Removed(saved, p, current)
              moves == IF rest.queue = <<>> \/ ~current THEN {} ELSE AdvanceShuffle(rest)
          IN IF moves = {} THEN saved' = rest /\ UNCHANGED round
             ELSE saved' \in moves /\ Hear(At(saved'), rest.queue)
    BY <1>8 DEF Delete
  <2> DEFINE rest == Removed(saved, p, p = saved.index)
             moves == IF rest.queue = <<>> \/ ~(p = saved.index) THEN {} ELSE AdvanceShuffle(rest)
  <2>2. IF moves = {} THEN saved' = rest /\ round' = round
        ELSE saved' \in moves /\ Hear(At(saved'), rest.queue)
    BY <2>1
  <2>3. saved.queue # <<>>
    BY <1>2, KeptIs
  <2>4. /\ Kept(rest) /\ rest.visited = round
        /\ p # saved.index => rest.queue # <<>> /\ At(rest) = At(saved)
    BY <1>2, <2>3, RemovedIs
  <2> HIDE DEF rest
  <2>5. CASE moves # {}
    <3>1. rest.queue # <<>> /\ saved' \in AdvanceShuffle(rest) /\ Hear(At(saved'), rest.queue)
      BY <2>2, <2>5
    <3>2. Placed(rest)
      BY <2>4, <3>1 DEF Kept, Placed
    <3> QED
      BY <2>4, <3>1, <3>2, HearIsBooked
  <2>6. CASE moves = {}
    <3>1. saved' = rest /\ round' = round
      BY <2>2, <2>6
    <3>2. rest.queue # <<>> => At(rest) \in round
      <4>1. CASE p # saved.index
        BY <1>2, <2>3, <2>4, <4>1
      <4>2. CASE p = saved.index /\ rest.queue # <<>>
        <5>1. AdvanceShuffle(rest) = {}
          BY <2>6, <4>2
        <5>2. Placed(rest)
          BY <2>4, <4>2 DEF Kept, Placed
        <5>3. ToSet(rest.queue) \subseteq round /\ At(rest) \in ToSet(rest.queue)
          BY <2>4, <5>1, <5>2, AdvanceShuffleIs, PlacedIs
        <5> QED
          BY <5>3
      <4> QED
        BY <4>1, <4>2
    <3> QED
      BY <1>2, <2>4, <3>1, <3>2 DEF Booked
  <2> QED
    BY <2>5, <2>6
<1>9. CASE SetRepeat
  <2>1. PICK repeat \in RepeatModes : saved' = [saved EXCEPT !.repeat = repeat] /\ round' = round
    BY <1>9 DEF SetRepeat
  <2>2. saved = Rec(saved.queue, saved.index, saved.visited, saved.repeat, saved.shuffle)
    BY <1>2, KeptIs
  <2>3. saved' = Rec(saved.queue, saved.index, saved.visited, repeat, saved.shuffle)
    <3>1. [saved EXCEPT !.repeat = repeat]
          = Rec(saved.queue, saved.index, saved.visited, repeat, saved.shuffle)
      BY <2>2 DEF Rec
    <3> QED
      BY <2>1, <3>1
  <2>4. /\ saved'.queue = saved.queue /\ saved'.index = saved.index
        /\ saved'.visited = saved.visited /\ saved'.repeat = repeat
        /\ saved'.shuffle = saved.shuffle
    BY <2>3, RecIs
  <2>5. saved' \in Saved
    BY <1>2, <2>3, <2>4, KeptIs, SavedIs
  <2>6. Kept(saved')
    BY <1>2, <2>4, <2>5 DEF Kept, InRange
  <2> QED
    BY <1>2, <2>1, <2>4, <2>6 DEF Booked, At
<1>10. CASE UNCHANGED vars
  BY <1>1, <1>10 DEF vars
<1> QED
  BY <1>4, <1>5, <1>6, <1>7, <1>8, <1>9, <1>10 DEF Next

-----------------------------------------------------------------------------
(* The theorems.                                                           *)

\* The type of the state holds for every number of tracks and length of queue,
\* and the record of the round is what was heard (advanceShuffleLocked,
\* markShuffleLocked, and the edits append, move and remove).
THEOREM RoundInvHolds ==
  Spec => []RoundInv
  BY InitInv, NextInv, PTL DEF Spec

\* The state keeps its type: the index stays inside the queue.
THEOREM TypeCorrect ==
  Spec => []TypeOK
<1>1. RoundInv => TypeOK
  BY DEF RoundInv
<1> QED
  BY <1>1, RoundInvHolds, PTL

\* Without list repeat the player stops only when every track of the queue was
\* heard in this round (advanceShuffleLocked returns false).
THEOREM StopsWhenCompleteHolds ==
  Spec => []StopsWhenComplete
<1>1. ASSUME RoundInv PROVE StopsWhenComplete
  <2> SUFFICES ASSUME saved.queue # <<>>, saved.repeat = "off", Advance(saved, FALSE) = {}
               PROVE  ToSet(saved.queue) \subseteq round
    BY DEF StopsWhenComplete
  <2>1. Placed(saved) /\ saved.visited = round
    BY <1>1, InvIsBooked, BookedIsPlaced
  <2>2. saved.shuffle
    BY <2>1, SavedIs DEF Placed
  <2>3. AdvanceShuffle(saved) = {}
    BY <2>2 DEF Advance
  <2> QED
    BY <2>1, <2>3, AdvanceShuffleIs
<1> QED
  BY <1>1, RoundInvHolds, PTL

\* The ways the player moves on, seen from the listener's book.
LEMMA ForwardIs ==
  ASSUME RoundInv, Forward
  PROVE  \/ saved.repeat = "single" /\ saved' = saved
         \/ At(saved') \notin round /\ At(saved) \in round
         \/ /\ ToSet(saved.queue) \subseteq round
            /\ At(saved') # At(saved) \/ ToSet(saved.queue) = {At(saved)}
<1>1. PICK manual \in BOOLEAN : saved' \in Advance(saved, manual)
  BY DEF Forward
<1>2. saved.queue # <<>>
  BY <1>1 DEF Advance
<1>3. Placed(saved) /\ saved.visited = round /\ At(saved) \in round
  BY <1>2, InvIsBooked, BookedIsPlaced
<1>4. saved.shuffle
  BY <1>3, SavedIs DEF Placed
<1>5. CASE saved.repeat = "single" /\ ~manual
  BY <1>1, <1>5 DEF Advance
<1>6. CASE ~(saved.repeat = "single" /\ ~manual)
  <2>1. saved' \in AdvanceShuffle(saved)
    BY <1>1, <1>2, <1>4, <1>6 DEF Advance
  <2>2. NextInRound(saved, saved') \/ NextRound(saved, saved')
    BY <1>3, <2>1, AdvanceShuffleIs
  <2> QED
    BY <1>3, <2>2 DEF NextInRound, NextRound
<1> QED
  BY <1>5, <1>6

\* Shuffle plays each distinct track once per round, whatever edits and picks
\* come between (advanceShuffleLocked).
THEOREM OncePerRoundHolds ==
  Spec => OncePerRound
<1> DEFINE A == Forward => \/ At(saved') \notin round
                           \/ ToSet(saved.queue) \subseteq round
                           \/ saved.repeat = "single" /\ At(saved') = At(saved)
<1>1. RoundInv /\ [Next]_vars => [A]_vars
  BY ForwardIs
<1> HIDE DEF A
<1>2. Spec => [][A]_vars
  BY <1>1, RoundInvHolds, PTL DEF Spec
<1> QED
  BY <1>2 DEF OncePerRound, A

\* No song is heard twice in a row across the end of a round when the queue has
\* another (the second pass of advanceShuffleLocked).
THEOREM NoRepeatAcrossRoundsHolds ==
  Spec => NoRepeatAcrossRounds
<1> DEFINE A == Forward /\ saved.repeat # "single" /\ At(saved') = At(saved) =>
                  Cardinality(ToSet(saved.queue)) = 1
<1>1. ASSUME RoundInv, Forward, saved.repeat # "single", At(saved') = At(saved)
      PROVE  Cardinality(ToSet(saved.queue)) = 1
  <2>1. ToSet(saved.queue) = {At(saved)}
    BY <1>1, ForwardIs
  <2> QED
    BY <2>1, FS_Singleton
<1>2. RoundInv /\ [Next]_vars => [A]_vars
  BY <1>1
<1> HIDE DEF A
<1>3. Spec => [][A]_vars
  BY <1>2, RoundInvHolds, PTL DEF Spec
<1> QED
  BY <1>3 DEF NoRepeatAcrossRounds, A
=============================================================================
