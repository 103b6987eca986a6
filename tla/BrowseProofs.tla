------------------------------ MODULE BrowseProofs ------------------------------
(***************************************************************************)
(* Proofs about PageCache, Query and BrowseService, for any number of      *)
(* requests, any libraries, queries and rules, and any bounds:             *)
(*   - a page is that of the library its request saw, and the account of   *)
(*     the cache is exact;                                                 *)
(*   - the database and the lists in memory answer a query alike;          *)
(*   - the pages of a list tile it, and a queue holds the chosen track;    *)
(*   - a group counts what its page shows.                                 *)
(* All but the first rest on the same facts: an order that is strict and   *)
(* total lists each element of a set once, at the place of its rank.       *)
(***************************************************************************)
EXTENDS BrowseService, Query, TLAPS, FunctionTheorems, FiniteSetTheorems, SequenceTheorems,
        WellFoundedInduction

-----------------------------------------------------------------------------
(* Sums over a sequence. Total is a recursive function; a ledger is what it*)
(* computes, written down: the total after each key.                       *)

Ledger(pages, keys, L) ==
  /\ L \in [0..Len(keys) -> Int]
  /\ L[0] = 0
  /\ \A n \in 1..Len(keys) : L[n] = L[n - 1] + Bytes(pages[keys[n]].page)

\* A set of natural numbers that is not empty has a least element.
LEMMA LeastNumber ==
  ASSUME NEW S \in SUBSET Nat, S # {}
  PROVE  \E n \in S : \A m \in S : n <= m
<1>1. PICK n \in S : \A m \in S : <<m, n>> \notin OpToRel(<, Nat)
  BY NatLessThanWellFounded, WFMin
<1>2. \A m \in S : m \in Nat /\ n \in Nat /\ ~(m < n)
  BY <1>1 DEF OpToRel
<1> QED
  BY <1>2

\* A ledger ends with the total.
LEMMA LedgerIsTotal ==
  ASSUME NEW pages, NEW keys, Len(keys) \in Nat, NEW L, Ledger(pages, keys, L)
  PROVE  Total(pages, keys) = L[Len(keys)]
<1> DEFINE F(f) == [n \in 0..Len(keys) |->
                      IF n = 0 THEN 0 ELSE f[n - 1] + Bytes(pages[keys[n]].page)]
<1> DEFINE U == CHOOSE f : f = F(f)
<1> DEFINE B(n) == Bytes(pages[keys[n]].page)
<1>1. L = F(L)
  <2>1. L \in [0..Len(keys) -> Int] /\ L[0] = 0
    BY DEF Ledger
  <2>2. \A n \in 1..Len(keys) : L[n] = L[n - 1] + B(n)
    BY DEF Ledger
  <2> HIDE DEF B
  <2>3. L = [n \in 0..Len(keys) |-> IF n = 0 THEN 0 ELSE L[n - 1] + B(n)]
    <3>1. \A n \in 0..Len(keys) : L[n] = IF n = 0 THEN 0 ELSE L[n - 1] + B(n)
      BY <2>1, <2>2
    <3> QED
      BY <2>1, <3>1
  <2> QED
    BY <2>3 DEF B
<1>2. U = F(U)
  BY <1>1
<1>3. Total(pages, keys) = U[Len(keys)]
  BY DEF Total
<1> DEFINE Bad == {n \in 0..Len(keys) : U[n] # L[n]}
<1> HIDE DEF U
<1>4. Bad = {}
  <2> SUFFICES ASSUME Bad # {} PROVE FALSE
    OBVIOUS
  <2>0. Bad \in SUBSET Nat
    OBVIOUS
  <2>1. PICK n \in Bad : \A m \in Bad : n <= m
    BY <2>0, LeastNumber, Zenon
  <2>2. n \in 0..Len(keys) /\ U[n] # L[n]
    BY <2>1
  <2>3. U[n] = F(U)[n] /\ L[n] = F(L)[n]
    BY <1>1, <1>2, Zenon
  <2>4. n # 0
    BY <2>2, <2>3
  <2>5. n - 1 \in 0..Len(keys) /\ ~(n <= n - 1)
    BY <2>2, <2>4
  <2>6. U[n - 1] = L[n - 1]
    BY <2>1, <2>5
  <2>7. F(U)[n] = U[n - 1] + Bytes(pages[keys[n]].page) /\ F(L)[n] = L[n - 1] + Bytes(pages[keys[n]].page)
    BY <2>2, <2>4
  <2> QED
    BY <2>2, <2>3, <2>6, <2>7, Zenon
<1> QED
  BY <1>3, <1>4

\* One more key.
LEMMA LedgerAppend ==
  ASSUME NEW pages, NEW keys \in Seq(Requests), NEW k \in Requests,
         Bytes(pages[k].page) \in Nat,
         NEW L, Ledger(pages, keys, L)
  PROVE  \E M : /\ Ledger(pages, Append(keys, k), M)
               /\ M[Len(keys) + 1] = L[Len(keys)] + Bytes(pages[k].page)
<1> DEFINE B(n) == Bytes(pages[keys[n]].page)
           b == Bytes(pages[k].page)
           longer == Append(keys, k)
           C(n) == Bytes(pages[longer[n]].page)
           N == Len(keys)
           M == [n \in 0..(N + 1) |-> IF n = N + 1 THEN L[N] + b ELSE L[n]]
<1>1. N \in Nat /\ Len(longer) = N + 1
  OBVIOUS
<1>2. L \in [0..N -> Int] /\ L[0] = 0 /\ \A n \in 1..N : L[n] = L[n - 1] + B(n)
  BY DEF Ledger
<1>3. \A n \in 1..N : C(n) = B(n)
  OBVIOUS
<1>4. C(N + 1) = b
  OBVIOUS
<1>5. b \in Int
  OBVIOUS
<1>8. Ledger(pages, longer, M) <=> /\ M \in [0..(N + 1) -> Int]
                                    /\ M[0] = 0
                                    /\ \A n \in 1..(N + 1) : M[n] = M[n - 1] + C(n)
  BY <1>1 DEF Ledger
<1> HIDE DEF B, C, b, longer, N
<1>6. M \in [0..(N + 1) -> Int] /\ M[0] = 0 /\ M[N + 1] = L[N] + b
  BY <1>1, <1>2, <1>5
<1>7. \A n \in 1..(N + 1) : M[n] = M[n - 1] + C(n)
  BY <1>1, <1>2, <1>3, <1>4, <1>5
<1> HIDE DEF M
<1>9. Ledger(pages, longer, M)
  BY <1>6, <1>7, <1>8
<1> QED
  BY <1>6, <1>9 DEF b, longer, N

\* The first key goes.
LEMMA LedgerTail ==
  ASSUME NEW pages, NEW keys \in Seq(Requests), keys # <<>>,
         \A n \in 1..Len(keys) : Bytes(pages[keys[n]].page) \in Nat,
         NEW L, Ledger(pages, keys, L)
  PROVE  \E M : /\ Ledger(pages, Tail(keys), M)
               /\ M[Len(keys) - 1] = L[Len(keys)] - Bytes(pages[Head(keys)].page)
<1> DEFINE B(n) == Bytes(pages[keys[n]].page)
           rest == Tail(keys)
           C(n) == Bytes(pages[rest[n]].page)
           N == Len(keys)
           M == [n \in 0..(N - 1) |-> L[n + 1] - B(1)]
<1>1. N \in Nat /\ N # 0 /\ Len(rest) = N - 1
  OBVIOUS
<1>2. L \in [0..N -> Int] /\ L[0] = 0 /\ \A n \in 1..N : L[n] = L[n - 1] + B(n)
  BY DEF Ledger
<1>3. \A n \in 1..(N - 1) : C(n) = B(n + 1)
  OBVIOUS
<1>4. B(1) = Bytes(pages[Head(keys)].page) /\ \A n \in 1..N : B(n) \in Int
  BY <1>1
<1>8. Ledger(pages, rest, M) <=> /\ M \in [0..(N - 1) -> Int]
                                  /\ M[0] = 0
                                  /\ \A n \in 1..(N - 1) : M[n] = M[n - 1] + C(n)
  BY <1>1 DEF Ledger
<1> HIDE DEF B, C, rest, N
<1>5. 1 \in 1..N /\ B(1) \in Int /\ L[1] = B(1)
  <2>1. 1 \in 1..N /\ 1 - 1 = 0
    BY <1>1
  <2>2. L[1] = L[0] + B(1)
    BY <1>2, <2>1
  <2> QED
    BY <1>2, <1>4, <2>1, <2>2
<1>6. M \in [0..(N - 1) -> Int] /\ M[0] = 0 /\ M[N - 1] = L[N] - B(1)
  <2>1. \A i \in 0..(N - 1) : L[i + 1] - B(1) \in Int
    BY <1>1, <1>2, <1>5
  <2>2. M[0] = L[0 + 1] - B(1) /\ M[N - 1] = L[(N - 1) + 1] - B(1)
    BY <1>1
  <2>3. (N - 1) + 1 = N /\ 0 + 1 = 1
    BY <1>1
  <2> QED
    BY <1>5, <2>1, <2>2, <2>3
<1>7. \A n \in 1..(N - 1) : M[n] = M[n - 1] + C(n)
  <2> SUFFICES ASSUME NEW n \in 1..(N - 1) PROVE M[n] = M[n - 1] + C(n)
    OBVIOUS
  <2>1. n + 1 \in 1..N /\ n \in 0..(N - 1) /\ n - 1 \in 0..(N - 1) /\ n \in 0..N /\ n + 1 \in 0..N /\ 1 \in 1..N /\ (n + 1) - 1 = n /\ (n - 1) + 1 = n
    BY <1>1
  <2>2. L[n + 1] = L[n] + B(n + 1)
    BY <1>2, <2>1
  <2>3. L[n] \in Int /\ L[n + 1] \in Int
    <3>1. \A i \in 0..N : L[i] \in Int
      BY <1>2
    <3> QED
      BY <3>1, <2>1
  <2>4. M[n] = L[n + 1] - B(1) /\ M[n - 1] = L[n] - B(1)
    BY <2>1
  <2>5. C(n) = B(n + 1)
    BY <1>3
  <2>6. B(1) \in Int /\ B(n + 1) \in Int
    BY <1>4, <2>1
  <2> QED
    BY <2>2, <2>3, <2>4, <2>5, <2>6
<1> HIDE DEF M
<1>9. Ledger(pages, rest, M)
  BY <1>6, <1>7, <1>8
<1> QED
  BY <1>4, <1>6, <1>9 DEF rest, N

\* The ledger after another page has come under the key at i.
ChangedLedger(pages, others, keys, i, L) ==
  \E M : /\ Ledger(others, keys, M)
        /\ M[Len(keys)] = L[Len(keys)] - Bytes(pages[keys[i]].page)
                           + Bytes(others[keys[i]].page)

\* Another page under one of the keys, which occurs once.
LEMMA LedgerChange ==
  ASSUME NEW pages, NEW others, NEW keys \in Seq(Requests),
         NEW i \in 1..Len(keys),
         \A n \in 1..Len(keys) : Bytes(pages[keys[n]].page) \in Nat,
         \A n \in 1..Len(keys) : n # i => others[keys[n]] = pages[keys[n]],
         Bytes(others[keys[i]].page) \in Nat,
         NEW L, Ledger(pages, keys, L)
  PROVE  ChangedLedger(pages, others, keys, i, L)
<1> DEFINE B(n) == Bytes(pages[keys[n]].page)
           C(n) == Bytes(others[keys[n]].page)
           N == Len(keys)
           d == C(i) - B(i)
           M == [n \in 0..N |-> IF n < i THEN L[n] ELSE L[n] + d]
<1>1. N \in Nat /\ i \in 1..N
  OBVIOUS
<1>2. L \in [0..N -> Int] /\ L[0] = 0 /\ \A n \in 1..N : L[n] = L[n - 1] + B(n)
  BY DEF Ledger
<1>3. \A n \in 1..N : n # i => C(n) = B(n)
  OBVIOUS
<1>4. (\A n \in 1..N : B(n) \in Int) /\ C(i) \in Int
  OBVIOUS
<1>5. Ledger(others, keys, M) <=> /\ M \in [0..N -> Int]
                                   /\ M[0] = 0
                                   /\ \A n \in 1..N : M[n] = M[n - 1] + C(n)
  BY DEF Ledger
<1> HIDE DEF B, C, N
<1>6. d \in Int /\ C(i) = B(i) + d
  BY <1>1, <1>4
<1> HIDE DEF d
<1>7. M \in [0..N -> Int] /\ M[0] = 0 /\ M[N] = L[N] + d
  BY <1>1, <1>2, <1>6
<1>8. \A n \in 1..N : M[n] = M[n - 1] + C(n)
  <2> SUFFICES ASSUME NEW n \in 1..N PROVE M[n] = M[n - 1] + C(n)
    OBVIOUS
  <2>1. n \in 0..N /\ n - 1 \in 0..N
    BY <1>1
  <2>2. L[n] = L[n - 1] + B(n) /\ L[n - 1] \in Int /\ B(n) \in Int
    BY <1>2, <1>4, <2>1
  <2>3. CASE n < i
    BY <2>1, <2>2, <2>3, <1>1, <1>3
  <2>4. CASE n = i
    BY <2>1, <2>2, <2>4, <1>1, <1>6
  <2>5. CASE n > i
    <3>1. ~(n < i) /\ ~(n - 1 < i) /\ n # i
      BY <2>5, <1>1
    <3>2. M[n] = L[n] + d /\ M[n - 1] = L[n - 1] + d
      BY <2>1, <3>1
    <3> QED
      BY <2>2, <3>1, <3>2, <1>3, <1>6
  <2> QED
    BY <1>1, <2>3, <2>4, <2>5
<1> HIDE DEF M
<1>9. M[N] = L[N] - B(i) + C(i)
  BY <1>1, <1>2, <1>4, <1>6, <1>7
<1>10. Ledger(others, keys, M)
  BY <1>5, <1>7, <1>8
<1> QED
  BY <1>9, <1>10 DEF ChangedLedger, B, C, N

\* A ledger looks at the pages under its keys only.
LEMMA LedgerSame ==
  ASSUME NEW pages, NEW others, NEW keys, Len(keys) \in Nat,
         \A n \in 1..Len(keys) : others[keys[n]] = pages[keys[n]],
         NEW L, Ledger(pages, keys, L)
  PROVE  Ledger(others, keys, L)
  BY DEF Ledger

-----------------------------------------------------------------------------
(* The loop that evicts, on a record c of the cache's three fields.        *)

Balanced(c) ==
  /\ c.order \in Seq(Requests)
  /\ IsInjective(c.order) /\ ToSet(c.order) = DOMAIN c.entries
  /\ \A k \in DOMAIN c.entries : Bytes(c.entries[k].page) \in Nat
  /\ \E L : Ledger(c.entries, c.order, L) /\ L[Len(c.order)] = c.size

\* What is left in d was in c.
Keeps(c, d) ==
  /\ DOMAIN d.entries \subseteq DOMAIN c.entries
  /\ \A k \in DOMAIN d.entries : d.entries[k] = c.entries[k]

\* While something has to go, there is something that can go, and what is left
\* is in balance again.
LEMMA EvictFirst ==
  ASSUME NEW c, Balanced(c), ~Fits(c)
  PROVE  /\ Len(c.order) \in Nat \ {0}
         /\ Balanced(FirstEvicted(c))
         /\ Keeps(c, FirstEvicted(c))
         /\ Len(FirstEvicted(c).order) = Len(c.order) - 1
<1> DEFINE o == c.order
           f == c.entries
           k == Head(o)
           d == FirstEvicted(c)
<1>1. /\ o \in Seq(Requests) /\ IsInjective(o) /\ ToSet(o) = DOMAIN f
      /\ \A x \in DOMAIN f : Bytes(f[x].page) \in Nat
  BY DEF Balanced
<1>2. PICK L : Ledger(f, o, L) /\ L[Len(o)] = c.size
  BY DEF Balanced
<1>3. o # <<>>
  <2> SUFFICES ASSUME o = <<>> PROVE FALSE
    OBVIOUS
  <2>1. Len(o) = 0 /\ c.size = 0
    BY <1>2 DEF Ledger
  <2> QED
    BY <2>1, CacheAssumption DEF Fits
<1>4. d = [entries |-> Without(f, k), order |-> Tail(o), size |-> c.size - Bytes(f[k].page)]
  BY DEF FirstEvicted
<1> HIDE DEF d
<1>5. d.entries = Without(f, k) /\ d.order = Tail(o) /\ d.size = c.size - Bytes(f[k].page)
  BY <1>4
<1> HIDE DEF o, f
<1>6. DOMAIN o = 1..Len(o) /\ Len(o) \in Nat \ {0}
  BY <1>1, <1>3
<1>7. \A n \in 1..Len(o) : o[n] \in DOMAIN f /\ Bytes(f[o[n]].page) \in Nat
  BY <1>1, <1>6 DEF ToSet
<1>8. /\ Tail(o) \in Seq(Requests) /\ Len(Tail(o)) = Len(o) - 1
      /\ DOMAIN Tail(o) = 1..(Len(o) - 1)
      /\ \A n \in 1..(Len(o) - 1) : Tail(o)[n] = o[n + 1] /\ n + 1 \in 1..Len(o)
      /\ k = o[1] /\ 1 \in 1..Len(o)
  BY <1>1, <1>3, <1>6
<1>9. \A m, n \in 1..Len(o) : o[m] = o[n] => m = n
  BY <1>1, <1>6 DEF IsInjective
<1>10. \A n \in 1..(Len(o) - 1) : Tail(o)[n] # k
  BY <1>6, <1>8, <1>9
<1>11. IsInjective(Tail(o))
  BY <1>6, <1>8, <1>9 DEF IsInjective
<1>12. ToSet(Tail(o)) = DOMAIN f \ {k}
  <2>1. \A x \in ToSet(Tail(o)) : x \in DOMAIN f /\ x # k
    BY <1>7, <1>8, <1>10 DEF ToSet
  <2>2. ASSUME NEW x \in DOMAIN f, x # k PROVE x \in ToSet(Tail(o))
    <3>1. PICK n \in 1..Len(o) : o[n] = x
      BY <1>1, <1>6 DEF ToSet
    <3>2. n # 1
      BY <2>2, <3>1, <1>8
    <3>3. n - 1 \in 1..(Len(o) - 1) /\ (n - 1) + 1 = n
      BY <1>6, <3>2
    <3>4. Tail(o)[n - 1] = x
      BY <1>8, <3>1, <3>3
    <3> QED
      BY <1>8, <3>3, <3>4 DEF ToSet
  <2> QED
    BY <2>1, <2>2
<1>13. /\ DOMAIN Without(f, k) = DOMAIN f \ {k}
       /\ \A x \in DOMAIN f \ {k} : Without(f, k)[x] = f[x]
  BY DEF Without
<1>14. PICK M : /\ Ledger(f, Tail(o), M)
                /\ M[Len(o) - 1] = L[Len(o)] - Bytes(f[k].page)
  BY <1>1, <1>2, <1>3, <1>7, LedgerTail
<1>15. \A n \in 1..Len(Tail(o)) : Without(f, k)[Tail(o)[n]] = f[Tail(o)[n]]
  BY <1>7, <1>8, <1>10, <1>13
<1>16. Ledger(Without(f, k), Tail(o), M)
  <2>1. Len(Tail(o)) \in Nat
    BY <1>8
  <2> QED
    BY <1>14, <1>15, <2>1, LedgerSame, Zenon
<1>17. M[Len(Tail(o))] = d.size
  BY <1>2, <1>5, <1>8, <1>14
<1>18. Balanced(d)
  <2>1. \A x \in DOMAIN d.entries : Bytes(d.entries[x].page) \in Nat
    BY <1>1, <1>5, <1>13
  <2>2. ToSet(d.order) = DOMAIN d.entries
    BY <1>5, <1>12, <1>13, Zenon
  <2> QED
    BY <1>5, <1>8, <1>11, <1>16, <1>17, <2>1, <2>2 DEF Balanced
<1>19. Keeps(c, d)
  BY <1>5, <1>13 DEF Keeps, f
<1> QED
  BY <1>5, <1>6, <1>8, <1>18, <1>19 DEF d, o

\* The turns of the loop, written down one after the other.
LEMMA TurnsExist ==
  ASSUME NEW c
  PROVE  \A m \in Nat :
           \E g : g = [n \in 0..m |-> IF n = 0 THEN c ELSE Turn(g[n - 1])]
<1> DEFINE G(m, g) == [n \in 0..m |-> IF n = 0 THEN c ELSE Turn(g[n - 1])]
<1> DEFINE Bad == {m \in Nat : ~\E g : g = G(m, g)}
<1>1. Bad = {}
  <2> SUFFICES ASSUME Bad # {} PROVE FALSE
    OBVIOUS
  <2>0. Bad \in SUBSET Nat
    OBVIOUS
  <2>1. PICK m \in Bad : \A l \in Bad : m <= l
    BY <2>0, LeastNumber, Zenon
  <2>2. m \in Nat /\ ~\E g : g = G(m, g)
    BY <2>1
  <2>3. CASE m = 0
    <3> DEFINE h == [n \in 0..0 |-> c]
    <3>1. h = G(m, h)
      BY <2>3
    <3> HIDE DEF h, G
    <3> QED
      BY <2>2, <3>1
  <2>4. CASE m # 0
    <3>1. m - 1 \in Nat /\ ~(m <= m - 1)
      BY <2>2, <2>4
    <3>2. PICK g : g = G(m - 1, g)
      BY <2>1, <3>1
    <3> DEFINE h == [n \in 0..m |-> IF n = m THEN Turn(g[m - 1]) ELSE g[n]]
    <3>3. ASSUME NEW n \in 0..m
          PROVE  h[n] = IF n = 0 THEN c ELSE Turn(h[n - 1])
      <4>1. CASE n = m
        BY <2>2, <2>4, <4>1, <3>1
      <4>2. CASE n # m
        <5>1. n \in 0..(m - 1) /\ (n # 0 => n - 1 \in 0..m /\ n - 1 # m)
          BY <4>2, <2>2
        <5>2. g[n] = IF n = 0 THEN c ELSE Turn(g[n - 1])
          BY <3>2, <5>1
        <5>3. h[n] = g[n] /\ (n # 0 => h[n - 1] = g[n - 1])
          BY <4>2, <5>1
        <5> HIDE DEF h
        <5> QED
          BY <5>2, <5>3, Zenon
      <4> QED
        BY <4>1, <4>2
    <3>4. h = G(m, h)
      BY <3>3
    <3> HIDE DEF h, G
    <3> QED
      BY <2>2, <3>4
  <2> QED
    BY <2>3, <2>4
<1> QED
  BY <1>1

\* Eviction ends with what fits, is in balance, and was there before.
LEMMA EvictedFits ==
  ASSUME NEW c, Balanced(c)
  PROVE  Balanced(Evicted(c)) /\ Fits(Evicted(c)) /\ Keeps(c, Evicted(c))
<1> DEFINE N == Len(c.order)
           G(g) == [n \in 0..N |-> IF n = 0 THEN c ELSE Turn(g[n - 1])]
           U == CHOOSE g : g = G(g)
<1>1. N \in Nat
  BY DEF Balanced
<1>2. \E g : g = G(g)
  BY <1>1, TurnsExist
<1>3. U = G(U)
  BY <1>2
<1>4. Evicted(c) = U[N]
  BY DEF Evicted
<1> HIDE DEF U, N
<1>5. \A n \in 0..N : U[n] = IF n = 0 THEN c ELSE Turn(U[n - 1])
  BY <1>3

\* Each turn shortens the list or is the last.
<1> DEFINE Good(n) == /\ Balanced(U[n]) /\ Keeps(c, U[n])
                      /\ Fits(U[n]) \/ Len(U[n].order) = N - n
<1> DEFINE Bad == {n \in 0..N : ~Good(n)}
<1>6. Bad = {}
  <2> SUFFICES ASSUME Bad # {} PROVE FALSE
    OBVIOUS
  <2>0. Bad \in SUBSET Nat
    BY <1>1
  <2>1. PICK n \in Bad : \A l \in Bad : n <= l
    BY <2>0, LeastNumber, Zenon
  <2>2. n \in 0..N /\ ~Good(n)
    BY <2>1
  <2>3. CASE n = 0
    <3>1. U[n] = c
      BY <1>5, <2>2, <2>3
    <3>2. Keeps(c, c)
      BY DEF Keeps
    <3>3. Len(c.order) = N - n
      BY <1>1, <2>3 DEF N
    <3> QED
      BY <2>2, <3>1, <3>2, <3>3
  <2>4. CASE n # 0
    <3> DEFINE p == U[n - 1]
    <3>1. n - 1 \in 0..N /\ ~(n <= n - 1)
      BY <1>1, <2>2, <2>4
    <3>2. Good(n - 1)
      BY <2>1, <3>1
    <3>3. U[n] = Turn(p)
      BY <1>5, <2>2, <2>4
    <3>4. Balanced(p) /\ Keeps(c, p) /\ (Fits(p) \/ Len(p.order) = N - (n - 1))
      BY <3>2
    <3> HIDE DEF p
    <3>5. CASE Fits(p)
      <4>1. U[n] = p
        BY <3>3, <3>5 DEF Turn
      <4> QED
        BY <2>2, <3>4, <3>5, <4>1, Zenon
    <3>6. CASE ~Fits(p)
      <4>1. U[n] = FirstEvicted(p)
        BY <3>3, <3>6 DEF Turn
      <4>2. /\ Len(p.order) \in Nat \ {0} /\ Balanced(U[n]) /\ Keeps(p, U[n])
            /\ Len(U[n].order) = Len(p.order) - 1
        BY <3>4, <3>6, <4>1, EvictFirst
      <4>3. Keeps(c, U[n])
        BY <3>4, <4>2 DEF Keeps
      <4>4. Len(p.order) = N - (n - 1)
        BY <3>4, <3>6
      <4>5. Len(U[n].order) = N - n
        BY <1>1, <2>2, <4>2, <4>4
      <4> QED
        BY <2>2, <4>2, <4>3, <4>5, Zenon
    <3> QED
      BY <3>5, <3>6
  <2> QED
    BY <2>3, <2>4
<1>7. Good(N)
  BY <1>1, <1>6
<1> DEFINE d == U[N]
<1>8. Balanced(d) /\ Keeps(c, d) /\ (Fits(d) \/ Len(d.order) = N - N)
  BY <1>7
<1> HIDE DEF d
<1>9. Fits(d)
  <2> SUFFICES ASSUME ~Fits(d) PROVE FALSE
    OBVIOUS
  <2>1. Len(d.order) \in Nat \ {0}
    BY <1>8, EvictFirst
  <2>2. Len(d.order) = 0
    BY <1>1, <1>8
  <2> QED
    BY <2>1, <2>2
<1> QED
  BY <1>4, <1>8, <1>9 DEF d

-----------------------------------------------------------------------------
(* The account.                                                            *)

Cache == [entries |-> entries, order |-> order, size |-> size]

AccountInv == Balanced(Cache) /\ Fits(Cache)

\* In balance and within the bounds is what CacheIsAccounted says.
LEMMA AccountIsExact == AccountInv => CacheIsAccounted
<1> SUFFICES ASSUME AccountInv PROVE CacheIsAccounted
  OBVIOUS
<1>1. Cache.entries = entries /\ Cache.order = order /\ Cache.size = size
  BY DEF Cache
<1>2. /\ order \in Seq(Requests)
      /\ IsInjective(order) /\ ToSet(order) = DOMAIN entries
      /\ size <= MaxBytes /\ Len(order) <= MaxEntries
  BY <1>1 DEF AccountInv, Balanced, Fits
<1>3. PICK L : Ledger(entries, order, L) /\ L[Len(order)] = size
  BY <1>1 DEF AccountInv, Balanced
<1>4. Total(entries, order) = size
  BY <1>2, <1>3, LedgerIsTotal
<1> QED
  BY <1>2, <1>4 DEF CacheIsAccounted

\* Storing a page, before anything is evicted, keeps the balance.
LEMMA StoredBalances ==
  ASSUME AccountInv, NEW k \in Requests, NEW page, NEW at, Bytes(page) \in Nat
  PROVE  Balanced(Stored(k, page, at))
<1> DEFINE e == [revision |-> at, page |-> page]
           f == With(entries, k, e)
           c == Stored(k, page, at)
<1>1. Cache.entries = entries /\ Cache.order = order /\ Cache.size = size
  BY DEF Cache
<1>2. /\ order \in Seq(Requests)
      /\ IsInjective(order) /\ ToSet(order) = DOMAIN entries
      /\ \A x \in DOMAIN entries : Bytes(entries[x].page) \in Nat
  BY <1>1 DEF AccountInv, Balanced
<1>3. PICK L : Ledger(entries, order, L) /\ L[Len(order)] = size
  BY <1>1 DEF AccountInv, Balanced
<1>4. e.page = page
  OBVIOUS
<1> HIDE DEF e
<1>5. /\ DOMAIN f = DOMAIN entries \cup {k} /\ f[k] = e
      /\ \A x \in DOMAIN entries : x # k => f[x] = entries[x]
  BY DEF With
<1>6. /\ c.entries = f
      /\ c.order = IF k \in DOMAIN entries THEN order ELSE Append(order, k)
      /\ c.size = size - OldBytes(k) + Bytes(page)
  BY DEF Stored, e
<1> HIDE DEF f, c
<1>7. DOMAIN order = 1..Len(order) /\ Len(order) \in Nat
  BY <1>2
<1>8. \A n \in 1..Len(order) : order[n] \in DOMAIN entries /\ Bytes(entries[order[n]].page) \in Nat
  BY <1>2, <1>7 DEF ToSet
<1>9. \A x \in DOMAIN f : Bytes(f[x].page) \in Nat
  BY <1>2, <1>4, <1>5
<1>10. \A m, n \in 1..Len(order) : order[m] = order[n] => m = n
  BY <1>2, <1>7 DEF IsInjective
<1>11. CASE k \in DOMAIN entries
  <2>1. PICK i \in 1..Len(order) : order[i] = k
    BY <1>2, <1>7, <1>11 DEF ToSet
  <2>2. \A n \in 1..Len(order) : n # i => f[order[n]] = entries[order[n]]
    BY <1>5, <1>8, <1>10, <2>1
  <2>3. Bytes(f[order[i]].page) \in Nat
    BY <1>9, <1>5, <2>1
  <2>3a. ChangedLedger(entries, f, order, i, L)
    BY <1>2, <1>3, <1>8, <2>2, <2>3, LedgerChange
  <2>4. PICK M : /\ Ledger(f, order, M)
                 /\ M[Len(order)] = L[Len(order)] - Bytes(entries[order[i]].page)
                                    + Bytes(f[order[i]].page)
    BY <2>3a DEF ChangedLedger
  <2>5. OldBytes(k) = Bytes(entries[k].page)
    BY <1>11 DEF OldBytes
  <2>6. M[Len(order)] = c.size
    BY <1>3, <1>4, <1>5, <1>6, <2>1, <2>4, <2>5, Zenon
  <2>7. c.order = order /\ DOMAIN c.entries = DOMAIN entries
    BY <1>5, <1>6, <1>11
  <2>8. Balanced(c)
    BY <1>2, <1>6, <1>9, <2>4, <2>6, <2>7 DEF Balanced
  <2> QED
    BY <2>8 DEF c
<1>12. CASE k \notin DOMAIN entries
  <2>1. \A n \in 1..Len(order) : f[order[n]] = entries[order[n]]
    BY <1>5, <1>8, <1>12
  <2>2. Ledger(f, order, L)
    BY <1>3, <1>7, <2>1, LedgerSame
  <2>3. Bytes(f[k].page) \in Nat
    BY <1>9, <1>5
  <2>4. PICK M : /\ Ledger(f, Append(order, k), M)
                 /\ M[Len(order) + 1] = L[Len(order)] + Bytes(f[k].page)
    BY <1>2, <2>2, <2>3, LedgerAppend
  <2> DEFINE o == Append(order, k)
  <2>5. /\ o \in Seq(Requests) /\ Len(o) = Len(order) + 1
        /\ DOMAIN o = 1..(Len(order) + 1) /\ o[Len(order) + 1] = k
        /\ \A n \in 1..Len(order) : o[n] = order[n]
    BY <1>2
  <2> HIDE DEF o
  <2>6. IsInjective(o)
    BY <1>7, <1>8, <1>10, <1>12, <2>5 DEF IsInjective
  <2>7. ToSet(o) = DOMAIN f
    <3>1. \A n \in DOMAIN o : o[n] \in DOMAIN f
      BY <1>5, <1>7, <1>8, <2>5
    <3>2. ASSUME NEW x \in DOMAIN f PROVE \E n \in DOMAIN o : o[n] = x
      <4>1. CASE x = k
        BY <1>7, <2>5, <4>1
      <4>2. CASE x # k
        <5>1. x \in ToSet(order)
          BY <1>2, <1>5, <4>2
        <5>2. PICK n \in 1..Len(order) : order[n] = x
          BY <1>7, <5>1 DEF ToSet
        <5>3. n \in DOMAIN o /\ o[n] = x
          BY <1>7, <2>5, <5>2
        <5> QED
          BY <5>3
      <4> QED
        BY <4>1, <4>2
    <3> QED
      BY <3>1, <3>2 DEF ToSet
  <2>8. L[Len(order)] \in Int
    BY <1>3, <1>7 DEF Ledger
  <2>9. OldBytes(k) = 0
    BY <1>12 DEF OldBytes
  <2>10. M[Len(o)] = c.size
    BY <1>3, <1>4, <1>5, <1>6, <2>4, <2>5, <2>8, <2>9
  <2>11. c.order = o /\ c.entries = f
    BY <1>6, <1>12 DEF o
  <2>12. Ledger(f, o, M)
    BY <2>4 DEF o
  <2>13. Balanced(c)
    BY <1>9, <2>5, <2>6, <2>7, <2>10, <2>11, <2>12 DEF Balanced
  <2> QED
    BY <2>13 DEF c
<1> QED
  BY <1>11, <1>12

-----------------------------------------------------------------------------
(* The invariant: a revision stands for one library, for the requests, for *)
(* the entries and for the store.                                          *)

Asking(h) == pc[h] # "idle"

TypeInv ==
  /\ scenario \in DOMAIN Scenarios
  /\ library \in May.libraries
  /\ revision \in Nat
  /\ pc \in [Handlers -> {"idle", "asked", "building", "answered"}]
  /\ key = [h \in Handlers |-> key[h]]
  /\ seen = [h \in Handlers |-> seen[h]]
  /\ answer = [h \in Handlers |-> answer[h]]
  /\ \A h \in Handlers :
       Asking(h) => /\ key[h] \in May.keys
                    /\ seen[h].library \in May.libraries
                    /\ seen[h].revision \in 0..revision
  /\ \A h \in Handlers : pc[h] \in {"asked", "building"} => IsPage(key[h], Built(h))
  /\ \A k \in DOMAIN entries : entries[k].revision \in 0..revision

SnapshotsAgree ==
  \A h \in Handlers :
    Asking(h) =>
      /\ seen[h].revision = revision => seen[h].library = library
      /\ \A g \in Handlers :
           Asking(g) /\ seen[g].revision = seen[h].revision =>
             seen[g].library = seen[h].library

EntriesAgree ==
  \A k \in DOMAIN entries :
    /\ entries[k].revision = revision => entries[k].page = Answers[library][k]
    /\ \A h \in Handlers :
         Asking(h) /\ entries[k].revision = seen[h].revision =>
           entries[k].page = Answers[seen[h].library][k]

Inv == TypeInv /\ AccountInv /\ SnapshotsAgree /\ EntriesAgree /\ PageIsOfSnapshot

\* Nothing is cached and nobody asks at the beginning.
LEMMA InitInv == Init => Inv
<1> SUFFICES ASSUME Init PROVE Inv
  OBVIOUS
<1>1. TypeInv
  BY DEF Init, TypeInv, Asking, NoEntries
<1>2. SnapshotsAgree /\ EntriesAgree /\ PageIsOfSnapshot
  BY DEF Init, SnapshotsAgree, EntriesAgree, PageIsOfSnapshot, Asking, NoEntries
<1>3. AccountInv
  <2>1. Cache.entries = entries /\ Cache.order = <<>> /\ Cache.size = 0
    BY DEF Cache, Init
  <2>2. DOMAIN entries = {}
    BY DEF Init, NoEntries
  <2> DEFINE L == [n \in 0..0 |-> 0]
  <2>3. Ledger(entries, <<>>, L) /\ L[Len(<<>>)] = 0
    BY DEF Ledger
  <2> HIDE DEF L
  <2>4. IsInjective(<<>>) /\ ToSet(<<>>) = {} /\ <<>> \in Seq(Requests)
    BY DEF IsInjective, ToSet
  <2>5. Balanced(Cache)
    BY <2>1, <2>2, <2>3, <2>4 DEF Balanced
  <2>6. Fits(Cache)
    BY <2>1, CacheAssumption DEF Fits
  <2> QED
    BY <2>5, <2>6 DEF AccountInv
<1> QED
  BY <1>1, <1>2, <1>3 DEF Inv

\* What leaves the cache as it is leaves it in balance.
LEMMA AccountKept == AccountInv /\ UNCHANGED cache => AccountInv'
  BY DEF AccountInv, Cache, cache, Balanced, Fits, Ledger

\* A publication gives a revision that nobody has seen to a library.
LEMMA PublishInv == Inv /\ Publish => Inv'
<1> SUFFICES ASSUME Inv, Publish PROVE Inv'
  OBVIOUS
<1>1. AccountInv'
  BY AccountKept DEF Inv, Publish
<1>2. /\ revision \in Nat /\ revision' = revision + 1
      /\ UNCHANGED <<scenario, entries, pc, key, seen, answer>>
      /\ library' \in May.libraries
  BY DEF Inv, TypeInv, Publish, cache
<1>3. \A n \in 0..revision : n \in 0..revision' /\ n # revision'
  BY <1>2
<1>4. TypeInv'
  BY <1>2, <1>3 DEF Inv, TypeInv, Asking, May, Built
<1>5. SnapshotsAgree'
  BY <1>2, <1>3 DEF Inv, TypeInv, SnapshotsAgree, Asking
<1>6. EntriesAgree'
  BY <1>2, <1>3 DEF Inv, TypeInv, EntriesAgree, Asking
<1>7. PageIsOfSnapshot'
  BY <1>2 DEF Inv, PageIsOfSnapshot, Built
<1> QED
  BY <1>1, <1>4, <1>5, <1>6, <1>7 DEF Inv

\* A request sees the library of the revision it reads with it.
LEMMA AskInv == ASSUME NEW h \in Handlers PROVE Inv /\ Ask(h) => Inv'
<1> SUFFICES ASSUME Inv, Ask(h) PROVE Inv'
  OBVIOUS
<1>1. AccountInv'
  BY AccountKept DEF Inv, Ask
<1>2. PICK k \in May.keys : /\ key' = [key EXCEPT ![h] = k]
                            /\ Take(h, k, Answers[library][k])
  BY DEF Ask
<1>3. /\ UNCHANGED <<scenario, library, revision, entries>>
      /\ pc[h] = "idle"
      /\ seen' = [seen EXCEPT ![h] = [library |-> library, revision |-> revision]]
  BY DEF Ask, cache
<1>4. /\ key'[h] = k /\ seen'[h].library = library /\ seen'[h].revision = revision
      /\ \A g \in Handlers \ {h} : key'[g] = key[g] /\ seen'[g] = seen[g]
      /\ key' = [g \in Handlers |-> key'[g]] /\ seen' = [g \in Handlers |-> seen'[g]]
  BY <1>2, <1>3 DEF Inv, TypeInv
<1>5. /\ pc' \in [Handlers -> {"idle", "asked", "building", "answered"}]
      /\ \A g \in Handlers \ {h} : pc'[g] = pc[g] /\ answer'[g] = answer[g]
      /\ \/ pc'[h] = "asked" /\ IsPage(k, Answers[library][k])
         \/ pc'[h] = "answered" /\ answer'[h] = Answers[library][k]
      /\ answer' = [g \in Handlers |-> answer'[g]]
  <2>1. /\ pc \in [Handlers -> {"idle", "asked", "building", "answered"}]
        /\ answer = [g \in Handlers |-> answer[g]]
    BY DEF Inv, TypeInv
  <2>2. CASE IsPage(k, Answers[library][k])
    <3>1. pc' = [pc EXCEPT ![h] = "asked"] /\ answer' = answer
      BY <1>2, <2>2 DEF Take, Goto
    <3> QED
      BY <2>1, <2>2, <3>1
  <2>3. CASE ~IsPage(k, Answers[library][k])
    <3>1. /\ pc' = [pc EXCEPT ![h] = "answered"]
          /\ answer' = [answer EXCEPT ![h] = Answers[library][k]]
      BY <1>2, <2>3 DEF Take, Reply, Goto
    <3> QED
      BY <2>1, <3>1
  <2> QED
    BY <2>2, <2>3
<1>6. Built(h)' = Answers[library][k] /\ \A g \in Handlers \ {h} : Built(g)' = Built(g)
  BY <1>4 DEF Built
<1>7. \A g \in Handlers \ {h} : Asking(g)' = Asking(g)
  BY <1>5 DEF Asking
<1>8. TypeInv'
  <2>1. \A g \in Handlers :
          Asking(g)' => /\ key'[g] \in May.keys
                        /\ seen'[g].library \in May.libraries
                        /\ seen'[g].revision \in 0..revision
    BY <1>4, <1>7 DEF Inv, TypeInv
  <2>2. \A g \in Handlers : pc'[g] \in {"asked", "building"} => IsPage(key'[g], Built(g)')
    BY <1>4, <1>5, <1>6 DEF Inv, TypeInv
  <2>3. May' = May
    BY <1>3 DEF May
  <2> QED
    BY <1>3, <1>4, <1>5, <2>1, <2>2, <2>3 DEF Inv, TypeInv
<1>9. SnapshotsAgree'
  BY <1>3, <1>4, <1>7 DEF Inv, TypeInv, SnapshotsAgree
<1>10. EntriesAgree'
  BY <1>3, <1>4, <1>7 DEF Inv, TypeInv, EntriesAgree
<1>11. PageIsOfSnapshot'
  BY <1>4, <1>5, <1>6 DEF Inv, PageIsOfSnapshot
<1> QED
  BY <1>1, <1>8, <1>9, <1>10, <1>11 DEF Inv

\* What is served from the cache is of the revision that was seen.
LEMMA LookInv == ASSUME NEW h \in Handlers PROVE Inv /\ Look(h) => Inv'
<1> SUFFICES ASSUME Inv, Look(h) PROVE Inv'
  OBVIOUS
<1>1. AccountInv'
  BY AccountKept DEF Inv, Look
<1>2. /\ UNCHANGED <<scenario, library, revision, entries, key, seen>>
      /\ pc[h] = "asked" /\ Asking(h)
  BY DEF Look, cache, Asking
<1>3. /\ pc' \in [Handlers -> {"idle", "asked", "building", "answered"}]
      /\ answer' = [g \in Handlers |-> answer'[g]]
      /\ \A g \in Handlers \ {h} : pc'[g] = pc[g] /\ answer'[g] = answer[g]
      /\ \/ pc'[h] = "building"
         \/ pc'[h] = "answered" /\ answer'[h] = Built(h)
  <2>1. /\ pc \in [Handlers -> {"idle", "asked", "building", "answered"}]
        /\ answer = [g \in Handlers |-> answer[g]]
    BY DEF Inv, TypeInv
  <2>2. CASE key[h] \in DOMAIN entries /\ Fresh(entries[key[h]], h)
    <3>1. /\ pc' = [pc EXCEPT ![h] = "answered"]
          /\ answer' = [answer EXCEPT ![h] = entries[key[h]].page]
      BY <2>2 DEF Look, Reply, Goto
    <3>2. entries[key[h]].page = Built(h)
      BY <1>2, <2>2 DEF Inv, EntriesAgree, Fresh, Built
    <3> QED
      BY <2>1, <3>1, <3>2
  <2>3. CASE ~(key[h] \in DOMAIN entries /\ Fresh(entries[key[h]], h))
    <3>1. pc' = [pc EXCEPT ![h] = "building"] /\ answer' = answer
      BY <2>3 DEF Look, Goto
    <3> QED
      BY <2>1, <3>1
  <2> QED
    BY <2>2, <2>3
<1>4. \A g \in Handlers : Asking(g)' = Asking(g) /\ Built(g)' = Built(g)
  BY <1>2, <1>3 DEF Asking, Built
<1>5. TypeInv'
  BY <1>2, <1>3, <1>4 DEF Inv, TypeInv, May
<1>6. SnapshotsAgree' /\ EntriesAgree'
  BY <1>2, <1>4 DEF Inv, SnapshotsAgree, EntriesAgree
<1>7. PageIsOfSnapshot'
  BY <1>3, <1>4 DEF Inv, PageIsOfSnapshot
<1> QED
  BY <1>1, <1>5, <1>6, <1>7 DEF Inv

\* What is in the cache after a page was stored: that page, or what was there.
LEMMA StoreKeeps ==
  ASSUME Inv, NEW h \in Handlers, Store(h)
  PROVE  /\ AccountInv'
         /\ \A k \in DOMAIN entries' :
              \/ k = key[h] /\ entries'[k] = [revision |-> seen[h].revision, page |-> Built(h)]
              \/ k \in DOMAIN entries /\ entries'[k] = entries[k]
<1> DEFINE c == Stored(key[h], Built(h), seen[h].revision)
           d == Evicted(c)
<1>1. /\ entries' = d.entries /\ order' = d.order /\ size' = d.size
  BY DEF Store, Keep
<1>2. pc[h] = "building" /\ Asking(h)
  BY DEF Store, Asking
<1>3. key[h] \in Requests /\ Bytes(Built(h)) \in Nat
  <2>1. /\ scenario \in DOMAIN Scenarios /\ key[h] \in Scenarios[scenario].keys
        /\ seen[h].library \in Scenarios[scenario].libraries
        /\ IsPage(key[h], Built(h))
    BY <1>2 DEF Inv, TypeInv, May
  <2>2. key[h] \in Requests
    BY <2>1 DEF Requests
  <2>3. seen[h].library \in DOMAIN Answers
    BY <2>1, CacheAssumption
  <2> QED
    BY <2>1, <2>2, <2>3, CacheAssumption DEF Built
<1>4. Balanced(c)
  BY <1>3, StoredBalances DEF Inv
<1>5. c.entries = With(entries, key[h], [revision |-> seen[h].revision, page |-> Built(h)])
  BY DEF Stored
<1> HIDE DEF c
<1>6. Balanced(d) /\ Fits(d) /\ Keeps(c, d)
  BY <1>4, EvictedFits
<1> HIDE DEF d
<1>7. Cache'.entries = d.entries /\ Cache'.order = d.order /\ Cache'.size = d.size
  BY <1>1 DEF Cache
<1>8. AccountInv'
  BY <1>6, <1>7 DEF AccountInv, Balanced, Fits, Ledger
<1>9. \A k \in DOMAIN entries' : k \in DOMAIN c.entries /\ entries'[k] = c.entries[k]
  BY <1>1, <1>6 DEF Keeps
<1> QED
  BY <1>5, <1>8, <1>9 DEF With

\* What is built and stored is of the revision that was seen.
LEMMA StoreInv == ASSUME NEW h \in Handlers PROVE Inv /\ Store(h) => Inv'
<1> SUFFICES ASSUME Inv, Store(h) PROVE Inv'
  OBVIOUS
<1>1. AccountInv'
  BY StoreKeeps
<1>2. /\ UNCHANGED <<scenario, library, revision, key, seen>>
      /\ pc[h] = "building" /\ Asking(h)
      /\ pc' = [pc EXCEPT ![h] = "answered"]
      /\ answer' = [answer EXCEPT ![h] = Built(h)]
  BY DEF Store, Reply, Goto, Asking
<1>3. \A k \in DOMAIN entries' :
        \/ k = key[h] /\ entries'[k].revision = seen[h].revision /\ entries'[k].page = Built(h)
        \/ k \in DOMAIN entries /\ entries'[k] = entries[k]
  BY StoreKeeps
<1>4. /\ pc' \in [Handlers -> {"idle", "asked", "building", "answered"}]
      /\ answer' = [g \in Handlers |-> answer'[g]]
      /\ pc'[h] = "answered" /\ answer'[h] = Built(h)
      /\ \A g \in Handlers \ {h} : pc'[g] = pc[g] /\ answer'[g] = answer[g]
  BY <1>2 DEF Inv, TypeInv
<1>5. \A g \in Handlers : Asking(g)' = Asking(g) /\ Built(g)' = Built(g)
  BY <1>2, <1>4 DEF Asking, Built
<1>6. TypeInv'
  <2>1. \A k \in DOMAIN entries' : entries'[k].revision \in 0..revision
    BY <1>2, <1>3 DEF Inv, TypeInv
  <2>2. \A g \in Handlers : pc'[g] \in {"asked", "building"} => IsPage(key[g], Built(g)')
    BY <1>4, <1>5 DEF Inv, TypeInv
  <2> QED
    BY <1>2, <1>4, <1>5, <2>1, <2>2 DEF Inv, TypeInv, May
<1>7. SnapshotsAgree'
  BY <1>2, <1>5 DEF Inv, SnapshotsAgree
<1>8. EntriesAgree'
  <2>1. ASSUME NEW k \in DOMAIN entries', entries'[k].revision = revision
        PROVE  entries'[k].page = Answers[library][k]
    BY <1>2, <1>3, <2>1 DEF Inv, EntriesAgree, SnapshotsAgree, Built
  <2>2. ASSUME NEW k \in DOMAIN entries', NEW g \in Handlers, Asking(g),
               entries'[k].revision = seen[g].revision
        PROVE  entries'[k].page = Answers[seen[g].library][k]
    BY <1>2, <1>3, <2>2 DEF Inv, EntriesAgree, SnapshotsAgree, Built
  <2> QED
    BY <1>2, <1>5, <2>1, <2>2 DEF EntriesAgree
<1>9. PageIsOfSnapshot'
  BY <1>4, <1>5 DEF Inv, PageIsOfSnapshot
<1> QED
  BY <1>1, <1>6, <1>7, <1>8, <1>9 DEF Inv

\* A handler that returns forgets its request.
LEMMA ReturnInv == ASSUME NEW h \in Handlers PROVE Inv /\ Return(h) => Inv'
<1> SUFFICES ASSUME Inv, Return(h) PROVE Inv'
  OBVIOUS
<1>1. AccountInv'
  BY AccountKept DEF Inv, Return
<1>2. /\ UNCHANGED <<scenario, library, revision, entries>>
      /\ pc' = [pc EXCEPT ![h] = "idle"]
      /\ key' = [key EXCEPT ![h] = Nothing]
      /\ seen' = [seen EXCEPT ![h] = Nothing]
      /\ answer' = [answer EXCEPT ![h] = Nothing]
  BY DEF Return, Goto, cache
<1>3. /\ pc' \in [Handlers -> {"idle", "asked", "building", "answered"}]
      /\ key' = [g \in Handlers |-> key'[g]] /\ seen' = [g \in Handlers |-> seen'[g]]
      /\ answer' = [g \in Handlers |-> answer'[g]]
      /\ pc'[h] = "idle"
      /\ \A g \in Handlers \ {h} :
           pc'[g] = pc[g] /\ key'[g] = key[g] /\ seen'[g] = seen[g] /\ answer'[g] = answer[g]
  BY <1>2 DEF Inv, TypeInv
<1>4. \A g \in Handlers :
        Asking(g)' => /\ g # h /\ Asking(g) /\ pc'[g] = pc[g] /\ Built(g)' = Built(g)
                      /\ key'[g] = key[g] /\ seen'[g] = seen[g] /\ answer'[g] = answer[g]
  BY <1>3 DEF Asking, Built
<1>5. TypeInv'
  <2>1. \A g \in Handlers : pc'[g] \in {"asked", "building"} => IsPage(key'[g], Built(g)')
    BY <1>4 DEF Inv, TypeInv, Asking
  <2> QED
    BY <1>2, <1>3, <1>4, <2>1 DEF Inv, TypeInv, May
<1>6. SnapshotsAgree'
  BY <1>2, <1>4 DEF Inv, SnapshotsAgree
<1>7. EntriesAgree'
  BY <1>2, <1>4 DEF Inv, EntriesAgree
<1>8. PageIsOfSnapshot'
  BY <1>4 DEF Inv, PageIsOfSnapshot, Asking
<1> QED
  BY <1>1, <1>5, <1>6, <1>7, <1>8 DEF Inv

\* Every step keeps the invariant.
LEMMA StepInv == Inv /\ [Next]_vars => Inv'
<1> SUFFICES ASSUME Inv, [Next]_vars PROVE Inv'
  OBVIOUS
<1>1. CASE UNCHANGED vars
  <2>1. AccountInv'
    BY <1>1, AccountKept DEF Inv, vars
  <2> QED
    BY <1>1, <2>1 DEF Inv, TypeInv, SnapshotsAgree, EntriesAgree, PageIsOfSnapshot,
                      Asking, Built, May, vars, cache
<1> QED
  BY <1>1, PublishInv, AskInv, LookInv, StoreInv, ReturnInv DEF Next

\* The invariant holds throughout.
LEMMA Invariance == Spec => []Inv
<1> QED
  BY InitInv, StepInv, PTL DEF Spec

\* A request is answered with the page of the library that it saw, whatever is
\* published, built and stored by others between its steps.
THEOREM PageIsOfSnapshotHolds == Spec => []PageIsOfSnapshot
<1>1. Inv => PageIsOfSnapshot
  BY DEF Inv
<1> QED
  BY <1>1, Invariance, PTL

\* The size of the cache is that of its pages, its list names each of them
\* once, and both bounds hold, for every sequence of pages of any lengths.
THEOREM CacheIsAccountedHolds == Spec => []CacheIsAccounted
<1>1. Inv => CacheIsAccounted
  BY AccountIsExact DEF Inv
<1> QED
  BY <1>1, Invariance, PTL

-----------------------------------------------------------------------------
(* Queries. Match and RuleSQL are recursive functions over the rules; an   *)
(* evaluation is what either computes.                                     *)

\* What the rules of a tree come to when its leaves come to the given values.
Eval(m, leaf) ==
  [r \in Rules |-> \/ r.mode = "all" /\ \A i \in DOMAIN r.rules : m[r.rules[i]]
                   \/ r.mode = "any" /\ \E i \in DOMAIN r.rules : m[r.rules[i]]
                   \/ r.mode = "" /\ leaf[r]]

\* There is such an evaluation: the smallest set of rules that holds all the
\* rules that follow from it. 
LEMMA EvalExists ==
  ASSUME NEW leaf
  PROVE  \E m : m = Eval(m, leaf)
<1> DEFINE From(S) == {r \in Rules :
              \/ r.mode = "all" /\ \A i \in DOMAIN r.rules : r.rules[i] \in S
              \/ r.mode = "any" /\ \E i \in DOMAIN r.rules : r.rules[i] \in S
              \/ r.mode = "" /\ leaf[r]}
           Least == {r \in Rules : \A S \in SUBSET Rules : From(S) \subseteq S => r \in S}
<1>1. \A S, T \in SUBSET Rules : S \subseteq T => From(S) \subseteq From(T)
  OBVIOUS
<1>2. \A S \in SUBSET Rules : From(S) \subseteq S => Least \subseteq S
  OBVIOUS
<1>3. \A T \in SUBSET Rules :
        (\A S \in SUBSET Rules : From(S) \subseteq S => T \subseteq S) => T \subseteq Least
  OBVIOUS
<1>4. Least \in SUBSET Rules /\ \A S \in SUBSET Rules : From(S) \in SUBSET Rules
  OBVIOUS
<1>5. \A r \in Rules : r \in From(Least) <=>
              \/ r.mode = "all" /\ \A i \in DOMAIN r.rules : r.rules[i] \in Least
              \/ r.mode = "any" /\ \E i \in DOMAIN r.rules : r.rules[i] \in Least
              \/ r.mode = "" /\ leaf[r]
  OBVIOUS
<1> HIDE DEF From, Least
<1>6. From(Least) \subseteq Least
  <2>1. \A S \in SUBSET Rules : From(S) \subseteq S => From(Least) \subseteq S
    BY <1>1, <1>2, <1>4
  <2> QED
    BY <1>3, <1>4, <2>1
<1>7. Least = From(Least)
  <2>1. From(From(Least)) \subseteq From(Least)
    BY <1>1, <1>4, <1>6
  <2> QED
    BY <1>2, <1>4, <1>6, <2>1
<1> DEFINE m == [r \in Rules |-> r \in Least]
<1>8. \A r \in Rules : \A i \in DOMAIN r.rules : r.mode # "" => r.rules[i] \in Rules
  <2>1. \A r \in Rules : Parts(r) \subseteq Rules
    BY RuleAssumption
  <2> QED
    BY <2>1 DEF Parts, Range
<1>9. ASSUME NEW r \in Rules
      PROVE  r \in Least <=>
               \/ r.mode = "all" /\ \A i \in DOMAIN r.rules : m[r.rules[i]]
               \/ r.mode = "any" /\ \E i \in DOMAIN r.rules : m[r.rules[i]]
               \/ r.mode = "" /\ leaf[r]
  <2>1. r.mode # "" => \A i \in DOMAIN r.rules : (m[r.rules[i]] <=> r.rules[i] \in Least)
    BY <1>8
  <2>2. r \in Least <=>
              \/ r.mode = "all" /\ \A i \in DOMAIN r.rules : r.rules[i] \in Least
              \/ r.mode = "any" /\ \E i \in DOMAIN r.rules : r.rules[i] \in Least
              \/ r.mode = "" /\ leaf[r]
    BY <1>5, <1>7
  <2> HIDE DEF m
  <2>3. CASE r.mode = ""
    BY <2>2, <2>3
  <2>4. CASE r.mode = "all"
    BY <2>1, <2>2, <2>4
  <2>5. CASE r.mode = "any"
    BY <2>1, <2>2, <2>5
  <2> QED
    BY <2>2, <2>3, <2>4, <2>5
<1>10. m = Eval(m, leaf)
  <2>1. ASSUME NEW r \in Rules PROVE m[r] = Eval(m, leaf)[r]
    <3> DEFINE holds == \/ r.mode = "all" /\ \A i \in DOMAIN r.rules : m[r.rules[i]]
                        \/ r.mode = "any" /\ \E i \in DOMAIN r.rules : m[r.rules[i]]
                        \/ r.mode = "" /\ leaf[r]
    <3>1. m[r] = (r \in Least)
      OBVIOUS
    <3>2. Eval(m, leaf)[r] = holds
      BY DEF Eval
    <3>3. r \in Least <=> holds
      BY <1>9
    <3>4. m[r] \in BOOLEAN /\ holds \in BOOLEAN
      OBVIOUS
    <3> HIDE DEF m, holds
    <3> QED
      BY <3>1, <3>2, <3>3, <3>4
  <2>2. Eval(m, leaf) = [r \in Rules |-> Eval(m, leaf)[r]]
    BY DEF Eval
  <2>3. m = [r \in Rules |-> m[r]]
    OBVIOUS
  <2> HIDE DEF m
  <2> QED
    BY <2>1, <2>2, <2>3
<1> QED
  BY <1>10

\* and but one, since rules are trees.
LEMMA EvalUnique ==
  ASSUME NEW leaf, NEW m, NEW n, m = Eval(m, leaf), n = Eval(n, leaf)
  PROVE  m = n
<1> DEFINE S == {r \in Rules : r.mode # "" /\ m[r] # n[r]}
<1>1. \A r \in Rules : r.mode = "" => m[r] = n[r]
  BY DEF Eval
<1>2. ASSUME NEW r \in S PROVE Parts(r) \cap S # {}
  <2>1. \A i \in DOMAIN r.rules : r.rules[i] \in Rules /\ r.rules[i] \in Parts(r)
    BY RuleAssumption DEF Parts, Range
  <2>2. SUFFICES ASSUME \A i \in DOMAIN r.rules : m[r.rules[i]] = n[r.rules[i]] PROVE FALSE
    BY <1>1, <2>1
  <2>3. r \in Rules /\ m[r] # n[r]
    OBVIOUS
  <2> HIDE DEF S
  <2>4. /\ m[r] = (\/ r.mode = "all" /\ \A i \in DOMAIN r.rules : m[r.rules[i]]
                   \/ r.mode = "any" /\ \E i \in DOMAIN r.rules : m[r.rules[i]]
                   \/ r.mode = "" /\ leaf[r])
        /\ n[r] = (\/ r.mode = "all" /\ \A i \in DOMAIN r.rules : n[r.rules[i]]
                   \/ r.mode = "any" /\ \E i \in DOMAIN r.rules : n[r.rules[i]]
                   \/ r.mode = "" /\ leaf[r])
    BY <2>3, ZenonT(60) DEF Eval
  <2> QED
    BY <2>2, <2>3, <2>4, ZenonT(60)
<1>3. S = {}
  BY <1>2, RuleAssumption
<1> QED
  BY <1>1, <1>3 DEF Eval

LeafOutcomes(t) == [r \in Rules |-> MatchLeaf(r, t)]

\* Match is an evaluation of the rules over what their leaves say of a track.
LEMMA MatchIsEval ==
  ASSUME NEW t
  PROVE  \E m : m = Eval(m, LeafOutcomes(t)) /\ \A r \in Rules : Match(r, t) = m[r]
<1> DEFINE Is(m) == m = [r \in Rules |->
              \/ r.mode = "all" /\ \A i \in DOMAIN r.rules : m[r.rules[i]]
              \/ r.mode = "any" /\ \E i \in DOMAIN r.rules : m[r.rules[i]]
              \/ r.mode = "" /\ MatchLeaf(r, t)]
<1>1. \A m : Is(m) <=> m = Eval(m, LeafOutcomes(t))
  BY DEF Eval, LeafOutcomes
<1>2. Is(CHOOSE m : Is(m))
  BY <1>1, EvalExists
<1>3. \A r \in Rules : Match(r, t) = (CHOOSE m : Is(m))[r]
  BY DEF Match
<1> QED
  BY <1>1, <1>2, <1>3

-----------------------------------------------------------------------------
(* The tables are a projection of the tracks.                              *)

\* Every track has its projection, and no row is left of a track that is gone;
\* while the store is closed, in as far as the tables exist.
Projection ==
  /\ search = IF "track_search" \in tables THEN [id \in DOMAIN tracks |-> Row(tracks[id])]
              ELSE NoRows
  /\ tags = IF "track_tag_index" \in tables
            THEN UNION {TagRows(tracks[id]) : id \in DOMAIN tracks} ELSE {}

TablesInv ==
  /\ opened \in BOOLEAN /\ tables \subseteq Lookup /\ (opened => tables = Lookup)
  /\ IsFiniteSet(DOMAIN tracks)
  /\ \A id \in DOMAIN tracks : IsTrack(tracks[id]) /\ tracks[id].id = id
  /\ Projection

\* The tag rows of a track carry its ID.
LEMMA TagRowsOf ==
  ASSUME NEW t, NEW r \in TagRows(t)
  PROVE  r[1] = t.id
BY DEF TagRows

\* Saving a track writes its rows anew, in every table.
LEMMA SaveInv ==
  ASSUME TablesInv, NEW t \in Versions, Save(t)
  PROVE  TablesInv'
<1>1. IsTrack(t)
  BY QueryAssumption
<1>2. /\ tracks' = [id \in DOMAIN tracks \cup {t.id} |-> IF id = t.id THEN t ELSE tracks[id]]
      /\ search' = [id \in DOMAIN search \cup {t.id} |-> IF id = t.id THEN Row(t) ELSE search[id]]
      /\ tags' = (tags \ Of(t.id)) \cup TagRows(t)
      /\ tables' = tables /\ opened' = opened /\ tables = Lookup
      /\ "track_search" \in tables /\ "track_tag_index" \in tables
  BY DEF Save, TablesInv, Lookup
<1>3. IsFiniteSet(DOMAIN tracks') /\ DOMAIN tracks' = DOMAIN tracks \cup {t.id}
  BY <1>2, FS_AddElement DEF TablesInv
<1>4. \A id \in DOMAIN tracks' : IsTrack(tracks'[id]) /\ tracks'[id].id = id
  BY <1>1, <1>2 DEF TablesInv
<1>5. search' = [id \in DOMAIN tracks' |-> Row(tracks'[id])]
  <2>1. DOMAIN search = DOMAIN tracks /\ \A id \in DOMAIN tracks : search[id] = Row(tracks[id])
    BY <1>2 DEF TablesInv, Projection
  <2> QED
    BY <1>2, <2>1
<1>6. tags' = UNION {TagRows(tracks'[id]) : id \in DOMAIN tracks'}
  <2>1. tags = UNION {TagRows(tracks[id]) : id \in DOMAIN tracks}
    BY <1>2 DEF TablesInv, Projection
  <2>2. \A id \in DOMAIN tracks : \A r \in TagRows(tracks[id]) : r[1] = id
    BY TagRowsOf DEF TablesInv
  <2>3. tags \ Of(t.id) = UNION {TagRows(tracks[id]) : id \in DOMAIN tracks \ {t.id}}
    BY <2>1, <2>2 DEF Of
  <2> QED
    BY <1>2, <2>3
<1> QED
  BY <1>2, <1>3, <1>4, <1>5, <1>6 DEF TablesInv, Projection

\* A favorite changes the row of the track alone.
LEMMA FavoriteInv ==
  ASSUME TablesInv, NEW i \in DOMAIN tracks, Favorite(i)
  PROVE  TablesInv'
<1>1. /\ tracks' = [tracks EXCEPT ![i].favorite = ~@] /\ DOMAIN tracks' = DOMAIN tracks
      /\ UNCHANGED <<search, tags, tables, opened>>
  BY DEF Favorite
<1>2. ASSUME NEW id \in DOMAIN tracks
      PROVE  /\ DOMAIN tracks'[id] = DOMAIN tracks[id]
             /\ tracks'[id].favorite \in BOOLEAN
             /\ \A f \in DOMAIN tracks[id] : f # "favorite" => tracks'[id][f] = tracks[id][f]
  <2>1. IsTrack(tracks[id])
    BY DEF TablesInv
  <2>2. CASE id # i
    BY <1>1, <2>1, <2>2 DEF IsTrack
  <2>3. CASE id = i
    <3>1. tracks'[i] = [tracks[i] EXCEPT !.favorite = ~@]
      BY <1>1
    <3> QED
      BY <2>1, <2>3, <3>1 DEF IsTrack
  <2> QED
    BY <2>2, <2>3
<1>3. ASSUME NEW id \in DOMAIN tracks
      PROVE  IsTrack(tracks'[id]) /\ tracks'[id].id = id
  <2>1. IsTrack(tracks[id]) /\ tracks[id].id = id
    BY DEF TablesInv
  <2>2. "favorite" \notin TextFields \cup NumberFields
    BY DEF TextFields, NumberFields
  <2> QED
    BY <1>2, <2>1, <2>2 DEF IsTrack
<1>4. ASSUME NEW id \in DOMAIN tracks
      PROVE  Row(tracks'[id]) = Row(tracks[id]) /\ TagRows(tracks'[id]) = TagRows(tracks[id])
  <2>1. \A f \in Projected \cup Ordered : Value(tracks'[id], f) = Value(tracks[id], f)
    <3>1. TextFields \cup NumberFields \subseteq DOMAIN tracks[id]
      BY DEF TablesInv, IsTrack
    <3>2. \A f \in TextFields \cup NumberFields : tracks'[id][f] = tracks[id][f]
      BY <1>2, <3>1 DEF TextFields, NumberFields
    <3>3. Projected \cup Ordered \subseteq TextFields \cup NumberFields /\ "bpm" \in NumberFields
          /\ "favorite" \notin TextFields \cup NumberFields
      BY DEF Projected, Ordered, TextFields, NumberFields
    <3> QED
      BY <3>2, <3>3 DEF Value
  <2>2. Row(tracks'[id]) = Row(tracks[id])
    BY <2>1 DEF Row
  <2>3. tracks'[id].tags = tracks[id].tags /\ tracks'[id].id = tracks[id].id
    BY <1>2 DEF TablesInv, IsTrack
  <2> QED
    BY <2>2, <2>3 DEF TagRows
<1>5. Projection'
  <2>1. [id \in DOMAIN tracks' |-> Row(tracks'[id])] = [id \in DOMAIN tracks |-> Row(tracks[id])]
    BY <1>1, <1>4
  <2>2. UNION {TagRows(tracks'[id]) : id \in DOMAIN tracks'}
          = UNION {TagRows(tracks[id]) : id \in DOMAIN tracks}
    BY <1>1, <1>4
  <2> QED
    BY <1>1, <2>1, <2>2 DEF TablesInv, Projection, NoRows
<1> QED
  BY <1>1, <1>3, <1>5 DEF TablesInv

\* Forgetting a track deletes its rows.
LEMMA ForgetInv ==
  ASSUME TablesInv, NEW i \in DOMAIN tracks, Forget(i)
  PROVE  TablesInv'
<1>1. /\ tracks' = [id \in DOMAIN tracks \ {i} |-> tracks[id]]
      /\ search' = [id \in DOMAIN search \ {i} |-> search[id]]
      /\ tags' = tags \ Of(i)
      /\ tables' = tables /\ opened' = opened /\ tables = Lookup
      /\ "track_search" \in tables /\ "track_tag_index" \in tables
  BY DEF Forget, TablesInv, Lookup
<1>2. IsFiniteSet(DOMAIN tracks') /\ DOMAIN tracks' = DOMAIN tracks \ {i}
  BY <1>1, FS_RemoveElement DEF TablesInv
<1>3. search' = [id \in DOMAIN tracks' |-> Row(tracks'[id])]
  BY <1>1 DEF TablesInv, Projection
<1>4. tags' = UNION {TagRows(tracks'[id]) : id \in DOMAIN tracks'}
  <2>1. tags = UNION {TagRows(tracks[id]) : id \in DOMAIN tracks}
    BY <1>1 DEF TablesInv, Projection
  <2>2. \A id \in DOMAIN tracks : \A r \in TagRows(tracks[id]) : r[1] = id
    BY TagRowsOf DEF TablesInv
  <2> QED
    BY <1>1, <2>1, <2>2 DEF Of
<1> QED
  BY <1>1, <1>2, <1>3, <1>4 DEF TablesInv, Projection

\* Opening the store fills the tables from the tracks.
LEMMA OpenInv ==
  ASSUME TablesInv, Open
  PROVE  TablesInv'
<1>1. opened' = TRUE /\ tables' = Lookup /\ tracks' = tracks
  BY DEF Open
<1>2. CASE tables = Lookup
  <2>1. "track_search" \in tables /\ "track_tag_index" \in tables /\ Kept = search
    BY <1>2 DEF Lookup, Kept
  <2>2. search = [id \in DOMAIN tracks |-> Row(tracks[id])]
        /\ tags = UNION {TagRows(tracks[id]) : id \in DOMAIN tracks}
    BY <2>1 DEF TablesInv, Projection
  <2>3. DOMAIN tracks \ DOMAIN Kept = {}
    BY <2>1, <2>2
  <2>4. search' = [id \in DOMAIN tracks |-> search[id]] /\ tags' = tags
    BY <1>2, <2>3 DEF Open
  <2>5. Projection'
    BY <1>1, <1>2, <2>1, <2>2, <2>4 DEF Projection
  <2> QED
    BY <1>1, <1>2, <2>5 DEF TablesInv
<1>3. CASE tables # Lookup
  <2>1. DOMAIN tracks \ DOMAIN Kept = DOMAIN tracks
    BY <1>3 DEF Kept, NoRows
  <2>2. /\ search' = [id \in DOMAIN tracks |-> Row(tracks[id])]
        /\ tags' = UNION {TagRows(tracks[id]) : id \in DOMAIN tracks}
    BY <1>3, <2>1 DEF Open
  <2>3. Projection'
    BY <1>1, <2>2 DEF Projection, Lookup
  <2> QED
    BY <1>1, <2>3 DEF TablesInv
<1> QED
  BY <1>2, <1>3

\* Once the store is open, the tables are a projection of its tracks
\* (store.go), whatever is saved, changed or forgotten in between.
THEOREM TablesInvHolds == QuerySpec => []TablesInv
<1>1. QueryInit => TablesInv
  BY FS_EmptySet DEF QueryInit, TablesInv, Projection, NoRows
<1>2. TablesInv /\ [QueryNext]_queryVars => TablesInv'
  <2> SUFFICES ASSUME TablesInv, [QueryNext]_queryVars PROVE TablesInv'
    OBVIOUS
  <2>1. ASSUME NEW t \in Versions, Save(t) PROVE TablesInv'
    BY <2>1, SaveInv
  <2>2. ASSUME NEW id \in DOMAIN tracks, Favorite(id) PROVE TablesInv'
    BY <2>2, FavoriteInv
  <2>3. ASSUME NEW id \in DOMAIN tracks, Forget(id) PROVE TablesInv'
    BY <2>3, ForgetInv
  <2>4. CASE Close
    BY <2>4 DEF Close, TablesInv, Projection
  <2>5. CASE Open
    BY <2>5, OpenInv
  <2>6. ASSUME NEW table \in Lookup, Drop(table) PROVE TablesInv'
    BY <2>6 DEF Drop, TablesInv, Projection, Lookup
  <2>7. CASE UNCHANGED queryVars
    BY <2>7 DEF queryVars, TablesInv, Projection
  <2> QED
    BY <2>1, <2>2, <2>3, <2>4, <2>5, <2>6, <2>7 DEF QueryNext
<1> QED
  BY <1>1, <1>2, PTL DEF QuerySpec

-----------------------------------------------------------------------------
(* What a clause says of a row is what the rule says of the track.         *)

\* A column of a row that is a field holds the value of the track.
LEMMA ColumnIs ==
  ASSUME TablesInv, opened, NEW id \in DOMAIN tracks, NEW f \in Fixed
  PROVE  Column(f, id) = Value(tracks[id], f) /\ Key(f, id) = Value(tracks[id], f)
<1>1. "track_search" \in tables
  BY DEF TablesInv, Lookup
<1>2. search[id] = Row(tracks[id])
  BY <1>1 DEF TablesInv, Projection
<1>3. Projected \cup Ordered \subseteq Fixed
  BY DEF Projected, Ordered, Fixed, TextFields, NumberFields
<1>4. Column(f, id) = Value(tracks[id], f)
  <2>1. CASE f \in Projected
    BY <1>2, <2>1 DEF Column, Row
  <2>2. CASE f \notin Projected
    BY <2>2 DEF Column
  <2> QED
    BY <2>1, <2>2
<1>5. CASE f \in Projected \cup Ordered
  BY <1>2, <1>4, <1>5 DEF Key, Row
<1>6. CASE f \notin Projected \cup Ordered
  BY <1>4, <1>6 DEF Key
<1> QED
  BY <1>4, <1>5, <1>6

\* What is no column, no field and no tag has a value nowhere.
LEMMA ColumnIsNot ==
  ASSUME NEW id, NEW f, f \notin Fixed, f \notin Columns \cup DOMAIN TagOf
  PROVE  Key(f, id) = Null /\ Value(tracks[id], f) = 0
<1>1. f \notin Projected \cup Ordered
  BY DEF Projected, Ordered, Fixed, TextFields, NumberFields
<1>2. Column(f, id) = Null
  BY <1>1 DEF Column
<1>3. f \notin TextFields /\ f \notin NumberFields /\ f # "favorite" /\ f # "bpm"
  BY DEF Fixed, NumberFields
<1> QED
  BY <1>1, <1>2, <1>3 DEF Key, Value

\* A folded text is a number, its rank.
LEMMA FoldIs ==
  ASSUME NEW text \in DOMAIN Fold
  PROVE  Fold[text] \in Nat
BY RuleAssumption

\* No number is the missing value.
LEMMA NatNotNull == \A n \in Nat : n # Null
BY DEF Null

\* What is in a sequence over S is in S.
LEMMA ToSetIn ==
  ASSUME NEW S, NEW s \in Seq(S), NEW x \in ToSet(s)
  PROVE  x \in S
BY DEF ToSet

\* A value is a number, or missing in the one field that may be.
LEMMA ValueIs ==
  ASSUME NEW t, IsTrack(t), NEW f
  PROVE  /\ Value(t, f) \in Nat \cup {Null}
         /\ f # "bpm" => Value(t, f) \in Nat
         /\ f = "bpm" => Value(t, f) # 0
         /\ EmptySQL(f, Value(t, f)) <=> Missing(t, f)
<1>1. CASE f \in TextFields
  <2>1. Value(t, f) = Fold[t[f]] /\ f # "bpm"
    BY <1>1 DEF Value, TextFields, NumberFields
  <2>2. t[f] \in DOMAIN Fold
    BY <1>1 DEF IsTrack
  <2> QED
    BY <2>1, <2>2, FoldIs DEF EmptySQL, Missing, NoValue
<1>2. CASE f = "bpm"
  <2>1. Value(t, f) = IF t.bpm = 0 THEN Null ELSE t.bpm
    BY <1>2 DEF Value, TextFields, NumberFields
  <2>2. t.bpm \in Nat
    BY DEF IsTrack, NumberFields
  <2> QED
    BY <1>2, <2>1, <2>2 DEF Null, EmptySQL, Missing, NoValue
<1>3. CASE f = "favorite"
  BY <1>3 DEF Value, EmptySQL, Missing, NoValue, TextFields, NumberFields, IsTrack
<1>4. CASE f \in NumberFields \ {"bpm"}
  <2>1. Value(t, f) = t[f] /\ t[f] \in Nat
    BY <1>4 DEF Value, TextFields, NumberFields, IsTrack
  <2> QED
    BY <1>4, <2>1 DEF EmptySQL, Missing, NoValue
<1>5. CASE f \notin TextFields \cup NumberFields \cup {"favorite"}
  <2>1. f # "bpm" /\ Value(t, f) = IF f \in DOMAIN TagOf THEN TagText[t.tags[TagOf[f]]] ELSE 0
    BY <1>5 DEF Value, NumberFields
  <2>2. f \in DOMAIN TagOf => TagText[t.tags[TagOf[f]]] \in Nat
    <3>1. TagOf \in [DOMAIN TagOf -> TagNames] /\ TagText \in [DOMAIN TagText -> Nat]
      BY RuleAssumption
    <3>2. t.tags \in [TagNames -> DOMAIN TagText]
      BY DEF IsTrack
    <3> QED
      BY <3>1, <3>2
  <2> QED
    BY <2>1, <2>2 DEF EmptySQL, Missing, NoValue
<1> QED
  BY <1>1, <1>2, <1>3, <1>4, <1>5

\* The tag rows of a track hold its folded values.
LEMMA TagValuesAre ==
  ASSUME TablesInv, opened, NEW id \in DOMAIN tracks, NEW f \in TagNames
  PROVE  {r[3] : r \in {r \in tags : r[1] = id /\ r[2] = f}}
           = {Fold[v] : v \in ToSet(tracks[id].tags[f])}
<1>1. tags = UNION {TagRows(tracks[i]) : i \in DOMAIN tracks}
  BY DEF TablesInv, Projection, Lookup
<1>2. \A i \in DOMAIN tracks : tracks[i].id = i
  BY DEF TablesInv
<1>3. ASSUME NEW i \in DOMAIN tracks, NEW n \in TagNames, NEW v \in ToSet(tracks[i].tags[n])
      PROVE  <<i, n, Fold[v]>> \in tags
  BY <1>1, <1>2 DEF TagRows
<1>4. ASSUME NEW r \in tags
      PROVE  \E i \in DOMAIN tracks, n \in TagNames : \E v \in ToSet(tracks[i].tags[n]) :
               r = <<i, n, Fold[v]>>
  BY <1>1, <1>2 DEF TagRows
<1> DEFINE rows == {r \in tags : r[1] = id /\ r[2] = f}
<1>6. ASSUME NEW r \in rows
      PROVE  \E v \in ToSet(tracks[id].tags[f]) : r[3] = Fold[v]
  <2>1. PICK i \in DOMAIN tracks, n \in TagNames :
               \E v \in ToSet(tracks[i].tags[n]) : r = <<i, n, Fold[v]>>
    BY <1>4
  <2>2. PICK v \in ToSet(tracks[i].tags[n]) : r = <<i, n, Fold[v]>>
    BY <2>1
  <2>3. i = id /\ n = f /\ r[3] = Fold[v]
    BY <2>2
  <2> QED
    BY <2>2, <2>3
<1>7. ASSUME NEW v \in ToSet(tracks[id].tags[f])
      PROVE  \E r \in rows : r[3] = Fold[v]
  <2>1. <<id, f, Fold[v]>> \in rows /\ <<id, f, Fold[v]>>[3] = Fold[v]
    BY <1>3
  <2> QED
    BY <2>1
<1> HIDE DEF rows
<1>8. {r[3] : r \in rows} = {Fold[v] : v \in ToSet(tracks[id].tags[f])}
  BY <1>6, <1>7
<1> QED
  BY <1>8 DEF rows

\* A comparison is true or false.
LEMMA CompareIs ==
  ASSUME NEW v, NEW w, NEW op \in Orders \cup Containments
  PROVE  Compares(v, w, op) \in BOOLEAN
BY DEF Compares, Orders, Containments

\* The clause for a tag says what matching the tag says.
LEMMA TagAgrees ==
  ASSUME TablesInv, opened, NEW id \in DOMAIN tracks, NEW r \in Rules, r.mode = "",
         r.field \in TagNames
  PROVE  TagSQL(r, id) <=> MatchTag(r, tracks[id])
<1> DEFINE values == {Fold[v] : v \in ToSet(tracks[id].tags[r.field])}
           holds(op) == \E v \in values : Compares(v, Wanted(r), op)
           rows == {x[3] : x \in {x \in tags : x[1] = id /\ x[2] = r.field}}
           has(op) == IF op = "isNotEmpty" THEN \E v \in rows : v # 0
                      ELSE \E v \in rows : ComparisonSQL(v, op, Wanted(r))
<1>1. \A v \in values : v \in Nat
  <2>1. tracks[id].tags[r.field] \in Seq(DOMAIN Fold)
    <3>1. DOMAIN TagText \subseteq Seq(DOMAIN Fold)
      BY RuleAssumption
    <3>2. tracks[id].tags \in [TagNames -> DOMAIN TagText]
      BY DEF TablesInv, IsTrack
    <3> QED
      BY <3>1, <3>2
  <2>2. \A v \in ToSet(tracks[id].tags[r.field]) : v \in DOMAIN Fold
    BY <2>1, ToSetIn
  <2> QED
    BY <2>2, FoldIs
<1>2. \A v \in values : v # Null
  BY <1>1, NatNotNull
<1>3. r.op \in Orders \cup Containments \cup Emptiness
  BY QueryAssumption
<1>4. rows = values
  BY TagValuesAre
<1>5. MatchTag(r, tracks[id]) <=>
        \/ r.op = "isEmpty" /\ values \subseteq {0}
        \/ r.op = "isNotEmpty" /\ ~(values \subseteq {0})
        \/ r.op = "ne" /\ ~holds("eq")
        \/ r.op = "notContains" /\ ~holds("contains")
        \/ r.op \notin {"ne", "notContains"} /\ holds(r.op)
  BY DEF MatchTag
<1>6. TagSQL(r, id) <=> IF r.op = "ne" THEN ~has("eq")
                        ELSE IF r.op = "notContains" THEN ~has("contains")
                        ELSE IF r.op = "isEmpty" THEN ~has("isNotEmpty")
                        ELSE has(r.op)
  <2> DEFINE positive == [ne |-> "eq", notContains |-> "contains", isEmpty |-> "isNotEmpty"]
             negated == r.op \in DOMAIN positive
             op == IF negated THEN positive[r.op] ELSE r.op
  <2>1. TagSQL(r, id) <=> IF negated THEN ~has(op) ELSE has(op)
    BY DEF TagSQL
  <2>2. negated <=> r.op \in {"ne", "notContains", "isEmpty"}
    OBVIOUS
  <2>3. /\ r.op = "ne" => op = "eq"
        /\ r.op = "notContains" => op = "contains"
        /\ r.op = "isEmpty" => op = "isNotEmpty"
        /\ ~negated => op = r.op
    <3>1. DOMAIN positive = {"ne", "notContains", "isEmpty"}
      OBVIOUS
    <3>2. /\ positive["ne"] = "eq" /\ positive["notContains"] = "contains"
          /\ positive["isEmpty"] = "isNotEmpty"
      OBVIOUS
    <3> HIDE DEF positive
    <3> QED
      BY <3>1, <3>2
  <2> HIDE DEF has, negated, op
  <2> QED
    BY <2>1, <2>2, <2>3
<1>7. \A op \in Orders \cup Containments : has(op) <=> holds(op)
  <2>1. ASSUME NEW op \in Orders \cup Containments, NEW v \in values
        PROVE  ComparisonSQL(v, op, Wanted(r)) <=> Compares(v, Wanted(r), op)
    BY <1>2 DEF ComparisonSQL
  <2>2. "isNotEmpty" \notin Orders \cup Containments
    BY DEF Orders, Containments
  <2> HIDE DEF values, rows
  <2> QED
    BY <2>1, <2>2, <1>4
<1>8. has("isNotEmpty") <=> ~(values \subseteq {0})
  BY <1>4
<1>9. ~holds("isEmpty") /\ ~holds("isNotEmpty")
  BY DEF Compares
<1> HIDE DEF has, holds, values
<1> QED
  BY <1>3, <1>5, <1>6, <1>7, <1>8, <1>9 DEF Orders, Containments, Emptiness

\* The clause for a leaf says what matching the leaf says.
LEMMA LeafAgrees ==
  ASSUME TablesInv, opened, NEW id \in DOMAIN tracks, NEW r \in Rules, r.mode = ""
  PROVE  LeafSQL(r, id) <=> MatchLeaf(r, tracks[id])
<1>1. CASE r.field \in TagNames
  BY <1>1, TagAgrees DEF LeafSQL, MatchLeaf
<1>2. CASE r.field \notin TagNames
  <2>1. Column(r.field, id) = Value(tracks[id], r.field)
    <3>1. r.field \in Leaves
      BY QueryAssumption
    <3>2. Leaves \ TagNames \subseteq Fixed
      BY DEF Leaves, Fixed, TextFields, NumberFields
    <3> QED
      BY <1>2, <3>1, <3>2, ColumnIs
  <2>2. IsTrack(tracks[id])
    BY DEF TablesInv
  <2>3. EmptySQL(r.field, Value(tracks[id], r.field)) <=> Missing(tracks[id], r.field)
    BY <2>2, ValueIs
  <2>4. FieldSQL(r, id) <=> MatchField(r, tracks[id])
    BY <2>1, <2>3 DEF FieldSQL, MatchField, ComparisonSQL
  <2> QED
    BY <1>2, <2>4 DEF LeafSQL, MatchLeaf
<1> QED
  BY <1>1, <1>2

LeavesSQL(id) == [r \in Rules |-> LeafSQL(r, id)]

\* The clause for a rule is an evaluation of the rules over its leaves.
LEMMA RuleIsEval ==
  ASSUME NEW id
  PROVE  \E m : m = Eval(m, LeavesSQL(id)) /\ \A r \in Rules : RuleSQL(r, id) = m[r]
<1> DEFINE Is(m) == m = [r \in Rules |->
              \/ r.mode = "all" /\ \A i \in DOMAIN r.rules : m[r.rules[i]]
              \/ r.mode = "any" /\ \E i \in DOMAIN r.rules : m[r.rules[i]]
              \/ r.mode = "" /\ LeafSQL(r, id)]
<1>1. \A m : Is(m) <=> m = Eval(m, LeavesSQL(id))
  BY DEF Eval, LeavesSQL
<1>2. Is(CHOOSE m : Is(m))
  BY <1>1, EvalExists
<1>3. \A r \in Rules : RuleSQL(r, id) = (CHOOSE m : Is(m))[r]
  BY DEF RuleSQL
<1> QED
  BY <1>1, <1>2, <1>3

\* The clause for a rule says what matching the rule says.
LEMMA RuleAgrees ==
  ASSUME TablesInv, opened, NEW id \in DOMAIN tracks, NEW r \in Rules
  PROVE  RuleSQL(r, id) <=> Match(r, tracks[id])
<1>1. PICK m : m = Eval(m, LeavesSQL(id)) /\ \A s \in Rules : RuleSQL(s, id) = m[s]
  BY RuleIsEval
<1>2. PICK n : n = Eval(n, LeafOutcomes(tracks[id])) /\ \A s \in Rules : Match(s, tracks[id]) = n[s]
  BY MatchIsEval
<1>3. Eval(m, LeavesSQL(id)) = Eval(m, LeafOutcomes(tracks[id]))
  <2>1. \A s \in Rules : s.mode = "" =>
          (LeavesSQL(id)[s] <=> LeafOutcomes(tracks[id])[s])
    BY LeafAgrees DEF LeavesSQL, LeafOutcomes
  <2> QED
    BY <2>1 DEF Eval
<1>4. m = n
  BY <1>1, <1>2, <1>3, EvalUnique
<1> QED
  BY <1>1, <1>2, <1>4

\* The WHERE clause says what the rule and the search say.
LEMMA WhereAgrees ==
  ASSUME TablesInv, opened, NEW id \in DOMAIN tracks, NEW q,
         q.rule # <<>> => q.rule[1] \in Rules
  PROVE  WhereSQL(q, id) <=>
           /\ q.rule # <<>> => Match(q.rule[1], tracks[id])
           /\ q.search # <<>> => SearchFinds(q.search[1], tracks[id])
BY RuleAgrees DEF WhereSQL

-----------------------------------------------------------------------------
(* A set with a strict total order, listed by ranks.                       *)

\* Where an element of S stands in the order R.
Rank(S, R, x) == Cardinality({y \in S : <<y, x>> \in R}) + 1

StrictTotal(S, R) ==
  /\ \A x \in S : <<x, x>> \notin R
  /\ \A x, y, z \in S : <<x, y>> \in R /\ <<y, z>> \in R => <<x, z>> \in R
  /\ \A x, y \in S : x = y \/ <<x, y>> \in R \/ <<y, x>> \in R

\* In a strict total order the ranks of a finite set are one to its size, one
\* for each element.
LEMMA RankIsPlace ==
  ASSUME NEW S, IsFiniteSet(S), NEW R, StrictTotal(S, R)
  PROVE  /\ \A x \in S : Rank(S, R, x) \in 1..Cardinality(S)
         /\ \A x, y \in S : Rank(S, R, x) = Rank(S, R, y) => x = y
         /\ \A i \in 1..Cardinality(S) : \E x \in S : Rank(S, R, x) = i
         /\ \A x, y \in S : <<x, y>> \in R <=> Rank(S, R, x) < Rank(S, R, y)
<1> DEFINE Under(x) == {y \in S : <<y, x>> \in R}
<1>1. \A x \in S : IsFiniteSet(Under(x)) /\ Cardinality(Under(x)) \in Nat
  BY FS_Subset, FS_CardinalityType
<1>2. Cardinality(S) \in Nat
  BY FS_CardinalityType
<1>3. ASSUME NEW x \in S PROVE Rank(S, R, x) \in 1..Cardinality(S)
  <2>1. Under(x) \in SUBSET (S \ {x})
    BY DEF StrictTotal
  <2>2. IsFiniteSet(S \ {x}) /\ Cardinality(S \ {x}) = Cardinality(S) - 1
    BY FS_RemoveElement, ZenonT(60)
  <2>3. Cardinality(Under(x)) <= Cardinality(S) - 1
    BY <2>1, <2>2, FS_Subset
  <2> HIDE DEF Under
  <2>4. Cardinality(Under(x)) + 1 \in 1..Cardinality(S)
    BY <1>1, <1>2, <2>3
  <2> QED
    BY <2>4 DEF Rank, Under
<1>4. ASSUME NEW x \in S, NEW y \in S, <<x, y>> \in R
      PROVE  Rank(S, R, x) < Rank(S, R, y)
  <2>1. Under(x) \in SUBSET Under(y) /\ x \in Under(y) /\ x \notin Under(x)
    BY <1>4 DEF StrictTotal
  <2>2. Cardinality(Under(x)) <= Cardinality(Under(y)) /\ Cardinality(Under(x)) # Cardinality(Under(y))
    BY <1>1, <2>1, FS_Subset
  <2> HIDE DEF Under
  <2>3. Cardinality(Under(x)) + 1 < Cardinality(Under(y)) + 1
    BY <1>1, <2>2
  <2> QED
    BY <2>3 DEF Rank, Under
<1>5. \A x \in S : Rank(S, R, x) \in Int
  BY <1>2, <1>3
<1>6. ASSUME NEW x \in S, NEW y \in S
      PROVE  /\ Rank(S, R, x) = Rank(S, R, y) => x = y
             /\ <<x, y>> \in R <=> Rank(S, R, x) < Rank(S, R, y)
  <2>1. Rank(S, R, x) \in Int /\ Rank(S, R, y) \in Int
    BY <1>5
  <2>2. x = y \/ <<x, y>> \in R \/ <<y, x>> \in R
    BY DEF StrictTotal
  <2>3. <<x, x>> \notin R
    BY DEF StrictTotal
  <2>4. /\ <<x, y>> \in R => Rank(S, R, x) < Rank(S, R, y)
        /\ <<y, x>> \in R => Rank(S, R, y) < Rank(S, R, x)
    BY <1>4
  <2> QED
    BY <2>1, <2>2, <2>3, <2>4
<1>8. ASSUME NEW i \in 1..Cardinality(S) PROVE \E x \in S : Rank(S, R, x) = i
  <2> DEFINE f == [x \in S |-> Rank(S, R, x)]
  <2>1. f \in Injection(S, 1..Cardinality(S))
    BY <1>3, <1>6 DEF Injection, IsInjective
  <2>2. IsFiniteSet(1..Cardinality(S)) /\ Cardinality(1..Cardinality(S)) = Cardinality(S)
    BY <1>2, FS_Interval
  <2>3. f \in Surjection(S, 1..Cardinality(S))
    BY <2>1, <2>2, FS_Injection
  <2> QED
    BY <2>3 DEF Surjection
<1> QED
  BY <1>3, <1>6, <1>8

\* The list of a set in an order: it holds each element once, in order.
Listing(S, R) == [i \in 1..Cardinality(S) |-> CHOOSE x \in S : Rank(S, R, x) = i]

\* A listing gives each thing the place of its rank.
LEMMA ListingIs ==
  ASSUME NEW S, IsFiniteSet(S), NEW R, StrictTotal(S, R)
  PROVE  /\ Cardinality(S) \in Nat
         /\ Listing(S, R) \in [1..Cardinality(S) -> S]
         /\ \A i \in 1..Cardinality(S) : Rank(S, R, Listing(S, R)[i]) = i
         /\ \A x \in S : Listing(S, R)[Rank(S, R, x)] = x
<1>1. Cardinality(S) \in Nat
  BY FS_CardinalityType
<1>2. \A i \in 1..Cardinality(S) : Listing(S, R)[i] \in S /\ Rank(S, R, Listing(S, R)[i]) = i
  BY RankIsPlace DEF Listing
<1>3. \A x \in S : Listing(S, R)[Rank(S, R, x)] = x
  BY <1>2, RankIsPlace
<1> QED
  BY <1>1, <1>2, <1>3 DEF Listing

\* What is arranged by ranks is the listing.
LEMMA PlacesList ==
  ASSUME NEW S, IsFiniteSet(S), NEW R, StrictTotal(S, R),
         NEW place, \A x \in S : place[x] = Rank(S, R, x)
  PROVE  [i \in 1..Cardinality(S) |-> CHOOSE x \in S : place[x] = i] = Listing(S, R)
<1>1. ASSUME NEW i \in 1..Cardinality(S)
      PROVE  (CHOOSE x \in S : place[x] = i) = Listing(S, R)[i]
  <2>1. Listing(S, R)[i] \in S /\ Rank(S, R, Listing(S, R)[i]) = i
    BY ListingIs
  <2>2. \A x \in S : place[x] = i => x = Listing(S, R)[i]
    BY ListingIs
  <2> QED
    BY <2>1, <2>2
<1>2. Listing(S, R) = [i \in 1..Cardinality(S) |-> Listing(S, R)[i]]
  BY DEF Listing
<1> QED
  BY <1>1, <1>2

\* A renaming that keeps the order keeps the ranks.
KeepsOrder(f, S, R, P) == \A x, y \in S : <<x, y>> \in R <=> <<f[x], f[y]>> \in P

\* A bijection that keeps the order keeps the ranks.
LEMMA ImageRank ==
  ASSUME NEW S, IsFiniteSet(S), NEW R, NEW T, NEW P,
         NEW f \in Bijection(S, T), KeepsOrder(f, S, R, P)
  PROVE  Cardinality(T) = Cardinality(S) /\ \A x \in S : Rank(T, P, f[x]) = Rank(S, R, x)
<1> USE DEF KeepsOrder
<1>1. Cardinality(T) = Cardinality(S) /\ Cardinality(S) \in Nat
  BY FS_Bijection, FS_CardinalityType DEF ExistsBijection
<1>2. ASSUME NEW x \in S PROVE Rank(T, P, f[x]) = Rank(S, R, x)
  <2> DEFINE A == {y \in S : <<y, x>> \in R}
             B == {y \in T : <<y, f[x]>> \in P}
             g == [y \in A |-> f[y]]
  <2>1. g \in Bijection(A, B)
    <3>1. \A y \in A : f[y] \in B
      BY DEF Bijection, Injection, Surjection
    <3>2. \A y, z \in A : f[y] = f[z] => y = z
      BY DEF Bijection, Injection, IsInjective
    <3>3. \A z \in B : \E y \in A : f[y] = z
      BY DEF Bijection, Surjection
    <3> HIDE DEF A, B
    <3> QED
      BY <3>1, <3>2, <3>3 DEF Bijection, Injection, Surjection, IsInjective
  <2>2. IsFiniteSet(A)
    BY FS_Subset
  <2>3. Cardinality(A) = Cardinality(B)
    BY <2>1, <2>2, FS_Bijection DEF ExistsBijection
  <2> QED
    BY <2>3 DEF Rank
<1> QED
  BY <1>1, <1>2

-----------------------------------------------------------------------------
(* Places in a list, from the least on.                                    *)

Places(K) == Arranged(K, LAMBDA i, j : i < j)
Less(K) == {x \in K \X K : x[1] < x[2]}

\* The order of places as a relation.
LEMMA LessIs ==
  ASSUME NEW K, NEW i \in K, NEW j \in K
  PROVE  <<i, j>> \in Less(K) <=> i < j
<1> DEFINE c == <<i, j>>
<1>1. c \in K \X K /\ c[1] = i /\ c[2] = j
  OBVIOUS
<1> HIDE DEF c
<1>2. c \in Less(K) <=> c[1] < c[2]
  BY <1>1 DEF Less
<1> QED
  BY <1>1, <1>2 DEF c

\* Places that are strictly ordered are listed in that order.
LEMMA PlacesAreListed ==
  ASSUME NEW K, IsFiniteSet(K), StrictTotal(K, Less(K))
  PROVE  Places(K) = Listing(K, Less(K))
<1> DEFINE R == Less(K)
           place == [i \in K |-> Cardinality({j \in K : j < i}) + 1]
<1>1. ASSUME NEW i \in K PROVE place[i] = Rank(K, R, i)
  <2>1. {j \in K : j < i} = {j \in K : <<j, i>> \in R}
    BY LessIs
  <2> QED
    BY <2>1 DEF Rank
<1>2. Places(K) = [n \in 1..Cardinality(K) |-> CHOOSE i \in K : place[i] = n]
  BY DEF Places, Arranged
<1>3. StrictTotal(K, R)
  OBVIOUS
<1> HIDE DEF place, R
<1>4. Places(K) = Listing(K, R)
  BY <1>1, <1>2, <1>3, PlacesList
<1> QED
  BY <1>4 DEF R

\* The places in a set of numbers are listed from the least on.
LEMMA PlacesAre ==
  ASSUME NEW K \in SUBSET Nat, IsFiniteSet(K)
  PROVE  StrictTotal(K, Less(K)) /\ Places(K) = Listing(K, Less(K))
<1>1. StrictTotal(K, Less(K))
  <2>1. \A i, j \in K : <<i, j>> \in Less(K) <=> i < j
    BY LessIs
  <2>2. \A i \in K : i \in Nat
    OBVIOUS
  <2> QED
    BY <2>1, <2>2 DEF StrictTotal
<1> QED
  BY <1>1, PlacesAreListed

-----------------------------------------------------------------------------
(* The order by several keys is strict and total.                          *)

\* The places at which two tracks differ, and the order it makes: the first of
\* them decides, or the ID.
Differ(n, x, y) == {i \in 1..n : x[i] # y[i]}

Decides(n, x, y, i) == i \in Differ(n, x, y) /\ \A j \in Differ(n, x, y) : i <= j

Precedes(n, desc, x, p, y, q) ==
  \/ Differ(n, x, y) = {} /\ p < q
  \/ \E i \in Differ(n, x, y) :
       Decides(n, x, y, i) /\ Ahead(x[i], y[i], desc /\ i = 1)

\* Ahead orders what differs, in one direction or the other.
LEMMA AheadOrders ==
  ASSUME NEW u \in Int, NEW v \in Int, NEW w \in Int, NEW d \in BOOLEAN
  PROVE  /\ u # v => (Ahead(u, v, d) <=> ~Ahead(v, u, d))
         /\ u # v /\ v # w /\ Ahead(u, v, d) /\ Ahead(v, w, d) => u # w /\ Ahead(u, w, d)
BY DEF Ahead, Absent

\* A set of natural numbers that is not empty has a least element.

LEMMA DeciderExists ==
  ASSUME NEW n \in Nat, NEW x, NEW y, Differ(n, x, y) # {}
  PROVE  \E i \in 1..n : Decides(n, x, y, i)
<1>1. Differ(n, x, y) \in SUBSET Nat /\ Differ(n, x, y) \subseteq 1..n
  BY DEF Differ
<1>2. PICK i \in Differ(n, x, y) : \A j \in Differ(n, x, y) : i <= j
  BY <1>1, LeastNumber
<1> QED
  BY <1>1, <1>2 DEF Decides

\* Of two rows with different IDs, one precedes the other.
LEMMA PrecedesTotal ==
  ASSUME NEW n \in Nat, NEW desc \in BOOLEAN, NEW x \in [1..n -> Int], NEW y \in [1..n -> Int],
         NEW p \in Int, NEW q \in Int, p # q
  PROVE  Precedes(n, desc, x, p, y, q) \/ Precedes(n, desc, y, q, x, p)
<1>1. Differ(n, x, y) = Differ(n, y, x)
  BY DEF Differ
<1>2. CASE Differ(n, x, y) = {}
  BY <1>1, <1>2 DEF Precedes
<1>3. CASE Differ(n, x, y) # {}
  <2>1. PICK i \in 1..n : Decides(n, x, y, i)
    BY <1>3, DeciderExists
  <2>2. Decides(n, y, x, i) /\ i \in Differ(n, x, y) /\ i \in Differ(n, y, x)
    BY <1>1, <2>1 DEF Decides
  <2>3. x[i] \in Int /\ y[i] \in Int /\ x[i] # y[i]
    BY <2>2 DEF Differ
  <2>4. Ahead(x[i], y[i], desc /\ i = 1) \/ Ahead(y[i], x[i], desc /\ i = 1)
    BY <2>3, AheadOrders
  <2> QED
    BY <2>1, <2>2, <2>4 DEF Precedes
<1> QED
  BY <1>2, <1>3

\* What precedes a row that precedes another precedes the other.
LEMMA PrecedesTransitive ==
  ASSUME NEW n \in Nat, NEW desc \in BOOLEAN,
         NEW x \in [1..n -> Int], NEW y \in [1..n -> Int], NEW z \in [1..n -> Int],
         NEW p \in Int, NEW q \in Int, NEW r \in Int,
         Precedes(n, desc, x, p, y, q), Precedes(n, desc, y, q, z, r)
  PROVE  Precedes(n, desc, x, p, z, r)
<1>1. CASE Differ(n, x, y) = {}
  <2>1. \A i \in 1..n : x[i] = y[i]
    BY <1>1 DEF Differ
  <2>2. x = y /\ p < q
    BY <1>1, <2>1 DEF Precedes
  <2> QED
    BY <2>2 DEF Precedes
<1>2. CASE Differ(n, y, z) = {}
  <2>1. \A i \in 1..n : y[i] = z[i]
    BY <1>2 DEF Differ
  <2>2. y = z /\ q < r
    BY <1>2, <2>1 DEF Precedes
  <2> QED
    BY <2>2 DEF Precedes
<1>3. CASE Differ(n, x, y) # {} /\ Differ(n, y, z) # {}
  <2>1. PICK i \in Differ(n, x, y) : Decides(n, x, y, i) /\ Ahead(x[i], y[i], desc /\ i = 1)
    BY <1>3 DEF Precedes
  <2>2. PICK j \in Differ(n, y, z) : Decides(n, y, z, j) /\ Ahead(y[j], z[j], desc /\ j = 1)
    BY <1>3 DEF Precedes
  <2>3. i \in 1..n /\ j \in 1..n /\ x[i] # y[i] /\ y[j] # z[j]
    BY DEF Differ
  <2>4. \A k \in 1..n : (k < i => x[k] = y[k]) /\ (k < j => y[k] = z[k])
    BY <2>1, <2>2, <2>3 DEF Decides, Differ
  <2> DEFINE k == IF i < j THEN i ELSE j
  <2>5. k \in 1..n /\ \A l \in 1..n : l < k => x[l] = z[l]
    BY <2>3, <2>4
  <2>6. x[k] # z[k] /\ Ahead(x[k], z[k], desc /\ k = 1)
    <3>1. CASE i < j
      BY <2>1, <2>3, <2>4, <3>1
    <3>2. CASE j < i
      BY <2>2, <2>3, <2>4, <3>2
    <3>3. CASE i = j
      <4>1. x[i] \in Int /\ y[i] \in Int /\ z[i] \in Int
        BY <2>3
      <4> QED
        BY <2>1, <2>2, <2>3, <3>3, <4>1, AheadOrders
    <3> QED
      BY <2>3, <3>1, <3>2, <3>3
  <2> HIDE DEF k
  <2>7. Decides(n, x, z, k)
    BY <2>5, <2>6 DEF Decides, Differ
  <2> QED
    BY <2>6, <2>7 DEF Precedes, Decides
<1> QED
  BY <1>1, <1>2, <1>3

OrderOf(field) == Fields(IF field = "" THEN "addedAt" ELSE field)
SortKeys(t, fields) == [i \in 1..Len(fields) |-> SortKey(t, fields[i])]

\* What a track or a row is compared by, whatever the field.
LEMMA OrderIsSequence ==
  ASSUME NEW field
  PROVE  /\ Len(OrderOf(field)) \in Nat /\ DOMAIN OrderOf(field) = 1..Len(OrderOf(field))
         /\ \A i \in DOMAIN OrderOf(field) : OrderOf(field)[i] = field \/ OrderOf(field)[i] \in Fixed
<1> DEFINE f == IF field = "" THEN "addedAt" ELSE field
           more == <<"artist", "album", "disc", "number", "title">>
           kept == {i \in DOMAIN more : more[i] # f}
           rest == Filtered(more, LAMBDA g : g # f)
<1>1. IsFiniteSet(1..5) /\ kept \in SUBSET (1..5)
  <2>1. DOMAIN more = 1..5
    OBVIOUS
  <2>2. \A n \in Nat : IsFiniteSet(1..n)
    BY FS_Interval
  <2>3. 5 \in Nat
    OBVIOUS
  <2>4. IsFiniteSet(1..5)
    BY <2>2, <2>3
  <2> HIDE DEF more
  <2> QED
    BY <2>1, <2>4
<1>2. Cardinality(kept) \in Nat
  BY <1>1, FS_Subset, FS_CardinalityType
<1>3. rest = [n \in 1..Cardinality(kept) |-> rest[n]]
  <2> DEFINE places == Arranged(kept, LAMBDA i, j : i < j)
  <2>1. DOMAIN places = 1..Cardinality(kept)
    BY DEF Arranged
  <2>2. rest = [n \in DOMAIN places |-> more[places[n]]]
    BY DEF Filtered
  <2> HIDE DEF kept, places, more, rest
  <2> QED
    BY <2>1, <2>2
<1>4. rest \in Seq({rest[n] : n \in 1..Cardinality(kept)})
  <2> HIDE DEF rest, kept
  <2> QED
    BY <1>2, <1>3
<1>5. OrderOf(field) = <<f>> \o rest
  BY DEF OrderOf, Fields
<1>8. \A n \in 1..Cardinality(kept) : rest[n] \in Fixed
  <2> DEFINE places == Arranged(kept, LAMBDA i, j : i < j)
  <2>1. IsFiniteSet(kept) /\ kept \in SUBSET Nat
    <3>1. 1..5 \subseteq Nat
      OBVIOUS
    <3> HIDE DEF kept
    <3> QED
      BY <1>1, <3>1, FS_Subset
  <2>2. places = Places(kept)
    BY DEF Places
  <2>3. rest = [n \in DOMAIN places |-> more[places[n]]]
    BY DEF Filtered
  <2>4. \A i \in 1..5 : more[i] \in Fixed
    BY DEF Fixed, TextFields, NumberFields
  <2> HIDE DEF kept, places, more, rest
  <2>5. places \in [1..Cardinality(kept) -> kept]
    BY <2>1, <2>2, PlacesAre, ListingIs
  <2> QED
    BY <1>1, <2>3, <2>4, <2>5
<1>9. f = field \/ f \in Fixed
  BY DEF Fixed, NumberFields
<1> HIDE DEF rest, f, kept
<1>6. Len(rest) \in Nat
  BY <1>4
<1>7. Len(<<f>> \o rest) = 1 + Len(rest) /\ DOMAIN (<<f>> \o rest) = 1..(1 + Len(rest))
  BY <1>4
<1>10. /\ Len(rest) = Cardinality(kept)
       /\ \A i \in 1..(1 + Len(rest)) :
            (<<f>> \o rest)[i] = IF i = 1 THEN f ELSE rest[i - 1]
  BY <1>2, <1>3, <1>4
<1>11. \A i \in 1..(1 + Len(rest)) : (<<f>> \o rest)[i] = field \/ (<<f>> \o rest)[i] \in Fixed
  <2> SUFFICES ASSUME NEW i \in 1..(1 + Len(rest)), i # 1
               PROVE  rest[i - 1] \in Fixed
    BY <1>9, <1>10
  <2>1. i - 1 \in 1..Cardinality(kept)
    BY <1>2, <1>10
  <2> QED
    BY <1>8, <2>1
<1> QED
  BY <1>5, <1>6, <1>7, <1>11

\* A sort key is a number.
LEMMA KeyIs ==
  ASSUME NEW t, IsTrack(t), NEW f
  PROVE  SortKey(t, f) \in Int
<1>1. Value(t, f) \in Nat \cup {Null}
  BY ValueIs
<1> QED
  BY <1>1 DEF SortKey, KeyOf, Absent, Null

\* The order of tracks compares their sort keys one after the other, then IDs.
LEMMA BeforeIs ==
  ASSUME NEW field, NEW desc \in BOOLEAN, NEW a, NEW b
  PROVE  Before(field, desc, a, b) <=>
           Precedes(Len(OrderOf(field)), desc, SortKeys(a, OrderOf(field)), a.id,
                    SortKeys(b, OrderOf(field)), b.id)
<1> DEFINE fs == OrderOf(field)
           n == Len(fs)
           x == SortKeys(a, fs)
           y == SortKeys(b, fs)
           I == {i \in 1..Len(fs) : SortKey(a, fs[i]) # SortKey(b, fs[i])}
           first == IF I # {} THEN Min(I) ELSE 0
<1>1. Before(field, desc, a, b) <=> BeforeBy(fs, first, desc, a, b)
  BY DEF Before, SelectInSeq, OrderOf
<1>2. I = Differ(n, x, y)
  BY DEF Differ, SortKeys
<1>3. n \in Nat
  BY OrderIsSequence
<1>4. CASE I = {}
  <2>1. first = 0
    BY <1>4
  <2>2. BeforeBy(fs, first, desc, a, b) <=> a.id < b.id
    BY <2>1 DEF BeforeBy
  <2> HIDE DEF x, y, n, fs, first, I
  <2> QED
    BY <1>1, <1>2, <1>4, <2>2 DEF Precedes, x, y, n, fs
<1>5. CASE I # {}
  <2>1. PICK i \in 1..n : Decides(n, x, y, i)
    BY <1>2, <1>3, <1>5, DeciderExists
  <2>2. \A j \in Differ(n, x, y) : Decides(n, x, y, j) => j = i
    BY <1>3, <2>1 DEF Decides, Differ
  <2>3. first = i
    <3>1. first = CHOOSE j \in Differ(n, x, y) : \A k \in Differ(n, x, y) : j <= k
      BY <1>2, <1>5 DEF Min
    <3> HIDE DEF first, x, y, n
    <3> QED
      BY <2>1, <2>2, <3>1 DEF Decides
  <2>4. i # 0 /\ x[i] = SortKey(a, fs[i]) /\ y[i] = SortKey(b, fs[i])
    BY <1>3 DEF SortKeys
  <2>5. BeforeBy(fs, first, desc, a, b) <=> Ahead(x[i], y[i], desc /\ i = 1)
    BY <2>3, <2>4 DEF BeforeBy
  <2> HIDE DEF x, y, n, fs, first, I
  <2>6. Precedes(n, desc, x, a.id, y, b.id) <=> Ahead(x[i], y[i], desc /\ i = 1)
    BY <2>1, <2>2 DEF Precedes, Decides
  <2> QED
    BY <1>1, <2>5, <2>6 DEF x, y, n, fs
<1> QED
  BY <1>4, <1>5

\* Values that are absent are all the same.
LEMMA AbsentIs ==
  ASSUME NEW t, IsTrack(t), NEW f, Missing(t, f)
  PROVE  Value(t, f) = IF f = "bpm" THEN -1 ELSE 0
<1>1. Value(t, f) \in {Null, 0}
  BY DEF Missing, NoValue
<1> QED
  BY <1>1, ValueIs, NatNotNull DEF Null

\* A value is empty or it is not.
LEMMA EmptyIs ==
  ASSUME NEW f, NEW v
  PROVE  EmptySQL(f, v) \in BOOLEAN
BY DEF EmptySQL

\* Rows differ where their tracks do, and the first difference decides alike.
LEMMA KeyAgrees ==
  ASSUME TablesInv, opened, NEW a \in DOMAIN tracks, NEW b \in DOMAIN tracks, NEW f,
         f \in Fixed \/ f \notin Columns \cup DOMAIN TagOf, NEW desc \in BOOLEAN
  PROVE  LET empty(id) == EmptySQL(f, Key(f, id))
             x == SortKey(tracks[a], f)
             y == SortKey(tracks[b], f)
         IN  /\ (empty(a) # empty(b) \/ Key(f, a) # Key(f, b)) <=> x # y
             /\ x # y => (Ahead(x, y, desc) <=>
                            IF empty(a) # empty(b) THEN empty(b)
                            ELSE IF desc THEN Key(f, a) > Key(f, b) ELSE Key(f, a) < Key(f, b))
<1> DEFINE empty(id) == EmptySQL(f, Key(f, id))
           x == SortKey(tracks[a], f)
           y == SortKey(tracks[b], f)
           v == Value(tracks[a], f)
           w == Value(tracks[b], f)
<1>1. IsTrack(tracks[a]) /\ IsTrack(tracks[b])
  BY DEF TablesInv
<1>9. CASE f \notin Fixed
  <2>1. /\ Key(f, a) = Null /\ v = 0
        /\ Key(f, b) = Null /\ w = 0
    BY <1>9, ColumnIsNot
  <2>2. empty(a) /\ empty(b)
    BY <2>1 DEF EmptySQL
  <2>3. x = y
    BY <2>1 DEF SortKey
  <2> HIDE DEF x, y, v, w, empty
  <2>4. ~(empty(a) # empty(b) \/ Key(f, a) # Key(f, b))
    BY <2>1, <2>2, EmptyIs
  <2> QED
    BY <2>3, <2>4 DEF empty, x, y
<1> SUFFICES ASSUME f \in Fixed
             PROVE  /\ (empty(a) # empty(b) \/ Key(f, a) # Key(f, b)) <=> x # y
                    /\ x # y => (Ahead(x, y, desc) <=>
                                   IF empty(a) # empty(b) THEN empty(b)
                                   ELSE IF desc THEN Key(f, a) > Key(f, b)
                                        ELSE Key(f, a) < Key(f, b))
  BY <1>9
<1>2. Key(f, a) = v /\ Key(f, b) = w
  BY ColumnIs
<1>3. (empty(a) <=> Missing(tracks[a], f)) /\ (empty(b) <=> Missing(tracks[b], f))
  BY <1>1, <1>2, ValueIs
<1>4. v \in Nat \cup {-1} /\ w \in Nat \cup {-1} /\ empty(a) \in BOOLEAN /\ empty(b) \in BOOLEAN
  <2>1. v \in Nat \cup {Null} /\ w \in Nat \cup {Null}
    BY <1>1, ValueIs
  <2>2. EmptySQL(f, v) \in BOOLEAN /\ EmptySQL(f, w) \in BOOLEAN
    BY EmptyIs
  <2> QED
    BY <1>2, <2>1, <2>2 DEF Null
<1>5. x = (IF empty(a) THEN -2 ELSE v) /\ y = (IF empty(b) THEN -2 ELSE w)
  BY <1>3 DEF SortKey, KeyOf, Missing, Absent

\* Values that are absent are all the same.
<1>6. empty(a) /\ empty(b) => v = w
  BY <1>1, <1>3, AbsentIs
<1> HIDE DEF empty, x, y, v, w
<1>7. (empty(a) # empty(b) \/ v # w) <=> x # y
  BY <1>4, <1>5, <1>6
<1>8. x # y => (Ahead(x, y, desc) <=> IF empty(a) # empty(b) THEN empty(b)
                                      ELSE IF desc THEN v > w ELSE v < w)
  BY <1>4, <1>5, <1>6 DEF Ahead, Absent
<1> QED
  BY <1>2, <1>7, <1>8 DEF empty, x, y

\* The order of rows compares the sort keys of their tracks.
LEMMA BeforeAgrees ==
  ASSUME TablesInv, opened, NEW field, OneOrder(field), NEW desc \in BOOLEAN,
         NEW a \in DOMAIN tracks, NEW b \in DOMAIN tracks
  PROVE  BeforeSQL(field, desc, a, b) <=>
           Precedes(Len(OrderOf(field)), desc, SortKeys(tracks[a], OrderOf(field)), a,
                    SortKeys(tracks[b], OrderOf(field)), b)
<1> DEFINE fs == OrderOf(field)
           n == Len(fs)
           x == SortKeys(tracks[a], fs)
           y == SortKeys(tracks[b], fs)
           empty(i, id) == EmptySQL(fs[i], Key(fs[i], id))
           differ(i) == empty(i, a) # empty(i, b) \/ Key(fs[i], a) # Key(fs[i], b)
           all == {i \in DOMAIN fs : differ(i)}
           first == CHOOSE i \in all : \A j \in all : i <= j
           ahead(i) == IF empty(i, a) # empty(i, b) THEN empty(i, b)
                       ELSE IF i = 1 /\ desc THEN Key(fs[i], a) > Key(fs[i], b)
                       ELSE Key(fs[i], a) < Key(fs[i], b)
<1>1. n \in Nat /\ DOMAIN fs = 1..n
  BY OrderIsSequence
<1>2. \A i \in 1..n : x[i] = SortKey(tracks[a], fs[i]) /\ y[i] = SortKey(tracks[b], fs[i])
  BY DEF SortKeys
<1>8. \A i \in 1..n : fs[i] \in Fixed \/ fs[i] \notin Columns \cup DOMAIN TagOf
  <2>1. CASE field # ""
    <3>1. field \in Fixed \/ field \notin Columns \cup DOMAIN TagOf
      BY <2>1 DEF OneOrder
    <3> QED
      BY <1>1, <3>1, OrderIsSequence
  <2>2. CASE field = ""
    <3>1. fs = OrderOf("addedAt")
      BY <2>2 DEF OrderOf
    <3>2. "addedAt" \in Fixed
      BY DEF Fixed, NumberFields
    <3> QED
      BY <1>1, <3>1, <3>2, OrderIsSequence
  <2> QED
    BY <2>1, <2>2
<1>3. \A i \in 1..n : differ(i) <=> x[i] # y[i]
  BY <1>2, <1>8, KeyAgrees
<1>4. all = Differ(n, x, y)
  BY <1>1, <1>3 DEF Differ
<1>5. BeforeSQL(field, desc, a, b) <=> IF all = {} THEN a < b ELSE ahead(first)
  <2>1. BeforeSQL(field, desc, a, b) =
          IF all = {} THEN a < b
          ELSE IF empty(first, a) # empty(first, b) THEN empty(first, b)
          ELSE IF first = 1 /\ desc THEN Key(fs[1], a) > Key(fs[1], b)
          ELSE Key(fs[first], a) < Key(fs[first], b)
    BY DEF BeforeSQL, OrderOf
  <2> HIDE DEF all, fs, first, empty
  <2> QED
    BY <2>1
<1>6. CASE all = {}
  <2> HIDE DEF all, first, x, y, n, ahead
  <2> QED
    BY <1>4, <1>5, <1>6 DEF Precedes, x, y, n, fs
<1>7. CASE all # {}
  <2>1. PICK i \in 1..n : Decides(n, x, y, i)
    BY <1>1, <1>4, <1>7, DeciderExists
  <2>2. i \in Differ(n, x, y) /\ \A j \in Differ(n, x, y) : Decides(n, x, y, j) => j = i
    BY <1>1, <2>1 DEF Decides, Differ
  <2>3. first = i
    <3>1. first = CHOOSE j \in Differ(n, x, y) : \A k \in Differ(n, x, y) : j <= k
      BY <1>4
    <3> HIDE DEF first, x, y, n
    <3> QED
      BY <2>1, <2>2, <3>1 DEF Decides
  <2>4. x[i] # y[i]
    BY <2>2 DEF Differ
  <2>5. ahead(i) <=> Ahead(x[i], y[i], desc /\ i = 1)
    <3> DEFINE d == desc /\ i = 1
    <3>1. d \in BOOLEAN
      OBVIOUS
    <3> HIDE DEF d
    <3>2. Ahead(SortKey(tracks[a], fs[i]), SortKey(tracks[b], fs[i]), d) <=>
            IF empty(i, a) # empty(i, b) THEN empty(i, b)
            ELSE IF d THEN Key(fs[i], a) > Key(fs[i], b)
            ELSE Key(fs[i], a) < Key(fs[i], b)
      BY <1>2, <1>8, <2>4, <3>1, KeyAgrees
    <3> HIDE DEF empty
    <3> QED
      BY <1>2, <3>2 DEF d
  <2> HIDE DEF all, first, x, y, n, ahead, fs
  <2>6. Precedes(n, desc, x, a, y, b) <=> Ahead(x[i], y[i], desc /\ i = 1)
    BY <2>1, <2>2 DEF Precedes
  <2> QED
    BY <1>5, <1>7, <2>3, <2>5, <2>6 DEF x, y, n, fs
<1> QED
  BY <1>6, <1>7

-----------------------------------------------------------------------------
(* Rows and tracks come in the same order.                                 *)

\* The order of rows.
RowOrder(q, S) == {x \in S \X S : BeforeSQL(q.sort, q.desc, x[1], x[2])}

\* The order of rows as a relation.
LEMMA RowOrderIs ==
  ASSUME NEW q, NEW S, NEW a \in S, NEW b \in S
  PROVE  <<a, b>> \in RowOrder(q, S) <=> BeforeSQL(q.sort, q.desc, a, b)
<1> DEFINE c == <<a, b>>
<1>1. c \in S \X S /\ c[1] = a /\ c[2] = b
  OBVIOUS
<1> HIDE DEF c
<1>2. c \in RowOrder(q, S) <=> BeforeSQL(q.sort, q.desc, c[1], c[2])
  BY <1>1 DEF RowOrder
<1> QED
  BY <1>1, <1>2 DEF c

\* Any two rows are ordered, one way only.
LEMMA RowsOrdered ==
  ASSUME TablesInv, opened, NEW q, q.desc \in BOOLEAN, OneOrder(q.sort),
         NEW S \in SUBSET DOMAIN tracks
  PROVE  StrictTotal(S, RowOrder(q, S))
<1> DEFINE fs == OrderOf(q.sort)
           n == Len(fs)
           x(a) == SortKeys(tracks[a], fs)
           before(a, b) == Precedes(n, q.desc, x(a), a, x(b), b)
<1>1. n \in Nat
  BY OrderIsSequence
<1>2. \A a \in DOMAIN tracks : x(a) \in [1..n -> Int] /\ a \in Int
  <2>1. \A a \in DOMAIN tracks : IsTrack(tracks[a]) /\ tracks[a].id = a /\ tracks[a].id \in Nat
    BY DEF TablesInv, IsTrack
  <2> QED
    BY <2>1, KeyIs DEF SortKeys
<1>3. \A a, b \in S : <<a, b>> \in RowOrder(q, S) <=> before(a, b)
  BY RowOrderIs, BeforeAgrees
<1>4. \A a \in S : ~before(a, a)
  BY <1>2 DEF Precedes, Differ
<1> HIDE DEF n, x
<1>5. \A a, b, c \in S : before(a, b) /\ before(b, c) => before(a, c)
  BY <1>1, <1>2, PrecedesTransitive
<1>6. \A a, b \in S : a = b \/ before(a, b) \/ before(b, a)
  BY <1>1, <1>2, PrecedesTotal
<1> HIDE DEF before
<1>7. \A a, b \in S : <<a, b>> \in RowOrder(q, S) <=> before(a, b)
  BY <1>3
<1> QED
  BY <1>4, <1>5, <1>6, <1>7 DEF StrictTotal

\* Rows and tracks are listed alike.
RowsOf(S, q) == Arranged(S, LAMBDA a, b : BeforeSQL(q.sort, q.desc, a, b))
IDsOf(S, q) ==
  LET sorted == Sorted({tracks[id] : id \in S}, q.sort, q.desc)
  IN  [i \in DOMAIN sorted |-> sorted[i].id]

\* The rows and the tracks of the same IDs are listed in the same order.
LEMMA SortedAgrees ==
  ASSUME TablesInv, opened, NEW q, q.desc \in BOOLEAN, OneOrder(q.sort),
         NEW S \in SUBSET DOMAIN tracks
  PROVE  RowsOf(S, q) = Listing(S, RowOrder(q, S)) /\ IDsOf(S, q) = RowsOf(S, q)
<1> DEFINE T == {tracks[id] : id \in S}
           R == RowOrder(q, S)
           P == {x \in T \X T : Before(q.sort, q.desc, x[1], x[2])}
           f == [id \in S |-> tracks[id]]
           n == Cardinality(S)
           list == Listing(S, R)
           rows == Arranged(S, LAMBDA a, b : BeforeSQL(q.sort, q.desc, a, b))
           sorted == Sorted(T, q.sort, q.desc)
<1>1. IsFiniteSet(S)
  BY FS_Subset DEF TablesInv
<1>2. StrictTotal(S, R)
  BY RowsOrdered
<1>3. \A a \in S : f[a] = tracks[a] /\ tracks[a].id = a /\ tracks[a] \in T
  BY DEF TablesInv
<1>4. f \in Bijection(S, T)
  BY <1>3 DEF Bijection, Injection, Surjection, IsInjective
<1>5. ASSUME NEW a \in S, NEW b \in S PROVE <<a, b>> \in R <=> <<f[a], f[b]>> \in P
  <2>1. <<a, b>> \in R <=> BeforeSQL(q.sort, q.desc, a, b)
    BY RowOrderIs
  <2>2. Before(q.sort, q.desc, tracks[a], tracks[b]) <=> BeforeSQL(q.sort, q.desc, a, b)
    <3> DEFINE before == Precedes(Len(OrderOf(q.sort)), q.desc, SortKeys(tracks[a], OrderOf(q.sort)), a,
                                  SortKeys(tracks[b], OrderOf(q.sort)), b)
    <3>1. Before(q.sort, q.desc, tracks[a], tracks[b]) <=> before
      BY <1>3, BeforeIs
    <3>2. BeforeSQL(q.sort, q.desc, a, b) <=> before
      BY BeforeAgrees
    <3> HIDE DEF before
    <3> QED
      BY <3>1, <3>2
  <2>3. <<tracks[a], tracks[b]>> \in P <=> Before(q.sort, q.desc, tracks[a], tracks[b])
    BY <1>3
  <2> QED
    BY <1>3, <2>1, <2>2, <2>3
<1>6. Cardinality(T) = n /\ \A a \in S : Rank(T, P, f[a]) = Rank(S, R, a)
  <2>1. KeepsOrder(f, S, R, P)
    BY <1>5 DEF KeepsOrder
  <2> HIDE DEF R, P, T, f, n, list, rows, sorted
  <2> QED
    BY <1>1, <1>4, <2>1, ImageRank DEF n
<1>7. /\ n \in Nat
      /\ \A i \in 1..n : list[i] \in S /\ Rank(S, R, list[i]) = i
      /\ \A a \in S : list[Rank(S, R, a)] = a
  BY <1>1, <1>2, ListingIs
<1>8. rows = list
  <2> DEFINE place == [a \in S |-> Cardinality({b \in S : BeforeSQL(q.sort, q.desc, b, a)}) + 1]
  <2>1. ASSUME NEW a \in S PROVE place[a] = Rank(S, R, a)
    <3>1. {b \in S : BeforeSQL(q.sort, q.desc, b, a)} = {b \in S : <<b, a>> \in R}
      BY RowOrderIs
    <3> QED
      BY <3>1 DEF Rank
  <2>2. rows = [i \in 1..n |-> CHOOSE a \in S : place[a] = i]
    BY DEF Arranged
  <2> HIDE DEF place, rows, R
  <2> QED
    BY <1>1, <1>2, <2>1, <2>2, PlacesList
<1>9. DOMAIN sorted = 1..n /\ \A i \in 1..n : sorted[i] = tracks[list[i]]
  <2> DEFINE place == [t \in T |-> Cardinality({u \in T : Before(q.sort, q.desc, u, t)}) + 1]
  <2>1. ASSUME NEW a \in S PROVE place[tracks[a]] = Rank(S, R, a)
    <3>1. {u \in T : Before(q.sort, q.desc, u, tracks[a])} = {u \in T : <<u, tracks[a]>> \in P}
      OBVIOUS
    <3>2. place[tracks[a]] = Cardinality({u \in T : Before(q.sort, q.desc, u, tracks[a])}) + 1
      BY <1>3
    <3>3. Rank(T, P, tracks[a]) = Rank(S, R, a)
      BY <1>3, <1>6
    <3> HIDE DEF place, T, P, R
    <3>4. Rank(T, P, tracks[a]) = Cardinality({u \in T : <<u, tracks[a]>> \in P}) + 1
      BY DEF Rank
    <3> QED
      BY <3>1, <3>2, <3>3, <3>4, Zenon
  <2>2. sorted = [i \in 1..Cardinality(T) |-> CHOOSE t \in T : place[t] = i]
    BY DEF Sorted, Arranged
  <2>3. \A t \in T : \E a \in S : t = tracks[a]
    OBVIOUS
  <2> HIDE DEF place, sorted, list, R, n, T, P
  <2>4. ASSUME NEW i \in 1..n PROVE (CHOOSE t \in T : place[t] = i) = tracks[list[i]]
    <3>1. tracks[list[i]] \in T /\ place[tracks[list[i]]] = i
      BY <1>3, <1>7, <2>1
    <3>2. \A t \in T : place[t] = i => t = tracks[list[i]]
      BY <1>7, <2>1, <2>3
    <3> QED
      BY <3>1, <3>2
  <2> QED
    BY <1>6, <2>2, <2>4
<1>10. [i \in DOMAIN sorted |-> sorted[i].id] = list
  <2>1. \A i \in 1..n : sorted[i].id = list[i]
    BY <1>3, <1>7, <1>9
  <2>2. list = [i \in 1..n |-> list[i]]
    BY DEF Listing
  <2> HIDE DEF sorted, list, n
  <2> QED
    BY <1>9, <2>1, <2>2
<1>11. RowsOf(S, q) = rows /\ IDsOf(S, q) = [i \in DOMAIN sorted |-> sorted[i].id]
  BY DEF RowsOf, IDsOf
<1> HIDE DEF rows, list, sorted
<1> QED
  BY <1>8, <1>10, <1>11 DEF list

\* What can be asked: what Chosen makes of a query, or of a smart playlist.
Askable(q) ==
  /\ q.desc \in BOOLEAN
  /\ q.rule # <<>> => q.rule[1] \in Rules
  /\ q.playlist \in {0} \cup DOMAIN Playlists

IsList(list) ==
  /\ Len(list) \in Nat /\ DOMAIN list = 1..Len(list)
  /\ list = [i \in 1..Len(list) |-> list[i]]

\* A function on 1..n is a list of length n.
LEMMA ListOfLength ==
  ASSUME NEW n \in Nat, NEW list, list = [i \in 1..n |-> list[i]]
  PROVE  IsList(list) /\ Len(list) = n
<1>1. list \in Seq({list[i] : i \in 1..n})
  OBVIOUS
<1>2. Len(list) = n
  BY <1>1
<1> QED
  BY <1>2 DEF IsList

Holds(q, t) ==
  /\ q.rule # <<>> => Match(q.rule[1], t)
  /\ q.search # <<>> => SearchFinds(q.search[1], t)

\* A plain playlist is listed in its own order by both.
LEMMA ManualAgrees ==
  ASSUME TablesInv, opened, NEW asked, Askable(Chosen(asked)), IsManual(Chosen(asked))
  PROVE  ListSQL(asked) = InMemory(asked) /\ IsList(ListSQL(asked))
<1> DEFINE q == Chosen(asked)
           list == Playlists[q.playlist].tracks
           joined == DOMAIN tracks \cap DOMAIN search
           places(K) == Arranged(K, LAMBDA i, j : i < j)
           Pick(K) == [n \in DOMAIN places(K) |-> list[places(K)[n]]]
           K == {i \in DOMAIN list : list[i] \in joined /\ WhereSQL(q, list[i])}
           M == {i \in DOMAIN list : list[i] \in DOMAIN tracks /\ Holds(q, tracks[list[i]])}
<1>1. ListSQL(asked) = Pick(K)
  BY DEF ListSQL, Filtered
<1>2. InMemory(asked) = Pick(M)
  BY DEF InMemory, Filtered, Holds
<1>3. list \in Seq(Nat) /\ IsFiniteSet(1..Len(list)) /\ DOMAIN list = 1..Len(list)
  <2>1. list \in Seq(Nat)
    BY QueryAssumption DEF IsManual, Askable
  <2> QED
    BY <2>1, FS_Interval
<1>4. DOMAIN search = DOMAIN tracks
  BY DEF TablesInv, Projection, Lookup
<1>5. \A id \in DOMAIN tracks : WhereSQL(q, id) <=> Holds(q, tracks[id])
  BY WhereAgrees DEF Askable, Holds
<1>6. K = M
  BY <1>4, <1>5
<1>7. Cardinality(K) \in Nat
  BY <1>3, FS_Subset, FS_CardinalityType
<1>8. DOMAIN places(K) = 1..Cardinality(K)
  BY DEF Arranged
<1> HIDE DEF K, M, list, q, places
<1>9. Pick(K) = [i \in 1..Cardinality(K) |-> Pick(K)[i]]
  BY <1>8
<1> HIDE DEF Pick
<1> QED
  BY <1>1, <1>2, <1>6, <1>7, <1>9, ListOfLength

\* What is filtered and sorted is of one length, and by a field that both know
\* it is listed alike.
LEMMA AutomaticAgrees ==
  ASSUME TablesInv, opened, NEW asked, Askable(Chosen(asked)), ~IsManual(Chosen(asked))
  PROVE  /\ IsList(ListSQL(asked)) /\ IsList(InMemory(asked))
         /\ TotalSQL(asked) = Len(ListSQL(asked)) /\ Len(InMemory(asked)) = Len(ListSQL(asked))
         /\ OneOrder(Chosen(asked).sort) => ListSQL(asked) = InMemory(asked)
<1> DEFINE q == Chosen(asked)
           joined == DOMAIN tracks \cap DOMAIN search
           K == {id \in joined : ~tracks[id].missing /\ WhereSQL(q, id)}
           M == {id \in DOMAIN tracks : ~tracks[id].missing /\ Holds(q, tracks[id])}
           C == {id \in DOMAIN tracks : ~tracks[id].missing /\ WhereSQL(q, id)}
           T == {tracks[id] : id \in K}
<1>1. ListSQL(asked) = RowsOf(K, q)
  BY DEF ListSQL, RowsOf
<1>2. InMemory(asked) = IDsOf(M, q)
  BY DEF InMemory, Holds, IDsOf
<1>3. TotalSQL(asked) = IF q.rule # <<>> THEN Len(ListSQL(asked)) ELSE Cardinality(C)
  BY DEF TotalSQL
<1>4. DOMAIN search = DOMAIN tracks
  BY DEF TablesInv, Projection, Lookup
<1>5. \A id \in DOMAIN tracks : WhereSQL(q, id) <=> Holds(q, tracks[id])
  BY WhereAgrees DEF Askable, Holds
<1>6. K = M /\ K = C
  BY <1>4, <1>5
<1>7. K \in SUBSET DOMAIN tracks
  OBVIOUS
<1>8. OneOrder(q.sort) => IDsOf(K, q) = RowsOf(K, q)
  <2> HIDE DEF K, q
  <2>1. q.desc \in BOOLEAN
    BY DEF Askable, q
  <2> QED
    BY <1>7, <2>1, SortedAgrees
<1>9. IsFiniteSet(K) /\ Cardinality(K) \in Nat
  BY <1>7, FS_Subset, FS_CardinalityType DEF TablesInv
<1> HIDE DEF K, M, C, q
<1>10. RowsOf(K, q) = [i \in 1..Cardinality(K) |-> RowsOf(K, q)[i]]
  <2> DEFINE place == [a \in K |-> Cardinality({b \in K : BeforeSQL(q.sort, q.desc, b, a)}) + 1]
  <2>1. RowsOf(K, q) = [i \in 1..Cardinality(K) |-> CHOOSE a \in K : place[a] = i]
    BY DEF RowsOf, Arranged
  <2> HIDE DEF place
  <2> QED
    BY <2>1
<1>11. IsList(RowsOf(K, q)) /\ Len(RowsOf(K, q)) = Cardinality(K)
  BY <1>9, <1>10, ListOfLength
<1>12. Cardinality(T) = Cardinality(K)
  <2> DEFINE f == [id \in K |-> tracks[id]]
  <2>1. \A id \in K : tracks[id].id = id
    BY <1>7 DEF TablesInv
  <2>2. f \in Bijection(K, T)
    BY <2>1 DEF Bijection, Injection, Surjection, IsInjective
  <2> HIDE DEF f, T
  <2> QED
    BY <1>9, <2>2, FS_Bijection DEF ExistsBijection
<1>13. IDsOf(K, q) = [i \in 1..Cardinality(K) |-> IDsOf(K, q)[i]]
  <2> DEFINE sorted == Sorted(T, q.sort, q.desc)
  <2>1. DOMAIN sorted = 1..Cardinality(T)
    BY DEF Sorted, Arranged
  <2>2. IDsOf(K, q) = [i \in DOMAIN sorted |-> sorted[i].id]
    BY DEF IDsOf
  <2> HIDE DEF sorted, T
  <2> QED
    BY <1>12, <2>1, <2>2
<1>14. IsList(IDsOf(K, q)) /\ Len(IDsOf(K, q)) = Cardinality(K)
  BY <1>9, <1>13, ListOfLength
<1> QED
  BY <1>1, <1>2, <1>3, <1>6, <1>8, <1>11, <1>14 DEF q

\* SQLite and memory list as many tracks, and in an order that both know the same.
LEMMA ListAgrees ==
  ASSUME TablesInv, opened, NEW asked, Askable(Chosen(asked))
  PROVE  /\ IsList(ListSQL(asked)) /\ IsList(InMemory(asked))
         /\ TotalSQL(asked) = Len(ListSQL(asked)) /\ Len(InMemory(asked)) = Len(ListSQL(asked))
         /\ OneOrder(Chosen(asked).sort) => ListSQL(asked) = InMemory(asked)
<1>1. CASE IsManual(Chosen(asked))
  <2>1. TotalSQL(asked) = Len(ListSQL(asked))
    BY <1>1 DEF TotalSQL
  <2> QED
    BY <1>1, <2>1, ManualAgrees
<1>2. CASE ~IsManual(Chosen(asked))
  BY <1>2, AutomaticAgrees
<1> QED
  BY <1>1, <1>2

-----------------------------------------------------------------------------
(* Pages of rows and of tracks.                                            *)

\* What the quotient of a division is.
LEMMA DivIs ==
  ASSUME NEW s \in Nat \ {0}, NEW n \in Nat, NEW k \in Nat
  PROVE  n \div s = k <=> k * s <= n /\ n < k * s + s
<1>1. n \div s \in Nat
  OBVIOUS
<1>2. (n \div s) * s <= n /\ n < (n \div s) * s + s
  OBVIOUS
<1>3. ASSUME NEW a \in Nat, NEW b \in Nat, a < b PROVE a * s + s <= b * s
  <2>1. PICK d \in Nat : b = a + 1 + d
    <3>1. b - a - 1 \in Nat /\ b = a + 1 + (b - a - 1)
      BY <1>3
    <3> QED
      BY <3>1
  <2>2. b * s = a * s + s + d * s
    BY <2>1
  <2>3. d * s >= 0
    OBVIOUS
  <2>4. a * s \in Int /\ b * s \in Int /\ d * s \in Int
    OBVIOUS
  <2> QED
    BY <2>2, <2>3, <2>4
<1> DEFINE m == n \div s
<1>4. m \in Nat /\ m * s <= n /\ n < m * s + s /\ m * s \in Int /\ k * s \in Int
  BY <1>1, <1>2
<1> HIDE DEF m
<1>5. ASSUME k * s <= n, n < k * s + s PROVE m = k
  <2>1. ~(m < k)
    BY <1>3, <1>4, <1>5
  <2>2. ~(k < m)
    BY <1>3, <1>4, <1>5
  <2> QED
    BY <1>4, <2>1, <2>2
<1> QED
  BY <1>4, <1>5 DEF m

\* Page p of size s of a list of l entries.
LEMMA PageIsRange ==
  ASSUME NEW s \in Nat \ {0}, NEW p \in Nat \ {0}, NEW l \in Nat
  PROVE  LET skipped == (p - 1) * s
             offset == IF p <= l \div s + 1 THEN skipped ELSE l
             last == IF offset + s < l THEN offset + s ELSE l
             part == {i \in 1..l : (i - 1) \div s = p - 1}
         IN  /\ offset \in 0..l /\ last \in offset..l
             /\ part = (offset + 1)..last
             /\ part # {} => offset = skipped
<1> DEFINE skipped == (p - 1) * s
           offset == IF p <= l \div s + 1 THEN skipped ELSE l
           last == IF offset + s < l THEN offset + s ELSE l
           part == {i \in 1..l : (i - 1) \div s = p - 1}
           m == l \div s
<1>1. m \in Nat /\ p - 1 \in Nat /\ skipped \in Nat
  OBVIOUS
<1>2. \A k \in Nat : m = k <=> k * s <= l /\ l < k * s + s
  BY DivIs
<1>3. ASSUME NEW a \in Nat, NEW b \in Nat, a <= b PROVE a * s <= b * s
  <2>1. PICK d \in Nat : b = a + d
    <3>1. b - a \in Nat /\ b = a + (b - a)
      BY <1>3
    <3> QED
      BY <3>1
  <2>2. b * s = a * s + d * s /\ d * s >= 0 /\ a * s \in Int /\ d * s \in Int
    BY <2>1
  <2> QED
    BY <2>2
<1>4. \A i \in 1..l : i \in part <=> skipped <= i - 1 /\ i - 1 < skipped + s
  BY <1>1, DivIs
<1>5. CASE p <= m + 1
  <2>1. skipped <= m * s /\ m * s <= l /\ m * s \in Int
    BY <1>1, <1>2, <1>3, <1>5
  <2>2. offset = skipped
    BY <1>5
  <2> HIDE DEF skipped, part, m
  <2>3. offset \in 0..l /\ last \in offset..l
    BY <1>1, <2>1, <2>2
  <2>4. ASSUME NEW i \in 1..l PROVE i \in part <=> offset + 1 <= i /\ i <= last
    <3>1. i \in part <=> offset <= i - 1 /\ i - 1 < offset + s
      BY <1>4, <2>2
    <3>2. offset \in Int /\ i \in Int /\ i <= l
      BY <2>3
    <3>3. last = IF offset + s < l THEN offset + s ELSE l
      OBVIOUS
    <3> HIDE DEF offset, last
    <3> QED
      BY <3>1, <3>2, <3>3
  <2>5. part \subseteq 1..l
    BY DEF part
  <2>6. part = (offset + 1)..last
    <3> HIDE DEF offset, last
    <3>1. offset \in Int /\ last \in Int /\ 0 <= offset /\ last <= l
      BY <2>3
    <3>2. \A i \in (offset + 1)..last : i \in 1..l
      BY <3>1
    <3>3. \A i \in 1..l : i \in part <=> i \in (offset + 1)..last
      BY <2>4, <3>1
    <3> QED
      BY <2>5, <3>2, <3>3
  <2> QED
    BY <2>2, <2>3, <2>6 DEF part, skipped, m
<1>6. CASE p > m + 1
  <2>1. (m + 1) * s <= skipped
    BY <1>1, <1>3, <1>6
  <2>2. (m + 1) * s = m * s + s /\ l < m * s + s /\ m * s \in Int
    BY <1>1, <1>2
  <2>3. part = {}
    <3> HIDE DEF skipped, m
    <3>1. \A i \in 1..l : i \notin part
      BY <1>1, <1>4, <2>1, <2>2
    <3> QED
      BY <3>1
  <2>4. offset = l /\ last = l
    BY <1>1, <1>6
  <2> QED
    BY <2>3, <2>4
<1> QED
  BY <1>1, <1>5, <1>6

\* A part of a list, by its places.
LEMMA PartIs ==
  ASSUME NEW list, IsList(list), NEW a \in 0..Len(list), NEW b \in a..Len(list)
  PROVE  /\ Len(SubSeq(list, a + 1, b)) = b - a
         /\ \A j \in 1..(b - a) : SubSeq(list, a + 1, b)[j] = list[a + j]
<1> DEFINE S == {list[i] : i \in 1..Len(list)}
           c == a + 1
<1>1. list \in Seq(S) /\ Len(list) \in Nat
  BY DEF IsList
<1> HIDE DEF S
<1>2. a \in Int /\ b \in Int /\ c \in Int /\ 1 <= c /\ c <= b + 1 /\ b <= Len(list) /\ c = a + 1
  BY <1>1
<1> HIDE DEF c
<1>3. /\ Len(SubSeq(list, c, b)) = b - c + 1
      /\ \A j \in 1..(b - c + 1) : SubSeq(list, c, b)[j] = list[c + j - 1]
  BY <1>1, <1>2
<1>4. b - c + 1 = b - a /\ \A j \in 1..(b - a) : c + j - 1 = a + j
  BY <1>2
<1> QED
  BY <1>3, <1>4 DEF c

\* How many numbers there are in a range.
LEMMA RangeSize ==
  ASSUME NEW a \in Int, NEW b \in Int, a <= b
  PROVE  Cardinality((a + 1)..b) = b - a
<1> DEFINE c == a + 1
<1>1. c \in Int /\ c <= b + 1 /\ b - c + 1 = b - a
  OBVIOUS
<1> HIDE DEF c
<1>2. Cardinality(c..b) = IF c > b THEN 0 ELSE b - c + 1
  BY <1>1, FS_Interval
<1>3. (IF c > b THEN 0 ELSE b - c + 1) = b - a
  BY <1>1
<1> QED
  BY <1>2, <1>3 DEF c

\* A query can be asked of either side, and its sizes are positive.
LEMMA QueryIs ==
  ASSUME NEW q \in Queries
  PROVE  /\ Askable(Chosen(q))
         /\ SizeOf(q) \in Nat \ {0} /\ PageNumber(q) \in Nat \ {0}
         /\ q.all \in BOOLEAN
<1>1. /\ q.rule \in Option(Rules) /\ q.desc \in BOOLEAN /\ q.page \in Int
      /\ q.playlist \in {0} \cup DOMAIN Playlists /\ q.all \in BOOLEAN
      /\ {"rule", "sort", "desc", "playlist"} \subseteq DOMAIN q
  BY QueryAssumption DEF Query
<1>2. SizeOf(q) \in Nat \ {0} /\ PageNumber(q) \in Nat \ {0}
  <2>1. SizeOf(q) \in Sizes \cup {UsualSize}
    BY DEF SizeOf
  <2>2. UsualSize \in Nat \ {0} /\ Sizes \subseteq Nat \ {0}
    BY QueryAssumption
  <2>3. PageNumber(q) \in Nat \ {0}
    BY <1>1 DEF PageNumber
  <2> QED
    BY <2>1, <2>2, <2>3
<1>3. q.rule # <<>> => q.rule[1] \in Rules
  BY <1>1 DEF Option
<1>4. CASE q.playlist = 0 \/ ~Playlists[q.playlist].smart
  <2>1. Chosen(q) = q
    BY <1>4 DEF Chosen
  <2>2. Askable(q)
    BY <1>1, <1>3 DEF Askable
  <2> QED
    BY <1>1, <1>2, <2>1, <2>2
<1>5. CASE q.playlist # 0 /\ Playlists[q.playlist].smart
  <2> DEFINE p == Playlists[q.playlist]
             c == Chosen(q)
  <2>1. p.rule \in Rules /\ p.desc \in BOOLEAN
    BY <1>1, <1>5, QueryAssumption
  <2>2. c = [q EXCEPT !.rule = <<p.rule>>, !.sort = p.sort, !.desc = p.desc]
    BY <1>5 DEF Chosen
  <2>3. c.rule = <<p.rule>> /\ c.desc = p.desc /\ c.playlist = q.playlist
    BY <1>1, <2>2
  <2> HIDE DEF p, c
  <2>4. Askable(c)
    BY <1>1, <2>1, <2>3 DEF Askable
  <2> QED
    BY <1>1, <1>2, <2>4 DEF c
<1> QED
  BY <1>1, <1>2, <1>4, <1>5

\* The query of a smart playlist can be asked.
LEMMA PlaylistIs ==
  ASSUME NEW p \in DOMAIN Playlists, Playlists[p].smart
  PROVE  Askable(Chosen(OfPlaylist(p)))
<1> DEFINE q == OfPlaylist(p)
           c == Chosen(q)
           list == Playlists[p]
<1>1. p # 0 /\ list.rule \in Rules /\ list.desc \in BOOLEAN
  BY QueryAssumption
<1>2. q.playlist = p /\ {"rule", "sort", "desc", "playlist"} \subseteq DOMAIN q
  BY DEF OfPlaylist
<1> HIDE DEF q
<1>3. c = [q EXCEPT !.rule = <<list.rule>>, !.sort = list.sort, !.desc = list.desc]
  BY <1>1, <1>2 DEF Chosen
<1>4. c.rule = <<list.rule>> /\ c.desc = list.desc /\ c.playlist = p
  BY <1>2, <1>3
<1> HIDE DEF c, list
<1>5. Askable(c)
  BY <1>1, <1>4 DEF Askable
<1> QED
  BY <1>5 DEF c, q

\* The total of a page is the length of the list in memory, whatever the order.
LEMMA TotalAgrees ==
  ASSUME TablesInv, opened, NEW q \in Queries
  PROVE  PageSQL(q).total = Len(InMemory(q))
<1>1. TotalSQL(q) = Len(InMemory(q)) /\ Len(ListSQL(q)) = Len(InMemory(q))
  BY QueryIs, ListAgrees
<1>2. PageSQL(q).total = IF q.all THEN Len(ListSQL(q)) ELSE TotalSQL(q)
  BY DEF PageSQL, Paged
<1> QED
  BY <1>1, <1>2

\* The page of the database is the page of the list in memory.
LEMMA PageAgrees ==
  ASSUME TablesInv, opened, NEW q \in Queries, OneOrder(Chosen(q).sort)
  PROVE  IsPageOf(PageSQL(q), InMemory(q), q)
<1> DEFINE list == InMemory(q)
           page == PageSQL(q)
           l == Len(list)
           s == SizeOf(q)
           p == PageNumber(q)
<1>1. list = ListSQL(q) /\ IsList(list) /\ TotalSQL(q) = l
  BY QueryIs, ListAgrees
<1>2. s \in Nat \ {0} /\ p \in Nat \ {0} /\ l \in Nat /\ DOMAIN list = 1..l
  BY <1>1, QueryIs DEF IsList
<1>3. CASE q.all
  <2>1. page.ids = list /\ page.total = l
    BY <1>1, <1>3 DEF PageSQL, Paged
  <2>2. OnPage(list, q) = 1..l /\ Skipped(q) = 0
    BY <1>2, <1>3 DEF OnPage, Skipped
  <2>3. Cardinality(1..l) = l
    <3> DEFINE n == l
               a == 0
    <3>1. a \in Int /\ n \in Int /\ a <= n /\ a + 1 = 1 /\ n - a = n
      BY <1>2
    <3> HIDE DEF a, n
    <3>2. Cardinality((a + 1)..n) = n - a
      BY <3>1, RangeSize
    <3>3. Cardinality(1..n) = n
      BY <3>1, <3>2
    <3> QED
      BY <3>3 DEF n
  <2> HIDE DEF list, page, l
  <2>4. \A i \in 1..l : i - 0 = i
    BY <1>2
  <2>5. page.total = l /\ Len(page.ids) = Cardinality(OnPage(list, q))
        /\ \A i \in OnPage(list, q) : page.ids[i - Skipped(q)] = list[i]
    BY <2>1, <2>2, <2>3, <2>4 DEF l
  <2> QED
    BY <2>5 DEF IsPageOf, list, page, l
<1>4. CASE ~q.all
  <2> DEFINE skipped == (p - 1) * s
             offset == IF p <= l \div s + 1 THEN skipped ELSE l
             last == IF offset + s < l THEN offset + s ELSE l
             part == {i \in 1..l : (i - 1) \div s = p - 1}
  <2>1. /\ offset \in 0..l /\ last \in offset..l
        /\ part = (offset + 1)..last
        /\ part # {} => offset = skipped
    BY <1>2, PageIsRange
  <2>2. Offset(q, l) = offset
    BY <1>1 DEF Offset
  <2>3. page.ids = SubSeq(list, offset + 1, last) /\ page.total = l
    BY <1>1, <1>4, <2>2 DEF PageSQL, Paged
  <2>4. OnPage(list, q) = part /\ Skipped(q) = skipped
    BY <1>2, <1>4 DEF OnPage, Skipped
  <2>5. Cardinality((offset + 1)..last) = last - offset
    <3> HIDE DEF offset, last, l
    <3>1. offset + 1 \in Int /\ last \in Int /\ offset <= last
      BY <1>2, <2>1
    <3>2. offset \in Int
      BY <1>2, <2>1
    <3> QED
      BY <3>1, <3>2, RangeSize
  <2> HIDE DEF list, page, skipped, offset, last, part
  <2>6. /\ Len(SubSeq(list, offset + 1, last)) = last - offset
        /\ \A j \in 1..(last - offset) : SubSeq(list, offset + 1, last)[j] = list[offset + j]
    BY <1>1, <2>1, PartIs
  <2>7. ASSUME NEW i \in part PROVE page.ids[i - skipped] = list[i]
    <3>1. offset = skipped /\ i \in (offset + 1)..last
      BY <2>1
    <3>2. offset \in Int /\ last \in Int
      BY <1>2, <2>1
    <3> HIDE DEF l
    <3>3. i - offset \in 1..(last - offset) /\ offset + (i - offset) = i
      BY <3>1, <3>2
    <3> QED
      BY <2>3, <2>6, <3>1, <3>3
  <2>8. page.total = l /\ Len(page.ids) = Cardinality(OnPage(list, q))
        /\ \A i \in OnPage(list, q) : page.ids[i - Skipped(q)] = list[i]
    BY <2>1, <2>3, <2>4, <2>5, <2>6, <2>7
  <2> QED
    BY <2>8 DEF IsPageOf, list, page
<1> QED
  BY <1>3, <1>4, QueryIs

\* A query answered by the database, and the same query answered from
\* memory, have one total and, in an order by a field that both know, give the
\* same tracks in the same order on each page (store_query.go, model.go),
\* whatever the tracks, the playlists, the rules and the pages are.
THEOREM QueriesAgreeHolds == QuerySpec => []QueriesAgree
<1>1. TablesInv => QueriesAgree
  <2> SUFFICES ASSUME TablesInv, opened PROVE PagesAgree /\ MembersAgree
    BY DEF QueriesAgree
  <2>1. PagesAgree
    BY PageAgrees, TotalAgrees DEF PagesAgree
  <2>2. MembersAgree
    <3> SUFFICES ASSUME NEW p \in DOMAIN Playlists, Playlists[p].smart,
                        OneOrder(Playlists[p].sort)
                 PROVE  ListSQL(OfPlaylist(p)) = InMemory(OfPlaylist(p))
      BY DEF MembersAgree, MembersSQL
    <3>1. Chosen(OfPlaylist(p)).sort = Playlists[p].sort
      BY QueryAssumption DEF Chosen, OfPlaylist
    <3> QED
      BY <3>1, PlaylistIs, ListAgrees
  <2> QED
    BY <2>1, <2>2
<1> QED
  BY <1>1, TablesInvHolds, PTL

-----------------------------------------------------------------------------
(* Selections of a list.                                                   *)

\* What a list keeps, by its places in the list.
Selected(list, K) == [n \in DOMAIN Places(K) |-> list[Places(K)[n]]]

\* It is a list, of as many entries as there are places; each is at one place.
LEMMA SelectedIs ==
  ASSUME NEW list, NEW K \in SUBSET Nat, IsFiniteSet(K)
  PROVE  /\ IsList(Selected(list, K)) /\ Len(Selected(list, K)) = Cardinality(K)
         /\ \E at \in Bijection(1..Cardinality(K), K) :
              Selected(list, K) = [n \in 1..Cardinality(K) |-> list[at[n]]]
<1> DEFINE at == Places(K)
           m == Cardinality(K)
           R == Less(K)
<1>1. /\ m \in Nat /\ at \in [1..m -> K]
      /\ \A n \in 1..m : Rank(K, R, at[n]) = n
      /\ \A i \in K : at[Rank(K, R, i)] = i
  BY PlacesAre, ListingIs
<1>2. \A i \in K : Rank(K, R, i) \in 1..m
  BY PlacesAre, RankIsPlace
<1> HIDE DEF R
<1>3. at \in Bijection(1..m, K)
  <2>1. \A i, j \in 1..m : at[i] = at[j] => i = j
    BY <1>1
  <2>2. \A k \in K : \E i \in 1..m : at[i] = k
    BY <1>1, <1>2
  <2> HIDE DEF at, m
  <2> QED
    BY <1>1, <2>1, <2>2 DEF Bijection, Injection, Surjection, IsInjective
<1>4. Selected(list, K) = [n \in 1..m |-> list[at[n]]]
  <2>1. DOMAIN at = 1..m
    BY <1>1
  <2>2. Selected(list, K) = [n \in DOMAIN at |-> list[at[n]]]
    BY DEF Selected
  <2> HIDE DEF at, m
  <2> QED
    BY <2>1, <2>2
<1> HIDE DEF at, m
<1>5. \A n \in 1..m : Selected(list, K)[n] = list[at[n]]
  BY <1>4
<1>6. Selected(list, K) = [n \in 1..m |-> Selected(list, K)[n]]
  BY <1>4, <1>5
<1>7. IsList(Selected(list, K)) /\ Len(Selected(list, K)) = m
  BY <1>1, <1>6, ListOfLength
<1> QED
  BY <1>3, <1>4, <1>7 DEF m

-----------------------------------------------------------------------------
(* Pages tile a list: a place of the list is on the page that its number,  *)
(* divided by the size of a page, says.                                    *)

\* The pages of a list, and the places on them.
OnePage(list, n, s) ==
  SubSeq(list, (n - 1) * s + 1,
         IF (n - 1) * s + s < Len(list) THEN (n - 1) * s + s ELSE Len(list))
PlacesOn(pages) == UNION {{n} \X DOMAIN pages[n] : n \in DOMAIN pages}
Distinct(list) == \A i, j \in 1..Len(list) : list[i] = list[j] => i = j

\* A place is a page and a place on it.
LEMMA PlaceIs ==
  ASSUME NEW pages, NEW p
  PROVE  p \in PlacesOn(pages) <=>
           p = <<p[1], p[2]>> /\ p[1] \in DOMAIN pages /\ p[2] \in DOMAIN pages[p[1]]
BY DEF PlacesOn

\* Entry i of page n is entry (n - 1) * s + i of the list.
LEMMA OnePageIs ==
  ASSUME NEW list, IsList(list), NEW s \in Nat \ {0}, NEW n \in 1..(Len(list) \div s + 1)
  PROVE  /\ Len(OnePage(list, n, s)) \in 0..s
         /\ DOMAIN OnePage(list, n, s) = 1..Len(OnePage(list, n, s))
         /\ \A i \in DOMAIN OnePage(list, n, s) :
              /\ (n - 1) * s + i \in 1..Len(list) /\ i \in 1..s
              /\ OnePage(list, n, s)[i] = list[(n - 1) * s + i]
         /\ \A j \in 1..Len(list) :
              (j - 1) \div s = n - 1 => j - (n - 1) * s \in DOMAIN OnePage(list, n, s)
<1> DEFINE l == Len(list)
           skipped == (n - 1) * s
           offset == IF n <= l \div s + 1 THEN skipped ELSE l
           last == IF offset + s < l THEN offset + s ELSE l
           part == {i \in 1..l : (i - 1) \div s = n - 1}
           page == OnePage(list, n, s)
<1>1. l \in Nat /\ n \in Nat \ {0} /\ n <= l \div s + 1 /\ l \div s \in Nat
  BY DEF IsList
<1>2. /\ offset \in 0..l /\ last \in offset..l
      /\ part = (offset + 1)..last
  BY <1>1, PageIsRange
<1>3. offset = skipped
  BY <1>1
<1>4. page = SubSeq(list, offset + 1, last)
  <2>1. page = SubSeq(list, skipped + 1, IF skipped + s < l THEN skipped + s ELSE l)
    BY DEF OnePage
  <2> QED
    BY <1>3, <2>1
<1> HIDE DEF offset, last, skipped, part, l
<1>5. Len(page) = last - offset /\ \A j \in 1..(last - offset) : page[j] = list[offset + j]
  BY <1>2, <1>4, PartIs DEF l
<1>6. DOMAIN page = 1..Len(page)
  <2> DEFINE S == {list[i] : i \in 1..l}
             c == offset + 1
  <2>1. list \in Seq(S)
    BY DEF IsList, l
  <2>2. c \in Int /\ 1 <= c /\ last \in Int /\ last <= Len(list)
    BY <1>1, <1>2 DEF l
  <2> HIDE DEF S, c
  <2>3. SubSeq(list, c, last) \in Seq(S)
    BY <2>1, <2>2
  <2>4. DOMAIN SubSeq(list, c, last) = 1..Len(SubSeq(list, c, last))
    BY <2>3
  <2> QED
    BY <1>4, <2>4 DEF c
<1>7. offset \in Int /\ last \in Int /\ 0 <= offset /\ offset <= last /\ last <= l
  BY <1>1, <1>2
<1>8. last - offset <= s
  <2>1. last = IF offset + s < l THEN offset + s ELSE l
    BY DEF last
  <2> QED
    BY <1>1, <1>7, <2>1
<1>9. \A j \in 1..l : (j - 1) \div s = n - 1 => offset + 1 <= j /\ j <= last
  <2>1. \A j \in 1..l : (j - 1) \div s = n - 1 => j \in part
    BY DEF part
  <2> QED
    BY <1>2, <1>7, <2>1
<1> HIDE DEF page
<1>10. /\ Len(page) \in 0..s
       /\ \A i \in DOMAIN page : offset + i \in 1..l /\ i \in 1..s /\ page[i] = list[offset + i]
       /\ \A j \in 1..l : (j - 1) \div s = n - 1 => j - offset \in DOMAIN page
  BY <1>1, <1>5, <1>6, <1>7, <1>8, <1>9
<1> QED
  BY <1>3, <1>6, <1>10 DEF page, l, skipped

\* The pages of a list of distinct entries tile it.
LEMMA TileIs ==
  ASSUME NEW list, IsList(list), Distinct(list), NEW s \in Nat \ {0},
         NEW pages, DOMAIN pages = 1..(Len(list) \div s + 1),
         \A n \in DOMAIN pages : pages[n] = OnePage(list, n, s)
  PROVE  /\ Cardinality(PlacesOn(pages)) = Len(list)
         /\ \A p, r \in PlacesOn(pages) : pages[p[1]][p[2]] = pages[r[1]][r[2]] => p = r
         /\ \A n \in DOMAIN pages : Len(pages[n]) <= s
<1> DEFINE l == Len(list)
           m == l \div s
           P == PlacesOn(pages)
           entry(p) == (p[1] - 1) * s + p[2]
           f == [p \in P |-> entry(p)]
<1>1. l \in Nat /\ m \in Nat
  BY DEF IsList
<1>2. \A n \in DOMAIN pages : n \in 1..(m + 1) /\ Len(pages[n]) \in 0..s
  BY OnePageIs
<1>3. ASSUME NEW p \in P
      PROVE  /\ p = <<p[1], p[2]>> /\ p[1] \in 1..(m + 1) /\ p[2] \in 1..s
             /\ entry(p) \in 1..l /\ pages[p[1]][p[2]] = list[entry(p)]
             /\ (entry(p) - 1) \div s = p[1] - 1
  <2> DEFINE n == p[1]
             i == p[2]
  <2>1. p = <<n, i>> /\ n \in DOMAIN pages /\ i \in DOMAIN pages[n]
    BY PlaceIs
  <2>2. n \in 1..(m + 1) /\ pages[n] = OnePage(list, n, s)
    BY <1>2, <2>1
  <2> HIDE DEF n, i
  <2>3. i \in 1..s /\ (n - 1) * s + i \in 1..l /\ pages[n][i] = list[(n - 1) * s + i]
    <3>1. n \in 1..(Len(list) \div s + 1) /\ i \in DOMAIN OnePage(list, n, s)
      BY <2>1, <2>2
    <3>2. \A j \in DOMAIN OnePage(list, n, s) :
            /\ (n - 1) * s + j \in 1..Len(list) /\ j \in 1..s
            /\ OnePage(list, n, s)[j] = list[(n - 1) * s + j]
      BY <3>1, OnePageIs
    <3> QED
      BY <2>2, <3>1, <3>2
  <2>4. ((n - 1) * s + i - 1) \div s = n - 1
    <3> DEFINE k == n - 1
               j == k * s + i - 1
    <3>1. k \in Nat /\ k * s \in Nat /\ j \in Nat /\ k * s <= j /\ j < k * s + s
      BY <1>1, <2>2, <2>3
    <3> HIDE DEF k, j
    <3>2. j \div s = k
      BY <3>1, DivIs
    <3> QED
      BY <3>2 DEF k, j
  <2> QED
    BY <2>1, <2>2, <2>3, <2>4 DEF n, i
<1>4. ASSUME NEW p \in P, NEW r \in P, entry(p) = entry(r) PROVE p = r
  <2>1. p[1] = r[1]
    <3>1. p[1] - 1 = r[1] - 1 /\ p[1] \in Int /\ r[1] \in Int
      BY <1>1, <1>3, <1>4
    <3> QED
      BY <3>1
  <2> DEFINE t == (p[1] - 1) * s
  <2>2. t \in Int /\ p[2] \in Int /\ r[2] \in Int
    BY <1>1, <1>3
  <2>3. t + p[2] = t + r[2]
    BY <1>4, <2>1
  <2> HIDE DEF t
  <2>4. p[2] = r[2]
    BY <2>2, <2>3
  <2> QED
    BY <1>3, <2>1, <2>4
<1>5. ASSUME NEW j \in 1..l PROVE \E p \in P : entry(p) = j
  <2> DEFINE k == (j - 1) \div s
             n == k + 1
             i == j - (n - 1) * s
             p == <<n, i>>
  <2>1. k \in Nat /\ n - 1 = k /\ j - 1 \in Nat /\ j - 1 <= l
    BY <1>1
  <2>2. k <= m
    <3>1. k * s <= j - 1 /\ l < m * s + s /\ k * s \in Int /\ m * s \in Int
      BY <1>1, <2>1, DivIs
    <3>2. k * s < m * s + s
      BY <1>1, <2>1, <3>1
    <3>3. ASSUME m < k PROVE FALSE
      <4>1. PICK d \in Nat : k = m + 1 + d
        <5>1. k - m - 1 \in Nat /\ k = m + 1 + (k - m - 1)
          BY <1>1, <2>1, <3>3
        <5> QED
          BY <5>1
      <4>2. k * s = m * s + s + d * s /\ d * s >= 0 /\ d * s \in Int
        BY <1>1, <4>1
      <4> QED
        BY <3>1, <3>2, <4>2
    <3> QED
      BY <1>1, <2>1, <3>3
  <2>3. n \in 1..(m + 1)
    BY <1>1, <2>1, <2>2
  <2>4. i \in DOMAIN pages[n]
    <3>1. (j - 1) \div s = n - 1
      BY <2>1
    <3> HIDE DEF n
    <3> QED
      BY <2>3, <3>1, OnePageIs
  <2>5. p \in P
    BY <2>3, <2>4, PlaceIs
  <2>6. (n - 1) * s + i = j
    <3> DEFINE t == (n - 1) * s
    <3>1. t \in Int
      BY <2>1
    <3> HIDE DEF t
    <3>2. t + (j - t) = j
      BY <3>1
    <3> QED
      BY <3>2 DEF t
  <2>7. entry(p) = (n - 1) * s + i
    OBVIOUS
  <2> QED
    BY <2>5, <2>6, <2>7
<1> HIDE DEF entry, P
<1>6. f \in Bijection(P, 1..l)
  BY <1>3, <1>4, <1>5 DEF Bijection, Injection, Surjection, IsInjective
<1>7. IsFiniteSet(1..l) /\ Cardinality(1..l) = l
  <2>1. IsFiniteSet(1..l) /\ Cardinality(1..l) = IF 1 > l THEN 0 ELSE l - 1 + 1
    <3> DEFINE n == l
               one == 1
    <3>1. n \in Int /\ one \in Int
      BY <1>1
    <3> HIDE DEF n, one
    <3>2. IsFiniteSet(one..n) /\ Cardinality(one..n) = IF one > n THEN 0 ELSE n - one + 1
      BY <3>1, FS_Interval
    <3> QED
      BY <3>2 DEF n, one
  <2> QED
    BY <1>1, <2>1
<1>8. Cardinality(P) = l
  <2>1. ExistsBijection(P, 1..l)
    BY <1>6 DEF ExistsBijection
  <2>2. ExistsBijection(1..l, P)
    BY <2>1, Fun_ExistsBijSymmetric
  <2> QED
    BY <1>7, <2>2, FS_Bijection
<1>9. ASSUME NEW p \in P, NEW r \in P, pages[p[1]][p[2]] = pages[r[1]][r[2]] PROVE p = r
  <2>1. /\ entry(p) \in 1..l /\ pages[p[1]][p[2]] = list[entry(p)]
        /\ entry(r) \in 1..l /\ pages[r[1]][r[2]] = list[entry(r)]
    BY <1>3
  <2>2. \A i, j \in 1..l : list[i] = list[j] => i = j
    BY DEF Distinct, l
  <2> HIDE DEF l
  <2>3. entry(p) = entry(r)
    BY <1>9, <2>1, <2>2, Zenon
  <2> QED
    BY <1>4, <2>3, Zenon
<1> QED
  BY <1>1, <1>2, <1>8, <1>9 DEF P

-----------------------------------------------------------------------------
(* The window of a queue.                                                  *)

\* The smallest of a set of numbers.
LEMMA SmallestIs ==
  ASSUME NEW S \in SUBSET Nat, S # {}
  PROVE  Smallest(S) \in S /\ \A n \in S : Smallest(S) <= n
<1>1. \E n \in S : \A m \in S : n <= m
  BY LeastNumber
<1> QED
  BY <1>1 DEF Smallest

\* The window of the queue contains the track that was chosen.
LEMMA QueueIs ==
  ASSUME NEW ids, IsList(ids), NEW chosen, chosen # 0, QueueFrom(ids, chosen) # NotFound
  PROVE  LET queue == QueueFrom(ids, chosen).ids
         IN  chosen \in ToSet(queue) /\ Len(queue) <= Window
<1> DEFINE at == {i \in DOMAIN ids : ids[i] = chosen}
           n == Smallest(at)
           first == WindowStart(n)
           last == IF first + Window - 1 < Len(ids) THEN first + Window - 1 ELSE Len(ids)
           a == first - 1
           queue == SubSeq(ids, first, last)
           l == Len(ids)
<1>1. l \in Nat /\ DOMAIN ids = 1..l
  BY DEF IsList
<1>2. at # {} /\ QueueFrom(ids, chosen) = [ids |-> queue]
  BY DEF QueueFrom
<1>3. n \in 1..l /\ ids[n] = chosen
  <2>1. at \in SUBSET Nat
    BY <1>1
  <2>2. n \in at
    BY <1>2, <2>1, SmallestIs
  <2> QED
    BY <1>1, <2>2
<1> HIDE DEF n, at
<1>4. Window \in Nat \ {0}
  BY BrowseAssumption
<1>5. first \in 1..n /\ n <= last /\ last <= l /\ last - first + 1 <= Window /\ last \in Nat
  <2>1. first = IF n > Window THEN n - Window + 1 ELSE 1
    BY DEF WindowStart
  <2> HIDE DEF first
  <2> QED
    BY <1>1, <1>3, <1>4, <2>1
<1> HIDE DEF first, last
<1>6. a \in 0..l /\ last \in a..l /\ a + 1 = first
  BY <1>1, <1>3, <1>5
<1> HIDE DEF a
<1>7. /\ Len(SubSeq(ids, a + 1, last)) = last - a
      /\ \A j \in 1..(last - a) : SubSeq(ids, a + 1, last)[j] = ids[a + j]
  BY <1>6, PartIs DEF l
<1>8. Len(queue) = last - a /\ \A j \in 1..(last - a) : queue[j] = ids[a + j]
  BY <1>6, <1>7
<1>9. DOMAIN queue = 1..Len(queue)
  <2> DEFINE S == {ids[i] : i \in 1..Len(ids)}
  <2>1. ids \in Seq(S)
    BY DEF IsList
  <2> HIDE DEF S
  <2>2. first \in Int /\ last \in Int /\ 1 <= first /\ last <= Len(ids)
    BY <1>1, <1>3, <1>5 DEF l
  <2>3. queue \in Seq(S)
    BY <2>1, <2>2
  <2> QED
    BY <2>3
<1> HIDE DEF queue
<1>10. n - a \in DOMAIN queue /\ queue[n - a] = chosen
  <2>1. n - a \in 1..(last - a) /\ a + (n - a) = n
    BY <1>1, <1>3, <1>5, <1>6
  <2> QED
    BY <1>3, <1>8, <1>9, <2>1
<1>11. chosen \in ToSet(queue)
  BY <1>10 DEF ToSet
<1>12. Len(queue) <= Window
  BY <1>4, <1>5, <1>6, <1>8
<1>13. QueueFrom(ids, chosen).ids = queue
  BY <1>2
<1> QED
  BY <1>11, <1>12, <1>13

-----------------------------------------------------------------------------
(* The orders of tracks are strict and total, so a list holds each track   *)
(* once.                                                                   *)

\* What a track of a library is.
LEMMA TrackIs ==
  ASSUME NEW lib, IsLibrary(lib), NEW t \in Range(lib.tracks)
  PROVE  /\ IsTrack(t) /\ t.id \in DOMAIN lib.tracks /\ lib.tracks[t.id] = t
         /\ t.id \in Nat /\ t.albumID \in Nat /\ t.folder \in Seq(DOMAIN Fold)
         /\ \A f \in TextFields : t[f] \in DOMAIN Fold
         /\ \A f \in NumberFields : t[f] \in Nat
<1>1. PICK id \in DOMAIN lib.tracks : t = lib.tracks[id]
  BY DEF Range
<1>2. IsTrack(t) /\ t.id = id /\ t.albumID \in Nat /\ t.folder \in Seq(DOMAIN Fold)
  BY <1>1 DEF IsLibrary
<1> QED
  BY <1>1, <1>2 DEF IsTrack

\* The tracks of a library are finitely many.
LEMMA TracksFinite ==
  ASSUME NEW lib, IsLibrary(lib), NEW S \in SUBSET Range(lib.tracks)
  PROVE  IsFiniteSet(S) /\ Cardinality(S) \in Nat
<1> DEFINE D == DOMAIN lib.tracks
           f == [id \in D |-> lib.tracks[id]]
<1>1. IsFiniteSet(D)
  BY DEF IsLibrary
<1>2. f \in Surjection(D, Range(lib.tracks))
  BY DEF Surjection, Range
<1>3. IsFiniteSet(Range(lib.tracks))
  BY <1>1, <1>2, FS_Surjection
<1> QED
  BY <1>3, FS_Subset, FS_CardinalityType

\* sortTracks orders tracks of different IDs.
LEMMA BeforeOrders ==
  ASSUME NEW lib, IsLibrary(lib), NEW S \in SUBSET Range(lib.tracks),
         NEW field, NEW desc \in BOOLEAN
  PROVE  /\ \A a \in S : ~Before(field, desc, a, a)
         /\ \A a, b, c \in S : Before(field, desc, a, b) /\ Before(field, desc, b, c)
                                 => Before(field, desc, a, c)
         /\ \A a, b \in S : a = b \/ Before(field, desc, a, b) \/ Before(field, desc, b, a)
<1> DEFINE fs == OrderOf(field)
           n == Len(fs)
           x(a) == SortKeys(a, fs)
           before(a, b) == Precedes(n, desc, x(a), a.id, x(b), b.id)
<1>1. n \in Nat
  BY OrderIsSequence
<1>2. \A a \in S : x(a) \in [1..n -> Int] /\ a.id \in Int
  <2>1. \A a \in S : IsTrack(a) /\ a.id \in Nat
    BY TrackIs
  <2> QED
    BY <2>1, KeyIs DEF SortKeys
<1>3. \A a, b \in S : Before(field, desc, a, b) <=> before(a, b)
  BY BeforeIs
<1>4. \A a, b \in S : a.id = b.id => a = b
  <2>1. \A a \in S : lib.tracks[a.id] = a
    BY TrackIs
  <2> QED
    BY <2>1
<1>5. \A a \in S : ~before(a, a)
  BY <1>2 DEF Precedes, Differ
<1> HIDE DEF n, x
<1>6. \A a, b, c \in S : before(a, b) /\ before(b, c) => before(a, c)
  BY <1>1, <1>2, PrecedesTransitive
<1>7. \A a, b \in S : a = b \/ before(a, b) \/ before(b, a)
  BY <1>1, <1>2, <1>4, PrecedesTotal
<1> HIDE DEF before
<1> QED
  BY <1>3, <1>5, <1>6, <1>7

\* The order of top songs is strict and total.
LEMMA TopOrders ==
  ASSUME NEW lib, IsLibrary(lib), NEW S \in SUBSET Range(lib.tracks)
  PROVE  /\ \A a \in S : ~TopBefore(a, a)
         /\ \A a, b, c \in S : TopBefore(a, b) /\ TopBefore(b, c) => TopBefore(a, c)
         /\ \A a, b \in S : a = b \/ TopBefore(a, b) \/ TopBefore(b, a)
<1>1. \A a \in S : a.playCount \in Nat /\ a.lastPlayed \in Nat /\ a.id \in Nat
  <2>1. {"playCount", "lastPlayed"} \subseteq NumberFields
    BY DEF NumberFields
  <2> QED
    BY <2>1, TrackIs
<1>2. \A a, b \in S : a.id = b.id => a = b
  <2>1. \A a \in S : lib.tracks[a.id] = a
    BY TrackIs
  <2> QED
    BY <2>1
<1> QED
  BY <1>1, <1>2 DEF TopBefore

\* The direction of an order.
LEMMA SortDescIs ==
  ASSUME NEW lib, IsLibrary(lib), NEW q, IsQuery(q)
  PROVE  SortDesc(lib, q) \in BOOLEAN
<1>1. CASE IsSmart(lib, q)
  <2>1. SortDesc(lib, q) = lib.playlists[q.detail[1]].desc
    BY <1>1 DEF SortDesc
  <2> QED
    BY <1>1, <2>1 DEF IsSmart, HasList, IsLibrary
<1>2. CASE ~IsSmart(lib, q)
  <2>1. SortDesc(lib, q) <=>
          q.desc \/ q.section = "recent" \/ q.preset \in {"topSongs", "recentlyAdded"}
    BY <1>2 DEF SortDesc
  <2> QED
    BY <1>2, <2>1 DEF IsQuery, SortDesc
<1> QED
  BY <1>1, <1>2

\* The order of a list: of top songs, of discs, or of a field.
LEMMA ListOrders ==
  ASSUME NEW lib, IsLibrary(lib), NEW q, IsQuery(q), NEW S \in SUBSET Range(lib.tracks)
  PROVE  /\ \A a \in S : ~ListBefore(lib, q, a, a)
         /\ \A a, b, c \in S : ListBefore(lib, q, a, b) /\ ListBefore(lib, q, b, c)
                                 => ListBefore(lib, q, a, c)
         /\ \A a, b \in S : a = b \/ ListBefore(lib, q, a, b) \/ ListBefore(lib, q, b, a)
<1> DEFINE field == SortField(lib, q)
           desc == SortDesc(lib, q)
           byDisc == q.section = "albums" /\ q.detail # <<>> /\ field = "number"
<1>1. \A a, b \in S : ListBefore(lib, q, a, b) <=>
        IF q.preset = "topSongs" THEN TopBefore(a, b)
        ELSE IF byDisc /\ Disc(a) # Disc(b) THEN Disc(a) < Disc(b)
        ELSE Before(field, desc, a, b)
  BY DEF ListBefore
<1>2. desc \in BOOLEAN
  BY SortDescIs
<1>3. \A a \in S : Disc(a) \in Nat
  <2>1. "disc" \in NumberFields
    BY DEF NumberFields
  <2>2. \A a \in S : a.disc \in Nat
    BY <2>1, TrackIs
  <2> QED
    BY <2>2 DEF Disc
<1> HIDE DEF field, desc, byDisc
<1>4. CASE q.preset = "topSongs"
  <2>1. \A a, b \in S : ListBefore(lib, q, a, b) <=> TopBefore(a, b)
    BY <1>1, <1>4
  <2> QED
    BY <2>1, TopOrders
<1>5. CASE q.preset # "topSongs"
  <2> DEFINE less(a, b) == Before(field, desc, a, b)
  <2>1. /\ \A a \in S : ~less(a, a)
        /\ \A a, b, c \in S : less(a, b) /\ less(b, c) => less(a, c)
        /\ \A a, b \in S : a = b \/ less(a, b) \/ less(b, a)
    BY <1>2, BeforeOrders
  <2>2. \A a, b \in S : ListBefore(lib, q, a, b) <=>
          IF byDisc /\ Disc(a) # Disc(b) THEN Disc(a) < Disc(b) ELSE less(a, b)
    BY <1>1, <1>5
  <2> HIDE DEF less
  <2>3. CASE byDisc
    BY <1>3, <2>1, <2>2, <2>3
  <2>4. CASE ~byDisc
    BY <2>1, <2>2, <2>4
  <2> QED
    BY <2>3, <2>4
<1> QED
  BY <1>4, <1>5

\* A list of a set in order: each of its elements once.
IsListOf(list, S) ==
  /\ IsList(list) /\ Distinct(list)
  /\ \A i \in 1..Len(list) : list[i] \in S
  /\ \A x \in S : \E i \in 1..Len(list) : list[i] = x

\* A listing of a set lists it: each element once.
LEMMA ListingLists ==
  ASSUME NEW S, IsFiniteSet(S), NEW R, StrictTotal(S, R)
  PROVE  IsListOf(Listing(S, R), S) /\ Len(Listing(S, R)) = Cardinality(S)
<1> DEFINE list == Listing(S, R)
           n == Cardinality(S)
<1>1. /\ n \in Nat /\ list \in [1..n -> S]
      /\ \A i \in 1..n : Rank(S, R, list[i]) = i
      /\ \A x \in S : list[Rank(S, R, x)] = x
  BY ListingIs
<1>2. \A x \in S : Rank(S, R, x) \in 1..n
  BY RankIsPlace
<1> HIDE DEF list, n
<1>3. IsList(list) /\ Len(list) = n
  <2>1. list = [i \in 1..n |-> list[i]]
    BY <1>1
  <2> QED
    BY <1>1, <2>1, ListOfLength
<1>4. IsListOf(list, S)
  BY <1>1, <1>2, <1>3 DEF IsListOf, Distinct
<1> QED
  BY <1>3, <1>4 DEF list, n

\* A list of a set is as long as the set is large.
LEMMA ListOfSize ==
  ASSUME NEW S, IsFiniteSet(S), NEW list, IsListOf(list, S)
  PROVE  Len(list) = Cardinality(S)
<1>1. Len(list) \in Nat /\ list \in Bijection(1..Len(list), S)
  BY DEF IsListOf, IsList, Distinct, Bijection, Injection, Surjection, IsInjective
<1> QED
  BY <1>1, FS_CountingElements DEF ExistsBijection

\* Each of the orders lists what it orders.
ListArranged(lib, q, S) == Arranged(S, LAMBDA a, b : ListBefore(lib, q, a, b))
ListOrder(lib, q, S) == {x \in S \X S : ListBefore(lib, q, x[1], x[2])}

\* The order of a query as a relation.
LEMMA ListOrderIs ==
  ASSUME NEW lib, NEW q, NEW S, NEW a \in S, NEW b \in S
  PROVE  <<a, b>> \in ListOrder(lib, q, S) <=> ListBefore(lib, q, a, b)
<1> DEFINE c == <<a, b>>
<1>1. c \in S \X S /\ c[1] = a /\ c[2] = b
  OBVIOUS
<1> HIDE DEF c
<1>2. c \in ListOrder(lib, q, S) <=> ListBefore(lib, q, c[1], c[2])
  BY <1>1 DEF ListOrder
<1> QED
  BY <1>1, <1>2 DEF c

\* What a query arranges is the listing of the tracks by its order.
LEMMA ListArrangedIs ==
  ASSUME NEW lib, IsLibrary(lib), NEW q, IsQuery(q), NEW S \in SUBSET Range(lib.tracks)
  PROVE  /\ ListArranged(lib, q, S) = Listing(S, ListOrder(lib, q, S))
         /\ IsListOf(ListArranged(lib, q, S), S)
<1> DEFINE R == ListOrder(lib, q, S)
           place == [a \in S |-> Cardinality({b \in S : ListBefore(lib, q, b, a)}) + 1]
<1>1. IsFiniteSet(S)
  BY TracksFinite
<1>2. StrictTotal(S, R)
  <2>1. \A a, b \in S : <<a, b>> \in R <=> ListBefore(lib, q, a, b)
    BY ListOrderIs
  <2> HIDE DEF R
  <2> QED
    BY <2>1, ListOrders DEF StrictTotal
<1>3. ASSUME NEW a \in S PROVE place[a] = Rank(S, R, a)
  <2>1. {b \in S : ListBefore(lib, q, b, a)} = {b \in S : <<b, a>> \in R}
    BY ListOrderIs
  <2> QED
    BY <2>1 DEF Rank
<1>4. ListArranged(lib, q, S) = [i \in 1..Cardinality(S) |-> CHOOSE a \in S : place[a] = i]
  BY DEF ListArranged, Arranged
<1> HIDE DEF place, R
<1>5. ListArranged(lib, q, S) = Listing(S, R)
  BY <1>1, <1>2, <1>3, <1>4, PlacesList
<1> QED
  BY <1>1, <1>2, <1>5, ListingLists DEF R

TopArranged(S) == Arranged(S, TopBefore)
TopOrder(S) == {x \in S \X S : TopBefore(x[1], x[2])}

\* The order of top songs as a relation.
LEMMA TopOrderIs ==
  ASSUME NEW S, NEW a \in S, NEW b \in S
  PROVE  <<a, b>> \in TopOrder(S) <=> TopBefore(a, b)
<1> DEFINE c == <<a, b>>
<1>1. c \in S \X S /\ c[1] = a /\ c[2] = b
  OBVIOUS
<1> HIDE DEF c
<1>2. c \in TopOrder(S) <=> TopBefore(c[1], c[2])
  BY <1>1 DEF TopOrder
<1> QED
  BY <1>1, <1>2 DEF c

\* Top songs are listed, each once.
LEMMA TopArrangedIs ==
  ASSUME NEW lib, IsLibrary(lib), NEW S \in SUBSET Range(lib.tracks)
  PROVE  IsListOf(TopArranged(S), S)
<1> DEFINE R == TopOrder(S)
           place == [a \in S |-> Cardinality({b \in S : TopBefore(b, a)}) + 1]
<1>1. IsFiniteSet(S)
  BY TracksFinite
<1>2. StrictTotal(S, R)
  <2>1. \A a, b \in S : <<a, b>> \in R <=> TopBefore(a, b)
    BY TopOrderIs
  <2> HIDE DEF R
  <2> QED
    BY <2>1, TopOrders DEF StrictTotal
<1>3. ASSUME NEW a \in S PROVE place[a] = Rank(S, R, a)
  <2>1. {b \in S : TopBefore(b, a)} = {b \in S : <<b, a>> \in R}
    BY TopOrderIs
  <2> QED
    BY <2>1 DEF Rank
<1>4. TopArranged(S) = [i \in 1..Cardinality(S) |-> CHOOSE a \in S : place[a] = i]
  BY DEF TopArranged, Arranged
<1> HIDE DEF place, R
<1>5. TopArranged(S) = Listing(S, R)
  BY <1>1, <1>2, <1>3, <1>4, PlacesList
<1> QED
  BY <1>1, <1>2, <1>5, ListingLists

-----------------------------------------------------------------------------
(* Lists of tracks.                                                        *)

\* A list of tracks of a library, each once.
IsTrackList(lib, list) ==
  /\ IsList(list) /\ Distinct(list)
  /\ \A i \in 1..Len(list) : list[i] \in Range(lib.tracks)

\* The places of a plain playlist that a query lists.
ListedPlaces(lib, q) ==
  LET list == lib.playlists[q.detail[1]].tracks
  IN  {i \in DOMAIN list : list[i] \in DOMAIN lib.tracks /\ Lists(lib, lib.tracks[list[i]], q)}

\* A plain playlist gives each track once: as many as places it lists.
LEMMA PlaylistTracksAre ==
  ASSUME NEW lib, IsLibrary(lib), NEW q, IsPlain(lib, q)
  PROVE  /\ IsTrackList(lib, PlaylistTracks(lib, q))
         /\ Len(PlaylistTracks(lib, q)) = Cardinality(ListedPlaces(lib, q))
<1> DEFINE list == lib.playlists[q.detail[1]].tracks
           K == ListedPlaces(lib, q)
           m == Cardinality(K)
           ids == Selected(list, K)
           L == PlaylistTracks(lib, q)
<1>1. list \in Seq(Nat) /\ IsInjective(list)
  BY DEF IsPlain, HasList, IsLibrary
<1>2. K \in SUBSET Nat /\ IsFiniteSet(K) /\ m \in Nat
  <2>1. DOMAIN list = 1..Len(list) /\ Len(list) \in Nat
    BY <1>1
  <2>2. IsFiniteSet(1..Len(list))
    BY <2>1, FS_Interval
  <2>3. K \in SUBSET (1..Len(list))
    BY <2>1 DEF ListedPlaces
  <2>4. K \in SUBSET Nat
    BY <2>1, <2>3
  <2> HIDE DEF K, list
  <2> QED
    BY <2>2, <2>3, <2>4, FS_Subset, FS_CardinalityType
<1>3. L = [i \in DOMAIN ids |-> lib.tracks[ids[i]]]
  BY DEF PlaylistTracks, Filtered, Selected, Places, ListedPlaces
<1> HIDE DEF ids, L
<1>4. PICK at \in Bijection(1..m, K) : ids = [n \in 1..m |-> list[at[n]]]
  BY <1>2, SelectedIs DEF ids
<1>5. \A n \in 1..m : at[n] \in K
  BY <1>4 DEF Bijection, Injection
<1>6. \A k \in K : k \in DOMAIN list /\ list[k] \in DOMAIN lib.tracks
  BY DEF ListedPlaces
<1> HIDE DEF K, m, list
<1>7. \A n \in 1..m : L[n] = lib.tracks[list[at[n]]]
  BY <1>3, <1>4
<1>8. L = [n \in 1..m |-> L[n]]
  BY <1>3, <1>4
<1>9. IsList(L) /\ Len(L) = m
  BY <1>2, <1>8, ListOfLength
<1>10. Distinct(L)
  <2> SUFFICES ASSUME NEW i \in 1..m, NEW j \in 1..m, L[i] = L[j] PROVE i = j
    BY <1>9 DEF Distinct
  <2>1. list[at[i]] = list[at[j]]
    <3>1. \A id \in DOMAIN lib.tracks : lib.tracks[id].id = id
      BY DEF IsLibrary
    <3> QED
      BY <1>5, <1>6, <1>7, <3>1
  <2>2. at[i] = at[j]
    BY <1>1, <1>5, <1>6, <2>1 DEF IsInjective
  <2> QED
    BY <1>4, <2>2 DEF Bijection, Injection, IsInjective
<1>11. \A n \in 1..m : L[n] \in Range(lib.tracks)
  BY <1>5, <1>6, <1>7 DEF Range
<1> QED
  BY <1>9, <1>10, <1>11 DEF IsTrackList, L, m, K

\* The tracks of the library that a query lists.
Listed(lib, q) == {t \in Range(lib.tracks) : Lists(lib, t, q)}

\* A query gives each track once and, but for a plain playlist, exactly the
\* tracks that it lists.
LEMMA TracksAre ==
  ASSUME NEW lib, IsLibrary(lib), NEW q, IsQuery(q)
  PROVE  /\ IsTrackList(lib, Tracks(lib, q))
         /\ ~IsPlain(lib, q) => IsListOf(Tracks(lib, q), Listed(lib, q))
<1>1. CASE ~IsPlain(lib, q)
  <2>1. Tracks(lib, q) = ListArranged(lib, q, Listed(lib, q))
    BY <1>1 DEF Tracks, ListArranged, Listed
  <2>2. Listed(lib, q) \in SUBSET Range(lib.tracks)
    BY DEF Listed
  <2>3. IsListOf(Tracks(lib, q), Listed(lib, q))
    BY <2>1, <2>2, ListArrangedIs
  <2> QED
    BY <2>2, <2>3 DEF IsListOf, IsTrackList
<1>2. CASE IsPlain(lib, q) /\ q.preset = "topSongs"
  <2> DEFINE L == PlaylistTracks(lib, q)
             S == Range(L)
  <2>1. Tracks(lib, q) = TopArranged(S)
    BY <1>2 DEF Tracks, TopArranged
  <2>2. S \in SUBSET Range(lib.tracks)
    <3>1. IsList(L) /\ \A i \in 1..Len(L) : L[i] \in Range(lib.tracks)
      BY <1>2, PlaylistTracksAre DEF IsTrackList
    <3>2. DOMAIN L = 1..Len(L)
      BY <3>1 DEF IsList
    <3> HIDE DEF L
    <3> QED
      BY <3>1, <3>2 DEF Range
  <2> HIDE DEF S
  <2>3. IsListOf(Tracks(lib, q), S)
    BY <2>1, <2>2, TopArrangedIs
  <2> QED
    BY <1>2, <2>2, <2>3 DEF IsListOf, IsTrackList
<1>3. CASE IsPlain(lib, q) /\ q.preset # "topSongs"
  <2>1. Tracks(lib, q) = PlaylistTracks(lib, q)
    BY <1>3 DEF Tracks
  <2> QED
    BY <1>3, <2>1, PlaylistTracksAre
<1> QED
  BY <1>1, <1>2, <1>3

\* What is selected of a list of tracks is one.
LEMMA SelectedTracks ==
  ASSUME NEW lib, NEW list, IsTrackList(lib, list), NEW K \in SUBSET (DOMAIN list)
  PROVE  /\ IsTrackList(lib, Selected(list, K))
         /\ IsFiniteSet(K) /\ Len(Selected(list, K)) = Cardinality(K)
<1> DEFINE m == Cardinality(K)
           s == Selected(list, K)
<1>1. IsList(list) /\ Distinct(list) /\ \A i \in 1..Len(list) : list[i] \in Range(lib.tracks)
  BY DEF IsTrackList
<1>2. Len(list) \in Nat /\ DOMAIN list = 1..Len(list)
  BY <1>1 DEF IsList
<1>3. K \in SUBSET Nat /\ K \in SUBSET (1..Len(list)) /\ IsFiniteSet(K) /\ m \in Nat
  <2>1. IsFiniteSet(1..Len(list)) /\ K \in SUBSET (1..Len(list))
    BY <1>2, FS_Interval
  <2>2. K \in SUBSET Nat
    BY <1>2, <2>1
  <2> QED
    BY <2>1, <2>2, FS_Subset, FS_CardinalityType
<1> HIDE DEF m, s
<1>4. PICK at \in Bijection(1..m, K) : s = [n \in 1..m |-> list[at[n]]]
  BY <1>3, SelectedIs DEF m, s
<1>5. IsList(s) /\ Len(s) = m
  BY <1>3, SelectedIs DEF m, s
<1>6. \A n \in 1..m : at[n] \in 1..Len(list) /\ s[n] = list[at[n]]
  BY <1>3, <1>4 DEF Bijection, Injection
<1>7. \A i, j \in 1..m : at[i] = at[j] => i = j
  BY <1>4 DEF Bijection, Injection, IsInjective
<1>8. Distinct(s)
  BY <1>1, <1>5, <1>6, <1>7 DEF Distinct
<1> QED
  BY <1>1, <1>3, <1>5, <1>6, <1>8 DEF IsTrackList, m, s

\* The tracks of a disc; disc 0 stands for all of them.
LEMMA OfDiscIs ==
  ASSUME NEW lib, NEW list, IsTrackList(lib, list), NEW q
  PROVE  /\ IsTrackList(lib, OfDisc(list, q))
         /\ q.disc = 0 => Len(OfDisc(list, q)) = Len(list)
<1> DEFINE K == {i \in DOMAIN list : q.disc = 0 \/ Disc(list[i]) = q.disc}
<1>1. OfDisc(list, q) = Selected(list, K)
  BY DEF OfDisc, Filtered, Selected, Places
<1>2. K \in SUBSET (DOMAIN list)
  OBVIOUS
<1>3. ASSUME q.disc = 0 PROVE Cardinality(K) = Len(list)
  <2>1. Len(list) \in Nat /\ DOMAIN list = 1..Len(list)
    BY DEF IsTrackList, IsList
  <2>2. K = 1..Len(list)
    BY <1>3, <2>1
  <2> DEFINE n == Len(list)
             one == 1
  <2>3. n \in Int /\ one \in Int /\ 1 <= n + 1
    BY <2>1
  <2> HIDE DEF n, one
  <2>4. Cardinality(one..n) = IF one > n THEN 0 ELSE n - one + 1
    BY <2>3, FS_Interval
  <2>5. Cardinality(1..n) = n
    BY <2>3, <2>4 DEF one
  <2> QED
    BY <2>2, <2>5 DEF n
<1> HIDE DEF K
<1> QED
  BY <1>1, <1>2, <1>3, SelectedTracks

\* The IDs of a list of tracks are as distinct as the tracks.
LEMMA IDsAre ==
  ASSUME NEW lib, IsLibrary(lib), NEW list, IsTrackList(lib, list)
  PROVE  IsList(IDs(list)) /\ Distinct(IDs(list)) /\ Len(IDs(list)) = Len(list)
<1> DEFINE ids == IDs(list)
           n == Len(list)
<1>1. n \in Nat /\ DOMAIN list = 1..n /\ Distinct(list)
      /\ \A i \in 1..n : list[i] \in Range(lib.tracks)
  BY DEF IsTrackList, IsList
<1>2. ids = [i \in 1..n |-> list[i].id]
  BY <1>1 DEF IDs
<1> HIDE DEF ids, n
<1>3. \A i \in 1..n : ids[i] = list[i].id
  BY <1>2
<1>4. ids = [i \in 1..n |-> ids[i]]
  BY <1>2
<1>5. IsList(ids) /\ Len(ids) = n
  BY <1>1, <1>4, ListOfLength
<1>6. \A i \in 1..n : lib.tracks[list[i].id] = list[i]
  BY <1>1, TrackIs
<1>7. Distinct(ids)
  BY <1>1, <1>3, <1>5, <1>6 DEF Distinct, n
<1> QED
  BY <1>5, <1>7 DEF ids, n

\* The queue of a list holds the track it begins with.
LEMMA QueueHolds ==
  ASSUME NEW lib, IsLibrary(lib), NEW q, IsQuery(q), NEW chosen, chosen # 0,
         Queue(lib, q, chosen) # NotFound
  PROVE  /\ chosen \in ToSet(Queue(lib, q, chosen).ids)
         /\ Len(Queue(lib, q, chosen).ids) <= Window
<1> DEFINE all == Tracks(lib, q)
           K == {i \in DOMAIN all : ~all[i].missing}
           there == Selected(all, K)
           ids == IDs(OfDisc(there, q))
<1>1. Queue(lib, q, chosen) = QueueFrom(ids, chosen)
  BY DEF Queue, Filtered, Selected, Places
<1>2. IsTrackList(lib, all)
  BY TracksAre
<1>3. K \in SUBSET (DOMAIN all)
  OBVIOUS
<1> HIDE DEF K, all
<1>4. IsTrackList(lib, there)
  BY <1>2, <1>3, SelectedTracks
<1> HIDE DEF there
<1>5. IsList(ids)
  BY <1>4, OfDiscIs, IDsAre
<1> HIDE DEF ids
<1> QED
  BY <1>1, <1>5, QueueIs

-----------------------------------------------------------------------------
(* Groups.                                                                 *)

\* What groups are sorted by is a number.
Counts == {"year", "count", "albumCount", "playCount", "addedAt"}
IsGroup(g) ==
  /\ g.id \in Nat /\ g.name \in Nat /\ g.artist \in Nat
  /\ \A f \in Counts : g[f] \in Nat
AreGroups(G) ==
  /\ IsFiniteSet(G)
  /\ \A g \in G : IsGroup(g)
  /\ \A a, b \in G : a.id = b.id => a = b

\* The order of groups is strict and total: IDs decide last.
LEMMA GroupOrders ==
  ASSUME NEW G, AreGroups(G), NEW q, q.desc \in BOOLEAN
  PROVE  /\ \A a \in G : ~GroupBefore(q, a, a)
         /\ \A a, b, c \in G : GroupBefore(q, a, b) /\ GroupBefore(q, b, c) => GroupBefore(q, a, c)
         /\ \A a, b \in G : a = b \/ GroupBefore(q, a, b) \/ GroupBefore(q, b, a)
<1> DEFINE field == IF q.preset = "topArtists" THEN "playCount" ELSE q.sort
           desc == q.desc \/ q.preset = "topArtists"
           numbers == field \in Counts
           down == desc /\ field \in {"title", "filename", "artist"}
           name(g) == IF field = "artist" THEN g.artist ELSE g.name
           count(g) == g[field]
<1>1. \A a, b \in G : GroupBefore(q, a, b) <=>
        IF numbers /\ count(a) # count(b)
        THEN IF count(a) = 0 \/ count(b) = 0 THEN count(a) # 0
             ELSE IF desc THEN count(a) > count(b) ELSE count(a) < count(b)
        ELSE IF name(a) # name(b)
        THEN IF down THEN name(a) > name(b) ELSE name(a) < name(b)
        ELSE a.id < b.id
  BY DEF GroupBefore, Counts
<1>2. desc \in BOOLEAN /\ down \in BOOLEAN
  OBVIOUS
<1>3. \A g \in G : name(g) \in Nat /\ g.id \in Nat /\ (numbers => count(g) \in Nat)
  BY DEF AreGroups, IsGroup
<1>4. \A a, b \in G : a.id = b.id => a = b
  BY DEF AreGroups
<1> HIDE DEF field, desc, down, numbers, name, count
<1>5. CASE numbers
  <2>1. \A a, b \in G : GroupBefore(q, a, b) <=>
          IF count(a) # count(b)
          THEN IF count(a) = 0 \/ count(b) = 0 THEN count(a) # 0
               ELSE IF desc THEN count(a) > count(b) ELSE count(a) < count(b)
          ELSE IF name(a) # name(b)
          THEN IF down THEN name(a) > name(b) ELSE name(a) < name(b)
          ELSE a.id < b.id
    BY <1>1, <1>5
  <2>2. \A g \in G : name(g) \in Nat /\ g.id \in Nat /\ count(g) \in Nat
    BY <1>3, <1>5
  <2>3. CASE desc
    BY <1>2, <1>4, <2>1, <2>2, <2>3
  <2>4. CASE ~desc
    BY <1>2, <1>4, <2>1, <2>2, <2>4
  <2> QED
    BY <1>2, <2>3, <2>4
<1>6. CASE ~numbers
  <2>1. \A a, b \in G : GroupBefore(q, a, b) <=>
          IF name(a) # name(b)
          THEN IF down THEN name(a) > name(b) ELSE name(a) < name(b)
          ELSE a.id < b.id
    BY <1>1, <1>6
  <2> QED
    BY <1>2, <1>3, <1>4, <2>1
<1> QED
  BY <1>5, <1>6

GroupArranged(q, G) == Arranged(G, LAMBDA a, b : GroupBefore(q, a, b))
GroupOrder(q, G) == {x \in G \X G : GroupBefore(q, x[1], x[2])}

\* The order of groups as a relation.
LEMMA GroupOrderIs ==
  ASSUME NEW q, NEW G, NEW a \in G, NEW b \in G
  PROVE  <<a, b>> \in GroupOrder(q, G) <=> GroupBefore(q, a, b)
<1> DEFINE c == <<a, b>>
<1>1. c \in G \X G /\ c[1] = a /\ c[2] = b
  OBVIOUS
<1> HIDE DEF c
<1>2. c \in GroupOrder(q, G) <=> GroupBefore(q, c[1], c[2])
  BY <1>1 DEF GroupOrder
<1> QED
  BY <1>1, <1>2 DEF c

\* Groups are listed, each once.
LEMMA GroupArrangedIs ==
  ASSUME NEW G, AreGroups(G), NEW q, q.desc \in BOOLEAN
  PROVE  /\ GroupArranged(q, G) = Listing(G, GroupOrder(q, G))
         /\ IsListOf(GroupArranged(q, G), G)
<1> DEFINE R == GroupOrder(q, G)
           place == [a \in G |-> Cardinality({b \in G : GroupBefore(q, b, a)}) + 1]
<1>1. IsFiniteSet(G)
  BY DEF AreGroups
<1>2. StrictTotal(G, R)
  <2>1. \A a, b \in G : <<a, b>> \in R <=> GroupBefore(q, a, b)
    BY GroupOrderIs
  <2> HIDE DEF R
  <2> QED
    BY <2>1, GroupOrders DEF StrictTotal
<1>3. ASSUME NEW a \in G PROVE place[a] = Rank(G, R, a)
  <2>1. {b \in G : GroupBefore(q, b, a)} = {b \in G : <<b, a>> \in R}
    BY GroupOrderIs
  <2> QED
    BY <2>1 DEF Rank
<1>4. GroupArranged(q, G) = [i \in 1..Cardinality(G) |-> CHOOSE a \in G : place[a] = i]
  BY DEF GroupArranged, Arranged
<1> HIDE DEF place, R
<1>5. GroupArranged(q, G) = Listing(G, R)
  BY <1>1, <1>2, <1>3, <1>4, PlacesList
<1> QED
  BY <1>1, <1>2, <1>5, ListingLists DEF R

\* The plays of a list are a number.
LEMMA PlaysAre ==
  ASSUME NEW lib, IsLibrary(lib), NEW list, IsTrackList(lib, list)
  PROVE  Plays(list) \in Nat
<1> DEFINE n == Len(list)
           part == [i \in 1..n |-> {i} \X (1..list[i].playCount)]
           parts == {part[i] : i \in 1..n}
<1>1. n \in Nat /\ DOMAIN list = 1..n /\ \A i \in 1..n : list[i] \in Range(lib.tracks)
  BY DEF IsTrackList, IsList
<1>2. \A i \in 1..n : list[i].playCount \in Nat
  <2>1. "playCount" \in NumberFields
    BY DEF NumberFields
  <2> QED
    BY <1>1, <2>1, TrackIs
<1>3. Plays(list) = Cardinality(UNION parts)
  <2>1. UNION {{i} \X (1..list[i].playCount) : i \in DOMAIN list} = UNION parts
    BY <1>1
  <2> HIDE DEF parts
  <2> QED
    BY <2>1 DEF Plays
<1>4. \A i \in 1..n : IsFiniteSet(part[i])
  <2>1. \A i : IsFiniteSet({i})
    BY FS_Singleton
  <2>2. \A k \in Nat : IsFiniteSet(1..k)
    BY FS_Interval
  <2>3. \A i \in 1..n : IsFiniteSet({i} \X (1..list[i].playCount))
    BY <1>2, <2>1, <2>2, FS_Product
  <2> QED
    BY <2>3
<1>5. IsFiniteSet(parts)
  <2>1. IsFiniteSet(1..n)
    BY <1>1, FS_Interval
  <2>2. part \in Surjection(1..n, parts)
    BY DEF Surjection
  <2> HIDE DEF part, parts
  <2> QED
    BY <2>1, <2>2, FS_Surjection
<1>6. \A p \in parts : IsFiniteSet(p)
  BY <1>4
<1> HIDE DEF parts
<1> QED
  BY <1>3, <1>5, <1>6, FS_UNION, FS_CardinalityType

\* The time a list was first added to is a number.
LEMMA FirstAddedIs ==
  ASSUME NEW lib, IsLibrary(lib), NEW list, IsTrackList(lib, list)
  PROVE  FirstAdded(list) \in Nat
<1> DEFINE n == Len(list)
           since == {i \in DOMAIN list : \A j \in i..Len(list) : list[j].addedAt # 0}
           times == {list[i].addedAt : i \in since}
<1>1. n \in Nat /\ DOMAIN list = 1..n /\ \A i \in 1..n : list[i] \in Range(lib.tracks)
  BY DEF IsTrackList, IsList
<1>2. \A i \in 1..n : list[i].addedAt \in Nat
  <2>1. "addedAt" \in NumberFields
    BY DEF NumberFields
  <2> QED
    BY <1>1, <2>1, TrackIs
<1>3. FirstAdded(list) = IF since = {} THEN 0 ELSE Smallest(times)
  BY DEF FirstAdded
<1>4. since \in SUBSET (1..n)
  BY <1>1
<1> HIDE DEF since
<1>5. times \in SUBSET Nat /\ (since # {} => times # {})
  BY <1>2, <1>4
<1> HIDE DEF times
<1>6. since # {} => Smallest(times) \in times
  BY <1>5, SmallestIs
<1>7. since # {} => Smallest(times) \in Nat
  BY <1>5, <1>6
<1> QED
  BY <1>3, <1>7

\* The albums of a list are a number.
LEMMA AlbumsFinite ==
  ASSUME NEW lib, NEW list, IsTrackList(lib, list)
  PROVE  Cardinality({list[i].albumID : i \in DOMAIN list}) \in Nat
<1> DEFINE n == Len(list)
           f == [i \in 1..n |-> list[i].albumID]
           S == {list[i].albumID : i \in DOMAIN list}
<1>1. n \in Nat /\ DOMAIN list = 1..n
  BY DEF IsTrackList, IsList
<1>2. IsFiniteSet(1..n)
  BY <1>1, FS_Interval
<1>3. f \in Surjection(1..n, S)
  BY <1>1 DEF Surjection
<1> HIDE DEF f, S
<1>4. IsFiniteSet(S)
  BY <1>2, <1>3, FS_Surjection
<1>5. Cardinality(S) \in Nat
  BY <1>4, FS_CardinalityType
<1> QED
  BY <1>5 DEF S

\* What a group of tracks is.
LEMMA GroupIs ==
  ASSUME NEW lib, IsLibrary(lib), NEW list, IsTrackList(lib, list),
         NEW id \in Nat, NEW name \in Nat
  PROVE  LET g == MakeGroup(id, name, list)
         IN  IsGroup(g) /\ g.id = id /\ g.name = name /\ g.count = Len(list)
<1> DEFINE g == MakeGroup(id, name, list)
           n == Len(list)
<1>1. n \in Nat /\ DOMAIN list = 1..n /\ \A i \in 1..n : list[i] \in Range(lib.tracks)
  BY DEF IsTrackList, IsList
<1>2. /\ g.id = id /\ g.name = name /\ g.count = n
      /\ g.albumCount = Cardinality({list[i].albumID : i \in DOMAIN list})
      /\ g.playCount = Plays(list) /\ g.addedAt = FirstAdded(list)
      /\ g.year = (IF list = <<>> THEN 0 ELSE list[1].year)
      /\ g.artist = IF list = <<>> THEN 0
                    ELSE Fold[IF Blank(list[1].albumArtist) THEN list[1].artist
                              ELSE list[1].albumArtist]
  BY DEF MakeGroup
<1> HIDE DEF g
<1>3. g.playCount \in Nat /\ g.addedAt \in Nat /\ g.albumCount \in Nat
  BY <1>2, PlaysAre, FirstAddedIs, AlbumsFinite
<1>4. g.year \in Nat /\ g.artist \in Nat
  <2>1. CASE list = <<>>
    BY <1>2, <2>1
  <2>2. CASE list # <<>>
    <3>1. n # 0
      <4>1. list \in Seq(Range(lib.tracks))
        BY DEF IsTrackList, IsList
      <4> QED
        BY <2>2, <4>1
    <3>2. list[1] \in Range(lib.tracks)
      BY <1>1, <3>1
    <3>3. "year" \in NumberFields /\ {"artist", "albumArtist"} \subseteq TextFields
      BY DEF NumberFields, TextFields
    <3>4. /\ list[1].year \in Nat /\ list[1].artist \in DOMAIN Fold
          /\ list[1].albumArtist \in DOMAIN Fold
      BY <3>2, <3>3, TrackIs
    <3>5. \A x \in DOMAIN Fold : Fold[x] \in Nat
      BY FoldIs
    <3> QED
      BY <1>2, <2>2, <3>4, <3>5
  <2> QED
    BY <2>1, <2>2
<1>5. \A f \in Counts : g[f] \in Nat
  BY <1>1, <1>2, <1>3, <1>4 DEF Counts
<1>6. IsGroup(g)
  BY <1>2, <1>4, <1>5 DEF IsGroup
<1> QED
  BY <1>2, <1>6 DEF g

\* The names that a text is made of are never blank.
LEMMA NamesAre ==
  ASSUME NEW lib, IsLibrary(lib), NEW text \in DOMAIN Fold
  PROVE  /\ IsFiniteSet(Names(lib, text)) /\ Names(lib, text) \in SUBSET (Nat \ {0})
         /\ Blank(text) => Names(lib, text) = {}
<1> DEFINE members == Members[lib.separators][text]
           n == Len(members)
           f == [i \in 1..n |-> Fold[members[i]]]
<1>1. lib.separators \in DOMAIN Members
  BY DEF IsLibrary
<1>2. /\ members \in Seq(DOMAIN Fold)
      /\ \A x \in Range(members) : Fold[x] # 0
      /\ Fold[text] = 0 => members = <<>>
  BY <1>1, BrowseAssumption
<1> HIDE DEF members
<1>3. n \in Nat /\ DOMAIN members = 1..n /\ \A i \in 1..n : members[i] \in DOMAIN Fold
  BY <1>2
<1>4. ToSet(members) = {members[i] : i \in 1..n}
  BY <1>3 DEF ToSet
<1>5. Names(lib, text) = {Fold[members[i]] : i \in 1..n}
  <2>1. Names(lib, text) = {Fold[x] : x \in ToSet(members)}
    BY DEF Names, members
  <2> QED
    BY <1>4, <2>1
<1>6. f \in Surjection(1..n, Names(lib, text))
  BY <1>5 DEF Surjection
<1>7. IsFiniteSet(1..n)
  BY <1>3, FS_Interval
<1>8. \A i \in 1..n : Fold[members[i]] \in Nat /\ Fold[members[i]] # 0
  <2>1. \A i \in 1..n : members[i] \in Range(members)
    BY <1>3 DEF Range
  <2> QED
    BY <1>2, <1>3, <2>1, FoldIs
<1>9. ASSUME Blank(text) PROVE Names(lib, text) = {}
  <2>1. n = 0
    BY <1>2, <1>9 DEF Blank
  <2> QED
    BY <1>5, <2>1
<1> HIDE DEF f
<1>10. IsFiniteSet(Names(lib, text))
  BY <1>6, <1>7, FS_Surjection
<1> QED
  BY <1>5, <1>8, <1>9, <1>10

\* The kinds of groups that are made from tracks.
LEMMA KeysAre ==
  ASSUME NEW lib, IsLibrary(lib), NEW t \in Range(lib.tracks), NEW kind, NEW q
  PROVE  IsFiniteSet(KeysOf(lib, t, kind, q)) /\ KeysOf(lib, t, kind, q) \in SUBSET Nat
<1> DEFINE byArtist == Names(lib, t.artist)
           byAlbumArtist == IF q.preset = "topArtists" THEN {} ELSE Names(lib, t.albumArtist)
           byGenre == Names(lib, t.genre)
           names == CASE kind = "artists" -> byArtist \cup byAlbumArtist
                      [] kind = "genres" -> byGenre
                      [] OTHER -> {}
<1>1. {"artist", "albumArtist", "genre"} \subseteq TextFields
  BY DEF TextFields
<1>2. t.artist \in DOMAIN Fold /\ t.albumArtist \in DOMAIN Fold /\ t.genre \in DOMAIN Fold
  BY <1>1, TrackIs
<1>3. IsFiniteSet({}) /\ \A x : IsFiniteSet({x})
  BY FS_EmptySet, FS_Singleton
<1>4. KeysOf(lib, t, kind, q) =
        IF kind = "albums" THEN {t.albumID} \ {0}
        ELSE IF names = {} THEN {Unknown} ELSE names
  BY DEF KeysOf
<1>5. /\ IsFiniteSet(byArtist) /\ byArtist \in SUBSET Nat
      /\ IsFiniteSet(byAlbumArtist) /\ byAlbumArtist \in SUBSET Nat
      /\ IsFiniteSet(byGenre) /\ byGenre \in SUBSET Nat
  BY <1>2, <1>3, NamesAre
<1> HIDE DEF byArtist, byAlbumArtist, byGenre
<1>6. IsFiniteSet(names) /\ names \in SUBSET Nat
  <2>1. IsFiniteSet(byArtist \cup byAlbumArtist) /\ byArtist \cup byAlbumArtist \in SUBSET Nat
    BY <1>5, FS_Union
  <2>2. CASE kind = "artists"
    BY <2>1, <2>2
  <2>3. CASE kind = "genres"
    BY <1>5, <2>3
  <2>4. CASE kind \notin {"artists", "genres"}
    BY <1>3, <2>4
  <2> QED
    BY <2>2, <2>3, <2>4
<1> HIDE DEF names
<1>7. IsFiniteSet({t.albumID} \ {0}) /\ {t.albumID} \ {0} \in SUBSET Nat
  <2> DEFINE A == {t.albumID}
             Z == {0}
  <2>1. IsFiniteSet(A)
    BY <1>3
  <2>2. t.albumID \in Nat
    BY TrackIs
  <2>3. A \ Z \in SUBSET Nat
    BY <2>2
  <2> HIDE DEF A, Z
  <2>4. IsFiniteSet(A \ Z)
    BY <2>1, FS_Difference
  <2> QED
    BY <2>3, <2>4 DEF A, Z
<1>8. IsFiniteSet({Unknown}) /\ {Unknown} \in SUBSET Nat
  <2>1. Unknown \in Nat
    BY BrowseAssumption
  <2> QED
    BY <1>3, <2>1
<1> QED
  BY <1>4, <1>6, <1>7, <1>8

\* Groups that are made for keys, each with its key.
LEMMA KeyedGroups ==
  ASSUME NEW D, IsFiniteSet(D), NEW G, \A g \in G : IsGroup(g) /\ g.id \in D,
         \A a, b \in G : a.id = b.id => a = b
  PROVE  AreGroups(G)
<1> DEFINE id == [g \in G |-> g.id]
<1>1. id \in Injection(G, D)
  BY DEF Injection, IsInjective
<1> HIDE DEF id
<1>2. IsFiniteSet(G)
  BY <1>1, FS_Injection
<1> QED
  BY <1>2 DEF AreGroups

\* The groups made from tracks: for each key, the tracks that have it.
KeysIn(lib, list, kind, q) == UNION {KeysOf(lib, list[i], kind, q) : i \in DOMAIN list}
HasKey(lib, list, kind, q, k) == {i \in DOMAIN list : k \in KeysOf(lib, list[i], kind, q)}
Items(lib, list, kind, q, k) == Selected(list, HasKey(lib, list, kind, q, k))
NameOf(lib, list, kind, q, k) ==
  IF kind = "albums" THEN Fold[Last(Items(lib, list, kind, q, k)).album] ELSE k

\* The groups of a list: one for each key, counting the places that have it.
LEMMA MadeGroups ==
  ASSUME NEW lib, IsLibrary(lib), NEW list, IsTrackList(lib, list), NEW kind, NEW q
  PROVE  /\ AreGroups(GroupsOf(lib, list, kind, q))
         /\ \A g \in GroupsOf(lib, list, kind, q) :
              /\ g.id \in KeysIn(lib, list, kind, q)
              /\ g.count = Cardinality(HasKey(lib, list, kind, q, g.id))
<1> DEFINE n == Len(list)
           D == KeysIn(lib, list, kind, q)
           items(k) == Items(lib, list, kind, q, k)
           has(k) == HasKey(lib, list, kind, q, k)
           name(k) == NameOf(lib, list, kind, q, k)
           f == [k \in D |-> MakeGroup(k, name(k), items(k))]
           keys == [i \in 1..n |-> KeysOf(lib, list[i], kind, q)]
           sets == {keys[i] : i \in 1..n}
           G == GroupsOf(lib, list, kind, q)
<1>1. n \in Nat /\ DOMAIN list = 1..n /\ \A i \in 1..n : list[i] \in Range(lib.tracks)
  BY DEF IsTrackList, IsList
<1>2. G = {MakeGroup(k, name(k), items(k)) : k \in D}
  BY DEF GroupsOf, KeysIn, NameOf, Items, HasKey, Filtered, Selected, Places
<1>3. IsFiniteSet(D) /\ D \in SUBSET Nat
  <2>1. \A i \in 1..n : IsFiniteSet(keys[i]) /\ keys[i] \in SUBSET Nat
    BY <1>1, KeysAre
  <2>2. D = UNION sets
    BY <1>1 DEF KeysIn
  <2>3. IsFiniteSet(1..n) /\ keys \in Surjection(1..n, sets)
    <3>1. IsFiniteSet(1..n)
      BY <1>1, FS_Interval
    <3>2. keys \in Surjection(1..n, sets)
      BY DEF Surjection
    <3> QED
      BY <3>1, <3>2
  <2> HIDE DEF keys, D
  <2>4. \A s \in sets : IsFiniteSet(s) /\ s \in SUBSET Nat
    BY <2>1
  <2> HIDE DEF sets
  <2>5. IsFiniteSet(sets)
    BY <2>3, FS_Surjection
  <2>6. IsFiniteSet(UNION sets)
    BY <2>4, <2>5, FS_UNION
  <2> QED
    BY <2>2, <2>4, <2>6
<1>4. \A k \in D : \E i \in 1..n : i \in has(k)
  BY <1>1 DEF KeysIn, HasKey
<1>5. ASSUME NEW k \in D
      PROVE  /\ IsTrackList(lib, items(k)) /\ Len(items(k)) = Cardinality(has(k))
             /\ name(k) \in Nat
  <2>1. has(k) \in SUBSET (DOMAIN list)
    BY DEF HasKey
  <2>2. /\ IsTrackList(lib, items(k)) /\ Len(items(k)) = Cardinality(has(k))
        /\ IsFiniteSet(has(k))
    BY <2>1, SelectedTracks DEF Items
  <2>3. has(k) # {}
    BY <1>4
  <2> HIDE DEF has, items, D
  <2>4. Len(items(k)) \in Nat \ {0}
    <3>1. Cardinality(has(k)) # 0
      BY <2>2, <2>3, FS_EmptySet
    <3>2. Cardinality(has(k)) \in Nat
      BY <2>2, FS_CardinalityType
    <3> QED
      BY <2>2, <3>1, <3>2
  <2>5. Last(items(k)) \in Range(lib.tracks)
    BY <2>2, <2>4 DEF Last, IsTrackList
  <2>6. Last(items(k)).album \in DOMAIN Fold
    <3>1. "album" \in TextFields
      BY DEF TextFields
    <3> QED
      BY <2>5, <3>1, TrackIs
  <2>7. name(k) \in Nat
    BY <1>3, <2>6, FoldIs DEF NameOf, items
  <2> QED
    BY <2>2, <2>7
<1> HIDE DEF D, items, has, name
<1>6. \A k \in D : IsGroup(f[k]) /\ f[k].id = k /\ f[k].count = Cardinality(has(k))
  BY <1>3, <1>5, GroupIs
<1>7. \A g \in G : \E k \in D : g = f[k]
  BY <1>2
<1> HIDE DEF f, G
<1>8. AreGroups(G)
  <2>1. /\ \A g \in G : IsGroup(g) /\ g.id \in D
        /\ \A a, b \in G : a.id = b.id => a = b
    BY <1>6, <1>7
  <2> QED
    BY <1>3, <2>1, KeyedGroups
<1>9. \A g \in G : g.id \in D /\ g.count = Cardinality(has(g.id))
  BY <1>6, <1>7
<1> QED
  BY <1>8, <1>9 DEF G, D, has

\* Groups that are not made from the tracks of the query.
PlaylistQuery(p) == [Everything EXCEPT !.section = "playlists", !.detail = <<p>>]
FolderQuery(s) ==
  [Everything EXCEPT !.section = "folders", !.detail = <<s, <<>>>>, !.recursive = TRUE]

\* The lists that playlists and sources are counted by are queries.
LEMMA OwnQueries ==
  ASSUME NEW k
  PROVE  IsQuery(PlaylistQuery(k)) /\ IsQuery(FolderQuery(k))
BY DEF PlaylistQuery, FolderQuery, IsQuery, Everything, Sections

\* Groups of whatever kind have different IDs.
LEMMA GroupsAre ==
  ASSUME NEW lib, IsLibrary(lib), NEW list, IsTrackList(lib, list), NEW kind, NEW q
  PROVE  AreGroups(Groups(lib, list, kind, q))
<1> DEFINE G == Groups(lib, list, kind, q)
           P == DOMAIN lib.playlists
           f == [p \in P |-> MakeGroup(p, Fold[lib.playlists[p].name],
                                       Tracks(lib, PlaylistQuery(p)))]
           R == DOMAIN lib.sources
           h == [s \in R |-> MakeGroup(s, Fold[lib.sources[s]], Tracks(lib, FolderQuery(s)))]
<1>1. CASE kind = "playlists"
  <2>1. \A g \in G : \E p \in P : g = f[p]
    BY <1>1 DEF Groups, PlaylistQuery
  <2>2. IsFiniteSet(P) /\ P \in SUBSET Nat
    BY DEF IsLibrary
  <2>3. \A p \in P : Fold[lib.playlists[p].name] \in Nat
    BY FoldIs DEF IsLibrary
  <2>4. \A p \in P : IsTrackList(lib, Tracks(lib, PlaylistQuery(p)))
    BY OwnQueries, TracksAre
  <2> HIDE DEF P
  <2>5. \A p \in P : IsGroup(f[p]) /\ f[p].id = p
    BY <2>2, <2>3, <2>4, GroupIs
  <2> HIDE DEF f, G
  <2>6. /\ \A g \in G : IsGroup(g) /\ g.id \in P
        /\ \A a, b \in G : a.id = b.id => a = b
    BY <2>1, <2>5
  <2>7. AreGroups(G)
    BY <2>2, <2>6, KeyedGroups
  <2> QED
    BY <2>7 DEF G
<1>2. CASE kind = "folders"
  <2>1. \A g \in G : \E s \in R : g = h[s]
    BY <1>2 DEF Groups, FolderQuery
  <2>2. IsFiniteSet(R) /\ R \in SUBSET Nat
    BY DEF IsLibrary
  <2>3. \A s \in R : Fold[lib.sources[s]] \in Nat
    BY FoldIs DEF IsLibrary
  <2>4. \A s \in R : IsTrackList(lib, Tracks(lib, FolderQuery(s)))
    BY OwnQueries, TracksAre
  <2> HIDE DEF R
  <2>5. \A s \in R : IsGroup(h[s]) /\ h[s].id = s
    BY <2>2, <2>3, <2>4, GroupIs
  <2> HIDE DEF h, G
  <2>6. /\ \A g \in G : IsGroup(g) /\ g.id \in R
        /\ \A a, b \in G : a.id = b.id => a = b
    BY <2>1, <2>5
  <2>7. AreGroups(G)
    BY <2>2, <2>6, KeyedGroups
  <2> QED
    BY <2>7 DEF G
<1>3. CASE kind \notin {"playlists", "folders"}
  <2>1. G \in SUBSET GroupsOf(lib, list, kind, q)
    BY <1>3 DEF Groups
  <2>2. AreGroups(GroupsOf(lib, list, kind, q))
    BY MadeGroups
  <2> HIDE DEF G
  <2>3. IsFiniteSet(G)
    BY <2>1, <2>2, FS_Subset DEF AreGroups
  <2>4. AreGroups(G)
    BY <2>1, <2>2, <2>3 DEF AreGroups
  <2> QED
    BY <2>4 DEF G
<1> QED
  BY <1>1, <1>2, <1>3

-----------------------------------------------------------------------------
(* Folders.                                                                *)

\* The order of folders.
FolderBefore(q, a, b) ==
  IF Fold[a] = Fold[b] THEN a < b
  ELSE IF q.desc THEN Fold[a] > Fold[b] ELSE Fold[a] < Fold[b]
FolderArranged(q, S) ==
  Arranged(S, LAMBDA a, b : IF Fold[a] = Fold[b] THEN a < b
                            ELSE IF q.desc THEN Fold[a] > Fold[b] ELSE Fold[a] < Fold[b])
FolderOrder(q, S) == {x \in S \X S : FolderBefore(q, x[1], x[2])}

\* The order of folders as a relation.
LEMMA FolderOrderIs ==
  ASSUME NEW q, NEW S, NEW a \in S, NEW b \in S
  PROVE  <<a, b>> \in FolderOrder(q, S) <=> FolderBefore(q, a, b)
<1> DEFINE c == <<a, b>>
<1>1. c \in S \X S /\ c[1] = a /\ c[2] = b
  OBVIOUS
<1> HIDE DEF c
<1>2. c \in FolderOrder(q, S) <=> FolderBefore(q, c[1], c[2])
  BY <1>1 DEF FolderOrder
<1> QED
  BY <1>1, <1>2 DEF c

\* Folders that are strictly ordered are listed in that order.
LEMMA FoldersListed ==
  ASSUME NEW q, NEW S, IsFiniteSet(S), StrictTotal(S, FolderOrder(q, S))
  PROVE  FolderArranged(q, S) = Listing(S, FolderOrder(q, S))
<1> DEFINE R == FolderOrder(q, S)
           place == [a \in S |-> Cardinality({b \in S : FolderBefore(q, b, a)}) + 1]
<1>1. ASSUME NEW a \in S PROVE place[a] = Rank(S, R, a)
  <2>1. {b \in S : FolderBefore(q, b, a)} = {b \in S : <<b, a>> \in R}
    BY FolderOrderIs
  <2> QED
    BY <2>1 DEF Rank
<1>2. FolderArranged(q, S) = [n \in 1..Cardinality(S) |-> CHOOSE a \in S : place[a] = n]
  BY DEF FolderArranged, Arranged, FolderBefore
<1>3. StrictTotal(S, R)
  OBVIOUS
<1> HIDE DEF place, R
<1>4. FolderArranged(q, S) = Listing(S, R)
  BY <1>1, <1>2, <1>3, PlacesList
<1> QED
  BY <1>4 DEF R

\* Any two folders are ordered, one way only.
LEMMA FoldersOrdered ==
  ASSUME NEW q, q.desc \in BOOLEAN, NEW S \in SUBSET DOMAIN Fold, IsFiniteSet(S)
  PROVE  /\ FolderArranged(q, S) = Listing(S, FolderOrder(q, S))
         /\ IsListOf(FolderArranged(q, S), S)
<1>1. \A a \in S : a \in Nat /\ Fold[a] \in Nat
  BY BrowseAssumption, FoldIs
<1>2. StrictTotal(S, FolderOrder(q, S))
  <2>1. \A a, b \in S : <<a, b>> \in FolderOrder(q, S) <=> FolderBefore(q, a, b)
    BY FolderOrderIs
  <2>2. \A a \in S : ~FolderBefore(q, a, a)
    BY <1>1 DEF FolderBefore
  <2>3. \A a, b, c \in S : FolderBefore(q, a, b) /\ FolderBefore(q, b, c) => FolderBefore(q, a, c)
    BY <1>1 DEF FolderBefore
  <2>4. \A a, b \in S : a = b \/ FolderBefore(q, a, b) \/ FolderBefore(q, b, a)
    BY <1>1 DEF FolderBefore
  <2> QED
    BY <2>1, <2>2, <2>3, <2>4 DEF StrictTotal
<1> QED
  BY <1>2, FoldersListed, ListingLists

\* The folders within a folder, by name.
Inside(lib, q) ==
  {t \in Live(lib) : t.source = q.detail[1] /\ IsStrictPrefix(q.detail[2], t.folder)}
FoundFolders(lib, q) ==
  {n \in {t.folder[Len(q.detail[2]) + 1] : t \in Inside(lib, q)} :
     q.search # <<>> => Finds(q.search[1], n)}

\* The folders within a folder are listed, each once.
LEMMA FoldersAre ==
  ASSUME NEW lib, IsLibrary(lib), NEW q, IsQuery(q), q.section = "folders", q.detail # <<>>
  PROVE  /\ Folders(lib, q) = FolderArranged(q, FoundFolders(lib, q))
         /\ FoundFolders(lib, q) \in SUBSET DOMAIN Fold /\ IsFiniteSet(FoundFolders(lib, q))
         /\ IsList(Folders(lib, q)) /\ Distinct(Folders(lib, q))
<1> DEFINE folder == q.detail[2]
           n == Len(folder)
           W == Inside(lib, q)
           names == {t.folder[n + 1] : t \in W}
           found == FoundFolders(lib, q)
           f == [t \in W |-> t.folder[n + 1]]
<1>1. folder \in Seq(DOMAIN Fold) /\ n \in Nat
  BY DEF IsQuery
<1>2. W \in SUBSET Range(lib.tracks) /\ IsFiniteSet(W)
  <2>1. W \in SUBSET Range(lib.tracks)
    BY DEF Inside, Live
  <2> QED
    BY <2>1, TracksFinite
<1>3. \A t \in W : t.folder[n + 1] \in DOMAIN Fold
  <2> SUFFICES ASSUME NEW t \in W PROVE t.folder[n + 1] \in DOMAIN Fold
    OBVIOUS
  <2>1. t.folder \in Seq(DOMAIN Fold) /\ IsStrictPrefix(folder, t.folder)
    BY <1>2, TrackIs DEF Inside
  <2> DEFINE g == t.folder
  <2>2. /\ g \in Seq(DOMAIN Fold) /\ folder # g /\ n <= Len(g)
        /\ SubSeq(folder, 1, n) = SubSeq(g, 1, n)
    BY <2>1 DEF IsStrictPrefix, IsPrefix
  <2> HIDE DEF g, folder
  <2>3. n # Len(g)
    <3> SUFFICES ASSUME n = Len(g) PROVE FALSE
      OBVIOUS
    <3>1. SubSeq(folder, 1, n) = folder /\ SubSeq(g, 1, n) = g
      BY <1>1, <2>2
    <3> QED
      BY <2>2, <3>1
  <2>4. n + 1 \in 1..Len(g)
    BY <1>1, <2>2, <2>3
  <2> QED
    BY <2>2, <2>4 DEF g
<1>4. f \in Surjection(W, names)
  BY DEF Surjection
<1>5. Folders(lib, q) = FolderArranged(q, found)
  BY DEF Folders, FolderArranged, FoundFolders, Inside
<1>6. found \in SUBSET names
  BY DEF FoundFolders
<1>7. names \in SUBSET DOMAIN Fold
  BY <1>3
<1> HIDE DEF names, found, f, W
<1>8. IsFiniteSet(found) /\ found \in SUBSET DOMAIN Fold
  BY <1>2, <1>4, <1>6, <1>7, FS_Surjection, FS_Subset
<1>9. IsListOf(Folders(lib, q), found)
  BY <1>5, <1>8, FoldersOrdered DEF IsQuery
<1> QED
  BY <1>5, <1>8, <1>9 DEF IsListOf, found

-----------------------------------------------------------------------------
(* The entries of a list.                                                  *)

\* What the pages of a query consist of, whichever page it asks for.
IsAlbum(q) == q.section = "albums" /\ q.detail # <<>>
Kind(q) == IF q.albums /\ q.detail # <<>> THEN "albums" ELSE q.section
Searched(q) == IF ShowsGroups(q) THEN [q EXCEPT !.search = <<>>] ELSE q
AllOf(lib, q) == Tracks(lib, Searched(q))
ShownOf(lib, q) == IF IsAlbum(q) THEN OfDisc(AllOf(lib, q), q) ELSE AllOf(lib, q)
EntriesOf(lib, q) == Entries(lib, q, ShownOf(lib, q))
FoldersOf(lib, q) ==
  IF q.section = "folders" /\ q.detail # <<>> THEN Folders(lib, q) ELSE <<>>

\* Without its search a query is still a query.
LEMMA SearchedIs ==
  ASSUME NEW q, IsQuery(q)
  PROVE  IsQuery(Searched(q))
<1> DEFINE r == [q EXCEPT !.search = <<>>]
<1>1. r.search = <<>> /\ DOMAIN r = DOMAIN q
  OBVIOUS
<1>2. "search" \in DOMAIN q
  BY DEF IsQuery, Everything
<1>3. \A f \in DOMAIN q : f # "search" => r[f] = q[f]
  OBVIOUS
<1>4. /\ {"section", "detail", "preset", "search", "desc", "page", "pageSize", "albums", "recursive"}
           \subseteq DOMAIN q
  BY DEF IsQuery, Everything
<1>5. /\ r.section = q.section /\ r.detail = q.detail /\ r.desc = q.desc /\ r.page = q.page
      /\ r.pageSize = q.pageSize /\ r.albums = q.albums /\ r.recursive = q.recursive
  BY <1>3, <1>4
<1> HIDE DEF r
<1>6. r.search = <<>>
  BY <1>1, <1>2 DEF r
<1>7. IsQuery(r)
  BY <1>1, <1>5, <1>6 DEF IsQuery
<1> QED
  BY <1>7 DEF Searched, r

\* What a page shows is a list of tracks.
LEMMA ShownIs ==
  ASSUME NEW lib, IsLibrary(lib), NEW q, IsQuery(q)
  PROVE  IsTrackList(lib, AllOf(lib, q)) /\ IsTrackList(lib, ShownOf(lib, q))
<1>1. IsTrackList(lib, AllOf(lib, q))
  BY SearchedIs, TracksAre DEF AllOf
<1> QED
  BY <1>1, OfDiscIs DEF ShownOf

\* Two lists of different things, one after the other.
LEMMA Joined ==
  ASSUME NEW a, IsList(a), Distinct(a), NEW b, IsList(b), Distinct(b),
         \A i \in 1..Len(a), j \in 1..Len(b) : a[i] # b[j]
  PROVE  IsList(a \o b) /\ Distinct(a \o b)
<1> DEFINE m == Len(a)
           n == Len(b)
           S == {a[i] : i \in 1..m} \cup {b[i] : i \in 1..n}
           c == a \o b
<1>1. m \in Nat /\ n \in Nat /\ a = [i \in 1..m |-> a[i]] /\ b = [i \in 1..n |-> b[i]]
  BY DEF IsList
<1>2. a \in Seq(S) /\ b \in Seq(S)
  BY <1>1
<1> HIDE DEF S
<1>3. /\ c \in Seq(S) /\ Len(c) = m + n
      /\ \A i \in 1..(m + n) : c[i] = IF i <= m THEN a[i] ELSE b[i - m]
  BY <1>2
<1> HIDE DEF c
<1>4. IsList(c)
  BY <1>1, <1>3 DEF IsList
<1>5. Distinct(c)
  <2> SUFFICES ASSUME NEW i \in 1..(m + n), NEW j \in 1..(m + n), c[i] = c[j] PROVE i = j
    BY <1>3 DEF Distinct
  <2>1. CASE i <= m /\ j <= m
    BY <1>1, <1>3, <2>1 DEF Distinct
  <2>2. CASE i > m /\ j > m
    <3>1. i - m \in 1..n /\ j - m \in 1..n /\ b[i - m] = b[j - m]
      BY <1>1, <1>3, <2>2
    <3>2. i - m = j - m
      BY <3>1 DEF Distinct
    <3> QED
      BY <1>1, <3>2
  <2>3. CASE i <= m /\ j > m
    <3>1. i \in 1..m /\ j - m \in 1..n /\ a[i] = b[j - m]
      BY <1>1, <1>3, <2>3
    <3> QED
      BY <3>1
  <2>4. CASE i > m /\ j <= m
    <3>1. j \in 1..m /\ i - m \in 1..n /\ a[j] = b[i - m]
      BY <1>1, <1>3, <2>4
    <3> QED
      BY <3>1
  <2> QED
    BY <1>1, <2>1, <2>2, <2>3, <2>4
<1> QED
  BY <1>4, <1>5 DEF c

\* The rows of a page of tracks: folders, then tracks.
FolderRows(list) == [i \in DOMAIN list |-> <<"folder", list[i]>>]
TrackRows(list) == [i \in DOMAIN list |-> <<"track", list[i].id>>]

\* As many rows as folders and as tracks.
LEMMA RowsAre ==
  ASSUME NEW list, IsList(list)
  PROVE  /\ IsList(FolderRows(list)) /\ Len(FolderRows(list)) = Len(list)
         /\ IsList(TrackRows(list)) /\ Len(TrackRows(list)) = Len(list)
<1>1. Len(list) \in Nat /\ DOMAIN list = 1..Len(list)
  BY DEF IsList
<1> DEFINE f == FolderRows(list)
           t == TrackRows(list)
<1>2. f = [i \in 1..Len(list) |-> f[i]] /\ t = [i \in 1..Len(list) |-> t[i]]
  BY <1>1 DEF FolderRows, TrackRows
<1> HIDE DEF f, t
<1>3. IsList(f) /\ Len(f) = Len(list) /\ IsList(t) /\ Len(t) = Len(list)
  BY <1>1, <1>2, ListOfLength
<1> QED
  BY <1>3 DEF f, t

\* Folders and tracks are listed, each once.
LEMMA TrackEntriesAre ==
  ASSUME NEW lib, IsLibrary(lib), NEW q, IsQuery(q), NEW list, IsTrackList(lib, list)
  PROVE  /\ IsList(TrackEntries(lib, q, list)) /\ Distinct(TrackEntries(lib, q, list))
         /\ TrackEntries(lib, q, list) = FolderRows(FoldersOf(lib, q)) \o TrackRows(list)
<1> DEFINE folders == FoldersOf(lib, q)
           f == FolderRows(folders)
           t == TrackRows(list)
<1>1. IsList(folders) /\ Distinct(folders)
  <2>1. CASE q.section = "folders" /\ q.detail # <<>>
    BY <2>1, FoldersAre DEF FoldersOf
  <2>2. CASE ~(q.section = "folders" /\ q.detail # <<>>)
    <3>1. folders = <<>>
      BY <2>2 DEF FoldersOf
    <3> QED
      BY <3>1 DEF IsList, Distinct
  <2> QED
    BY <2>1, <2>2
<1>2. IsList(list) /\ Distinct(list) /\ \A i \in 1..Len(list) : list[i] \in Range(lib.tracks)
  BY DEF IsTrackList
<1>3. IsList(f) /\ Len(f) = Len(folders) /\ IsList(t) /\ Len(t) = Len(list)
  BY <1>1, <1>2, RowsAre
<1>4. \A i \in 1..Len(f) : f[i] = <<"folder", folders[i]>>
  BY <1>1, <1>3 DEF FolderRows, IsList
<1>5. \A i \in 1..Len(t) : t[i] = <<"track", list[i].id>>
  BY <1>2, <1>3 DEF TrackRows, IsList
<1>6. Distinct(f)
  <2> SUFFICES ASSUME NEW i \in 1..Len(f), NEW j \in 1..Len(f), f[i] = f[j] PROVE i = j
    BY DEF Distinct
  <2>1. folders[i] = folders[j]
    BY <1>4
  <2> QED
    BY <1>1, <1>3, <2>1 DEF Distinct
<1>7. Distinct(t)
  <2> SUFFICES ASSUME NEW i \in 1..Len(t), NEW j \in 1..Len(t), t[i] = t[j] PROVE i = j
    BY DEF Distinct
  <2>1. list[i].id = list[j].id /\ list[i] \in Range(lib.tracks) /\ list[j] \in Range(lib.tracks)
    BY <1>2, <1>3, <1>5
  <2>2. list[i] = list[j]
    BY <2>1, TrackIs
  <2> QED
    BY <1>2, <1>3, <2>2 DEF Distinct
<1>8. \A i \in 1..Len(f), j \in 1..Len(t) : f[i] # t[j]
  BY <1>4, <1>5
<1>9. TrackEntries(lib, q, list) = f \o t
  BY DEF TrackEntries, FoldersOf, FolderRows, TrackRows
<1> HIDE DEF f, t, folders
<1>10. IsList(f \o t) /\ Distinct(f \o t)
  BY <1>3, <1>6, <1>7, <1>8, Joined
<1> QED
  BY <1>9, <1>10 DEF f, t, folders

\* A list holds each entry once.
LEMMA EntriesAre ==
  ASSUME NEW lib, IsLibrary(lib), NEW q, IsQuery(q)
  PROVE  IsList(EntriesOf(lib, q)) /\ Distinct(EntriesOf(lib, q))
<1> DEFINE list == ShownOf(lib, q)
           G == Groups(lib, list, Kind(q), q)
<1>1. IsTrackList(lib, list) /\ q.desc \in BOOLEAN
  BY ShownIs DEF IsQuery
<1>2. CASE ShowsGroups(q)
  <2>1. AreGroups(G)
    BY <1>1, GroupsAre
  <2>2. GroupEntries(lib, q, list) = GroupArranged(q, G)
    BY DEF GroupEntries, GroupArranged, Kind
  <2>3. EntriesOf(lib, q) = GroupEntries(lib, q, list)
    BY <1>2 DEF EntriesOf, Entries
  <2> HIDE DEF G
  <2>4. IsListOf(GroupArranged(q, G), G)
    BY <1>1, <2>1, GroupArrangedIs
  <2> QED
    BY <2>2, <2>3, <2>4 DEF IsListOf
<1>3. CASE ~ShowsGroups(q)
  <2>1. EntriesOf(lib, q) = TrackEntries(lib, q, list)
    BY <1>3 DEF EntriesOf, Entries
  <2> QED
    BY <1>1, <2>1, TrackEntriesAre
<1> QED
  BY <1>2, <1>3

-----------------------------------------------------------------------------
(* Pages of a query: the entries do not depend on the page.                *)

\* The same query, for another page.
At(q, n) == [q EXCEPT !.page = n]

\* A query for another page differs in the page alone.
LEMMA AtIs ==
  ASSUME NEW q, IsQuery(q), NEW n \in Nat
  PROVE  /\ IsQuery(At(q, n)) /\ At(q, n).page = n
         /\ DOMAIN At(q, n) = DOMAIN q
         /\ \A f \in DOMAIN q : f # "page" => At(q, n)[f] = q[f]
<1> DEFINE r == At(q, n)
           Rest == {"section", "detail", "preset", "search", "rule", "sort", "desc",
                       "pageSize", "albums", "disc", "recursive"}
<1>1. DOMAIN q = Rest \cup {"page"}
  BY DEF IsQuery, Everything
<1>2. DOMAIN r = DOMAIN q /\ r.page = n /\ \A f \in DOMAIN q : f # "page" => r[f] = q[f]
  BY <1>1 DEF At
<1>3. /\ r.section = q.section /\ r.detail = q.detail /\ r.desc = q.desc /\ r.search = q.search
      /\ r.pageSize = q.pageSize /\ r.albums = q.albums /\ r.recursive = q.recursive
  BY <1>1, <1>2
<1> HIDE DEF r
<1>4. IsQuery(r)
  BY <1>2, <1>3 DEF IsQuery
<1> QED
  BY <1>2, <1>4 DEF r

\* The last page that was asked for counts.
LEMMA AtAgain ==
  ASSUME NEW q, IsQuery(q), NEW n \in Nat, NEW m \in Nat
  PROVE  At(At(q, n), m) = At(q, m)
<1>1. "page" \in DOMAIN q
  BY DEF IsQuery, Everything
<1> QED
  BY <1>1 DEF At

\* The page a query asks for: 0 is the first.
Asked(q) == At(q, IF q.page < 1 THEN 1 ELSE q.page)

\* A page holds at least one entry.
LEMMA PageSizeIs ==
  ASSUME NEW q, IsQuery(q)
  PROVE  PageSize(q) \in Nat \ {0}
BY BrowseAssumption DEF PageSize, IsQuery

\* A page is a part of the entries of its query.
LEMMA PageIs ==
  ASSUME NEW lib, NEW q
  PROVE  /\ Page(lib, q).list = Part(EntriesOf(lib, Asked(q)), Asked(q))
         /\ Page(lib, q).total = Len(EntriesOf(lib, Asked(q)))
         /\ Page(lib, q).trackCount = Len(ShownOf(lib, Asked(q)))
<1> DEFINE r == Asked(q)
           all == AllOf(lib, r)
<1>1. [q EXCEPT !.page = IF @ < 1 THEN 1 ELSE @] = r
  BY DEF Asked, At
<1>2. Page(lib, q) = PageFrom(lib, r, all)
  BY <1>1 DEF Page, AllOf, Searched
<1> HIDE DEF r
<1>3. /\ PageFrom(lib, r, all).list = Part(EntriesOf(lib, r), r)
      /\ PageFrom(lib, r, all).total = Len(EntriesOf(lib, r))
      /\ PageFrom(lib, r, all).trackCount = Len(ShownOf(lib, r))
  <2> DEFINE album == IsAlbum(r)
             shown == IF album THEN OfDisc(all, r) ELSE all
             discs == IF album THEN {Disc(all[i]) : i \in DOMAIN all} ELSE {}
  <2>1. PageFrom(lib, r, all) = PageOf(lib, r, shown, Entries(lib, r, shown), discs)
    BY DEF PageFrom, IsAlbum
  <2>2. shown = ShownOf(lib, r)
    BY DEF ShownOf
  <2> HIDE DEF shown, discs
  <2> QED
    BY <2>1, <2>2 DEF PageOf, EntriesOf
<1> QED
  BY <1>2, <1>3 DEF r

\* Queries that differ in the page alone.
Alike(q, r) ==
  /\ q.section = r.section /\ q.detail = r.detail /\ q.preset = r.preset
  /\ q.search = r.search /\ q.rule = r.rule /\ q.sort = r.sort /\ q.desc = r.desc
  /\ q.pageSize = r.pageSize /\ q.albums = r.albums /\ q.disc = r.disc
  /\ q.recursive = r.recursive

\* A query for another page is alike.
LEMMA AtAlike ==
  ASSUME NEW q, IsQuery(q), NEW n \in Nat
  PROVE  Alike(At(q, n), q)
<1>1. {"section", "detail", "preset", "search", "rule", "sort", "desc", "pageSize", "albums",
       "disc", "recursive"} \subseteq DOMAIN q \ {"page"}
  BY DEF IsQuery, Everything
<1>2. \A f \in DOMAIN q : f # "page" => At(q, n)[f] = q[f]
  BY AtIs
<1> DEFINE r == At(q, n)
<1> HIDE DEF r
<1>3. \A f \in DOMAIN q : f # "page" => r[f] = q[f]
  BY <1>2 DEF r
<1>4. Alike(r, q)
  BY <1>1, <1>3 DEF Alike
<1> QED
  BY <1>4 DEF r

\* Queries that are alike list the same tracks.
LEMMA ListsAlike ==
  ASSUME NEW lib, NEW q, NEW r, Alike(q, r), NEW t
  PROVE  /\ Lists(lib, t, q) <=> Lists(lib, t, r)
         /\ IsPlain(lib, q) <=> IsPlain(lib, r)
         /\ IsSmart(lib, q) <=> IsSmart(lib, r)
<1>1. /\ IsPlain(lib, q) <=> IsPlain(lib, r)
      /\ IsSmart(lib, q) <=> IsSmart(lib, r)
      /\ HasList(lib, q) <=> HasList(lib, r)
  BY DEF Alike, IsPlain, IsSmart, HasList
<1>2. InFolder(t, q) <=> InFolder(t, r)
  BY DEF Alike, InFolder
<1>3. InDetail(lib, t, q) <=> InDetail(lib, t, r)
  BY <1>1, <1>2 DEF Alike, InDetail
<1>4. Lists(lib, t, q) <=> Lists(lib, t, r)
  BY <1>1, <1>3 DEF Alike, Lists
<1> QED
  BY <1>1, <1>4

\* Queries that are alike have the same orders.
LEMMA OrderAlike ==
  ASSUME NEW lib, NEW q, NEW r, Alike(q, r), NEW a, NEW b
  PROVE  /\ ListBefore(lib, q, a, b) <=> ListBefore(lib, r, a, b)
         /\ GroupBefore(q, a, b) <=> GroupBefore(r, a, b)
         /\ FolderBefore(q, a, b) <=> FolderBefore(r, a, b)
<1>1. IsSmart(lib, q) <=> IsSmart(lib, r)
  BY ListsAlike
<1>2. SortField(lib, q) = SortField(lib, r)
  BY <1>1 DEF Alike, SortField
<1>3. SortDesc(lib, q) = SortDesc(lib, r)
  BY <1>1 DEF Alike, SortDesc
<1>4. ListBefore(lib, q, a, b) <=> ListBefore(lib, r, a, b)
  BY <1>2, <1>3 DEF Alike, ListBefore
<1>5. GroupBefore(q, a, b) <=> GroupBefore(r, a, b)
  BY DEF Alike, GroupBefore
<1>6. FolderBefore(q, a, b) <=> FolderBefore(r, a, b)
  BY DEF Alike, FolderBefore
<1> QED
  BY <1>4, <1>5, <1>6

\* Queries that are alike give the same list.
LEMMA TracksAlike ==
  ASSUME NEW lib, IsLibrary(lib), NEW q, IsQuery(q), NEW r, IsQuery(r), Alike(q, r)
  PROVE  Tracks(lib, q) = Tracks(lib, r)
<1>1. CASE ~IsPlain(lib, q)
  <2> DEFINE S == Listed(lib, q)
  <2>1. S = Listed(lib, r) /\ S \in SUBSET Range(lib.tracks)
    BY ListsAlike DEF Listed
  <2>2. Tracks(lib, q) = ListArranged(lib, q, S)
    BY <1>1 DEF Tracks, ListArranged, Listed
  <2>3. Tracks(lib, r) = ListArranged(lib, r, Listed(lib, r))
    BY <1>1, ListsAlike DEF Tracks, ListArranged, Listed
  <2> HIDE DEF S
  <2>4. ListOrder(lib, q, S) = ListOrder(lib, r, S)
    BY OrderAlike DEF ListOrder
  <2> QED
    BY <2>1, <2>2, <2>3, <2>4, ListArrangedIs
<1>2. CASE IsPlain(lib, q)
  <2> DEFINE list == lib.playlists[q.detail[1]].tracks
             K == ListedPlaces(lib, q)
  <2>1. q.detail = r.detail /\ q.preset = r.preset
    BY DEF Alike
  <2>2. K = ListedPlaces(lib, r)
    BY <2>1, ListsAlike DEF ListedPlaces
  <2>3. PlaylistTracks(lib, q) =
          [i \in DOMAIN Selected(list, K) |-> lib.tracks[Selected(list, K)[i]]]
    BY DEF PlaylistTracks, Filtered, Selected, Places, ListedPlaces
  <2>4. PlaylistTracks(lib, r) =
          [i \in DOMAIN Selected(list, ListedPlaces(lib, r)) |->
             lib.tracks[Selected(list, ListedPlaces(lib, r))[i]]]
    BY <2>1 DEF PlaylistTracks, Filtered, Selected, Places, ListedPlaces
  <2>5. PlaylistTracks(lib, q) = PlaylistTracks(lib, r)
    BY <2>2, <2>3, <2>4
  <2>6. IsPlain(lib, r)
    BY <1>2, ListsAlike
  <2> QED
    BY <1>2, <2>1, <2>5, <2>6 DEF Tracks
<1> QED
  BY <1>1, <1>2

\* Queries for the same disc show the same tracks.
LEMMA OfDiscAlike ==
  ASSUME NEW list, NEW q, NEW r, q.disc = r.disc
  PROVE  OfDisc(list, q) = OfDisc(list, r)
<1> DEFINE K == {i \in DOMAIN list : q.disc = 0 \/ Disc(list[i]) = q.disc}
           J == {i \in DOMAIN list : r.disc = 0 \/ Disc(list[i]) = r.disc}
<1>1. OfDisc(list, q) = Selected(list, K)
  BY DEF OfDisc, Filtered, Selected, Places
<1>2. OfDisc(list, r) = Selected(list, J)
  BY DEF OfDisc, Filtered, Selected, Places
<1>3. K = J
  OBVIOUS
<1> QED
  BY <1>1, <1>2, <1>3

\* Every page of a query shows tracks of the same list.
LEMMA ShownAlike ==
  ASSUME NEW lib, IsLibrary(lib), NEW q, IsQuery(q), NEW n \in Nat
  PROVE  ShownOf(lib, At(q, n)) = ShownOf(lib, q)
<1> DEFINE r == At(q, n)
<1>1. IsQuery(r) /\ Alike(r, q) /\ r.disc = q.disc
  BY AtIs, AtAlike DEF Alike
<1>2. ShowsGroups(r) <=> ShowsGroups(q)
  BY <1>1 DEF Alike, ShowsGroups
<1>3. Alike(Searched(r), Searched(q))
  <2>1. DOMAIN q = DOMAIN Everything /\ DOMAIN r = DOMAIN Everything
    BY <1>1 DEF IsQuery
  <2> HIDE DEF r
  <2>2. Alike([r EXCEPT !.search = <<>>], [q EXCEPT !.search = <<>>])
    BY <1>1, <2>1 DEF Alike, Everything
  <2> QED
    BY <1>1, <1>2, <2>2 DEF Searched
<1> HIDE DEF r
<1>4. AllOf(lib, r) = AllOf(lib, q)
  BY <1>1, <1>3, SearchedIs, TracksAlike DEF AllOf
<1>5. IsAlbum(r) <=> IsAlbum(q)
  BY <1>1 DEF Alike, IsAlbum
<1>6. ShownOf(lib, r) = ShownOf(lib, q)
  BY <1>1, <1>4, <1>5, OfDiscAlike DEF ShownOf
<1> QED
  BY <1>6 DEF r

\* Only a list of top artists changes the keys of a track.
LEMMA KeysAlike ==
  ASSUME NEW q, NEW r, q.preset = r.preset, NEW lib, NEW t, NEW kind
  PROVE  KeysOf(lib, t, kind, q) = KeysOf(lib, t, kind, r)
<1>1. CASE kind = "artists"
  BY <1>1 DEF KeysOf
<1>2. CASE kind = "genres"
  BY <1>2 DEF KeysOf
<1>3. CASE kind \notin {"artists", "genres"}
  BY <1>3 DEF KeysOf
<1> QED
  BY <1>1, <1>2, <1>3

\* Queries that are alike make the same groups.
LEMMA GroupsAlike ==
  ASSUME NEW q, NEW r, Alike(q, r), NEW lib, NEW list, NEW kind
  PROVE  Groups(lib, list, kind, q) = Groups(lib, list, kind, r)
<1>1. q.search = r.search /\ q.preset = r.preset
  BY DEF Alike
<1>2. CASE kind = "playlists"
  BY <1>1, <1>2 DEF Groups
<1>3. CASE kind = "folders"
  BY <1>1, <1>3 DEF Groups
<1>4. CASE kind \notin {"playlists", "folders"}
  <2>1. \A t : KeysOf(lib, t, kind, q) = KeysOf(lib, t, kind, r)
    BY <1>1, KeysAlike
  <2>2. KeysIn(lib, list, kind, q) = KeysIn(lib, list, kind, r)
    BY <2>1 DEF KeysIn
  <2>3. \A k : Items(lib, list, kind, q, k) = Items(lib, list, kind, r, k)
    <3>1. \A k : HasKey(lib, list, kind, q, k) = HasKey(lib, list, kind, r, k)
      BY <2>1 DEF HasKey
    <3> QED
      BY <3>1 DEF Items
  <2>4. ASSUME NEW k PROVE NameOf(lib, list, kind, q, k) = NameOf(lib, list, kind, r, k)
    <3>1. Items(lib, list, kind, q, k) = Items(lib, list, kind, r, k)
      BY <2>3
    <3> QED
      BY <3>1 DEF NameOf
  <2>5. GroupsOf(lib, list, kind, q) =
          {MakeGroup(k, NameOf(lib, list, kind, q, k), Items(lib, list, kind, q, k)) :
             k \in KeysIn(lib, list, kind, q)}
    BY DEF GroupsOf, KeysIn, NameOf, Items, HasKey, Filtered, Selected, Places
  <2>6. GroupsOf(lib, list, kind, r) =
          {MakeGroup(k, NameOf(lib, list, kind, r, k), Items(lib, list, kind, r, k)) :
             k \in KeysIn(lib, list, kind, r)}
    BY DEF GroupsOf, KeysIn, NameOf, Items, HasKey, Filtered, Selected, Places
  <2>7. GroupsOf(lib, list, kind, q) = GroupsOf(lib, list, kind, r)
    BY <2>2, <2>3, <2>4, <2>5, <2>6
  <2> QED
    BY <1>1, <1>4, <2>7 DEF Groups
<1> QED
  BY <1>2, <1>3, <1>4

\* Queries that are alike find the same folders.
LEMMA FoldersAlike ==
  ASSUME NEW lib, IsLibrary(lib), NEW q, IsQuery(q), NEW r, IsQuery(r), Alike(q, r),
         q.section = "folders", q.detail # <<>>
  PROVE  Folders(lib, q) = Folders(lib, r)
<1> DEFINE S == FoundFolders(lib, q)
<1>1. q.detail = r.detail /\ q.search = r.search /\ r.section = "folders" /\ r.detail # <<>>
  BY DEF Alike
<1>2. Inside(lib, q) = Inside(lib, r)
  BY <1>1 DEF Inside
<1>3. S = FoundFolders(lib, r)
  BY <1>1, <1>2 DEF FoundFolders
<1>4. /\ Folders(lib, q) = FolderArranged(q, S) /\ S \in SUBSET DOMAIN Fold /\ IsFiniteSet(S)
  BY FoldersAre
<1>5. Folders(lib, r) = FolderArranged(r, FoundFolders(lib, r))
  BY <1>1, FoldersAre
<1>6. FolderOrder(q, S) = FolderOrder(r, S)
  BY OrderAlike DEF FolderOrder
<1> HIDE DEF S
<1>7. FolderArranged(q, S) = FolderArranged(r, S)
  BY <1>4, <1>6, FoldersOrdered DEF IsQuery
<1> QED
  BY <1>3, <1>4, <1>5, <1>7

\* What the pages consist of does not depend on the page that is asked for.
LEMMA EntriesAlike ==
  ASSUME NEW lib, IsLibrary(lib), NEW q, IsQuery(q), NEW n \in Nat
  PROVE  EntriesOf(lib, At(q, n)) = EntriesOf(lib, q)
<1> DEFINE r == At(q, n)
           list == ShownOf(lib, q)
<1>1. IsQuery(r) /\ Alike(r, q) /\ IsTrackList(lib, list)
  BY AtIs, AtAlike, ShownIs
<1>2. ShownOf(lib, r) = list
  BY ShownAlike
<1>3. ShowsGroups(r) <=> ShowsGroups(q)
  BY <1>1 DEF Alike, ShowsGroups
<1>4. /\ r.section = q.section /\ r.detail = q.detail /\ Kind(r) = Kind(q)
  BY <1>1 DEF Alike, Kind
<1> HIDE DEF r, list
<1>5. CASE ShowsGroups(q)
  <2> DEFINE G == Groups(lib, list, Kind(q), q)
  <2>1. G = Groups(lib, list, Kind(r), r) /\ AreGroups(G)
    BY <1>1, <1>4, GroupsAlike, GroupsAre
  <2>2. GroupOrder(q, G) = GroupOrder(r, G)
    BY <1>1, OrderAlike DEF GroupOrder
  <2>3. GroupEntries(lib, q, list) = GroupArranged(q, Groups(lib, list, Kind(q), q))
    BY DEF GroupEntries, GroupArranged, Kind
  <2>4. GroupEntries(lib, r, list) = GroupArranged(r, Groups(lib, list, Kind(r), r))
    BY DEF GroupEntries, GroupArranged, Kind
  <2> HIDE DEF G
  <2>5. GroupArranged(q, G) = GroupArranged(r, G)
    BY <1>1, <2>1, <2>2, GroupArrangedIs DEF IsQuery
  <2>6. GroupEntries(lib, q, list) = GroupEntries(lib, r, list)
    BY <2>1, <2>3, <2>4, <2>5 DEF G
  <2> QED
    BY <1>2, <1>3, <1>5, <2>6 DEF EntriesOf, Entries, r, list
<1>6. CASE ~ShowsGroups(q)
  <2>1. FoldersOf(lib, q) = FoldersOf(lib, r)
    BY <1>1, <1>4, FoldersAlike DEF FoldersOf, Alike
  <2>2. TrackEntries(lib, q, list) = TrackEntries(lib, r, list)
    BY <1>1, <2>1, TrackEntriesAre
  <2> QED
    BY <1>2, <1>3, <1>6, <2>2 DEF EntriesOf, Entries, r, list
<1> QED
  BY <1>5, <1>6

\* The pages of a list tile it.
LEMMA PagesOfList ==
  ASSUME NEW lib, IsLibrary(lib), NEW q, IsQuery(q),
         NEW lists, DOMAIN lists = 1..(Page(lib, q).total \div PageSize(q) + 1),
         \A n \in DOMAIN lists : lists[n] = Page(lib, At(q, n)).list
  PROVE  /\ Cardinality(PlacesOn(lists)) = Page(lib, q).total
         /\ \A p, r \in PlacesOn(lists) : lists[p[1]][p[2]] = lists[r[1]][r[2]] => p = r
         /\ \A n \in DOMAIN lists : Len(lists[n]) <= PageSize(q)
<1> DEFINE list == EntriesOf(lib, q)
           s == PageSize(q)
<1>1. IsList(list) /\ Distinct(list) /\ s \in Nat \ {0}
  BY EntriesAre, PageSizeIs
<1>2. Page(lib, q).total = Len(list)
  <2>1. (IF q.page < 1 THEN 1 ELSE q.page) \in Nat
    BY DEF IsQuery
  <2> QED
    BY <2>1, PageIs, EntriesAlike DEF Asked
<1>3. ASSUME NEW n \in Nat \ {0} PROVE Page(lib, At(q, n)).list = OnePage(list, n, s)
  <2> DEFINE r == At(q, n)
  <2>1. IsQuery(r) /\ r.page = n /\ PageSize(r) = s
    BY AtIs, AtAlike DEF PageSize, Alike
  <2>2. Asked(r) = r
    <3>1. Asked(r) = At(r, n)
      BY <2>1 DEF Asked
    <3> QED
      BY <3>1, AtAgain
  <2>3. EntriesOf(lib, r) = list
    BY EntriesAlike
  <2>4. Page(lib, r).list = Part(EntriesOf(lib, Asked(r)), Asked(r))
    BY PageIs
  <2> HIDE DEF r, list, s
  <2>5. Part(list, r) = OnePage(list, n, s)
    BY <2>1 DEF Part, OnePage
  <2> QED
    BY <2>2, <2>3, <2>4, <2>5 DEF r
<1> HIDE DEF list, s
<1>4. Len(list) \in Nat /\ Len(list) \div s + 1 \in Nat
  BY <1>1 DEF IsList
<1>5. DOMAIN lists = 1..(Len(list) \div s + 1)
  BY <1>2 DEF s
<1>6. \A n \in DOMAIN lists : lists[n] = OnePage(list, n, s)
  BY <1>2, <1>3, <1>4 DEF s
<1> DEFINE pages == lists
<1>7. /\ DOMAIN pages = 1..(Len(list) \div s + 1)
      /\ \A n \in DOMAIN pages : pages[n] = OnePage(list, n, s)
  BY <1>5, <1>6
<1> HIDE DEF pages
<1>8. /\ Cardinality(PlacesOn(pages)) = Len(list)
      /\ \A p, r \in PlacesOn(pages) : pages[p[1]][p[2]] = pages[r[1]][r[2]] => p = r
      /\ \A n \in DOMAIN pages : Len(pages[n]) <= s
  BY <1>1, <1>7, TileIs
<1> QED
  BY <1>2, <1>8 DEF s, pages

-----------------------------------------------------------------------------
(* Whole lists.                                                            *)

\* An answer is that of the library which the request saw.
LEMMA AnswerIs ==
  ASSUME NEW h \in Handlers, Inv, pc[h] = "answered"
  PROVE  /\ key[h] \in Requests
         /\ IsLibrary(Libraries[seen[h].library])
         /\ answer[h] = Answer(Libraries[seen[h].library], key[h])
<1> DEFINE n == seen[h].library
           k == key[h]
<1>1. n \in DOMAIN Answers /\ k \in Requests
  BY CacheAssumption DEF Inv, TypeInv, Asking, May, Requests
<1>2. answer[h] = Answers[n][k]
  BY DEF Inv, PageIsOfSnapshot, Built
<1> HIDE DEF n, k
<1>3. /\ Answers = LibraryAnswers /\ \A m \in DOMAIN Libraries : IsLibrary(Libraries[m])
  BY ServiceAssumption
<1>4. n \in DOMAIN Libraries /\ Answers[n][k] = Answer(Libraries[n], k)
  BY <1>1, <1>3 DEF LibraryAnswers
<1> QED
  BY <1>1, <1>2, <1>3, <1>4 DEF n, k

\* What a request for a page or a queue is answered.
LEMMA QueryAsked ==
  ASSUME NEW h \in Handlers, Inv, NEW path \in {"browse", "queue"}, Answered(h, path)
  PROVE  /\ IsLibrary(Libraries[seen[h].library]) /\ IsQuery(key[h].query)
         /\ path = "browse" => answer[h] = Page(Libraries[seen[h].library], key[h].query)
         /\ path = "queue" =>
              answer[h] = Queue(Libraries[seen[h].library], key[h].query, key[h].start)
<1>1. pc[h] = "answered" /\ key[h].path = path /\ answer[h] # Refused
  BY DEF Answered
<1>2. /\ key[h] \in Requests
      /\ IsLibrary(Libraries[seen[h].library])
      /\ answer[h] = Answer(Libraries[seen[h].library], key[h])
  BY <1>1, AnswerIs
<1>3. IsQuery(key[h].query)
  BY <1>1, <1>2, ServiceAssumption
<1> QED
  BY <1>1, <1>2, <1>3 DEF Answer

\* The pages of an answer tile its list.
LEMMA PagesTileNow == Inv => PagesTile
<1> SUFFICES ASSUME Inv, NEW h \in Handlers, Answered(h, "browse")
             PROVE  LET q == key[h].query
                        lists == [n \in Pages(q, answer[h].total) |->
                                    Page(Libraries[seen[h].library], [q EXCEPT !.page = n]).list]
                        places == UNION {{n} \X DOMAIN lists[n] : n \in DOMAIN lists}
                    IN  /\ Cardinality(places) = answer[h].total
                        /\ \A p, r \in places : lists[p[1]][p[2]] = lists[r[1]][r[2]] => p = r
                        /\ \A n \in DOMAIN lists : Len(lists[n]) <= PageSize(q)
  BY DEF PagesTile
<1> DEFINE q == key[h].query
           lib == Libraries[seen[h].library]
           lists == [n \in Pages(q, answer[h].total) |-> Page(lib, [q EXCEPT !.page = n]).list]
           places == UNION {{n} \X DOMAIN lists[n] : n \in DOMAIN lists}
<1>1. IsLibrary(lib) /\ IsQuery(q) /\ answer[h] = Page(lib, q)
  BY QueryAsked
<1>2. /\ DOMAIN lists = 1..(Page(lib, q).total \div PageSize(q) + 1)
      /\ \A n \in DOMAIN lists : lists[n] = Page(lib, At(q, n)).list
  BY <1>1 DEF Pages, At
<1>3. places = PlacesOn(lists)
  BY DEF PlacesOn
<1> HIDE DEF lists, places, q, lib
<1>4. /\ Cardinality(PlacesOn(lists)) = Page(lib, q).total
      /\ \A p, r \in PlacesOn(lists) : lists[p[1]][p[2]] = lists[r[1]][r[2]] => p = r
      /\ \A n \in DOMAIN lists : Len(lists[n]) <= PageSize(q)
  BY <1>1, <1>2, PagesOfList
<1>5. /\ Cardinality(places) = answer[h].total
      /\ \A p, r \in places : lists[p[1]][p[2]] = lists[r[1]][r[2]] => p = r
      /\ \A n \in DOMAIN lists : Len(lists[n]) <= PageSize(q)
  BY <1>1, <1>3, <1>4
<1> QED
  BY <1>5 DEF lists, places, q, lib

\* The queue of an answer holds the chosen track.
LEMMA QueueHasChosenNow == Inv => QueueHasChosen
<1> SUFFICES ASSUME Inv, NEW h \in Handlers, Answered(h, "queue"), answer[h] # NotFound,
                    key[h].start # 0
             PROVE  key[h].start \in ToSet(answer[h].ids) /\ Len(answer[h].ids) <= Window
  BY DEF QueueHasChosen
<1> QED
  BY QueryAsked, QueueHolds

\* The pages of a list tile it, and the queue of a list holds the track it
\* was asked to begin with (browse.go:413-503, 577-598), in any library, for any
\* query, at any size of a page and of the window.
THEOREM ListsAreWholeHolds == Spec => []ListsAreWhole
<1>1. Inv => ListsAreWhole
  BY PagesTileNow, QueueHasChosenNow DEF ListsAreWhole
<1> QED
  BY <1>1, Invariance, PTL

-----------------------------------------------------------------------------
(* Groups and their pages.                                                 *)

\* A list is a sequence of its elements.
LEMMA ListIsSeq ==
  ASSUME NEW list, IsList(list)
  PROVE  list \in Seq({list[j] : j \in 1..Len(list)})
<1>1. Len(list) \in Nat /\ list = [j \in 1..Len(list) |-> list[j]]
  BY DEF IsList
<1> QED
  BY <1>1

\* A part of a list holds nothing but elements of the list.
LEMMA SubSeqHolds ==
  ASSUME NEW list, IsList(list), NEW m \in Nat, NEW n \in Int, n <= Len(list),
         NEW i \in DOMAIN SubSeq(list, m + 1, n)
  PROVE  \E j \in 1..Len(list) : SubSeq(list, m + 1, n)[i] = list[j]
<1>1. Len(list) \in Nat
  BY DEF IsList
<1>2. CASE m <= n
  <2>1. m \in 0..Len(list) /\ n \in m..Len(list) /\ n - m \in Nat
    BY <1>1, <1>2
  <2> DEFINE part == SubSeq(list, m + 1, n)
             S == {list[j] : j \in 1..Len(list)}
  <2>2. list \in Seq(S)
    BY ListIsSeq
  <2>3. Len(part) = n - m /\ \A j \in 1..(n - m) : part[j] = list[m + j]
    BY <2>1, PartIs
  <2>4. DOMAIN part = 1..Len(part)
    <3> HIDE DEF S
    <3>1. part \in Seq(S)
      BY <1>1, <2>1, <2>2, SubSeqProperties
    <3> QED
      BY <3>1
  <2> HIDE DEF part
  <2>5. i \in 1..(n - m)
    BY <2>3, <2>4 DEF part
  <2>6. m + i \in 1..Len(list)
    BY <1>1, <2>1, <2>5
  <2> QED
    BY <2>3, <2>5, <2>6 DEF part
<1>3. CASE m > n
  <2>1. n < m + 1
    BY <1>3
  <2>2. SubSeq(list, m + 1, n) = <<>>
    BY <2>1, SubSeqEmpty
  <2> QED
    BY <2>2
<1> QED
  BY <1>2, <1>3

\* A page holds nothing but entries of the list.
LEMMA PartHolds ==
  ASSUME NEW list, IsList(list), NEW q, IsQuery(q), q.page # 0, NEW i \in DOMAIN Part(list, q)
  PROVE  \E j \in 1..Len(list) : Part(list, q)[i] = list[j]
<1> DEFINE s == PageSize(q)
           m == (q.page - 1) * s
           n == IF m + s < Len(list) THEN m + s ELSE Len(list)
<1>1. s \in Nat /\ q.page - 1 \in Nat /\ Len(list) \in Nat
  BY PageSizeIs DEF IsQuery, IsList
<1>2. m \in Nat
  <2> DEFINE p == q.page - 1
  <2>1. p \in Nat
    BY <1>1
  <2> HIDE DEF s, p
  <2>2. p * s \in Nat
    BY <1>1, <2>1
  <2> QED
    BY <2>2 DEF p
<1>3. Part(list, q) = SubSeq(list, m + 1, n)
  BY DEF Part
<1> HIDE DEF m, s
<1>4. n \in Int /\ n <= Len(list)
  BY <1>1, <1>2
<1> HIDE DEF n
<1> QED
  BY <1>2, <1>3, <1>4, SubSeqHolds

\* A group that is listed is a group of the tracks that the query lists when
\* nothing is searched for.
LEMMA GroupListed ==
  ASSUME NEW lib, IsLibrary(lib), NEW q, IsQuery(q), ShowsGroups(q), q.detail = <<>>,
         NEW i \in DOMAIN Page(lib, q).list
  PROVE  Page(lib, q).list[i] \in Groups(lib, AllOf(lib, q), q.section, q)
<1> DEFINE r == Asked(q)
           list == EntriesOf(lib, q)
           G == Groups(lib, ShownOf(lib, q), Kind(q), q)
           n == IF q.page < 1 THEN 1 ELSE q.page
<1>1. n \in Nat \ {0}
  BY DEF IsQuery
<1>2. r = At(q, n)
  BY DEF Asked
<1> HIDE DEF n, r
<1>3. IsQuery(r) /\ r.page # 0 /\ EntriesOf(lib, r) = list
  BY <1>1, <1>2, AtIs, EntriesAlike
<1>4. Page(lib, q).list = Part(list, r)
  BY <1>3, PageIs DEF r
<1>5. IsListOf(list, G)
  <2>1. list = GroupArranged(q, G)
    BY DEF EntriesOf, Entries, GroupEntries, GroupArranged, Kind
  <2>2. AreGroups(G)
    BY ShownIs, GroupsAre
  <2> HIDE DEF G, list
  <2> QED
    BY <2>1, <2>2, GroupArrangedIs DEF IsQuery
<1>6. ShownOf(lib, q) = AllOf(lib, q) /\ Kind(q) = q.section
  BY DEF ShownOf, IsAlbum, Kind
<1> HIDE DEF G, list
<1>7. PICK j \in 1..Len(list) : Part(list, r)[i] = list[j]
  BY <1>3, <1>4, <1>5, PartHolds DEF IsListOf
<1>8. list[j] \in G
  BY <1>5 DEF IsListOf
<1> QED
  BY <1>4, <1>6, <1>7, <1>8 DEF G

\* Queries that list the same tracks, in whatever order.
SameTracks(q, r) ==
  /\ q.section = r.section /\ q.detail = r.detail /\ q.preset = r.preset
  /\ q.search = r.search /\ q.rule = r.rule
  /\ q.section = "folders" => q.recursive = r.recursive

\* Queries for the same tracks give lists of the same length.
LEMMA SameListed ==
  ASSUME NEW lib, IsLibrary(lib), NEW q, IsQuery(q), NEW r, IsQuery(r),
         SameTracks(q, r), q.preset # "topSongs"
  PROVE  Len(Tracks(lib, q)) = Len(Tracks(lib, r))
<1>1. /\ IsPlain(lib, q) <=> IsPlain(lib, r)
      /\ IsSmart(lib, q) <=> IsSmart(lib, r)
      /\ HasList(lib, q) <=> HasList(lib, r)
  BY DEF SameTracks, IsPlain, IsSmart, HasList
<1>2. ASSUME NEW t PROVE Lists(lib, t, q) <=> Lists(lib, t, r)
  <2>1. q.section = "folders" => (InFolder(t, q) <=> InFolder(t, r))
    BY DEF SameTracks, InFolder
  <2>2. InDetail(lib, t, q) <=> InDetail(lib, t, r)
    BY <1>1, <2>1 DEF SameTracks, InDetail
  <2> QED
    BY <1>1, <2>2 DEF SameTracks, Lists
<1>3. CASE ~IsPlain(lib, q)
  <2> DEFINE S == Listed(lib, q)
  <2>1. S = Listed(lib, r) /\ S \in SUBSET Range(lib.tracks)
    BY <1>2 DEF Listed
  <2>2. IsListOf(Tracks(lib, q), S)
    BY <1>3, TracksAre
  <2>3. IsListOf(Tracks(lib, r), S)
    BY <1>1, <1>3, <2>1, TracksAre
  <2> HIDE DEF S
  <2>4. IsFiniteSet(S)
    BY <2>1, TracksFinite
  <2> QED
    BY <2>2, <2>3, <2>4, ListOfSize
<1>4. CASE IsPlain(lib, q)
  <2>1. q.detail = r.detail /\ q.preset = r.preset
    BY DEF SameTracks
  <2>2. ListedPlaces(lib, q) = ListedPlaces(lib, r)
    BY <1>2, <2>1 DEF ListedPlaces
  <2>3. Tracks(lib, q) = PlaylistTracks(lib, q) /\ Tracks(lib, r) = PlaylistTracks(lib, r)
    BY <1>1, <1>4, <2>1 DEF Tracks
  <2> QED
    BY <1>1, <1>4, <2>2, <2>3, PlaylistTracksAre
<1> QED
  BY <1>3, <1>4

\* As many places of a list as things in the set that it lists.
LEMMA PlacesCount ==
  ASSUME NEW S, IsFiniteSet(S), NEW list, IsListOf(list, S), NEW T \in SUBSET S
  PROVE  Cardinality({i \in DOMAIN list : list[i] \in T}) = Cardinality(T)
<1> DEFINE K == {i \in DOMAIN list : list[i] \in T}
           f == [i \in K |-> list[i]]
<1>1. Len(list) \in Nat /\ DOMAIN list = 1..Len(list) /\ Distinct(list)
  BY DEF IsListOf, IsList
<1>2. IsFiniteSet(K)
  <2>1. IsFiniteSet(1..Len(list))
    BY <1>1, FS_Interval
  <2>2. K \in SUBSET (1..Len(list))
    BY <1>1
  <2> HIDE DEF K
  <2> QED
    BY <2>1, <2>2, FS_Subset
<1>3. \A x \in T : \E i \in K : list[i] = x
  BY <1>1 DEF IsListOf
<1>4. \A i, j \in K : list[i] = list[j] => i = j
  BY <1>1 DEF Distinct
<1>5. \A i \in K : list[i] \in T
  OBVIOUS
<1> HIDE DEF K
<1>6. f \in Bijection(K, T)
  <2>1. f \in Surjection(K, T)
    BY <1>3, <1>5 DEF Surjection
  <2>2. f \in Injection(K, T)
    BY <1>4, <1>5 DEF Injection, IsInjective
  <2> QED
    BY <2>1, <2>2 DEF Bijection
<1>7. Cardinality(T) = Cardinality(K)
  <2>1. ExistsBijection(K, T)
    BY <1>6 DEF ExistsBijection
  <2> QED
    BY <1>2, <2>1, FS_Bijection
<1> QED
  BY <1>7 DEF K

\* The query for the page of a group.
Own(q) == q.section \in {"playlists", "folders"}
DetailOf(q, id) ==
  [q EXCEPT !.search = <<>>, !.page = 1, !.disc = 0, !.albums = FALSE, !.recursive = TRUE,
            !.rule = IF q.section \in {"playlists", "folders"} THEN <<>> ELSE @,
            !.preset = IF q.section \in {"playlists", "folders"} THEN "" ELSE @,
            !.detail = IF q.section = "folders" THEN <<id, <<>>>> ELSE <<id>>]

IsDetail(q, id, d) ==
  /\ DOMAIN d = DOMAIN Everything
  /\ d.section = q.section /\ d.search = <<>> /\ d.page = 1 /\ d.disc = 0
  /\ d.albums = FALSE /\ d.recursive = TRUE /\ d.desc = q.desc
  /\ d.pageSize = q.pageSize
  /\ d.rule = IF Own(q) THEN <<>> ELSE q.rule
  /\ d.preset = IF Own(q) THEN "" ELSE q.preset
  /\ d.detail = IF q.section = "folders" THEN <<id, <<>>>> ELSE <<id>>

\* What the query for the page of a group is.
LEMMA DetailFields ==
  ASSUME NEW q, IsQuery(q), NEW id
  PROVE  IsDetail(q, id, DetailOf(q, id))
<1> DEFINE d == DetailOf(q, id)
<1>1. DOMAIN q = DOMAIN Everything
  BY DEF IsQuery
<1>2. DOMAIN d = DOMAIN q
  BY DEF DetailOf
<1>3. d.section = q.section /\ d.search = <<>> /\ d.page = 1 /\ d.disc = 0
  BY <1>1 DEF DetailOf, Everything
<1>4. d.albums = FALSE /\ d.recursive = TRUE /\ d.desc = q.desc /\ d.pageSize = q.pageSize
  BY <1>1 DEF DetailOf, Everything
<1>5. d.rule = IF Own(q) THEN <<>> ELSE q.rule
  BY <1>1 DEF DetailOf, Everything, Own
<1>6. d.preset = IF Own(q) THEN "" ELSE q.preset
  BY <1>1 DEF DetailOf, Everything, Own
<1>7. d.detail = IF q.section = "folders" THEN <<id, <<>>>> ELSE <<id>>
  BY <1>1 DEF DetailOf, Everything
<1> HIDE DEF d
<1>8. IsDetail(q, id, d)
  BY <1>1, <1>2, <1>3, <1>4, <1>5, <1>6, <1>7, Zenon DEF IsDetail
<1> QED
  BY <1>8 DEF d

\* The page of a group shows as many tracks as its query lists.
LEMMA DetailShows ==
  ASSUME NEW lib, IsLibrary(lib), NEW q, IsQuery(q), NEW id
  PROVE  /\ IsQuery(DetailOf(q, id))
         /\ Page(lib, DetailOf(q, id)).trackCount = Len(Tracks(lib, DetailOf(q, id)))
<1> DEFINE d == DetailOf(q, id)
<1>1. IsDetail(q, id, d)
  BY DetailFields
<1> HIDE DEF d
<1> DEFINE e == d.detail
<1>2. /\ e = <<id, <<>>>> \/ e = <<id>>
      /\ q.section = "folders" => e = <<id, <<>>>>
  BY <1>1, Zenon DEF IsDetail
<1> HIDE DEF e
<1>3. e # <<>> /\ (q.section = "folders" => e[2] = <<>>)
  <2>1. <<id>> # <<>> /\ <<id, <<>>>> # <<>> /\ <<id, <<>>>>[2] = <<>>
    OBVIOUS
  <2> QED
    BY <1>2, <2>1, Zenon
<1>4. IsQuery(d)
  <2>1. e[2] = <<>> => e[2] \in Seq(DOMAIN Fold)
    OBVIOUS
  <2>2. DOMAIN d = DOMAIN Everything /\ d.section = q.section /\ d.search = <<>>
    BY <1>1, Zenon DEF IsDetail
  <2>3. d.albums \in BOOLEAN /\ d.recursive \in BOOLEAN
    BY <1>1, Zenon DEF IsDetail
  <2>4. d.desc \in BOOLEAN
    BY <1>1, Zenon DEF IsDetail, IsQuery
  <2>5. d.page \in Nat /\ d.pageSize \in Nat /\ d.section \in Sections
    <3>1. d.page = 1 /\ d.pageSize = q.pageSize
      BY <1>1, Zenon DEF IsDetail
    <3>2. q.pageSize \in Nat /\ q.section \in Sections
      BY DEF IsQuery
    <3> QED
      BY <2>2, <3>1, <3>2
  <2>6. d.section = "folders" => e[2] \in Seq(DOMAIN Fold)
    BY <1>3, <2>1, <2>2
  <2> QED
    BY <2>2, <2>3, <2>4, <2>5, <2>6, Zenon DEF IsQuery, e
<1>5. ~ShowsGroups(d)
  BY <1>1, <1>3, Zenon DEF ShowsGroups, IsDetail, e
<1>6. Asked(d) = d
  <2>1. "page" \in DOMAIN d
    BY <1>1 DEF Everything, IsDetail
  <2>2. d.page = 1
    BY <1>1, Zenon DEF IsDetail
  <2>3. Asked(d) = [d EXCEPT !.page = 1]
    BY <2>2 DEF Asked, At
  <2>4. d = [f \in DOMAIN d |-> d[f]]
    BY DEF d, DetailOf
  <2> QED
    BY <2>1, <2>2, <2>3, <2>4
<1>7. AllOf(lib, d) = Tracks(lib, d)
  BY <1>5 DEF AllOf, Searched
<1>8. Len(ShownOf(lib, d)) = Len(Tracks(lib, d))
  BY <1>1, <1>4, <1>7, ShownIs, OfDiscIs DEF ShownOf, IsDetail
<1>9. Page(lib, d).trackCount = Len(ShownOf(lib, Asked(d)))
  BY PageIs
<1> QED
  BY <1>4, <1>6, <1>8, <1>9 DEF d

\* A playlist counts what its page lists.
LEMMA DetailOfPlaylist ==
  ASSUME NEW lib, IsLibrary(lib), NEW q, IsQuery(q), q.section = "playlists", NEW list,
         NEW g \in Groups(lib, list, q.section, q)
  PROVE  g.id # Unknown /\ g.count = Len(Tracks(lib, DetailOf(q, g.id)))
<1>1. PICK p \in DOMAIN lib.playlists :
        g = MakeGroup(p, Fold[lib.playlists[p].name], Tracks(lib, PlaylistQuery(p)))
  BY DEF Groups, PlaylistQuery
<1>2. p \in Nat \ {0}
  BY DEF IsLibrary
<1>3. g.id = p /\ g.count = Len(Tracks(lib, PlaylistQuery(p)))
  BY <1>1 DEF MakeGroup
<1> DEFINE d == DetailOf(q, p)
           e == PlaylistQuery(p)
<1>4. /\ d.section = "playlists" /\ d.search = <<>> /\ d.rule = <<>> /\ d.preset = ""
      /\ d.detail = <<p>>
  <2>1. IsDetail(q, p, d)
    BY DetailFields
  <2> HIDE DEF d
  <2> QED
    BY <2>1 DEF Own, IsDetail
<1>5. /\ e.section = "playlists" /\ e.search = <<>> /\ e.rule = <<>> /\ e.preset = ""
      /\ e.detail = <<p>>
  BY DEF PlaylistQuery, Everything
<1>6. IsQuery(d) /\ IsQuery(e)
  BY DetailShows, OwnQueries
<1> HIDE DEF d, e
<1>7. SameTracks(d, e)
  BY <1>4, <1>5 DEF SameTracks
<1>8. Len(Tracks(lib, d)) = Len(Tracks(lib, e))
  BY <1>4, <1>6, <1>7, SameListed
<1> QED
  BY <1>2, <1>3, <1>8, BrowseAssumption DEF d, e

\* A source counts what its page lists.
LEMMA DetailOfSource ==
  ASSUME NEW lib, IsLibrary(lib), NEW q, IsQuery(q), q.section = "folders", NEW list,
         NEW g \in Groups(lib, list, q.section, q)
  PROVE  g.id # Unknown /\ g.count = Len(Tracks(lib, DetailOf(q, g.id)))
<1>1. PICK s \in DOMAIN lib.sources :
        g = MakeGroup(s, Fold[lib.sources[s]], Tracks(lib, FolderQuery(s)))
  BY DEF Groups, FolderQuery
<1>2. s \in Nat \ {0}
  BY DEF IsLibrary
<1>3. g.id = s /\ g.count = Len(Tracks(lib, FolderQuery(s)))
  BY <1>1 DEF MakeGroup
<1> DEFINE d == DetailOf(q, s)
           e == FolderQuery(s)
<1>4. /\ d.section = "folders" /\ d.search = <<>> /\ d.rule = <<>> /\ d.preset = ""
      /\ d.detail = <<s, <<>>>> /\ d.recursive = TRUE
  <2>1. IsDetail(q, s, d)
    BY DetailFields
  <2> HIDE DEF d
  <2> QED
    BY <2>1 DEF Own, IsDetail
<1>5. /\ e.section = "folders" /\ e.search = <<>> /\ e.rule = <<>> /\ e.preset = ""
      /\ e.detail = <<s, <<>>>> /\ e.recursive = TRUE
  BY DEF FolderQuery, Everything
<1>6. IsQuery(d) /\ IsQuery(e)
  BY DetailShows, OwnQueries
<1> HIDE DEF d, e
<1>7. SameTracks(d, e)
  BY <1>4, <1>5 DEF SameTracks
<1>8. Len(Tracks(lib, d)) = Len(Tracks(lib, e))
  BY <1>4, <1>6, <1>7, SameListed
<1> QED
  BY <1>2, <1>3, <1>8, BrowseAssumption DEF d, e

\* A track that has a key is one that the page of the key's group lists.
LEMMA KeyIsDetail ==
  ASSUME NEW lib, IsLibrary(lib), NEW q, q.section \in {"albums", "artists", "genres"},
         q.preset # "topArtists", NEW k, NEW t \in Range(lib.tracks),
         NEW d, d.section = q.section, d.detail = <<k>>,
         q.section = "albums" => k # 0, OneFolding(lib, q, k)
  PROVE  /\ InDetail(lib, t, d) => k \in KeysOf(lib, t, q.section, q)
         /\ k # Unknown \/ ~HasNameless(lib) =>
              (k \in KeysOf(lib, t, q.section, q) => InDetail(lib, t, d))
<1>1. d.detail[1] = k
  OBVIOUS
<1>2. ASSUME NEW f \in {"artist", "albumArtist", "genre"}
      PROVE  /\ Unknown \notin Names(lib, t[f])
             /\ Blank(t[f]) => Names(lib, t[f]) = {}
             /\ ~HasNameless(lib) /\ Names(lib, t[f]) = {} => Blank(t[f])
             /\ q.section # "albums" /\ k # Unknown => (Has(lib, t[f], k) <=> k \in Names(lib, t[f]))
  <2>1. t[f] \in DOMAIN Fold
    <3>1. f \in TextFields
      BY DEF TextFields
    <3> QED
      BY <3>1, TrackIs
  <2>2. Unknown \notin Names(lib, t[f]) /\ (Blank(t[f]) => Names(lib, t[f]) = {})
    BY <2>1, NamesAre, BrowseAssumption
  <2>3. ~HasNameless(lib) => ~Nameless(lib, t[f])
    BY DEF HasNameless
  <2>4. ASSUME q.section # "albums", k # Unknown
        PROVE  Has(lib, t[f], k) <=> k \in Names(lib, t[f])
    <3>1. \A n \in ToSet(Members[lib.separators][t[f]]) : <<k, n>> \in Same <=> Fold[n] = k
      BY <2>4 DEF OneFolding
    <3> QED
      BY <3>1 DEF Has, Names
  <2> QED
    BY <2>2, <2>3, <2>4 DEF Nameless
<1>3. CASE q.section = "albums"
  <2>1. KeysOf(lib, t, q.section, q) = {t.albumID} \ {0}
    BY <1>3 DEF KeysOf
  <2>2. InDetail(lib, t, d) <=> t.albumID = k
    BY <1>1, <1>3 DEF InDetail
  <2> QED
    BY <1>3, <2>1, <2>2
<1>4. CASE q.section = "artists"
  <2> DEFINE a == Names(lib, t.artist)
             b == Names(lib, t.albumArtist)
             names == a \cup b
  <2>1. KeysOf(lib, t, q.section, q) = IF names = {} THEN {Unknown} ELSE names
    BY <1>4 DEF KeysOf
  <2>2. InDetail(lib, t, d) <=>
          IF k = Unknown THEN Blank(t.artist) /\ Blank(t.albumArtist) ELSE k \in names
    <3>1. k # Unknown => /\ Has(lib, t.artist, k) <=> k \in a
                         /\ Has(lib, t.albumArtist, k) <=> k \in b
      BY <1>2, <1>4
    <3> HIDE DEF a, b
    <3> QED
      BY <1>1, <1>4, <3>1 DEF InDetail
  <2>3. /\ Unknown \notin a /\ Unknown \notin b
        /\ Blank(t.artist) => a = {}
        /\ Blank(t.albumArtist) => b = {}
        /\ ~HasNameless(lib) /\ a = {} => Blank(t.artist)
        /\ ~HasNameless(lib) /\ b = {} => Blank(t.albumArtist)
    BY <1>2
  <2> HIDE DEF a, b
  <2> QED
    BY <2>1, <2>2, <2>3
<1>5. CASE q.section = "genres"
  <2> DEFINE names == Names(lib, t.genre)
  <2>1. KeysOf(lib, t, q.section, q) = IF names = {} THEN {Unknown} ELSE names
    BY <1>5 DEF KeysOf
  <2>2. InDetail(lib, t, d) <=> IF k = Unknown THEN Blank(t.genre) ELSE k \in names
    <3>1. k # Unknown => (Has(lib, t.genre, k) <=> k \in names)
      BY <1>2, <1>5
    <3> HIDE DEF names
    <3> QED
      BY <1>1, <1>5, <3>1 DEF InDetail
  <2>3. /\ Unknown \notin names
        /\ Blank(t.genre) => names = {}
        /\ ~HasNameless(lib) /\ names = {} => Blank(t.genre)
    BY <1>2
  <2> HIDE DEF names
  <2> QED
    BY <2>1, <2>2, <2>3
<1> QED
  BY <1>3, <1>4, <1>5

\* An album, an artist or a genre counts what its page lists, and more only among
\* the tracks without a name, when some text has no names and is not blank.
LEMMA DetailOfMade ==
  ASSUME NEW lib, IsLibrary(lib), NEW q, IsQuery(q),
         q.section \in {"albums", "artists", "genres"}, q.detail = <<>>,
         q.preset # "topArtists",
         NEW g \in Groups(lib, AllOf(lib, q), q.section, q), OneFolding(lib, q, g.id)
  PROVE  /\ g.count \in Nat
         /\ g.count >= Len(Tracks(lib, DetailOf(q, g.id)))
         /\ g.id # Unknown \/ ~HasNameless(lib) =>
              g.count = Len(Tracks(lib, DetailOf(q, g.id)))
<1> DEFINE s == Searched(q)
           S == Listed(lib, s)
           list == AllOf(lib, q)
           k == g.id
           d == DetailOf(q, k)
           T == {t \in S : k \in KeysOf(lib, t, q.section, q)}
           D == Listed(lib, d)
<1>1. /\ IsQuery(s) /\ s.section = q.section /\ s.detail = <<>> /\ s.search = <<>>
      /\ s.preset = q.preset /\ s.rule = q.rule
  <2>1. DOMAIN q = DOMAIN Everything
    BY DEF IsQuery
  <2>2. s = [q EXCEPT !.search = <<>>]
    BY DEF Searched, ShowsGroups
  <2> HIDE DEF s
  <2>3. /\ s.section = q.section /\ s.detail = q.detail /\ s.search = <<>>
        /\ s.preset = q.preset /\ s.rule = q.rule
    BY <2>1, <2>2 DEF Everything
  <2> QED
    BY <2>3, SearchedIs DEF s
<1>2. /\ d.section = q.section /\ d.detail = <<k>> /\ d.search = <<>>
      /\ d.preset = q.preset /\ d.rule = q.rule
  <2>1. IsDetail(q, k, d)
    BY DetailFields
  <2> HIDE DEF d, k
  <2> QED
    BY <2>1 DEF IsDetail, Own
<1>3. IsQuery(d)
  BY DetailShows
<1> HIDE DEF s, d
<1>4. ~IsPlain(lib, s) /\ ~IsPlain(lib, d)
  BY <1>1, <1>2 DEF IsPlain, HasList
<1>5. IsListOf(list, S) /\ IsTrackList(lib, list)
  BY <1>1, <1>4, TracksAre DEF AllOf, s
<1>6. IsListOf(Tracks(lib, d), D)
  BY <1>3, <1>4, TracksAre
<1>7. S \in SUBSET Range(lib.tracks) /\ D \in SUBSET Range(lib.tracks)
  BY DEF Listed
<1>8. IsFiniteSet(S) /\ IsFiniteSet(D)
  BY <1>7, TracksFinite
<1>9. g \in GroupsOf(lib, list, q.section, q)
  BY DEF Groups
<1>10. /\ k \in KeysIn(lib, list, q.section, q)
       /\ g.count = Cardinality(HasKey(lib, list, q.section, q, k))
  BY <1>5, <1>9, MadeGroups
<1>11. q.section = "albums" => k # 0
  BY <1>10 DEF KeysIn, KeysOf
<1>12. \A t \in Range(lib.tracks) : t \in D <=> t \in S /\ InDetail(lib, t, d)
  <2> SUFFICES ASSUME NEW t \in Range(lib.tracks)
               PROVE  Lists(lib, t, d) <=> Lists(lib, t, s) /\ InDetail(lib, t, d)
    BY DEF Listed
  <2>1. d.detail # <<>>
    BY <1>2
  <2> QED
    BY <1>1, <1>2, <1>4, <2>1 DEF Lists
<1> HIDE DEF S, D, k, list
<1>13. \A t \in Range(lib.tracks) :
         /\ InDetail(lib, t, d) => k \in KeysOf(lib, t, q.section, q)
         /\ k # Unknown \/ ~HasNameless(lib) =>
              (k \in KeysOf(lib, t, q.section, q) => InDetail(lib, t, d))
  <2>1. OneFolding(lib, q, k)
    BY DEF k
  <2> QED
    BY <1>2, <1>11, <2>1, KeyIsDetail
<1>14. /\ D \in SUBSET T
       /\ k # Unknown \/ ~HasNameless(lib) => D = T
  BY <1>7, <1>12, <1>13
<1>15. g.count = Cardinality(T)
  <2>1. HasKey(lib, list, q.section, q, k) = {i \in DOMAIN list : list[i] \in T}
    <3>1. \A i \in DOMAIN list : list[i] \in S
      BY <1>5 DEF IsListOf, IsList
    <3> QED
      BY <3>1 DEF HasKey
  <2>2. T \in SUBSET S
    OBVIOUS
  <2> HIDE DEF T
  <2>3. Cardinality({i \in DOMAIN list : list[i] \in T}) = Cardinality(T)
    BY <1>5, <1>8, <2>2, PlacesCount
  <2> QED
    BY <1>10, <2>1, <2>3
<1>16. IsFiniteSet(T)
  BY <1>8, FS_Subset
<1>17. Len(Tracks(lib, d)) = Cardinality(D)
  BY <1>6, <1>8, ListOfSize
<1> HIDE DEF T
<1>18. Cardinality(T) \in Nat /\ Cardinality(D) \in Nat /\ Cardinality(D) <= Cardinality(T)
  BY <1>8, <1>14, <1>16, FS_Subset, FS_CardinalityType
<1> QED
  BY <1>14, <1>15, <1>17, <1>18 DEF d, k

\* As many tracks as the group counts, or fewer.
Promised(lib, q, g, shown) ==
  IF g.id = Unknown /\ HasNameless(lib) THEN g.count >= shown
  ELSE OneFolding(lib, q, g.id) => g.count = shown

\* A group that is listed counts what its page lists.
LEMMA GroupCounts ==
  ASSUME NEW lib, IsLibrary(lib), NEW q, IsQuery(q), ShowsGroups(q), q.detail = <<>>,
         q.preset # "topArtists", NEW i \in DOMAIN Page(lib, q).list,
         NEW g, g = Page(lib, q).list[i]
  PROVE  Promised(lib, q, g, Page(lib, DetailOf(q, g.id)).trackCount)
<1> DEFINE d == DetailOf(q, g.id)
           shown == Page(lib, d).trackCount
<1>1. g \in Groups(lib, AllOf(lib, q), q.section, q)
  BY GroupListed
<1>2. shown = Len(Tracks(lib, d))
  BY DetailShows
<1> HIDE DEF shown, d
<1>3. q.section \in {"albums", "artists", "genres", "playlists", "folders"}
  BY DEF ShowsGroups
<1> SUFFICES Promised(lib, q, g, shown)
  BY DEF shown, d
<1>4. CASE q.section = "playlists"
  <2>1. g.id # Unknown /\ g.count = Len(Tracks(lib, d))
    BY <1>1, <1>4, DetailOfPlaylist DEF d
  <2> QED
    BY <1>2, <2>1 DEF Promised
<1>5. CASE q.section = "folders"
  <2>1. g.id # Unknown /\ g.count = Len(Tracks(lib, d))
    BY <1>1, <1>5, DetailOfSource DEF d
  <2> QED
    BY <1>2, <2>1 DEF Promised
<1>6. CASE q.section \in {"albums", "artists", "genres"}
  <2>1. g.id = Unknown => OneFolding(lib, q, g.id)
    BY DEF OneFolding
  <2>2. CASE OneFolding(lib, q, g.id)
    BY <1>1, <1>2, <1>6, <2>2, DetailOfMade DEF d, Promised
  <2>3. CASE ~OneFolding(lib, q, g.id)
    BY <2>1, <2>3 DEF Promised
  <2> QED
    BY <2>2, <2>3
<1> QED
  BY <1>3, <1>4, <1>5, <1>6

\* The groups of an answer count what their pages list.
LEMMA GroupsAreDetailsNow == Inv => GroupsAreDetails
<1> SUFFICES ASSUME Inv, NEW h \in Handlers, Answered(h, "browse"),
                    ShowsGroups(key[h].query), key[h].query.preset # "topArtists",
                    key[h].query.detail = <<>>, NEW i \in DOMAIN answer[h].list
             PROVE  LET g == answer[h].list[i]
                        lib == Libraries[seen[h].library]
                        q == key[h].query
                    IN  Promised(lib, q, g, Page(lib, DetailOf(q, g.id)).trackCount)
  BY DEF GroupsAreDetails, DetailOf, Promised
<1> DEFINE q == key[h].query
           lib == Libraries[seen[h].library]
<1>1. IsLibrary(lib) /\ IsQuery(q) /\ answer[h] = Page(lib, q)
  BY QueryAsked
<1> HIDE DEF lib, q
<1> DEFINE g == answer[h].list[i]
<1>2. g = Page(lib, q).list[i] /\ i \in DOMAIN Page(lib, q).list
  BY <1>1
<1> HIDE DEF g
<1>3. Promised(lib, q, g, Page(lib, DetailOf(q, g.id)).trackCount)
  BY <1>1, <1>2, GroupCounts DEF q
<1> QED
  BY <1>3 DEF lib, q, g

\* What a group promises is what its page shows (browse.go:62-69, 92-135,
\* 219-290), in any library, for any query but that for top artists, where the
\* key of the group is the same as just the names it stands for.
THEOREM GroupsAreDetailsHolds == Spec => []GroupsAreDetails
BY GroupsAreDetailsNow, Invariance, PTL

=============================================================================
