---------------------------- MODULE StoreProofs ----------------------------
(***************************************************************************)
(* Store.tla, for every number of writers and every library: retention of  *)
(* recent plays is computed in SQL as in memory; the rows always read back *)
(* as the library; a session counts once; and the store implements         *)
(* LibraryService. The invariant is IInv: what a writer holding the lock   *)
(* is about to publish is the effect of its request on what is published   *)
(* now, and the rows mirror one of the two.                                *)
(***************************************************************************)
EXTENDS Store, TLAPS, FiniteSetTheorems, SequenceTheorems

-----------------------------------------------------------------------------
(* Ranks in a finite, strictly and totally ordered set.                    *)

Orders(R, S) ==
  /\ \A i \in S : <<i, i>> \notin R
  /\ \A i, j, k \in S : <<i, j>> \in R /\ <<j, k>> \in R => <<i, k>> \in R
  /\ \A i, j \in S : i # j => <<i, j>> \in R \/ <<j, i>> \in R

Below(R, S, i) == {j \in S : <<j, i>> \in R}

LEMMA Ranks ==
  ASSUME NEW S, NEW R, IsFiniteSet(S), Orders(R, S)
  PROVE  /\ \A i \in S : Cardinality(Below(R, S, i)) \in 0..(Cardinality(S) - 1)
         /\ \A i, j \in S : Cardinality(Below(R, S, i)) = Cardinality(Below(R, S, j)) => i = j
         /\ \A k \in 1..Cardinality(S) :
              \E i \in S : Cardinality(Below(R, S, i)) = k - 1
<1> DEFINE n == Cardinality(S)
           rank(i) == Cardinality(Below(R, S, i))
<1>1. n \in Nat
  BY FS_CardinalityType
<1>2. ASSUME NEW i \in S
      PROVE  /\ IsFiniteSet(Below(R, S, i))
             /\ rank(i) \in Nat /\ rank(i) < n
  <2>1. Below(R, S, i) \in SUBSET (S \ {i})
    BY DEF Below, Orders
  <2>2. IsFiniteSet(S \ {i}) /\ Cardinality(S \ {i}) = n - 1
    BY FS_RemoveElement
  <2>3. IsFiniteSet(Below(R, S, i)) /\ rank(i) <= n - 1
    BY <2>1, <2>2, FS_Subset
  <2> QED
    BY <2>3, <1>1, FS_CardinalityType
<1>3. ASSUME NEW i \in S, NEW j \in S, <<i, j>> \in R
      PROVE  rank(i) < rank(j)
  <2>1. Below(R, S, i) \cup {i} \in SUBSET Below(R, S, j) /\ i \notin Below(R, S, i)
    BY <1>3 DEF Below, Orders
  <2>2. Cardinality(Below(R, S, i) \cup {i}) = rank(i) + 1
    BY <2>1, <1>2, FS_AddElement
  <2>3. Cardinality(Below(R, S, i) \cup {i}) <= rank(j)
    BY <2>1, <1>2, FS_Subset
  <2> QED
    BY <2>2, <2>3, <1>2
<1>4. \A i, j \in S : rank(i) = rank(j) => i = j
  <2> SUFFICES ASSUME NEW i \in S, NEW j \in S, rank(i) = rank(j), i # j PROVE FALSE
    OBVIOUS
  <2>1. <<i, j>> \in R \/ <<j, i>> \in R
    BY DEF Orders
  <2> QED
    BY <2>1, <1>2, <1>3
<1> DEFINE f == [i \in S |-> rank(i) + 1]
<1>5. f \in Injection(S, 1..n)
  <2>1. \A i \in S : rank(i) + 1 \in 1..n
    BY <1>1, <1>2
  <2>2. \A i, j \in S : f[i] = f[j] => i = j
    BY <1>2, <1>4
  <2> QED
    BY <2>1, <2>2 DEF Injection, IsInjective
<1>6. IsFiniteSet(1..n) /\ Cardinality(1..n) = n
  BY <1>1, FS_Interval
<1>7. f \in Surjection(S, 1..n)
  BY <1>5, <1>6, FS_Injection
<1>8. \A k \in 1..n : \E i \in S : rank(i) = k - 1
  <2> TAKE k \in 1..n
  <2>1. PICK i \in S : f[i] = k
    BY <1>7 DEF Surjection
  <2> QED
    BY <2>1, <1>2
<1> QED
  BY <1>1, <1>2, <1>4, <1>8

LEMMA RankExists ==
  ASSUME NEW S, IsFiniteSet(S), NEW R, Orders(R, S), NEW k \in 1..Cardinality(S)
  PROVE  \E i \in S : Cardinality(Below(R, S, i)) = k - 1
BY Ranks

LEMMA NthOfSet ==
  ASSUME NEW S \in SUBSET Nat, IsFiniteSet(S), NEW k \in 1..Cardinality(S)
  PROVE  Nth(S, k) \in S
<1> DEFINE R == {p \in S \X S : p[1] < p[2]}
<1>1. Orders(R, S)
  BY DEF Orders
<1>2. \A i \in S : Below(R, S, i) = {j \in S : j < i}
  BY DEF Below
<1> HIDE DEF R
<1>3. \A m \in 1..Cardinality(S) : \E i \in S : Cardinality(Below(R, S, i)) = m - 1
  BY <1>1, RankExists
<1>4. PICK i \in S : Cardinality(Below(R, S, i)) = k - 1
  BY <1>3
<1>5. Rank(S, i) = k - 1
  BY <1>2, <1>4 DEF Rank
<1> QED
  BY <1>5 DEF Nth

LEMMA NthOfInterval ==
  ASSUME NEW n \in Nat, NEW k \in 1..n
  PROVE  Nth(1..n, k) = k
<1>1. \A i \in 1..n : Rank(1..n, i) = i - 1
  <2> TAKE i \in 1..n
  <2>1. {j \in 1..n : j < i} = 1..(i - 1)
    OBVIOUS
  <2>2. Cardinality(1..(i - 1)) = i - 1
    BY FS_Interval
  <2> QED
    BY <2>1, <2>2 DEF Rank
<1> QED
  BY <1>1 DEF Nth

LEMMA KeptIsSeq ==
  ASSUME NEW T, NEW s \in Seq(T), NEW S
  PROVE  /\ Kept(s, S) \in Seq(T)
         /\ \A i \in DOMAIN Kept(s, S) : Kept(s, S)[i] \in S
<1> DEFINE at == {i \in DOMAIN s : s[i] \in S}
           n == Cardinality(at)
<1>1. at \in SUBSET Nat /\ at \subseteq 1..Len(s)
  OBVIOUS
<1>2. IsFiniteSet(at) /\ n \in Nat
  <2> HIDE DEF at
  <2>1. Len(s) \in Nat /\ IsFiniteSet(1..Len(s)) /\ at \in SUBSET (1..Len(s))
    BY <1>1, FS_Interval
  <2>2. IsFiniteSet(at)
    BY <2>1, FS_Subset
  <2> QED
    BY <2>2, FS_CardinalityType DEF n
<1>3. \A k \in 1..n : Nth(at, k) \in at
  BY <1>1, <1>2, NthOfSet
<1>4. Kept(s, S) = [k \in 1..n |-> s[Nth(at, k)]]
  BY DEF Kept
<1>5. \A k \in 1..n : s[Nth(at, k)] \in T /\ s[Nth(at, k)] \in S
  BY <1>3
<1>6. Kept(s, S) \in [1..n -> T]
  BY <1>4, <1>5
<1> HIDE DEF at, n
<1>7. Kept(s, S) \in Seq(T)
  BY <1>6, <1>2, IsASeq
<1> QED
  BY <1>4, <1>5, <1>7

-----------------------------------------------------------------------------
(* Retention: the cut that RecordPlayed makes in memory, after sorting, is *)
(* the one that its SQL makes on disk.                                     *)

Dated(tracks) ==
  /\ DOMAIN tracks \subseteq Nat
  /\ IsFiniteSet(DOMAIN tracks)
  /\ \A t \in DOMAIN tracks : tracks[t].last \in Nat

\* For every library and every Keep, the tracks that leave the list of recent
\* plays are the same whether they are beyond the first Keep of the sorted list
\* (store.go:330-350) or not among the first Keep rows (store.go:319).
THEOREM RetentionAgrees ==
  ASSUME NEW tracks, Dated(tracks)
  PROVE  BeyondKeep(tracks) = Played(tracks) \ RecentRows(tracks)
<1> DEFINE S == Played(tracks)
           R == {p \in S \X S : Before(tracks, p[1], p[2])}
           rank(t) == Cardinality(Earlier(tracks, t))
           n == Cardinality(S)
<1>1. S \in SUBSET DOMAIN tracks /\ S \subseteq Nat /\ \A t \in S : tracks[t].last \in Nat
  BY DEF Played, Dated
<1>2. IsFiniteSet(S) /\ n \in Nat
  BY <1>1, FS_Subset, FS_CardinalityType DEF Dated
<1>3. Orders(R, S)
  BY <1>1 DEF Orders, Before
<1>4. \A t \in S : Below(R, S, t) = Earlier(tracks, t)
  BY DEF Below, Earlier
<1> HIDE DEF R
<1>5. /\ \A t \in S : rank(t) \in 0..(n - 1)
      /\ \A t, u \in S : rank(t) = rank(u) => t = u
      /\ \A k \in 1..n : \E t \in S : rank(t) = k - 1
  BY <1>2, <1>3, <1>4, Ranks
<1> HIDE DEF S, n
<1> DEFINE recent == RecentList(tracks)
<1>6. recent = [k \in 1..n |-> CHOOSE t \in S : rank(t) = k - 1]
  BY DEF RecentList, S, n
<1>7. \A k \in 1..n : recent[k] \in S /\ rank(recent[k]) = k - 1
  BY <1>5, <1>6
<1>8. BeyondKeep(tracks) = {recent[k] : k \in {k \in 1..n : k > Keep}}
  BY <1>6 DEF BeyondKeep
<1> HIDE DEF recent
<1>9. ASSUME NEW t \in BeyondKeep(tracks)
      PROVE  t \in S \ RecentRows(tracks)
  <2>1. PICK k \in 1..n : k > Keep /\ t = recent[k]
    BY <1>8
  <2>2. t \in S /\ rank(t) = k - 1
    BY <2>1, <1>7
  <2>3. ~(rank(t) < Keep)
    BY <2>1, <2>2, <1>2, KeepAssumption
  <2> QED
    BY <2>2, <2>3 DEF RecentRows
<1>10. ASSUME NEW t \in S \ RecentRows(tracks)
       PROVE  t \in BeyondKeep(tracks)
  <2>1. ~(rank(t) < Keep)
    BY DEF RecentRows, S
  <2>2. rank(t) \in 0..(n - 1)
    BY <1>5
  <2> DEFINE k == rank(t) + 1
  <2>3. k \in 1..n /\ k > Keep /\ k - 1 = rank(t)
    BY <2>1, <2>2, <1>2, KeepAssumption
  <2>4. recent[k] = t
    BY <2>3, <1>5, <1>7
  <2> QED
    BY <2>3, <2>4, <1>8
<1> QED
  BY <1>9, <1>10 DEF S

-----------------------------------------------------------------------------
(* What the rows are when they hold a library.                             *)

Credits(lib) ==
  UNION {{t} \X ArtistsOf[lib.separators][t] : t \in DOMAIN lib.tracks}
ItemRows(lists) ==
  UNION {{<<p, lists[p].items[i], i>> : i \in DOMAIN lists[p].items} : p \in DOMAIN lists}

SourceMirrors(kept, sources) ==
  /\ DOMAIN sources \subseteq DOMAIN kept
  /\ DOMAIN kept \subseteq Sources
  /\ \A s \in DOMAIN kept :
       IF s \in DOMAIN sources
       THEN kept[s] = [name |-> sources[s].name, path |-> sources[s].path, active |-> TRUE]
       ELSE kept[s].active = FALSE

IsRows(db) ==
  db = [tracks |-> db.tracks, credits |-> db.credits, sources |-> db.sources,
        lists |-> db.lists, items |-> db.items, rules |-> db.rules, limit |-> db.limit,
        separators |-> db.separators, sessions |-> db.sessions]

Mirrors(db, lib) ==
  /\ IsRows(db)
  /\ db.tracks = lib.tracks
  /\ db.credits = Credits(lib)
  /\ SourceMirrors(db.sources, lib.sources)
  /\ db.lists = [p \in DOMAIN lib.lists |->
                    [name |-> lib.lists[p].name, smart |-> lib.lists[p].smart]]
  /\ db.items = ItemRows(lib.lists)
  /\ db.rules = lib.rules
  /\ db.limit = lib.limit
  /\ db.separators = lib.separators
  /\ db.sessions = lib.sessions

LEMMA ItemsRead ==
  ASSUME NEW db, NEW lib, IsLibrary(lib), Mirrors(db, lib), NEW p \in DOMAIN lib.lists
  PROVE  ItemsOf(db, p) = lib.lists[p].items
<1> DEFINE s == lib.lists[p].items
           n == Len(s)
           of == {r \in db.items : r[1] = p}
           positions == {r[3] : r \in of}
<1>1. s \in Seq(Tracks) /\ n \in Nat /\ DOMAIN s = 1..n
  BY DEF IsLibrary, IsPartial, List
<1>2. \A r : r \in of <=> \E i \in 1..n : r = <<p, s[i], i>>
  BY <1>1 DEF Mirrors, ItemRows
<1>3. ItemsOf(db, p) = [k \in 1..Cardinality(positions) |->
                          (CHOOSE r \in of : r[3] = Nth(positions, k))[2]]
  BY Zenon DEF ItemsOf
<1> HIDE DEF of, s, n
<1>4. positions = 1..n
  <2>1. ASSUME NEW i \in 1..n PROVE \E r \in of : r[3] = i
    <3>1. <<p, s[i], i>> \in of /\ <<p, s[i], i>>[3] = i
      BY <1>2
    <3> QED
      BY <3>1
  <2>2. \A r \in of : r[3] \in 1..n
    BY <1>2
  <2> QED
    BY <2>1, <2>2
<1> HIDE DEF positions
<1>5. Cardinality(1..n) = n
  BY <1>1, FS_Interval
<1>6. ItemsOf(db, p) = [k \in 1..n |-> (CHOOSE r \in of : r[3] = Nth(1..n, k))[2]]
  BY <1>3, <1>4, <1>5
<1>7. ASSUME NEW k \in 1..n
      PROVE  (CHOOSE r \in of : r[3] = Nth(1..n, k))[2] = s[k]
  <2>1. Nth(1..n, k) = k
    BY <1>1, NthOfInterval
  <2>2. <<p, s[k], k>> \in of /\ <<p, s[k], k>>[3] = k
    BY <1>2
  <2>3. \A r \in of : r[3] = k => r = <<p, s[k], k>>
    BY <1>2
  <2>4. (CHOOSE r \in of : r[3] = k) = <<p, s[k], k>>
    BY <2>2, <2>3
  <2> DEFINE row == CHOOSE r \in of : r[3] = Nth(1..n, k)
  <2>5. row = <<p, s[k], k>>
    BY <2>1, <2>4
  <2> HIDE DEF row
  <2>6. row[2] = s[k]
    BY <2>5
  <2> QED
    BY <2>6, Zenon DEF row
<1>8. ItemsOf(db, p) = [k \in 1..n |-> s[k]]
  BY <1>6, <1>7
<1> QED
  BY <1>1, <1>8 DEF s, n

LEMMA MirrorsLoad ==
  ASSUME NEW db, NEW lib, IsLibrary(lib), Mirrors(db, lib)
  PROVE  Load(db) = lib
<1>1. Load(db).sources = lib.sources
  <2>1. {s \in DOMAIN db.sources : db.sources[s].active} = DOMAIN lib.sources
    <3>1. ASSUME NEW s \in DOMAIN db.sources
          PROVE  db.sources[s].active <=> s \in DOMAIN lib.sources
      <4>1. CASE s \in DOMAIN lib.sources
        <5>1. db.sources[s] = [name |-> lib.sources[s].name, path |-> lib.sources[s].path,
                               active |-> TRUE]
          BY <4>1 DEF Mirrors, SourceMirrors
        <5>2. db.sources[s].active = TRUE
          BY <5>1
        <5> QED
          BY <5>2, <4>1
      <4>2. CASE s \notin DOMAIN lib.sources
        <5>1. db.sources[s].active = FALSE
          BY <4>2 DEF Mirrors, SourceMirrors
        <5> QED
          BY <5>1, <4>2
      <4> QED
        BY <4>1, <4>2
    <3>2. DOMAIN lib.sources \subseteq DOMAIN db.sources
      BY DEF Mirrors, SourceMirrors
    <3> QED
      BY <3>1, <3>2
  <2>2. \A s \in DOMAIN lib.sources :
          [name |-> db.sources[s].name, path |-> db.sources[s].path] = lib.sources[s]
    <3> TAKE s \in DOMAIN lib.sources
    <3>1. lib.sources[s] \in Source
      BY DEF IsLibrary, IsPartial
    <3>2. db.sources[s] = [name |-> lib.sources[s].name, path |-> lib.sources[s].path,
                           active |-> TRUE]
      BY DEF Mirrors, SourceMirrors
    <3> QED
      BY <3>1, <3>2 DEF Source
  <2>3. lib.sources = [s \in DOMAIN lib.sources |-> lib.sources[s]]
    BY DEF IsLibrary, IsPartial
  <2> QED
    BY <2>1, <2>2, <2>3 DEF Load
<1>2. Load(db).lists = lib.lists
  <2>1. DOMAIN db.lists = DOMAIN lib.lists
    BY DEF Mirrors
  <2>2. \A p \in DOMAIN lib.lists :
          [name |-> db.lists[p].name, smart |-> db.lists[p].smart,
           items |-> ItemsOf(db, p)] = lib.lists[p]
    <3> TAKE p \in DOMAIN lib.lists
    <3>1. lib.lists[p] \in List
      BY DEF IsLibrary, IsPartial
    <3>2. db.lists[p] = [name |-> lib.lists[p].name, smart |-> lib.lists[p].smart]
      BY DEF Mirrors
    <3>3. ItemsOf(db, p) = lib.lists[p].items
      BY ItemsRead
    <3> QED
      BY <3>1, <3>2, <3>3 DEF List
  <2>3. lib.lists = [p \in DOMAIN lib.lists |-> lib.lists[p]]
    BY DEF IsLibrary, IsPartial
  <2> QED
    BY <2>1, <2>2, <2>3 DEF Load
<1>3. Load(db) = [tracks |-> lib.tracks, sources |-> Load(db).sources,
                  lists |-> Load(db).lists, rules |-> lib.rules, limit |-> lib.limit,
                  separators |-> lib.separators, sessions |-> lib.sessions]
  BY DEF Load, Mirrors
<1> QED
  BY <1>1, <1>2, <1>3 DEF IsLibrary

-----------------------------------------------------------------------------
(* Writing the difference of two libraries turns the rows of the one into  *)
(* the rows of the other.                                                  *)

IsFun(f) == f = [x \in DOMAIN f |-> f[x]]

LEMMA RewrittenIsNew ==
  ASSUME NEW old, NEW new, NEW W, IsFun(old), IsFun(new),
         Changed(old, new) \subseteq W, W \subseteq DOMAIN new
  PROVE  Rewritten(old, new, W, Gone(old, new)) = new
<1> DEFINE r == Rewritten(old, new, W, Gone(old, new))
<1>1. (DOMAIN old \ Gone(old, new)) \cup W = DOMAIN new
  BY DEF Gone, Changed
<1>2. r = [k \in DOMAIN new |-> IF k \in W THEN new[k] ELSE old[k]]
  BY <1>1 DEF Rewritten
<1>3. \A k \in DOMAIN new : k \notin W => old[k] = new[k]
  BY DEF Changed
<1>4. r = [k \in DOMAIN new |-> new[k]]
  BY <1>2, <1>3
<1> QED
  BY <1>4 DEF IsFun

\* What Persist relies on: an edit of the metadata leaves the tracks alone, any
\* other leaves no reference to a track that is gone.
Coherent(old, new, metadata) ==
  /\ metadata => /\ new.tracks = old.tracks
                  /\ new.sessions = old.sessions
                  /\ new.separators = old.separators
  /\ ~metadata =>
       /\ \A s \in new.sessions : s[1] \in DOMAIN new.tracks
       /\ \A p \in DOMAIN new.lists : \A i \in DOMAIN new.lists[p].items :
            new.lists[p].items[i] \in DOMAIN new.tracks

LEMMA SourceRowsMirror ==
  ASSUME NEW db, NEW old, NEW new, NEW written \in SUBSET Tracks, NEW differ,
         IsLibrary(old), IsLibrary(new), Mirrors(db, old)
  PROVE  SourceMirrors(SourceRows(db, old, new, written, differ), new.sources)
<1> DEFINE changed == Changed(old.sources, new.sources)
           gone == Gone(old.sources, new.sources)
           upserted ==
             [s \in DOMAIN db.sources \cup changed |->
               IF s \in changed
               THEN [name |-> new.sources[s].name, path |-> new.sources[s].path,
                     active |-> TRUE]
               ELSE IF s \in gone THEN [db.sources[s] EXCEPT !.active = FALSE]
               ELSE db.sources[s]]
           missing == {SourceOf[t] : t \in written} \ DOMAIN upserted
           all == [s \in DOMAIN upserted \cup missing |->
                     IF s \in missing
                     THEN [name |-> DefaultLimit, path |-> DefaultLimit, active |-> FALSE]
                     ELSE upserted[s]]
           stale == {s \in DOMAIN all : /\ ~all[s].active
                                        /\ \A t \in DOMAIN new.tracks : SourceOf[t] # s}
           right(s, row) ==
             IF s \in DOMAIN new.sources
             THEN row = [name |-> new.sources[s].name, path |-> new.sources[s].path,
                         active |-> TRUE]
             ELSE row.active = FALSE
<1>1. DOMAIN new.sources \subseteq DOMAIN upserted /\ DOMAIN upserted \subseteq Sources
  BY DEF Changed, Mirrors, SourceMirrors, IsLibrary, IsPartial
<1>2. ASSUME NEW s \in DOMAIN upserted PROVE right(s, upserted[s])
  <2>1. CASE s \in changed
    BY <2>1 DEF Changed
  <2>2. CASE s \notin changed /\ s \in DOMAIN new.sources
    <3>1. s \in DOMAIN old.sources /\ old.sources[s] = new.sources[s] /\ s \notin gone
      BY <2>2 DEF Changed, Gone
    <3>2. db.sources[s] = [name |-> new.sources[s].name, path |-> new.sources[s].path,
                           active |-> TRUE]
      BY <3>1 DEF Mirrors, SourceMirrors
    <3>3. upserted[s] = db.sources[s]
      BY <2>2, <3>1
    <3> HIDE DEF upserted
    <3> QED
      BY <2>2, <3>2, <3>3
  <2>3. CASE s \notin DOMAIN new.sources
    <3>1. s \in DOMAIN db.sources /\ s \notin changed
      BY <2>3 DEF Changed
    <3>3. CASE s \in DOMAIN old.sources
      <4>1. db.sources[s] = [name |-> old.sources[s].name, path |-> old.sources[s].path,
                             active |-> TRUE]
        BY <3>1, <3>3 DEF Mirrors, SourceMirrors
      <4>2. upserted[s] = [db.sources[s] EXCEPT !.active = FALSE]
        BY <2>3, <3>1, <3>3 DEF Gone
      <4> HIDE DEF upserted
      <4> QED
        BY <2>3, <4>1, <4>2
    <3>4. CASE s \notin DOMAIN old.sources
      <4>1. db.sources[s].active = FALSE
        BY <3>1, <3>4 DEF Mirrors, SourceMirrors
      <4>2. upserted[s] = db.sources[s]
        BY <3>1, <3>4 DEF Gone
      <4> HIDE DEF upserted
      <4> QED
        BY <2>3, <4>1, <4>2
    <3> QED
      BY <3>3, <3>4
  <2> QED
    BY <2>1, <2>2, <2>3
<1> HIDE DEF upserted
<1>3. missing \subseteq Sources /\ missing \cap DOMAIN new.sources = {}
  BY <1>1, TrackDataAssumption
<1>4. DOMAIN all = DOMAIN upserted \cup missing
  OBVIOUS
<1>5. ASSUME NEW s \in DOMAIN all PROVE right(s, all[s])
  <2>1. CASE s \in missing
    BY <2>1, <1>3
  <2>2. CASE s \notin missing
    BY <2>2, <1>2
  <2> QED
    BY <2>1, <2>2
<1> HIDE DEF all
<1>6. ASSUME NEW s \in DOMAIN new.sources PROVE s \notin stale
  <2>1. s \in DOMAIN all
    BY <1>1, <1>4
  <2>2. all[s] = [name |-> new.sources[s].name, path |-> new.sources[s].path,
                  active |-> TRUE]
    BY <2>1, <1>5
  <2>3. all[s].active = TRUE
    BY <2>2
  <2> QED
    BY <2>3
<1>7. SourceRows(db, old, new, written, differ) = IF differ THEN Drop(all, stale) ELSE all
  BY Zenon DEF SourceRows, all, upserted
<1>8. CASE differ
  <2>1. SourceRows(db, old, new, written, differ) = [s \in DOMAIN all \ stale |-> all[s]]
    BY <1>7, <1>8 DEF Drop
  <2> HIDE DEF stale, right, missing
  <2> QED
    BY <2>1, <1>1, <1>3, <1>4, <1>5, <1>6 DEF right, SourceMirrors
<1>9. CASE ~differ
  BY <1>7, <1>9, <1>1, <1>3, <1>4, <1>5 DEF SourceMirrors
<1> QED
  BY <1>8, <1>9

LEMMA PersistMirrors ==
  ASSUME NEW db, NEW old, NEW new, NEW metadata \in BOOLEAN,
         IsLibrary(old), IsLibrary(new), Mirrors(db, old), Coherent(old, new, metadata)
  PROVE  Mirrors(Persist(db, old, new, metadata), new)
<1> DEFINE respelled == old.separators # new.separators
           written == IF metadata THEN {}
                      ELSE IF respelled THEN DOMAIN new.tracks
                      ELSE Changed(old.tracks, new.tracks)
           removed == IF metadata THEN {} ELSE Gone(old.tracks, new.tracks)
           changed == Changed(old.lists, new.lists)
           dropped == Gone(old.lists, new.lists)
           q == Persist(db, old, new, metadata)
           differ == ~metadata /\ old.tracks # new.tracks
<1>1. /\ IsFun(old.tracks) /\ IsFun(new.tracks)
      /\ IsFun(old.lists) /\ IsFun(new.lists)
      /\ IsFun(old.rules) /\ IsFun(new.rules)
  BY DEF IsFun, IsLibrary, IsPartial
<1>2. written \subseteq DOMAIN new.tracks /\ removed \cap DOMAIN new.tracks = {}
  BY DEF Changed, Gone
<1>3. q.tracks = new.tracks
  <2>1. q.tracks = Rewritten(old.tracks, new.tracks, written, removed)
    BY DEF Persist, Mirrors
  <2>2. CASE metadata
    <3>1. Rewritten(old.tracks, new.tracks, {}, {}) = [k \in DOMAIN old.tracks |-> old.tracks[k]]
      BY DEF Rewritten
    <3> QED
      BY <2>1, <2>2, <3>1, <1>1 DEF IsFun, Coherent
  <2>3. CASE ~metadata
    <3>1. Changed(old.tracks, new.tracks) \subseteq written
      BY <2>3 DEF Changed
    <3>2. removed = Gone(old.tracks, new.tracks)
      BY <2>3
    <3> HIDE DEF written
    <3> QED
      BY <2>1, <3>1, <3>2, <1>1, <1>2, RewrittenIsNew
  <2> QED
    BY <2>2, <2>3
<1>4. q.credits = Credits(new)
  <2>1. q.credits = {c \in Credits(old) : c[1] \notin written \cup removed}
                    \cup UNION {{t} \X ArtistsOf[new.separators][t] : t \in written}
    BY DEF Persist, Mirrors
  <2>2. \A t \in DOMAIN new.tracks \ written :
          t \in DOMAIN old.tracks /\ new.separators = old.separators
    BY DEF Changed, Coherent
  <2>3. \A t \in DOMAIN old.tracks : t \in DOMAIN new.tracks \/ t \in removed
    BY DEF Gone, Coherent
  <2> HIDE DEF written, removed
  <2>4. \A c : c \in Credits(new) <=>
               \E t \in DOMAIN new.tracks : c \in {t} \X ArtistsOf[new.separators][t]
    BY DEF Credits
  <2>5. \A c : c \in Credits(old) <=>
               \E t \in DOMAIN old.tracks : c \in {t} \X ArtistsOf[old.separators][t]
    BY DEF Credits
  <2>6. ASSUME NEW c \in q.credits PROVE c \in Credits(new)
    <3>1. CASE c \in Credits(old) /\ c[1] \notin written \cup removed
      <4>1. PICK t \in DOMAIN old.tracks : c \in {t} \X ArtistsOf[old.separators][t]
        BY <3>1, <2>5
      <4>2. c[1] = t
        BY <4>1
      <4>3. t \in DOMAIN new.tracks \ written
        BY <4>2, <3>1, <2>3
      <4> QED
        BY <4>1, <4>3, <2>2, <2>4
    <3>2. CASE c \in UNION {{t} \X ArtistsOf[new.separators][t] : t \in written}
      BY <3>2, <1>2, <2>4 DEF written
    <3> QED
      BY <2>1, <3>1, <3>2
  <2>7. ASSUME NEW c \in Credits(new) PROVE c \in q.credits
    <3>1. PICK t \in DOMAIN new.tracks : c \in {t} \X ArtistsOf[new.separators][t]
      BY <2>4
    <3>2. c[1] = t
      BY <3>1
    <3>3. CASE t \in written
      BY <3>1, <3>3, <2>1
    <3>4. CASE t \notin written
      <4>1. t \in DOMAIN old.tracks /\ new.separators = old.separators
        BY <3>4, <2>2
      <4>2. c \in Credits(old)
        BY <4>1, <3>1, <2>5
      <4>3. t \notin removed
        BY <1>2 DEF removed
      <4> QED
        BY <4>2, <4>3, <3>2, <3>4, <2>1
    <3> QED
      BY <3>3, <3>4
  <2> QED
    BY <2>6, <2>7
<1>5. q.lists = [p \in DOMAIN new.lists |->
                   [name |-> new.lists[p].name, smart |-> new.lists[p].smart]]
  <2> DEFINE heads(f) == [p \in DOMAIN f |-> [name |-> f[p].name, smart |-> f[p].smart]]
  <2>1. q.lists = Rewritten(heads(old.lists), heads(new.lists), changed, dropped)
    BY DEF Persist, Mirrors
  <2>2. Changed(heads(old.lists), heads(new.lists)) \subseteq changed
    BY DEF Changed
  <2>3. changed \subseteq DOMAIN heads(new.lists)
    BY DEF Changed
  <2>4. dropped = Gone(heads(old.lists), heads(new.lists))
    BY DEF Gone
  <2>5. IsFun(heads(old.lists)) /\ IsFun(heads(new.lists))
    BY DEF IsFun
  <2>6. Rewritten(heads(old.lists), heads(new.lists), changed,
                  Gone(heads(old.lists), heads(new.lists))) = heads(new.lists)
    <3> HIDE DEF heads, changed
    <3> QED
      BY <2>2, <2>3, <2>5, RewrittenIsNew
  <2> QED
    BY <2>1, <2>4, <2>6
<1>6. q.items = ItemRows(new.lists)
  <2>1. q.items = {r \in ItemRows(old.lists) :
                     r[1] \notin changed \cup dropped /\ r[2] \notin removed}
                  \cup UNION {{<<p, new.lists[p].items[i], i>> :
                                  i \in DOMAIN new.lists[p].items} : p \in changed}
    BY DEF Persist, Mirrors
  <2>2. \A p \in DOMAIN new.lists \ changed :
          p \in DOMAIN old.lists /\ old.lists[p] = new.lists[p]
    BY DEF Changed
  <2>3. \A p \in DOMAIN old.lists : p \in DOMAIN new.lists \/ p \in dropped
    BY DEF Gone
  <2>4. \A p \in DOMAIN new.lists : p \notin dropped
    BY DEF Gone
  <2>5. \A p \in DOMAIN new.lists : \A i \in DOMAIN new.lists[p].items :
          new.lists[p].items[i] \notin removed
    BY <1>2 DEF Coherent
  <2>6. changed \subseteq DOMAIN new.lists
    BY DEF Changed
  <2> HIDE DEF changed, dropped, removed
  <2>7. \A r : r \in ItemRows(new.lists) <=>
          \E p \in DOMAIN new.lists : \E i \in DOMAIN new.lists[p].items :
            r = <<p, new.lists[p].items[i], i>>
    BY DEF ItemRows
  <2>8. \A r : r \in ItemRows(old.lists) <=>
          \E p \in DOMAIN old.lists : \E i \in DOMAIN old.lists[p].items :
            r = <<p, old.lists[p].items[i], i>>
    BY DEF ItemRows
  <2>9. ASSUME NEW r \in q.items PROVE r \in ItemRows(new.lists)
    <3>1. CASE r \in ItemRows(old.lists) /\ r[1] \notin changed \cup dropped
      <4>1. PICK p \in DOMAIN old.lists : \E i \in DOMAIN old.lists[p].items :
              r = <<p, old.lists[p].items[i], i>>
        BY <3>1, <2>8
      <4>2. p \in DOMAIN new.lists \ changed
        BY <4>1, <3>1, <2>3
      <4> QED
        BY <4>1, <4>2, <2>2, <2>7
    <3>2. CASE r \in UNION {{<<p, new.lists[p].items[i], i>> :
                                i \in DOMAIN new.lists[p].items} : p \in changed}
      BY <3>2, <2>6, <2>7
    <3> QED
      BY <2>1, <3>1, <3>2
  <2>10. ASSUME NEW r \in ItemRows(new.lists) PROVE r \in q.items
    <3>1. PICK p \in DOMAIN new.lists : \E i \in DOMAIN new.lists[p].items :
            r = <<p, new.lists[p].items[i], i>>
      BY <2>7
    <3>2. CASE p \in changed
      BY <3>1, <3>2, <2>1
    <3>3. CASE p \notin changed
      <4>1. r \in ItemRows(old.lists)
        BY <3>1, <3>3, <2>2, <2>8
      <4>2. PICK i \in DOMAIN new.lists[p].items : r = <<p, new.lists[p].items[i], i>>
        BY <3>1
      <4>3. r[1] = p /\ r[2] = new.lists[p].items[i]
        BY <4>2
      <4> QED
        BY <4>1, <4>3, <3>3, <2>1, <2>4, <2>5
    <3> QED
      BY <3>2, <3>3
  <2> QED
    BY <2>9, <2>10
<1>7. q.rules = new.rules
  <2>1. q.rules = Rewritten(old.rules, new.rules, Changed(old.rules, new.rules),
                            Gone(old.rules, new.rules))
    BY DEF Persist, Mirrors
  <2>2. Changed(old.rules, new.rules) \subseteq DOMAIN new.rules
    BY DEF Changed
  <2> QED
    BY <2>1, <2>2, <1>1, RewrittenIsNew
<1>8. q.limit = new.limit /\ q.separators = new.separators
  BY DEF Persist, Mirrors
<1>9. q.sessions = new.sessions
  <2>1. CASE metadata
    BY <2>1 DEF Persist, Mirrors, Coherent
  <2>2. CASE ~metadata
    <3>1. q.sessions = ({s \in old.sessions : s[1] \notin removed}
                        \cup (new.sessions \ old.sessions)) \ (old.sessions \ new.sessions)
      BY <2>2 DEF Persist, Mirrors
    <3>2. \A s \in new.sessions : s[1] \notin removed
      BY <2>2, <1>2 DEF Coherent
    <3> HIDE DEF removed, q
    <3> QED
      BY <3>1, <3>2
  <2> QED
    BY <2>1, <2>2
<1>10. SourceMirrors(q.sources, new.sources)
  <2>1. q.sources = SourceRows(db, old, new, written, differ)
    BY DEF Persist
  <2>2. written \subseteq Tracks
    BY <1>2 DEF IsLibrary, IsPartial
  <2> HIDE DEF written, differ, q
  <2>3. written \in SUBSET Tracks
    BY <2>2
  <2> QED
    BY <2>1, <2>3, SourceRowsMirror
<1>11. IsRows(q)
  BY DEF IsRows, Persist
<1> HIDE DEF q
<1> QED
  BY <1>3, <1>4, <1>5, <1>6, <1>7, <1>8, <1>9, <1>10, <1>11 DEF Mirrors, q

-----------------------------------------------------------------------------
(* Every request leaves a proper library.                                  *)

LEMMA RequestFields ==
  ASSUME NEW o \in Requests
  PROVE  /\ o.kind \in DirectKinds \cup UpdateKinds \cup MetadataKinds
         /\ o.kind = "favorite" => o.track \in Tracks /\ o.value \in BOOLEAN
         /\ o.kind = "play" => o.track \in Tracks /\ o.session \in PlayIDs /\ o.at \in Nat
         /\ o.kind = "separators" => o.value \in Separators
         /\ o.kind \in {"addSource", "editSource"} =>
              o.source \in Sources /\ o.name \in Values /\ o.path \in Values
         /\ o.kind \in {"createList", "editList"} =>
              o.list \in Lists /\ o.name \in Values /\ o.smart \in BOOLEAN
         /\ o.kind = "addItems" => o.ids \in Seq(Tracks)
         /\ o.kind = "merge" => o.found \in SUBSET Tracks
         /\ o.kind \in {"createRules", "editRules"} => o.rules \in RuleSets /\ o.value \in Values
         /\ o.kind = "limit" => o.value \in Values
BY DEF Requests, DirectKinds, UpdateKinds, MetadataKinds

LEMMA TracksReplaced ==
  ASSUME NEW lib, IsLibrary(lib), NEW f, IsPartial(f, Tracks, Track)
  PROVE  /\ IsLibrary([lib EXCEPT !.tracks = f])
         /\ [lib EXCEPT !.tracks = f].tracks = f
         /\ [lib EXCEPT !.tracks = f].lists = lib.lists
         /\ [lib EXCEPT !.tracks = f].sessions = lib.sessions
BY DEF IsLibrary

LEMMA ListsReplaced ==
  ASSUME NEW lib, IsLibrary(lib), NEW f, IsPartial(f, Lists, List)
  PROVE  /\ IsLibrary([lib EXCEPT !.lists = f])
         /\ [lib EXCEPT !.lists = f].tracks = lib.tracks
         /\ [lib EXCEPT !.lists = f].separators = lib.separators
         /\ [lib EXCEPT !.lists = f].sessions = lib.sessions
BY DEF IsLibrary

LEMMA SourcesReplaced ==
  ASSUME NEW lib, IsLibrary(lib), NEW f, IsPartial(f, Sources, Source)
  PROVE  /\ IsLibrary([lib EXCEPT !.sources = f])
         /\ [lib EXCEPT !.sources = f].tracks = lib.tracks
         /\ [lib EXCEPT !.sources = f].separators = lib.separators
         /\ [lib EXCEPT !.sources = f].sessions = lib.sessions
BY DEF IsLibrary

LEMMA RulesReplaced ==
  ASSUME NEW lib, IsLibrary(lib), NEW f, IsPartial(f, RuleSets, Values)
  PROVE  /\ IsLibrary([lib EXCEPT !.rules = f])
         /\ [lib EXCEPT !.rules = f].tracks = lib.tracks
         /\ [lib EXCEPT !.rules = f].separators = lib.separators
         /\ [lib EXCEPT !.rules = f].sessions = lib.sessions
BY DEF IsLibrary

LEMMA PutIsPartial ==
  ASSUME NEW f, NEW D, NEW R, IsPartial(f, D, R), NEW k \in D, NEW v \in R
  PROVE  IsPartial(Put(f, k, v), D, R)
BY DEF IsPartial, Put

LEMMA DropIsPartial ==
  ASSUME NEW f, NEW D, NEW R, IsPartial(f, D, R), NEW S
  PROVE  IsPartial(Drop(f, S), D, R)
BY DEF IsPartial, Drop

LEMMA ForgottenIsPartial ==
  ASSUME NEW f, IsPartial(f, Tracks, Track), NEW S
  PROVE  /\ IsPartial(Forgotten(f, S), Tracks, Track)
         /\ DOMAIN Forgotten(f, S) = DOMAIN f
         /\ \A t \in DOMAIN f : Forgotten(f, S)[t].count = f[t].count
<1>1. \A t \in DOMAIN f : f[t] \in Track
  BY DEF IsPartial
<1>2. \A t \in DOMAIN f : /\ [f[t] EXCEPT !.last = 0] \in Track
                          /\ [f[t] EXCEPT !.last = 0].count = f[t].count
  BY <1>1 DEF Track
<1> QED
  BY <1>1, <1>2 DEF IsPartial, Forgotten

LEMMA LostIsTrack ==
  ASSUME NEW r \in Track
  PROVE  Lost(r) \in Track /\ Lost(r).count = r.count
BY DEF Track, Lost

LEMMA WithItemsIsList ==
  ASSUME NEW lib, NEW p \in DOMAIN lib.lists, NEW items \in Seq(Tracks), IsLibrary(lib)
  PROVE  \E f : IsPartial(f, Lists, List) /\ WithItems(lib, p, items) = [lib EXCEPT !.lists = f]
<1> DEFINE f == [lib.lists EXCEPT ![p] = [@ EXCEPT !.items = items]]
<1>1. WithItems(lib, p, items) = [lib EXCEPT !.lists = f]
  BY DEF WithItems
<1>2. lib.lists[p] \in List
  BY DEF IsLibrary, IsPartial
<1>3. [lib.lists[p] EXCEPT !.items = items] \in List
  BY <1>2 DEF List
<1>4. IsPartial(f, Lists, List)
  BY <1>3 DEF IsLibrary, IsPartial
<1> QED
  BY <1>1, <1>4

LEMMA MovedIsSeq ==
  ASSUME NEW s \in Seq(Tracks), NEW from \in DOMAIN s, NEW to \in 1..Len(s)
  PROVE  Moved(s, from, to) \in Seq(Tracks)
<1>1. Len(s) \in Nat /\ DOMAIN s = 1..Len(s) /\ \A i \in 1..Len(s) : s[i] \in Tracks
  OBVIOUS
<1>2. Moved(s, from, to) \in [1..Len(s) -> Tracks]
  BY <1>1 DEF Moved
<1> QED
  BY <1>1, <1>2, IsASeq

LEMMA MetadataEdits ==
  ASSUME NEW lib, NEW o \in Requests, IsLibrary(lib), o.kind \in MetadataKinds,
         Permits(lib, o)
  PROVE  /\ IsLibrary(Edited(lib, o))
         /\ Edited(lib, o).tracks = lib.tracks
         /\ Edited(lib, o).separators = lib.separators
         /\ Edited(lib, o).sessions = lib.sessions
<1> DEFINE new == Edited(lib, o)
<1>0. /\ IsPartial(lib.sources, Sources, Source)
      /\ IsPartial(lib.lists, Lists, List)
      /\ IsPartial(lib.rules, RuleSets, Values)
  BY DEF IsLibrary
<1>1. CASE o.kind \in {"addSource", "editSource"}
  <2> DEFINE v == [name |-> o.name, path |-> o.path]
             f == Put(lib.sources, o.source, v)
  <2>1. new = [lib EXCEPT !.sources = f]
    BY <1>1 DEF Edited
  <2>2. v \in Source /\ o.source \in Sources
    BY <1>1, RequestFields DEF Source
  <2> HIDE DEF v
  <2>3. IsPartial(f, Sources, Source)
    BY <2>2, <1>0, PutIsPartial
  <2> HIDE DEF f, new
  <2> QED
    BY <2>1, <2>3, SourcesReplaced DEF new
<1>2. CASE o.kind \in {"createRules", "editRules"}
  <2> DEFINE f == Put(lib.rules, o.rules, o.value)
  <2>1. new = [lib EXCEPT !.rules = f]
    BY <1>2 DEF Edited
  <2>2. o.rules \in RuleSets /\ o.value \in Values
    BY <1>2, RequestFields
  <2>3. IsPartial(f, RuleSets, Values)
    BY <2>2, <1>0, PutIsPartial
  <2> HIDE DEF f, new
  <2> QED
    BY <2>1, <2>3, RulesReplaced DEF new
<1>3. CASE o.kind = "dropRules"
  <2> DEFINE f == Drop(lib.rules, {o.rules})
  <2>1. new = [lib EXCEPT !.rules = f]
    BY <1>3 DEF Edited
  <2>2. IsPartial(f, RuleSets, Values)
    BY <1>0, DropIsPartial
  <2> HIDE DEF f, new
  <2> QED
    BY <2>1, <2>2, RulesReplaced DEF new
<1>4. CASE o.kind = "limit"
  <2>1. new = [lib EXCEPT !.limit = o.value] /\ o.value \in Values
    BY <1>4, RequestFields DEF Edited
  <2> HIDE DEF new
  <2> QED
    BY <2>1 DEF IsLibrary, new
<1>5. CASE o.kind \in {"createList", "editList", "dropList", "addItems", "removeItems",
                      "cleanItems", "moveItem"}
  <2> SUFFICES \E f : IsPartial(f, Lists, List) /\ new = [lib EXCEPT !.lists = f]
    BY ListsReplaced DEF new
  <2>1. CASE o.kind = "createList"
    <3> DEFINE v == [name |-> o.name, smart |-> o.smart, items |-> <<>>]
               f == Put(lib.lists, o.list, v)
    <3>1. new = [lib EXCEPT !.lists = f]
      BY <2>1 DEF Edited
    <3>2. v \in List /\ o.list \in Lists
      BY <2>1, RequestFields DEF List
    <3> HIDE DEF v
    <3>3. IsPartial(f, Lists, List)
      BY <3>2, <1>0, PutIsPartial
    <3> HIDE DEF f, new
    <3> QED
      BY <3>1, <3>3
  <2>2. CASE o.kind = "editList"
    <3> DEFINE f == [lib.lists EXCEPT ![o.list] = [@ EXCEPT !.name = o.name]]
    <3>1. new = [lib EXCEPT !.lists = f]
      BY <2>2 DEF Edited
    <3>2. o.list \in DOMAIN lib.lists /\ o.name \in Values
      BY <2>2, RequestFields DEF Permits
    <3>3. [lib.lists[o.list] EXCEPT !.name = o.name] \in List
      BY <3>2, <1>0 DEF List, IsPartial
    <3>4. IsPartial(f, Lists, List)
      BY <3>3, <1>0 DEF IsPartial
    <3> HIDE DEF f, new
    <3> QED
      BY <3>1, <3>4
  <2>3. CASE o.kind = "dropList"
    <3>1. new = [lib EXCEPT !.lists = Drop(lib.lists, {o.list})]
      BY <2>3 DEF Edited
    <3>2. IsPartial(Drop(lib.lists, {o.list}), Lists, List)
      BY <1>0, DropIsPartial
    <3> HIDE DEF new
    <3> QED
      BY <3>1, <3>2
  <2>4. CASE o.kind \in {"addItems", "removeItems", "cleanItems", "moveItem"}
    <3> DEFINE items == Items(lib, o.list)
    <3>1. o.list \in DOMAIN lib.lists
      BY <2>4 DEF Permits, Editable
    <3>2. items \in Seq(Tracks)
      BY <3>1, <1>0 DEF Items, IsPartial, List
    <3> HIDE DEF items
    <3>3. \E s \in Seq(Tracks) : new = WithItems(lib, o.list, s)
      <4>1. CASE o.kind = "addItems"
        <5>1. new = WithItems(lib, o.list, items \o o.ids)
          BY <4>1 DEF Edited, items
        <5>2. items \o o.ids \in Seq(Tracks)
          BY <4>1, <3>2, RequestFields, ConcatProperties
        <5> QED
          BY <5>1, <5>2
      <4>2. CASE o.kind = "removeItems"
        <5>1. new = WithItems(lib, o.list, Kept(items, Tracks \ o.ids))
          BY <4>2 DEF Edited, items
        <5>2. Kept(items, Tracks \ o.ids) \in Seq(Tracks)
          BY <3>2, KeptIsSeq
        <5> QED
          BY <5>1, <5>2
      <4>3. CASE o.kind = "cleanItems"
        <5>1. new = WithItems(lib, o.list, Kept(items, {t \in Tracks : Live(lib, t)}))
          BY <4>3 DEF Edited, items
        <5>2. Kept(items, {t \in Tracks : Live(lib, t)}) \in Seq(Tracks)
          BY <3>2, KeptIsSeq
        <5> QED
          BY <5>1, <5>2
      <4>4. CASE o.kind = "moveItem"
        <5> DEFINE from == PositionOf(items, o.track)
        <5>1. new = WithItems(lib, o.list, Moved(items, from, o.position))
          BY <4>4 DEF Edited, items
        <5>2. o.position \in 1..Len(items) /\ \E i \in DOMAIN items : items[i] = o.track
          BY <4>4 DEF Permits, Holds, items
        <5>3. from \in DOMAIN items
          BY <5>2 DEF PositionOf
        <5>4. Moved(items, from, o.position) \in Seq(Tracks)
          BY <5>2, <5>3, <3>2, MovedIsSeq
        <5> QED
          BY <5>1, <5>4
      <4> QED
        BY <2>4, <4>1, <4>2, <4>3, <4>4
    <3> HIDE DEF new
    <3> QED
      BY <3>1, <3>3, WithItemsIsList
  <2> QED
    BY <1>5, <2>1, <2>2, <2>3, <2>4
<1> QED
  BY <1>1, <1>2, <1>3, <1>4, <1>5 DEF MetadataKinds

LEMMA UpdateEdits ==
  ASSUME NEW lib, NEW o \in Requests, Proper(lib), o.kind \in UpdateKinds
  PROVE  /\ IsLibrary(Edited(lib, o))
         /\ Accounted(Edited(lib, o))
         /\ Edited(lib, o).sessions = lib.sessions
<1> DEFINE new == Edited(lib, o)
<1>1. /\ IsLibrary(lib) /\ Accounted(lib)
      /\ IsPartial(lib.tracks, Tracks, Track)
      /\ IsPartial(lib.sources, Sources, Source)
  BY DEF Proper, IsLibrary
<1>2. ASSUME NEW e, IsLibrary(e), e.tracks = lib.tracks, e.sessions = lib.sessions
      PROVE  Accounted(e)
  BY <1>1, <1>2 DEF Accounted, SessionsOf
\* A change of tracks that keeps the counts of the known and adds fresh ones.
<1>3. ASSUME NEW e, e.sessions = lib.sessions,
             \A t \in DOMAIN e.tracks :
               IF t \in DOMAIN lib.tracks THEN e.tracks[t].count = lib.tracks[t].count
               ELSE e.tracks[t].count = 0
      PROVE  Accounted(e)
  <2> SUFFICES ASSUME NEW t \in DOMAIN e.tracks
               PROVE  e.tracks[t].count = Cardinality(SessionsOf(e, t))
    BY DEF Accounted
  <2>1. SessionsOf(e, t) = SessionsOf(lib, t)
    BY <1>3 DEF SessionsOf
  <2>2. CASE t \in DOMAIN lib.tracks
    BY <2>1, <2>2, <1>1, <1>3 DEF Accounted
  <2>3. CASE t \notin DOMAIN lib.tracks
    <3>1. SessionsOf(lib, t) = {}
      BY <2>3 DEF SessionsOf, Proper
    <3> QED
      BY <2>1, <2>3, <3>1, <1>3, FS_EmptySet
  <2> QED
    BY <2>2, <2>3
<1>4. CASE o.kind = "separators"
  <2>1. new = [lib EXCEPT !.separators = o.value] /\ o.value \in Separators
    BY <1>4, RequestFields DEF Edited
  <2> HIDE DEF new
  <2>2. IsLibrary(new) /\ new.tracks = lib.tracks /\ new.sessions = lib.sessions
    BY <2>1, <1>1 DEF IsLibrary
  <2> QED
    BY <2>2, <1>2 DEF new
<1>5. CASE o.kind = "forget"
  <2> DEFINE f == Drop(lib.tracks, {o.track})
  <2>1. new = [lib EXCEPT !.tracks = f]
    BY <1>5 DEF Edited
  <2>2. IsPartial(f, Tracks, Track)
    BY <1>1, DropIsPartial
  <2>3. \A t \in DOMAIN f : t \in DOMAIN lib.tracks /\ f[t].count = lib.tracks[t].count
    BY DEF Drop
  <2> HIDE DEF f, new
  <2>4. IsLibrary(new) /\ new.tracks = f /\ new.sessions = lib.sessions
    BY <2>1, <2>2, <1>1, TracksReplaced
  <2> QED
    BY <2>3, <2>4, <1>3 DEF new
<1>6. CASE o.kind = "removeSource"
  <2> DEFINE g == Drop(lib.sources, {o.source})
             f == [t \in DOMAIN lib.tracks |->
                     IF SourceOf[t] = o.source THEN Lost(lib.tracks[t]) ELSE lib.tracks[t]]
             e == [lib EXCEPT !.sources = g]
  <2>1. new = [lib EXCEPT !.sources = g, !.tracks = f]
    BY <1>6 DEF Edited, SourceRemoved
  <2>2. IsPartial(g, Sources, Source)
    BY <1>1, DropIsPartial
  <2>3. \A t \in DOMAIN lib.tracks : f[t] \in Track /\ f[t].count = lib.tracks[t].count
    BY <1>1, LostIsTrack DEF IsPartial
  <2>4. IsPartial(f, Tracks, Track) /\ DOMAIN f = DOMAIN lib.tracks
    BY <2>3, <1>1 DEF IsPartial
  <2> HIDE DEF f, g, new
  <2>5. IsLibrary(e) /\ e.sessions = lib.sessions
    BY <2>2, <1>1, SourcesReplaced
  <2>6. new = [e EXCEPT !.tracks = f]
    BY <2>1
  <2> HIDE DEF e
  <2>7. IsLibrary(new) /\ new.tracks = f /\ new.sessions = lib.sessions
    BY <2>4, <2>5, <2>6, TracksReplaced
  <2> QED
    BY <2>3, <2>4, <2>7, <1>3 DEF new
<1>7. CASE o.kind = "merge"
  <2>1. CASE o.source \notin DOMAIN lib.sources
    <3>1. new = lib
      BY <1>7, <2>1 DEF Edited, Merged
    <3> QED
      BY <3>1, <1>1
  <2>2. CASE o.source \in DOMAIN lib.sources
    <3> DEFINE D == DOMAIN lib.tracks \cup {t \in o.found : SourceOf[t] = o.source}
               f == [t \in D |->
                       IF t \notin DOMAIN lib.tracks THEN Fresh
                       ELSE IF SourceOf[t] = o.source /\ t \notin o.found
                       THEN Lost(lib.tracks[t]) ELSE lib.tracks[t]]
    <3>1. new = [lib EXCEPT !.tracks = f]
      BY <1>7, <2>2 DEF Edited, Merged
    <3>2. D \subseteq Tracks
      BY <1>7, <1>1, RequestFields DEF IsPartial
    <3>3. Fresh \in Track /\ Fresh.count = 0
      BY DEF Fresh, Track
    <3>4. \A t \in D : f[t] \in Track
      BY <3>3, <1>1, LostIsTrack DEF IsPartial
    <3>5. \A t \in D : IF t \in DOMAIN lib.tracks THEN f[t].count = lib.tracks[t].count
                       ELSE f[t].count = 0
      BY <3>3, <1>1, LostIsTrack DEF IsPartial
    <3>6. IsPartial(f, Tracks, Track) /\ DOMAIN f = D
      BY <3>2, <3>4 DEF IsPartial
    <3> HIDE DEF f, D, new
    <3>7. IsLibrary(new) /\ new.tracks = f /\ new.sessions = lib.sessions
      BY <3>1, <3>6, <1>1, TracksReplaced
    <3> QED
      BY <3>5, <3>6, <3>7, <1>3 DEF new
  <2> QED
    BY <2>1, <2>2
<1> QED
  BY <1>4, <1>5, <1>6, <1>7 DEF UpdateKinds

LEMMA TidiedIsProper ==
  ASSUME NEW lib, IsLibrary(lib), Accounted(lib), IsFiniteSet(lib.sessions)
  PROVE  /\ Proper(Tidied(lib))
         /\ \A s \in Tidied(lib).sessions : s[1] \in DOMAIN Tidied(lib).tracks
         /\ \A p \in DOMAIN Tidied(lib).lists :
              \A i \in DOMAIN Tidied(lib).lists[p].items :
                Tidied(lib).lists[p].items[i] \in DOMAIN Tidied(lib).tracks
<1> DEFINE f == [p \in DOMAIN lib.lists |->
                  [lib.lists[p] EXCEPT !.items = Kept(@, DOMAIN lib.tracks)]]
           S == {s \in lib.sessions : s[1] \in DOMAIN lib.tracks}
           new == Tidied(lib)
           e == [lib EXCEPT !.lists = f]
<1>1. new = [lib EXCEPT !.lists = f, !.sessions = S]
  BY DEF Tidied
<1>2. ASSUME NEW p \in DOMAIN lib.lists
      PROVE  /\ f[p] \in List
             /\ \A i \in DOMAIN f[p].items : f[p].items[i] \in DOMAIN lib.tracks
  <2> DEFINE items == lib.lists[p].items
             kept == Kept(items, DOMAIN lib.tracks)
  <2>1. lib.lists[p] \in List
    BY DEF IsLibrary, IsPartial
  <2>2. items \in Seq(Tracks)
    BY <2>1 DEF List
  <2>3. kept \in Seq(Tracks) /\ \A i \in DOMAIN kept : kept[i] \in DOMAIN lib.tracks
    <3> HIDE DEF items
    <3> QED
      BY <2>2, KeptIsSeq
  <2>4. f[p] = [lib.lists[p] EXCEPT !.items = kept]
    OBVIOUS
  <2> HIDE DEF kept, f
  <2>5. f[p].items = kept /\ f[p] \in List
    BY <2>1, <2>3, <2>4 DEF List
  <2> QED
    BY <2>3, <2>5
<1>3. IsPartial(f, Lists, List) /\ DOMAIN f = DOMAIN lib.lists
  BY <1>2 DEF IsPartial, IsLibrary
<1> HIDE DEF f
<1>4. IsLibrary(e) /\ e.lists = f
  BY <1>3 DEF IsLibrary
<1>5. new = [e EXCEPT !.sessions = S]
  BY <1>1
<1>6. S \subseteq lib.sessions /\ S \subseteq Tracks \X PlayIDs /\ IsFiniteSet(S)
  BY FS_Subset DEF IsLibrary
<1> HIDE DEF new, S
<1>7. IsLibrary(new) /\ new.tracks = lib.tracks /\ new.sessions = S /\ new.lists = f
  BY <1>1, <1>3, <1>6 DEF IsLibrary
<1>8. \A s \in S : s[1] \in DOMAIN lib.tracks
  BY DEF S
<1>9. \A t \in DOMAIN lib.tracks : SessionsOf(new, t) = SessionsOf(lib, t)
  BY <1>7 DEF SessionsOf, S
<1>10. Accounted(new)
  BY <1>7, <1>9 DEF Accounted
<1> QED
  BY <1>2, <1>3, <1>6, <1>7, <1>8, <1>10 DEF Proper, new

LEMMA TracksMirror ==
  ASSUME NEW db, NEW lib, NEW f, NEW S \in SUBSET (Tracks \X PlayIDs),
         IsLibrary(lib), Mirrors(db, lib), IsPartial(f, Tracks, Track),
         DOMAIN f = DOMAIN lib.tracks
  PROVE  /\ IsLibrary([lib EXCEPT !.tracks = f, !.sessions = S])
         /\ Mirrors([db EXCEPT !.tracks = f, !.sessions = S],
                    [lib EXCEPT !.tracks = f, !.sessions = S])
<1> DEFINE l1 == [lib EXCEPT !.tracks = f]
           d1 == [db EXCEPT !.tracks = f]
           l == [l1 EXCEPT !.sessions = S]
           d == [d1 EXCEPT !.sessions = S]
<1>1. /\ IsLibrary(l1) /\ l1.tracks = f /\ l1.sources = lib.sources /\ l1.lists = lib.lists
      /\ l1.rules = lib.rules /\ l1.limit = lib.limit /\ l1.separators = lib.separators
  BY DEF IsLibrary
<1>2. IsRows(db)
  BY DEF Mirrors
<1>3. /\ IsRows(d1) /\ d1.tracks = f /\ d1.credits = db.credits
      /\ d1.sources = db.sources /\ d1.lists = db.lists /\ d1.items = db.items
      /\ d1.rules = db.rules /\ d1.limit = db.limit /\ d1.separators = db.separators
  BY <1>2 DEF IsRows
<1>4. l = [lib EXCEPT !.tracks = f, !.sessions = S] /\ d = [db EXCEPT !.tracks = f, !.sessions = S]
  OBVIOUS
<1> HIDE DEF l1, d1
<1>5. /\ IsLibrary(l) /\ l.tracks = f /\ l.sources = lib.sources /\ l.lists = lib.lists
      /\ l.rules = lib.rules /\ l.limit = lib.limit /\ l.separators = lib.separators
      /\ l.sessions = S
  BY <1>1 DEF IsLibrary
<1>6. /\ IsRows(d) /\ d.tracks = f /\ d.credits = db.credits
      /\ d.sources = db.sources /\ d.lists = db.lists /\ d.items = db.items
      /\ d.rules = db.rules /\ d.limit = db.limit /\ d.separators = db.separators
      /\ d.sessions = S
  BY <1>3 DEF IsRows
<1> HIDE DEF l, d
<1>7. Credits(l) = Credits(lib)
  BY <1>5 DEF Credits
<1>8. Mirrors(d, l)
  BY <1>5, <1>6, <1>7 DEF Mirrors
<1> QED
  BY <1>4, <1>5, <1>8

LEMMA DirectEdits ==
  ASSUME NEW db, NEW lib, NEW o \in Requests, Proper(lib), Mirrors(db, lib),
         o.kind \in DirectKinds, Permits(lib, o),
         o.kind = "play" => PlayCounts(lib, o)
  PROVE  /\ Proper(After(lib, o))
         /\ DOMAIN After(lib, o).tracks = DOMAIN lib.tracks
         /\ Mirrors(RowsAfter(db, lib, After(lib, o), o), After(lib, o))
<1> DEFINE new == After(lib, o)
           q == RowsAfter(db, lib, new, o)
<1>1. /\ IsLibrary(lib) /\ Accounted(lib) /\ IsFiniteSet(lib.sessions)
      /\ IsPartial(lib.tracks, Tracks, Track)
      /\ lib.sessions \in SUBSET (Tracks \X PlayIDs)
      /\ \A s \in lib.sessions : s[1] \in DOMAIN lib.tracks
  BY DEF Proper, IsLibrary
<1>2. \A t \in DOMAIN lib.tracks : lib.tracks[t] \in Track /\ lib.tracks[t].count \in Nat
  BY <1>1 DEF IsPartial, Track
<1>3. db.tracks = lib.tracks /\ db.sessions = lib.sessions /\ IsRows(db)
  BY DEF Mirrors
\* It is enough to find what both become.
<1>4. ASSUME NEW f, NEW S, IsPartial(f, Tracks, Track), DOMAIN f = DOMAIN lib.tracks,
             S \in SUBSET (Tracks \X PlayIDs), IsFiniteSet(S),
             \A s \in S : s[1] \in DOMAIN f,
             \A t \in DOMAIN f : f[t].count = Cardinality({s \in S : s[1] = t}),
             new = [lib EXCEPT !.tracks = f, !.sessions = S],
             q = [db EXCEPT !.tracks = f, !.sessions = S]
      PROVE  Proper(new) /\ DOMAIN new.tracks = DOMAIN lib.tracks /\ Mirrors(q, new)
  <2> HIDE DEF new, q
  <2>1. IsLibrary(new) /\ Mirrors(q, new)
    BY <1>1, <1>4, TracksMirror
  <2>2. new.tracks = f /\ new.sessions = S
    BY <1>1, <1>4 DEF IsLibrary
  <2>3. Accounted(new)
    BY <2>2, <1>4 DEF Accounted, SessionsOf
  <2> QED
    BY <2>1, <2>2, <2>3, <1>4 DEF Proper
<1>5. lib.sessions = lib.sessions /\ \A t \in DOMAIN lib.tracks :
        lib.tracks[t].count = Cardinality({s \in lib.sessions : s[1] = t})
  BY <1>1 DEF Accounted, SessionsOf
<1>6. CASE o.kind = "favorite"
  <2> DEFINE r == [lib.tracks[o.track] EXCEPT !.favorite = o.value]
             f == [lib.tracks EXCEPT ![o.track] = r]
  <2>1. o.track \in DOMAIN lib.tracks /\ o.value \in BOOLEAN
    BY <1>6, RequestFields DEF Permits, Live
  <2>2. r \in Track /\ r.count = lib.tracks[o.track].count
    BY <2>1, <1>2 DEF Track
  <2>3. new = [lib EXCEPT !.tracks = f]
    BY <1>6 DEF After, Edited, UpdateKinds
  <2>4. q = [db EXCEPT !.tracks = f]
    BY <1>6, <1>3 DEF RowsAfter
  <2> HIDE DEF r, q, new
  <2>5. IsPartial(f, Tracks, Track) /\ DOMAIN f = DOMAIN lib.tracks
        /\ \A t \in DOMAIN f : f[t].count = lib.tracks[t].count
    BY <2>2, <1>1 DEF IsPartial
  <2> HIDE DEF f
  <2>6. new = [lib EXCEPT !.tracks = f, !.sessions = lib.sessions]
    BY <2>3, <1>1 DEF IsLibrary
  <2>7. q = [db EXCEPT !.tracks = f, !.sessions = lib.sessions]
    BY <2>4, <1>3 DEF IsRows
  <2> QED
    BY <2>5, <2>6, <2>7, <1>1, <1>4, <1>5 DEF q, new
<1>7. CASE o.kind = "clear"
  <2> DEFINE f == Forgotten(lib.tracks, DOMAIN lib.tracks)
  <2>1. new = [lib EXCEPT !.tracks = f]
    BY <1>7 DEF After, Edited, UpdateKinds
  <2>2. q = [db EXCEPT !.tracks = Forgotten(lib.tracks, Played(lib.tracks))]
    BY <1>7, <1>3 DEF RowsAfter
  <2>3. Forgotten(lib.tracks, Played(lib.tracks)) = f
    <3>1. ASSUME NEW t \in DOMAIN lib.tracks, t \notin Played(lib.tracks)
          PROVE  [lib.tracks[t] EXCEPT !.last = 0] = lib.tracks[t]
      <4>1. lib.tracks[t] \in Track /\ lib.tracks[t].last = 0
        BY <3>1, <1>2 DEF Played, Track
      <4> QED
        BY <4>1 DEF Track
    <3>2. Played(lib.tracks) \subseteq DOMAIN lib.tracks
      BY DEF Played
    <3> QED
      BY <3>1, <3>2 DEF Forgotten
  <2>4. IsPartial(f, Tracks, Track) /\ DOMAIN f = DOMAIN lib.tracks
        /\ \A t \in DOMAIN f : f[t].count = lib.tracks[t].count
    BY <1>1, ForgottenIsPartial
  <2> HIDE DEF f, q, new
  <2>5. new = [lib EXCEPT !.tracks = f, !.sessions = lib.sessions]
    BY <2>1, <1>1 DEF IsLibrary
  <2>6. q = [db EXCEPT !.tracks = f, !.sessions = lib.sessions]
    BY <2>2, <2>3, <1>3 DEF IsRows
  <2> QED
    BY <2>4, <2>5, <2>6, <1>1, <1>4, <1>5 DEF q, new
<1>8. CASE o.kind = "play"
  <2> DEFINE r == [[lib.tracks[o.track] EXCEPT !.count = @ + 1] EXCEPT !.last = o.at]
             heard == [lib.tracks EXCEPT ![o.track] = r]
             f == Forgotten(heard, BeyondKeep(heard))
             pair == <<o.track, o.session>>
             S == lib.sessions \cup {pair}
  <2>1. o.track \in DOMAIN lib.tracks /\ o.track \in Tracks /\ o.session \in PlayIDs /\ o.at \in Nat
    BY <1>8, RequestFields DEF Permits, Live
  <2>2. r \in Track /\ r.count = lib.tracks[o.track].count + 1
    <3> DEFINE was == lib.tracks[o.track]
               more == [was EXCEPT !.count = @ + 1]
    <3>1. was \in Track
      BY <2>1, <1>2
    <3> HIDE DEF was
    <3>2. more \in Track /\ more.count = was.count + 1
      BY <3>1 DEF Track
    <3>3. r = [more EXCEPT !.last = o.at]
      BY DEF was
    <3> HIDE DEF more
    <3> QED
      BY <3>2, <3>3, <2>1 DEF Track, was
  <2>3. heard = [lib.tracks EXCEPT ![o.track].count = @ + 1, ![o.track].last = o.at]
    BY <2>1
  <2>4. new = [lib EXCEPT !.tracks = f, !.sessions = S]
    BY <1>8, <2>3 DEF After, Edited, AfterPlay, UpdateKinds
  <2>5. q = [db EXCEPT !.tracks = Forgotten(heard, Played(heard) \ RecentRows(heard)),
                       !.sessions = S]
    BY <1>8, <2>3, <1>3 DEF RowsAfter, PlayRows
  <2> HIDE DEF r
  <2>6. /\ IsPartial(heard, Tracks, Track) /\ DOMAIN heard = DOMAIN lib.tracks
        /\ heard[o.track].count = lib.tracks[o.track].count + 1
        /\ \A t \in DOMAIN heard \ {o.track} : heard[t].count = lib.tracks[t].count
    BY <2>1, <2>2, <1>1 DEF IsPartial
  <2> HIDE DEF heard, q, new
  <2>7. Dated(heard)
    BY <2>6, TracksAssumption, FS_Subset DEF Dated, IsPartial, Track
  <2>8. Played(heard) \ RecentRows(heard) = BeyondKeep(heard)
    BY <2>7, RetentionAgrees
  <2>9. q = [db EXCEPT !.tracks = f, !.sessions = S]
    BY <2>5, <2>8
  <2>10. IsPartial(f, Tracks, Track) /\ DOMAIN f = DOMAIN heard
         /\ \A t \in DOMAIN heard : f[t].count = heard[t].count
    BY <2>6, ForgottenIsPartial
  <2> HIDE DEF f
  <2>11. /\ S \in SUBSET (Tracks \X PlayIDs)
         /\ IsFiniteSet(S)
         /\ \A s \in S : s[1] \in DOMAIN f
    <3>1. pair \in Tracks \X PlayIDs /\ pair[1] = o.track
      BY <2>1
    <3> HIDE DEF pair
    <3>2. IsFiniteSet(S)
      BY <1>1, FS_AddElement
    <3> QED
      BY <2>1, <2>6, <2>10, <1>1, <3>1, <3>2
  <2>12. pair \notin lib.sessions
    BY <1>8 DEF PlayCounts
  <2>13. \A t \in DOMAIN f : f[t].count = Cardinality({s \in S : s[1] = t})
    <3> SUFFICES ASSUME NEW t \in DOMAIN f
                 PROVE  f[t].count = Cardinality({s \in S : s[1] = t})
      OBVIOUS
    <3> DEFINE before == {s \in lib.sessions : s[1] = t}
    <3>1. IsFiniteSet(before) /\ lib.tracks[t].count = Cardinality(before)
      BY <2>6, <2>10, <1>1, <1>5, FS_Subset
    <3>2. CASE t = o.track
      <4>1. {s \in S : s[1] = t} = before \cup {pair} /\ pair \notin before
        BY <3>2, <2>12
      <4> HIDE DEF before
      <4>2. Cardinality(before \cup {pair}) = Cardinality(before) + 1
        BY <3>1, <4>1, FS_AddElement
      <4> QED
        BY <3>1, <3>2, <4>1, <4>2, <2>6, <2>10
    <3>3. CASE t # o.track
      <4>1. {s \in S : s[1] = t} = before
        BY <3>3
      <4> QED
        BY <3>1, <3>3, <4>1, <2>6, <2>10
    <3> QED
      BY <3>2, <3>3
  <2> HIDE DEF S
  <2> QED
    BY <2>4, <2>6, <2>9, <2>10, <2>11, <2>13, <1>4 DEF q, new
<1> QED
  BY <1>6, <1>7, <1>8 DEF DirectKinds

LEMMA AnyEdit ==
  ASSUME NEW db, NEW lib, NEW o \in Requests, Proper(lib), Mirrors(db, lib),
         Permits(lib, o), o.kind = "play" => PlayCounts(lib, o)
  PROVE  /\ Proper(After(lib, o))
         /\ Mirrors(RowsAfter(db, lib, After(lib, o), o), After(lib, o))
         /\ o.kind \notin UpdateKinds => DOMAIN After(lib, o).tracks = DOMAIN lib.tracks
<1> DEFINE new == After(lib, o)
<1>1. CASE o.kind \in DirectKinds
  BY <1>1, DirectEdits
<1>2. CASE o.kind \in UpdateKinds
  <2> DEFINE e == Edited(lib, o)
  <2>1. new = Tidied(e)
    BY <1>2 DEF After
  <2>2. IsLibrary(e) /\ Accounted(e) /\ IsFiniteSet(e.sessions)
    BY <1>2, UpdateEdits DEF Proper
  <2> HIDE DEF e
  <2>3. Proper(new) /\ Coherent(lib, new, FALSE)
    BY <2>1, <2>2, TidiedIsProper DEF Coherent
  <2>4. RowsAfter(db, lib, new, o) = Persist(db, lib, new, FALSE)
    <3>1. RowsAfter(db, lib, new, o) = Persist(db, lib, new, o.kind \in MetadataKinds)
      BY <1>2 DEF RowsAfter, UpdateKinds
    <3>2. (o.kind \in MetadataKinds) = FALSE
      BY <1>2 DEF UpdateKinds, MetadataKinds
    <3> QED
      BY <3>1, <3>2
  <2> HIDE DEF new
  <2>5. IsLibrary(lib) /\ IsLibrary(new)
    BY <2>3 DEF Proper
  <2>6. Mirrors(Persist(db, lib, new, FALSE), new)
    BY <2>3, <2>5, PersistMirrors
  <2> QED
    BY <1>2, <2>3, <2>4, <2>6 DEF new
<1>3. CASE o.kind \in MetadataKinds
  <2>1. new = Edited(lib, o)
    BY <1>3 DEF After, UpdateKinds, MetadataKinds
  <2>2. /\ IsLibrary(new) /\ new.tracks = lib.tracks
        /\ new.separators = lib.separators /\ new.sessions = lib.sessions
    BY <1>3, <2>1, MetadataEdits DEF Proper
  <2>3. RowsAfter(db, lib, new, o) = Persist(db, lib, new, TRUE)
    BY <1>3 DEF RowsAfter, MetadataKinds
  <2> HIDE DEF new
  <2>4. Proper(new) /\ Coherent(lib, new, TRUE)
    BY <2>2 DEF Proper, Accounted, SessionsOf, Coherent
  <2>5. Mirrors(Persist(db, lib, new, TRUE), new)
    BY <2>2, <2>4, PersistMirrors DEF Proper
  <2> QED
    BY <2>2, <2>3, <2>4, <2>5 DEF new
<1> QED
  BY <1>1, <1>2, <1>3, RequestFields

LEMMA NoOpIsNoRequest == NoOp \notin Requests
BY RequestFields DEF NoOp, DirectKinds, UpdateKinds, MetadataKinds

LEMMA IdempotentIsNoEdit ==
  ASSUME NEW lib, NEW o \in Requests, Proper(lib), Permits(lib, o),
         \/ o.kind = "favorite" /\ lib.tracks[o.track].favorite = o.value
         \/ o.kind = "play" /\ ~PlayCounts(lib, o)
  PROVE  After(lib, o) = lib
<1>1. CASE o.kind = "play"
  BY <1>1 DEF After, Edited, UpdateKinds
<1>2. CASE o.kind = "favorite"
  <2> DEFINE row == lib.tracks[o.track]
  <2>1. o.track \in DOMAIN lib.tracks
    BY <1>2 DEF Permits, Live
  <2>2. row \in Track /\ row.favorite = o.value
    BY <1>2, <2>1 DEF Proper, IsLibrary, IsPartial
  <2> DEFINE r == [row EXCEPT !.favorite = o.value]
             f == [lib.tracks EXCEPT ![o.track] = r]
  <2>3. After(lib, o) = [lib EXCEPT !.tracks = f]
    BY <1>2 DEF After, Edited, UpdateKinds
  <2>4. r = row
    <3> HIDE DEF row
    <3> QED
      BY <2>2 DEF Track
  <2> HIDE DEF r
  <2>5. f = lib.tracks
    BY <2>1, <2>4 DEF Proper, IsLibrary, IsPartial
  <2> HIDE DEF f
  <2>6. After(lib, o) = [lib EXCEPT !.tracks = lib.tracks]
    BY <2>3, <2>5
  <2>7. [lib EXCEPT !.tracks = lib.tracks] = lib
    BY DEF Proper, IsLibrary
  <2> QED
    BY <2>6, <2>7
<1> QED
  BY <1>1, <1>2

-----------------------------------------------------------------------------
(* The inductive invariant: the rows hold the library of the writer that   *)
(* committed last, and what a writer under way will publish is the effect  *)
(* of its request on what is published now.                                *)

Holding == {"written", "committed"}

Typed ==
  /\ \A o \in requests : o \in Requests
  /\ lock \in Writers \cup {Nobody}
  /\ pc \in [Writers -> {"idle", "waiting", "written", "committed", "answered"}]
  /\ op \in [Writers -> Requests \cup {NoOp}]
  /\ answer \in [Writers -> {"none", "ok", "refused", "failed"}]

Protocol ==
  \A w \in Writers :
    /\ pc[w] \in Holding <=> lock = w
    /\ pc[w] = "idle" <=> op[w] = NoOp
    /\ pc[w] = "answered" <=> answer[w] # "none"

Pending(w) ==
  /\ Permits(memory, op[w])
  /\ next = After(memory, op[w])
  /\ Proper(next)
  /\ Mirrors(rows, next)
  /\ op[w].kind \notin UpdateKinds => DOMAIN next.tracks = DOMAIN memory.tracks

Contents ==
  /\ Proper(memory)
  /\ index = DOMAIN memory.tracks
  /\ \A w \in Writers :
       /\ pc[w] \in Holding => Pending(w)
       /\ pc[w] = "committed" => Mirrors(database, next)
  /\ ~Committed => Mirrors(database, memory)

IInv == Typed /\ Protocol /\ Contents

LEMMA InitIInv == Init => IInv
<1> SUFFICES ASSUME Init PROVE IInv
  OBVIOUS
<1>1. PICK lib \in Seeds : database = Persist(EmptyRows, Empty, lib, FALSE)
  BY DEF Init
<1>2. Proper(lib) /\ Tidied(lib) = lib
  BY SeedsAssumption
<1>3. IsLibrary(Empty)
  BY DefaultsAssumption DEF Empty, IsLibrary, IsPartial, NoEntries
<1>4. Mirrors(EmptyRows, Empty)
  BY DEF Mirrors, SourceMirrors, IsRows, EmptyRows, Empty, NoEntries, Credits, ItemRows
<1>5. Coherent(Empty, lib, FALSE)
  BY <1>2, TidiedIsProper DEF Coherent, Proper
<1>6. Mirrors(database, lib)
  BY <1>1, <1>2, <1>3, <1>4, <1>5, PersistMirrors DEF Proper
<1>7. memory = lib
  BY <1>2, <1>6, MirrorsLoad DEF Init, Proper
<1>8. Typed
  BY ScenariosAssumption DEF Init, Typed
<1>9. Protocol
  BY NoOpIsNoRequest, WritersAssumption DEF Init, Protocol, Holding, Nobody
<1>10. Contents
  BY <1>2, <1>6, <1>7 DEF Init, Contents, Committed, Holding
<1> QED
  BY <1>8, <1>9, <1>10 DEF IInv

LEMMA PlayAtIsRequest ==
  ASSUME NEW o \in Requests, o.kind = "play", NEW at \in Times
  PROVE  [o EXCEPT !.at = at] \in Requests
<1>1. o \in [kind: {"play"}, track: Tracks, session: PlayIDs, report: Report, at: Nat]
  BY DEF Requests
<1>2. [o EXCEPT !.at = at] \in [kind: {"play"}, track: Tracks, session: PlayIDs, report: Report, at: Nat]
  BY <1>1, TimesAssumption
<1> QED
  BY <1>2 DEF Requests

LEMMA CallAsks ==
  ASSUME Typed, NEW w \in Writers, Call(w)
  PROVE  \E o \in Requests : op' = [op EXCEPT ![w] = o]
<1>1. PICK o \in requests :
        IF o.kind = "play"
        THEN \E at \in Times : op' = [op EXCEPT ![w] = [o EXCEPT !.at = at]]
        ELSE op' = [op EXCEPT ![w] = o]
  BY DEF Call
<1>2. o \in Requests
  BY DEF Typed
<1>3. CASE o.kind = "play"
  <2>1. PICK at \in Times : op' = [op EXCEPT ![w] = [o EXCEPT !.at = at]]
    BY <1>1, <1>3
  <2>2. [o EXCEPT !.at = at] \in Requests
    BY <1>2, <1>3, PlayAtIsRequest
  <2> QED
    BY <2>1, <2>2
<1>4. CASE o.kind # "play"
  BY <1>1, <1>2, <1>4
<1> QED
  BY <1>3, <1>4

LEMMA HolderIsAlone ==
  ASSUME Typed, Protocol, NEW w \in Writers, NEW v \in Writers,
         pc[w] \in Holding, pc[v] \in Holding
  PROVE  v = w
BY DEF Protocol

LEMMA NobodyWrites ==
  ASSUME Typed, Protocol, lock = Nobody
  PROVE  ~Committed /\ \A w \in Writers : pc[w] \notin Holding
BY WritersAssumption DEF Protocol, Committed, Holding, Nobody

\* What a restart finds on disk.
LEMMA Reloaded ==
  ASSUME IInv
  PROVE  /\ Committed => Load(database) = next /\ Mirrors(database, next) /\ Proper(next)
         /\ ~Committed => Load(database) = memory /\ Mirrors(database, memory)
<1>1. CASE Committed
  <2>1. PICK w \in Writers : pc[w] = "committed"
    BY <1>1 DEF Committed
  <2>2. Mirrors(database, next) /\ Proper(next)
    BY <2>1 DEF IInv, Contents, Pending, Holding
  <2> QED
    BY <1>1, <2>2, MirrorsLoad DEF Proper
<1>2. CASE ~Committed
  <2>1. Mirrors(database, memory) /\ Proper(memory)
    BY <1>2 DEF IInv, Contents
  <2> QED
    BY <1>2, <2>1, MirrorsLoad DEF Proper
<1> QED
  BY <1>1, <1>2

LEMMA NextIInv == IInv /\ [Next]_vars => IInv'
<1> SUFFICES ASSUME IInv, [Next]_vars PROVE IInv'
  OBVIOUS
<1> USE DEF IInv
<1>1. ASSUME NEW w \in Writers, Call(w) PROVE IInv'
  <2>1. PICK o \in Requests : op' = [op EXCEPT ![w] = o]
    BY <1>1, CallAsks
  <2>2. pc[w] = "idle" /\ pc' = [pc EXCEPT ![w] = "waiting"]
    BY <1>1 DEF Call
  <2>3. UNCHANGED <<requests, memory, index, database, lock, answer, next, rows>>
    BY <1>1 DEF Call
  <2>4. Typed'
    BY <2>1, <2>2, <2>3 DEF Typed
  <2>5. Protocol'
    BY <2>1, <2>2, <2>3, NoOpIsNoRequest DEF Typed, Protocol, Holding
  <2>6. Committed' = Committed
    BY <2>2 DEF Committed, Typed
  <2>7. Contents'
    BY <2>1, <2>2, <2>3, <2>6 DEF Contents, Typed, Holding, Pending
  <2> QED
    BY <2>4, <2>5, <2>7
<1>2. ASSUME NEW w \in Writers, Write(w) PROVE IInv'
  <2>1. pc[w] = "waiting" /\ lock = Nobody /\ op[w] \in Requests
    BY <1>2 DEF Write, Typed, Protocol
  <2>2. UNCHANGED <<requests, memory, index, database, op>>
    BY <1>2 DEF Write
  <2>3. ~Committed /\ \A v \in Writers : pc[v] \notin Holding
    BY <2>1, NobodyWrites
  <2>4. CASE \E what \in {"ok", "refused"} :
               Answer(w, what) /\ UNCHANGED <<lock, next, rows>>
    <3>1. PICK what \in {"ok", "refused"} :
               Answer(w, what) /\ UNCHANGED <<lock, next, rows>>
      BY <2>4
    <3>2. Typed'
      BY <2>2, <3>1 DEF Typed, Answer
    <3>3. Protocol'
      BY <2>1, <2>2, <3>1 DEF Typed, Protocol, Answer, Holding
    <3>4. ~Committed' /\ \A v \in Writers : pc'[v] \notin Holding
      BY <2>3, <3>1 DEF Typed, Answer, Committed, Holding
    <3>5. Contents'
      BY <2>2, <2>3, <3>1, <3>4 DEF Contents, Holding
    <3> QED
      BY <3>2, <3>3, <3>5
  <2>5. CASE /\ Permits(memory, op[w]) /\ ~Idempotent(op[w])
             /\ lock' = w
             /\ next' = After(memory, op[w])
             /\ rows' = RowsAfter(database, memory, next', op[w])
             /\ pc' = [pc EXCEPT ![w] = "written"]
             /\ UNCHANGED answer
    <3>1. Typed'
      BY <2>2, <2>5 DEF Typed
    <3>2. Protocol'
      BY <2>1, <2>2, <2>3, <2>5, WritersAssumption DEF Typed, Protocol, Holding
    <3>3. op[w].kind = "play" => PlayCounts(memory, op[w])
      BY <2>5 DEF Idempotent
    <3>4. Mirrors(database, memory) /\ Proper(memory)
      BY <2>3 DEF Contents
    <3>5. Pending(w)'
      BY <2>1, <2>2, <2>5, <3>3, <3>4, AnyEdit DEF Pending
    <3>6. ~Committed' /\ \A v \in Writers : pc'[v] \in Holding => v = w
      BY <2>3, <2>5 DEF Typed, Committed, Holding
    <3>7. Contents'
      BY <2>2, <2>5, <3>4, <3>5, <3>6 DEF Contents, Committed
    <3> QED
      BY <3>1, <3>2, <3>7
  <2> QED
    BY <1>2, <2>4, <2>5 DEF Write
<1>3. ASSUME NEW w \in Writers, Commit(w) PROVE IInv'
  <2>1. pc[w] = "written" /\ pc' = [pc EXCEPT ![w] = "committed"] /\ database' = rows
    BY <1>3 DEF Commit
  <2>2. UNCHANGED <<requests, memory, index, lock, op, answer, next, rows>>
    BY <1>3 DEF Commit
  <2>3. Typed'
    BY <2>1, <2>2 DEF Typed
  <2>4. Protocol'
    BY <2>1, <2>2 DEF Typed, Protocol, Holding
  <2>5. Pending(w)
    BY <2>1 DEF Contents, Holding
  <2>6. \A v \in Writers : pc[v] \in Holding => v = w
    BY <2>1, HolderIsAlone DEF Holding
  <2>7. Committed' /\ \A v \in Writers : pc'[v] \in Holding => v = w
    BY <2>1, <2>6 DEF Typed, Committed, Holding
  <2>8. Contents'
    BY <2>1, <2>2, <2>5, <2>7 DEF Contents, Pending, Holding
  <2> QED
    BY <2>3, <2>4, <2>8
<1>4. ASSUME NEW w \in Writers, Fail(w) PROVE IInv'
  <2>1. /\ pc[w] = "written" /\ pc' = [pc EXCEPT ![w] = "answered"]
        /\ answer' = [answer EXCEPT ![w] = "failed"]
        /\ lock' = Nobody
    BY <1>4 DEF Fail, Answer
  <2>2. UNCHANGED <<requests, memory, index, database, op>>
    BY <1>4 DEF Fail
  <2>3. Typed'
    BY <2>1, <2>2 DEF Typed
  <2>4. \A v \in Writers : pc[v] \in Holding => v = w
    BY <2>1, HolderIsAlone DEF Holding
  <2>5. Protocol'
    BY <2>1, <2>2, <2>4, WritersAssumption DEF Typed, Protocol, Holding, Nobody
  <2>6. ~Committed
    BY <2>1, <2>4 DEF Committed, Holding
  <2>7. ~Committed' /\ \A v \in Writers : pc'[v] \notin Holding
    BY <2>1, <2>4 DEF Typed, Committed, Holding
  <2>8. Contents'
    BY <2>2, <2>6, <2>7 DEF Contents, Holding
  <2> QED
    BY <2>3, <2>5, <2>8
<1>5. ASSUME NEW w \in Writers, Publish(w) PROVE IInv'
  <2>1. /\ pc[w] = "committed" /\ pc' = [pc EXCEPT ![w] = "answered"]
        /\ answer' = [answer EXCEPT ![w] = "ok"]
        /\ lock' = Nobody
        /\ memory' = next
        /\ index' = IF op[w].kind \in UpdateKinds THEN DOMAIN next.tracks ELSE index
    BY <1>5 DEF Publish, Answer
  <2>2. UNCHANGED <<requests, database, op, next>>
    BY <1>5 DEF Publish
  <2>3. Typed'
    BY <2>1, <2>2 DEF Typed
  <2>4. \A v \in Writers : pc[v] \in Holding => v = w
    BY <2>1, HolderIsAlone DEF Holding
  <2>5. Protocol'
    BY <2>1, <2>2, <2>4, WritersAssumption DEF Typed, Protocol, Holding, Nobody
  <2>6. Pending(w) /\ Mirrors(database, next) /\ index = DOMAIN memory.tracks
    BY <2>1 DEF Contents, Holding
  <2>7. ~Committed' /\ \A v \in Writers : pc'[v] \notin Holding
    BY <2>1, <2>4 DEF Typed, Committed, Holding
  <2>8. Contents'
    BY <2>1, <2>2, <2>6, <2>7 DEF Contents, Pending, Holding
  <2> QED
    BY <2>3, <2>5, <2>8
<1>6. ASSUME NEW w \in Writers, Return(w) PROVE IInv'
  <2>1. /\ pc[w] = "answered" /\ pc' = [pc EXCEPT ![w] = "idle"]
        /\ op' = [op EXCEPT ![w] = NoOp]
        /\ answer' = [answer EXCEPT ![w] = "none"]
    BY <1>6 DEF Return
  <2>2. UNCHANGED <<requests, memory, index, database, lock, next, rows>>
    BY <1>6 DEF Return
  <2>3. Typed'
    BY <2>1, <2>2 DEF Typed
  <2>4. Protocol'
    BY <2>1, <2>2 DEF Typed, Protocol, Holding
  <2>5. Committed' = Committed
    BY <2>1 DEF Committed, Typed
  <2>6. Contents'
    BY <2>1, <2>2, <2>5 DEF Contents, Typed, Holding, Pending
  <2> QED
    BY <2>3, <2>4, <2>6
<1>7. ASSUME Restart PROVE IInv'
  <2>1. Mirrors(database, Load(database)) /\ Proper(Load(database))
    BY Reloaded DEF Contents
  <2>2. /\ memory' = Load(database) /\ index' = DOMAIN Load(database).tracks
        /\ lock' = Nobody
        /\ pc' = [v \in Writers |-> "idle"]
        /\ op' = [v \in Writers |-> NoOp]
        /\ answer' = [v \in Writers |-> "none"]
        /\ UNCHANGED <<requests, database>>
    BY <1>7 DEF Restart
  <2>3. Typed'
    BY <2>2 DEF Typed
  <2>4. Protocol'
    BY <2>2, WritersAssumption DEF Protocol, Holding, Nobody
  <2>5. ~Committed' /\ \A v \in Writers : pc'[v] \notin Holding
    BY <2>2 DEF Committed, Holding
  <2>6. Contents'
    BY <2>1, <2>2, <2>5 DEF Contents, Holding
  <2> QED
    BY <2>3, <2>4, <2>6
<1>8. ASSUME Close \/ UNCHANGED vars PROVE IInv'
  <2>1. UNCHANGED <<requests, memory, index, database, lock, pc, op, answer, next, rows>>
    BY <1>8 DEF Close, vars
  <2>2. Typed' /\ Protocol'
    BY <2>1 DEF Typed, Protocol
  <2>3. Contents'
    BY <2>1 DEF Contents, Pending, Committed
  <2> QED
    BY <2>2, <2>3
<1> QED
  BY <1>1, <1>2, <1>3, <1>4, <1>5, <1>6, <1>7, <1>8 DEF Next

LEMMA AlwaysIInv == Spec => []IInv
BY InitIInv, NextIInv, PTL DEF Spec

-----------------------------------------------------------------------------

LEMMA CreditsOfRows ==
  ASSUME NEW db, NEW lib, Mirrors(db, lib)
  PROVE  db.credits = UNION {{t} \X ArtistsOf[lib.separators][t] : t \in DOMAIN lib.tracks}
BY DEF Mirrors, Credits

\* Between any two steps of the writers, and after a crash between any two, the
\* rows on disk read back as the library in memory, or as the one that the
\* writer who just committed is about to publish (store.go:253-265).
THEOREM DiskMatches == Spec => []DiskIsMemory
<1>1. ASSUME IInv PROVE DiskIsMemory
  <2>1. CASE Committed
    BY <1>1, <2>1, Reloaded, CreditsOfRows DEF DiskIsMemory, IInv, Contents
  <2>2. CASE ~Committed
    BY <1>1, <2>2, Reloaded, CreditsOfRows DEF DiskIsMemory, IInv, Contents
  <2> QED
    BY <2>1, <2>2
<1> QED
  BY <1>1, AlwaysIInv, PTL

\* However often a playback session is reported, by however many clients and
\* across restarts, it counts once (store.go:300).
THEOREM SessionsCountOnce == Spec => []SessionCountsOnce
<1>1. ASSUME IInv PROVE SessionCountsOnce
  <2>1. Proper(memory)
    BY <1>1 DEF IInv, Contents
  <2>2. Proper(Load(database))
    BY <1>1, <2>1, Reloaded
  <2> QED
    BY <2>1, <2>2 DEF SessionCountsOnce, Proper
<1> QED
  BY <1>1, AlwaysIInv, PTL

-----------------------------------------------------------------------------
(* The refinement.                                                         *)

LEMMA RefusedIsNotPermitted ==
  ASSUME IInv, NEW o \in Requests, ~(Found(o) /\ Permits(memory, o))
  PROVE  ~Permits(memory, o)
BY DEF Found, Permits, Live, IInv, Contents

LEMMA InitMaps == Init => L!Init
<1> SUFFICES ASSUME Init PROVE L!Init
  OBVIOUS
<1>1. PICK lib \in Seeds : database = Persist(EmptyRows, Empty, lib, FALSE)
  BY DEF Init
<1>2. Proper(lib) /\ Tidied(lib) = lib
  BY SeedsAssumption
<1>3. IsLibrary(Empty)
  BY DefaultsAssumption DEF Empty, IsLibrary, IsPartial, NoEntries
<1>4. Mirrors(EmptyRows, Empty)
  BY DEF Mirrors, SourceMirrors, IsRows, EmptyRows, Empty, NoEntries, Credits, ItemRows
<1>5. Coherent(Empty, lib, FALSE)
  BY <1>2, TidiedIsProper DEF Coherent, Proper
<1>6. Mirrors(database, lib)
  BY <1>1, <1>2, <1>3, <1>4, <1>5, PersistMirrors DEF Proper
<1>7. memory = lib
  BY <1>2, <1>6, MirrorsLoad DEF Init, Proper
<1> QED
  BY <1>7 DEF Init, L!Init, NoOp, L!NoRequest

LEMMA StepMaps == IInv /\ [Next]_vars => [L!Next]_L!vars
<1> SUFFICES ASSUME IInv, [Next]_vars PROVE L!Next \/ UNCHANGED L!vars
  OBVIOUS
<1> USE DEF IInv
<1>1. ASSUME NEW w \in Writers, Call(w) PROVE L!Next
  <2>1. PICK o \in Requests : op' = [op EXCEPT ![w] = o]
    BY <1>1, CallAsks
  <2>2. op[w] = NoOp /\ UNCHANGED <<memory, answer>>
    BY <1>1 DEF Call, Protocol
  <2>3. L!Ask(w)
    BY <2>1, <2>2 DEF L!Ask, L!NoRequest, NoOp, Typed
  <2> QED
    BY <2>3 DEF L!Next
<1>2. ASSUME NEW w \in Writers, Write(w) PROVE L!Next \/ UNCHANGED L!vars
  <2>1. L!Asks(w) /\ op[w] \in Requests
    BY <1>2 DEF Write, Typed, Protocol, L!Asks, L!NoRequest, NoOp
  <2>2. UNCHANGED <<memory, op>>
    BY <1>2 DEF Write
  <2>3. CASE ~(Found(op[w]) /\ Permits(memory, op[w]))
    <3>1. answer' = [answer EXCEPT ![w] = "refused"]
      BY <1>2, <2>3 DEF Write, Answer
    <3>2. L!Refuse(w)
      BY <2>1, <2>2, <2>3, <3>1, RefusedIsNotPermitted DEF L!Refuse
    <3> QED
      BY <3>2 DEF L!Next
  <2>4. CASE Permits(memory, op[w]) /\ Found(op[w]) /\ Idempotent(op[w])
    <3>1. answer' = [answer EXCEPT ![w] = "ok"]
      BY <1>2, <2>4 DEF Write, Answer
    <3>2. After(memory, op[w]) = memory
      BY <2>1, <2>4, IdempotentIsNoEdit DEF Idempotent, Contents
    <3>3. L!Effect(w)
      BY <2>1, <2>2, <2>4, <3>1, <3>2 DEF L!Effect
    <3> QED
      BY <3>3 DEF L!Next
  <2>5. CASE Permits(memory, op[w]) /\ Found(op[w]) /\ ~Idempotent(op[w])
    BY <1>2, <2>2, <2>5 DEF Write, L!vars
  <2> QED
    BY <2>3, <2>4, <2>5
<1>3. ASSUME NEW w \in Writers, Commit(w) PROVE UNCHANGED L!vars
  BY <1>3 DEF Commit, L!vars
<1>4. ASSUME NEW w \in Writers, Fail(w) PROVE L!Next
  <2>1. L!Asks(w)
    BY <1>4 DEF Fail, Protocol, L!Asks, L!NoRequest, NoOp
  <2>2. L!Fail(w)
    BY <1>4, <2>1 DEF Fail, Answer, L!Fail
  <2> QED
    BY <2>2 DEF L!Next
<1>5. ASSUME NEW w \in Writers, Publish(w) PROVE L!Next
  <2>1. L!Asks(w)
    BY <1>5 DEF Publish, Protocol, L!Asks, L!NoRequest, NoOp
  <2>2. Permits(memory, op[w]) /\ next = After(memory, op[w])
    BY <1>5 DEF Publish, Contents, Pending, Holding
  <2>3. L!Effect(w)
    BY <1>5, <2>1, <2>2 DEF Publish, Answer, L!Effect
  <2> QED
    BY <2>3 DEF L!Next
<1>6. ASSUME NEW w \in Writers, Return(w) PROVE L!Next
  <2>1. answer[w] # "none"
    BY <1>6 DEF Return, Protocol
  <2>2. L!Return(w)
    BY <1>6, <2>1 DEF Return, L!Return, L!NoRequest, NoOp
  <2> QED
    BY <2>2 DEF L!Next
<1>7. ASSUME Restart PROVE L!Next
  <2>1. /\ memory' = Load(database)
        /\ op' = [c \in Writers |-> L!NoRequest]
        /\ answer' = [c \in Writers |-> "none"]
    BY <1>7 DEF Restart, L!NoRequest, NoOp
  <2>2. CASE Committed
    <3>1. PICK w \in Writers : pc[w] = "committed"
      BY <2>2 DEF Committed
    <3>2. Permits(memory, op[w]) /\ next = After(memory, op[w])
      BY <3>1 DEF Contents, Pending, Holding
    <3>3. L!Asks(w)
      BY <3>1 DEF Protocol, L!Asks, L!NoRequest, NoOp
    <3>4. memory' = After(memory, op[w])
      BY <2>1, <2>2, <3>2, Reloaded
    <3> QED
      BY <2>1, <3>2, <3>3, <3>4 DEF L!Next, L!Crash
  <2>3. CASE ~Committed
    BY <2>1, <2>3, Reloaded DEF L!Next, L!Crash
  <2> QED
    BY <2>2, <2>3
<1>8. ASSUME Close \/ UNCHANGED vars PROVE UNCHANGED L!vars
  BY <1>8 DEF Close, vars, L!vars
<1> QED
  BY <1>1, <1>2, <1>3, <1>4, <1>5, <1>6, <1>7, <1>8 DEF Next

\* The store implements its promise: each request takes effect at once or not
\* at all, one answered with an error has none, one acknowledged survives every
\* crash, and a crash keeps at most one that was not acknowledged.
THEOREM StoreImplementsLibrary == Spec => ImplementsLibrary
BY InitMaps, StepMaps, AlwaysIInv, PTL DEF Spec, ImplementsLibrary, L!Spec
=============================================================================
