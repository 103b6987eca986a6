------------------------ MODULE TranscodeCacheProofs ------------------------
(***************************************************************************)
(* Proofs about TranscodeCache for every finite set of callers and keys    *)
(* and every choice of sizes and limits.                                   *)
(*                                                                         *)
(* What trimLocked removes enters the proofs about leases only through     *)
(* VictimsAreIdle: never more than idle entries, and every idle entry that *)
(* is doomed. Those about the limit come last, with what they need to know *)
(* of sums and of the order of use.                                        *)
(***************************************************************************)
EXTENDS TranscodeCache, TLAPS, FiniteSetTheorems, WellFoundedInduction

-----------------------------------------------------------------------------
(* The inductive strengthenings.                                           *)

\* Every entry has its file, and every conversion its temporary file.
FilesOfEntries == cached \subseteq files
TempsOfJobs == \A c \in Callers : pc[c] \in Converting \cup {"temporary"} => c \in temps
LeaseInv == ActiveCountsLeases /\ FilesOfEntries /\ TempsOfJobs

\* The token of a key is in its channel or with one caller.
OneTurn ==
  \A c \in Callers :
    pc[c] \in Turned =>
      /\ wants[c] \in Keys \ turn
      /\ \A d \in Callers \ {c} : pc[d] \in Turned => wants[d] # wants[c]

ConvertsMissing ==
  \A c \in Callers : pc[c] \in Converting => wants[c] \notin cached \ pending

TurnInv == OneTurn /\ ConvertsMissing

\* A waiting or leasing caller wants a key.
WantsKey ==
  \A c \in Callers : pc[c] \notin {"idle", "limit", "trim"} => wants[c] \in Keys

\* Clear marks every conversion that it meets, until it ends.
LateIsMarked == \A c \in late : c \in marked /\ pc[c] \in Converting
ConversionsHaveJobs == \A c \in Callers : pc[c] \in Converting => c \in jobs

ClearInv == LateIsMarked /\ ConversionsHaveJobs /\ ClearedStaysAway

-----------------------------------------------------------------------------
(* The operators.                                                          *)

LEMMA VictimsAreIdle ==
  ASSUME NEW max, NEW doomed
  PROVE  /\ Victims(max, doomed) \subseteq cached
         /\ \A k \in Victims(max, doomed) : active[k] = 0 /\ k \in files
         /\ \A k \in cached \cap doomed : Idle(k) => k \in Victims(max, doomed)
BY DEF Victims, Idle

LEMMA AmongIsOrder ==
  ASSUME NEW r, NEW S, IsOrder(r, S), NEW T, T \subseteq S
  PROVE  IsOrder(Among(r, T), T)
BY DEF IsOrder, Among

LEMMA LatestIsOrder ==
  ASSUME NEW r, NEW T, IsOrder(r, T), NEW S, NEW k \in S, S \ {k} \subseteq T
  PROVE  IsOrder(Latest(r, S, k), S)
<1> DEFINE q == Latest(r, S, k)
<1>1. q \subseteq S \X S
  BY DEF Latest, Among
<1>2. \A i, j \in S : <<i, j>> \in q <=> i # k /\ (j = k \/ <<i, j>> \in r)
  <2> SUFFICES ASSUME NEW i \in S, NEW j \in S
               PROVE  <<i, j>> \in q <=> i # k /\ (j = k \/ <<i, j>> \in r)
    OBVIOUS
  <2>1. CASE j = k
    BY <2>1 DEF Latest, Among
  <2>2. CASE j # k
    BY <2>2 DEF Latest, Among
  <2> QED
    BY <2>1, <2>2
<1> HIDE DEF q
<1>3. \A i, j \in S : <<i, j>> \in q <=> (i # j /\ <<j, i>> \notin q)
  <2> SUFFICES ASSUME NEW i \in S, NEW j \in S
               PROVE  <<i, j>> \in q <=> (i # j /\ <<j, i>> \notin q)
    OBVIOUS
  <2>1. CASE i = k \/ j = k
    BY <2>1, <1>2
  <2>2. CASE i # k /\ j # k
    BY <2>2, <1>2 DEF IsOrder
  <2> QED
    BY <2>1, <2>2
<1>4. ASSUME NEW h \in S, NEW i \in S, NEW j \in S, <<h, i>> \in q, <<i, j>> \in q
      PROVE  <<h, j>> \in q
  BY <1>2, <1>4 DEF IsOrder
<1> QED
  BY <1>1, <1>3, <1>4 DEF IsOrder, q

-----------------------------------------------------------------------------
(* Types.                                                                  *)

\* A token that is given back is a token of a key.
TypeInv == TypeOK /\ WantsKey

LEMMA TypeInit == Init => TypeInv
<1> SUFFICES ASSUME Init PROVE TypeInv
  OBVIOUS
<1>1. TypeOK
  <2>1. IsOrder(used, cached) /\ IsOrder(written, files)
    BY DEF Init
  <2>2. /\ pc \in [Callers -> Places] /\ wants \in [Callers -> Keys \cup {NoKey}]
        /\ seen \in [Callers -> Nat] /\ active \in [Keys -> Int]
    BY DEF Init, Places
  <2>3. limit \in Nat
    BY CacheAssumption DEF Init
  <2> QED
    BY <2>1, <2>2, <2>3 DEF Init, TypeOK
<1>2. WantsKey
  BY DEF Init, WantsKey
<1> QED
  BY <1>1, <1>2 DEF TypeInv

LEMMA TypeAcquire ==
  ASSUME TypeInv, NEW c \in Callers,
         \/ \E k \in Keys : Ask(c, k)
         \/ Disconnect(c) \/ GiveUp(c) \/ TakeTurn(c) \/ Lookup(c) \/ Convert(c)
  PROVE  TypeInv'
<1> USE DEF TypeInv, TypeOK, WantsKey, Goto, GiveTurn, directory, table, work, caller, ghost
<1>1. CASE \E k \in Keys : Ask(c, k)
  BY <1>1 DEF Ask, Places
<1>2. CASE Disconnect(c) \/ GiveUp(c)
  BY <1>2 DEF Disconnect, GiveUp, Places
<1>3. CASE TakeTurn(c)
  BY <1>3 DEF TakeTurn, Places, Turned
<1>4. CASE Hit(c)
  <2>1. IsOrder(used', cached')
    BY <1>4, LatestIsOrder DEF Hit
  <2>2. active' \in [Keys -> Int] /\ pc' \in [Callers -> Places]
    BY <1>4 DEF Hit, Places
  <2> QED
    BY <1>4, <2>1, <2>2 DEF Hit
<1>5. CASE Miss(c)
  BY <1>5 DEF Miss, Places, Turned, Converting
<1>6. CASE ConvertFails(c)
  BY <1>6 DEF ConvertFails, Places
<1>7. CASE Converted(c)
  BY <1>7 DEF Converted, Places, Turned, Converting
<1> QED
  BY <1>1, <1>2, <1>3, <1>4, <1>5, <1>6, <1>7 DEF Lookup, Convert

LEMMA TypeStore ==
  ASSUME TypeInv, NEW c \in Callers, Store(c)
  PROVE  TypeInv'
<1> USE DEF TypeInv, TypeOK, WantsKey, Goto, GiveTurn
<1> DEFINE gone == MadeRoom(c)
<1>1. gone \subseteq cached
  BY VictimsAreIdle DEF MadeRoom
<1>2. IsOrder(Among(used, cached \ gone), cached \ gone)
  BY AmongIsOrder
<1>3. ASSUME NEW S, S \subseteq files PROVE IsOrder(Among(written, S), S)
  BY <1>3, AmongIsOrder
<1>4. pc[c] = "store" /\ wants[c] \in Keys
  BY DEF Store, Serve, Keep, RenameFails
<1> HIDE DEF gone
<1>5. CASE Serve(c)
  <2>1. IsOrder(used', cached') /\ IsOrder(written', files')
    BY <1>5, <1>2, <1>3 DEF Serve, Evict, gone
  <2>2. pc' \in [Callers -> Places] /\ turn' \subseteq Keys
    BY <1>5, <1>4 DEF Serve, Places
  <2> QED
    BY <1>5, <1>1, <1>4, <2>1, <2>2 DEF Serve, Evict, gone
<1>6. CASE Keep(c)
  <2> DEFINE k == wants[c]
             rest == (cached \ gone) \cup {k}
  <2>1. IsOrder(used', cached')
    <3>1. IsOrder(Latest(Among(used, cached \ gone), rest, k), rest)
      <4>1. k \in rest /\ rest \ {k} \subseteq cached \ gone
        OBVIOUS
      <4> HIDE DEF rest, k, TypeInv, TypeOK, WantsKey, Goto, GiveTurn
      <4> QED
        BY <1>2, <4>1, LatestIsOrder
    <3> QED
      BY <1>6, <3>1 DEF Keep, gone
  <2>2. IsOrder(written', files')
    BY <1>6 DEF Keep, Inserted
  <2>3. pc' \in [Callers -> Places] /\ active' \in [Keys -> Int] /\ turn' \subseteq Keys
    BY <1>6, <1>4 DEF Keep, Places
  <2>4. /\ files' \subseteq Keys /\ cached' \subseteq Keys
        /\ pending' \subseteq cached' /\ outdated' \subseteq Keys
    BY <1>6, <1>1, <1>4 DEF Keep, gone
  <2> QED
    BY <1>6, <2>1, <2>2, <2>3, <2>4 DEF Keep
<1>7. CASE RenameFails(c)
  <2>1. IsOrder(used', cached') /\ IsOrder(written', files')
    BY <1>7, <1>2, <1>3 DEF RenameFails, gone
  <2>2. pc' \in [Callers -> Places] /\ turn' \subseteq Keys
    BY <1>7, <1>4 DEF RenameFails, Places
  <2> QED
    BY <1>7, <1>1, <1>4, <2>1, <2>2 DEF RenameFails, gone
<1> QED
  BY <1>5, <1>6, <1>7 DEF Store

LEMMA TypeGiveBack ==
  ASSUME TypeInv, NEW c \in Callers,
         \/ Release(c) \/ ReleaseTemporary(c) \/ ReadLimit(c) \/ Trim(c)
         \/ \E n \in Limits : SetLimit(c, n)
  PROVE  TypeInv'
<1> USE DEF TypeInv, TypeOK, WantsKey, Goto, directory, table, work, caller, ghost
<1>1. CASE Release(c)
  <2> DEFINE k == wants[c]
  <2>1. IsOrder(used', cached')
    BY <1>1, LatestIsOrder DEF Release
  <2>2. IsOrder(written', files')
    BY <1>1, LatestIsOrder DEF Release
  <2>3. pc' \in [Callers -> Places] /\ active' \in [Keys -> Int]
    BY <1>1 DEF Release, Places
  <2> QED
    BY <1>1, <2>1, <2>2, <2>3 DEF Release
<1>2. CASE ReleaseTemporary(c)
  BY <1>2 DEF ReleaseTemporary, Places
<1>3. CASE ReadLimit(c)
  BY <1>3 DEF ReadLimit, Places
<1>4. CASE Trim(c)
  <2> DEFINE gone == Victims(seen[c], pending)
  <2>1. gone \subseteq cached
    BY VictimsAreIdle
  <2>2. IsOrder(used', cached') /\ IsOrder(written', files')
    BY <1>4, AmongIsOrder DEF Trim, Evict
  <2>3. pc' \in [Callers -> Places]
    BY <1>4 DEF Trim, Places
  <2> QED
    BY <1>4, <2>1, <2>2, <2>3 DEF Trim, Evict
<1>5. CASE \E n \in Limits : SetLimit(c, n)
  BY <1>5, CacheAssumption DEF SetLimit, Places
<1> QED
  BY <1>1, <1>2, <1>3, <1>4, <1>5

LEMMA TypeOutside == TypeInv /\ (Clear \/ Restart) => TypeInv'
<1> SUFFICES ASSUME TypeInv, Clear \/ Restart PROVE TypeInv'
  OBVIOUS
<1> USE DEF TypeInv, TypeOK, WantsKey, caller
<1>1. CASE Clear
  <2> DEFINE gone == Victims(0, Doomed)
  <2>1. IsOrder(used', cached') /\ IsOrder(written', files')
    BY <1>1, AmongIsOrder DEF Clear
  <2>2. pending' \subseteq cached' /\ outdated' \subseteq Keys
    BY <1>1 DEF Clear, Doomed
  <2> QED
    BY <1>1, <2>1, <2>2 DEF Clear
<1>2. CASE Restart
  <2>1. /\ pc' \in [Callers -> Places] /\ wants' \in [Callers -> Keys \cup {NoKey}]
        /\ seen' \in [Callers -> Nat] /\ WantsKey'
    BY <1>2 DEF Restart, Places
  <2>2. IsOrder(used', cached') /\ IsOrder(written', files')
    BY <1>2 DEF Restart, NewCache
  <2>3. active' \in [Keys -> Int]
    BY <1>2 DEF Restart, NewCache
  <2> QED
    BY <1>2, <2>1, <2>2, <2>3 DEF Restart, NewCache
<1> QED
  BY <1>1, <1>2

LEMMA TypeStep == TypeInv /\ [Next]_vars => TypeInv'
<1>1. TypeInv /\ UNCHANGED vars => TypeInv'
  BY DEF TypeInv, TypeOK, WantsKey, vars, directory, table, work, caller, ghost
<1> QED
  BY <1>1, TypeAcquire, TypeStore, TypeGiveBack, TypeOutside DEF Next

\* Every variable keeps its type, and the times of use and of modification
\* order the entries and the files (media.go:22-36).
THEOREM TypeCorrect == Spec => []TypeOK
<1>1. TypeInv => TypeOK
  BY DEF TypeInv
<1> QED
  BY <1>1, TypeInit, TypeStep, PTL DEF Spec

-----------------------------------------------------------------------------
(* Turns.                                                                  *)

LEMMA TurnInit == Init => TurnInv
BY DEF Init, TurnInv, OneTurn, ConvertsMissing, Turned, Converting

LEMMA OneTurnStep == TypeInv /\ OneTurn /\ [Next]_vars => OneTurn'
<1> SUFFICES ASSUME TypeInv, OneTurn, [Next]_vars PROVE OneTurn'
  OBVIOUS
<1> USE DEF TypeInv, TypeOK, OneTurn, WantsKey, Goto, Turned, Converting
<1>1. ASSUME NEW c \in Callers,
             \/ \E k \in Keys : Ask(c, k)
             \/ \E n \in Limits : SetLimit(c, n)
             \/ Disconnect(c) \/ GiveUp(c)
             \/ Release(c) \/ ReleaseTemporary(c) \/ ReadLimit(c) \/ Trim(c)
      PROVE  OneTurn'
  BY <1>1 DEF work, caller, Ask, SetLimit, Disconnect, GiveUp, Release,
              ReleaseTemporary, ReadLimit, Trim
<1>2. ASSUME NEW c \in Callers, TakeTurn(c) PROVE OneTurn'
  BY <1>2 DEF TakeTurn, HasTurn
<1>3. ASSUME NEW c \in Callers, Miss(c) \/ Converted(c) PROVE OneTurn'
  BY <1>3 DEF work, Miss, Converted
<1>4. ASSUME NEW c \in Callers, Hit(c) \/ Serve(c) \/ Keep(c) PROVE OneTurn'
  BY <1>4 DEF Hit, Serve, Keep, GiveTurn
<1>5. ASSUME NEW c \in Callers, ConvertFails(c) \/ RenameFails(c) PROVE OneTurn'
  BY <1>5 DEF ConvertFails, RenameFails, GiveTurn
<1>6. CASE Clear \/ Restart
  BY <1>6 DEF caller, Clear, Restart
<1>7. CASE UNCHANGED vars
  BY <1>7 DEF vars, work, caller
<1> QED
  BY <1>1, <1>2, <1>3, <1>4, <1>5, <1>6, <1>7 DEF Next, Lookup, Convert, Store

LEMMA ConvertsStep == TypeInv /\ TurnInv /\ [Next]_vars => ConvertsMissing'
<1> SUFFICES ASSUME TypeInv, TurnInv, [Next]_vars PROVE ConvertsMissing'
  OBVIOUS
<1> USE DEF TypeInv, TypeOK, TurnInv, ConvertsMissing, Goto, Converting
<1>1. ASSUME NEW c \in Callers,
             \/ \E k \in Keys : Ask(c, k)
             \/ \E n \in Limits : SetLimit(c, n)
             \/ Disconnect(c) \/ GiveUp(c) \/ TakeTurn(c)
             \/ Lookup(c) \/ Convert(c)
      PROVE  ConvertsMissing'
  BY <1>1 DEF table, caller, Ask, SetLimit, Disconnect, GiveUp, TakeTurn, Lookup, Hit,
              Miss, Convert, ConvertFails, Converted
<1>2. ASSUME NEW c \in Callers, Release(c) \/ ReleaseTemporary(c) \/ ReadLimit(c)
      PROVE  ConvertsMissing'
  BY <1>2 DEF table, Release, ReleaseTemporary, ReadLimit
<1>3. ASSUME NEW c \in Callers, Serve(c) \/ RenameFails(c) \/ Trim(c)
      PROVE  ConvertsMissing'
  <2>1. \E gone \in SUBSET cached : cached' = cached \ gone /\ pending' = pending \ gone
    BY <1>3, VictimsAreIdle DEF Serve, RenameFails, Trim, Evict, MadeRoom
  <2>2. \A d \in Callers : pc'[d] \in Converting => pc[d] \in Converting /\ wants'[d] = wants[d]
    BY <1>3 DEF Serve, RenameFails, Trim
  <2> QED
    BY <2>1, <2>2
<1>4. ASSUME NEW c \in Callers, Keep(c) PROVE ConvertsMissing'
  <2> DEFINE gone == MadeRoom(c)
  <2>1. /\ cached' = (cached \ gone) \cup {wants[c]}
        /\ pending' = pending \ (gone \cup {wants[c]})
        /\ wants' = wants
    BY <1>4 DEF Keep
  <2>2. ASSUME NEW d \in Callers, pc'[d] \in Converting
        PROVE  pc[d] \in Converting /\ wants[d] # wants[c]
    BY <1>4, <2>2 DEF Keep, OneTurn, Turned
  <2> HIDE DEF gone
  <2> QED
    BY <2>1, <2>2
<1>5. CASE Clear
  BY <1>5 DEF Clear, Doomed
<1>6. CASE Restart
  BY <1>6 DEF Restart
<1>7. CASE UNCHANGED vars
  BY <1>7 DEF vars, table, caller
<1> QED
  BY <1>1, <1>2, <1>3, <1>4, <1>5, <1>6, <1>7 DEF Next, Store

\* A token that is not in its channel is with a caller.
TurnIsHeld ==
  \A k \in Keys \ turn : \E c \in Callers : pc[c] \in Turned /\ wants[c] = k

LEMMA HeldStep == TypeInv /\ TurnIsHeld /\ [Next]_vars => TurnIsHeld'
<1> SUFFICES ASSUME TypeInv, TurnIsHeld, [Next]_vars PROVE TurnIsHeld'
  OBVIOUS
<1> USE DEF TypeInv, TypeOK, TurnIsHeld, Goto, Turned, Converting
<1>1. ASSUME NEW c \in Callers,
             \/ \E k \in Keys : Ask(c, k)
             \/ \E n \in Limits : SetLimit(c, n)
             \/ Disconnect(c) \/ GiveUp(c)
             \/ Release(c) \/ ReleaseTemporary(c) \/ ReadLimit(c) \/ Trim(c)
      PROVE  TurnIsHeld'
  <2>1. turn' = turn
    BY <1>1 DEF work, Ask, SetLimit, Disconnect, GiveUp, Release, ReleaseTemporary,
                ReadLimit, Trim
  <2>2. \A d \in Callers : pc[d] \in Turned => pc'[d] \in Turned /\ wants'[d] = wants[d]
    BY <1>1 DEF caller, Ask, SetLimit, Disconnect, GiveUp, Release, ReleaseTemporary,
                ReadLimit, Trim
  <2> QED
    BY <2>1, <2>2
<1>2. ASSUME NEW c \in Callers, TakeTurn(c) PROVE TurnIsHeld'
  BY <1>2 DEF TakeTurn
<1>3. ASSUME NEW c \in Callers, Miss(c) \/ Converted(c) PROVE TurnIsHeld'
  BY <1>3 DEF work, Miss, Converted
<1>4. ASSUME NEW c \in Callers,
             \/ Hit(c) \/ Serve(c) \/ Keep(c) \/ ConvertFails(c) \/ RenameFails(c)
      PROVE  TurnIsHeld'
  <2>1. turn' = turn \cup {wants[c]}
    BY <1>4 DEF Hit, Serve, Keep, ConvertFails, RenameFails, GiveTurn
  <2>2. \A d \in Callers \ {c} : pc'[d] = pc[d] /\ wants'[d] = wants[d]
    BY <1>4 DEF Hit, Serve, Keep, ConvertFails, RenameFails
  <2> QED
    BY <2>1, <2>2
<1>5. CASE Clear
  BY <1>5 DEF caller, Clear
<1>6. CASE Restart
  BY <1>6 DEF Restart, NewCache
<1>7. CASE UNCHANGED vars
  BY <1>7 DEF vars, work, caller
<1> QED
  BY <1>1, <1>2, <1>3, <1>4, <1>5, <1>6, <1>7 DEF Next, Lookup, Convert, Store

\* The token of a key is in its channel or with a caller that returns it: no
\* failure and no cancellation loses it (media.go:128-136).
THEOREM TurnIsNotLostHolds == Spec => []TurnIsNotLost
<1>1. Init => TurnIsHeld
  BY DEF Init, TurnIsHeld
<1>2. TypeInv /\ TurnInv /\ [Next]_vars => TurnInv'
  BY OneTurnStep, ConvertsStep DEF TurnInv
<1>3. TurnIsHeld /\ TurnInv => TurnIsNotLost
  BY DEF TurnIsHeld, TurnInv, OneTurn, TurnIsNotLost
<1> QED
  BY <1>1, <1>2, <1>3, TypeInit, TypeStep, TurnInit, HeldStep, PTL DEF Spec

\* A key is converted by one caller at a time, and not while its result is in
\* the cache: the caller has the token, and only it can add the entry
\* (media.go:131-147, 219).
THEOREM ConvertedOnceHolds == Spec => []ConvertedOnce
<1>1. TypeInv /\ TurnInv /\ [Next]_vars => TurnInv'
  BY OneTurnStep, ConvertsStep DEF TurnInv
<1>2. TurnInv => ConvertedOnce
  BY DEF TurnInv, OneTurn, ConvertsMissing, ConvertedOnce, Turned
<1> QED
  BY <1>1, <1>2, TypeInit, TypeStep, TurnInit, PTL DEF Spec

-----------------------------------------------------------------------------
(* Leases.                                                                 *)

LEMMA ReadersFinite == ASSUME NEW k PROVE IsFiniteSet(Readers(k))
<1>1. Readers(k) \subseteq Callers
  BY DEF Readers
<1> QED
  BY <1>1, FS_Subset, CacheAssumption

\* Nobody begins or ends to read.
SameReaders ==
  \A c \in Callers : \/ pc'[c] = pc[c] /\ wants'[c] = wants[c]
                     \/ pc[c] # "entry" /\ pc'[c] # "entry"

LEMMA ReadersSame == ASSUME SameReaders, NEW k PROVE Readers(k)' = Readers(k)
BY DEF SameReaders, Readers

LEMMA ReadersGain ==
  ASSUME TypeOK, NEW c \in Callers, pc[c] # "entry", NEW k \in Keys, wants[c] = k,
         pc' = [pc EXCEPT ![c] = "entry"], wants' = wants
  PROVE  /\ Cardinality(Readers(k)') = Cardinality(Readers(k)) + 1
         /\ \A j \in Keys \ {k} : Readers(j)' = Readers(j)
<1>1. Readers(k)' = Readers(k) \cup {c} /\ c \notin Readers(k)
  BY DEF Readers, TypeOK
<1>2. \A j \in Keys \ {k} : Readers(j)' = Readers(j)
  BY DEF Readers, TypeOK
<1> QED
  BY <1>1, <1>2, ReadersFinite, FS_AddElement

LEMMA ReadersLose ==
  ASSUME TypeOK, NEW c \in Callers, pc[c] = "entry", NEW k \in Keys, wants[c] = k,
         NEW to \in Places \ {"entry"},
         pc' = [pc EXCEPT ![c] = to], wants' = [wants EXCEPT ![c] = NoKey]
  PROVE  /\ Cardinality(Readers(k)') = Cardinality(Readers(k)) - 1
         /\ Readers(k)' \subseteq Readers(k)
         /\ \A j \in Keys \ {k} : Readers(j)' = Readers(j)
<1>1. Readers(k)' = Readers(k) \ {c} /\ c \in Readers(k)
  BY DEF Readers, TypeOK
<1>2. \A j \in Keys \ {k} : Readers(j)' = Readers(j)
  BY DEF Readers, TypeOK
<1> QED
  BY <1>1, <1>2, ReadersFinite, FS_RemoveElement

\* An entry that nobody counts is not read.
LEMMA IdleHasNoReaders ==
  ASSUME ActiveCountsLeases, NEW k \in Keys, active[k] = 0
  PROVE  Readers(k) = {}
BY ReadersFinite, FS_EmptySet DEF ActiveCountsLeases

\* Removing idle entries takes no file from a reader.
LEMMA EvictKeepsLeases ==
  ASSUME TypeInv, LeaseInv, NEW gone \in SUBSET cached, Evict(gone),
         \A k \in gone : active[k] = 0, SameReaders
  PROVE  ActiveCountsLeases' /\ FilesOfEntries'
<1>1. FilesOfEntries'
  BY DEF LeaseInv, FilesOfEntries, Evict
<1>2. ASSUME NEW k \in Keys
      PROVE  active'[k] = Cardinality(Readers(k)') /\ (Readers(k)' # {} => k \in cached')
  <2>1. Readers(k)' = Readers(k) /\ active' = active
    BY ReadersSame DEF Evict
  <2>2. active[k] = Cardinality(Readers(k)) /\ (Readers(k) # {} => k \in cached)
    BY DEF LeaseInv, ActiveCountsLeases
  <2>3. k \in gone => Readers(k) = {}
    BY IdleHasNoReaders DEF LeaseInv
  <2> QED
    BY <2>1, <2>2, <2>3 DEF Evict
<1> QED
  BY <1>1, <1>2 DEF ActiveCountsLeases

\* A step that leaves readers and entries alone.
LEMMA LeaseUntouched ==
  ASSUME LeaseInv, SameReaders, active' = active, cached' = cached, files' = files
  PROVE  ActiveCountsLeases' /\ FilesOfEntries'
<1>1. \A k \in Keys : Readers(k)' = Readers(k)
  BY ReadersSame
<1> QED
  BY <1>1 DEF LeaseInv, ActiveCountsLeases, FilesOfEntries

LEMMA LeaseInit == Init => LeaseInv
<1> SUFFICES ASSUME Init PROVE LeaseInv
  OBVIOUS
<1>1. \A k \in Keys : Readers(k) = {}
  BY DEF Init, Readers
<1>2. ActiveCountsLeases
  BY <1>1, FS_EmptySet DEF ActiveCountsLeases, Init
<1> QED
  BY <1>2 DEF LeaseInv, FilesOfEntries, TempsOfJobs, Init, Converting

LEMMA LeaseKeep ==
  ASSUME TypeInv, LeaseInv, NEW c \in Callers, Keep(c), NEW k \in Keys, wants[c] = k
  PROVE  ActiveCountsLeases' /\ FilesOfEntries'
<1> DEFINE gone == MadeRoom(c)
<1>1. gone \subseteq cached /\ \A j \in gone : active[j] = 0
  BY VictimsAreIdle DEF MadeRoom
<1>2. pc[c] = "store"
  BY DEF Keep, Goto
<1>3. /\ Cardinality(Readers(k)') = Cardinality(Readers(k)) + 1
      /\ \A j \in Keys \ {k} : Readers(j)' = Readers(j)
  BY <1>2, ReadersGain DEF Keep, Goto, TypeInv
<1>4. /\ cached' = (cached \ gone) \cup {k} /\ files' = (files \ gone) \cup {k}
      /\ active' = [active EXCEPT ![k] = 1]
      /\ ~BeingRead(k, cached \ gone)
  BY DEF Keep, Misfit
<1>5. \A j \in Keys : /\ active[j] = Cardinality(Readers(j))
                      /\ Readers(j) # {} => j \in cached
  BY DEF LeaseInv, ActiveCountsLeases
<1>6. \A j \in gone : Readers(j) = {}
  BY <1>1, IdleHasNoReaders DEF LeaseInv, TypeInv, TypeOK
<1> HIDE DEF gone
<1>7. Cardinality(Readers(k)) = 0
  <2>1. CASE k \in cached \ gone
    <3>1. active[k] \in Nat
      BY <1>2, <1>5, ReadersFinite, FS_CardinalityType
    <3> QED
      BY <1>2, <1>4, <1>5, <2>1, <3>1 DEF BeingRead
  <2>2. CASE k \notin cached \ gone
    <3>1. Readers(k) = {}
      BY <2>2, <1>2, <1>5, <1>6
    <3> QED
      BY <3>1, FS_EmptySet
  <2> QED
    BY <2>1, <2>2
<1>8. FilesOfEntries'
  BY <1>4 DEF LeaseInv, FilesOfEntries
<1>9. ASSUME NEW j \in Keys
      PROVE  active'[j] = Cardinality(Readers(j)') /\ (Readers(j)' # {} => j \in cached')
  <2>1. CASE j = k
    <3>1. active'[k] = 1 /\ k \in cached'
      BY <1>2, <1>4 DEF TypeInv, TypeOK
    <3>2. Cardinality(Readers(k)') = 1
      BY <1>3, <1>7
    <3> QED
      BY <2>1, <3>1, <3>2
  <2>2. CASE j # k
    <3>1. Readers(j)' = Readers(j) /\ active'[j] = active[j]
      BY <2>2, <1>2, <1>3, <1>4 DEF TypeInv, TypeOK
    <3>2. j \in cached \ gone => j \in cached'
      BY <1>4
    <3> QED
      BY <3>1, <3>2, <1>5, <1>6
  <2> QED
    BY <2>1, <2>2
<1> QED
  BY <1>8, <1>9 DEF ActiveCountsLeases

LEMMA LeaseHit ==
  ASSUME TypeInv, LeaseInv, NEW c \in Callers, Hit(c), NEW k \in Keys, wants[c] = k
  PROVE  ActiveCountsLeases' /\ FilesOfEntries'
<1>1. /\ Cardinality(Readers(k)') = Cardinality(Readers(k)) + 1
      /\ \A j \in Keys \ {k} : Readers(j)' = Readers(j)
  BY ReadersGain DEF Hit, Goto, TypeInv
<1>2. /\ cached' = cached /\ files' = files /\ k \in cached
      /\ active' = [active EXCEPT ![k] = @ + 1]
  BY DEF Hit, directory
<1> QED
  BY <1>1, <1>2 DEF LeaseInv, ActiveCountsLeases, FilesOfEntries, TypeInv, TypeOK

LEMMA LeaseRelease ==
  ASSUME TypeInv, LeaseInv, NEW c \in Callers, Release(c), NEW k \in Keys, wants[c] = k
  PROVE  ActiveCountsLeases' /\ FilesOfEntries'
<1>1. /\ Cardinality(Readers(k)') = Cardinality(Readers(k)) - 1
      /\ Readers(k)' \subseteq Readers(k)
      /\ \A j \in Keys \ {k} : Readers(j)' = Readers(j)
  <2>1. "limit" \in Places \ {"entry"}
    BY DEF Places
  <2> QED
    BY <2>1, ReadersLose DEF Release, Goto, TypeInv
<1>2. k \in cached
  BY DEF Release, Goto, LeaseInv, ActiveCountsLeases, Readers
<1>3. /\ cached' = cached /\ files' = files
      /\ active' = [active EXCEPT ![k] = @ - 1]
  BY <1>2 DEF Release
<1> QED
  BY <1>1, <1>3 DEF LeaseInv, ActiveCountsLeases, FilesOfEntries, TypeInv, TypeOK

\* The rename that fails has removed nobody's file: an entry of that name would
\* be pending, and the trim just before removes it unless it is read.
LEMMA LeaseRenameFails ==
  ASSUME TypeInv, TurnInv, LeaseInv, NEW c \in Callers, RenameFails(c)
  PROVE  ActiveCountsLeases' /\ FilesOfEntries'
<1> DEFINE gone == MadeRoom(c)
           k == wants[c]
<1>1. SameReaders
  BY DEF SameReaders, RenameFails, Goto, TypeInv, TypeOK
<1>2. /\ \A j \in gone : j \in cached /\ active[j] = 0
      /\ \A j \in cached \cap pending : Idle(j) => j \in gone
  BY VictimsAreIdle DEF MadeRoom
<1>3. /\ cached' = cached \ gone /\ files' = files \ (gone \cup {k})
      /\ active' = active
      /\ ~BeingRead(k, cached \ gone)
  BY DEF RenameFails, Misfit
<1>4. k \in Keys /\ k \notin cached \ pending
  BY DEF RenameFails, Goto, TypeInv, WantsKey, TurnInv, ConvertsMissing, Converting
<1>5. active[k] \in Nat
  BY <1>4, ReadersFinite, FS_CardinalityType DEF LeaseInv, ActiveCountsLeases
<1>6. k \notin cached \ gone
  BY <1>2, <1>3, <1>4, <1>5 DEF BeingRead, Idle, LeaseInv, FilesOfEntries
<1>7. \A j \in Keys \cap gone : Readers(j) = {}
  BY <1>2, IdleHasNoReaders DEF LeaseInv
<1>8. \A j \in Keys : Readers(j)' = Readers(j)
  BY <1>1, ReadersSame
<1> HIDE DEF gone, k
<1> QED
  BY <1>3, <1>6, <1>7, <1>8 DEF LeaseInv, ActiveCountsLeases, FilesOfEntries

LEMMA TempsStep == TypeInv /\ TempsOfJobs /\ [Next]_vars => TempsOfJobs'
<1> SUFFICES ASSUME TypeInv, TempsOfJobs, [Next]_vars PROVE TempsOfJobs'
  OBVIOUS
<1> USE DEF TypeInv, TypeOK, TempsOfJobs, Goto, directory, caller, Converting
<1>1. ASSUME NEW c \in Callers,
             \/ \E k \in Keys : Ask(c, k)
             \/ \E n \in Limits : SetLimit(c, n)
             \/ Disconnect(c) \/ GiveUp(c) \/ TakeTurn(c)
             \/ ReadLimit(c) \/ Release(c)
      PROVE  TempsOfJobs'
  BY <1>1 DEF Ask, SetLimit, Disconnect, GiveUp, TakeTurn, ReadLimit, Release
<1>2. ASSUME NEW c \in Callers, Lookup(c) \/ Convert(c) PROVE TempsOfJobs'
  BY <1>2 DEF Lookup, Hit, Miss, Convert, ConvertFails, Converted
<1>3. ASSUME NEW c \in Callers, Store(c) \/ ReleaseTemporary(c) \/ Trim(c)
      PROVE  TempsOfJobs'
  BY <1>3 DEF Store, Serve, Keep, RenameFails, ReleaseTemporary, Trim
<1>4. CASE Clear \/ Restart
  BY <1>4 DEF Clear, Restart
<1>5. CASE UNCHANGED vars
  BY <1>5 DEF vars
<1> QED
  BY <1>1, <1>2, <1>3, <1>4, <1>5 DEF Next

LEMMA LeaseStep == TypeInv /\ TurnInv /\ LeaseInv /\ [Next]_vars => LeaseInv'
<1> SUFFICES ASSUME TypeInv, TurnInv, LeaseInv, [Next]_vars
             PROVE  ActiveCountsLeases' /\ FilesOfEntries'
  BY TempsStep DEF LeaseInv
<1>1. ASSUME NEW c \in Callers,
             \/ \E k \in Keys : Ask(c, k)
             \/ \E n \in Limits : SetLimit(c, n)
             \/ Disconnect(c) \/ GiveUp(c) \/ TakeTurn(c) \/ Miss(c) \/ Convert(c)
             \/ ReleaseTemporary(c) \/ ReadLimit(c)
      PROVE  ActiveCountsLeases' /\ FilesOfEntries'
  <2>1. SameReaders
    BY <1>1 DEF SameReaders, TypeInv, TypeOK, Goto, Ask, SetLimit, Disconnect, GiveUp,
                TakeTurn, Miss, Convert, ConvertFails, Converted, ReleaseTemporary,
                ReadLimit
  <2>2. active' = active /\ cached' = cached /\ files' = files
    BY <1>1 DEF directory, table, Ask, SetLimit, Disconnect, GiveUp,
                TakeTurn, Miss, Convert, ConvertFails, Converted, ReleaseTemporary,
                ReadLimit
  <2> QED
    BY <2>1, <2>2, LeaseUntouched
<1>2. ASSUME NEW c \in Callers, Hit(c) \/ Keep(c) \/ Release(c)
      PROVE  ActiveCountsLeases' /\ FilesOfEntries'
  <2>1. wants[c] \in Keys
    BY <1>2 DEF TypeInv, WantsKey, Hit, Keep, Release, Goto
  <2> QED
    BY <1>2, <2>1, LeaseHit, LeaseKeep, LeaseRelease
<1>3. ASSUME NEW c \in Callers, Serve(c) PROVE ActiveCountsLeases' /\ FilesOfEntries'
  <2>1. SameReaders
    BY <1>3 DEF SameReaders, Serve, Goto, TypeInv, TypeOK
  <2>2. Evict(MadeRoom(c))
    BY <1>3 DEF Serve
  <2>3. MadeRoom(c) \in SUBSET cached /\ \A k \in MadeRoom(c) : active[k] = 0
    BY VictimsAreIdle DEF MadeRoom
  <2> QED
    BY <2>1, <2>2, <2>3, EvictKeepsLeases
<1>4. ASSUME NEW c \in Callers, RenameFails(c) PROVE ActiveCountsLeases' /\ FilesOfEntries'
  BY <1>4, LeaseRenameFails
<1>5. ASSUME NEW c \in Callers, Trim(c) PROVE ActiveCountsLeases' /\ FilesOfEntries'
  <2>1. SameReaders
    BY <1>5 DEF SameReaders, Trim, Goto, TypeInv, TypeOK
  <2>2. Evict(Victims(seen[c], pending))
    BY <1>5 DEF Trim
  <2>3. \A k \in Victims(seen[c], pending) : k \in cached /\ active[k] = 0
    BY VictimsAreIdle
  <2> QED
    BY <2>1, <2>2, <2>3, EvictKeepsLeases
<1>6. CASE Clear
  <2> DEFINE gone == Victims(0, Doomed)
  <2>1. \A k \in gone : k \in cached /\ active[k] = 0
    BY VictimsAreIdle
  <2>2. ASSUME NEW k \in Keys PROVE Readers(k)' = Readers(k)
    BY <1>6 DEF Clear, caller, Readers
  <2>3. cached' = cached \ gone /\ files' = files \ gone /\ active' = active
    BY <1>6 DEF Clear
  <2>4. \A k \in Keys \cap gone : Readers(k) = {}
    BY <2>1, IdleHasNoReaders DEF LeaseInv
  <2> HIDE DEF gone
  <2> QED
    BY <2>2, <2>3, <2>4 DEF LeaseInv, ActiveCountsLeases, FilesOfEntries
<1>7. CASE Restart
  <2>1. \A k \in Keys : Readers(k)' = {}
    BY <1>7 DEF Restart, Readers
  <2>2. cached' = files /\ files' = files /\ \A k \in Keys : active'[k] = 0
    BY <1>7 DEF Restart, NewCache
  <2> QED
    BY <2>1, <2>2, FS_EmptySet DEF ActiveCountsLeases, FilesOfEntries
<1>8. CASE UNCHANGED vars
  <2>1. SameReaders
    BY <1>8 DEF SameReaders, vars, caller
  <2> QED
    BY <1>8, <2>1, LeaseUntouched DEF vars, directory, table
<1> QED
  BY <1>1, <1>2, <1>3, <1>4, <1>5, <1>6, <1>7, <1>8 DEF Next, Lookup, Store

\* The inductive invariant of the cache holds in every state.
LEMMA CacheInvariant == Spec => [](TypeInv /\ TurnInv /\ LeaseInv)
<1>1. TypeInv /\ TurnInv /\ [Next]_vars => TurnInv'
  BY OneTurnStep, ConvertsStep DEF TurnInv
<1> QED
  BY <1>1, TypeInit, TypeStep, TurnInit, LeaseInit, LeaseStep, PTL DEF Spec

\* The count of an entry is the number of callers that lease it, so a release
\* that looks its entry up by key gives back its own lease (media.go:223-228).
THEOREM ActiveCountsLeasesHolds == Spec => []ActiveCountsLeases
<1>1. LeaseInv => ActiveCountsLeases
  BY DEF LeaseInv
<1> QED
  BY <1>1, CacheInvariant, PTL

\* The file behind a lease exists until the lease is released, whatever is
\* trimmed, cleaned or converted meanwhile (media.go:84-92, 208-219).
THEOREM LeaseHasFileHolds == Spec => []LeaseHasFile
<1>1. TypeInv /\ LeaseInv => LeaseHasFile
  BY DEF LeaseInv, LeaseHasFile, ActiveCountsLeases, FilesOfEntries, TempsOfJobs,
         Readers, TypeInv, WantsKey
<1> QED
  BY <1>1, CacheInvariant, PTL

-----------------------------------------------------------------------------
(* Cleaning.                                                               *)

LEMMA ClearInit == Init => ClearInv /\ ClearedIsRemoved
BY DEF Init, ClearInv, LateIsMarked, ConversionsHaveJobs, ClearedStaysAway, Converting,
       ClearedIsRemoved

LEMMA ClearStep == TypeInv /\ ClearInv /\ [Next]_vars => ClearInv'
<1> SUFFICES ASSUME TypeInv, ClearInv, [Next]_vars PROVE ClearInv'
  OBVIOUS
<1> USE DEF TypeInv, TypeOK, ClearInv, LateIsMarked, ConversionsHaveJobs,
            ClearedStaysAway, Goto, Converting
<1>1. ASSUME NEW c \in Callers,
             \/ \E k \in Keys : Ask(c, k)
             \/ \E n \in Limits : SetLimit(c, n)
             \/ Disconnect(c) \/ GiveUp(c) \/ TakeTurn(c) \/ ReadLimit(c)
      PROVE  ClearInv'
  BY <1>1 DEF table, work, caller, ghost, Ask, SetLimit, Disconnect, GiveUp, TakeTurn,
              ReadLimit
<1>2. ASSUME NEW c \in Callers, Lookup(c) \/ Convert(c) PROVE ClearInv'
  BY <1>2 DEF table, work, ghost, Lookup, Hit, Miss, Convert, ConvertFails, Converted
<1>3. ASSUME NEW c \in Callers, Release(c) \/ ReleaseTemporary(c) PROVE ClearInv'
  BY <1>3 DEF table, work, ghost, Release, ReleaseTemporary
<1>4. ASSUME NEW c \in Callers, Serve(c) \/ RenameFails(c) \/ Trim(c) PROVE ClearInv'
  <2>1. \E gone \in SUBSET cached : /\ cached' = cached \ gone
                                    /\ pending' = pending \ gone
                                    /\ outdated' = outdated \ gone
                                    /\ revived' = revived \ gone
    BY <1>4, VictimsAreIdle DEF Serve, RenameFails, Trim, Evict, MadeRoom
  <2>2. LateIsMarked' /\ ConversionsHaveJobs'
    BY <1>4 DEF work, Serve, RenameFails, Trim
  <2> QED
    BY <2>1, <2>2
<1>5. ASSUME NEW c \in Callers, Keep(c) PROVE ClearInv'
  <2> DEFINE gone == MadeRoom(c)
  <2>1. c \notin late
    BY <1>5 DEF Keep, Misfit, Cleaned
  <2>2. /\ cached' = (cached \ gone) \cup {wants[c]}
        /\ pending' = pending \ (gone \cup {wants[c]})
        /\ outdated' = outdated \ (gone \cup {wants[c]})
        /\ revived' = revived \ (gone \cup {wants[c]})
    BY <1>5, <2>1 DEF Keep
  <2>3. LateIsMarked' /\ ConversionsHaveJobs'
    BY <1>5 DEF Keep
  <2> HIDE DEF gone
  <2> QED
    BY <2>2, <2>3
<1>6. CASE Clear
  BY <1>6 DEF Clear, Doomed, caller
<1>7. CASE Restart
  BY <1>7 DEF Restart, NewCache
<1>8. CASE UNCHANGED vars
  BY <1>8 DEF vars, table, work, caller, ghost
<1> QED
  BY <1>1, <1>2, <1>3, <1>4, <1>5, <1>6, <1>7, <1>8 DEF Next, Store

\* What was converted before the last cleaning is not served after it, unless a
\* restart found its file: the cleaning marks the entries and the jobs that it
\* meets, and a marked job does not store its result (media.go:106-111, 202).
THEOREM ClearedStaysAwayHolds == Spec => []ClearedStaysAway
<1>1. ClearInv => ClearedStaysAway
  BY DEF ClearInv
<1>2. Init => ClearInv
  BY ClearInit
<1> QED
  BY <1>1, <1>2, TypeInit, TypeStep, ClearStep, PTL DEF Spec

\* A trim leaves no entry pending that is not read.
LEMMA VictimsArePending ==
  ASSUME TypeInv, LeaseInv, NEW max, NEW doomed, doomed \subseteq cached
  PROVE  \A k \in doomed \ Victims(max, doomed) : active[k] > 0
<1> SUFFICES ASSUME NEW k \in doomed \ Victims(max, doomed) PROVE active[k] > 0
  OBVIOUS
<1>1. k \in Keys /\ k \in files
  BY DEF TypeInv, TypeOK, LeaseInv, FilesOfEntries
<1>2. active[k] # 0
  BY <1>1, VictimsAreIdle DEF Idle
<1>3. active[k] \in Nat
  BY <1>1, ReadersFinite, FS_CardinalityType DEF LeaseInv, ActiveCountsLeases
<1> QED
  BY <1>2, <1>3

LEMMA RemovedStep ==
  TypeInv /\ LeaseInv /\ ClearedIsRemoved /\ [Next]_vars => ClearedIsRemoved'
<1> SUFFICES ASSUME TypeInv, LeaseInv, ClearedIsRemoved, [Next]_vars, AboutToTrim' = {}
             PROVE  \A k \in pending' : active'[k] > 0
  BY DEF ClearedIsRemoved
<1> USE DEF Goto
<1>1. ASSUME NEW c \in Callers,
             Release(c) \/ ReadLimit(c) \/ \E n \in Limits : SetLimit(c, n)
      PROVE  FALSE
  BY <1>1 DEF Release, ReadLimit, SetLimit, AboutToTrim, TypeInv, TypeOK
<1>2. ASSUME NEW c \in Callers, Trim(c) PROVE \A k \in pending' : active'[k] > 0
  BY <1>2, VictimsArePending DEF Trim, Evict, TypeInv, TypeOK
<1>3. CASE Clear
  <2>1. (pending \cup Doomed) = cached
    BY DEF Doomed, TypeInv, TypeOK
  <2> QED
    BY <1>3, <2>1, VictimsArePending DEF Clear, Doomed
<1>4. CASE Restart
  BY <1>4 DEF Restart, NewCache
<1>5. ASSUME AboutToTrim = {}
      PROVE  \A k \in pending : active[k] > 0
  BY <1>5 DEF ClearedIsRemoved
<1>6. ASSUME NEW c \in Callers,
             \/ \E k \in Keys : Ask(c, k)
             \/ Disconnect(c) \/ GiveUp(c) \/ TakeTurn(c) \/ Lookup(c) \/ Convert(c)
             \/ Store(c) \/ ReleaseTemporary(c)
      PROVE  \A k \in pending' : active'[k] > 0
  <2>1. AboutToTrim = {}
    BY <1>6 DEF AboutToTrim, TypeInv, TypeOK, caller, Ask, Disconnect, GiveUp, TakeTurn,
                Lookup, Hit, Miss, Convert, ConvertFails, Converted, Store, Serve, Keep,
                RenameFails, ReleaseTemporary
  <2>2. \A k \in pending : active[k] > 0
    BY <2>1, <1>5
  <2>3. pending' \subseteq pending
    BY <1>6 DEF table, Ask, Disconnect, GiveUp, TakeTurn,
                Lookup, Hit, Miss, Convert, ConvertFails, Converted, Store, Serve, Evict,
                Keep, RenameFails, ReleaseTemporary
  <2>4. \A k \in pending' : active'[k] = active[k]
    <3>1. CASE Hit(c)
      BY <3>1 DEF Hit, TypeInv, TypeOK
    <3>2. CASE Keep(c)
      BY <3>2 DEF Keep, TypeInv, TypeOK
    <3>3. CASE ~Hit(c) /\ ~Keep(c)
      BY <1>6, <3>3 DEF table, Ask, Disconnect, GiveUp, TakeTurn,
                Lookup, Miss, Convert, ConvertFails, Converted, Store, Serve, Evict,
                RenameFails, ReleaseTemporary
    <3> QED
      BY <3>1, <3>2, <3>3
  <2> QED
    BY <2>2, <2>3, <2>4
<1>7. CASE UNCHANGED vars
  BY <1>7, <1>5 DEF vars, table, caller, AboutToTrim
<1> QED
  BY <1>1, <1>2, <1>3, <1>4, <1>6, <1>7 DEF Next

\* Once nobody is about to trim, what a cleaning left behind is still being
\* read; it is gone after its last release (README.md:176, media.go:83-93).
THEOREM ClearedIsRemovedHolds == Spec => []ClearedIsRemoved
<1>1. Init => ClearedIsRemoved
  BY ClearInit
<1> QED
  BY <1>1, CacheInvariant, RemovedStep, PTL DEF Spec

-----------------------------------------------------------------------------
(* Sums over sets of keys. Bytes is a recursive function on the subsets of *)
(* its argument; that there is such a function, and what it computes, is   *)
(* shown with a least counterexample.                                      *)

LEMMA LeastNumber ==
  ASSUME NEW S \in SUBSET Nat, S # {}
  PROVE  \E n \in S : \A m \in S : n <= m
<1>1. PICK n \in S : \A m \in S : <<m, n>> \notin OpToRel(<, Nat)
  BY NatLessThanWellFounded, WFMin
<1>2. \A m \in S : m \in Nat /\ n \in Nat /\ ~(m < n)
  BY <1>1 DEF OpToRel
<1> QED
  BY <1>2

Taken(s) == CHOOSE y \in s : TRUE

\* f is the function by which Bytes(S) is computed; Summed says that of sets of
\* at most n keys.
IsSum(f, S) ==
  f = [s \in SUBSET S |-> IF s = {} THEN 0 ELSE Size[Taken(s)] + f[s \ {Taken(s)}]]

UpTo(n) == {s \in SUBSET Keys : Cardinality(s) <= n}

Summed(f, n) ==
  /\ f \in [UpTo(n) -> Nat]
  /\ \A s \in UpTo(n) :
       f[s] = IF s = {} THEN 0 ELSE Size[Taken(s)] + f[s \ {Taken(s)}]

\* Every set of keys is finite; one key fewer is one fewer.
LEMMA KeysAreFinite ==
  ASSUME NEW s \in SUBSET Keys
  PROVE  /\ IsFiniteSet(s) /\ Cardinality(s) \in Nat
         /\ Cardinality(s) <= Cardinality(Keys)
         /\ s = {} <=> Cardinality(s) = 0
         /\ \A x \in s : Cardinality(s \ {x}) = Cardinality(s) - 1
         /\ s # {} => Taken(s) \in s
<1>1. IsFiniteSet(s) /\ Cardinality(s) <= Cardinality(Keys)
  BY CacheAssumption, FS_Subset
<1>2. Cardinality(s) \in Nat /\ (s = {} <=> Cardinality(s) = 0)
  BY <1>1, FS_CardinalityType, FS_EmptySet
<1>3. \A x \in s : Cardinality(s \ {x}) = Cardinality(s) - 1
  BY <1>1, FS_RemoveElement
<1> QED
  BY <1>1, <1>2, <1>3 DEF Taken

LEMMA SmallerSets ==
  ASSUME NEW n \in Nat, NEW s \in UpTo(n), s # {}
  PROVE  /\ n > 0 /\ Taken(s) \in s /\ Size[Taken(s)] \in Nat
         /\ s \ {Taken(s)} \in UpTo(n - 1)
<1>1. s \in SUBSET Keys /\ Cardinality(s) <= n
  BY DEF UpTo
<1>2. Taken(s) \in s /\ Cardinality(s) \in Nat \ {0}
      /\ Cardinality(s \ {Taken(s)}) = Cardinality(s) - 1
  BY <1>1, KeysAreFinite
<1>3. Cardinality(s) - 1 <= n - 1 /\ n > 0
  BY <1>1, <1>2
<1> QED
  BY <1>1, <1>2, <1>3, CacheAssumption DEF UpTo

LEMMA SummedExists == \A n \in Nat : \E f : Summed(f, n)
<1> DEFINE Bad == {n \in Nat : ~ \E f : Summed(f, n)}
<1> SUFFICES ASSUME Bad # {} PROVE FALSE
  OBVIOUS
<1>1. PICK n \in Bad : \A m \in Bad : n <= m
  BY LeastNumber
<1>2. n \in Nat /\ ~ \E f : Summed(f, n)
  OBVIOUS
<1>3. CASE n = 0
  <2> DEFINE f == [s \in UpTo(0) |-> 0]
  <2>1. \A s \in UpTo(0) : s = {}
    BY KeysAreFinite DEF UpTo
  <2>2. Summed(f, 0)
    BY <2>1 DEF Summed
  <2> QED
    BY <1>2, <1>3, <2>2
<1>4. CASE n > 0
  <2>1. n - 1 \in Nat /\ n - 1 \notin Bad
    <3>1. n - 1 \in Nat /\ ~(n <= n - 1)
      BY <1>2, <1>4
    <3> QED
      BY <1>1, <3>1
  <2>2. PICK f : Summed(f, n - 1)
    BY <2>1
  <2> DEFINE g == [s \in UpTo(n) |-> IF s = {} THEN 0
                                     ELSE Size[Taken(s)] + f[s \ {Taken(s)}]]
  <2>3. g \in [UpTo(n) -> Nat]
    <3> SUFFICES ASSUME NEW s \in UpTo(n), s # {}
                 PROVE  Size[Taken(s)] + f[s \ {Taken(s)}] \in Nat
      OBVIOUS
    <3>1. Size[Taken(s)] \in Nat /\ s \ {Taken(s)} \in UpTo(n - 1)
      BY <1>2, SmallerSets
    <3>2. f[s \ {Taken(s)}] \in Nat
      BY <2>2, <3>1 DEF Summed
    <3> QED
      BY <3>1, <3>2
  <2>4. \A s \in UpTo(n - 1) : s \in UpTo(n) /\ g[s] = f[s]
    <3> SUFFICES ASSUME NEW s \in UpTo(n - 1) PROVE s \in UpTo(n) /\ g[s] = f[s]
      OBVIOUS
    <3>1. s \in UpTo(n)
      BY <1>2, KeysAreFinite DEF UpTo
    <3> QED
      BY <2>2, <3>1 DEF Summed
  <2>5. \A s \in UpTo(n) : g[s] = IF s = {} THEN 0 ELSE Size[Taken(s)] + g[s \ {Taken(s)}]
    <3> SUFFICES ASSUME NEW s \in UpTo(n), s # {}
                 PROVE  g[s] = Size[Taken(s)] + g[s \ {Taken(s)}]
      OBVIOUS
    <3>1. s \ {Taken(s)} \in UpTo(n - 1)
      BY <1>2, SmallerSets
    <3>2. g[s \ {Taken(s)}] = f[s \ {Taken(s)}]
      BY <2>4, <3>1
    <3> QED
      BY <3>2
  <2> HIDE DEF g
  <2>6. Summed(g, n)
    BY <2>3, <2>5 DEF Summed
  <2> QED
    BY <1>2, <2>6
<1> QED
  BY <1>2, <1>3, <1>4

\* One function gives the bytes of every set of keys.
LEMMA BytesAre ==
  \E g \in [SUBSET Keys -> Nat] :
    /\ IsSum(g, Keys)
    /\ \A S \in SUBSET Keys : Bytes(S) = g[S]
<1> DEFINE N == Cardinality(Keys)
<1>1. N \in Nat /\ UpTo(N) = SUBSET Keys
  BY KeysAreFinite DEF UpTo
<1>2. PICK g : Summed(g, N)
  BY <1>1, SummedExists
<1> HIDE DEF N
<1>3. /\ g \in [SUBSET Keys -> Nat]
      /\ \A s \in SUBSET Keys :
           g[s] = IF s = {} THEN 0 ELSE Size[Taken(s)] + g[s \ {Taken(s)}]
  BY <1>1, <1>2 DEF Summed
<1>4. IsSum(g, Keys)
  BY <1>3 DEF IsSum
<1>5. ASSUME NEW S \in SUBSET Keys
      PROVE  Bytes(S) = g[S]
  <2> DEFINE h == [s \in SUBSET S |-> g[s]]
             f == CHOOSE f : IsSum(f, S)
  <2>1. IsSum(h, S)
    <3>1. \A s \in SUBSET S :
            h[s] = IF s = {} THEN 0 ELSE Size[Taken(s)] + h[s \ {Taken(s)}]
      BY <1>3
    <3> QED
      BY <3>1 DEF IsSum
  <2> HIDE DEF h
  <2>2. IsSum(f, S)
    BY <2>1
  <2>3. Bytes(S) = f[S]
    BY DEF Bytes, MapThenSumSet, MapThenFoldSet, IsSum, Taken
  <2> HIDE DEF f
  <2>4. \A s \in SUBSET S : f[s] = IF s = {} THEN 0 ELSE Size[Taken(s)] + f[s \ {Taken(s)}]
    BY <2>2 DEF IsSum
  <2> DEFINE Bad == {n \in Nat : \E s \in SUBSET S : Cardinality(s) = n /\ f[s] # g[s]}
  <2>5. Bad = {}
    <3> SUFFICES ASSUME Bad # {} PROVE FALSE
      OBVIOUS
    <3>1. PICK n \in Bad : \A m \in Bad : n <= m
      BY LeastNumber
    <3>2. PICK s \in SUBSET S : n \in Nat /\ Cardinality(s) = n /\ f[s] # g[s]
      OBVIOUS
    <3>3. s # {}
      BY <1>3, <2>4, <3>2
    <3> DEFINE t == s \ {Taken(s)}
    <3>4. t \in SUBSET S /\ Cardinality(t) = n - 1 /\ n - 1 \in Nat /\ ~(n <= n - 1)
      BY <3>2, <3>3, KeysAreFinite
    <3>5. n - 1 \notin Bad
      BY <3>1, <3>4
    <3>6. f[t] = g[t]
      BY <3>4, <3>5
    <3> QED
      BY <1>3, <2>4, <3>2, <3>3, <3>6
  <2>6. \A s \in SUBSET S : f[s] = g[s]
    BY <2>5, KeysAreFinite
  <2> QED
    BY <2>3, <2>6
<1> QED
  BY <1>3, <1>4, <1>5

\* What a sum is: nothing of nothing, and any key may be counted first.
LEMMA BytesSum ==
  /\ Bytes({}) = 0
  /\ \A S \in SUBSET Keys : Bytes(S) \in Nat
  /\ \A S \in SUBSET Keys : \A x \in S : Bytes(S) = Size[x] + Bytes(S \ {x})
<1>1. PICK g \in [SUBSET Keys -> Nat] :
        IsSum(g, Keys) /\ \A S \in SUBSET Keys : Bytes(S) = g[S]
  BY BytesAre
<1>2. \A s \in SUBSET Keys :
        g[s] = IF s = {} THEN 0 ELSE Size[Taken(s)] + g[s \ {Taken(s)}]
  BY <1>1 DEF IsSum
<1> DEFINE Holds(s) == \A x \in s : g[s] = Size[x] + g[s \ {x}]
           Bad == {n \in Nat : \E s \in SUBSET Keys : Cardinality(s) = n /\ ~Holds(s)}
<1>3. Bad = {}
  <2> SUFFICES ASSUME Bad # {} PROVE FALSE
    OBVIOUS
  <2>1. PICK n \in Bad : \A m \in Bad : n <= m
    BY LeastNumber
  <2>2. PICK s \in SUBSET Keys : n \in Nat /\ Cardinality(s) = n /\ ~Holds(s)
    OBVIOUS
  <2>3. PICK x \in s : g[s] # Size[x] + g[s \ {x}]
    BY <2>2
  <2> DEFINE c == Taken(s)
  <2>4. c \in s /\ c # x /\ g[s] = Size[c] + g[s \ {c}]
    BY <1>2, <2>3, KeysAreFinite
  <2> HIDE DEF c
  <2>5. \A y \in s : s \ {y} \in SUBSET Keys /\ Cardinality(s \ {y}) = n - 1
    BY <2>2, KeysAreFinite
  <2>6. n - 1 \in Nat /\ ~(n <= n - 1)
    <3>1. Cardinality(s \ {x}) \in Nat
      BY <2>5, KeysAreFinite
    <3> QED
      BY <2>2, <2>3, <2>5, <3>1
  <2>7. n - 1 \notin Bad
    BY <2>1, <2>6
  <2>8. Holds(s \ {c}) /\ Holds(s \ {x})
    BY <2>4, <2>5, <2>6, <2>7
  <2>9. /\ g[s \ {c}] = Size[x] + g[(s \ {c}) \ {x}]
        /\ g[s \ {x}] = Size[c] + g[(s \ {x}) \ {c}]
    BY <2>3, <2>4, <2>8
  <2>10. (s \ {c}) \ {x} = (s \ {x}) \ {c} /\ (s \ {c}) \ {x} \in SUBSET Keys
    OBVIOUS
  <2>11. /\ Size[x] \in Nat /\ Size[c] \in Nat
         /\ g[(s \ {c}) \ {x}] \in Nat
    BY <1>1, <2>4, <2>10, CacheAssumption
  <2>12. Size[c] + (Size[x] + g[(s \ {c}) \ {x}]) = Size[x] + (Size[c] + g[(s \ {c}) \ {x}])
    BY <2>11
  <2> QED
    BY <2>3, <2>4, <2>9, <2>10, <2>12
<1>4. \A s \in SUBSET Keys : Holds(s)
  BY <1>3, KeysAreFinite
<1>5. Bytes({}) = 0
  BY <1>1, <1>2
<1>6. \A S \in SUBSET Keys : \A x \in S : Bytes(S) = Size[x] + Bytes(S \ {x})
  <2> SUFFICES ASSUME NEW S \in SUBSET Keys, NEW x \in S
               PROVE  Bytes(S) = Size[x] + Bytes(S \ {x})
    OBVIOUS
  <2>1. S \ {x} \in SUBSET Keys
    OBVIOUS
  <2> QED
    BY <1>1, <1>4, <2>1
<1> QED
  BY <1>1, <1>5, <1>6

\* Less takes no more room.
LEMMA BytesGrow ==
  ASSUME NEW T \in SUBSET Keys, NEW S \in SUBSET T
  PROVE  Bytes(S) <= Bytes(T)
<1> DEFINE Bad == {n \in Nat : \E U \in SUBSET T : /\ S \subseteq U /\ Cardinality(U) = n
                                                  /\ ~(Bytes(S) <= Bytes(U))}
<1>1. Bad = {}
  <2> SUFFICES ASSUME Bad # {} PROVE FALSE
    OBVIOUS
  <2>1. PICK n \in Bad : \A m \in Bad : n <= m
    BY LeastNumber
  <2>2. PICK U \in SUBSET T : /\ n \in Nat /\ S \subseteq U /\ Cardinality(U) = n
                              /\ ~(Bytes(S) <= Bytes(U))
    OBVIOUS
  <2>3. Bytes(S) \in Nat /\ Bytes(U) \in Nat
    BY BytesSum
  <2>4. PICK x \in U : x \notin S
    BY <2>2, <2>3
  <2> DEFINE V == U \ {x}
  <2>5. /\ V \in SUBSET T /\ S \subseteq V
        /\ Cardinality(V) = n - 1 /\ Cardinality(V) \in Nat
    BY <2>2, <2>4, KeysAreFinite
  <2>6. n - 1 \in Nat /\ ~(n <= n - 1)
    BY <2>2, <2>5
  <2>7. Bytes(S) <= Bytes(V)
    BY <2>1, <2>5, <2>6
  <2>8. Bytes(U) = Size[x] + Bytes(V) /\ Size[x] \in Nat /\ Bytes(V) \in Nat
    BY <2>5, BytesSum, CacheAssumption
  <2> QED
    BY <2>2, <2>3, <2>7, <2>8
<1>2. Cardinality(T) \in Nat
  BY KeysAreFinite
<1> QED
  BY <1>1, <1>2

-----------------------------------------------------------------------------
(* What trimLocked removes.                                                *)

\* Of some entries one is the least recently used,
LEMMA OldestExists ==
  ASSUME NEW S \in SUBSET Keys, NEW r, IsOrder(r, S), NEW T \in SUBSET S, T # {}
  PROVE  \E k \in T : \A j \in T \ {k} : <<k, j>> \in r
<1> DEFINE Older(k) == {j \in T : <<j, k>> \in r}
           N == {Cardinality(Older(k)) : k \in T}
<1>1. \A k \in T : Older(k) \in SUBSET Keys
  OBVIOUS
<1>2. N \in SUBSET Nat /\ N # {}
  <2>1. \A k \in T : Cardinality(Older(k)) \in Nat
    BY <1>1, KeysAreFinite
  <2> QED
    BY <2>1
<1>3. PICK n \in N : \A m \in N : n <= m
  BY <1>2, LeastNumber
<1>4. PICK k \in T : n = Cardinality(Older(k))
  OBVIOUS
<1>5. ASSUME NEW j \in T \ {k}, <<k, j>> \notin r PROVE FALSE
  <2>1. <<j, k>> \in r
    BY <1>5 DEF IsOrder
  <2>2. Older(j) \subseteq Older(k) /\ j \in Older(k) /\ j \notin Older(j)
    BY <2>1 DEF IsOrder
  <2>3. Cardinality(Older(j)) < Cardinality(Older(k))
    <3>1. Older(j) \subseteq Older(k) \ {j}
      BY <2>2
    <3>2. /\ Cardinality(Older(k) \ {j}) = Cardinality(Older(k)) - 1
          /\ IsFiniteSet(Older(k) \ {j})
          /\ Cardinality(Older(k)) \in Nat
      BY <1>1, <2>2, KeysAreFinite, FS_Subset
    <3>3. Cardinality(Older(j)) <= Cardinality(Older(k) \ {j}) /\ Cardinality(Older(j)) \in Nat
      BY <1>1, <3>1, <3>2, FS_Subset, KeysAreFinite
    <3> QED
      BY <3>2, <3>3
  <2>4. n <= Cardinality(Older(j)) /\ Cardinality(Older(j)) \in Nat /\ n \in Nat
    BY <1>2, <1>3
  <2> QED
    BY <1>4, <2>3, <2>4
<1> QED
  BY <1>5

\* and one the most recently used.
LEMMA NewestExists ==
  ASSUME NEW S \in SUBSET Keys, NEW r, IsOrder(r, S), NEW T \in SUBSET S, T # {}
  PROVE  \E k \in T : \A j \in T \ {k} : <<j, k>> \in r
<1> DEFINE q == {p \in S \X S : <<p[2], p[1]>> \in r}
<1>1. \A j, k \in S : <<j, k>> \in q <=> <<k, j>> \in r
  OBVIOUS
<1>2. q \subseteq S \X S
  OBVIOUS
<1> HIDE DEF q
<1>3. IsOrder(q, S)
  BY <1>1, <1>2 DEF IsOrder
<1>4. PICK k \in T : \A j \in T \ {k} : <<k, j>> \in q
  BY <1>3, OldestExists
<1> QED
  BY <1>1, <1>4

\* The idle entries that come before k.
IdleOlder(k) == {j \in cached : Idle(j) /\ <<j, k>> \in used}

LEMMA VictimsAre ==
  ASSUME NEW max, NEW doomed
  PROVE  Victims(max, doomed) =
           {k \in cached : Idle(k) /\ (k \in doomed \/ Bytes(cached \ IdleOlder(k)) > max)}
BY DEF Victims, IdleOlder

\* What is left fits, unless something that is left is being read.
LEMMA TrimFits ==
  ASSUME TypeOK, FilesOfEntries, NEW max \in Nat, NEW doomed
  PROVE  \/ Bytes(cached \ Victims(max, doomed)) <= max
         \/ \E k \in cached : active[k] # 0
<1> DEFINE left == cached \ Victims(max, doomed)
<1> SUFFICES ASSUME \A k \in cached : active[k] = 0
             PROVE  Bytes(left) <= max
  OBVIOUS
<1>1. cached \in SUBSET Keys /\ IsOrder(used, cached) /\ left \in SUBSET cached
  BY DEF TypeOK
<1>2. CASE left = {}
  BY <1>2, BytesSum
<1>3. CASE left # {}
  <2> HIDE DEF left
  <2>1. PICK k \in left : \A j \in left \ {k} : <<k, j>> \in used
    BY <1>1, <1>3, OldestExists
  <2>2. Idle(k) /\ k \in cached
    BY <1>1 DEF Idle, FilesOfEntries
  <2>3. ~(Bytes(cached \ IdleOlder(k)) > max)
    BY <2>2, VictimsAre DEF left
  <2>4. left \subseteq cached \ IdleOlder(k)
    BY <1>1, <2>1 DEF IdleOlder, IsOrder
  <2>5. cached \ IdleOlder(k) \in SUBSET Keys
    BY <1>1
  <2>6. /\ Bytes(left) <= Bytes(cached \ IdleOlder(k))
        /\ Bytes(left) \in Nat /\ Bytes(cached \ IdleOlder(k)) \in Nat
    BY <1>1, <2>4, <2>5, BytesGrow, BytesSum
  <2> QED
    BY <2>3, <2>6
<1> QED
  BY <1>2, <1>3

\* Who was removed before k, if the entries before k were dealt with as Victims
\* says, leaves too much exactly if all idle ones together leave too much.
LEMMA VictimsBefore ==
  ASSUME TypeOK, NEW max \in Nat, NEW doomed, NEW k \in cached
  PROVE  Bytes(cached \ (Victims(max, doomed) \cap IdleOlder(k))) > max
           <=> Bytes(cached \ IdleOlder(k)) > max
<1> DEFINE V == Victims(max, doomed)
           gone == V \cap IdleOlder(k)
<1>1. cached \in SUBSET Keys /\ IsOrder(used, cached)
  BY DEF TypeOK
<1>2. \A S \in SUBSET cached : Bytes(S) \in Nat
  BY <1>1, BytesSum
<1>3. \A S \in SUBSET cached : \A T \in SUBSET S : Bytes(T) <= Bytes(S)
  BY <1>1, BytesGrow
<1>4. CASE IdleOlder(k) \subseteq V
  BY <1>4
<1>5. CASE ~(IdleOlder(k) \subseteq V)
  <2> DEFINE spared == IdleOlder(k) \ V
  <2>1. spared \in SUBSET cached /\ spared # {}
    BY <1>5 DEF IdleOlder
  <2>2. PICK j \in spared : \A i \in spared \ {j} : <<j, i>> \in used
    <3> HIDE DEF spared
    <3> QED
      BY <1>1, <2>1, OldestExists
  <2>3. j \in cached /\ Idle(j) /\ <<j, k>> \in used /\ j \notin V
    BY <2>2 DEF IdleOlder
  <2>4. ~(Bytes(cached \ IdleOlder(j)) > max)
    BY <2>3, VictimsAre
  <2>5. IdleOlder(j) \subseteq IdleOlder(k)
    BY <1>1, <2>3 DEF IdleOlder, IsOrder
  <2>6. IdleOlder(j) \subseteq V
    <3> SUFFICES ASSUME NEW i \in IdleOlder(j), i \notin V PROVE FALSE
      OBVIOUS
    <3>1. i \in spared /\ <<i, j>> \in used /\ i \in cached
      BY <2>5 DEF IdleOlder
    <3> QED
      BY <1>1, <2>2, <2>3, <3>1 DEF IsOrder
  <2>7. /\ cached \ gone \subseteq cached \ IdleOlder(j)
        /\ cached \ IdleOlder(k) \subseteq cached \ IdleOlder(j)
    BY <2>5, <2>6
  <2> DEFINE A == cached \ gone
             B == cached \ IdleOlder(k)
             C == cached \ IdleOlder(j)
  <2>8. A \in SUBSET C /\ B \in SUBSET C /\ C \in SUBSET cached
    BY <2>7
  <2> HIDE DEF A, B, C
  <2>9. Bytes(A) <= Bytes(C) /\ Bytes(B) <= Bytes(C)
    BY <1>3, <2>8
  <2>10. Bytes(A) \in Nat /\ Bytes(B) \in Nat /\ Bytes(C) \in Nat
    BY <1>2, <2>8
  <2>11. ~(Bytes(C) > max)
    BY <2>4 DEF C
  <2>12. ~(Bytes(A) > max) /\ ~(Bytes(B) > max)
    BY <2>9, <2>10, <2>11
  <2> QED
    BY <2>12 DEF A, B
<1> QED
  BY <1>4, <1>5

\* The loop computes with a function on the sets of entries.
Dealt(f, max, doomed, S) ==
  f[S] = IF S = {} THEN {}
         ELSE IF /\ Idle(Newest(S))
                 /\ Newest(S) \in doomed \/ Bytes(cached \ f[S \ {Newest(S)}]) > max
              THEN f[S \ {Newest(S)}] \cup {Newest(S)}
              ELSE f[S \ {Newest(S)}]

LEMMA NewestIs ==
  ASSUME TypeOK, NEW S \in SUBSET cached, S # {}
  PROVE  Newest(S) \in S /\ \A j \in S \ {Newest(S)} : <<j, Newest(S)>> \in used
<1>1. cached \in SUBSET Keys /\ IsOrder(used, cached)
  BY DEF TypeOK
<1>2. \E k \in S : \A j \in S \ {k} : <<j, k>> \in used
  BY <1>1, NewestExists
<1> QED
  BY <1>2 DEF Newest

LEMMA DealtExists ==
  ASSUME TypeOK, NEW max, NEW doomed, NEW n \in Nat
  PROVE  \E f : /\ f = [S \in SUBSET cached |-> f[S]]
                /\ \A S \in SUBSET cached : Cardinality(S) <= n => Dealt(f, max, doomed, S)
<1> DEFINE Ok(f, m) ==
             /\ f = [S \in SUBSET cached |-> f[S]]
             /\ \A S \in SUBSET cached : Cardinality(S) <= m => Dealt(f, max, doomed, S)
           Bad == {m \in Nat : ~ \E f : Ok(f, m)}
<1> SUFFICES ASSUME Bad # {} PROVE FALSE
  OBVIOUS
<1>1. PICK m \in Bad : \A i \in Bad : m <= i
  BY LeastNumber
<1>2. m \in Nat /\ ~ \E f : Ok(f, m)
  OBVIOUS
<1>3. \A S \in SUBSET cached :
        /\ S \in SUBSET Keys /\ Cardinality(S) \in Nat /\ (S = {} <=> Cardinality(S) = 0)
        /\ \A x \in S : Cardinality(S \ {x}) = Cardinality(S) - 1
  BY KeysAreFinite DEF TypeOK
<1>4. CASE m = 0
  <2> DEFINE f == [S \in SUBSET cached |-> {}]
  <2>1. \A S \in SUBSET cached : Cardinality(S) <= 0 => S = {}
    BY <1>3
  <2>2. Ok(f, 0)
    BY <2>1 DEF Dealt
  <2> QED
    BY <1>2, <1>4, <2>2
<1>5. CASE m > 0
  <2>1. m - 1 \in Nat /\ ~(m <= m - 1)
    BY <1>2, <1>5
  <2>2. PICK f : Ok(f, m - 1)
    BY <1>1, <2>1
  <2> DEFINE Step(S) ==
        IF S = {} THEN {}
        ELSE IF /\ Idle(Newest(S))
                /\ Newest(S) \in doomed \/ Bytes(cached \ f[S \ {Newest(S)}]) > max
             THEN f[S \ {Newest(S)}] \cup {Newest(S)}
             ELSE f[S \ {Newest(S)}]
  <2> DEFINE g == [S \in SUBSET cached |-> Step(S)]
  <2>3. \A S \in SUBSET cached : Cardinality(S) <= m - 1 => g[S] = f[S]
    BY <2>2 DEF Dealt
  <2>4. ASSUME NEW S \in SUBSET cached, Cardinality(S) <= m, S # {}
        PROVE  S \ {Newest(S)} \in SUBSET cached /\ g[S \ {Newest(S)}] = f[S \ {Newest(S)}]
    <3>1. Newest(S) \in S
      BY <2>4, NewestIs
    <3>2. Cardinality(S \ {Newest(S)}) <= m - 1
      BY <1>2, <1>3, <2>4, <3>1
    <3> QED
      BY <2>3, <3>2
  <2>5. ASSUME NEW S \in SUBSET cached, Cardinality(S) <= m PROVE Dealt(g, max, doomed, S)
    <3>1. CASE S = {}
      BY <3>1 DEF Dealt
    <3>2. CASE S # {}
      <4>1. g[S] = Step(S) /\ g[S \ {Newest(S)}] = f[S \ {Newest(S)}]
        BY <2>4, <2>5, <3>2
      <4> HIDE DEF g
      <4> QED
        BY <3>2, <4>1 DEF Dealt
    <3> QED
      BY <3>1, <3>2
  <2>6. g = [S \in SUBSET cached |-> g[S]]
    OBVIOUS
  <2> HIDE DEF g
  <2>7. Ok(g, m)
    BY <2>5, <2>6
  <2> QED
    BY <1>2, <2>7
<1> QED
  BY <1>2, <1>4, <1>5

LEMMA LoopIs ==
  ASSUME TypeOK, NEW max, NEW doomed
  PROVE  \E f : /\ \A S \in SUBSET cached : Dealt(f, max, doomed, S)
                /\ Loop(max, doomed) = f[cached]
<1> DEFINE IsLoop(f) ==
             f = [S \in SUBSET cached |->
                    IF S = {} THEN {}
                    ELSE IF /\ Idle(Newest(S))
                            /\ Newest(S) \in doomed \/ Bytes(cached \ f[S \ {Newest(S)}]) > max
                         THEN f[S \ {Newest(S)}] \cup {Newest(S)}
                         ELSE f[S \ {Newest(S)}]]
           loop == CHOOSE f : IsLoop(f)
<1>1. Cardinality(cached) \in Nat
      /\ \A S \in SUBSET cached : Cardinality(S) <= Cardinality(cached)
  BY KeysAreFinite, FS_Subset DEF TypeOK
<1>2. PICK f : /\ f = [S \in SUBSET cached |-> f[S]]
               /\ \A S \in SUBSET cached : Dealt(f, max, doomed, S)
  BY <1>1, DealtExists
<1>3. IsLoop(f)
  BY <1>2 DEF Dealt
<1>4. IsLoop(loop)
  BY <1>3
<1>5. Loop(max, doomed) = loop[cached]
  BY DEF Loop
<1> HIDE DEF loop
<1>6. \A S \in SUBSET cached : Dealt(loop, max, doomed, S)
  BY <1>4 DEF Dealt
<1> QED
  BY <1>5, <1>6

\* The entries of S are older than the others.
Eldest(S) == \A k \in S : \A j \in cached : <<j, k>> \in used => j \in S

\* The loop arrives at Victims.
LEMMA LoopIsVictims ==
  ASSUME TypeOK, NEW max \in Nat, NEW doomed
  PROVE  Loop(max, doomed) = Victims(max, doomed)
<1> DEFINE V == Victims(max, doomed)
<1>1. PICK f : /\ \A S \in SUBSET cached : Dealt(f, max, doomed, S)
               /\ Loop(max, doomed) = f[cached]
  BY LoopIs
<1> DEFINE Holds(S) == Eldest(S) => f[S] = V \cap S
           Bad == {n \in Nat : \E S \in SUBSET cached : Cardinality(S) = n /\ ~Holds(S)}
<1>2. Bad = {}
  <2> SUFFICES ASSUME Bad # {} PROVE FALSE
    OBVIOUS
  <2>1. PICK n \in Bad : \A m \in Bad : n <= m
    BY LeastNumber
  <2>2. PICK S \in SUBSET cached : n \in Nat /\ Cardinality(S) = n /\ ~Holds(S)
    OBVIOUS
  <2>3. Eldest(S) /\ f[S] # V \cap S
    BY <2>2
  <2>4. S # {}
    BY <1>1, <2>3 DEF Dealt
  <2> DEFINE k == Newest(S)
             rest == S \ {k}
  <2>5. k \in S /\ k \in cached /\ \A j \in rest : <<j, k>> \in used
    BY <2>4, NewestIs
  <2>6. f[S] = IF Idle(k) /\ (k \in doomed \/ Bytes(cached \ f[rest]) > max)
               THEN f[rest] \cup {k} ELSE f[rest]
    BY <1>1, <2>4 DEF Dealt
  <2> HIDE DEF k
  <2>7. cached \in SUBSET Keys /\ IsOrder(used, cached)
    BY DEF TypeOK
  <2>8. Eldest(rest)
    BY <2>3, <2>5, <2>7 DEF Eldest, IsOrder
  <2>9. f[rest] = V \cap rest
    <3>1. /\ rest \in SUBSET cached /\ Cardinality(rest) = n - 1
          /\ Cardinality(rest) \in Nat
      BY <2>2, <2>5, <2>7, KeysAreFinite
    <3>2. n - 1 \in Nat /\ ~(n <= n - 1)
      BY <2>2, <3>1
    <3> QED
      BY <2>1, <2>8, <3>1, <3>2
  <2>10. \A j \in cached : <<j, k>> \in used <=> j \in rest
    BY <2>3, <2>5, <2>7 DEF Eldest, IsOrder
  <2>11. V \cap rest = V \cap IdleOlder(k)
    BY <2>10, VictimsAreIdle, VictimsAre DEF IdleOlder
  <2>12. Bytes(cached \ f[rest]) > max <=> Bytes(cached \ IdleOlder(k)) > max
    BY <2>5, <2>9, <2>11, VictimsBefore
  <2>13. k \in V <=> Idle(k) /\ (k \in doomed \/ Bytes(cached \ f[rest]) > max)
    BY <2>5, <2>12, VictimsAre
  <2> HIDE DEF V
  <2>14. f[S] = V \cap S
    BY <2>5, <2>6, <2>9, <2>13
  <2> QED
    BY <2>3, <2>14
<1>3. Eldest(cached) /\ cached \in SUBSET cached /\ Cardinality(cached) \in Nat
  BY KeysAreFinite DEF Eldest, TypeOK
<1>4. f[cached] = V \cap cached
  BY <1>2, <1>3
<1> QED
  BY <1>1, <1>4, VictimsAreIdle

\* For every limit, what the loop of trimLocked removes is what Victims says of
\* each entry (media.go:73-96).
THEOREM TrimIsLoopHolds == Spec => []TrimIsLoop
<1>1. TypeOK => TrimIsLoop
  <2> SUFFICES ASSUME TypeOK, NEW max \in Limits \cup {0}, NEW doomed \in {pending, cached}
               PROVE  Victims(max, doomed) = Loop(max, doomed)
    BY DEF TrimIsLoop
  <2>1. max \in Nat
    BY CacheAssumption
  <2> QED
    BY <2>1, LoopIsVictims
<1> QED
  BY <1>1, TypeCorrect, PTL

-----------------------------------------------------------------------------
(* The limit.                                                              *)

SomeoneReads == \E c \in Callers : pc[c] = "entry"

\* Someone will trim who has not read an old limit.
WillTrim ==
  \E c \in Callers : pc[c] = "limit" \/ (pc[c] = "trim" /\ seen[c] = limit)

\* From the first trim of the process on, and from when one is due, the entries
\* fit, or are being read, or will be trimmed by the present limit.
LimitInv ==
  trimmed \/ AboutToTrim # {} => Bytes(cached) <= limit \/ SomeoneReads \/ WillTrim

LEMMA FewerFit ==
  ASSUME TypeOK, NEW S \in SUBSET cached, NEW n \in Nat, Bytes(cached) <= n
  PROVE  Bytes(S) <= n
<1>1. cached \in SUBSET Keys
  BY DEF TypeOK
<1>2. Bytes(S) <= Bytes(cached) /\ Bytes(S) \in Nat /\ Bytes(cached) \in Nat
  BY <1>1, BytesGrow, BytesSum
<1> QED
  BY <1>2

\* An entry with a lease has a reader.
LEMMA ActiveIsRead ==
  ASSUME TypeOK, ActiveCountsLeases, NEW k \in cached, active[k] # 0
  PROVE  SomeoneReads
<1>1. k \in Keys /\ active[k] = Cardinality(Readers(k))
  BY DEF TypeOK, ActiveCountsLeases
<1>2. Readers(k) # {}
  BY <1>1, FS_EmptySet
<1> QED
  BY <1>2 DEF Readers, SomeoneReads

LEMMA LimitStep == TypeInv /\ LeaseInv /\ LimitInv /\ [Next]_vars => LimitInv'
<1> SUFFICES ASSUME TypeInv, LeaseInv, LimitInv, [Next]_vars PROVE LimitInv'
  OBVIOUS
<1>0. TypeOK /\ FilesOfEntries /\ ActiveCountsLeases
  BY DEF TypeInv, LeaseInv
<1>1. limit \in Nat /\ pc \in [Callers -> Places] /\ seen \in [Callers -> Nat]
  BY <1>0 DEF TypeOK
<1>2. ASSUME NEW c \in Callers, Trim(c) PROVE LimitInv'
  <2> DEFINE gone == Victims(seen[c], pending)
  <2>1. /\ pc[c] = "trim" /\ cached' = cached \ gone /\ limit' = limit
        /\ seen' = seen /\ pc' = [pc EXCEPT ![c] = "idle"]
    BY <1>2 DEF Trim, Evict, Goto
  <2>2. SomeoneReads => SomeoneReads'
    BY <1>1, <2>1 DEF SomeoneReads
  <2>3. CASE seen[c] = limit
    <3>1. Bytes(cached \ gone) <= limit \/ SomeoneReads
      BY <1>0, <1>1, <2>3, TrimFits, ActiveIsRead
    <3> QED
      BY <2>1, <2>2, <3>1 DEF LimitInv
  <2>4. CASE seen[c] # limit
    <3>1. Bytes(cached) <= limit \/ SomeoneReads \/ WillTrim
      BY <2>1 DEF LimitInv, AboutToTrim
    <3>2. WillTrim => WillTrim'
      BY <1>1, <2>1, <2>4 DEF WillTrim
    <3>3. Bytes(cached) <= limit => Bytes(cached') <= limit
      BY <1>0, <1>1, <2>1, FewerFit
    <3> QED
      BY <2>1, <2>2, <3>1, <3>2, <3>3 DEF LimitInv
  <2> QED
    BY <2>3, <2>4
<1>3. CASE Clear
  <2>1. cached' = cached \ Victims(0, Doomed) /\ UNCHANGED <<limit, pc, seen>>
    BY <1>3 DEF Clear, caller
  <2>2. Bytes(cached') <= 0 \/ SomeoneReads
    BY <1>0, <2>1, TrimFits, ActiveIsRead
  <2>3. cached' \in SUBSET Keys
    BY <1>0, <2>1 DEF TypeOK
  <2>4. Bytes(cached') <= limit \/ SomeoneReads
    BY <1>1, <2>2, <2>3, BytesSum
  <2> QED
    BY <2>1, <2>4 DEF LimitInv, SomeoneReads
<1>4. CASE Restart
  BY <1>4 DEF Restart, NewCache, LimitInv, AboutToTrim
<1>5. ASSUME NEW c \in Callers,
             \/ Release(c) \/ ReadLimit(c) \/ Hit(c) \/ Keep(c)
             \/ \E n \in Limits : SetLimit(c, n)
      PROVE  LimitInv'
  <2>1. CASE Release(c) \/ \E n \in Limits : SetLimit(c, n)
    BY <1>1, <2>1 DEF Release, SetLimit, Goto, LimitInv, WillTrim
  <2>2. CASE ReadLimit(c)
    BY <1>1, <2>2 DEF ReadLimit, Goto, LimitInv, WillTrim
  <2>3. CASE Hit(c) \/ Keep(c)
    BY <1>1, <2>3 DEF Hit, Keep, Goto, LimitInv, SomeoneReads
  <2> QED
    BY <1>5, <2>1, <2>2, <2>3
<1>6. ASSUME NEW c \in Callers,
             \/ \E k \in Keys : Ask(c, k)
             \/ Disconnect(c) \/ GiveUp(c) \/ TakeTurn(c) \/ Miss(c) \/ Convert(c)
             \/ Serve(c) \/ RenameFails(c) \/ ReleaseTemporary(c)
      PROVE  LimitInv'
  <2>1. /\ limit' = limit /\ trimmed' = trimmed
        /\ \A d \in Callers :
             /\ pc[d] = "entry" <=> pc'[d] = "entry"
             /\ pc[d] = "limit" <=> pc'[d] = "limit"
             /\ pc[d] = "trim" <=> pc'[d] = "trim"
             /\ pc[d] = "trim" => seen'[d] = seen[d]
    BY <1>1, <1>6 DEF Ask, Disconnect, GiveUp, TakeTurn, Miss, Convert, ConvertFails,
       Converted, Serve, RenameFails, ReleaseTemporary, Goto, caller, ghost
  <2>2. cached' \in SUBSET cached
    BY <1>6 DEF Ask, Disconnect, GiveUp, TakeTurn, Miss, Convert, ConvertFails,
       Converted, Serve, Evict, RenameFails, ReleaseTemporary, table
  <2>3. Bytes(cached) <= limit => Bytes(cached') <= limit
    BY <1>0, <1>1, <2>2, FewerFit
  <2> QED
    BY <2>1, <2>3 DEF LimitInv, AboutToTrim, SomeoneReads, WillTrim
<1>7. CASE UNCHANGED vars
  BY <1>7 DEF vars, table, caller, ghost, LimitInv, AboutToTrim, SomeoneReads, WillTrim
<1> QED
  BY <1>2, <1>3, <1>4, <1>5, <1>6, <1>7 DEF Next, Lookup, Store

\* The entries stay within the limit that is read before the mutex is taken and
\* may be lowered meanwhile: whoever lowers it is about to trim by it
\* (media.go:98-101, 195-202).
THEOREM LimitHoldsAlways == Spec => []LimitHolds
<1>1. Init => LimitInv
  BY DEF Init, LimitInv, AboutToTrim
<1>2. LimitInv => LimitHolds
  BY DEF LimitInv, LimitHolds, WillTrim, AboutToTrim, SomeoneReads
<1> QED
  BY <1>1, <1>2, CacheInvariant, LimitStep, PTL DEF Spec
=============================================================================
