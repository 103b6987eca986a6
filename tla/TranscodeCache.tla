--------------------------- MODULE TranscodeCache ---------------------------
(***************************************************************************)
(* The transcode cache of internal/app/media.go: requests that acquire a   *)
(* converted file and give it back, beside changes of the limit, manual    *)
(* cleaning and restarts.                                                  *)
(*                                                                         *)
(* A key stands for a track with its output settings, a caller for one     *)
(* goroutine that calls Acquire (a stream, a preview, a prefetch) or       *)
(* serves PUT /api/cache. Each section under the mutex of the cache is one *)
(* action. Go defers the deletion of the job and the return of the key's   *)
(* token to the end of Acquire; both belong to the section before them     *)
(* here, since nobody can tell the moment in between from a longer wait.   *)
(***************************************************************************)
EXTENDS Integers, FiniteSets, FiniteSetsExt

CONSTANTS
  Callers,  \* goroutines that use the cache
  Keys,     \* cache keys
  Size,     \* the bytes of each key's converted file
  Limits,   \* the limits the cache is given
  NoKey     \* what an idle caller wants

ASSUME CacheAssumption ==
  /\ IsFiniteSet(Callers)
  /\ IsFiniteSet(Keys)
  /\ Size \in [Keys -> Nat]
  /\ Limits \subseteq Nat
  /\ NoKey \notin Keys

VARIABLES
  (* the directory *)
  files,    \* keys whose converted file exists under its final name
  temps,    \* callers whose .part file exists
  written,  \* the order of the files' modification times
  (* the fields of Cache and of its entries *)
  cached,   \* keys that have an entry
  active,   \* cacheEntry.Active
  pending,  \* the entries with cacheEntry.Pending
  used,     \* the order of cacheEntry.Used
  turn,     \* keys whose token lies in their channel
  jobs,     \* callers with a job in Cache.jobs
  marked,   \* the jobs whose value is true
  limit,    \* Store.CacheLimit
  (* the callers *)
  pc,       \* where each caller stands
  wants,    \* the key it asked for
  live,     \* callers whose context is not cancelled
  seen,     \* the limit each caller read last
  (* what only the properties look at *)
  trimmed,  \* a trim happened since the process started
  outdated, \* files that are older than the last cleaning
  revived,  \* those of them that a restart has made entries like any other
  late      \* conversions that began before the last cleaning

directory == <<files, temps, written>>
table == <<cached, active, pending, used>>
work == <<turn, jobs, marked>>
caller == <<pc, wants, live, seen>>
ghost == <<trimmed, outdated, revived, late>>
vars == <<directory, table, work, limit, caller, ghost>>

\* Where a caller stands. "entry" and "temporary" are the two kinds of lease
\* that Acquire returns; "limit" and "trim" are the two steps of Trim.
Converting == {"convert", "store"}
Turned == {"lookup"} \cup Converting
Places == {"idle", "waiting", "entry", "temporary", "limit", "trim"} \cup Turned

-----------------------------------------------------------------------------
(* Times and bytes.                                                        *)

\* r orders the set S in time: <<j, k>> \in r when j is older than k.
IsOrder(r, S) ==
  /\ r \subseteq S \X S
  /\ \A j, k \in S : <<j, k>> \in r <=> (j # k /\ <<k, j>> \notin r)
  /\ \A i, j, k \in S : <<i, j>> \in r /\ <<j, k>> \in r => <<i, k>> \in r

Among(r, S) == r \cap (S \X S)

\* The order of S with k as its youngest.
Latest(r, S, k) == Among(r, S \ {k}) \cup ((S \ {k}) \X {k})

\* The orders of S with k anywhere.
Inserted(r, S, k) ==
  {q \in SUBSET (S \X S) : IsOrder(q, S) /\ Among(q, S \ {k}) = Among(r, S \ {k})}

Bytes(S) == MapThenSumSet(LAMBDA k : Size[k], S)

\* What trimLocked may remove. The mutant does not look at the leases.
IdleOrNot(k) == k \in files
Idle(k) == active[k] = 0 /\ k \in files

\* trimLocked(max) goes through the entries from the least recently used one
\* on, and removes an idle entry that is doomed or while more than max is used.
\* When it comes to k while too much is used, it has removed all idle entries
\* that are older. The mutants begin with the most recently used one, and forget what
\* is doomed.
VictimsYoungest(max, doomed) ==
  {k \in cached :
     /\ Idle(k)
     /\ \/ k \in doomed
        \/ Bytes(cached \ {j \in cached : Idle(j) /\ <<k, j>> \in used}) > max}

VictimsForRoom(max, doomed) ==
  {k \in cached :
     /\ Idle(k)
     /\ Bytes(cached \ {j \in cached : Idle(j) /\ <<j, k>> \in used}) > max}

Victims(max, doomed) ==
  {k \in cached :
     /\ Idle(k)
     /\ \/ k \in doomed
        \/ Bytes(cached \ {j \in cached : Idle(j) /\ <<j, k>> \in used}) > max}

\* The entries and files of "gone" disappear.
Evict(gone) ==
  /\ files' = files \ gone
  /\ written' = Among(written, files \ gone)
  /\ cached' = cached \ gone
  /\ pending' = pending \ gone
  /\ used' = Among(used, cached \ gone)
  /\ active' = active

-----------------------------------------------------------------------------
\* NewCache over a directory: every file that is not a .part is an entry, also
\* one that a cleaning had left to its readers. What was pending is forgotten,
\* and nothing is trimmed.
NewCache ==
  /\ cached' = files /\ used' = written
  /\ active' = [k \in Keys |-> 0] /\ pending' = {}
  /\ temps' = {}
  /\ turn' = Keys /\ jobs' = {} /\ marked' = {}
  /\ trimmed' = FALSE /\ outdated' = outdated /\ revived' = outdated /\ late' = {}

Init ==
  /\ files \in SUBSET Keys
  /\ written \in {r \in SUBSET (files \X files) : IsOrder(r, files)}
  /\ temps = {}
  /\ cached = files /\ used = written
  /\ active = [k \in Keys |-> 0] /\ pending = {}
  /\ turn = Keys /\ jobs = {} /\ marked = {}
  /\ limit \in Limits
  /\ pc = [c \in Callers |-> "idle"]
  /\ wants = [c \in Callers |-> NoKey]
  /\ live = {}
  /\ seen = [c \in Callers |-> 0]
  /\ trimmed = FALSE /\ outdated = {} /\ revived = {} /\ late = {}

\* Caller c moves from one place to another.
Goto(c, from, to) == pc[c] = from /\ pc' = [pc EXCEPT ![c] = to]

-----------------------------------------------------------------------------
(* Acquire.                                                                *)

Ask(c, k) ==
  /\ Goto(c, "idle", "waiting")
  /\ wants' = [wants EXCEPT ![c] = k]
  /\ live' = live \cup {c}
  /\ UNCHANGED <<directory, table, work, limit, seen, ghost>>

\* The request is cancelled: its client left, or playback moved on.
Disconnect(c) ==
  /\ pc[c] \in {"waiting"} \cup Turned
  /\ c \in live
  /\ live' = live \ {c}
  /\ UNCHANGED <<directory, table, work, limit, pc, wants, seen, ghost>>

\* A cancelled caller leaves the queue, or gives a token it got straight back.
GiveUp(c) ==
  /\ Goto(c, "waiting", "idle")
  /\ c \notin live
  /\ wants' = [wants EXCEPT ![c] = NoKey]
  /\ UNCHANGED <<directory, table, work, limit, live, seen, ghost>>

\* The receive from the channel of the key. The mutant does not wait.
HasTurnAlways(c) == TRUE
HasTurn(c) == wants[c] \in turn

TakeTurn(c) ==
  /\ HasTurn(c)
  /\ c \in live
  /\ Goto(c, "waiting", "lookup")
  /\ turn' = turn \ {wants[c]}
  /\ UNCHANGED <<directory, table, jobs, marked, limit, wants, live, seen, ghost>>

\* The deferred return of the token. The mutant forgets it.
GiveTurnNever(c) == turn' = turn
GiveTurn(c) == turn' = turn \cup {wants[c]}

Hit(c) ==
  /\ Goto(c, "lookup", "entry")
  /\ wants[c] \in cached \ pending
  /\ active' = [active EXCEPT ![wants[c]] = @ + 1]
  /\ used' = Latest(used, cached, wants[c])
  /\ GiveTurn(c)
  /\ UNCHANGED <<directory, cached, pending, jobs, marked, limit, wants, live, seen, ghost>>

\* The job is registered and the temporary file made. Clear may come in between
\* in the code, and finds the job either way.
Miss(c) ==
  /\ Goto(c, "lookup", "convert")
  /\ wants[c] \notin cached \ pending
  /\ jobs' = jobs \cup {c}
  /\ temps' = temps \cup {c}
  /\ UNCHANGED <<files, written, table, turn, marked, limit, wants, live, seen, ghost>>

\* ffmpeg or the file system fails, or the cancelled context kills ffmpeg.
ConvertFails(c) ==
  /\ Goto(c, "convert", "idle")
  /\ temps' = temps \ {c}
  /\ jobs' = jobs \ {c} /\ marked' = marked \ {c}
  /\ GiveTurn(c)
  /\ wants' = [wants EXCEPT ![c] = NoKey]
  /\ late' = late \ {c}
  /\ UNCHANGED <<files, written, table, limit, live, seen, trimmed, outdated, revived>>

\* ffmpeg is done; the limit is read before the mutex is taken.
Converted(c) ==
  /\ Goto(c, "convert", "store")
  /\ seen' = [seen EXCEPT ![c] = limit]
  /\ UNCHANGED <<directory, table, work, limit, wants, live, ghost>>

\* The trim that makes room for the result.
MadeRoom(c) ==
  Victims(IF seen[c] > Size[wants[c]] THEN seen[c] - Size[wants[c]] ELSE 0, pending)

\* Whether the result stays a temporary file. The mutant stores it although the
\* cache was cleaned meanwhile.
TooLarge(c, rest) == Bytes(rest) + Size[wants[c]] > seen[c]
CleanedIgnored(c) == FALSE
Cleaned(c) == c \in marked
BeingRead(k, rest) == k \in rest /\ active[k] > 0
Misfit(c, rest) == TooLarge(c, rest) \/ Cleaned(c) \/ BeingRead(wants[c], rest)

\* The caller serves the temporary file. Its job goes on until it is released.
Serve(c) ==
  LET gone == MadeRoom(c)
  IN /\ Goto(c, "store", "temporary")
     /\ Misfit(c, cached \ gone)
     /\ Evict(gone)
     /\ GiveTurn(c)
     /\ outdated' = outdated \ gone /\ revived' = revived \ gone
     /\ late' = late \ {c}
     /\ UNCHANGED <<temps, jobs, marked, limit, wants, live, seen, trimmed>>

\* The result replaces whatever has its name, and the caller leases it. Its
\* modification time is when ffmpeg wrote it last: others may have been written
\* or released since.
Keep(c) ==
  LET k == wants[c]
      gone == MadeRoom(c)
      rest == (cached \ gone) \cup {k}
  IN /\ Goto(c, "store", "entry")
     /\ ~Misfit(c, cached \ gone)
     /\ files' = (files \ gone) \cup {k}
     /\ written' \in Inserted(written, files', k)
     /\ temps' = temps \ {c}
     /\ cached' = rest
     /\ active' = [active EXCEPT ![k] = 1]
     /\ pending' = pending \ (gone \cup {k})
     /\ used' = Latest(Among(used, cached \ gone), rest, k)
     /\ jobs' = jobs \ {c} /\ marked' = marked \ {c}
     /\ GiveTurn(c)
     /\ outdated' = IF c \in late THEN (outdated \ gone) \cup {k}
                    ELSE outdated \ (gone \cup {k})
     /\ revived' = revived \ (gone \cup {k})
     /\ late' = late \ {c}
     /\ UNCHANGED <<limit, wants, live, seen, trimmed>>

\* The rename fails after a file of that name was removed.
RenameFails(c) ==
  LET gone == MadeRoom(c)
      rest == files \ (gone \cup {wants[c]})
  IN /\ Goto(c, "store", "idle")
     /\ ~Misfit(c, cached \ gone)
     /\ files' = rest /\ written' = Among(written, rest)
     /\ temps' = temps \ {c}
     /\ cached' = cached \ gone
     /\ pending' = pending \ gone
     /\ used' = Among(used, cached \ gone)
     /\ jobs' = jobs \ {c} /\ marked' = marked \ {c}
     /\ GiveTurn(c)
     /\ wants' = [wants EXCEPT ![c] = NoKey]
     /\ outdated' = outdated \ gone /\ revived' = revived \ gone
     /\ late' = late \ {c}
     /\ UNCHANGED <<active, limit, live, seen, trimmed>>

-----------------------------------------------------------------------------
(* Release, Trim and Clear.                                                *)

\* The lease of an entry goes back by its key; Trim follows.
Release(c) ==
  LET k == wants[c]
  IN /\ Goto(c, "entry", "limit")
     /\ IF k \in cached
        THEN /\ active' = [active EXCEPT ![k] = @ - 1]
             /\ used' = Latest(used, cached, k)
             /\ written' = IF k \in files THEN Latest(written, files, k) ELSE written
        ELSE UNCHANGED <<active, used, written>>
     /\ wants' = [wants EXCEPT ![c] = NoKey]
     /\ UNCHANGED <<files, temps, cached, pending, work, limit, live, seen, ghost>>

ReleaseTemporary(c) ==
  /\ Goto(c, "temporary", "idle")
  /\ temps' = temps \ {c}
  /\ jobs' = jobs \ {c} /\ marked' = marked \ {c}
  /\ wants' = [wants EXCEPT ![c] = NoKey]
  /\ UNCHANGED <<files, written, table, turn, limit, live, seen, ghost>>

\* Trim reads the limit before it takes the mutex.
ReadLimit(c) ==
  /\ Goto(c, "limit", "trim")
  /\ seen' = [seen EXCEPT ![c] = limit]
  /\ UNCHANGED <<directory, table, work, limit, wants, live, ghost>>

Trim(c) ==
  LET gone == Victims(seen[c], pending)
  IN /\ Goto(c, "trim", "idle")
     /\ Evict(gone)
     /\ trimmed' = TRUE
     /\ outdated' = outdated \ gone /\ revived' = revived \ gone
     /\ UNCHANGED <<temps, work, limit, wants, live, seen, late>>

\* PUT /api/cache: the new limit is stored, then Trim. The mutant leaves the
\* trimming to the next release.
SetLimitOnly(c, n) ==
  /\ Goto(c, "idle", "idle")
  /\ limit' = n
  /\ UNCHANGED <<directory, table, work, wants, live, seen, ghost>>

SetLimit(c, n) ==
  /\ Goto(c, "idle", "limit")
  /\ limit' = n
  /\ UNCHANGED <<directory, table, work, wants, live, seen, ghost>>

\* DELETE /api/cache: every entry becomes pending. The mutant spares the entries
\* that are being read.
DoomedIdle == {k \in cached : Idle(k)}
Doomed == cached

Clear ==
  LET gone == Victims(0, Doomed)
  IN /\ files' = files \ gone
     /\ written' = Among(written, files \ gone)
     /\ cached' = cached \ gone
     /\ pending' = (pending \cup Doomed) \ gone
     /\ used' = Among(used, cached \ gone)
     /\ marked' = jobs
     /\ trimmed' = TRUE
     /\ outdated' = cached \ gone /\ revived' = {}
     /\ late' = {c \in Callers : pc[c] \in Converting}
     /\ UNCHANGED <<temps, active, turn, jobs, limit, caller>>

\* The process is killed and started again. Files stay, callers are gone. The
\* .part files of conversions under way are removed.
Restart ==
  /\ NewCache
  /\ pc' = [c \in Callers |-> "idle"]
  /\ wants' = [c \in Callers |-> NoKey]
  /\ live' = {}
  /\ seen' = [c \in Callers |-> 0]
  /\ UNCHANGED <<files, written, limit>>

-----------------------------------------------------------------------------
Store(c) == Serve(c) \/ Keep(c) \/ RenameFails(c)
Lookup(c) == Hit(c) \/ Miss(c)
Convert(c) == ConvertFails(c) \/ Converted(c)

Next ==
  \/ \E c \in Callers :
       \/ \E k \in Keys : Ask(c, k)
       \/ \E n \in Limits : SetLimit(c, n)
       \/ Disconnect(c) \/ GiveUp(c) \/ TakeTurn(c)
       \/ Lookup(c) \/ Convert(c) \/ Store(c)
       \/ Release(c) \/ ReleaseTemporary(c) \/ ReadLimit(c) \/ Trim(c)
  \/ Clear
  \/ Restart

Spec == Init /\ [][Next]_vars

-----------------------------------------------------------------------------
(* Properties.                                                             *)

\* Every variable has its type, and the two orders are orders of the entries
\* and of the files.
TypeOK ==
  /\ files \subseteq Keys /\ temps \subseteq Callers
  /\ cached \subseteq Keys /\ pending \subseteq cached
  /\ IsOrder(used, cached) /\ IsOrder(written, files)
  /\ active \in [Keys -> Int]
  /\ turn \subseteq Keys
  /\ jobs \subseteq Callers /\ marked \subseteq jobs
  /\ limit \in Nat
  /\ pc \in [Callers -> Places]
  /\ wants \in [Callers -> Keys \cup {NoKey}]
  /\ live \subseteq Callers
  /\ seen \in [Callers -> Nat]
  /\ trimmed \in BOOLEAN
  /\ outdated \subseteq Keys /\ revived \subseteq Keys /\ late \subseteq Callers

Readers(k) == {c \in Callers : pc[c] = "entry" /\ wants[c] = k}

\* The count of an entry is the number of its leases. A release finds its entry
\* by key, so a replaced or removed entry would be given back by the wrong
\* reader (media.go:223-228).
ActiveCountsLeases ==
  \A k \in Keys :
    /\ active[k] = Cardinality(Readers(k))
    /\ Readers(k) # {} => k \in cached

\* A file that Acquire returned exists until it is released, whatever is
\* trimmed, cleaned, evicted or converted meanwhile (media.go:84-89, 208).
LeaseHasFile ==
  \A c \in Callers :
    /\ pc[c] = "entry" => wants[c] \in files
    /\ pc[c] = "temporary" => c \in temps

\* One conversion of a key at a time, and none while the cache has its result:
\* who waited for a conversion gets its file (media.go:131-144).
ConvertedOnce ==
  \A c \in Callers :
    pc[c] \in Converting =>
      /\ wants[c] \notin cached \ pending
      /\ \A d \in Callers \ {c} : pc[d] \in Converting => wants[d] # wants[c]

\* The token of a key is never lost: it is in its channel, or with the one caller
\* that looks the key up or converts it, through failures and cancellations; who
\* waits for it can go on (media.go:128-136).
TurnIsNotLost ==
  \A k \in Keys :
    k \notin turn <=> \E c \in Callers : pc[c] \in Turned /\ wants[c] = k

\* What was made before the last cleaning is not served again: neither a file
\* that was being read then, nor the result of a conversion that was under way
\* (media.go:106-111, 202). A restart is the one way back: a file that its
\* readers still held when the process was killed is an entry like any other in
\* the next process (media.go:42-49), until it is cleaned or evicted.
ClearedStaysAway == (outdated \cap cached) \ revived \subseteq pending

\* Callers that are about to trim.
AboutToTrim == {c \in Callers : pc[c] \in {"limit", "trim"}}

\* An entry that a cleaning could not remove is gone once its last reader is
\* done (README.md:176, "removed on release").
ClearedIsRemoved ==
  AboutToTrim = {} => \A k \in pending : active[k] > 0

\* The entries stay within the limit, although it is read before the mutex is
\* taken and may be lowered meanwhile; only leases, and the files of an earlier
\* process, may exceed it (media.go:98-101, 195-202). A single lease excuses any
\* excess: what one lease may hold over the limit is not counted.
LimitHolds ==
  trimmed /\ AboutToTrim = {} =>
    \/ Bytes(cached) <= limit
    \/ \E c \in Callers : pc[c] = "entry"

\* The loop of trimLocked, entry by entry: what it has removed when it has
\* looked at the entries of S, which are the least recently used ones
\* (media.go:73-96).
Newest(S) == CHOOSE k \in S : \A j \in S \ {k} : <<j, k>> \in used
Loop(max, doomed) ==
  LET removed[S \in SUBSET cached] ==
        IF S = {} THEN {}
        ELSE LET k == Newest(S)
                 before == removed[S \ {k}]
             IN IF Idle(k) /\ (k \in doomed \/ Bytes(cached \ before) > max)
                THEN before \cup {k}
                ELSE before
  IN removed[cached]

\* The condition that Victims states for each entry by itself is what the loop
\* of trimLocked arrives at, for every limit and every reachable cache.
TrimIsLoop ==
  \A max \in Limits \cup {0}, doomed \in {pending, cached} :
    Victims(max, doomed) = Loop(max, doomed)
=============================================================================
