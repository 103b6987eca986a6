------------------------------ MODULE PageCache ------------------------------
(***************************************************************************)
(* The cache of pages (internal/app/page_cache.go). A request reads the    *)
(* library and its revision together, under the read lock of the store;    *)
(* looks for its page, under the mutex of the cache; builds the page if    *)
(* there is none of that revision; and stores it, under the mutex again.   *)
(* Between these steps the library changes and other requests proceed.     *)
(*                                                                         *)
(* Every publication of the store counts the revision up (store.go). What a*)
(* page is, Browse says, and BrowseService puts the two together; building *)
(* a page looks at nothing but the snapshot, so it is one step with the    *)
(* storing.                                                                *)
(***************************************************************************)
EXTENDS Integers, SequencesExt

CONSTANTS
  Handlers,     \* goroutines that serve requests
  MaxEntries,   \* pages in the cache: 120 in the code
  MaxBytes,     \* bytes in the cache: 20 million
  Bytes(_),     \* the length of a page
  Answers,      \* for the name of a library and a request, what is built
  Refusal,      \* the answer to a request that is refused
  Scenarios     \* for a name, what may happen in a behaviour: [libraries, keys],
                \* and bounds on the number of publications and requests

\* Only pages are cached: neither a queue nor a refusal.
IsPage(k, page) == k.path # "queue" /\ page # Refusal

Requests == UNION {Scenarios[s].keys : s \in DOMAIN Scenarios}

\* Every library of a scenario answers its requests, and a page has a length.
ASSUME CacheAssumption ==
  /\ MaxEntries \in Nat /\ MaxBytes \in Nat
  /\ \A s \in DOMAIN Scenarios : Scenarios[s].libraries \subseteq DOMAIN Answers
  /\ \A n \in DOMAIN Answers :
       \A k \in Requests :
         IsPage(k, Answers[n][k]) => Bytes(Answers[n][k]) \in Nat

VARIABLES
  scenario,  \* the name of the scenario of this behaviour; never changes
  library,   \* State, by its name
  revision,  \* pageRevision
  requests,  \* how many there were, up to the bound of the scenario
  entries,   \* for a key, [revision, page]
  order,     \* keys in the order of their first storing
  size,      \* bytes of all entries
  pc,        \* where each handler is
  key,       \* the request it serves
  seen,      \* the snapshot it took: [library, revision]
  answer     \* what it answered

cache == <<entries, order, size>>
May == Scenarios[scenario]

vars == <<scenario, library, revision, requests, cache, pc, key, seen, answer>>

Nothing == <<>>
NoEntries == [k \in {} |-> Nothing]
Without(f, k) == [x \in DOMAIN f \ {k} |-> f[x]]
With(f, k, v) == [x \in DOMAIN f \cup {k} |-> IF x = k THEN v ELSE f[x]]

Init ==
  /\ scenario \in DOMAIN Scenarios
  /\ library \in May.libraries
  /\ revision = 0 /\ requests = 0
  /\ entries = NoEntries /\ order = <<>> /\ size = 0
  /\ pc = [h \in Handlers |-> "idle"]
  /\ key = [h \in Handlers |-> Nothing]
  /\ seen = [h \in Handlers |-> Nothing]
  /\ answer = [h \in Handlers |-> Nothing]

Publish ==
  /\ revision < May.publications
  /\ library' \in May.libraries
  /\ revision' = revision + 1
  /\ UNCHANGED <<scenario, requests, cache, pc, key, seen, answer>>

Goto(h, to) == pc' = [pc EXCEPT ![h] = to]

Reply(h, page) ==
  /\ Goto(h, "answered")
  /\ answer' = [answer EXCEPT ![h] = page]

\* What is not a page is answered at once.
Take(h, k, page) ==
  IF IsPage(k, page) THEN Goto(h, "asked") /\ UNCHANGED answer
  ELSE Reply(h, page)

\* A request arrives and takes its snapshot.
Ask(h) ==
  /\ pc[h] = "idle"
  /\ requests < May.requests
  /\ requests' = requests + 1
  /\ \E k \in May.keys :
       /\ key' = [key EXCEPT ![h] = k]
       /\ Take(h, k, Answers[library][k])
  /\ seen' = [seen EXCEPT ![h] = [library |-> library, revision |-> revision]]
  /\ UNCHANGED <<scenario, library, revision, cache>>

\* Serves whatever is there.
FreshAlways(entry, h) == TRUE
Fresh(entry, h) == entry.revision = seen[h].revision

Look(h) ==
  /\ pc[h] = "asked"
  /\ IF key[h] \in DOMAIN entries /\ Fresh(entries[key[h]], h)
     THEN Reply(h, entries[key[h]].page)
     ELSE Goto(h, "building") /\ UNCHANGED answer
  /\ UNCHANGED <<scenario, library, revision, requests, cache, key, seen>>

\* The first entries go until the rest fits: one in each turn of the loop.
Fits(c) == Len(c.order) <= MaxEntries /\ c.size <= MaxBytes

FirstEvicted(c) ==
  [entries |-> Without(c.entries, Head(c.order)),
   order |-> Tail(c.order),
   size |-> c.size - Bytes(c.entries[Head(c.order)].page)]

Turn(c) == IF Fits(c) THEN c ELSE FirstEvicted(c)

Evicted(c) ==
  LET after[n \in 0..Len(c.order)] == IF n = 0 THEN c ELSE Turn(after[n - 1])
  IN  after[Len(c.order)]

\* The size of the page that is replaced is not given back.
OldBytesKept(k) == 0
OldBytes(k) == IF k \in DOMAIN entries THEN Bytes(entries[k].page) ELSE 0

Stored(k, page, at) ==
  [entries |-> With(entries, k, [revision |-> at, page |-> page]),
   order |-> IF k \in DOMAIN entries THEN order ELSE Append(order, k),
   size |-> size - OldBytes(k) + Bytes(page)]

Keep(k, page, at) ==
  LET c == Evicted(Stored(k, page, at))
  IN  entries' = c.entries /\ order' = c.order /\ size' = c.size

Built(h) == Answers[seen[h].library][key[h]]

Store(h) ==
  /\ pc[h] = "building"
  /\ Reply(h, Built(h))
  /\ Keep(key[h], Built(h), seen[h].revision)
  /\ UNCHANGED <<scenario, library, revision, requests, key, seen>>

Return(h) ==
  /\ pc[h] = "answered"
  /\ Goto(h, "idle")
  /\ key' = [key EXCEPT ![h] = Nothing]
  /\ seen' = [seen EXCEPT ![h] = Nothing]
  /\ answer' = [answer EXCEPT ![h] = Nothing]
  /\ UNCHANGED <<scenario, library, revision, requests, cache>>

Next ==
  \/ Publish
  \/ \E h \in Handlers : Ask(h) \/ Look(h) \/ Store(h) \/ Return(h)

Spec == Init /\ [][Next]_vars

-----------------------------------------------------------------------------

\* A page is that of the library the request saw, however many requests build
\* and store pages of other revisions meanwhile: a client that has seen a new
\* version is not answered with an older page (page_cache.go:25-59).
PageIsOfSnapshot ==
  \A h \in Handlers :
    pc[h] = "answered" => answer[h] = Built(h)

\* The bytes of the pages under the keys of a sequence.
Total(pages, keys) ==
  LET upTo[n \in 0..Len(keys)] ==
        IF n = 0 THEN 0 ELSE upTo[n - 1] + Bytes(pages[keys[n]].page)
  IN  upTo[Len(keys)]

\* The account of the cache is exact, through replacements and evictions, and
\* its bounds hold; a wrong account would sooner or later empty the cache for
\* good, or take an entry from an empty list (page_cache.go:43-56).
CacheIsAccounted ==
  /\ size = Total(entries, order)
  /\ IsInjective(order) /\ ToSet(order) = DOMAIN entries
  /\ size <= MaxBytes /\ Len(order) <= MaxEntries
=============================================================================
