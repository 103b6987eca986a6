------------------------------ MODULE Catalog ------------------------------
(***************************************************************************)
(* What the library of internal/app holds in memory (State) and what each  *)
(* request does to it: the callbacks that the handlers of http.go, media.go*)
(* and tag_settings.go pass to Store.Update and Store.UpdateMetadata, and  *)
(* the three writes with a method of their own in store.go.                *)
(*                                                                         *)
(* IDs are made by newID and never used twice; here a request names the ID *)
(* it creates, and is sensible only while that ID is free. Track IDs are   *)
(* numbers because retention breaks ties by comparing them.                *)
(***************************************************************************)
EXTENDS Naturals, Sequences, FiniteSets

CONSTANTS
  Tracks,       \* track IDs
  Sources,      \* source IDs
  Lists,        \* playlist IDs
  RuleSets,     \* conversion rule set IDs
  Values,       \* names, root paths, rules and cache limits
  DefaultLimit, \* the cache limit of a new library, one of them
  Separators,   \* values of the tag separator setting
  DefaultSeparators,
  PlayIDs,      \* playback sessions
  Keep,         \* recent plays kept: 500 in the code
  Seeds,        \* libraries that earlier runs of the server left
  SourceOf,     \* the source a track was found in
  Duration      \* the length of a track, in quarters of a second

ASSUME TracksAssumption == Tracks \subseteq Nat /\ IsFiniteSet(Tracks)
ASSUME KeepAssumption == Keep \in Nat
ASSUME TrackDataAssumption ==
  SourceOf \in [Tracks -> Sources] /\ Duration \in [Tracks -> Nat]
ASSUME DefaultsAssumption ==
  DefaultLimit \in Values /\ DefaultSeparators \in Separators

IsPartial(f, D, R) == DOMAIN f \subseteq D /\ f \in [DOMAIN f -> R]
Put(f, k, v) == [x \in DOMAIN f \cup {k} |-> IF x = k THEN v ELSE f[x]]
Drop(f, S) == [x \in DOMAIN f \ S |-> f[x]]

Track == [favorite: BOOLEAN, count: Nat, last: Nat, missing: BOOLEAN]
Source == [name: Values, path: Values]
List == [name: Values, smart: BOOLEAN, items: Seq(Tracks)]

IsLibrary(lib) ==
  /\ lib = [tracks |-> lib.tracks, sources |-> lib.sources, lists |-> lib.lists,
            rules |-> lib.rules, limit |-> lib.limit,
            separators |-> lib.separators, sessions |-> lib.sessions]
  /\ IsPartial(lib.tracks, Tracks, Track)
  /\ IsPartial(lib.sources, Sources, Source)
  /\ IsPartial(lib.lists, Lists, List)
  /\ IsPartial(lib.rules, RuleSets, Values)
  /\ lib.limit \in Values
  /\ lib.separators \in Separators
  /\ lib.sessions \subseteq Tracks \X PlayIDs

Fresh == [favorite |-> FALSE, count |-> 0, last |-> 0, missing |-> FALSE]
Lost(track) == [track EXCEPT !.missing = TRUE, !.favorite = FALSE]

Live(lib, t) == t \in DOMAIN lib.tracks /\ ~lib.tracks[t].missing

-----------------------------------------------------------------------------
(* Ordered subsequences.                                                   *)

Rank(S, i) == Cardinality({j \in S : j < i})
Nth(S, k) == CHOOSE i \in S : Rank(S, i) = k - 1

\* The elements of s that are in S, in the order of s.
Kept(s, S) ==
  LET at == {i \in DOMAIN s : s[i] \in S}
  IN  [k \in 1..Cardinality(at) |-> s[Nth(at, k)]]

\* s with its element at position from taken out and put at position to.
Moved(s, from, to) ==
  LET rest(i) == IF i < from THEN s[i] ELSE s[i + 1]
  IN  [i \in 1..Len(s) |->
        IF i < to THEN rest(i) ELSE IF i = to THEN s[from] ELSE rest(i - 1)]

-----------------------------------------------------------------------------
(* Plays. Clients and the AirPlay player report one play of a track many   *)
(* times, as it proceeds; a report counts from fifteen seconds on, or when *)
(* a shorter track was heard to its end.                                   *)

Counts(report, duration) ==
  \/ report.seconds >= 60
  \/ /\ duration > 0 /\ duration < 60
     /\ report.completed /\ ~report.seeked
     /\ report.seconds + 1 >= duration

\* u comes before t in the list of recent plays.
Before(tracks, u, t) ==
  \/ tracks[u].last > tracks[t].last
  \/ tracks[u].last = tracks[t].last /\ u < t

Played(tracks) == {t \in DOMAIN tracks : tracks[t].last > 0}
Earlier(tracks, t) == {u \in Played(tracks) : Before(tracks, u, t)}

\* The played tracks, sorted, and what lies beyond the first Keep of them.
RecentList(tracks) ==
  [k \in 1..Cardinality(Played(tracks)) |->
     CHOOSE t \in Played(tracks) : Cardinality(Earlier(tracks, t)) = k - 1]
BeyondKeep(tracks) ==
  LET recent == RecentList(tracks)
  IN  {recent[k] : k \in {k \in DOMAIN recent : k > Keep}}

Forgotten(tracks, S) ==
  [t \in DOMAIN tracks |->
     IF t \in S THEN [tracks[t] EXCEPT !.last = 0] ELSE tracks[t]]

AfterPlay(lib, op) ==
  LET heard == [lib.tracks EXCEPT ![op.track].count = @ + 1,
                                  ![op.track].last = op.at]
  IN  [lib EXCEPT !.tracks = Forgotten(heard, BeyondKeep(heard)),
                  !.sessions = @ \cup {<<op.track, op.session>>}]

\* Counts every report.
PlayCountsEach(lib, op) == Counts(op.report, Duration[op.track])

PlayCounts(lib, op) ==
  /\ <<op.track, op.session>> \notin lib.sessions
  /\ Counts(op.report, Duration[op.track])

-----------------------------------------------------------------------------
(* The requests.                                                           *)

\* Writes with a method of their own, edits by Update and by UpdateMetadata. No
\* handler removes a track for good today; "forget" is the edit that would, and
\* Store.update provides for it.
DirectKinds == {"favorite", "play", "clear"}
UpdateKinds == {"merge", "removeSource", "separators", "forget"}
MetadataKinds ==
  {"addSource", "editSource", "createList", "editList", "dropList", "addItems",
   "removeItems", "cleanItems", "moveItem", "createRules", "editRules",
   "dropRules", "limit"}

NameIsFree(lib, name, source) ==
  \A s \in DOMAIN lib.sources \ {source} : lib.sources[s].name # name

Editable(lib, list) == list \in DOMAIN lib.lists /\ ~lib.lists[list].smart
Items(lib, list) == lib.lists[list].items
Holds(lib, list) == {Items(lib, list)[i] : i \in DOMAIN Items(lib, list)}

\* The checks of the handler; a request that fails one is refused.
Permits(lib, op) ==
  CASE op.kind \in {"favorite", "play"} -> Live(lib, op.track)
    [] op.kind = "removeSource" -> op.source \in DOMAIN lib.sources
    [] op.kind = "addSource" ->
         /\ NameIsFree(lib, op.name, op.source)
         /\ \A s \in DOMAIN lib.sources : lib.sources[s].path # op.path
    [] op.kind = "editSource" ->
         /\ NameIsFree(lib, op.name, op.source)
         /\ op.source \in DOMAIN lib.sources
         /\ lib.sources[op.source].path = op.path
    [] op.kind = "editList" ->
         op.list \in DOMAIN lib.lists /\ lib.lists[op.list].smart = op.smart
    [] op.kind = "dropList" -> op.list \in DOMAIN lib.lists
    [] op.kind = "addItems" ->
         /\ Editable(lib, op.list)
         /\ \A i \in DOMAIN op.ids :
              /\ op.ids[i] \notin Holds(lib, op.list)
              /\ \A j \in DOMAIN op.ids : op.ids[j] = op.ids[i] => i = j
              /\ Live(lib, op.ids[i])
    [] op.kind \in {"removeItems", "cleanItems"} -> Editable(lib, op.list)
    [] op.kind = "moveItem" ->
         /\ Editable(lib, op.list)
         /\ op.position \in 1..Len(Items(lib, op.list))
         /\ op.track \in Holds(lib, op.list)
    [] op.kind \in {"editRules", "dropRules"} -> op.rules \in DOMAIN lib.rules
    [] OTHER -> TRUE

WithItems(lib, list, items) == [lib EXCEPT !.lists[list].items = items]

\* A scan of a source merges: what it did not find is missing from now on,
\* what it found and the library does not know is added. A source removed
\* meanwhile is left alone.
Merged(lib, op) ==
  IF op.source \notin DOMAIN lib.sources THEN lib ELSE
  [lib EXCEPT !.tracks =
     [t \in DOMAIN @ \cup {t \in op.found : SourceOf[t] = op.source} |->
        IF t \notin DOMAIN lib.tracks THEN Fresh
        ELSE IF SourceOf[t] = op.source /\ t \notin op.found
             THEN Lost(lib.tracks[t]) ELSE lib.tracks[t]]]

SourceRemoved(lib, source) ==
  [lib EXCEPT
     !.sources = Drop(@, {source}),
     !.tracks = [t \in DOMAIN @ |->
                   IF SourceOf[t] = source THEN Lost(@[t]) ELSE @[t]]]

PositionOf(s, t) == CHOOSE i \in DOMAIN s : s[i] = t

\* What the request makes of the library, before Update tidies up.
Edited(lib, op) ==
  CASE op.kind = "favorite" -> [lib EXCEPT !.tracks[op.track].favorite = op.value]
    [] op.kind = "play" -> IF PlayCounts(lib, op) THEN AfterPlay(lib, op) ELSE lib
    [] op.kind = "clear" ->
         [lib EXCEPT !.tracks = Forgotten(@, DOMAIN @)]
    [] op.kind = "merge" -> Merged(lib, op)
    [] op.kind = "removeSource" -> SourceRemoved(lib, op.source)
    [] op.kind = "separators" -> [lib EXCEPT !.separators = op.value]
    [] op.kind = "forget" -> [lib EXCEPT !.tracks = Drop(@, {op.track})]
    [] op.kind \in {"addSource", "editSource"} ->
         [lib EXCEPT !.sources =
            Put(@, op.source, [name |-> op.name, path |-> op.path])]
    [] op.kind = "createList" ->
         [lib EXCEPT !.lists =
            Put(@, op.list, [name |-> op.name, smart |-> op.smart, items |-> <<>>])]
    [] op.kind = "editList" -> [lib EXCEPT !.lists[op.list].name = op.name]
    [] op.kind = "dropList" -> [lib EXCEPT !.lists = Drop(@, {op.list})]
    [] op.kind = "addItems" ->
         WithItems(lib, op.list, Items(lib, op.list) \o op.ids)
    [] op.kind = "removeItems" ->
         WithItems(lib, op.list, Kept(Items(lib, op.list), Tracks \ op.ids))
    [] op.kind = "cleanItems" ->
         WithItems(lib, op.list,
                   Kept(Items(lib, op.list), {t \in Tracks : Live(lib, t)}))
    [] op.kind = "moveItem" ->
         LET items == Items(lib, op.list)
         IN  WithItems(lib, op.list,
                       Moved(items, PositionOf(items, op.track), op.position))
    [] op.kind \in {"createRules", "editRules"} ->
         [lib EXCEPT !.rules = Put(@, op.rules, op.value)]
    [] op.kind = "dropRules" -> [lib EXCEPT !.rules = Drop(@, {op.rules})]
    [] op.kind = "limit" -> [lib EXCEPT !.limit = op.value]

\* Update drops what refers to a track that is gone.
Tidied(lib) ==
  [lib EXCEPT
     !.lists = [p \in DOMAIN lib.lists |->
                  [lib.lists[p] EXCEPT !.items = Kept(@, DOMAIN lib.tracks)]],
     !.sessions = {s \in lib.sessions : s[1] \in DOMAIN lib.tracks}]

After(lib, op) ==
  IF op.kind \in UpdateKinds THEN Tidied(Edited(lib, op)) ELSE Edited(lib, op)

\* A new ID is an unused one.
Sensible(lib, op) ==
  CASE op.kind = "addSource" ->
         /\ op.source \notin DOMAIN lib.sources
         /\ \A t \in DOMAIN lib.tracks : SourceOf[t] # op.source
    [] op.kind = "createList" -> op.list \notin DOMAIN lib.lists
    [] op.kind = "createRules" -> op.rules \notin DOMAIN lib.rules
    [] OTHER -> TRUE

-----------------------------------------------------------------------------
(* The requests as a type.                                                 *)

Report == [seconds: Nat, completed: BOOLEAN, seeked: BOOLEAN]

Requests ==
  [kind: {"favorite"}, track: Tracks, value: BOOLEAN]
  \cup [kind: {"play"}, track: Tracks, session: PlayIDs, report: Report, at: Nat]
  \cup [kind: {"clear"}]
  \cup [kind: {"merge"}, source: Sources, found: SUBSET Tracks]
  \cup [kind: {"removeSource"}, source: Sources]
  \cup [kind: {"separators"}, value: Separators]
  \cup [kind: {"forget"}, track: Tracks]
  \cup [kind: {"addSource", "editSource"}, source: Sources, name: Values, path: Values]
  \cup [kind: {"createList", "editList"}, list: Lists, name: Values, smart: BOOLEAN]
  \cup [kind: {"dropList", "cleanItems"}, list: Lists]
  \cup [kind: {"addItems"}, list: Lists, ids: Seq(Tracks)]
  \cup [kind: {"removeItems"}, list: Lists, ids: SUBSET Tracks]
  \cup [kind: {"moveItem"}, list: Lists, track: Tracks, position: Nat]
  \cup [kind: {"createRules", "editRules"}, rules: RuleSets, value: Values]
  \cup [kind: {"dropRules"}, rules: RuleSets]
  \cup [kind: {"limit"}, value: Values]

NoEntries == [x \in {} |-> {}]
Empty ==
  [tracks |-> NoEntries, sources |-> NoEntries, lists |-> NoEntries,
   rules |-> NoEntries, limit |-> DefaultLimit, separators |-> DefaultSeparators,
   sessions |-> {}]

SessionsOf(lib, t) == {s \in lib.sessions : s[1] = t}
Accounted(lib) ==
  \A t \in DOMAIN lib.tracks : lib.tracks[t].count = Cardinality(SessionsOf(lib, t))

Proper(lib) ==
  /\ IsLibrary(lib)
  /\ IsFiniteSet(lib.sessions)
  /\ \A s \in lib.sessions : s[1] \in DOMAIN lib.tracks
  /\ Accounted(lib)

ASSUME SeedsAssumption == \A lib \in Seeds : Proper(lib) /\ Tidied(lib) = lib
=============================================================================
