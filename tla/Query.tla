-------------------------------- MODULE Query --------------------------------
(***************************************************************************)
(* Rules, order and paging as SQLite computes them (internal/app           *)
(* store_query.go), over two lookup tables that are projections of the     *)
(* tracks (store_search.go): one row of lowercased fields for each track,  *)
(* one row for each value of a tag. Every write of a track writes its      *)
(* projection in the same transaction; opening a store installs the tables *)
(* and fills them in where they are missing.                               *)
(*                                                                         *)
(* In memory the same questions have another answer, TrackRules. A track   *)
(* and a text are what they are there. SQL's NULL is a number of its own   *)
(* here: a comparison with it holds for no operator, as a WHERE sees it.   *)
(* Numbers are never asked what they contain.                              *)
(***************************************************************************)
EXTENDS TrackRules

CONSTANTS
  Versions,     \* what a track may become, with its ID
  Columns,      \* columns of the table tracks that are no fields in memory: "folder"
  Playlists,    \* [smart, rule, sort, desc, tracks], by ID; never changed here
  Queries,      \* what clients ask
  Sizes,        \* the page sizes a client may name: 25 and 100 in the code
  UsualSize     \* any other size becomes this: 50

Option(S) == {<<>>} \cup {<<x>> : x \in S}
Query ==
  [search : Option(DOMAIN Fold), rule : Option(Rules), sort : STRING, desc : BOOLEAN,
   page : Int, pageSize : Int, playlist : {0} \cup DOMAIN Playlists, all : BOOLEAN]

\* A rule with another operator or field is no rule to compileRule: it fails.
ASSUME QueryAssumption ==
  /\ UsualSize \in Nat \ {0} /\ Sizes \subseteq Nat \ {0}
  /\ \A t \in Versions : IsTrack(t) /\ t.columns \in [Columns -> DOMAIN Fold]
  /\ \A r \in Rules :
       r.mode = "" => r.op \in Orders \cup Containments \cup Emptiness /\ r.field \in Leaves
  /\ 0 \notin DOMAIN Playlists
  /\ \A p \in DOMAIN Playlists :
       IF Playlists[p].smart THEN Playlists[p].rule \in Rules /\ Playlists[p].desc \in BOOLEAN
       ELSE Playlists[p].tracks \in Seq(Nat)
  /\ Queries \subseteq Query

VARIABLES
  tracks,   \* the table tracks: a function from IDs
  search,   \* track_search: likewise, the fields of a projection
  tags,     \* track_tag_index: <<id, tag, text>>
  tables,   \* which of the two lookup tables exist
  opened    \* whether the store is open
queryVars == <<tracks, search, tags, tables, opened>>

Lookup == {"track_search", "track_tag_index"}
Projected == {"title", "artist", "album", "albumArtist", "genre", "key", "bpm"}
Ordered == {"addedAt", "disc", "number"}

NoRows == [id \in {} |-> {}]

\* persistSearchTrack
Row(t) == [f \in Projected \cup Ordered |-> Value(t, f)]
TagRows(t) ==
  UNION {{<<t.id, n, Fold[v]>> : v \in ToSet(t.tags[n])} : n \in TagNames}

QueryInit ==
  /\ tracks = NoRows /\ search = NoRows /\ tags = {}
  /\ tables = Lookup /\ opened = TRUE

Of(id) == {r \in tags : r[1] = id}

\* A track is written with its projection. Favourites and counts go another
\* way, which leaves the projection alone.
Save(t) ==
  /\ opened
  /\ tracks' = [id \in DOMAIN tracks \cup {t.id} |-> IF id = t.id THEN t ELSE tracks[id]]
  /\ search' = [id \in DOMAIN search \cup {t.id} |-> IF id = t.id THEN Row(t) ELSE search[id]]
  /\ tags' = (tags \ Of(t.id)) \cup TagRows(t)
  /\ UNCHANGED <<tables, opened>>

Favorite(id) ==
  /\ opened
  /\ tracks' = [tracks EXCEPT ![id].favorite = ~@]
  /\ UNCHANGED <<search, tags, tables, opened>>

\* The rows of a track go with it (ON DELETE CASCADE).
Forget(id) ==
  /\ opened
  /\ tracks' = [i \in DOMAIN tracks \ {id} |-> tracks[i]]
  /\ search' = [i \in DOMAIN search \ {id} |-> search[i]]
  /\ tags' = tags \ Of(id)
  /\ UNCHANGED <<tables, opened>>

Close ==
  /\ opened /\ opened' = FALSE
  /\ UNCHANGED <<tracks, search, tags, tables>>

\* The tables are disposable: while the store is closed either may be dropped.
Drop(table) ==
  /\ ~opened /\ table \in tables
  /\ tables' = tables \ {table}
  /\ search' = IF table = "track_search" THEN NoRows ELSE search
  /\ tags' = IF table = "track_tag_index" THEN {} ELSE tags
  /\ UNCHANGED <<tracks, opened>>

\* ensureSearchIndexes. Both tables are emptied if one is missing; then what
\* has no row in track_search is projected.
Kept == IF tables = Lookup THEN search ELSE NoRows

Open ==
  /\ ~opened /\ opened' = TRUE
  /\ tables' = Lookup
  /\ LET absent == DOMAIN tracks \ DOMAIN Kept
         keptTags == IF tables = Lookup THEN tags ELSE {}
     IN  /\ search' = [id \in DOMAIN tracks |-> IF id \in absent THEN Row(tracks[id]) ELSE search[id]]
         /\ tags' = keptTags \cup UNION {TagRows(tracks[id]) : id \in absent}
  /\ UNCHANGED tracks

QueryNext ==
  \/ \E t \in Versions : Save(t)
  \/ \E id \in DOMAIN tracks : Favorite(id) \/ Forget(id)
  \/ Close \/ Open
  \/ \E table \in Lookup : Drop(table)

QuerySpec == QueryInit /\ [][QueryNext]_queryVars

-----------------------------------------------------------------------------
(* SQL, for one row of tracks joined with its row of track_search.          *)

\* fieldSQL: the column of a field, whatever column of the table it names. A
\* tag has none.
Fixed == TextFields \cup NumberFields \cup {"favorite"}

Column(f, id) ==
  CASE f \in Projected -> search[id][f]
    [] f \in Fixed \ Projected -> Value(tracks[id], f)
    [] f \in Columns \ Fixed -> Fold[tracks[id].columns[f]]
    [] OTHER -> Null

EmptySQL(f, v) == v = Null \/ (v = 0 /\ f \notin {"playCount", "favorite"})

\* A comparison that forgets that nothing differs from NULL in SQL, not even a
\* value that it is not equal to.
ComparisonUnguarded(v, op, wanted) == v # Null /\ Compares(v, wanted, op)

\* "IS NULL OR" for ne, "IS NOT NULL AND" for every other operator.
ComparisonSQL(v, op, wanted) ==
  IF v = Null THEN op = "ne" ELSE Compares(v, wanted, op)

\* The tag has a value for which the operator, or what it is the negation of,
\* holds.
TagSQL(rule, id) ==
  LET values == {r[3] : r \in {r \in tags : r[1] = id /\ r[2] = rule.field}}
      positive == [ne |-> "eq", notContains |-> "contains", isEmpty |-> "isNotEmpty"]
      negated == rule.op \in DOMAIN positive
      op == IF negated THEN positive[rule.op] ELSE rule.op
      has == IF op = "isNotEmpty" THEN \E v \in values : v # 0
             ELSE \E v \in values : ComparisonSQL(v, op, Wanted(rule))
  IN  IF negated THEN ~has ELSE has

FieldSQL(rule, id) ==
  LET v == Column(rule.field, id)
  IN  \/ rule.op = "isEmpty" /\ EmptySQL(rule.field, v)
      \/ rule.op = "isNotEmpty" /\ ~EmptySQL(rule.field, v)
      \/ ComparisonSQL(v, rule.op, Wanted(rule))

LeafSQL(rule, id) ==
  IF rule.field \in TagNames THEN TagSQL(rule, id) ELSE FieldSQL(rule, id)

\* compileRule
RuleSQL(rule, id) ==
  LET holds[r \in Rules] ==
        \/ r.mode = "all" /\ \A i \in DOMAIN r.rules : holds[r.rules[i]]
        \/ r.mode = "any" /\ \E i \in DOMAIN r.rules : holds[r.rules[i]]
        \/ r.mode = "" /\ LeafSQL(r, id)
  IN  holds[rule]

SearchFinds(text, t) ==
  \E f \in {"title", "artist", "album", "genre"} : <<Fold[text], Fold[t[f]]>> \in Within

\* trackWhere, without the condition on missing tracks.
WhereSQL(q, id) ==
  /\ q.rule # <<>> => RuleSQL(q.rule[1], id)
  /\ q.search # <<>> => SearchFinds(q.search[1], tracks[id])

\* orderSQL: for each field, whether it is empty, then its value.
Key(f, id) == IF f \in Projected \cup Ordered THEN search[id][f] ELSE Column(f, id)

BeforeSQL(field, desc, a, b) ==
  LET fields == Fields(IF field = "" THEN "addedAt" ELSE field)
      empty(i, id) == EmptySQL(fields[i], Key(fields[i], id))
      differ(i) == empty(i, a) # empty(i, b) \/ Key(fields[i], a) # Key(fields[i], b)
      all == {i \in DOMAIN fields : differ(i)}
      first == CHOOSE i \in all : \A j \in all : i <= j
  IN  IF all = {} THEN a < b
      ELSE IF empty(first, a) # empty(first, b) THEN empty(first, b)
      ELSE IF first = 1 /\ desc THEN Key(fields[1], a) > Key(fields[1], b)
      ELSE Key(fields[first], a) < Key(fields[first], b)

-----------------------------------------------------------------------------
(* A page.                                                                  *)

\* A smart playlist brings its rule and its order.
Chosen(q) ==
  IF q.playlist = 0 \/ ~Playlists[q.playlist].smart THEN q
  ELSE LET p == Playlists[q.playlist]
       IN  [q EXCEPT !.rule = <<p.rule>>, !.sort = p.sort, !.desc = p.desc]

IsManual(q) == q.playlist # 0 /\ ~Playlists[q.playlist].smart

ListSQL(asked) ==
  LET q == Chosen(asked)
      joined == DOMAIN tracks \cap DOMAIN search
  IN  IF IsManual(q)
      THEN Filtered(Playlists[q.playlist].tracks,
                    LAMBDA id : id \in joined /\ WhereSQL(q, id))
      ELSE Arranged({id \in joined : ~tracks[id].missing /\ WhereSQL(q, id)},
                    LAMBDA a, b : BeforeSQL(q.sort, q.desc, a, b))

\* Without a rule the tracks are counted without their projection.
TotalSQL(asked) ==
  LET q == Chosen(asked)
      counted == {id \in DOMAIN tracks : ~tracks[id].missing /\ WhereSQL(q, id)}
  IN  IF q.rule # <<>> \/ IsManual(q) THEN Len(ListSQL(asked)) ELSE Cardinality(counted)

PageNumber(q) == IF q.page < 1 THEN 1 ELSE q.page
SizeOf(q) == IF q.pageSize \in Sizes THEN q.pageSize ELSE UsualSize

\* Past the end of the list the offset is the total, whatever the page.
Offset(q, total) ==
  IF PageNumber(q) <= total \div SizeOf(q) + 1 THEN (PageNumber(q) - 1) * SizeOf(q)
  ELSE total

\* What a query is answered with, out of the list of what it finds. The list
\* and the total are parameters: each is found once.
Paged(q, list, total) ==
  LET offset == Offset(q, total)
      last == offset + SizeOf(q)
  IN  IF q.all THEN [ids |-> list, total |-> Len(list)]
      ELSE [ids |-> SubSeq(list, offset + 1, IF last < Len(list) THEN last ELSE Len(list)),
            total |-> total]

PageSQL(q) == Paged(q, ListSQL(q), TotalSQL(q))

\* What is asked of a smart playlist by itself.
OfPlaylist(p) ==
  [playlist |-> p, rule |-> <<>>, search |-> <<>>, sort |-> "", desc |-> FALSE,
   page |-> 0, pageSize |-> 0, all |-> TRUE]

\* SmartMemberships, of one playlist.
MembersSQL(p) == ListSQL(OfPlaylist(p))

-----------------------------------------------------------------------------
(* The same list in memory, as the tests compute it.                        *)

InMemory(asked) ==
  LET q == Chosen(asked)
      holds(t) == /\ q.rule # <<>> => Match(q.rule[1], t)
                  /\ q.search # <<>> => SearchFinds(q.search[1], t)
      listed == {id \in DOMAIN tracks : ~tracks[id].missing /\ holds(tracks[id])}
      sorted == Sorted({tracks[id] : id \in listed}, q.sort, q.desc)
  IN  IF IsManual(q)
      THEN Filtered(Playlists[q.playlist].tracks,
                    LAMBDA id : id \in DOMAIN tracks /\ holds(tracks[id]))
      ELSE [i \in DOMAIN sorted |-> sorted[i].id]

\* The entries before a page, and those on it: entry i of page n is entry
\* (n-1)*size + i of the list.
Skipped(q) == IF q.all THEN 0 ELSE (PageNumber(q) - 1) * SizeOf(q)
OnPage(list, q) ==
  {i \in DOMAIN list : q.all \/ (i - 1) \div SizeOf(q) = PageNumber(q) - 1}

\* A page of a query is the part of a list that belongs on it.
IsPageOf(page, list, q) ==
  /\ page.total = Len(list)
  /\ Len(page.ids) = Cardinality(OnPage(list, q))
  /\ \A i \in OnPage(list, q) : page.ids[i - Skipped(q)] = list[i]

\* Nothing checks the name of a sort. A column that is no field is an absent tag
\* in memory, and a tag is NULL to SQLite.
OneOrder(f) == f = "" \/ f \in Fixed \/ f \notin Columns \cup DOMAIN TagOf

PagesAgree ==
  \A q \in Queries :
    IF OneOrder(Chosen(q).sort) THEN IsPageOf(PageSQL(q), InMemory(q), q)
    ELSE PageSQL(q).total = Len(InMemory(q))

MembersAgree ==
  \A p \in DOMAIN Playlists :
    Playlists[p].smart /\ OneOrder(Playlists[p].sort) => MembersSQL(p) = InMemory(OfPlaylist(p))

\* Whatever was written, favoured, removed, dropped and rebuilt before, SQLite
\* and the code in memory give one answer: to every rule, including its
\* negations on values that are absent; in every order by a field of a track,
\* with blanks last; and on every page, with one total. Of a sort by a tag or by
\* another column only the total is claimed: there the two orders differ
\* (store_query.go:47-370, model.go:206-207, 255-425).
QueriesAgree == opened => PagesAgree /\ MembersAgree
=============================================================================
