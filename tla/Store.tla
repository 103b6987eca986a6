------------------------------- MODULE Store -------------------------------
(***************************************************************************)
(* The store of internal/app (store.go, store_entities.go): the library in *)
(* memory, which readers see as one snapshot, the SQLite database below it,*)
(* and the writers, one at a time under writeMu, who compute the next      *)
(* library, write the difference in one transaction and then publish.      *)
(*                                                                         *)
(* A transaction of SQLite is atomic and, once committed, durable; that is *)
(* assumed. Statements and commits may fail, and the process may die       *)
(* between any two steps. The order of the rows of a table (rowid) is the  *)
(* order of insertion in memory as well and is left out; the album, artist *)
(* and genre rows stand in credits.                                        *)
(***************************************************************************)
EXTENDS Catalog

CONSTANTS
  Writers,      \* goroutines that serve requests
  Scenarios,    \* sets of requests, one of which is used in a behaviour
  ArtistsOf,    \* for a separator setting and a track, its artists
  Times         \* bound: what time.Now says

ASSUME ScenariosAssumption == \A S \in Scenarios : \A o \in S : o \in Requests
ASSUME TimesAssumption == Times \subseteq Nat
ASSUME WritersAssumption == "nobody" \notin Writers

VARIABLES
  requests,  \* the scenario of this behaviour; never changes
  memory,    \* Store.state
  index,     \* Store.trackIndex: the tracks it finds
  database,  \* the rows on disk
  open,      \* the database is open
  lock,      \* who holds writeMu
  pc,        \* where each writer is
  op,        \* what it was asked for
  answer,    \* what it answers
  next,      \* the library to publish; memory when nobody writes
  rows       \* the rows as the transaction has them; database when nobody writes

vars ==
  <<requests, memory, index, database, open, lock, pc, op, answer, next, rows>>

Nobody == "nobody"
NoOp == [kind |-> "none"]

-----------------------------------------------------------------------------
(* The database.                                                           *)

Row == [name: Values, path: Values, active: BOOLEAN]
EmptyRows ==
  [tracks |-> NoEntries, credits |-> {}, sources |-> NoEntries,
   lists |-> NoEntries, items |-> {}, rules |-> NoEntries,
   limit |-> DefaultLimit, separators |-> DefaultSeparators, sessions |-> {}]

\* SELECT track_id FROM playlist_items ORDER BY position
ItemsOf(db, p) ==
  LET of == {r \in db.items : r[1] = p}
      positions == {r[3] : r \in of}
  IN  [k \in 1..Cardinality(positions) |->
         (CHOOSE r \in of : r[3] = Nth(positions, k))[2]]

\* load: the library that the rows say.
Load(db) ==
  [tracks |-> db.tracks,
   sources |-> [s \in {s \in DOMAIN db.sources : db.sources[s].active} |->
                  [name |-> db.sources[s].name, path |-> db.sources[s].path]],
   lists |-> [p \in DOMAIN db.lists |->
                [name |-> db.lists[p].name, smart |-> db.lists[p].smart,
                 items |-> ItemsOf(db, p)]],
   rules |-> db.rules,
   limit |-> db.limit,
   separators |-> db.separators,
   sessions |-> db.sessions]

\* changedRows: the keys it writes and the keys it removes.
Changed(old, new) ==
  {k \in DOMAIN new : k \in DOMAIN old => old[k] # new[k]}
Gone(old, new) == DOMAIN old \ DOMAIN new

Rewritten(db, new, changed, gone) ==
  [k \in (DOMAIN db \ gone) \cup changed |-> IF k \in changed THEN new[k] ELSE db[k]]

SourceRows(db, old, new, written, tracksDiffer) ==
  LET changed == Changed(old.sources, new.sources)
      upserted ==
        [s \in DOMAIN db.sources \cup changed |->
           IF s \in changed
           THEN [name |-> new.sources[s].name, path |-> new.sources[s].path, active |-> TRUE]
           ELSE IF s \in Gone(old.sources, new.sources)
           THEN [db.sources[s] EXCEPT !.active = FALSE]
           ELSE db.sources[s]]
      missing == {SourceOf[t] : t \in written} \ DOMAIN upserted
      all == [s \in DOMAIN upserted \cup missing |->
                IF s \in missing
                THEN [name |-> DefaultLimit, path |-> DefaultLimit, active |-> FALSE]
                ELSE upserted[s]]
      stale == {s \in DOMAIN all : /\ ~all[s].active
                                   /\ \A t \in DOMAIN new.tracks : SourceOf[t] # s}
  IN  IF tracksDiffer THEN Drop(all, stale) ELSE all

\* Update and UpdateMetadata: persistChanges writes what differs. A change of
\* the separators rewrites every track, for its artists and genres. Rows that
\* refer to a deleted row go with it (ON DELETE CASCADE).
Persist(db, old, new, metadata) ==
  LET respelled == old.separators # new.separators
      written == IF metadata THEN {}
                 ELSE IF respelled THEN DOMAIN new.tracks
                 ELSE Changed(old.tracks, new.tracks)
      removed == IF metadata THEN {} ELSE Gone(old.tracks, new.tracks)
      changed == Changed(old.lists, new.lists)
      dropped == Gone(old.lists, new.lists)
  IN  [tracks |-> Rewritten(db.tracks, new.tracks, written, removed),
       credits |-> {c \in db.credits : c[1] \notin written \cup removed}
                   \cup UNION {{t} \X ArtistsOf[new.separators][t] : t \in written},
       sources |-> SourceRows(db, old, new, written,
                              ~metadata /\ old.tracks # new.tracks),
       lists |-> Rewritten(db.lists,
                           [p \in DOMAIN new.lists |->
                              [name |-> new.lists[p].name, smart |-> new.lists[p].smart]],
                           changed, dropped),
       items |-> {r \in db.items : r[1] \notin changed \cup dropped /\ r[2] \notin removed}
                 \cup UNION {{<<p, new.lists[p].items[i], i>> :
                                i \in DOMAIN new.lists[p].items} : p \in changed},
       rules |-> Rewritten(db.rules, new.rules, Changed(old.rules, new.rules),
                           Gone(old.rules, new.rules)),
       limit |-> IF old.limit # new.limit THEN new.limit ELSE db.limit,
       separators |-> IF respelled THEN new.separators ELSE db.separators,
       sessions |-> IF metadata THEN db.sessions
                    ELSE ({s \in db.sessions : s[1] \notin removed}
                          \cup (new.sessions \ old.sessions))
                         \ (old.sessions \ new.sessions)]

\* One play too many is kept.
RecentRowsOneMore(tracks) ==
  {t \in Played(tracks) : Cardinality(Earlier(tracks, t)) <= Keep}

\* SELECT id FROM tracks WHERE last_played>0 ORDER BY last_played DESC,id LIMIT 500
RecentRows(tracks) ==
  {t \in Played(tracks) : Cardinality(Earlier(tracks, t)) < Keep}

PlayRows(db, o) ==
  LET heard == [db.tracks EXCEPT ![o.track].count = @ + 1, ![o.track].last = o.at]
  IN  [db EXCEPT !.tracks = Forgotten(heard, Played(heard) \ RecentRows(heard)),
                 !.sessions = @ \cup {<<o.track, o.session>>}]

RowsAfter(db, old, new, o) ==
  CASE o.kind = "favorite" -> [db EXCEPT !.tracks[o.track].favorite = o.value]
    [] o.kind = "play" -> PlayRows(db, o)
    [] o.kind = "clear" -> [db EXCEPT !.tracks = Forgotten(@, Played(@))]
    [] OTHER -> Persist(db, old, new, o.kind \in MetadataKinds)

-----------------------------------------------------------------------------

CreateKinds == {"addSource", "createList", "createRules"}

Init ==
  /\ requests \in Scenarios
  /\ \E lib \in Seeds : database = Persist(EmptyRows, Empty, lib, FALSE)
  /\ memory = Load(database)
  /\ index = DOMAIN memory.tracks
  /\ open = TRUE
  /\ lock = Nobody
  /\ pc = [w \in Writers |-> "idle"]
  /\ op = [w \in Writers |-> NoOp]
  /\ answer = [w \in Writers |-> "none"]
  /\ next = memory
  /\ rows = database

\* A request arrives and waits for writeMu. A play carries the time of the
\* wall clock at the call, before the wait; nothing orders it otherwise. A new
\* ID is not one that a request under way is about to use.
Call(w) ==
  /\ pc[w] = "idle"
  /\ \E o \in requests :
       /\ Sensible(memory, o)
       /\ o.kind \in CreateKinds => \A v \in Writers : op[v].kind # o.kind
       /\ IF o.kind = "play"
          THEN \E at \in Times : op' = [op EXCEPT ![w] = [o EXCEPT !.at = at]]
          ELSE op' = [op EXCEPT ![w] = o]
  /\ pc' = [pc EXCEPT ![w] = "waiting"]
  /\ UNCHANGED <<requests, memory, index, database, open, lock, answer, next, rows>>

Answer(w, what) ==
  /\ pc' = [pc EXCEPT ![w] = "answered"]
  /\ answer' = [answer EXCEPT ![w] = what]

\* Nothing to write: the favourite is as asked, the play is known or too short.
Idempotent(o) ==
  \/ o.kind = "favorite" /\ memory.tracks[o.track].favorite = o.value
  \/ o.kind = "play" /\ ~PlayCounts(memory, o)

\* The track is found through the index, everything else in the state.
Found(o) == o.kind \in {"favorite", "play"} => o.track \in index

\* With writeMu free: check, compute the next library and run the statements.
Write(w) ==
  /\ pc[w] = "waiting" /\ lock = Nobody
  /\ IF ~(Found(op[w]) /\ Permits(memory, op[w]))
     THEN Answer(w, "refused") /\ UNCHANGED <<lock, next, rows>>
     ELSE IF Idempotent(op[w])
     THEN Answer(w, "ok") /\ UNCHANGED <<lock, next, rows>>
     ELSE /\ lock' = w
          /\ next' = After(memory, op[w])
          /\ rows' = RowsAfter(database, memory, next', op[w])
          /\ pc' = [pc EXCEPT ![w] = "written"]
          /\ UNCHANGED answer
  /\ UNCHANGED <<requests, memory, index, database, open, op>>

\* Publishes what was never committed.
CommitForgotten(w) ==
  /\ pc[w] = "written" /\ open
  /\ pc' = [pc EXCEPT ![w] = "committed"]
  /\ UNCHANGED <<requests, memory, index, database, open, lock, op, answer, next, rows>>

Commit(w) ==
  /\ pc[w] = "written" /\ open
  /\ database' = rows
  /\ pc' = [pc EXCEPT ![w] = "committed"]
  /\ UNCHANGED <<requests, memory, index, open, lock, op, answer, next, rows>>

\* Begin, a statement or the commit fails: the deferred rollback undoes all.
Fail(w) ==
  /\ pc[w] = "written"
  /\ Answer(w, "failed")
  /\ lock' = Nobody
  /\ next' = memory
  /\ rows' = database
  /\ UNCHANGED <<requests, memory, index, database, open, op>>

Publish(w) ==
  /\ pc[w] = "committed"
  /\ memory' = next
  /\ index' = IF op[w].kind \in UpdateKinds THEN DOMAIN next.tracks ELSE index
  /\ lock' = Nobody
  /\ Answer(w, "ok")
  /\ UNCHANGED <<requests, database, open, op, next, rows>>

Return(w) ==
  /\ pc[w] = "answered"
  /\ pc' = [pc EXCEPT ![w] = "idle"]
  /\ op' = [op EXCEPT ![w] = NoOp]
  /\ answer' = [answer EXCEPT ![w] = "none"]
  /\ UNCHANGED <<requests, memory, index, database, open, lock, next, rows>>

\* Close waits for the writer under way; who comes later fails.
Close ==
  /\ open /\ lock = Nobody
  /\ open' = FALSE
  /\ UNCHANGED <<requests, memory, index, database, lock, pc, op, answer, next, rows>>

\* The process ends, at whatever point, and starts again with OpenStore.
Restart ==
  /\ memory' = Load(database)
  /\ index' = DOMAIN Load(database).tracks
  /\ open' = TRUE
  /\ lock' = Nobody
  /\ pc' = [w \in Writers |-> "idle"]
  /\ op' = [w \in Writers |-> NoOp]
  /\ answer' = [w \in Writers |-> "none"]
  /\ next' = Load(database)
  /\ rows' = database
  /\ UNCHANGED <<requests, database>>

Next ==
  \/ \E w \in Writers :
       Call(w) \/ Write(w) \/ Commit(w) \/ Fail(w) \/ Publish(w) \/ Return(w)
  \/ Close \/ Restart

Spec == Init /\ [][Next]_vars

-----------------------------------------------------------------------------

Committed == \E w \in Writers : pc[w] = "committed"

\* The disk holds the published library, or the one of the writer that has
\* committed it and is about to publish: rows written as differences, positions
\* and flags read back as the whole that memory has. That includes the rows
\* memory does not hold, which tag separators and tracks determine, and the
\* index into the tracks (store.go:253-265, store_entities.go:130-355).
DiskIsMemory ==
  LET library == IF Committed THEN next ELSE memory
  IN  /\ Load(database) = library
      /\ database.credits =
           UNION {{t} \X ArtistsOf[library.separators][t] : t \in DOMAIN library.tracks}
      /\ index = DOMAIN memory.tracks

\* A playback session counts once however often it is reported, by whom and
\* across restarts: the count of a track is its number of recorded sessions,
\* in memory and on disk (store.go:300, README.md "Playback statistics").
SessionCountsOnce ==
  Accounted(memory) /\ Accounted(Load(database))

L == INSTANCE LibraryService WITH
  Clients <- Writers, library <- memory, request <- op

\* Writes are atomic, an acknowledged one survives a crash, and a crash keeps
\* at most one that was not acknowledged.
ImplementsLibrary == L!Spec
=============================================================================
