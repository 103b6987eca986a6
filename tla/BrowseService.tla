--------------------------- MODULE BrowseService ---------------------------
(***************************************************************************)
(* Browsing as clients meet it: the pages of Browse, served through the    *)
(* cache of PageCache.                                                     *)
(***************************************************************************)
EXTENDS Browse, PageCache

CONSTANT Libraries  \* for a name, the contents of the store it stands for

\* What each request is answered from each library, whichever handler builds it.
LibraryAnswers ==
  [n \in DOMAIN Libraries |-> [k \in Requests |-> Answer(Libraries[n], k)]]

\* The cache is over these libraries.
ASSUME ServiceAssumption ==
  /\ Answers = LibraryAnswers /\ Refusal = Refused
  /\ \A n \in DOMAIN Libraries : IsLibrary(Libraries[n])
  /\ \A k \in Requests : k.path \in {"browse", "queue"} => IsQuery(k.query)

-----------------------------------------------------------------------------

Answered(h, path) ==
  pc[h] = "answered" /\ key[h].path = path /\ answer[h] # Refused

Pages(q, total) == 1..(total \div PageSize(q) + 1)

\* The pages of a list, read one after the other, hold each of its entries once,
\* as many as the total says: a client that scrolls through a list misses
\* nothing and sees nothing twice.
PagesTile ==
  \A h \in Handlers :
    Answered(h, "browse") =>
      LET q == key[h].query
          lists == [n \in Pages(q, answer[h].total) |->
                      Page(Libraries[seen[h].library], [q EXCEPT !.page = n]).list]
          places == UNION {{n} \X DOMAIN lists[n] : n \in DOMAIN lists}
      IN  /\ Cardinality(places) = answer[h].total
          /\ \A p, r \in places : lists[p[1]][p[2]] = lists[r[1]][r[2]] => p = r
          /\ \A n \in DOMAIN lists : Len(lists[n]) <= PageSize(q)

HasNameless(lib) ==
  \E t \in Range(lib.tracks) :
    \E f \in {"artist", "albumArtist", "genre"} : Nameless(lib, t[f])

\* No name in the library tells the key of a group of artists or genres, which is
\* a lowercase name, from what its page takes for the same name.
OneFolding(lib, q, k) ==
  q.section \in {"artists", "genres"} /\ k # Unknown =>
  \A t \in Range(lib.tracks) :
    \A f \in {"artist", "albumArtist", "genre"} :
      \A n \in ToSet(Members[lib.separators][t[f]]) : (<<k, n>> \in Same) <=> Fold[n] = k

\* What a group promises is what its page shows: as many tracks as the group
\* counts, although groups are made by splitting the tags of each track and the
\* page by testing each track for the name (browse.go:62-69, 92-135, 219-290).
\* Only of the tracks without a name it promises too many if a text is all
\* separators: such a text has no names, and is not blank. Nothing is claimed of
\* an artist or a genre whose key is not the same as exactly the names it stands
\* for.
GroupsAreDetails ==
  \A h \in Handlers :
    Answered(h, "browse") /\ ShowsGroups(key[h].query) /\ key[h].query.preset # "topArtists" =>
      LET q == key[h].query
          detail(g) ==
            [q EXCEPT !.search = <<>>, !.page = 1, !.disc = 0, !.albums = FALSE, !.recursive = TRUE,
                      !.rule = IF q.section \in {"playlists", "folders"} THEN <<>> ELSE @,
                      !.preset = IF q.section \in {"playlists", "folders"} THEN "" ELSE @,
                      !.detail = IF q.section = "folders" THEN <<g.id, <<>>>> ELSE <<g.id>>]
      IN  q.detail = <<>> =>
            \A i \in DOMAIN answer[h].list :
              LET g == answer[h].list[i]
                  shown == Page(Libraries[seen[h].library], detail(g)).trackCount
              IN  IF g.id = Unknown /\ HasNameless(Libraries[seen[h].library])
                  THEN g.count >= shown
                  ELSE OneFolding(Libraries[seen[h].library], q, g.id) => g.count = shown

\* The queue that starts playback holds the track that was chosen, within its
\* window.
QueueHasChosen ==
  \A h \in Handlers :
    Answered(h, "queue") /\ answer[h] # NotFound /\ key[h].start # 0 =>
      /\ key[h].start \in ToSet(answer[h].ids)
      /\ Len(answer[h].ids) <= Window

\* The pages of a list tile it, and the queue of a list holds the track it was
\* asked to begin with, however far down the list that is
\* (browse.go:413-503, 577-598).
ListsAreWhole == PagesTile /\ QueueHasChosen
=============================================================================
