------------------------------- MODULE Browse -------------------------------
(***************************************************************************)
(* What a client sees of a library (internal/app/browse.go): pages of      *)
(* tracks, of groups and of folders, the home page, and the queue that     *)
(* starts playback from a list.                                            *)
(*                                                                         *)
(* Headings, covers, years, lyrics and the order by file times are left    *)
(* out. The answer to a search looks into each field by itself, where the  *)
(* code also finds what spans two of them.                                 *)
(***************************************************************************)
EXTENDS TrackRules

CONSTANTS
  Members,      \* for a separator setting and a text, the names it is made of
  Same,         \* pairs of a key and a name that fold to the same text
  Unknown,      \* the rank of a group of tracks without a name: 0
  DefaultSize,  \* a page when the client names no size: 50 in the code
  MaxSize,      \* the largest page: 100
  Window,       \* tracks in a queue: 500
  HomeSize,     \* tracks in each list of the home page: 8
  Shuffled,     \* for a track ID, its place in the stable random order
  RuleNodes, RuleDepth  \* bounds on a rule: 30 and 4

ASSUME BrowseAssumption ==
  /\ Unknown = 0
  /\ DefaultSize \in 1..MaxSize /\ MaxSize \in Nat
  /\ Window \in Nat \ {0} /\ HomeSize \in Nat \ {0}
  /\ DOMAIN Fold \subseteq Nat
  /\ \A separators \in DOMAIN Members, text \in DOMAIN Fold :
       /\ Members[separators][text] \in Seq(DOMAIN Fold)
       /\ \A n \in Range(Members[separators][text]) : Fold[n] # 0
       /\ Fold[text] = 0 => Members[separators][text] = <<>>

-----------------------------------------------------------------------------
(* Which tracks a query lists. lib.tracks is a function from IDs.           *)

\* What the store keeps: a track has its own ID, a plain playlist has no track
\* twice.
IsLibrary(lib) ==
  /\ IsFiniteSet(DOMAIN lib.tracks) /\ lib.separators \in DOMAIN Members
  /\ \A id \in DOMAIN lib.tracks :
       LET t == lib.tracks[id]
       IN  IsTrack(t) /\ t.id = id /\ t.albumID \in Nat /\ t.folder \in Seq(DOMAIN Fold)
  /\ IsFiniteSet(DOMAIN lib.playlists) /\ DOMAIN lib.playlists \subseteq Nat \ {0}
  /\ \A p \in DOMAIN lib.playlists :
       LET list == lib.playlists[p]
       IN  /\ list.name \in DOMAIN Fold /\ list.smart \in BOOLEAN /\ list.desc \in BOOLEAN
           /\ list.tracks \in Seq(Nat) /\ IsInjective(list.tracks)
  /\ IsFiniteSet(DOMAIN lib.sources) /\ DOMAIN lib.sources \subseteq Nat \ {0}
  /\ \A s \in DOMAIN lib.sources : lib.sources[s] \in DOMAIN Fold

Live(lib) == {t \in Range(lib.tracks) : ~t.missing}

Names(lib, text) == {Fold[n] : n \in ToSet(Members[lib.separators][text])}

\* tagHas. Names are compared by folding, keys are lowercased: with the final
\* and the other sigma two keys have the same names, and a dotted capital I has a
\* key that it is not the same as.
Has(lib, text, k) == \E n \in ToSet(Members[lib.separators][text]) : <<k, n>> \in Same

Blank(text) == Fold[text] = 0

\* A text of nothing but separators.
Nameless(lib, text) == ~Blank(text) /\ Names(lib, text) = {}

Finds(search, text) == <<Fold[search], Fold[text]>> \in Within

\* The playlist a query is about, if there is one.
HasList(lib, q) ==
  q.section = "playlists" /\ q.detail # <<>> /\ q.detail[1] \in DOMAIN lib.playlists
IsPlain(lib, q) == HasList(lib, q) /\ ~lib.playlists[q.detail[1]].smart
IsSmart(lib, q) == HasList(lib, q) /\ lib.playlists[q.detail[1]].smart

InFolder(t, q) ==
  /\ t.source = q.detail[1]
  /\ t.folder = q.detail[2] \/ (q.recursive /\ IsStrictPrefix(q.detail[2], t.folder))

InDetail(lib, t, q) ==
  /\ q.section = "albums" => t.albumID = q.detail[1]
  /\ q.section = "artists" =>
       IF q.detail[1] = Unknown THEN Blank(t.artist) /\ Blank(t.albumArtist)
       ELSE Has(lib, t.artist, q.detail[1]) \/ Has(lib, t.albumArtist, q.detail[1])
  /\ q.section = "genres" =>
       IF q.detail[1] = Unknown THEN Blank(t.genre) ELSE Has(lib, t.genre, q.detail[1])
  /\ q.section = "folders" => InFolder(t, q)
  /\ q.section = "playlists" =>
       /\ HasList(lib, q)
       /\ IsSmart(lib, q) => Match(lib.playlists[q.detail[1]].rule, t)

Lists(lib, t, q) ==
  /\ t.missing => IsPlain(lib, q) \/ q.section = "recent"
  /\ q.section = "favorites" => t.favorite
  /\ q.section = "recent" => t.lastPlayed # 0
  /\ q.preset \in {"topSongs", "topArtists"} => t.playCount # 0
  /\ q.preset = "unheard" => t.playCount = 0
  /\ q.detail # <<>> => InDetail(lib, t, q)
  /\ q.search # <<>> =>
       \E f \in {"title", "filename", "artist", "albumArtist", "album", "genre"} :
         Finds(q.search[1], t[f])
  /\ q.rule # <<>> => Match(q.rule[1], t)

-----------------------------------------------------------------------------
(* The order of a list.                                                     *)

SortField(lib, q) ==
  IF IsSmart(lib, q) THEN lib.playlists[q.detail[1]].sort
  ELSE IF q.preset = "topSongs" THEN "playCount"
  ELSE IF q.preset = "recentlyAdded" THEN "addedAt"
  ELSE IF q.section = "recent" THEN "lastPlayed"
  ELSE IF q.section = "albums" /\ q.detail # <<>> /\ q.sort \in {"", "title"} THEN "number"
  ELSE IF q.sort = "" THEN "title" ELSE q.sort

SortDesc(lib, q) ==
  IF IsSmart(lib, q) THEN lib.playlists[q.detail[1]].desc
  ELSE q.desc \/ q.section = "recent" \/ q.preset \in {"topSongs", "recentlyAdded"}

Disc(t) == IF t.disc < 1 THEN 1 ELSE t.disc

\* Most played, then most recently played, then by ID.
TopBefore(a, b) ==
  \/ a.playCount > b.playCount
  \/ a.playCount = b.playCount /\ a.lastPlayed > b.lastPlayed
  \/ a.playCount = b.playCount /\ a.lastPlayed = b.lastPlayed /\ a.id < b.id

ListBefore(lib, q, a, b) ==
  LET field == SortField(lib, q)
      byDisc == q.section = "albums" /\ q.detail # <<>> /\ field = "number"
  IN  IF q.preset = "topSongs" THEN TopBefore(a, b)
      ELSE IF byDisc /\ Disc(a) # Disc(b) THEN Disc(a) < Disc(b)
      ELSE Before(field, SortDesc(lib, q), a, b)

\* browseTracks. A plain playlist keeps its own order.
PlaylistTracks(lib, q) ==
  LET ids == Filtered(lib.playlists[q.detail[1]].tracks,
                      LAMBDA id : id \in DOMAIN lib.tracks /\ Lists(lib, lib.tracks[id], q))
  IN  [i \in DOMAIN ids |-> lib.tracks[ids[i]]]

Tracks(lib, q) ==
  IF ~IsPlain(lib, q)
  THEN Arranged({t \in Range(lib.tracks) : Lists(lib, t, q)},
                LAMBDA a, b : ListBefore(lib, q, a, b))
  ELSE IF q.preset = "topSongs" THEN Arranged(Range(PlaylistTracks(lib, q)), TopBefore)
  ELSE PlaylistTracks(lib, q)

-----------------------------------------------------------------------------
(* Groups: albums, artists, genres, playlists and sources.                  *)

Smallest(S) == CHOOSE x \in S : \A y \in S : x <= y

\* The sum of the counts: one pair for each play.
Plays(tracks) ==
  Cardinality(UNION {{i} \X (1..tracks[i].playCount) : i \in DOMAIN tracks})

\* The earliest time since the last track without one, which starts anew.
FirstAdded(tracks) ==
  LET since == {i \in DOMAIN tracks : \A j \in i..Len(tracks) : tracks[j].addedAt # 0}
  IN  IF since = {} THEN 0 ELSE Smallest({tracks[i].addedAt : i \in since})

MakeGroup(id, name, tracks) ==
  [id |-> id, name |-> name,
   count |-> Len(tracks),
   albumCount |-> Cardinality({tracks[i].albumID : i \in DOMAIN tracks}),
   playCount |-> Plays(tracks), addedAt |-> FirstAdded(tracks),
   year |-> IF tracks = <<>> THEN 0 ELSE tracks[1].year,
   artist |-> IF tracks = <<>> THEN 0
              ELSE Fold[IF Blank(tracks[1].albumArtist) THEN tracks[1].artist
                        ELSE tracks[1].albumArtist],
   tracks |-> SubSeq(tracks, 1, IF Len(tracks) < 4 THEN Len(tracks) ELSE 4)]

Everything ==
  [section |-> "songs", detail |-> <<>>, preset |-> "", search |-> <<>>, rule |-> <<>>,
   sort |-> "", desc |-> FALSE, page |-> 1, pageSize |-> 0, albums |-> FALSE,
   disc |-> 0, recursive |-> FALSE]

Sections ==
  {"songs", "favorites", "recent", "albums", "artists", "genres", "playlists", "folders"}

\* decodeBrowse
IsQuery(q) ==
  /\ DOMAIN q = DOMAIN Everything /\ q.section \in Sections
  /\ q.search # <<>> => q.search[1] \in DOMAIN Fold
  /\ q.section = "folders" /\ q.detail # <<>> => q.detail[2] \in Seq(DOMAIN Fold)
  /\ q.desc \in BOOLEAN /\ q.albums \in BOOLEAN /\ q.recursive \in BOOLEAN
  /\ q.page \in Nat /\ q.pageSize \in Nat

\* The mutant forgets the artists of a track's album.
KeysOfArtist(lib, t, kind, q) ==
  LET names == IF kind = "genres" THEN Names(lib, t.genre) ELSE Names(lib, t.artist)
  IN  IF kind = "albums" THEN {t.albumID} \ {0}
      ELSE IF names = {} THEN {Unknown} ELSE names

\* The groups of a track. For a list of top artists only its artists count.
KeysOf(lib, t, kind, q) ==
  LET names == CASE kind = "artists" ->
                      Names(lib, t.artist)
                      \cup (IF q.preset = "topArtists" THEN {} ELSE Names(lib, t.albumArtist))
                 [] kind = "genres" -> Names(lib, t.genre)
                 [] OTHER -> {}
  IN  IF kind = "albums" THEN {t.albumID} \ {0}
      ELSE IF names = {} THEN {Unknown} ELSE names

GroupsOf(lib, tracks, kind, q) ==
  LET keys == UNION {KeysOf(lib, tracks[i], kind, q) : i \in DOMAIN tracks}
      items(k) == Filtered(tracks, LAMBDA t : k \in KeysOf(lib, t, kind, q))
      name(k) == IF kind = "albums" THEN Fold[Last(items(k)).album] ELSE k
  IN  {MakeGroup(k, name(k), items(k)) : k \in keys}

Groups(lib, tracks, kind, q) ==
  LET found(rank) == q.search # <<>> => <<Fold[q.search[1]], rank>> \in Within
  IN  CASE kind = "playlists" ->
             {MakeGroup(p, Fold[lib.playlists[p].name],
                        Tracks(lib, [Everything EXCEPT !.section = kind, !.detail = <<p>>])) :
                p \in {p \in DOMAIN lib.playlists : found(Fold[lib.playlists[p].name])}}
        [] kind = "folders" ->
             {MakeGroup(s, Fold[lib.sources[s]],
                        Tracks(lib, [Everything EXCEPT !.section = kind,
                                       !.detail = <<s, <<>>>>, !.recursive = TRUE])) :
                s \in {s \in DOMAIN lib.sources : found(Fold[lib.sources[s]])}}
        [] OTHER ->
             {g \in GroupsOf(lib, tracks, kind, q) :
                found(g.name) \/ (kind = "albums" /\ found(g.artist))}

GroupBefore(q, a, b) ==
  LET field == IF q.preset = "topArtists" THEN "playCount" ELSE q.sort
      desc == q.desc \/ q.preset = "topArtists"
      numbers == field \in {"year", "count", "albumCount", "playCount", "addedAt"}
      name(g) == IF field = "artist" THEN g.artist ELSE g.name
  IN  IF numbers /\ a[field] # b[field]
      THEN IF a[field] = 0 \/ b[field] = 0 THEN a[field] # 0
           ELSE IF desc THEN a[field] > b[field] ELSE a[field] < b[field]
      ELSE IF name(a) # name(b)
      THEN IF desc /\ field \in {"title", "filename", "artist"}
           THEN name(a) > name(b) ELSE name(a) < name(b)
      ELSE a.id < b.id

-----------------------------------------------------------------------------
(* A page.                                                                  *)

PageSize(q) ==
  LET size == IF q.pageSize = 0 THEN DefaultSize ELSE q.pageSize
  IN  IF size > MaxSize THEN MaxSize ELSE size

\* The part of a list that is on the page. The mutant begins one too late.
PartAfter(list, q) ==
  LET start == (q.page - 1) * PageSize(q) + 1
  IN  SubSeq(list, start + 1, IF start + PageSize(q) < Len(list) THEN start + PageSize(q)
                              ELSE Len(list))

Part(list, q) ==
  LET start == (q.page - 1) * PageSize(q)
  IN  SubSeq(list, start + 1, IF start + PageSize(q) < Len(list) THEN start + PageSize(q)
                              ELSE Len(list))

ShowsGroups(q) ==
  \/ q.detail = <<>>
     /\ q.section \in {"albums", "artists", "genres", "playlists", "folders"}
  \/ q.albums /\ q.section \in {"artists", "genres"}

\* The folders directly within the folder of the query.
Folders(lib, q) ==
  LET folder == q.detail[2]
      within == {t \in Live(lib) : /\ t.source = q.detail[1]
                                   /\ IsStrictPrefix(folder, t.folder)}
      names == {t.folder[Len(folder) + 1] : t \in within}
      found == {n \in names : q.search # <<>> => Finds(q.search[1], n)}
  IN  Arranged(found, LAMBDA a, b :
        IF Fold[a] = Fold[b] THEN a < b
        ELSE IF q.desc THEN Fold[a] > Fold[b] ELSE Fold[a] < Fold[b])

FolderExists(lib, q) ==
  q.section = "folders" /\ q.detail # <<>> =>
    q.detail[2] = <<>> \/ \E t \in Live(lib) : /\ t.source = q.detail[1]
                                               /\ IsPrefix(q.detail[2], t.folder)

IDs(tracks) == [i \in DOMAIN tracks |-> tracks[i].id]

OfDisc(tracks, q) == Filtered(tracks, LAMBDA t : q.disc = 0 \/ Disc(t) = q.disc)

\* What the pages of a list consist of.
GroupEntries(lib, q, tracks) ==
  Arranged(Groups(lib, tracks, IF q.albums /\ q.detail # <<>> THEN "albums" ELSE q.section, q),
           LAMBDA a, b : GroupBefore(q, a, b))

TrackEntries(lib, q, tracks) ==
  LET folders == IF q.section = "folders" /\ q.detail # <<>> THEN Folders(lib, q) ELSE <<>>
  IN  [i \in DOMAIN folders |-> <<"folder", folders[i]>>]
      \o [i \in DOMAIN tracks |-> <<"track", tracks[i].id>>]

Entries(lib, q, tracks) ==
  IF ShowsGroups(q) THEN GroupEntries(lib, q, tracks) ELSE TrackEntries(lib, q, tracks)

PageOf(lib, q, tracks, list, discs) ==
  [list |-> Part(list, q), total |-> Len(list), trackCount |-> Len(tracks),
   libraryCount |-> Cardinality(Live(lib)), discs |-> discs,
   folderExists |-> FolderExists(lib, q)]

\* From all the tracks of the query. Only an album is a list of discs.
PageFrom(lib, q, all) ==
  LET album == q.section = "albums" /\ q.detail # <<>>
      tracks == IF album THEN OfDisc(all, q) ELSE all
  IN  PageOf(lib, q, tracks, Entries(lib, q, tracks),
             IF album THEN {Disc(all[i]) : i \in DOMAIN all} ELSE {})

\* buildBrowse. A search for groups looks at their names, not at their tracks.
Page(lib, asked) ==
  LET q == [asked EXCEPT !.page = IF @ < 1 THEN 1 ELSE @]
  IN  PageFrom(lib, q, Tracks(lib, IF ShowsGroups(q) THEN [q EXCEPT !.search = <<>>] ELSE q))

\* homeData: new tracks, top tracks, a stable random choice of unheard tracks,
\* and top artists.
HomeLists ==
  [p \in {"recentlyAdded", "topSongs", "unheard", "topArtists"} |->
     [Everything EXCEPT !.preset = p, !.pageSize = HomeSize,
                        !.section = IF p = "topArtists" THEN "artists" ELSE "songs"]]

HomeOf(lib, pages, unheard) ==
  [recent |-> pages["recentlyAdded"].list, frequent |-> pages["topSongs"].list,
   unheard |-> IDs(Part(unheard, HomeLists["unheard"])),
   artists |-> pages["topArtists"].list, total |-> pages["recentlyAdded"].libraryCount]

Home(lib) ==
  HomeOf(lib, [p \in {"recentlyAdded", "topSongs", "topArtists"} |-> Page(lib, HomeLists[p])],
         Arranged({t \in Live(lib) : t.playCount = 0},
                  LAMBDA a, b : Shuffled[a.id] < Shuffled[b.id]))

\* browseQueue: from the track that was chosen, or from the first; the window
\* moves back so far that it still contains the track.
NotFound == [notFound |-> TRUE]

WindowStart(start) == IF start > Window THEN start - Window + 1 ELSE 1

QueueFrom(ids, chosen) ==
  LET at == {i \in DOMAIN ids : ids[i] = chosen}
      first == WindowStart(IF chosen = 0 THEN 1 ELSE Smallest(at))
  IN  IF chosen # 0 /\ at = {} THEN NotFound
      ELSE [ids |-> SubSeq(ids, first, IF first + Window - 1 < Len(ids)
                                       THEN first + Window - 1 ELSE Len(ids))]

Queue(lib, q, chosen) ==
  QueueFrom(IDs(OfDisc(Filtered(Tracks(lib, q), LAMBDA t : ~t.missing), q)), chosen)

-----------------------------------------------------------------------------
(* Requests.                                                                *)

Refused == [refused |-> TRUE]

\* decodeBrowse refuses a rule out of bounds.
Answer(lib, key) ==
  IF key.path = "home" THEN Home(lib)
  ELSE IF key.query.rule # <<>> /\ ~Valid(key.query.rule[1], RuleNodes, RuleDepth) THEN Refused
  ELSE IF key.path = "browse" THEN Page(lib, key.query)
  ELSE Queue(lib, key.query, key.start)
=============================================================================
