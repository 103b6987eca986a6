------------------------------ MODULE MCBrowse ------------------------------
(* A small catalogue, and what clients ask of it.                          *)
EXTENDS BrowseService

(* Texts: 0 "", 1 "an", 2 "Ann", 3 "ann", 4 "Ann/Bob", 5 "Bob", 6 "Rock",
   7 "/", 8 "ZI" with a dot on the capital I, 9 "ZI", 10 and 11 a Greek name that
   ends in the final sigma, and in capitals. 8 and 9 have one key, of which only
   9 is a folding; 10 and 11 have two, and each is a folding of both. *)
MCFold == [t \in 0..11 |-> <<0, 1, 2, 2, 3, 4, 5, 6, 7, 7, 8, 9>>[t + 1]]
MCSame == {<<MCFold[t], t>> : t \in (1..11) \ {8}} \cup {<<8, 11>>, <<9, 10>>}
MCWithin == {<<a, a>> : a \in 0..9} \cup {<<0, a>> : a \in 0..9}
            \cup {<<1, 2>>, <<1, 3>>, <<2, 3>>, <<4, 3>>}

\* Separators besides the semicolon: none (0), or a slash (1).
MCMembers ==
  [separators \in 0..1 |->
     [t \in 0..11 |-> IF t = 0 \/ (t = 7 /\ separators = 1) THEN <<>>
                     ELSE IF t = 4 /\ separators = 1 THEN <<2, 5>> ELSE <<t>>]]
MCShuffled == <<3, 1, 6, 2, 5, 4>>

MCTagNames == {"tag:mood"}
MCTagOf == [f \in {"tag:mood", "mood"} |-> "tag:mood"]
MCTagText == [moods \in {<<>>, <<6>>, <<5, 6>>} |->
                CASE moods = <<>> -> 0 [] moods = <<6>> -> 5 [] OTHER -> 4]

Song(id, title, artist, albumArtist, album, genre) ==
  [id |-> id, title |-> title, artist |-> artist, albumArtist |-> albumArtist,
   genre |-> genre, album |-> album, albumID |-> album, filename |-> title, path |-> title,
   format |-> 6, key |-> 0, year |-> 2000 + album, duration |-> 100, playCount |-> 0,
   addedAt |-> 10 - id, lastPlayed |-> 0, disc |-> 0, number |-> id, bitrate |-> 0,
   sampleRate |-> 0, bpm |-> 0, favorite |-> FALSE, missing |-> FALSE, source |-> 1,
   folder |-> <<>>, tags |-> [n \in MCTagNames |-> <<6>>]]

MCTracks == <<
  [Song(1, 6, 2, 0, 2, 6) EXCEPT !.playCount = 2, !.lastPlayed = 5, !.disc = 2],
  [Song(2, 1, 4, 5, 2, 6) EXCEPT !.folder = <<2>>, !.favorite = TRUE],
  [Song(3, 0, 0, 0, 0, 0) EXCEPT !.folder = <<2, 5>>, !.playCount = 2, !.lastPlayed = 7],
  [Song(4, 5, 3, 3, 5, 4) EXCEPT !.missing = TRUE, !.lastPlayed = 1, !.playCount = 1],
  [Song(5, 5, 5, 4, 5, 5) EXCEPT !.folder = <<3>>, !.disc = 1, !.bpm = 120,
                                 !.tags["tag:mood"] = <<5, 6>>],
  [Song(6, 5, 5, 0, 5, 6) EXCEPT !.source = 2, !.tags["tag:mood"] = <<>>]>>

LikesRock == [mode |-> "", field |-> "genre", op |-> "contains", value |-> 6]
Slow == [mode |-> "", field |-> "bpm", op |-> "lt", value |-> 130]
Moody == [mode |-> "", field |-> "tag:mood", op |-> "ne", value |-> 5]
AnyOf(rules) == [mode |-> "any", rules |-> rules]
AllOf(rules) == [mode |-> "all", rules |-> rules]
Deep == AnyOf(<<AllOf(<<Slow>>)>>)
TooDeep == AllOf(<<Deep>>)
MCRules ==
  {LikesRock, Slow, Moody, AnyOf(<<LikesRock, Slow>>), AnyOf(<<Slow, LikesRock>>),
   AllOf(<<Slow, Moody>>), AllOf(<<Slow>>), Deep, TooDeep}

List(name, smart, tracks) ==
  [name |-> name, smart |-> smart, rule |-> AnyOf(<<LikesRock, Slow>>),
   sort |-> "bpm", desc |-> TRUE, tracks |-> tracks]

Library(tracks, sep) ==
  [tracks |-> tracks, separators |-> sep,
   playlists |-> <<List(2, FALSE, <<4, 2, 9, 1>>), List(5, TRUE, <<>>)>>,
   sources |-> <<2, 6>>]
MCLibraries ==
  [whole |-> Library(MCTracks, 1), joined |-> Library(MCTracks, 0),
   few |-> Library(SubSeq(MCTracks, 1, 3), 1), small |-> Library(SubSeq(MCTracks, 1, 2), 1),
   empty |-> Library(<<>>, 1),
   odd |-> Library(<<MCTracks[1], [Song(2, 6, 7, 7, 0, 7) EXCEPT !.playCount = 1]>>, 1),
   folded |-> Library(<<Song(1, 6, 10, 0, 0, 8), Song(2, 1, 11, 10, 0, 9)>>, 0)]

-----------------------------------------------------------------------------

B(q) == [path |-> "browse", query |-> q]
Q(q, start) == [path |-> "queue", query |-> q, start |-> start]
In(section) == [Everything EXCEPT !.section = section]
Of(section, detail) == [In(section) EXCEPT !.detail = detail]

Queries ==
  {[In(s) EXCEPT !.page = p, !.search = x] : s \in Sections, p \in {0, 2}, x \in {<<>>, <<1>>}}
  \cup {[In(s) EXCEPT !.sort = f, !.desc = d] :
          s \in {"songs", "albums", "artists"}, d \in BOOLEAN, f \in {"artist", "year", "addedAt"}}
  \cup {[In("songs") EXCEPT !.sort = f, !.pageSize = 9] : f \in {"mood", "tag:mood"}}
  \cup {[In("artists") EXCEPT !.sort = f] : f \in {"count", "albumCount"}}
  \cup {[In(s) EXCEPT !.preset = p] :
          s \in {"songs", "artists"}, p \in {"topSongs", "topArtists", "recentlyAdded", "unheard"}}
  \cup {Of(s, <<k>>) : s \in {"artists", "genres"}, k \in {0, 2, 3, 7, 8}}
  \cup {[Of("albums", <<a>>) EXCEPT !.disc = d] : a \in {2, 5}, d \in {0, 1}}
  \cup {[Of("artists", <<4>>) EXCEPT !.albums = TRUE], [In("genres") EXCEPT !.pageSize = 9]}
  \cup {[Of("folders", <<1, f>>) EXCEPT !.recursive = r, !.search = x] :
          f \in {<<>>, <<2>>, <<6>>}, r \in BOOLEAN, x \in {<<>>, <<1>>}}
  \cup {Of("playlists", <<p>>) : p \in {1, 2, 3}}
  \cup {[In("songs") EXCEPT !.rule = <<r>>] :
          r \in {LikesRock, AllOf(<<Slow, Moody>>), AnyOf(<<Slow, LikesRock>>), TooDeep}}

Survey ==
  [libraries |-> {"whole", "joined", "odd", "folded", "empty"}, publications |-> 0, requests |-> 1,
   keys |-> {B(q) : q \in Queries} \cup {[path |-> "home"]}
            \cup {Q(In("songs"), t) : t \in 0..6}
            \cup {Q([Of("albums", <<2>>) EXCEPT !.disc = 2], t) : t \in {0, 1, 2}}]
Race ==
  [libraries |-> {"few", "small"}, publications |-> 2, requests |-> 3,
   keys |-> {[path |-> "home"], B(In("songs")), B(In("albums"))}]
MCScenarios == [survey |-> Survey, race |-> Race]

\* The length of a page, by what is on it.
PageBytes(page) ==
  IF "list" \in DOMAIN page THEN 1 + Len(page.list) ELSE 2 + Len(page.recent)
=============================================================================
