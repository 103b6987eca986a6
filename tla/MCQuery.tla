------------------------------- MODULE MCQuery -------------------------------
EXTENDS Query

(* Texts: 0 "", 1 "an", 2 "Ann", 3 "ann", 4 "Bob".                           *)
MCFold == [t \in 0..4 |-> <<0, 1, 2, 2, 3>>[t + 1]]
MCWithin == {<<a, a>> : a \in 0..3} \cup {<<0, a>> : a \in 0..3} \cup {<<1, 2>>}
MCTagNames == {"tag:mood"}
MCTagOf == [f \in {"tag:mood", "mood"} |-> "tag:mood"]
MCMoods == {<<>>, <<0>>, <<1>>, <<2>>, <<4, 2, 0>>}
MCTagText == [moods \in MCMoods |-> IF moods = <<>> THEN 0 ELSE MCFold[moods[1]]]

Song(id, title, artist, year, moods) ==
  [id |-> id, title |-> title, artist |-> artist, albumArtist |-> 0, genre |-> title, album |-> 0,
   filename |-> title, path |-> artist, format |-> 4, key |-> 0, year |-> year, duration |-> 100,
   playCount |-> 0, addedAt |-> 5, lastPlayed |-> 0, disc |-> 0, number |-> 1, bitrate |-> 0,
   sampleRate |-> 0, bpm |-> 0, favorite |-> FALSE, missing |-> FALSE,
   tags |-> [n \in MCTagNames |-> moods], columns |-> [folder |-> title]]

MCVersions ==
  {Song(1, 2, 4, 0, <<>>), [Song(1, 4, 0, 3, <<4, 2, 0>>) EXCEPT !.bpm = 3],
   Song(2, 3, 3, 3, <<0>>), [Song(2, 0, 1, 2, <<1>>) EXCEPT !.missing = TRUE],
   [Song(3, 2, 0, 3, <<2>>) EXCEPT !.bpm = 2, !.playCount = 1], Song(3, 1, 4, 2, <<>>)}

Leaf(field, op, value) == [mode |-> "", field |-> field, op |-> op, value |-> value]
AnyOf(rules) == [mode |-> "any", rules |-> rules]
AllOf(rules) == [mode |-> "all", rules |-> rules]

MCMoody == <<Leaf("tag:mood", "ne", 2), Leaf("title", "isNotEmpty", 0)>>
MCFast == <<Leaf("bpm", "ne", 3), AllOf(<<Leaf("path", "eq", 4)>>)>>

MCPlaylists ==
  <<[smart |-> FALSE, rule |-> <<>>, sort |-> "", desc |-> FALSE, tracks |-> <<3, 9, 2, 1>>],
    [smart |-> TRUE, rule |-> AllOf(MCMoody),
     sort |-> "artist", desc |-> TRUE, tracks |-> <<>>]>>

Ask == [search |-> <<>>, rule |-> <<>>, sort |-> "title", desc |-> FALSE, page |-> 0,
        pageSize |-> 0, playlist |-> 0, all |-> TRUE]
MCQueries ==
  {[Ask EXCEPT !.rule = <<Leaf(f, o, v)>>] :
     f \in {"title", "artist", "tag:mood"}, v \in {1, 2},
     o \in Orders \cup Containments \cup Emptiness}
  \cup {[Ask EXCEPT !.rule = <<Leaf(f, o, 3)>>] :
          f \in {"year", "bpm", "playCount"}, o \in Orders \cup Emptiness}
  \cup {[Ask EXCEPT !.rule = <<Leaf("favorite", o, 1)>>] : o \in {"eq", "ne", "isEmpty"}}
  \cup {[Ask EXCEPT !.rule = <<AnyOf(MCFast)>>]}
  \cup {[Ask EXCEPT !.sort = f, !.desc = d, !.page = p, !.pageSize = s, !.all = FALSE] :
          f \in {"", "title", "bpm", "playCount", "favorite", "filename", "folder", "mood",
                "other"},
          d \in BOOLEAN, p \in {0, 2, 3, 9}, s \in {1, 7}}
  \cup {[Ask EXCEPT !.playlist = p, !.all = a, !.search = x] :
          p \in {0, 1, 2}, a \in BOOLEAN, x \in {<<>>, <<1>>}}

MCRules ==
  {q.rule[1] : q \in {q \in MCQueries : q.rule # <<>>}}
  \cup {AllOf(MCMoody)} \cup Range(MCMoody) \cup Range(MCFast) \cup Range(MCFast[2].rules)
=============================================================================
