----------------------------- MODULE MCScanner -----------------------------
EXTENDS Scanner, TLC

CONSTANTS main, nas, a, b, c

MCSourceOf == (a :> main) @@ (b :> main) @@ (c :> nas)

\* One separator setting joins the contents in one album, the other does not.
MCAlbums ==
  ("plain" :> [x \in Contents |-> IF x = 1 THEN "first" ELSE "second"])
  @@ ("split" :> [x \in Contents |-> IF x = 1 THEN "second" ELSE "none"])

Stored(f, favorite, cover) ==
  [file |-> f, content |-> 1, favorite |-> favorite, plays |-> 1,
   missing |-> FALSE, cover |-> cover]

Scenario(kinds, n, k) == [kinds |-> kinds, changes |-> n, scans |-> k]
MCScenarios ==
  {Scenario({"mark", "files", "stop"}, 1, 2), Scenario({"sources", "mark"}, 2, 1),
   Scenario({"sources"}, 2, 2), Scenario({"roots", "ignore"}, 2, 1),
   Scenario({"separators", "roots", "stop"}, 1, 2), Scenario({"files"}, 2, 2),
   Scenario({"files", "close"}, 1, 2), Scenario({"drives"}, 2, 1)}

Stock(x, y) ==
  [f \in Files |-> [content |-> IF f = b THEN y ELSE x, readable |-> TRUE]]
MCDisks == {Stock(1, 2), Stock(2, 1)}

MCLibraries ==
  {[sources |-> {main, nas}, ignored |-> {}, separators |-> "plain",
    tracks |-> (1 :> Stored(a, TRUE, a)) @@ (2 :> Stored(c, FALSE, a))],
   [sources |-> {main}, ignored |-> {b}, separators |-> "plain",
    tracks |-> 1 :> Stored(a, FALSE, a)]}
=============================================================================
