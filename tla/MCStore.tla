------------------------------ MODULE MCStore ------------------------------
EXTENDS Store, TLC

CONSTANTS w1, w2, v1, v2, music, radio, mix, best, rules, s1

MCSourceOf == [t \in Tracks |-> IF t = 3 THEN radio ELSE music]
MCDuration == [t \in Tracks |-> IF t = 2 THEN 40 ELSE 800]
MCArtistsOf ==
  [plain |-> [t \in Tracks |-> {"one and two"}],
   split |-> [t \in Tracks |-> IF t = 3 THEN {"one and two"} ELSE {"one", "two"}]]

MCSeeds ==
  {[Empty EXCEPT
      !.tracks = [t \in 1..2 |-> Fresh] @@ (3 :> Fresh),
      !.sources = (music :> [name |-> v1, path |-> v1]) @@ (radio :> [name |-> v2, path |-> v2]),
      !.lists = mix :> [name |-> v1, smart |-> FALSE, items |-> <<2, 1>>]]}

Reports ==
  {[seconds |-> 60, completed |-> FALSE, seeked |-> FALSE],
   [seconds |-> 39, completed |-> TRUE, seeked |-> FALSE]}

\* What is played, forgotten, marked and merged.
Plays ==
  [kind: {"play"}, track: Tracks, session: PlayIDs, report: Reports, at: {0}]
  \cup [kind: {"clear"}]

Merges ==
  [kind: {"play"}, track: {1}, session: PlayIDs, report: Reports, at: {0}]
  \cup [kind: {"favorite"}, track: {1}, value: BOOLEAN]
  \cup [kind: {"merge"}, source: {music}, found: {{1, 2}, {2, 4}}]
  \cup [kind: {"removeSource"}, source: {music}]
  \cup [kind: {"addSource"}, source: {music}, name: {v1, v2}, path: {v1}]
  \cup [kind: {"forget"}, track: {2}]

\* Playlists and the sources and tracks they draw on.
Edits ==
  [kind: {"addItems"}, list: {mix}, ids: {<<3>>, <<1, 3>>}]
  \cup [kind: {"removeItems"}, list: {mix}, ids: {{1}, {2, 3}}]
  \cup [kind: {"moveItem"}, list: {mix}, track: {1, 3}, position: 1..3]
  \cup [kind: {"cleanItems", "dropList"}, list: {mix}]
  \cup [kind: {"createList"}, list: {mix, best}, name: {v1}, smart: BOOLEAN]
  \cup [kind: {"editList"}, list: {best}, name: {v2}, smart: BOOLEAN]
  \cup [kind: {"forget"}, track: {3}]
  \cup [kind: {"removeSource"}, source: {music}]

Settings ==
  [kind: {"separators"}, value: Separators]
  \cup [kind: {"limit"}, value: Values]
  \cup [kind: {"createRules", "editRules"}, rules: {rules}, value: Values]
  \cup [kind: {"dropRules"}, rules: {rules}]
  \cup [kind: {"editSource"}, source: {music}, name: Values, path: Values]
  \cup [kind: {"addItems"}, list: {mix}, ids: {<<3>>}]
  \cup [kind: {"forget"}, track: {3}]

Alike == Permutations(Writers)
MCScenarios == {Plays, Merges, Edits, Settings}
=============================================================================
