----------------------------- MODULE TrackRules -----------------------------
(***************************************************************************)
(* The order of tracks and the rules that select them, as internal/app     *)
(* computes them in memory (model.go): what lists, smart playlists and     *)
(* filters of the library are made of.                                     *)
(*                                                                         *)
(* A text is a value of which only three things are known: where it stands *)
(* among the lowercased texts, whether it is blank, and which other texts  *)
(* it contains. A track is a record of texts and numbers, and of tags: for *)
(* a tag name, a sequence of texts, which a list is sorted by as one text. *)
(***************************************************************************)
EXTENDS Integers, FiniteSets, SequencesExt

CONSTANTS
  Fold,    \* for a text, its rank among the lowercased texts; 0 if it is blank
  Within,  \* pairs of ranks: the first text is a part of the second
  TagNames,\* "tag:" and a name, as rules use them
  TagOf,   \* for a field that is no other, with or without "tag:", its tag
  TagText, \* for the values of a tag, the rank of their text: joined with "; "
  Rules    \* the rules that are asked, and those they are made of

TextFields ==
  {"title", "artist", "album", "genre", "albumArtist", "filename", "path", "format", "key"}
NumberFields ==
  {"year", "duration", "playCount", "addedAt", "lastPlayed", "disc", "number",
   "bitrate", "sampleRate", "bpm"}

\* What every track has, whatever else.
IsTrack(t) ==
  /\ TextFields \cup NumberFields \cup {"id", "favorite", "missing", "tags"} \subseteq DOMAIN t
  /\ t.id \in Nat /\ t.favorite \in BOOLEAN /\ t.missing \in BOOLEAN
  /\ \A f \in TextFields : t[f] \in DOMAIN Fold
  /\ \A f \in NumberFields : t[f] \in Nat
  /\ t.tags \in [TagNames -> DOMAIN TagText]

Null == -1

\* What fields are compared by. A tempo is a positive number or unknown; any
\* other field is the name of a tag, which a track may lack.
Value(t, f) ==
  CASE f \in TextFields -> Fold[t[f]]
    [] f = "bpm" -> IF t.bpm = 0 THEN Null ELSE t.bpm
    [] f = "favorite" -> IF t.favorite THEN 1 ELSE 0
    [] f \in NumberFields \ {"bpm"} -> t[f]
    [] OTHER -> IF f \in DOMAIN TagOf THEN TagText[t.tags[TagOf[f]]] ELSE 0

\* Unknown, blank or zero, but for a count and a favourite.
NoValue(f, v) == v = Null \/ (v = 0 /\ f \notin {"playCount", "favorite"})
Missing(t, f) == NoValue(f, Value(t, f))

\* The elements of a set in an order: each behind those that come before it.
Arranged(S, before(_, _)) ==
  LET place == [x \in S |-> Cardinality({y \in S : before(y, x)}) + 1]
  IN  [i \in 1..Cardinality(S) |-> CHOOSE x \in S : place[x] = i]

\* What a list keeps, in the order of the list.
Filtered(list, keep(_)) ==
  LET at == Arranged({i \in DOMAIN list : keep(list[i])}, LAMBDA i, j : i < j)
  IN  [n \in DOMAIN at |-> list[at[n]]]

-----------------------------------------------------------------------------
(* sortTracks: by the field, then by artist, album, disc, number and title; *)
(* tracks without a value come last whichever the direction.                *)

Fields(field) ==
  <<field>> \o Filtered(<<"artist", "album", "disc", "number", "title">>,
                        LAMBDA f : f # field)

\* What two tracks are sorted by: the value of a field, if there is one.
Absent == -2
KeyOf(f, v) == IF NoValue(f, v) THEN Absent ELSE v
SortKey(t, f) == KeyOf(f, Value(t, f))

Ahead(x, y, desc) ==
  IF Absent \in {x, y} THEN y = Absent
  ELSE IF desc THEN x > y ELSE x < y

\* By the first of the fields in which the tracks differ.
BeforeBy(fields, first, desc, a, b) ==
  IF first = 0 THEN a.id < b.id
  ELSE Ahead(SortKey(a, fields[first]), SortKey(b, fields[first]), desc /\ first = 1)

Before(field, desc, a, b) ==
  LET fields == Fields(IF field = "" THEN "addedAt" ELSE field)
  IN  BeforeBy(fields, SelectInSeq(fields, LAMBDA f : SortKey(a, f) # SortKey(b, f)),
               desc, a, b)

Sorted(tracks, field, desc) ==
  Arranged(tracks, LAMBDA a, b : Before(field, desc, a, b))

-----------------------------------------------------------------------------
(* Rule.Match. A rule is a group [mode, rules] or has mode "" and compares  *)
(* a field with a value: a text for a text field or a tag, else a number.   *)

Parts(rule) == IF rule.mode = "" THEN {} ELSE Range(rule.rules)

\* Rules are trees: what a rule is made of is a rule, and of some groups there
\* is always one that is not made of another.
ASSUME RuleAssumption ==
  /\ Fold \in [DOMAIN Fold -> Nat]
  /\ TagText \in [DOMAIN TagText -> Nat] /\ DOMAIN TagText \subseteq Seq(DOMAIN Fold)
  /\ TagOf \in [DOMAIN TagOf -> TagNames] /\ \A n \in TagNames : n \in DOMAIN TagOf /\ TagOf[n] = n
  /\ \A r \in Rules : Parts(r) \subseteq Rules
  /\ \A S \in SUBSET {r \in Rules : r.mode # ""} :
       S # {} => \E r \in S : Parts(r) \cap S = {}

Compares(a, b, op) ==
  \/ op = "eq" /\ a = b
  \/ op = "ne" /\ a # b
  \/ op = "gt" /\ a > b
  \/ op = "gte" /\ a >= b
  \/ op = "lt" /\ a < b
  \/ op = "lte" /\ a <= b
  \/ op = "contains" /\ <<b, a>> \in Within
  \/ op = "notContains" /\ <<b, a>> \notin Within

\* What a rule asks for, as it is compared.
Wanted(rule) ==
  IF rule.field \in TextFields \cup TagNames THEN Fold[rule.value] ELSE rule.value

\* A tag holds if one of its values does; "ne" and "notContains" hold if none
\* has what they exclude.
MatchTag(rule, t) ==
  LET values == {Fold[v] : v \in ToSet(t.tags[rule.field])}
      holds(op) == \E v \in values : Compares(v, Wanted(rule), op)
  IN  \/ rule.op = "isEmpty" /\ values \subseteq {0}
      \/ rule.op = "isNotEmpty" /\ ~(values \subseteq {0})
      \/ rule.op = "ne" /\ ~holds("eq")
      \/ rule.op = "notContains" /\ ~holds("contains")
      \/ rule.op \notin {"ne", "notContains"} /\ holds(rule.op)

MatchField(rule, t) ==
  \/ rule.op = "isEmpty" /\ Missing(t, rule.field)
  \/ rule.op = "isNotEmpty" /\ ~Missing(t, rule.field)
  \/ IF Value(t, rule.field) = Null THEN rule.op = "ne"
     ELSE Compares(Value(t, rule.field), Wanted(rule), rule.op)

MatchLeaf(rule, t) ==
  IF rule.field \in TagNames THEN MatchTag(rule, t) ELSE MatchField(rule, t)

Match(rule, t) ==
  LET holds[r \in Rules] ==
        \/ r.mode = "all" /\ \A i \in DOMAIN r.rules : holds[r.rules[i]]
        \/ r.mode = "any" /\ \E i \in DOMAIN r.rules : holds[r.rules[i]]
        \/ r.mode = "" /\ MatchLeaf(r, t)
  IN  holds[rule]

\* Rule.Validate: the bounds on a tree of rules, and the operators of a leaf.
Leaves == {"title", "artist", "album", "albumArtist", "genre", "path", "format", "key",
           "year", "duration", "playCount", "addedAt", "disc", "number", "bitrate",
           "sampleRate", "bpm", "favorite"} \cup TagNames
Orders == {"eq", "ne", "gt", "gte", "lt", "lte"}
Containments == {"contains", "notContains"}
Emptiness == {"isEmpty", "isNotEmpty"}

Nodes(rule) ==
  LET nodes[r \in Rules] ==
        IF r.mode = "" THEN 1 ELSE 1 + FoldSeq(LAMBDA s, n : n + nodes[s], 0, r.rules)
  IN  nodes[rule]

Depth(rule) ==
  LET depth[r \in Rules] ==
        IF r.mode = "" THEN 0 ELSE 1 + Max({0} \cup {depth[s] : s \in Parts(r)})
  IN  depth[rule]

Sound(rule) ==
  LET sound[r \in Rules] ==
        IF r.mode # ""
        THEN r.mode \in {"all", "any"} /\ r.rules # <<>> /\ \A s \in Parts(r) : sound[s]
        ELSE /\ r.field \in Leaves
             /\ r.op \in Emptiness \cup Containments \cup
                  (IF r.field = "path" THEN {"eq", "ne"} ELSE Orders)
  IN  sound[rule]

Valid(rule, nodes, depth) ==
  Sound(rule) /\ Nodes(rule) <= nodes /\ Depth(rule) <= depth
=============================================================================
