--------------------------- MODULE ScannerProofs ---------------------------
(***************************************************************************)
(* Proofs about Scanner for every finite set of files, every library and   *)
(* disk to start with and every scenario.                                  *)
(*                                                                         *)
(* The merge of a source enters the proofs only through MergeIs: the       *)
(* tracks it had keep their numbers, and what is new gets a track each.    *)
(***************************************************************************)
EXTENDS Scanner, TLAPS, FiniteSetTheorems, WellFoundedInduction

-----------------------------------------------------------------------------
(* The inductive strengthenings.                                           *)

Reading == pc = "files"
HasSnapshot == pc \in {"sources", "files", "covers", "end"}

TypeInv ==
  /\ IsLibrary(library)
  /\ disk \in [Files -> [content: Contents, readable: BOOLEAN] \cup {Absent}]
  /\ roots \subseteq Sources
  /\ status \in [running: BOOLEAN, stopping: BOOLEAN, cancelled: BOOLEAN]
  /\ stopped \in BOOLEAN
  /\ wanted \in [DOMAIN library.tracks -> [favorite: BOOLEAN, plays: Nat]]
  /\ pc \in {"idle", "begin", "sources", "files", "covers", "end"}
  /\ HasSnapshot => IsLibrary(snapshot) /\ todo \subseteq snapshot.sources
  /\ Reading => /\ source \in snapshot.sources \ todo
                /\ files \subseteq {f \in Files : SourceOf[f] = source}
                /\ DOMAIN found \subseteq {f \in Files : SourceOf[f] = source} \ files
                /\ found \in [DOMAIN found -> [content: Contents, cover: Files \cup {NoFile}]]
  /\ pc = "covers" => covers \in [DOMAIN covers -> Files \cup {NoFile}]

\* A file that was absent or ignored since the run began is noted.
AbsentIsUnseen ==
  pc # "idle" => {f \in Files : disk[f] = Absent \/ f \in library.ignored} \subseteq unseen
ExcludedIsUnseen == HasSnapshot => snapshot.ignored \subseteq unseen

\* The sources whose tracks the run has not merged yet.
Unmerged == todo \cup (IF Reading THEN {source} ELSE {})

\* No live track of such a source is newer than the run.
LiveWasLive ==
  pc \in {"sources", "files"} =>
    \A t \in DOMAIN library.tracks :
      Live(library, t) /\ SourceOf[library.tracks[t].file] \in Unmerged =>
        Live(snapshot, t) /\ snapshot.tracks[t].file = library.tracks[t].file

\* A file of the source that is walked is yet to be read, was read, was not
\* there, or had no track.
WalkAccounts ==
  Reading =>
    \A f \in Files :
      SourceOf[f] = source =>
        f \in files \cup DOMAIN found \cup unseen \/ TrackOf(snapshot, f) = NoTrack

LossInv ==
  /\ status.running <=> pc # "idle"
  /\ AbsentIsUnseen /\ ExcludedIsUnseen /\ LiveWasLive /\ WalkAccounts

\* While nothing but the scan happens, the library has the sources and rules
\* that the run began with,
Undisturbed == steady /\ ~stopped /\ HasSnapshot

SnapshotHolds ==
  Undisturbed =>
    library.sources = snapshot.sources /\ library.ignored = snapshot.ignored

\* what was read of the source that is walked is what is on disk,
FoundReflects ==
  Undisturbed /\ Reading =>
    /\ source \in roots
    /\ DOMAIN found \cup files \subseteq Listed(source)
    /\ \A f \in Listed(source) \ files :
         disk[f].readable => f \in DOMAIN found /\ found[f].content = disk[f].content

\* and the sources that were merged are as on disk.
Reflects(f) ==
  IF disk[f] = Absent \/ f \in library.ignored
  THEN \A t \in DOMAIN library.tracks : Live(library, t) => library.tracks[t].file # f
  ELSE disk[f].readable =>
         \E t \in DOMAIN library.tracks :
           /\ Live(library, t) /\ library.tracks[t].file = f
           /\ library.tracks[t].content = disk[f].content

MergedReflects ==
  /\ pc \in {"covers", "end"} => todo = {}
  /\ Undisturbed =>
       \A f \in Files : SourceOf[f] \in (library.sources \cap roots) \ Unmerged => Reflects(f)

\* CoverOf, with the mounted roots as a parameter.
PicturedOf(lib, R, group) ==
  {t \in DOMAIN lib.tracks :
     /\ Live(lib, t) /\ GroupOf(lib, t) = group
     /\ lib.tracks[t].file \in Pictured
     /\ SourceOf[lib.tracks[t].file] \in R}
First(S) == CHOOSE t \in S : \A u \in S : t <= u

CoverIn(lib, R, group) ==
  IF PicturedOf(lib, R, group) = {} THEN NoFile
  ELSE lib.tracks[First(PicturedOf(lib, R, group))].file

\* The covers were found in the library that they are given to.
Groups(lib) == {GroupOf(lib, t) : t \in {t \in DOMAIN lib.tracks : Live(lib, t)}}

CoversHold ==
  Undisturbed /\ pc = "covers" => covers = [g \in Groups(library) |-> CoverIn(library, roots, g)]

CoversShared ==
  \A t \in DOMAIN library.tracks :
    Live(library, t) => library.tracks[t].cover = CoverOf(library, GroupOf(library, t))

CoversAreSet == Undisturbed /\ pc = "end" => CoversShared

RestReflects ==
  pc = "idle" /\ steady /\ ~status.cancelled =>
    /\ \A f \in Files : SourceOf[f] \in library.sources \cap roots => Reflects(f)
    /\ CoversShared

ReflectInv ==
  /\ SnapshotHolds /\ FoundReflects /\ MergedReflects
  /\ CoversHold /\ CoversAreSet /\ RestReflects

-----------------------------------------------------------------------------
(* The operators.                                                          *)

LEMMA LeastNumber ==
  ASSUME NEW S, S \subseteq Nat, S # {}
  PROVE  \E n \in S : \A m \in S : n <= m
<1> DEFINE R == OpToRel(<, Nat)
<1>1. IsWellFoundedOn(R, Nat)
  BY NatLessThanWellFounded
<1>2. PICK n \in S : \A m \in S : ~(<<m, n>> \in R)
  BY <1>1, WFMin
<1>3. \A m \in S : ~(m < n)
  BY <1>2 DEF OpToRel
<1> QED
  BY <1>3

LEMMA CountedTracks ==
  ASSUME NEW lib, IsLibrary(lib)
  PROVE  /\ Cardinality(DOMAIN lib.tracks) \in Nat
         /\ DOMAIN lib.tracks = 1..Cardinality(DOMAIN lib.tracks)
         /\ lib.tracks \in [DOMAIN lib.tracks -> Track]
         /\ NoTrack \notin DOMAIN lib.tracks
<1>1. Cardinality(DOMAIN lib.tracks) \in Nat
  BY FS_CardinalityType DEF IsLibrary
<1> QED
  BY <1>1 DEF IsLibrary, NoTrack

\* What makes a library of numbered tracks.
LEMMA NumberedIsLibrary ==
  ASSUME NEW lib, NEW n \in Nat,
         lib = [sources |-> lib.sources, ignored |-> lib.ignored,
                separators |-> lib.separators, tracks |-> lib.tracks],
         lib.sources \subseteq Sources, lib.ignored \subseteq Files,
         lib.tracks \in [1..n -> Track]
  PROVE  IsLibrary(lib)
<1>1. DOMAIN lib.tracks = 1..n
  OBVIOUS
<1>2. IsFiniteSet(1..n) /\ Cardinality(1..n) = n
  BY FS_Interval
<1> QED
  BY <1>1, <1>2 DEF IsLibrary

LEMMA TrackOfIs ==
  ASSUME NEW lib, IsLibrary(lib), NEW f
  PROVE  /\ TrackOf(lib, f) # NoTrack =>
              /\ TrackOf(lib, f) \in DOMAIN lib.tracks
              /\ Live(lib, TrackOf(lib, f))
              /\ lib.tracks[TrackOf(lib, f)].file = f
         /\ \A t \in DOMAIN lib.tracks :
              Live(lib, t) /\ lib.tracks[t].file = f => TrackOf(lib, f) # NoTrack
<1>1. NoTrack \notin DOMAIN lib.tracks
  BY CountedTracks
<1>2. CASE \E t \in DOMAIN lib.tracks : Live(lib, t) /\ lib.tracks[t].file = f
  <2> DEFINE u == CHOOSE t \in DOMAIN lib.tracks : Live(lib, t) /\ lib.tracks[t].file = f
  <2>1. TrackOf(lib, f) = u
    BY <1>2 DEF TrackOf
  <2>2. u \in DOMAIN lib.tracks /\ Live(lib, u) /\ lib.tracks[u].file = f
    BY <1>2
  <2> HIDE DEF u
  <2> QED
    BY <1>1, <2>1, <2>2
<1>3. CASE ~\E t \in DOMAIN lib.tracks : Live(lib, t) /\ lib.tracks[t].file = f
  BY <1>3 DEF TrackOf
<1> QED
  BY <1>2, <1>3

\* The result of the merge of a source: none of the n tracks changes its number,
\* those of the source are refreshed or lost, and the k new files get a track each.
MergedTo(lib, n, k) ==
  /\ DOMAIN library.tracks = 1..n
  /\ DOMAIN lib.tracks = 1..(n + k)
  /\ lib.tracks = [t \in 1..(n + k) |-> lib.tracks[t]]
  /\ lib = [library EXCEPT !.tracks = lib.tracks]
  /\ \A t \in 1..n :
       lib.tracks[t] = IF t \in LiveIn(library, source) THEN Refreshed(library, t)
                       ELSE library.tracks[t]
  /\ \A t \in (n + 1)..(n + k) :
       /\ lib.tracks[t].file \in NewFiles(library)
       /\ lib.tracks[t] = [file |-> lib.tracks[t].file,
                           content |-> found[lib.tracks[t].file].content,
                           favorite |-> FALSE, plays |-> 0, missing |-> FALSE,
                           cover |-> found[lib.tracks[t].file].cover]
       /\ \A u \in (n + 1)..(n + k) :
            lib.tracks[t].file = lib.tracks[u].file => t = u
  /\ \A f \in NewFiles(library) :
       \E t \in (n + 1)..(n + k) : lib.tracks[t].file = f

LEMMA MergeIs ==
  ASSUME IsLibrary(library), DOMAIN found \subseteq Files,
         NEW lib \in Merged(library)
  PROVE  \E n, k \in Nat : MergedTo(lib, n, k)
<1> DEFINE new == NewFiles(library)
           n == Cardinality(DOMAIN library.tracks)
           k == Cardinality(new)
           added(f) == [file |-> f, content |-> found[f].content, favorite |-> FALSE,
                        plays |-> 0, missing |-> FALSE, cover |-> found[f].cover]
<1>1. /\ n \in Nat
      /\ DOMAIN library.tracks = 1..n
  BY CountedTracks
<1>2. IsFiniteSet(new)
  BY FilesAssumption, FS_Subset DEF NewFiles
<1>3. k \in Nat
  BY <1>2, FS_CardinalityType
<1>4. PICK order \in [1..k -> new] :
        /\ \A i, j \in DOMAIN order : order[i] = order[j] => i = j
        /\ lib = [library EXCEPT !.tracks =
                    [t \in DOMAIN library.tracks \cup (n + 1)..(n + k) |->
                       IF t > n THEN added(order[t - n])
                       ELSE IF t \in LiveIn(library, source) THEN Refreshed(library, t)
                       ELSE library.tracks[t]]]
  BY DEF Merged
<1>5. \A f \in new : \E i \in 1..k : order[i] = f
  <2>1. order \in Injection(1..k, new)
    BY <1>4 DEF Injection, IsInjective
  <2>2. Cardinality(1..k) = k
    BY <1>3, FS_Interval
  <2>3. order \in Surjection(1..k, new)
    BY <2>1, <2>2, <1>2, FS_Injection
  <2> QED
    BY <2>3 DEF Surjection
<1> HIDE DEF n, k, new
<1>6. DOMAIN library.tracks \cup (n + 1)..(n + k) = 1..(n + k)
  BY <1>1, <1>3
<1>7. /\ lib.tracks = [t \in 1..(n + k) |->
                         IF t > n THEN added(order[t - n])
                         ELSE IF t \in LiveIn(library, source) THEN Refreshed(library, t)
                         ELSE library.tracks[t]]
      /\ lib = [library EXCEPT !.tracks = lib.tracks]
  BY <1>4, <1>6 DEF IsLibrary
<1>8. /\ DOMAIN lib.tracks = 1..(n + k)
      /\ lib.tracks = [t \in 1..(n + k) |-> lib.tracks[t]]
  BY <1>7
<1>9. \A t \in 1..n :
        lib.tracks[t] = IF t \in LiveIn(library, source) THEN Refreshed(library, t)
                        ELSE library.tracks[t]
  BY <1>7, <1>1, <1>3
<1>10. \A t \in (n + 1)..(n + k) : t - n \in 1..k /\ lib.tracks[t] = added(order[t - n])
  BY <1>7, <1>1, <1>3
<1>11. \A t \in (n + 1)..(n + k) : lib.tracks[t].file = order[t - n]
  <2>1. \A f : added(f).file = f
    OBVIOUS
  <2> HIDE DEF added
  <2> QED
    BY <1>10, <2>1
<1>12. \A i \in 1..k : n + i \in (n + 1)..(n + k) /\ lib.tracks[n + i].file = order[i]
  <2> SUFFICES ASSUME NEW i \in 1..k
               PROVE  n + i \in (n + 1)..(n + k) /\ lib.tracks[n + i].file = order[i]
    OBVIOUS
  <2>1. n + i \in (n + 1)..(n + k) /\ (n + i) - n = i
    BY <1>1, <1>3
  <2> QED
    BY <2>1, <1>11
<1>13. \A t, u \in (n + 1)..(n + k) : lib.tracks[t].file = lib.tracks[u].file => t = u
  BY <1>10, <1>11, <1>4, <1>1, <1>3
<1>14. \A t \in (n + 1)..(n + k) :
         /\ lib.tracks[t].file \in new
         /\ lib.tracks[t] = added(lib.tracks[t].file)
  BY <1>10, <1>11, <1>4
<1>15. \A f \in new : \E t \in (n + 1)..(n + k) : lib.tracks[t].file = f
  BY <1>5, <1>12
<1>16. \A t \in (n + 1)..(n + k) :
         /\ lib.tracks[t].file \in new
         /\ lib.tracks[t] = added(lib.tracks[t].file)
         /\ \A u \in (n + 1)..(n + k) : lib.tracks[t].file = lib.tracks[u].file => t = u
  BY <1>13, <1>14
<1>17. MergedTo(lib, n, k)
  BY <1>1, <1>7, <1>8, <1>9, <1>16, <1>15 DEF MergedTo, new
<1> QED
  BY <1>1, <1>3, <1>17

LEMMA RefreshedIs ==
  ASSUME IsLibrary(library), NEW t \in LiveIn(library, source),
         found \in [DOMAIN found -> [content: Contents, cover: Files \cup {NoFile}]]
  PROVE  /\ Refreshed(library, t) \in Track
         /\ Refreshed(library, t).file = library.tracks[t].file
         /\ Refreshed(library, t).plays = library.tracks[t].plays
         /\ ~Refreshed(library, t).missing <=> library.tracks[t].file \in DOMAIN found
         /\ ~Refreshed(library, t).missing =>
              /\ Refreshed(library, t).favorite = library.tracks[t].favorite
              /\ Refreshed(library, t).content = found[library.tracks[t].file].content
<1> DEFINE track == library.tracks[t]
<1>1. track \in Track /\ ~track.missing
  BY CountedTracks DEF LiveIn, Live
<1>2. Refreshed(library, t) =
        IF track.file \in DOMAIN found
        THEN [track EXCEPT !.content = found[track.file].content,
                           !.cover = found[track.file].cover]
        ELSE [track EXCEPT !.missing = TRUE, !.favorite = FALSE]
  BY DEF Refreshed, Lost
<1>3. track.file \in DOMAIN found =>
        found[track.file] \in [content: Contents, cover: Files \cup {NoFile}]
  OBVIOUS
<1> HIDE DEF track
<1>4. CASE track.file \in DOMAIN found
  BY <1>1, <1>2, <1>3, <1>4 DEF Track, track
<1>5. CASE track.file \notin DOMAIN found
  BY <1>1, <1>2, <1>5 DEF Track, track
<1> QED
  BY <1>4, <1>5

\* What a merge makes of a track that it met, and of one that it adds.
MergedOld(lib, t) ==
  /\ lib.tracks[t].file = library.tracks[t].file
  /\ lib.tracks[t].plays = library.tracks[t].plays
  /\ Live(lib, t) <=>
       /\ Live(library, t)
       /\ \/ SourceOf[library.tracks[t].file] # source
          \/ library.tracks[t].file \in DOMAIN found
  /\ Live(lib, t) => lib.tracks[t].favorite = library.tracks[t].favorite
  /\ Live(lib, t) /\ SourceOf[library.tracks[t].file] = source =>
       lib.tracks[t].content = found[library.tracks[t].file].content
  /\ SourceOf[library.tracks[t].file] # source => lib.tracks[t] = library.tracks[t]

MergedNew(lib, t) ==
  /\ Live(lib, t)
  /\ lib.tracks[t].file \in NewFiles(library)
  /\ lib.tracks[t].content = found[lib.tracks[t].file].content
  /\ lib.tracks[t].plays = 0 /\ lib.tracks[t].favorite = FALSE

LEMMA MergedTracks ==
  ASSUME TypeInv, Reading, NEW lib \in Merged(library)
  PROVE  /\ IsLibrary(lib)
         /\ lib.sources = library.sources /\ lib.ignored = library.ignored
         /\ DOMAIN library.tracks \subseteq DOMAIN lib.tracks
         /\ \A t \in DOMAIN library.tracks : MergedOld(lib, t)
         /\ \A t \in DOMAIN lib.tracks \ DOMAIN library.tracks :
              /\ MergedNew(lib, t)
              /\ \A u \in DOMAIN lib.tracks \ DOMAIN library.tracks :
                   lib.tracks[t].file = lib.tracks[u].file => t = u
         /\ \A f \in NewFiles(library) :
              \E t \in DOMAIN lib.tracks \ DOMAIN library.tracks : lib.tracks[t].file = f
<1>1. /\ IsLibrary(library)
      /\ DOMAIN found \subseteq {f \in Files : SourceOf[f] = source}
      /\ found \in [DOMAIN found -> [content: Contents, cover: Files \cup {NoFile}]]
  BY DEF TypeInv
<1>2. PICK n, k \in Nat : MergedTo(lib, n, k)
  BY <1>1, MergeIs
<1> USE DEF MergedTo
<1>3. /\ 1..n \subseteq 1..(n + k)
      /\ 1..(n + k) \ 1..n = (n + 1)..(n + k)
  OBVIOUS
<1>4. /\ lib.sources = library.sources /\ lib.ignored = library.ignored
      /\ lib = [sources |-> lib.sources, ignored |-> lib.ignored,
                separators |-> lib.separators, tracks |-> lib.tracks]
  BY <1>1, <1>2 DEF IsLibrary
<1>5. library.tracks \in [1..n -> Track]
  BY <1>1, <1>2, CountedTracks
<1>6. ASSUME NEW t \in 1..n
      PROVE  lib.tracks[t] \in Track /\ MergedOld(lib, t)
  <2>1. t \in DOMAIN lib.tracks /\ t \in DOMAIN library.tracks
    BY <1>2, <1>3
  <2>2. CASE t \in LiveIn(library, source)
    <3>1. lib.tracks[t] = Refreshed(library, t)
      BY <1>2, <2>2
    <3>2. SourceOf[library.tracks[t].file] = source /\ Live(library, t)
      BY <2>2 DEF LiveIn
    <3> QED
      BY <3>1, <3>2, <2>1, <2>2, <1>1, RefreshedIs DEF Live, MergedOld
  <2>3. CASE t \notin LiveIn(library, source)
    <3>1. lib.tracks[t] = library.tracks[t]
      BY <1>2, <2>3
    <3>2. SourceOf[library.tracks[t].file] # source \/ ~Live(library, t)
      BY <2>1, <2>3 DEF LiveIn
    <3> QED
      BY <3>1, <3>2, <2>1, <1>5 DEF Live, MergedOld
  <2> QED
    BY <2>2, <2>3
<1>7. ASSUME NEW t \in (n + 1)..(n + k)
      PROVE  lib.tracks[t] \in Track /\ MergedNew(lib, t)
  <2> DEFINE f == lib.tracks[t].file
  <2>1. f \in DOMAIN found /\ f \in Files
    BY <1>1, <1>2 DEF NewFiles
  <2>2. lib.tracks[t] = [file |-> f, content |-> found[f].content, favorite |-> FALSE,
                         plays |-> 0, missing |-> FALSE, cover |-> found[f].cover]
    BY <1>2
  <2>3. found[f] \in [content: Contents, cover: Files \cup {NoFile}]
    BY <1>1, <2>1
  <2>4. t \in DOMAIN lib.tracks
    BY <1>2, <1>3
  <2>5. f \in NewFiles(library)
    BY <1>2
  <2>6. lib.tracks[t] \in Track
    <3> HIDE DEF f
    <3> QED
      BY <2>1, <2>2, <2>3 DEF Track
  <2>7. /\ lib.tracks[t].content = found[f].content /\ ~lib.tracks[t].missing
        /\ lib.tracks[t].plays = 0 /\ lib.tracks[t].favorite = FALSE
    BY <2>2
  <2> QED
    BY <2>4, <2>5, <2>6, <2>7 DEF Live, MergedNew
<1>8. lib.tracks \in [1..(n + k) -> Track]
  BY <1>2, <1>3, <1>6, <1>7
<1>9. IsLibrary(lib)
  <2>1. lib.sources \subseteq Sources /\ lib.ignored \subseteq Files
    BY <1>1, <1>4 DEF IsLibrary
  <2> QED
    BY <2>1, <1>4, <1>8, NumberedIsLibrary
<1> QED
  BY <1>2, <1>3, <1>4, <1>6, <1>7, <1>9

\* An update that keeps every track, its file and its type makes a library.
LEMMA SameTracksIsLibrary ==
  ASSUME NEW old, IsLibrary(old), NEW lib,
         lib = [sources |-> lib.sources, ignored |-> lib.ignored,
                separators |-> lib.separators, tracks |-> lib.tracks],
         lib.sources \subseteq Sources, lib.ignored \subseteq Files,
         lib.tracks \in [DOMAIN old.tracks -> Track]
  PROVE  IsLibrary(lib) /\ DOMAIN lib.tracks = DOMAIN old.tracks
<1>1. DOMAIN lib.tracks = DOMAIN old.tracks
  OBVIOUS
<1> QED
  BY <1>1, CountedTracks, NumberedIsLibrary

\* A cover is a file of the library, or none.
LEMMA CoverOfType ==
  ASSUME NEW lib, IsLibrary(lib), NEW group
  PROVE  CoverOf(lib, group) \in Files \cup {NoFile}
<1> DEFINE pictured == {t \in DOMAIN lib.tracks :
                          /\ Live(lib, t) /\ GroupOf(lib, t) = group
                          /\ lib.tracks[t].file \in Pictured
                          /\ SourceOf[lib.tracks[t].file] \in roots}
           first == CHOOSE t \in pictured : \A u \in pictured : t <= u
<1>1. CoverOf(lib, group) = IF pictured = {} THEN NoFile ELSE lib.tracks[first].file
  BY DEF CoverOf
<1>2. pictured \subseteq DOMAIN lib.tracks /\ DOMAIN lib.tracks \subseteq Nat
  BY CountedTracks
<1>3. pictured # {} => \E t \in pictured : \A u \in pictured : t <= u
  BY <1>2, LeastNumber
<1> HIDE DEF pictured
<1>4. pictured # {} => first \in pictured
  BY <1>3
<1> HIDE DEF first
<1>5. lib.tracks \in [DOMAIN lib.tracks -> Track]
  BY CountedTracks
<1> QED
  BY <1>1, <1>2, <1>4, <1>5 DEF Track

\* The covers are given to the live tracks and change nothing else.
LEMMA CoveredIs ==
  ASSUME TypeInv, pc = "covers"
  PROVE  LET lib == Covered(library)
         IN  /\ IsLibrary(lib)
             /\ lib.sources = library.sources /\ lib.ignored = library.ignored
             /\ lib.separators = library.separators
             /\ DOMAIN lib.tracks = DOMAIN library.tracks
             /\ \A t \in DOMAIN library.tracks :
                  LET old == library.tracks[t]
                      new == lib.tracks[t]
                  IN  /\ new.file = old.file /\ new.content = old.content
                      /\ new.favorite = old.favorite /\ new.plays = old.plays
                      /\ new.missing = old.missing
                      /\ Live(library, t) =>
                           new.cover = IF GroupOf(library, t) \in DOMAIN covers
                                       THEN covers[GroupOf(library, t)] ELSE NoFile
<1> DEFINE lib == Covered(library)
           Given(t) == IF GroupOf(library, t) \in DOMAIN covers
                       THEN covers[GroupOf(library, t)] ELSE NoFile
<1>1. /\ IsLibrary(library)
      /\ library.tracks \in [DOMAIN library.tracks -> Track]
      /\ library = [sources |-> library.sources, ignored |-> library.ignored,
                    separators |-> library.separators, tracks |-> library.tracks]
      /\ library.sources \subseteq Sources /\ library.ignored \subseteq Files
  BY CountedTracks DEF TypeInv, IsLibrary
<1>2. \A t : Given(t) \in Files \cup {NoFile}
  BY DEF TypeInv
<1>3. /\ lib.tracks = [t \in DOMAIN library.tracks |->
                         IF ~Live(library, t) THEN library.tracks[t]
                         ELSE [library.tracks[t] EXCEPT !.cover = Given(t)]]
      /\ lib = [sources |-> library.sources, ignored |-> library.ignored,
                separators |-> library.separators, tracks |-> lib.tracks]
  BY <1>1 DEF Covered
<1> HIDE DEF lib, Given
<1>4. ASSUME NEW t \in DOMAIN library.tracks
      PROVE  LET old == library.tracks[t]
                 new == lib.tracks[t]
             IN  /\ new \in Track
                 /\ new.file = old.file /\ new.content = old.content
                 /\ new.favorite = old.favorite /\ new.plays = old.plays
                 /\ new.missing = old.missing
                 /\ Live(library, t) => new.cover = Given(t)
  <2>1. library.tracks[t] \in Track
    BY <1>1
  <2>2. lib.tracks[t] = IF ~Live(library, t) THEN library.tracks[t]
                        ELSE [library.tracks[t] EXCEPT !.cover = Given(t)]
    BY <1>3
  <2>3. CASE ~Live(library, t)
    BY <2>1, <2>2, <2>3
  <2>4. CASE Live(library, t)
    <3>1. lib.tracks[t] = [library.tracks[t] EXCEPT !.cover = Given(t)]
      BY <2>2, <2>4
    <3> QED
      BY <2>1, <3>1, <1>2 DEF Track
  <2> QED
    BY <2>3, <2>4
<1>5. lib.tracks \in [DOMAIN library.tracks -> Track]
  BY <1>3, <1>4
<1>6. /\ lib.sources = library.sources /\ lib.ignored = library.ignored
      /\ lib.separators = library.separators
      /\ lib = [sources |-> lib.sources, ignored |-> lib.ignored,
                separators |-> lib.separators, tracks |-> lib.tracks]
  BY <1>3
<1>7. IsLibrary(lib) /\ DOMAIN lib.tracks = DOMAIN library.tracks
  BY <1>1, <1>5, <1>6, SameTracksIsLibrary
<1> QED
  BY <1>4, <1>6, <1>7 DEF lib, Given

-----------------------------------------------------------------------------
(* Types.                                                                  *)

LEMMA TypeInit == Init => TypeInv
<1> SUFFICES ASSUME Init PROVE TypeInv
  OBVIOUS
<1>1. IsLibrary(library)
  BY LibrariesAssumption DEF Init
<1>2. wanted \in [DOMAIN library.tracks -> [favorite: BOOLEAN, plays: Nat]]
  BY <1>1, CountedTracks DEF Init, Track
<1> QED
  BY <1>1, <1>2, FilesAssumption DEF Init, TypeInv, HasSnapshot, Reading

\* What others do to the library keeps its tracks and their files.
Outside ==
  \/ \E t \in DOMAIN library.tracks : Play(t) \/ \E on \in BOOLEAN : Favorite(t, on)
  \/ \E s \in Sources : RemoveSource(s) \/ AddSource(s) \/ ChangeRoot(s) \/ Remount(s)
  \/ \E f \in Files : Ignore(f) \/ ChangeFile(f)
  \/ \E value \in Separators : Separate(value)

LEMMA OutsideType ==
  ASSUME TypeInv, Outside
  PROVE  IsLibrary(library') /\ DOMAIN library'.tracks = DOMAIN library.tracks
<1>1. /\ IsLibrary(library)
      /\ library.tracks \in [DOMAIN library.tracks -> Track]
      /\ library = [sources |-> library.sources, ignored |-> library.ignored,
                    separators |-> library.separators, tracks |-> library.tracks]
      /\ library.sources \subseteq Sources /\ library.ignored \subseteq Files
  BY CountedTracks DEF TypeInv, IsLibrary
<1>2. ASSUME NEW t \in DOMAIN library.tracks, Play(t) \/ \E on \in BOOLEAN : Favorite(t, on)
      PROVE  IsLibrary(library') /\ DOMAIN library'.tracks = DOMAIN library.tracks
  <2>1. PICK track \in Track :
          /\ library' = [library EXCEPT !.tracks = [@ EXCEPT ![t] = track]]
    <3>1. library.tracks[t] \in Track
      BY <1>1
    <3>2. CASE Play(t)
      <4>1. library' = [library EXCEPT !.tracks[t].plays = @ + 1]
        BY <3>2 DEF Play
      <4>2. [library.tracks[t] EXCEPT !.plays = @ + 1] \in Track
        BY <3>1 DEF Track
      <4> QED
        BY <4>1, <4>2
    <3>3. CASE \E on \in BOOLEAN : Favorite(t, on)
      <4>1. PICK on \in BOOLEAN : library' = [library EXCEPT !.tracks[t].favorite = on]
        BY <3>3 DEF Favorite
      <4>2. [library.tracks[t] EXCEPT !.favorite = on] \in Track
        BY <3>1 DEF Track
      <4> QED
        BY <4>1, <4>2
    <3> QED
      BY <1>2, <3>2, <3>3
  <2>2. /\ library' = [sources |-> library.sources, ignored |-> library.ignored,
                       separators |-> library.separators, tracks |-> library'.tracks]
        /\ library'.tracks = [library.tracks EXCEPT ![t] = track]
    BY <1>1, <2>1
  <2>3. library'.tracks \in [DOMAIN library.tracks -> Track]
    BY <1>1, <2>2
  <2> QED
    BY <1>1, <2>2, <2>3, SameTracksIsLibrary
<1>3. ASSUME NEW s \in Sources, RemoveSource(s)
      PROVE  IsLibrary(library') /\ DOMAIN library'.tracks = DOMAIN library.tracks
  <2>1. \A t \in DOMAIN library.tracks : Lost(library.tracks[t]) \in Track
    BY <1>1 DEF Lost, Track
  <2>2. /\ library' = [sources |-> library.sources \ {s}, ignored |-> library.ignored,
                       separators |-> library.separators, tracks |-> library'.tracks]
        /\ library'.tracks =
             [t \in DOMAIN library.tracks |->
                IF SourceOf[library.tracks[t].file] = s THEN Lost(library.tracks[t])
                ELSE library.tracks[t]]
    BY <1>1, <1>3 DEF RemoveSource
  <2>3. library'.tracks \in [DOMAIN library.tracks -> Track]
    BY <1>1, <2>1, <2>2
  <2>4. library'.sources \subseteq Sources /\ library'.ignored \subseteq Files
    BY <1>1, <2>2
  <2>5. library' = [sources |-> library'.sources, ignored |-> library'.ignored,
                    separators |-> library'.separators, tracks |-> library'.tracks]
    BY <2>2
  <2> QED
    BY <1>1, <2>3, <2>4, <2>5, SameTracksIsLibrary
<1>4. ASSUME library'.tracks = library.tracks,
             library' = [sources |-> library'.sources, ignored |-> library'.ignored,
                         separators |-> library'.separators, tracks |-> library'.tracks],
             library'.sources \subseteq Sources, library'.ignored \subseteq Files
      PROVE  IsLibrary(library') /\ DOMAIN library'.tracks = DOMAIN library.tracks
  BY <1>1, <1>4, SameTracksIsLibrary
<1>5. ASSUME NEW s \in Sources, AddSource(s) \/ ChangeRoot(s) \/ Remount(s)
      PROVE  IsLibrary(library') /\ DOMAIN library'.tracks = DOMAIN library.tracks
  BY <1>1, <1>4, <1>5 DEF AddSource, ChangeRoot, Remount
<1>6. ASSUME NEW f \in Files, Ignore(f) \/ ChangeFile(f)
      PROVE  IsLibrary(library') /\ DOMAIN library'.tracks = DOMAIN library.tracks
  BY <1>1, <1>4, <1>6 DEF Ignore, ChangeFile
<1>7. ASSUME NEW value \in Separators, Separate(value)
      PROVE  IsLibrary(library') /\ DOMAIN library'.tracks = DOMAIN library.tracks
  BY <1>1, <1>4, <1>7 DEF Separate
<1> QED
  BY <1>2, <1>3, <1>5, <1>6, <1>7 DEF Outside

LEMMA OutsideLeavesRun ==
  ASSUME Outside
  PROVE  UNCHANGED <<status, stopped, pc, snapshot, todo, source, files, found, covers, server>>
BY DEF Outside, Play, Favorite, RemoveSource, AddSource, ChangeRoot, Remount, Ignore,
     ChangeFile, Separate, Change, run

LEMMA OutsideTypeStep ==
  ASSUME TypeInv, Outside
  PROVE  TypeInv'
<1> USE DEF TypeInv
<1>1. IsLibrary(library') /\ DOMAIN library'.tracks = DOMAIN library.tracks
  BY OutsideType
<1>2. UNCHANGED <<status, stopped, pc, snapshot, todo, source, files, found, covers>>
  BY OutsideLeavesRun
<1>3. wanted' \in [DOMAIN library.tracks -> [favorite: BOOLEAN, plays: Nat]]
  <2>1. CASE UNCHANGED wanted
    BY <2>1
  <2>2. ASSUME NEW t \in DOMAIN library.tracks, Play(t)
        PROVE  wanted' \in [DOMAIN library.tracks -> [favorite: BOOLEAN, plays: Nat]]
    BY <2>2 DEF Play
  <2>3. ASSUME NEW t \in DOMAIN library.tracks, NEW on \in BOOLEAN, Favorite(t, on)
        PROVE  wanted' \in [DOMAIN library.tracks -> [favorite: BOOLEAN, plays: Nat]]
    BY <2>3 DEF Favorite
  <2> QED
    <3>1. ASSUME NEW s \in Sources,
                 RemoveSource(s) \/ AddSource(s) \/ ChangeRoot(s) \/ Remount(s)
          PROVE  UNCHANGED wanted
      BY <3>1 DEF RemoveSource, AddSource, ChangeRoot, Remount
    <3>2. ASSUME NEW f \in Files, Ignore(f) \/ ChangeFile(f)
          PROVE  UNCHANGED wanted
      BY <3>2 DEF Ignore, ChangeFile
    <3>3. ASSUME NEW value \in Separators, Separate(value)
          PROVE  UNCHANGED wanted
      BY <3>3 DEF Separate
    <3> QED
      BY <2>1, <2>2, <2>3, <3>1, <3>2, <3>3 DEF Outside
<1>4. disk' \in [Files -> [content: Contents, readable: BOOLEAN] \cup {Absent}]
  BY DEF Outside, Play, Favorite, RemoveSource, AddSource, ChangeRoot, Remount, Ignore,
     ChangeFile, Separate
<1>5. roots' \subseteq Sources
  BY DEF Outside, Play, Favorite, RemoveSource, AddSource, ChangeRoot, Remount, Ignore,
     ChangeFile, Separate
<1> QED
  BY <1>1, <1>2, <1>3, <1>4, <1>5 DEF HasSnapshot, Reading

\* What a file reads as.
LEMMA ReadType ==
  ASSUME TypeInv, NEW f \in Files, Read(f)
  PROVE  /\ Reading /\ f \in files /\ f \notin DOMAIN found
         /\ DOMAIN found' \in {DOMAIN found, DOMAIN found \cup {f}}
         /\ found' \in [DOMAIN found' -> [content: Contents, cover: Files \cup {NoFile}]]
         /\ \A g \in DOMAIN found : found'[g] = found[g]
         /\ f \notin DOMAIN found' =>
              /\ TrackOf(snapshot, f) = NoTrack
              /\ SourceOf[f] \in roots /\ disk[f] # Absent => ~disk[f].readable
         /\ /\ f \in DOMAIN found'
            /\ SourceOf[f] \in roots /\ disk[f] # Absent /\ disk[f].readable
            => found'[f].content = disk[f].content
<1> DEFINE t == TrackOf(snapshot, f)
           old == snapshot.tracks[t]
           failed == \/ disk[f] = Absent \/ SourceOf[f] \notin roots
                     \/ Stale(f, t) /\ ~Probed(f)
           content == IF ~failed /\ Stale(f, t) THEN disk[f].content ELSE old.content
           cover == IF failed THEN old.cover ELSE NoFile
<1>1. /\ Reading /\ f \in files /\ f \notin DOMAIN found
      /\ IsLibrary(snapshot)
      /\ found \in [DOMAIN found -> [content: Contents, cover: Files \cup {NoFile}]]
      /\ disk[f] \in [content: Contents, readable: BOOLEAN] \cup {Absent}
  BY DEF Read, TypeInv, Reading, HasSnapshot
<1>2. found' = IF failed /\ t = NoTrack THEN found
               ELSE Put(found, f, [content |-> content, cover |-> cover])
  BY DEF Read
<1>3. t # NoTrack => old \in Track
  BY <1>1, TrackOfIs, CountedTracks
<1>4. t = NoTrack => Stale(f, t)
  BY DEF Stale
<1>5. ~Stale(f, t) => old.content = disk[f].content
  BY DEF Stale
<1>6. /\ disk[f] # Absent => disk[f] \in [content: Contents, readable: BOOLEAN]
      /\ Probed(f) <=> disk[f].readable
  BY <1>1 DEF Probed
<1> HIDE DEF t, old
<1>7. ~(failed /\ t = NoTrack) =>
        /\ content \in Contents /\ cover \in Files \cup {NoFile}
        /\ SourceOf[f] \in roots /\ disk[f] # Absent /\ disk[f].readable =>
             content = disk[f].content
  BY <1>3, <1>4, <1>5, <1>6 DEF Track
<1>8. failed /\ t = NoTrack =>
        (SourceOf[f] \in roots /\ disk[f] # Absent => ~disk[f].readable)
  BY <1>6
<1> HIDE DEF failed, content, cover
<1>9. CASE failed /\ t = NoTrack
  BY <1>1, <1>2, <1>8, <1>9 DEF t
<1>10. CASE ~(failed /\ t = NoTrack)
  <2>1. found' = [x \in DOMAIN found \cup {f} |->
                    IF x = f THEN [content |-> content, cover |-> cover] ELSE found[x]]
    BY <1>2, <1>10 DEF Put
  <2> QED
    BY <1>1, <1>7, <1>10, <2>1
<1> QED
  BY <1>9, <1>10

LEMMA TypeStep ==
  ASSUME TypeInv, [Next]_vars
  PROVE  TypeInv'
<1>1. ASSUME NEW full \in BOOLEAN, Start(full)
      PROVE  TypeInv'
  BY <1>1 DEF TypeInv, Start, HasSnapshot, Reading
<1>2. CASE Begin
  BY <1>2 DEF TypeInv, Begin, HasSnapshot, Reading, history
<1>3. ASSUME NEW s \in Sources, Walk(s)
      PROVE  TypeInv'
  BY <1>3 DEF TypeInv, Walk, HasSnapshot, Reading, history, Listed, Nothing
<1>4. ASSUME NEW s \in Sources, WalkFails(s)
      PROVE  TypeInv'
  BY <1>4 DEF TypeInv, WalkFails, HasSnapshot, Reading, history
<1>5. ASSUME NEW f \in Files, Read(f)
      PROVE  TypeInv'
  <2>1. /\ UNCHANGED <<disk, roots, library, status, stopped, pc, snapshot, todo, source,
                       wanted>>
        /\ files' = files \ {f}
    BY <1>5 DEF Read, history
  <2>2. /\ Reading /\ f \in files /\ f \notin DOMAIN found
        /\ DOMAIN found' \in {DOMAIN found, DOMAIN found \cup {f}}
        /\ found' \in [DOMAIN found' -> [content: Contents, cover: Files \cup {NoFile}]]
    BY <1>5, ReadType
  <2>3. DOMAIN found' \subseteq {g \in Files : SourceOf[g] = source} \ files'
    BY <2>1, <2>2 DEF TypeInv
  <2> QED
    BY <2>1, <2>2, <2>3 DEF TypeInv, HasSnapshot, Reading
<1>6. CASE Merge
  <2>1. /\ UNCHANGED <<disk, roots, status, stopped, snapshot, todo, source, files, found>>
        /\ pc' = "sources" /\ Reading
    BY <1>6 DEF Merge, Reading
  <2>2. CASE UNCHANGED <<library, wanted>>
    BY <2>1, <2>2 DEF TypeInv, HasSnapshot, Reading
  <2>3. CASE /\ library' \in IF source \in library.sources THEN Merged(library) ELSE {library}
             /\ wanted' = [t \in DOMAIN library'.tracks |->
                             IF t \in DOMAIN wanted THEN wanted[t]
                             ELSE [favorite |-> FALSE, plays |-> 0]]
    <3>1. IsLibrary(library')
      <4>1. CASE source \in library.sources
        BY <4>1, <2>1, <2>3, MergedTracks
      <4>2. CASE source \notin library.sources
        BY <4>2, <2>3 DEF TypeInv
      <4> QED
        BY <4>1, <4>2
    <3>2. wanted' \in [DOMAIN library'.tracks -> [favorite: BOOLEAN, plays: Nat]]
      BY <2>3 DEF TypeInv
    <3> QED
      BY <2>1, <3>1, <3>2 DEF TypeInv, HasSnapshot, Reading
  <2> QED
    BY <1>6, <2>2, <2>3 DEF Merge
<1>7. CASE FindCovers
  <2>1. covers' \in [DOMAIN covers' -> Files \cup {NoFile}]
    BY <1>7, CoverOfType DEF TypeInv, FindCovers
  <2> QED
    BY <1>7, <2>1 DEF TypeInv, FindCovers, HasSnapshot, Reading, history
<1>8. CASE SetCovers
  <2>1. /\ UNCHANGED <<disk, roots, status, stopped, snapshot, todo, source, files, found, wanted>>
        /\ pc' = "end" /\ pc = "covers"
    BY <1>8 DEF SetCovers
  <2>2. CASE UNCHANGED library
    BY <2>1, <2>2 DEF TypeInv, HasSnapshot, Reading
  <2>3. CASE library' = Covered(library)
    BY <2>1, <2>3, CoveredIs DEF TypeInv, HasSnapshot, Reading
  <2> QED
    BY <1>8, <2>2, <2>3 DEF SetCovers
<1>9. CASE Finish
  BY <1>9 DEF TypeInv, Finish, HasSnapshot, Reading
<1>10. CASE Stop \/ CloseCancel \/ CloseWait
  BY <1>10 DEF TypeInv, Stop, CloseCancel, CloseWait, HasSnapshot, Reading, run, history
<1>11. CASE Outside
  BY <1>11, OutsideTypeStep
<1>12. CASE UNCHANGED vars
  BY <1>12 DEF TypeInv, HasSnapshot, Reading, vars, run, history
<1> QED
  BY <1>1, <1>2, <1>3, <1>4, <1>5, <1>6, <1>7, <1>8, <1>9, <1>10, <1>11, <1>12
     DEF Next, ScanStep, Outside

THEOREM TypeCorrect == Spec => []TypeInv
BY TypeInit, TypeStep, PTL DEF Spec

-----------------------------------------------------------------------------
(* What users made of their tracks, and one track per file.                *)

\* Who touches neither the tracks nor the wishes of users.
Quiet ==
  \/ \E full \in BOOLEAN : Start(full)
  \/ Begin \/ FindCovers \/ Finish
  \/ \E s \in Sources : Walk(s) \/ WalkFails(s)
  \/ \E f \in Files : Read(f)
  \/ Stop \/ CloseCancel \/ CloseWait

LEMMA QuietSteps ==
  ASSUME [Next]_vars
  PROVE  \/ Quiet /\ UNCHANGED <<library, wanted, disk, roots>>
         \/ Merge \/ SetCovers \/ Outside
         \/ UNCHANGED vars
BY DEF Next, ScanStep, Outside, Quiet, Start, Begin, FindCovers, Finish, Walk, WalkFails, Read,
       Stop, CloseCancel, CloseWait, run, history

LEMMA EditsStep ==
  ASSUME TypeInv, EditsSurviveScan, [Next]_vars
  PROVE  EditsSurviveScan'
<1>1. /\ library.tracks \in [DOMAIN library.tracks -> Track]
      /\ wanted \in [DOMAIN library.tracks -> [favorite: BOOLEAN, plays: Nat]]
  BY CountedTracks DEF TypeInv
<1>2. ASSUME UNCHANGED <<library, wanted>>
      PROVE  EditsSurviveScan'
  BY <1>2 DEF EditsSurviveScan
<1>3. CASE Merge
  <2>1. Reading
    BY <1>3 DEF Merge, Reading
  <2>2. CASE /\ library' \in Merged(library)
             /\ wanted' = [t \in DOMAIN library'.tracks |->
                             IF t \in DOMAIN wanted THEN wanted[t]
                             ELSE [favorite |-> FALSE, plays |-> 0]]
    <3> SUFFICES ASSUME NEW t \in DOMAIN library'.tracks
                 PROVE  /\ library'.tracks[t].plays = wanted'[t].plays
                        /\ ~library'.tracks[t].missing =>
                             library'.tracks[t].favorite = wanted'[t].favorite
      BY DEF EditsSurviveScan
    <3>1. CASE t \in DOMAIN library.tracks
      <4>1. wanted'[t] = wanted[t]
        BY <1>1, <2>2, <3>1
      <4>2. /\ library'.tracks[t].plays = library.tracks[t].plays
            /\ ~library'.tracks[t].missing =>
                 /\ ~library.tracks[t].missing
                 /\ library'.tracks[t].favorite = library.tracks[t].favorite
        <5>1. MergedOld(library', t)
          BY <2>1, <2>2, <3>1, MergedTracks
        <5> QED
          BY <5>1, Zenon DEF Live, MergedOld
      <4> QED
        BY <4>1, <4>2, <3>1 DEF EditsSurviveScan
    <3>2. CASE t \notin DOMAIN library.tracks
      <4>1. wanted'[t] = [favorite |-> FALSE, plays |-> 0]
        BY <1>1, <2>2, <3>2
      <4>3. wanted'[t].favorite = FALSE /\ wanted'[t].plays = 0
        BY <4>1
      <4>2. library'.tracks[t].plays = 0 /\ library'.tracks[t].favorite = FALSE
        BY <2>1, <2>2, <3>2, MergedTracks DEF MergedNew
      <4> QED
        BY <4>2, <4>3, Zenon
    <3> QED
      BY <3>1, <3>2
  <2>3. CASE /\ library' = library
             /\ wanted' = [t \in DOMAIN library'.tracks |->
                             IF t \in DOMAIN wanted THEN wanted[t]
                             ELSE [favorite |-> FALSE, plays |-> 0]]
    BY <1>1, <2>3 DEF EditsSurviveScan
  <2> QED
    BY <1>2, <1>3, <2>2, <2>3 DEF Merge
<1>4. CASE SetCovers
  <2>1. CASE UNCHANGED library
    BY <1>2, <1>4, <2>1 DEF SetCovers
  <2>2. CASE library' = Covered(library)
    BY <1>4, <2>2, CoveredIs DEF SetCovers, EditsSurviveScan
  <2> QED
    BY <1>4, <2>1, <2>2 DEF SetCovers
<1>5. ASSUME NEW t \in DOMAIN library.tracks, Play(t)
      PROVE  EditsSurviveScan'
  BY <1>1, <1>5 DEF Play, EditsSurviveScan, Track, TypeInv, IsLibrary
<1>6. ASSUME NEW t \in DOMAIN library.tracks, NEW on \in BOOLEAN, Favorite(t, on)
      PROVE  EditsSurviveScan'
  BY <1>1, <1>6 DEF Favorite, EditsSurviveScan, Track, TypeInv, IsLibrary
<1>7. ASSUME NEW s \in Sources, RemoveSource(s)
      PROVE  EditsSurviveScan'
  BY <1>1, <1>7 DEF RemoveSource, EditsSurviveScan, Track, Lost, TypeInv, IsLibrary
<1>8. ASSUME library'.tracks = library.tracks, UNCHANGED wanted
      PROVE  EditsSurviveScan'
  BY <1>8 DEF EditsSurviveScan
<1>9. CASE Outside
  BY <1>5, <1>6, <1>7, <1>8, <1>9 DEF Outside, AddSource, ChangeRoot, Remount, Ignore,
     ChangeFile, Separate, TypeInv, IsLibrary
<1> QED
  BY <1>2, <1>3, <1>4, <1>9, QuietSteps DEF vars, history

\* A play or a favourite that a user set while a scan ran is in the library
\* after its merge, whatever else happened meanwhile.
THEOREM EditsSurviveScanHolds == Spec => []EditsSurviveScan
<1>1. Init => EditsSurviveScan
  BY LibrariesAssumption DEF Init, EditsSurviveScan
<1> QED
  BY <1>1, TypeInit, TypeStep, EditsStep, PTL DEF Spec

LEMMA OneTrackStep ==
  ASSUME TypeInv, OneTrackPerFile, [Next]_vars
  PROVE  OneTrackPerFile'
<1>1. library.tracks \in [DOMAIN library.tracks -> Track]
  BY CountedTracks DEF TypeInv
<1>2. ASSUME DOMAIN library'.tracks = DOMAIN library.tracks,
             \A t \in DOMAIN library.tracks :
               /\ library'.tracks[t].file = library.tracks[t].file
               /\ library.tracks[t].missing => library'.tracks[t].missing
      PROVE  OneTrackPerFile'
  BY <1>2 DEF OneTrackPerFile, Live
<1>3. CASE Merge
  <2>1. Reading
    BY <1>3 DEF Merge, Reading
  <2>2. CASE library' \in Merged(library)
    <3> SUFFICES ASSUME NEW t \in DOMAIN library'.tracks, NEW u \in DOMAIN library'.tracks,
                        Live(library', t), Live(library', u),
                        library'.tracks[t].file = library'.tracks[u].file
                 PROVE  t = u
      BY DEF OneTrackPerFile
    <3>1. ASSUME NEW x \in DOMAIN library.tracks, NEW y \in DOMAIN library'.tracks,
                 y \notin DOMAIN library.tracks, Live(library', x)
          PROVE  library'.tracks[x].file # library'.tracks[y].file
      <4>1. /\ library'.tracks[y].file \in NewFiles(library)
            /\ library'.tracks[x].file = library.tracks[x].file
            /\ Live(library, x)
        <5>1. MergedNew(library', y) /\ MergedOld(library', x)
          BY <2>1, <2>2, <3>1, MergedTracks
        <5> QED
          BY <3>1, <5>1 DEF MergedOld, MergedNew
      <4>2. library'.tracks[y].file \in Files /\ SourceOf[library'.tracks[y].file] = source
        BY <4>1, <2>1 DEF NewFiles, TypeInv
      <4> QED
        BY <4>1, <4>2 DEF NewFiles, LiveIn
    <3>2. CASE t \in DOMAIN library.tracks /\ u \in DOMAIN library.tracks
      <4>1. /\ Live(library, t) /\ Live(library, u)
            /\ library.tracks[t].file = library.tracks[u].file
        <5>1. MergedOld(library', t) /\ MergedOld(library', u)
          BY <2>1, <2>2, <3>2, MergedTracks
        <5> QED
          BY <5>1 DEF MergedOld
      <4> QED
        BY <3>2, <4>1 DEF OneTrackPerFile
    <3>3. CASE t \notin DOMAIN library.tracks /\ u \notin DOMAIN library.tracks
      BY <2>1, <2>2, <3>3, MergedTracks
    <3> QED
      BY <3>1, <3>2, <3>3
  <2> QED
    BY <1>2, <1>3, <2>2 DEF Merge
<1>4. CASE SetCovers
  BY <1>2, <1>4, CoveredIs DEF SetCovers
<1>5. ASSUME NEW t \in DOMAIN library.tracks, Play(t)
      PROVE  OneTrackPerFile'
  BY <1>1, <1>2, <1>5 DEF Play, Track, TypeInv, IsLibrary
<1>6. ASSUME NEW t \in DOMAIN library.tracks, NEW on \in BOOLEAN, Favorite(t, on)
      PROVE  OneTrackPerFile'
  BY <1>1, <1>2, <1>6 DEF Favorite, Track, TypeInv, IsLibrary
<1>7. ASSUME NEW s \in Sources, RemoveSource(s)
      PROVE  OneTrackPerFile'
  BY <1>1, <1>2, <1>7 DEF RemoveSource, Track, Lost, TypeInv, IsLibrary
<1>8. ASSUME library'.tracks = library.tracks
      PROVE  OneTrackPerFile'
  BY <1>2, <1>8
<1>9. CASE Outside
  BY <1>5, <1>6, <1>7, <1>8, <1>9 DEF Outside, AddSource, ChangeRoot, Remount, Ignore,
     ChangeFile, Separate, TypeInv, IsLibrary
<1> QED
  BY <1>3, <1>4, <1>8, <1>9, QuietSteps DEF vars

\* However scans, removals and additions of sources follow each other, a file
\* never has two live tracks.
THEOREM OneTrackPerFileHolds == Spec => []OneTrackPerFile
<1>1. Init => OneTrackPerFile
  BY LibrariesAssumption DEF Init, OneTrackPerFile, Live
<1> QED
  BY <1>1, TypeInit, TypeStep, OneTrackStep, PTL DEF Spec

-----------------------------------------------------------------------------
(* No track is lost without a cause.                                       *)

\* No step of the scan or of others brings a track of an unmerged source to
\* life, or changes the file of a track.
KeepsFiles ==
  /\ DOMAIN library'.tracks = DOMAIN library.tracks
  /\ \A t \in DOMAIN library.tracks :
       /\ library'.tracks[t].file = library.tracks[t].file
       /\ Live(library', t) => Live(library, t)

LEMMA OutsideKeepsFiles ==
  ASSUME TypeInv, Outside
  PROVE  KeepsFiles
<1>1. library.tracks \in [DOMAIN library.tracks -> Track]
  BY CountedTracks DEF TypeInv
<1>2. ASSUME library'.tracks = library.tracks
      PROVE  KeepsFiles
  BY <1>2 DEF KeepsFiles, Live
<1>3. ASSUME NEW t \in DOMAIN library.tracks, Play(t)
      PROVE  KeepsFiles
  BY <1>1, <1>3 DEF Play, KeepsFiles, Live, Track, TypeInv, IsLibrary
<1>4. ASSUME NEW t \in DOMAIN library.tracks, NEW on \in BOOLEAN, Favorite(t, on)
      PROVE  KeepsFiles
  BY <1>1, <1>4 DEF Favorite, KeepsFiles, Live, Track, TypeInv, IsLibrary
<1>5. ASSUME NEW s \in Sources, RemoveSource(s)
      PROVE  KeepsFiles
  BY <1>1, <1>5 DEF RemoveSource, KeepsFiles, Live, Lost, Track, TypeInv, IsLibrary
<1> QED
  BY <1>2, <1>3, <1>4, <1>5 DEF Outside, AddSource, ChangeRoot, Remount, Ignore,
     ChangeFile, Separate, TypeInv, IsLibrary

\* What is noted of a file during a run stays noted.
LEMMA OutsideNotes ==
  ASSUME TypeInv, LossInv, Outside
  PROVE  pc # "idle" => /\ unseen \subseteq unseen'
                        /\ {f \in Files : disk'[f] = Absent \/ f \in library'.ignored}
                             \subseteq unseen'
<1> SUFFICES ASSUME pc # "idle"
             PROVE  /\ unseen \subseteq unseen'
                    /\ {f \in Files : disk'[f] = Absent \/ f \in library'.ignored}
                         \subseteq unseen'
  OBVIOUS
<1>1. /\ status.running
      /\ {f \in Files : disk[f] = Absent \/ f \in library.ignored} \subseteq unseen
      /\ disk \in [Files -> [content: Contents, readable: BOOLEAN] \cup {Absent}]
  BY DEF LossInv, AbsentIsUnseen, TypeInv
<1>2. \A S : Noted(S) = unseen \cup S
  BY <1>1 DEF Noted
<1>3. ASSUME NEW f \in Files, Ignore(f)
      PROVE  /\ unseen \subseteq unseen'
             /\ {g \in Files : disk'[g] = Absent \/ g \in library'.ignored} \subseteq unseen'
  <2>1. /\ library'.ignored = (library.ignored \ {f}) \cup ({f} \ library.ignored)
        /\ unseen' = unseen \cup {f} /\ disk' = disk
    BY <1>2, <1>3 DEF Ignore, TypeInv, IsLibrary
  <2> QED
    BY <1>1, <2>1
<1>4. ASSUME NEW f \in Files, ChangeFile(f)
      PROVE  /\ unseen \subseteq unseen'
             /\ {g \in Files : disk'[g] = Absent \/ g \in library'.ignored} \subseteq unseen'
  <2>1. PICK new : /\ disk' = [disk EXCEPT ![f] = new]
                   /\ unseen' = IF new = Absent THEN Noted({f}) ELSE unseen
    BY <1>4 DEF ChangeFile
  <2>2. library' = library
    BY <1>4 DEF ChangeFile
  <2> QED
    BY <1>1, <1>2, <2>1, <2>2
<1>5. ASSUME NEW s \in Sources, Remount(s)
      PROVE  /\ unseen \subseteq unseen'
             /\ {g \in Files : disk'[g] = Absent \/ g \in library'.ignored} \subseteq unseen'
  BY <1>1, <1>2, <1>5 DEF Remount
<1>6. ASSUME library'.ignored = library.ignored, UNCHANGED <<disk, unseen>>
      PROVE  /\ unseen \subseteq unseen'
             /\ {g \in Files : disk'[g] = Absent \/ g \in library'.ignored} \subseteq unseen'
  BY <1>1, <1>6
<1> QED
  BY <1>3, <1>4, <1>5, <1>6 DEF Outside, Play, Favorite, RemoveSource, AddSource, ChangeRoot,
     Remount, Separate, TypeInv, IsLibrary

LEMMA LossInit == Init => LossInv
BY DEF Init, LossInv, AbsentIsUnseen, ExcludedIsUnseen, LiveWasLive, WalkAccounts, HasSnapshot,
       Reading

LEMMA LossQuiet ==
  ASSUME TypeInv, LossInv, Quiet, UNCHANGED <<library, wanted, disk, roots>>
  PROVE  LossInv'
<1> USE DEF LossInv, AbsentIsUnseen, ExcludedIsUnseen, HasSnapshot, Reading
<1>1. ASSUME NEW full \in BOOLEAN, Start(full)
      PROVE  LossInv'
  BY <1>1 DEF Start, LiveWasLive, WalkAccounts
<1>2. CASE Begin
  <2>1. /\ UNCHANGED <<library, status, disk, unseen>> /\ snapshot' = library
        /\ pc = "begin" /\ pc' = "sources"
    BY <1>2 DEF Begin, history
  <2>2. library.ignored \subseteq Files
    BY DEF TypeInv, IsLibrary
  <2> QED
    BY <2>1, <2>2 DEF LiveWasLive, WalkAccounts, Live
<1>3. ASSUME NEW s \in Sources, Walk(s)
      PROVE  LossInv'
  <2>1. /\ UNCHANGED <<status, snapshot, unseen>> /\ pc = "sources" /\ pc' = "files"
        /\ s \in todo /\ todo' = todo \ {s} /\ source' = s
        /\ files' = Listed(s)
    BY <1>3 DEF Walk, history
  <2>2. Unmerged' \subseteq Unmerged
    BY <2>1 DEF Unmerged
  <2>3. LiveWasLive'
    BY <2>1, <2>2 DEF LiveWasLive, Live
  <2>4. WalkAccounts'
    BY <2>1 DEF WalkAccounts, Listed, Allowed
  <2> QED
    BY <2>1, <2>3, <2>4
<1>4. ASSUME NEW s \in Sources, WalkFails(s)
      PROVE  LossInv'
  BY <1>4 DEF WalkFails, LiveWasLive, WalkAccounts, history, Unmerged, Live
<1>5. ASSUME NEW f \in Files, Read(f)
      PROVE  LossInv'
  <2>1. /\ UNCHANGED <<status, snapshot, unseen, todo, source, pc>>
        /\ files' = files \ {f} /\ pc = "files"
    BY <1>5 DEF Read, history
  <2>2. LiveWasLive'
    BY <2>1 DEF LiveWasLive, Unmerged, Live
  <2>3. /\ DOMAIN found' \in {DOMAIN found, DOMAIN found \cup {f}}
        /\ f \notin DOMAIN found' => TrackOf(snapshot, f) = NoTrack
    BY <1>5, ReadType
  <2>4. WalkAccounts'
    BY <2>1, <2>3 DEF WalkAccounts, TrackOf, Live
  <2> QED
    BY <2>1, <2>2, <2>4
<1>6. CASE FindCovers
  BY <1>6 DEF FindCovers, LiveWasLive, WalkAccounts, history
<1>7. CASE Finish
  BY <1>7 DEF Finish, LiveWasLive, WalkAccounts
<1>8. CASE Stop \/ CloseCancel \/ CloseWait
  <2>1. UNCHANGED <<run, history>> /\ status'.running = status.running
    BY <1>8 DEF Stop, CloseCancel, CloseWait, TypeInv
  <2> QED
    BY <2>1 DEF run, history, LiveWasLive, WalkAccounts, Unmerged, Live, TrackOf
<1> QED
  BY <1>1, <1>2, <1>3, <1>4, <1>5, <1>6, <1>7, <1>8 DEF Quiet

LEMMA LossStep ==
  ASSUME TypeInv, LossInv, [Next]_vars
  PROVE  LossInv'
<1>1. CASE Quiet /\ UNCHANGED <<library, wanted, disk, roots>>
  BY <1>1, LossQuiet
<1>2. CASE Merge
  <2>1. /\ UNCHANGED <<status, snapshot, unseen, todo, source, disk>>
        /\ pc = "files" /\ pc' = "sources" /\ Reading
        /\ library' \in {library} \cup Merged(library)
    BY <1>2 DEF Merge, Reading
  <2>2. /\ library'.ignored = library.ignored
        /\ \A t \in DOMAIN library'.tracks :
             Live(library', t) /\ SourceOf[library'.tracks[t].file] # source =>
               /\ t \in DOMAIN library.tracks /\ Live(library, t)
               /\ library'.tracks[t].file = library.tracks[t].file
    <3>1. CASE library' = library
      BY <3>1 DEF Live
    <3>2. CASE library' \in Merged(library)
      <4>1. ASSUME NEW t \in DOMAIN library.tracks, Live(library', t)
            PROVE  Live(library, t) /\ library'.tracks[t].file = library.tracks[t].file
        BY <2>1, <3>2, <4>1, MergedTracks DEF MergedOld
      <4>2. ASSUME NEW t \in DOMAIN library'.tracks \ DOMAIN library.tracks
            PROVE  SourceOf[library'.tracks[t].file] = source
        <5>1. MergedNew(library', t)
          BY <2>1, <3>2, <4>2, MergedTracks
        <5> QED
          BY <2>1, <5>1 DEF MergedNew, NewFiles, TypeInv
      <4> QED
        BY <2>1, <3>2, <4>1, <4>2, MergedTracks
    <3> QED
      BY <2>1, <3>1, <3>2
  <2>3. source \notin todo /\ Unmerged' = todo /\ Unmerged = todo \cup {source}
    BY <2>1 DEF Unmerged, TypeInv, Reading
  <2>4. LiveWasLive'
    <3> SUFFICES ASSUME NEW t \in DOMAIN library'.tracks, Live(library', t),
                        SourceOf[library'.tracks[t].file] \in todo
                 PROVE  Live(snapshot, t) /\ snapshot.tracks[t].file = library'.tracks[t].file
      BY <2>1, <2>3 DEF LiveWasLive, Live
    <3> QED
      BY <2>1, <2>2, <2>3 DEF LossInv, LiveWasLive
  <2> QED
    BY <2>1, <2>2, <2>4
       DEF LossInv, AbsentIsUnseen, ExcludedIsUnseen, WalkAccounts, HasSnapshot, Reading
<1>3. CASE SetCovers
  <2>1. /\ UNCHANGED <<status, snapshot, unseen, disk>>
        /\ pc = "covers" /\ pc' = "end"
        /\ library'.ignored = library.ignored
    BY <1>3, CoveredIs DEF SetCovers
  <2> QED
    BY <2>1 DEF LossInv, AbsentIsUnseen, ExcludedIsUnseen, LiveWasLive, WalkAccounts,
       HasSnapshot, Reading
<1>4. CASE Outside
  <2>1. UNCHANGED <<status, pc, snapshot, todo, source, files, found>> /\ KeepsFiles
    BY <1>4, OutsideLeavesRun, OutsideKeepsFiles
  <2>2. pc # "idle" => /\ unseen \subseteq unseen'
                       /\ {f \in Files : disk'[f] = Absent \/ f \in library'.ignored}
                            \subseteq unseen'
    BY <1>4, OutsideNotes
  <2>3. AbsentIsUnseen' /\ ExcludedIsUnseen'
    BY <2>1, <2>2 DEF LossInv, AbsentIsUnseen, ExcludedIsUnseen, HasSnapshot
  <2>4. LiveWasLive'
    BY <2>1 DEF LossInv, LiveWasLive, KeepsFiles, Unmerged, Reading, Live
  <2>5. WalkAccounts'
    BY <2>1, <2>2 DEF LossInv, WalkAccounts, Reading, TrackOf, Live
  <2> QED
    BY <2>1, <2>3, <2>4, <2>5 DEF LossInv
<1>5. CASE UNCHANGED vars
  BY <1>5 DEF LossInv, AbsentIsUnseen, ExcludedIsUnseen, LiveWasLive, WalkAccounts,
     HasSnapshot, Reading, Unmerged, Live, TrackOf, vars, run, history
<1> QED
  BY <1>1, <1>2, <1>3, <1>4, <1>5, QuietSteps

LEMMA LossIsCaused ==
  ASSUME TypeInv, LossInv, [Next]_vars,
         NEW t \in DOMAIN library.tracks, Live(library, t), ~Live(library', t)
  PROVE  LET f == library.tracks[t].file
         IN  \/ f \in unseen /\ pc = "files" /\ source = SourceOf[f]
             \/ SourceOf[f] \notin library'.sources
<1> DEFINE f == library.tracks[t].file
<1>1. /\ library.tracks \in [DOMAIN library.tracks -> Track]
      /\ f \in Files /\ ~library.tracks[t].missing
  BY CountedTracks DEF TypeInv, Track, Live
<1>2. library'.tracks # library.tracks
  BY DEF Live
<1>3. CASE Merge
  <2>1. Reading /\ files = {} /\ library' \in Merged(library)
    BY <1>2, <1>3 DEF Merge, Reading
  <2>2. MergedOld(library', t)
    BY <2>1, MergedTracks
  <2>3. SourceOf[f] = source /\ f \notin DOMAIN found
    BY <2>2 DEF MergedOld
  <2>4. Live(snapshot, t) /\ snapshot.tracks[t].file = f
    BY <2>1, <2>3 DEF LossInv, LiveWasLive, Unmerged, Reading
  <2>5. TrackOf(snapshot, f) # NoTrack
    BY <2>1, <2>4, TrackOfIs DEF TypeInv, HasSnapshot, Reading, Live
  <2> QED
    BY <1>1, <2>1, <2>3, <2>5 DEF LossInv, WalkAccounts, Reading
<1>4. CASE SetCovers
  <2>1. pc = "covers" /\ library' = Covered(library)
    BY <1>2, <1>4 DEF SetCovers
  <2>2. DOMAIN library'.tracks = DOMAIN library.tracks
        /\ library'.tracks[t].missing = library.tracks[t].missing
    BY <2>1, CoveredIs
  <2> QED
    BY <1>1, <2>2 DEF Live
<1>5. ASSUME NEW u \in DOMAIN library.tracks, Play(u)
      PROVE  FALSE
  BY <1>1, <1>5 DEF Play, Live, Track, TypeInv, IsLibrary
<1>6. ASSUME NEW u \in DOMAIN library.tracks, NEW on \in BOOLEAN, Favorite(u, on)
      PROVE  FALSE
  BY <1>1, <1>6 DEF Favorite, Live, Track, TypeInv, IsLibrary
<1>7. ASSUME NEW s \in Sources, RemoveSource(s)
      PROVE  SourceOf[f] \notin library'.sources
  BY <1>1, <1>7 DEF RemoveSource, Live, TypeInv, IsLibrary
<1>8. CASE Outside
  BY <1>2, <1>5, <1>6, <1>7, <1>8 DEF Outside, AddSource, ChangeRoot, Remount, Ignore,
     ChangeFile, Separate, TypeInv, IsLibrary
<1> QED
  BY <1>2, <1>3, <1>4, <1>8, QuietSteps DEF vars

\* A track leaves the library only with its source, or in the merge of a walk
\* that succeeded, and if nothing was at the path of its file, or the file was
\* ignored, at some time of the run: neither a walk that fails, nor a read error,
\* nor a stop, nor an edit during the run takes one (scan.go:197-244).
THEOREM OnlyAbsentGoMissingHolds == Spec => OnlyAbsentGoMissing
<1>1. TypeInv /\ LossInv /\ [Next]_vars =>
        [\A t \in DOMAIN library.tracks :
           Live(library, t) /\ ~Live(library', t) =>
             LET f == library.tracks[t].file
             IN  \/ f \in unseen /\ pc = "files" /\ source = SourceOf[f]
                 \/ SourceOf[f] \notin library'.sources]_vars
  BY LossIsCaused
<1> QED
  BY <1>1, TypeInit, TypeStep, LossInit, LossStep, PTL DEF Spec, OnlyAbsentGoMissing

-----------------------------------------------------------------------------
(* What an undisturbed scan leaves.                                        *)

LEMMA CoverOfIs ==
  /\ \A lib, group : CoverOf(lib, group) = CoverIn(lib, roots, group)
  /\ CoversShared <=> \A t \in DOMAIN library.tracks :
       Live(library, t) =>
         library.tracks[t].cover = CoverIn(library, roots, GroupOf(library, t))
BY DEF CoverOf, CoverIn, PicturedOf, First, CoversShared

\* Libraries that differ in nothing that covers depend on.
Alike(lib, other) ==
  /\ lib.separators = other.separators
  /\ DOMAIN lib.tracks = DOMAIN other.tracks
  /\ \A t \in DOMAIN lib.tracks :
       /\ lib.tracks[t].file = other.tracks[t].file
       /\ lib.tracks[t].content = other.tracks[t].content
       /\ lib.tracks[t].missing <=> other.tracks[t].missing

LEMMA AlikeCovers ==
  ASSUME NEW lib, NEW other, Alike(lib, other), IsLibrary(lib)
  PROVE  /\ \A t \in DOMAIN lib.tracks :
              /\ Live(lib, t) <=> Live(other, t)
              /\ GroupOf(lib, t) = GroupOf(other, t)
         /\ \A R, group : CoverIn(lib, R, group) = CoverIn(other, R, group)
<1>1. ASSUME NEW t \in DOMAIN lib.tracks
      PROVE  /\ Live(lib, t) <=> Live(other, t)
             /\ GroupOf(lib, t) = GroupOf(other, t)
  BY <1>1 DEF Alike, Live, GroupOf
<1>2. ASSUME NEW R, NEW group
      PROVE  CoverIn(lib, R, group) = CoverIn(other, R, group)
  <2> DEFINE pictured == PicturedOf(lib, R, group)
  <2>1. PicturedOf(other, R, group) = pictured
    BY <1>1 DEF PicturedOf, Alike
  <2>2. pictured \subseteq DOMAIN lib.tracks /\ DOMAIN lib.tracks \subseteq Nat
    BY CountedTracks DEF PicturedOf
  <2> HIDE DEF pictured
  <2>3. pictured # {} => First(pictured) \in pictured
    <3> SUFFICES ASSUME pictured # {} PROVE First(pictured) \in pictured
      OBVIOUS
    <3>1. \E t \in pictured : \A u \in pictured : t <= u
      BY <2>2, LeastNumber
    <3> QED
      BY <3>1 DEF First
  <2>4. pictured # {} =>
          lib.tracks[First(pictured)].file = other.tracks[First(pictured)].file
    BY <2>2, <2>3 DEF Alike
  <2> QED
    BY <2>1, <2>4 DEF CoverIn, pictured
<1> QED
  BY <1>1, <1>2

LEMMA ReflectInit == Init => ReflectInv
BY DEF Init, ReflectInv, SnapshotHolds, FoundReflects, MergedReflects, CoversHold, CoversAreSet,
       RestReflects, Undisturbed, HasSnapshot

\* Nothing that the library is compared with has changed.
LEMMA SameReflects ==
  ASSUME UNCHANGED <<library, disk, roots>>
  PROVE  /\ \A f : Reflects(f)' <=> Reflects(f)
         /\ CoversShared' <=> CoversShared
         /\ \A s : Listed(s)' = {f \in Files : SourceOf[f] = s /\ disk[f] # Absent
                                               /\ f \notin snapshot'.ignored}
BY DEF Reflects, CoversShared, CoverOf, Live, GroupOf, Listed, Allowed

LEMMA ReflectQuiet ==
  ASSUME TypeInv, LossInv, ReflectInv, Quiet, UNCHANGED <<library, wanted, disk, roots>>
  PROVE  ReflectInv'
<1> USE DEF ReflectInv, Undisturbed, HasSnapshot, Reading
<1>1. ASSUME NEW full \in BOOLEAN, Start(full)
      PROVE  ReflectInv'
  BY <1>1 DEF Start, SnapshotHolds, FoundReflects, MergedReflects, CoversHold, CoversAreSet,
     RestReflects
<1>2. CASE Begin
  BY <1>2 DEF Begin, SnapshotHolds, FoundReflects, MergedReflects, CoversHold, CoversAreSet,
     RestReflects, Unmerged
<1>3. ASSUME NEW s \in Sources, Walk(s)
      PROVE  ReflectInv'
  <2>1. /\ UNCHANGED <<status, stopped, snapshot, steady>>
        /\ pc = "sources" /\ pc' = "files"
        /\ s \in todo \cap roots /\ todo' = todo \ {s} /\ source' = s
        /\ files' = Listed(s) /\ found' = Nothing
    BY <1>3 DEF Walk, history
  <2>2. Unmerged' = Unmerged
    BY <2>1 DEF Unmerged
  <2>3. FoundReflects'
    BY <2>1, SameReflects DEF FoundReflects, Nothing, Listed, Allowed
  <2>4. MergedReflects'
    BY <2>1, <2>2, SameReflects DEF MergedReflects
  <2> QED
    BY <2>1, <2>3, <2>4 DEF SnapshotHolds, CoversHold, CoversAreSet, RestReflects
<1>4. ASSUME NEW s \in Sources, WalkFails(s)
      PROVE  ReflectInv'
  <2>1. /\ UNCHANGED <<status, stopped, snapshot, steady, pc>>
        /\ pc = "sources"
        /\ s \in todo \ roots /\ todo' = todo \ {s}
    BY <1>4 DEF WalkFails, history
  <2>2. Unmerged' = Unmerged \ {s}
    BY <2>1 DEF Unmerged
  <2>3. MergedReflects'
    BY <2>1, <2>2, SameReflects DEF MergedReflects
  <2> QED
    BY <2>1, <2>3 DEF FoundReflects, SnapshotHolds, CoversHold, CoversAreSet, RestReflects
<1>5. ASSUME NEW f \in Files, Read(f)
      PROVE  ReflectInv'
  <2>1. /\ UNCHANGED <<status, stopped, snapshot, steady, pc, todo, source>>
        /\ pc = "files" /\ f \in files /\ files' = files \ {f}
    BY <1>5 DEF Read, history
  <2>2. MergedReflects'
    BY <2>1, SameReflects DEF MergedReflects, Unmerged
  <2>3. FoundReflects'
    <3> SUFFICES ASSUME Undisturbed PROVE FoundReflects'
      BY <2>1 DEF FoundReflects
    <3>1. /\ source \in roots
          /\ DOMAIN found \cup files \subseteq Listed(source)
          /\ \A g \in Listed(source) \ files :
               disk[g].readable => g \in DOMAIN found /\ found[g].content = disk[g].content
      BY <2>1 DEF FoundReflects
    <3>2. /\ DOMAIN found' \in {DOMAIN found, DOMAIN found \cup {f}}
          /\ \A g \in DOMAIN found : found'[g] = found[g]
          /\ f \notin DOMAIN found' => (disk[f] # Absent => ~disk[f].readable)
          /\ f \in DOMAIN found' /\ disk[f] # Absent /\ disk[f].readable =>
               found'[f].content = disk[f].content
      <4>1. SourceOf[f] \in roots
        BY <2>1, <3>1 DEF Listed
      <4> QED
        BY <1>5, <4>1, ReadType
    <3>3. Listed(source)' = Listed(source)
      BY <2>1, SameReflects DEF Listed, Allowed
    <3>4. disk[f] # Absent
      BY <2>1, <3>1 DEF Listed
    <3>5. ASSUME NEW g \in Listed(source) \ files', disk[g].readable
          PROVE  g \in DOMAIN found' /\ found'[g].content = disk[g].content
      BY <2>1, <3>1, <3>2, <3>4, <3>5
    <3> QED
      BY <2>1, <3>1, <3>2, <3>3, <3>5 DEF FoundReflects
  <2> QED
    BY <2>1, <2>2, <2>3 DEF SnapshotHolds, CoversHold, CoversAreSet, RestReflects
<1>6. CASE FindCovers
  <2>1. /\ UNCHANGED <<status, stopped, snapshot, steady, todo, source>>
        /\ pc = "sources" /\ pc' = "covers" /\ todo = {}
        /\ covers' = [g \in Groups(library) |-> CoverIn(library, roots, g)]
    BY <1>6, CoverOfIs DEF FindCovers, history, Groups
  <2>2. MergedReflects'
    BY <2>1, SameReflects DEF MergedReflects, Unmerged
  <2>3. CoversHold'
    BY <2>1 DEF CoversHold
  <2> QED
    BY <2>1, <2>2, <2>3 DEF FoundReflects, SnapshotHolds, CoversAreSet, RestReflects
<1>7. CASE Finish
  <2>1. /\ UNCHANGED <<stopped, steady>> /\ pc' = "idle" /\ status'.cancelled = stopped
        /\ stopped \/ pc = "end"
    BY <1>7 DEF Finish
  <2>2. RestReflects'
    <3> SUFFICES ASSUME steady, ~stopped PROVE RestReflects'
      BY <2>1 DEF RestReflects
    <3>1. /\ \A f \in Files : SourceOf[f] \in library.sources \cap roots => Reflects(f)
          /\ CoversShared
      BY <2>1 DEF MergedReflects, CoversAreSet, Unmerged
    <3> QED
      BY <3>1, SameReflects DEF RestReflects
  <2> QED
    BY <2>1, <2>2 DEF FoundReflects, SnapshotHolds, MergedReflects, CoversHold, CoversAreSet
<1>8. CASE Stop \/ CloseCancel \/ CloseWait
  <2>1. /\ UNCHANGED <<run, history>> /\ status'.cancelled = status.cancelled
        /\ ~stopped' => ~stopped
    BY <1>8 DEF Stop, CloseCancel, CloseWait, TypeInv
  <2>2. RestReflects'
    BY <2>1, SameReflects DEF RestReflects, run, history
  <2>3. MergedReflects'
    BY <2>1, SameReflects DEF MergedReflects, Unmerged, run, history
  <2>4. FoundReflects'
    BY <2>1, SameReflects DEF FoundReflects, Listed, Allowed, run, history
  <2>5. CoversHold' /\ CoversAreSet'
    BY <2>1, SameReflects DEF CoversHold, CoversAreSet, run, history
  <2> QED
    BY <2>1, <2>2, <2>3, <2>4, <2>5 DEF SnapshotHolds, run, history
<1> QED
  BY <1>1, <1>2, <1>3, <1>4, <1>5, <1>6, <1>7, <1>8 DEF Quiet

\* Only marks and plays leave a scan undisturbed; they change neither files nor
\* covers.
LEMMA MarksAreAlike ==
  ASSUME TypeInv, Outside, steady'
  PROVE  /\ UNCHANGED <<disk, roots, steady>>
         /\ library'.sources = library.sources /\ library'.ignored = library.ignored
         /\ Alike(library, library')
         /\ \A t \in DOMAIN library.tracks :
              library'.tracks[t].cover = library.tracks[t].cover
<1>1. library.tracks \in [DOMAIN library.tracks -> Track]
  BY CountedTracks DEF TypeInv
<1>2. ASSUME NEW t \in DOMAIN library.tracks, Play(t)
      PROVE  /\ UNCHANGED <<disk, roots, steady>>
             /\ library'.sources = library.sources /\ library'.ignored = library.ignored
             /\ Alike(library, library')
             /\ \A u \in DOMAIN library.tracks :
                  library'.tracks[u].cover = library.tracks[u].cover
  <2>1. /\ library' = [library EXCEPT !.tracks[t].plays = @ + 1]
        /\ UNCHANGED <<disk, roots, steady>>
    BY <1>2 DEF Play
  <2>2. /\ library'.sources = library.sources /\ library'.ignored = library.ignored
        /\ library'.separators = library.separators
        /\ library'.tracks = [library.tracks EXCEPT ![t].plays = @ + 1]
    BY <2>1 DEF TypeInv, IsLibrary
  <2>3. /\ DOMAIN library'.tracks = DOMAIN library.tracks
        /\ \A u \in DOMAIN library.tracks :
             /\ library'.tracks[u].file = library.tracks[u].file
             /\ library'.tracks[u].content = library.tracks[u].content
             /\ library'.tracks[u].missing = library.tracks[u].missing
             /\ library'.tracks[u].cover = library.tracks[u].cover
    BY <1>1, <2>2 DEF Track
  <2> QED
    BY <2>1, <2>2, <2>3 DEF Alike
<1>3. ASSUME NEW t \in DOMAIN library.tracks, NEW on \in BOOLEAN, Favorite(t, on)
      PROVE  /\ UNCHANGED <<disk, roots, steady>>
             /\ library'.sources = library.sources /\ library'.ignored = library.ignored
             /\ Alike(library, library')
             /\ \A u \in DOMAIN library.tracks :
                  library'.tracks[u].cover = library.tracks[u].cover
  <2>1. /\ library' = [library EXCEPT !.tracks[t].favorite = on]
        /\ UNCHANGED <<disk, roots, steady>>
    BY <1>3 DEF Favorite
  <2>2. /\ library'.sources = library.sources /\ library'.ignored = library.ignored
        /\ library'.separators = library.separators
        /\ library'.tracks = [library.tracks EXCEPT ![t].favorite = on]
    BY <2>1 DEF TypeInv, IsLibrary
  <2>3. /\ DOMAIN library'.tracks = DOMAIN library.tracks
        /\ \A u \in DOMAIN library.tracks :
             /\ library'.tracks[u].file = library.tracks[u].file
             /\ library'.tracks[u].content = library.tracks[u].content
             /\ library'.tracks[u].missing = library.tracks[u].missing
             /\ library'.tracks[u].cover = library.tracks[u].cover
    BY <1>1, <2>2 DEF Track
  <2> QED
    BY <2>1, <2>2, <2>3 DEF Alike
<1> QED
  BY <1>2, <1>3 DEF Outside, RemoveSource, AddSource, ChangeRoot, Remount, Ignore,
     ChangeFile, Separate

LEMMA AlikeReflects ==
  ASSUME IsLibrary(library), UNCHANGED <<disk, roots>>,
         library'.ignored = library.ignored, Alike(library, library')
  PROVE  \A f : Reflects(f)' <=> Reflects(f)
<1>1. /\ DOMAIN library'.tracks = DOMAIN library.tracks
      /\ \A t \in DOMAIN library.tracks :
           /\ Live(library', t) <=> Live(library, t)
           /\ library'.tracks[t].file = library.tracks[t].file
           /\ library'.tracks[t].content = library.tracks[t].content
  BY AlikeCovers DEF Alike
<1> QED
  BY <1>1 DEF Reflects

\* A merge brings its source in line with the disk and leaves the others alone.
LEMMA MergeReflects ==
  ASSUME TypeInv, ReflectInv, Undisturbed, Reading, files = {},
         library' \in Merged(library), UNCHANGED <<disk, roots>>,
         NEW f \in Files,
         SourceOf[f] = source \/ Reflects(f)
  PROVE  Reflects(f)'
<1>1. /\ library'.ignored = library.ignored
      /\ DOMAIN library.tracks \subseteq DOMAIN library'.tracks
      /\ \A t \in DOMAIN library.tracks : MergedOld(library', t)
      /\ \A t \in DOMAIN library'.tracks \ DOMAIN library.tracks : MergedNew(library', t)
      /\ \A g \in NewFiles(library) :
           \E t \in DOMAIN library'.tracks \ DOMAIN library.tracks : library'.tracks[t].file = g
  BY MergedTracks
<1>2. /\ DOMAIN found \subseteq {g \in Files : SourceOf[g] = source}
      /\ NewFiles(library) \subseteq DOMAIN found
  BY DEF TypeInv, NewFiles
<1>3. \A t \in DOMAIN library'.tracks \ DOMAIN library.tracks :
        SourceOf[library'.tracks[t].file] = source
  BY <1>1, <1>2 DEF MergedNew
<1>4. CASE SourceOf[f] # source
  <2>1. ASSUME NEW t \in DOMAIN library'.tracks, library'.tracks[t].file = f
        PROVE  /\ t \in DOMAIN library.tracks
               /\ library'.tracks[t] = library.tracks[t]
               /\ Live(library', t) <=> Live(library, t)
    BY <1>1, <1>3, <1>4, <2>1 DEF MergedOld
  <2>2. ASSUME NEW t \in DOMAIN library.tracks, library.tracks[t].file = f
        PROVE  /\ t \in DOMAIN library'.tracks
               /\ library'.tracks[t] = library.tracks[t]
               /\ Live(library', t) <=> Live(library, t)
    BY <1>1, <1>4, <2>2 DEF MergedOld
  <2> QED
    BY <1>1, <1>4, <2>1, <2>2 DEF Reflects
<1>5. CASE SourceOf[f] = source
  <2>1. /\ DOMAIN found \subseteq Listed(source)
        /\ f \in Listed(source) /\ disk[f].readable =>
             f \in DOMAIN found /\ found[f].content = disk[f].content
        /\ f \in Listed(source) <=> disk[f] # Absent /\ f \notin library.ignored
    BY <1>5 DEF ReflectInv, FoundReflects, SnapshotHolds, Listed, Allowed
  <2>2. CASE disk[f] = Absent \/ f \in library.ignored
    <3>1. f \notin DOMAIN found
      BY <2>1, <2>2
    <3>2. ASSUME NEW t \in DOMAIN library'.tracks, Live(library', t),
                 library'.tracks[t].file = f
          PROVE  FALSE
      BY <1>1, <1>2, <1>5, <3>1, <3>2 DEF MergedOld, MergedNew
    <3> QED
      BY <1>1, <2>2, <3>2 DEF Reflects
  <2>3. CASE ~(disk[f] = Absent \/ f \in library.ignored) /\ disk[f].readable
    <3>1. f \in DOMAIN found /\ found[f].content = disk[f].content
      BY <2>1, <2>3
    <3>2. CASE f \in NewFiles(library)
      BY <1>1, <2>3, <3>1, <3>2 DEF Reflects, MergedNew
    <3>3. CASE f \notin NewFiles(library)
      <4>1. PICK t \in DOMAIN library.tracks :
              Live(library, t) /\ library.tracks[t].file = f
        BY <3>1, <3>3 DEF NewFiles, LiveIn
      <4>2. /\ t \in DOMAIN library'.tracks
            /\ Live(library', t) /\ library'.tracks[t].file = f
            /\ library'.tracks[t].content = disk[f].content
        BY <1>1, <1>5, <3>1, <4>1 DEF MergedOld
      <4> QED
        BY <1>1, <2>3, <4>2 DEF Reflects
    <3> QED
      BY <3>2, <3>3
  <2>4. CASE ~(disk[f] = Absent \/ f \in library.ignored) /\ ~disk[f].readable
    BY <1>1, <2>4 DEF Reflects
  <2> QED
    BY <2>2, <2>3, <2>4
<1> QED
  BY <1>4, <1>5

LEMMA ReflectStep ==
  ASSUME TypeInv, LossInv, ReflectInv, [Next]_vars
  PROVE  ReflectInv'
<1>1. CASE Quiet /\ UNCHANGED <<library, wanted, disk, roots>>
  BY <1>1, ReflectQuiet
<1>2. ASSUME ~steady', pc' \in {"covers", "end"} => todo' = {}
      PROVE  ReflectInv'
  BY <1>2 DEF ReflectInv, SnapshotHolds, FoundReflects, MergedReflects, CoversHold, CoversAreSet,
     RestReflects, Undisturbed
<1>3. CASE Merge
  <2>1. /\ UNCHANGED <<disk, roots, status, stopped, snapshot, todo, source>>
        /\ pc = "files" /\ pc' = "sources" /\ Reading /\ files = {}
    BY <1>3 DEF Merge, Reading
  <2> SUFFICES ASSUME steady' PROVE ReflectInv'
    BY <1>2, <2>1
  <2>2. /\ steady' = steady
        /\ library' \in IF source \in library.sources THEN Merged(library) ELSE {library}
    BY <1>3 DEF Merge
  <2> SUFFICES ASSUME Undisturbed' PROVE SnapshotHolds' /\ MergedReflects'
    BY <2>1 DEF ReflectInv, SnapshotHolds, FoundReflects, MergedReflects, CoversHold,
       CoversAreSet, RestReflects, Reading
  <2>3. Undisturbed
    BY <2>1, <2>2 DEF Undisturbed, HasSnapshot
  <2>4. library' \in Merged(library)
    BY <2>1, <2>2, <2>3 DEF ReflectInv, SnapshotHolds, TypeInv, Reading
  <2>5. library'.sources = library.sources /\ library'.ignored = library.ignored
    BY <2>1, <2>4, MergedTracks
  <2>6. Unmerged' = Unmerged \ {source} /\ source \in Unmerged
    BY <2>1 DEF Unmerged, Reading, TypeInv
  <2>7. ASSUME NEW f \in Files, SourceOf[f] \in (library'.sources \cap roots') \ Unmerged'
        PROVE  Reflects(f)'
    <3>1. SourceOf[f] = source \/ Reflects(f)
      BY <2>1, <2>3, <2>5, <2>6, <2>7 DEF ReflectInv, MergedReflects
    <3> QED
      BY <2>1, <2>3, <2>4, <3>1, MergeReflects
  <2> QED
    BY <2>1, <2>3, <2>5, <2>7 DEF ReflectInv, SnapshotHolds, MergedReflects
<1>4. CASE SetCovers
  <2>1. /\ UNCHANGED <<disk, roots, status, stopped, snapshot, todo, source>>
        /\ pc = "covers" /\ pc' = "end" /\ todo = {}
    BY <1>4 DEF SetCovers, ReflectInv, MergedReflects
  <2> SUFFICES ASSUME steady' PROVE ReflectInv'
    BY <1>2, <2>1
  <2>2. steady' = steady /\ library' = Covered(library)
    BY <1>4 DEF SetCovers
  <2> SUFFICES ASSUME Undisturbed' PROVE SnapshotHolds' /\ MergedReflects' /\ CoversShared'
    BY <2>1 DEF ReflectInv, SnapshotHolds, FoundReflects, MergedReflects, CoversHold,
       CoversAreSet, RestReflects, Reading
  <2>3. Undisturbed
    BY <2>1, <2>2 DEF Undisturbed, HasSnapshot
  <2>4. /\ IsLibrary(library)
        /\ library'.sources = library.sources /\ library'.ignored = library.ignored
        /\ Alike(library, library')
        /\ \A t \in DOMAIN library.tracks :
             Live(library, t) =>
               library'.tracks[t].cover = IF GroupOf(library, t) \in DOMAIN covers
                                          THEN covers[GroupOf(library, t)] ELSE NoFile
    BY <2>1, <2>2, CoveredIs DEF Alike, TypeInv
  <2>5. Unmerged' = Unmerged
    BY <2>1 DEF Unmerged, Reading
  <2>6. MergedReflects'
    BY <2>1, <2>3, <2>4, <2>5, AlikeReflects DEF ReflectInv, MergedReflects
  <2>7. covers = [g \in Groups(library) |-> CoverIn(library, roots, g)]
    BY <2>1, <2>3 DEF ReflectInv, CoversHold
  <2>8. ASSUME NEW t \in DOMAIN library'.tracks, Live(library', t)
        PROVE  library'.tracks[t].cover = CoverIn(library', roots', GroupOf(library', t))
    <3>1. /\ t \in DOMAIN library.tracks /\ Live(library, t)
          /\ GroupOf(library', t) = GroupOf(library, t)
          /\ \A g : CoverIn(library', roots, g) = CoverIn(library, roots, g)
      BY <2>4, <2>8, AlikeCovers DEF Alike
    <3>2. GroupOf(library, t) \in Groups(library)
      BY <3>1 DEF Groups
    <3> QED
      BY <2>1, <2>4, <2>7, <3>1, <3>2
  <2>9. CoversShared'
    BY <2>8 DEF CoversShared, CoverOf, CoverIn, PicturedOf, First
  <2> QED
    BY <2>1, <2>3, <2>4, <2>6, <2>9 DEF ReflectInv, SnapshotHolds
<1>5. CASE Outside
  <2>1. UNCHANGED <<status, stopped, pc, snapshot, todo, source, files, found, covers>>
    BY <1>5, OutsideLeavesRun
  <2> SUFFICES ASSUME steady' PROVE ReflectInv'
    BY <1>2, <2>1 DEF ReflectInv, MergedReflects
  <2>2. /\ UNCHANGED <<disk, roots, steady>>
        /\ library'.sources = library.sources /\ library'.ignored = library.ignored
        /\ Alike(library, library')
        /\ \A t \in DOMAIN library.tracks :
             library'.tracks[t].cover = library.tracks[t].cover
    BY <1>5, MarksAreAlike
  <2>3. IsLibrary(library)
    BY DEF TypeInv
  <2>4. \A f : Reflects(f)' <=> Reflects(f)
    BY <2>2, <2>3, AlikeReflects
  <2>5. /\ Groups(library') = Groups(library)
        /\ \A g : CoverIn(library', roots', g) = CoverIn(library, roots, g)
        /\ \A t \in DOMAIN library.tracks :
             /\ Live(library', t) <=> Live(library, t)
             /\ GroupOf(library', t) = GroupOf(library, t)
    BY <2>2, <2>3, AlikeCovers DEF Groups, Alike
  <2>6. CoversShared <=> CoversShared'
    <3>1. CoversShared' <=> \A t \in DOMAIN library'.tracks :
            Live(library', t) =>
              library'.tracks[t].cover = CoverIn(library', roots', GroupOf(library', t))
      BY DEF CoversShared, CoverOf, CoverIn, PicturedOf, First
    <3> QED
      BY <2>2, <2>5, <3>1, CoverOfIs DEF Alike
  <2>7. SnapshotHolds' /\ FoundReflects'
    BY <2>1, <2>2 DEF ReflectInv, SnapshotHolds, FoundReflects, Undisturbed, HasSnapshot,
       Reading, Listed, Allowed
  <2>8. MergedReflects'
    BY <2>1, <2>2, <2>4 DEF ReflectInv, MergedReflects, Undisturbed, HasSnapshot, Reading,
       Unmerged
  <2>9. CoversHold'
    <3>1. Undisturbed' /\ pc' = "covers" => Undisturbed /\ pc = "covers"
      BY <2>1, <2>2 DEF Undisturbed, HasSnapshot
    <3>2. [g \in Groups(library') |-> CoverIn(library', roots', g)]
            = [g \in Groups(library) |-> CoverIn(library, roots, g)]
      BY <2>5
    <3> QED
      BY <2>1, <3>1, <3>2 DEF ReflectInv, CoversHold
  <2>10. CoversAreSet' /\ RestReflects'
    BY <2>1, <2>2, <2>4, <2>6 DEF ReflectInv, CoversAreSet, RestReflects, Undisturbed,
       HasSnapshot
  <2> QED
    BY <2>7, <2>8, <2>9, <2>10 DEF ReflectInv
<1>6. CASE UNCHANGED vars
  <2>1. UNCHANGED <<library, disk, roots>>
    BY <1>6 DEF vars
  <2> QED
    BY <1>6, <2>1, SameReflects
       DEF ReflectInv, SnapshotHolds, FoundReflects, MergedReflects, CoversHold, CoversAreSet,
           RestReflects, Undisturbed, HasSnapshot, Reading, Unmerged, Listed, Allowed, vars,
           run, history
<1> QED
  BY <1>1, <1>3, <1>4, <1>5, <1>6, QuietSteps

LEMMA ReflectSafe ==
  ASSUME TypeInv, OneTrackPerFile, ReflectInv
  PROVE  ScanReflectsDisk
<1> SUFFICES ASSUME pc = "idle", steady, ~status.cancelled PROVE ScanReflectsDisk
  BY DEF ScanReflectsDisk
<1>1. /\ \A f \in Files : SourceOf[f] \in library.sources \cap roots => Reflects(f)
      /\ CoversShared
  BY DEF ReflectInv, RestReflects
<1>2. ASSUME NEW f \in Files, Reflects(f)
      PROVE  LET t == TrackOf(library, f)
             IN  IF disk[f] = Absent \/ f \in library.ignored THEN t = NoTrack
                 ELSE disk[f].readable =>
                        t # NoTrack /\ library.tracks[t].content = disk[f].content
  <2> DEFINE t == TrackOf(library, f)
  <2>1. /\ t # NoTrack => /\ t \in DOMAIN library.tracks
                          /\ Live(library, t) /\ library.tracks[t].file = f
        /\ \A u \in DOMAIN library.tracks :
             Live(library, u) /\ library.tracks[u].file = f => t # NoTrack
    BY TrackOfIs DEF TypeInv
  <2> HIDE DEF t
  <2> QED
    BY <1>2, <2>1 DEF Reflects, OneTrackPerFile, t
<1> QED
  BY <1>1, <1>2 DEF ScanReflectsDisk, CoversShared

\* After a scan that ran to its end undisturbed, every source that can be walked
\* is in the library as it is on disk, and the tracks of an album share a cover.
THEOREM ScanReflectsDiskHolds == Spec => []ScanReflectsDisk
<1>1. Init => TypeInv /\ LossInv /\ ReflectInv
  BY TypeInit, LossInit, ReflectInit
<1>2. TypeInv /\ LossInv /\ ReflectInv /\ [Next]_vars => (TypeInv /\ LossInv /\ ReflectInv)'
  BY TypeStep, LossStep, ReflectStep
<1> QED
  BY <1>1, <1>2, OneTrackPerFileHolds, ReflectSafe, PTL DEF Spec

=============================================================================
