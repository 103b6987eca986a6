------------------------------ MODULE Scanner ------------------------------
(***************************************************************************)
(* The scanner of internal/app (scan.go): one run at a time reads the      *)
(* sources as they were when it began, walks and probes their files, and   *)
(* merges what it found into the library, source by source; at the end it  *)
(* looks for the covers of all albums. A run takes minutes. Meanwhile      *)
(* users mark and play tracks, change sources and settings, files change,  *)
(* and the run may be stopped, by a user or because the server shuts down. *)
(*                                                                         *)
(* Updates of the library are atomic and may fail (Store). A walk sees     *)
(* each file once; it is one step, and each file is read in one of its own.*)
(* The IDs of tracks are opaque and never used twice; here they are given  *)
(* out when a track enters the library. A track stands for its file (the   *)
(* relative path of a source), the generation of its content, what users   *)
(* made of it and the file its cover was found with.                       *)
(***************************************************************************)
EXTENDS Naturals, FiniteSets

CONSTANTS
  Sources, Files,
  SourceOf,    \* the source a file lies in
  Contents,    \* generations of a file: modification time, size and tags
  Albums,      \* for a separator setting and a content, the album; or NoAlbum
  Separators,  \* values of the tag separator setting
  NoAlbum,     \* the album of a track without an album tag
  Pictured,    \* files whose folder holds a picture
  Libraries,   \* libraries to start with
  Disks,       \* contents of the disk to start with
  Scenarios,   \* what may happen in a behaviour besides a scan: [kinds of
               \* change, bounds on the number of changes and of scans]
  MaxTracks    \* bound: tracks ever added

NoFile == "no file"
NoSource == "no source"
Absent == [content |-> 0, readable |-> FALSE]

Track == [file: Files, content: Contents, favorite: BOOLEAN, plays: Nat,
          missing: BOOLEAN, cover: Files \cup {NoFile}]

\* A State whose tracks are numbered in the order in which they were added.
IsLibrary(lib) ==
  /\ lib = [sources |-> lib.sources, ignored |-> lib.ignored,
            separators |-> lib.separators, tracks |-> lib.tracks]
  /\ lib.sources \subseteq Sources /\ lib.ignored \subseteq Files
  /\ IsFiniteSet(DOMAIN lib.tracks)
  /\ DOMAIN lib.tracks = 1..Cardinality(DOMAIN lib.tracks)
  /\ lib.tracks \in [DOMAIN lib.tracks -> Track]

ASSUME FilesAssumption ==
  /\ IsFiniteSet(Files)
  /\ SourceOf \in [Files -> Sources]
  /\ \A d \in Disks :
       d \in [Files -> [content: Contents, readable: BOOLEAN] \cup {Absent}]

\* No file of the library to start with has two tracks: the merges of earlier
\* scans left it so.
ASSUME LibrariesAssumption ==
  \A lib \in Libraries :
    /\ IsLibrary(lib)
    /\ \A t, u \in DOMAIN lib.tracks :
         /\ ~lib.tracks[t].missing /\ ~lib.tracks[u].missing
         /\ lib.tracks[t].file = lib.tracks[u].file
         => t = u

VARIABLES
  scenario,  \* the scenario of this behaviour; never changes
  disk,      \* what is at a file's path: [content, readable], or Absent
  roots,     \* sources whose root directory is there and can be read
  library,   \* State: [sources, ignored, separators, tracks]
  status,    \* ScanStatus: [running, stopping, cancelled]
  stopped,   \* the context of the run is cancelled
  pc,        \* where the run is
  force,     \* it was asked to reread every file
  snapshot,  \* the library as it was when the run began
  todo,      \* sources it has yet to walk
  source,    \* the source it is at
  files,     \* the files of that source it has yet to read
  found,     \* what it read: [content, cover] by file
  covers,    \* the covers it found: a file by group
  server,    \* "open", "closing" or "closed"
  wanted,    \* history: favourite and plays that users asked for, by track
  unseen,    \* history: files absent or ignored at some time since the start
  steady,    \* history: nothing but the scan happened since the start
  scans, changes  \* bounds

run == <<pc, force, snapshot, todo, source, files, found, covers>>
history == <<wanted, unseen, steady>>
vars == <<scenario, disk, roots, library, status, stopped, run, server, history, scans, changes>>

NoTrack == 0

Live(lib, t) == t \in DOMAIN lib.tracks /\ ~lib.tracks[t].missing
LiveIn(lib, s) ==
  {t \in DOMAIN lib.tracks : Live(lib, t) /\ SourceOf[lib.tracks[t].file] = s}

\* The live track of a file in a library, or NoTrack.
TrackOf(lib, f) ==
  IF \E t \in DOMAIN lib.tracks : Live(lib, t) /\ lib.tracks[t].file = f
  THEN CHOOSE t \in DOMAIN lib.tracks : Live(lib, t) /\ lib.tracks[t].file = f
  ELSE NoTrack

\* artworkGroup: the album, or the track alone.
GroupOf(lib, t) ==
  LET album == Albums[lib.separators][lib.tracks[t].content]
  IN  IF album = NoAlbum THEN <<"single", t>> ELSE <<"album", album>>

Put(f, k, v) == [x \in DOMAIN f \cup {k} |-> IF x = k THEN v ELSE f[x]]
Nothing == [x \in {} |-> {}]

-----------------------------------------------------------------------------
(* The run.                                                                *)

Start(full) ==
  /\ ~status.running
  /\ scans < scenario.scans
  /\ scans' = scans + 1
  /\ status' = [running |-> TRUE, stopping |-> FALSE, cancelled |-> FALSE]
  /\ stopped' = FALSE
  /\ pc' = "begin"
  /\ force' = full
  /\ unseen' = {f \in Files : disk[f] = Absent \/ f \in library.ignored}
  /\ steady' = TRUE
  /\ UNCHANGED <<scenario, disk, roots, library, snapshot, todo, source, files, found,
                 covers, server, wanted, changes>>

Begin ==
  /\ pc = "begin"
  /\ snapshot' = library
  /\ todo' = library.sources
  /\ pc' = "sources"
  /\ UNCHANGED <<scenario, disk, roots, library, status, stopped, force, source, files,
                 found, covers, server, history, scans, changes>>

\* By the rules that the source had when the run began.
Allowed(f) == f \notin snapshot.ignored

Listed(s) == {f \in Files : SourceOf[f] = s /\ disk[f] # Absent /\ Allowed(f)}

\* A root that cannot be walked taken for an empty one.
WalkBlind(s) ==
  /\ pc = "sources" /\ ~stopped
  /\ s \in todo
  /\ todo' = todo \ {s}
  /\ source' = s
  /\ files' = IF s \in roots THEN Listed(s) ELSE {}
  /\ found' = Nothing
  /\ pc' = "files"
  /\ UNCHANGED <<scenario, disk, roots, library, status, stopped, force, snapshot,
                 covers, server, history, scans, changes>>

\* filepath.WalkDir.
Walk(s) ==
  /\ pc = "sources" /\ ~stopped
  /\ s \in todo \cap roots
  /\ todo' = todo \ {s}
  /\ source' = s
  /\ files' = Listed(s)
  /\ found' = Nothing
  /\ pc' = "files"
  /\ UNCHANGED <<scenario, disk, roots, library, status, stopped, force, snapshot,
                 covers, server, history, scans, changes>>

\* Tries again until it can be walked.
WalkFailsAgain(s) ==
  /\ pc = "sources" /\ ~stopped
  /\ s \in todo \ roots
  /\ UNCHANGED vars

\* A source that cannot be walked gets an error and keeps its tracks.
WalkFails(s) ==
  /\ pc = "sources" /\ ~stopped
  /\ s \in todo \ roots
  /\ todo' = todo \ {s}
  /\ UNCHANGED <<scenario, disk, roots, library, status, stopped, pc, force, snapshot,
                 source, files, found, covers, server, history, scans, changes>>

\* Rereads only what is new.
StaleIfNew(f, t) == force \/ t = NoTrack

\* Whether the tags of a file have to be read.
Stale(f, t) ==
  force \/ t = NoTrack \/ snapshot.tracks[t].content # disk[f].content

\* Whether ffprobe and the reader of native tags make sense of the file.
Probed(f) == disk[f].readable

\* One file: stat, which fails too when the root is gone since the walk, and
\* ffprobe when that is needed. After an error the track stays as it was; a new
\* file is left out.
Read(f) ==
  LET t == TrackOf(snapshot, f)
      old == snapshot.tracks[t]
      failed == \/ disk[f] = Absent \/ SourceOf[f] \notin roots
                \/ Stale(f, t) /\ ~Probed(f)
  IN  /\ pc = "files" /\ ~stopped
      /\ f \in files
      /\ files' = files \ {f}
      /\ found' = IF failed /\ t = NoTrack THEN found
                  ELSE Put(found, f,
                           [content |-> IF ~failed /\ Stale(f, t) THEN disk[f].content
                                        ELSE old.content,
                            cover |-> IF failed THEN old.cover ELSE NoFile])
      /\ UNCHANGED <<scenario, disk, roots, library, status, stopped, pc, force,
                     snapshot, todo, source, covers, server, history, scans, changes>>

Lost(track) == [track EXCEPT !.missing = TRUE, !.favorite = FALSE]

\* Favourites and plays as the run saw them when it began.
RefreshedStale(lib, t) ==
  LET track == lib.tracks[t]
  IN  IF track.file \in DOMAIN found
      THEN [snapshot.tracks[t] EXCEPT !.content = found[track.file].content,
                                      !.cover = found[track.file].cover]
      ELSE Lost(track)

\* A live track of the source, after the merge. Favourites and plays are those
\* of the library that is merged into, not of the snapshot.
Refreshed(lib, t) ==
  LET track == lib.tracks[t]
  IN  IF track.file \in DOMAIN found
      THEN [track EXCEPT !.content = found[track.file].content,
                         !.cover = found[track.file].cover]
      ELSE Lost(track)

\* Everything found is added.
NewFilesAll(lib) == DOMAIN found

NewFiles(lib) == DOMAIN found \ {lib.tracks[t].file : t \in LiveIn(lib, source)}

\* The callback of the merge; new tracks are appended in any order.
Merged(lib) ==
  LET new == NewFiles(lib)
      n == Cardinality(DOMAIN lib.tracks)
      orders == {g \in [1..Cardinality(new) -> new] :
                   \A i, j \in DOMAIN g : g[i] = g[j] => i = j}
      added(f) == [file |-> f, content |-> found[f].content, favorite |-> FALSE,
                   plays |-> 0, missing |-> FALSE, cover |-> found[f].cover]
  IN  {[lib EXCEPT !.tracks =
          [t \in DOMAIN @ \cup (n + 1)..(n + Cardinality(new)) |->
             IF t > n THEN added(order[t - n])
             ELSE IF t \in LiveIn(lib, source) THEN Refreshed(lib, t) ELSE @[t]]] :
         order \in orders}

\* Merge what was found, if nobody stopped the run and the source still exists.
Merge ==
  /\ pc = "files" /\ ~stopped
  /\ files = {}
  /\ \/ /\ server # "closed"
        /\ library' \in IF source \in library.sources THEN Merged(library) ELSE {library}
        /\ Cardinality(DOMAIN library'.tracks) <= MaxTracks
        /\ wanted' = [t \in DOMAIN library'.tracks |->
                        IF t \in DOMAIN wanted THEN wanted[t]
                        ELSE [favorite |-> FALSE, plays |-> 0]]
        /\ UNCHANGED steady
     \/ /\ steady' = FALSE  \* the update fails
        /\ UNCHANGED <<library, wanted>>
  /\ pc' = "sources"
  /\ UNCHANGED <<scenario, disk, roots, status, stopped, force, snapshot, todo, source, files,
                 found, covers, server, unseen, scans, changes>>

\* The first track of a group, in order, whose folder has a picture.
CoverOf(lib, group) ==
  LET pictured == {t \in DOMAIN lib.tracks :
                     /\ Live(lib, t) /\ GroupOf(lib, t) = group
                     /\ lib.tracks[t].file \in Pictured
                     /\ SourceOf[lib.tracks[t].file] \in roots}
  IN  IF pictured = {} THEN NoFile
      ELSE lib.tracks[CHOOSE t \in pictured : \A u \in pictured : t <= u].file

\* refreshCovers reads the library again and looks for the covers,
FindCovers ==
  /\ pc = "sources" /\ ~stopped
  /\ todo = {}
  /\ covers' = [g \in {GroupOf(library, t) : t \in {t \in DOMAIN library.tracks :
                                                       Live(library, t)}} |->
                  CoverOf(library, g)]
  /\ pc' = "covers"
  /\ UNCHANGED <<scenario, disk, roots, library, status, stopped, force, snapshot, todo,
                 source, files, found, server, history, scans, changes>>

\* and then gives them to the tracks, by the groups these have by now.
Covered(lib) ==
  [lib EXCEPT !.tracks =
     [t \in DOMAIN @ |->
        IF ~Live(lib, t) THEN @[t]
        ELSE [@[t] EXCEPT !.cover = IF GroupOf(lib, t) \in DOMAIN covers
                                    THEN covers[GroupOf(lib, t)] ELSE NoFile]]]

SetCovers ==
  /\ pc = "covers" /\ ~stopped
  /\ \/ /\ server # "closed"
        /\ library' = Covered(library)
        /\ UNCHANGED steady
     \/ /\ steady' = FALSE  \* the update fails
        /\ UNCHANGED library
  /\ pc' = "end"
  /\ UNCHANGED <<scenario, disk, roots, status, stopped, force, snapshot, todo, source, files,
                 found, covers, server, wanted, unseen, scans, changes>>

Finish ==
  /\ pc = "end" \/ (stopped /\ pc \in {"sources", "files", "covers"})
  /\ status' = [running |-> FALSE, stopping |-> FALSE, cancelled |-> stopped]
  /\ pc' = "idle"
  /\ snapshot' = Nothing /\ todo' = {} /\ files' = {}
  /\ found' = Nothing /\ covers' = Nothing
  /\ force' = FALSE /\ source' = NoSource
  /\ unseen' = {}
  /\ UNCHANGED <<scenario, disk, roots, library, stopped, server, wanted, steady, scans, changes>>

-----------------------------------------------------------------------------
(* Stopping and shutting down.                                             *)

Stop ==
  /\ "stop" \in scenario.kinds
  /\ status.running /\ ~stopped
  /\ status' = [status EXCEPT !.stopping = TRUE]
  /\ stopped' = TRUE
  /\ UNCHANGED <<scenario, disk, roots, library, run, server, history, scans, changes>>

\* App.Close cancels the run under way; a request may start another before,
\* while and after it waits for the run to end and closes the store.
CloseCancel ==
  /\ "close" \in scenario.kinds
  /\ server = "open"
  /\ server' = "closing"
  /\ stopped' = (stopped \/ status.running)
  /\ UNCHANGED <<scenario, disk, roots, library, status, run, history, scans, changes>>

CloseWait ==
  /\ server = "closing"
  /\ pc = "idle"
  /\ server' = "closed"
  /\ UNCHANGED <<scenario, disk, roots, library, status, stopped, run, history, scans, changes>>

-----------------------------------------------------------------------------
(* What happens besides the scan.                                          *)

Change(kind) ==
  /\ kind \in scenario.kinds
  /\ changes < scenario.changes
  /\ changes' = changes + 1
  /\ UNCHANGED <<scenario, status, stopped, run, server, scans>>

Noted(S) == IF status.running THEN unseen \cup S ELSE unseen

Favorite(t, on) ==
  /\ Change("mark") /\ server # "closed"
  /\ Live(library, t)
  /\ library' = [library EXCEPT !.tracks[t].favorite = on]
  /\ wanted' = [wanted EXCEPT ![t].favorite = on]
  /\ UNCHANGED <<disk, roots, unseen, steady>>

Play(t) ==
  /\ Change("mark") /\ server # "closed"
  /\ Live(library, t)
  /\ library' = [library EXCEPT !.tracks[t].plays = @ + 1]
  /\ wanted' = [wanted EXCEPT ![t].plays = @ + 1]
  /\ UNCHANGED <<disk, roots, unseen, steady>>

RemoveSource(s) ==
  /\ Change("sources") /\ server # "closed"
  /\ s \in library.sources
  /\ library' =
       [library EXCEPT
          !.sources = @ \ {s},
          !.tracks = [t \in DOMAIN @ |->
                        IF SourceOf[@[t].file] = s
                        THEN Lost(@[t])
                        ELSE @[t]]]
  /\ steady' = FALSE
  /\ UNCHANGED <<disk, roots, wanted, unseen>>

\* A source gets an ID that was never used.
AddSource(s) ==
  /\ Change("sources") /\ server # "closed"
  /\ s \notin library.sources
  /\ \A t \in DOMAIN library.tracks : SourceOf[library.tracks[t].file] # s
  /\ library' = [library EXCEPT !.sources = @ \cup {s}]
  /\ steady' = FALSE
  /\ UNCHANGED <<disk, roots, wanted, unseen>>

\* The rules of a source are edited: a file is ignored, or no longer.
Ignore(f) ==
  /\ Change("ignore") /\ server # "closed"
  /\ SourceOf[f] \in library.sources
  /\ library' = [library EXCEPT !.ignored = (@ \ {f}) \cup ({f} \ @)]
  /\ unseen' = Noted({f})
  /\ steady' = FALSE
  /\ UNCHANGED <<disk, roots, wanted>>

Separate(value) ==
  /\ Change("separators") /\ server # "closed"
  /\ value # library.separators
  /\ library' = [library EXCEPT !.separators = value]
  /\ steady' = FALSE
  /\ UNCHANGED <<disk, roots, wanted, unseen>>

ChangeFile(f) ==
  /\ Change("files")
  /\ \E new \in [content: Contents, readable: BOOLEAN] \cup {Absent} :
       /\ new # disk[f]
       /\ disk' = [disk EXCEPT ![f] = new]
       /\ unseen' = IF new = Absent THEN Noted({f}) ELSE unseen
  /\ steady' = FALSE
  /\ UNCHANGED <<roots, library, wanted>>

\* A source's root directory goes, or can no longer be read, or is back.
ChangeRoot(s) ==
  /\ Change("roots")
  /\ roots' = (roots \ {s}) \cup ({s} \ roots)
  /\ steady' = FALSE
  /\ UNCHANGED <<disk, library, wanted, unseen>>

\* A drive is unmounted and leaves its mount point, an empty directory that can
\* be walked; or what is mounted there changes in another way.
Remount(s) ==
  /\ Change("drives")
  /\ \E shown \in [{f \in Files : SourceOf[f] = s} ->
                    [content: Contents, readable: BOOLEAN] \cup {Absent}] :
       /\ disk' = [f \in Files |-> IF SourceOf[f] = s THEN shown[f] ELSE disk[f]]
       /\ unseen' = Noted({f \in Files : disk'[f] = Absent})
  /\ steady' = FALSE
  /\ UNCHANGED <<roots, library, wanted>>

-----------------------------------------------------------------------------

Init ==
  /\ scenario \in Scenarios
  /\ disk \in Disks
  /\ roots = Sources
  /\ library \in Libraries
  /\ status = [running |-> FALSE, stopping |-> FALSE, cancelled |-> FALSE]
  /\ stopped = FALSE
  /\ pc = "idle" /\ force = FALSE
  /\ snapshot = Nothing /\ todo = {} /\ files = {}
  /\ source = NoSource
  /\ found = Nothing /\ covers = Nothing
  /\ server = "open"
  /\ wanted = [t \in DOMAIN library.tracks |->
                 [favorite |-> library.tracks[t].favorite, plays |-> library.tracks[t].plays]]
  /\ unseen = {} /\ steady = FALSE
  /\ scans = 0 /\ changes = 0

ScanStep ==
  \/ Begin
  \/ \E s \in Sources : Walk(s) \/ WalkFails(s)
  \/ \E f \in Files : Read(f)
  \/ Merge \/ FindCovers \/ SetCovers \/ Finish

Next ==
  \/ \E full \in BOOLEAN : Start(full)
  \/ ScanStep
  \/ Stop \/ CloseCancel \/ CloseWait
  \/ \E t \in DOMAIN library.tracks : Play(t) \/ \E on \in BOOLEAN : Favorite(t, on)
  \/ \E s \in Sources : RemoveSource(s) \/ AddSource(s) \/ ChangeRoot(s) \/ Remount(s)
  \/ \E f \in Files : Ignore(f) \/ ChangeFile(f)
  \/ \E value \in Separators : Separate(value)

Spec == Init /\ [][Next]_vars

\* The goroutine of the run is scheduled and ffprobe has a timeout; Close waits
\* for nothing but the run.
FairSpec == Spec /\ WF_vars(ScanStep) /\ WF_vars(CloseWait)

-----------------------------------------------------------------------------

\* What users do to a track while a scan is under way is not undone when the
\* scan, which read the library long before, is merged (scan.go:281-313).
EditsSurviveScan ==
  \A t \in DOMAIN library.tracks :
    LET track == library.tracks[t]
    IN  /\ track.plays = wanted[t].plays
        /\ ~track.missing => track.favorite = wanted[t].favorite

\* A track is lost only with its source, or in the merge of a walk of its source
\* that succeeded, and if nothing was at the path of its file, or the file was
\* excluded, at some time of the scan: no walk that fails, no read error and no
\* stop takes a track from the library (README.md:155, scan.go:197-244). The
\* empty mount point of an unmounted drive walks without an error, and counts as
\* nothing at the paths of its files (scan.go:164-200, 306-309).
OnlyAbsentGoMissing ==
  [][\A t \in DOMAIN library.tracks :
       Live(library, t) /\ ~Live(library', t) =>
         LET f == library.tracks[t].file
         IN  \/ f \in unseen /\ pc = "files" /\ source = SourceOf[f]
             \/ SourceOf[f] \notin library'.sources]_vars

\* A file has one track at a time, whatever scans and removals of its source
\* follow each other: a file that is back, or whose source is, gets a track if
\* its old one was lost, and only then (scan.go:301-313).
OneTrackPerFile ==
  \A t, u \in DOMAIN library.tracks :
    /\ Live(library, t) /\ Live(library, u)
    /\ library.tracks[t].file = library.tracks[u].file
    => t = u

\* After a scan that ran to its end while nothing else happened, every source
\* that can be walked is in the library as it is on disk, and the tracks of an
\* album share a cover, which they have if the folder of one has a picture.
ScanReflectsDisk ==
  pc = "idle" /\ steady /\ ~status.cancelled =>
    /\ \A f \in Files :
         SourceOf[f] \in library.sources \cap roots =>
           LET t == TrackOf(library, f)
           IN  IF disk[f] = Absent \/ f \in library.ignored THEN t = NoTrack
               ELSE disk[f].readable =>
                      t # NoTrack /\ library.tracks[t].content = disk[f].content
    /\ \A t \in DOMAIN library.tracks :
         Live(library, t) =>
           library.tracks[t].cover = CoverOf(library, GroupOf(library, t))

\* A scan ends, whatever fails in it, and the server can shut down.
ScanEnds ==
  /\ status.running ~> ~status.running
  /\ server = "closing" ~> server = "closed"
=============================================================================
