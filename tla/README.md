# Harmonia server: TLA+ models and proofs

This directory holds the formal models of harmonia-server, a music server
written in Go: TLA+ modules translated from the source, the configurations
that model-check them with TLC, and proofs that TLAPS checks. Paths below are
relative to the repository (`internal/...` is `src/internal/...`).

Check a module with `tlc -config Playback.cfg MCPlayback` (section 3 names
module and configuration of each run), prove one with `tlapm PlaybackProofs.tla`
(section 4 names the eight modules of proofs).

## 1. The system

| component | state | operations | talks to |
|---|---|---|---|
| **Player** (`internal/app/remote.go`, `remote_queue.go`, `remote_shuffle.go`, `playback_settings.go`) | `RemoteSaved` (queue, index, position, listening session, modes, timer), transport state, generation, session, end channel, `remote.json` | `POST /remote` commands, `PUT /playback-settings`, event loop turns (end of track, tick), playback workers, `Close` | AirPlay session, transcode cache, store |
| **Transcode cache** (`media.go`) | entries with leases, key locks, running jobs, files | `Acquire`, release, `Trim`, `Clear` | ffmpeg, store (limit) |
| **Store** (`store*.go`) | SQLite database and an in-memory `State` published after each commit | `Update`, `UpdateMetadata`, `SetFavorite`, `RecordPlayed`, `ClearRecent` | SQLite |
| **Scanner** (`scan.go`) | scan status, one run at a time | `Start`, `Stop`, the run: walk, probe, merge per source, covers | store, ffprobe |
| **AirPlay session** (`internal/airplay/session.go`, `raop.go`, `audio.go`) | control connection, sockets, sequence numbers, retransmission window | `Connect`, `Stream`, `Volume`, `Metadata`, `Close`, retransmits, feedback | receiver, clock |
| **AirPlay clock** (`clock.go`) | last successful probe | timing requests and replies | receiver |
| **Control channel and pairing** (`wire.go`, `pairing.go`, `srp.go`) | one request at a time; at most one pairing attempt | `request`, `BeginPair`, `Finish`, expiry | receiver |
| **Store queries and search** (`store_query.go`, `store_search.go`) | two lookup tables, projections of the tracks | rules, order, paging and playlists in SQL; installation and rebuilding of the tables | SQLite |
| **Browse and page cache** (`browse.go`, `page_cache.go`) | bounded map of rendered pages | pages, groups, folders, home, queues | store |
| **HTTP** (`http.go`, `tag_settings.go`) | none of its own | handlers | all of the above |
| **Waveforms** (`waveform.go`) | one slot, one file per track | `waveform` | ffmpeg |
| Discovery, plist, tags, environment | none that outlives a call | pure functions and I/O | |

### The player in more detail

Three mutexes: `commands` is held by a request, a turn of the event loop or
`Close` from beginning to end, across network calls; `mu` protects short
sections; `playback` is held by a worker from its start to its exit. `start()`
cancels what plays, records a *generation* and spawns a worker. The worker
waits for `playback`, opens the source, connects, publishes its session if the
generation is still its own, sends metadata, and streams. While it streams the
progress callback writes position, state and listening time under `mu` alone.
When it ends it sends its generation and error into a channel of 16 places that
only the event loop reads. A cancelled worker ends silently.

Sessions of the native AirPlay implementation are *continuous*: the reader of
the current track prepares its successor from a snapshot, takes it into the
stream behind the current track, and commits the plan when the successor
becomes audible. An edit of queue, modes or timer restarts such a session.

### What is hard

* a command, the loop, several workers, `AfterFunc` goroutines and progress
  callbacks interleave; a cancelled worker may still be connecting;
* an event in the channel may belong to a playback that was superseded;
* a snapshot taken at the start of a command is used after progress moved on;
* the process may be killed at any point; only `remote.json` survives;
* the timer's deadline passes at any point, also between a tick and the end of
  a track, and beats the failure policy;
* failing tracks under repeat-all and shuffle must be skipped without end or
  repetition;
* shuffle must keep its promise over any sequence of edits.

`PROJECT.json` lists every hazard with the line it bites at and the properties
that guard against it.

### What makes each component correct

* Player: one transport at a time; a reply means the old playback is over; the
  end of a playback ends that playback only; a start comes to an end; `Close`
  ends everything; the index is in the queue; what is heard is the current
  track; a stop timer is obeyed; shuffle plays each track once per round;
  acknowledged changes survive a kill; a listening session belongs to one song.
* Transcode cache: a leased file exists until released; one conversion per key;
  what was cleared does not return, and goes with its last reader; the limit
  holds apart from leases; no key is blocked by a token that got lost.
* Volume: what the user set while stopped is what the next start plays at.
* Store: memory and database agree after every call, and what was acknowledged
  survives; a session counts once.
* Scanner: a merge loses no edit made during the scan; only what a walk did not
  find goes missing; one track per file; a quiet scan ends with what is on disk.
* Queries: SQL and memory give one answer to every rule, page and order by a
  field of a track.
* Browse and page cache: a page is of its snapshot; the pages of a list tile it;
  a group counts what its page shows; the bounds of the cache hold.
* AirPlay session: bounded window with the right packet for each sequence
  number; nothing is sent before the clock is ready, or again but on request; a
  failed set-up leaves nothing; `Close` always returns.
* Pairing: at most one attempt; an expiry ends only its own attempt.

## 2. The modules

| module | models |
|---|---|
| `Transport` | the abstract player: one transport at a time, numbered requests, their ends, a mode |
| `Playback` | the transport life cycle of `Remote`, with every goroutine and mutex; implements `Transport` |
| `PlayQueue` | queue, index and shuffle arithmetic as operators on the saved record |
| `ShuffleRound` | shuffled playback against the listener's own record of the round |
| `RemoteQueue` | commands, policy, timer, listening session, continuous sessions, `remote.json` and restart |
| `OutputVolume` | the volume of an output: what is kept, pending, applied and heard |
| `TranscodeCache` | converted files: leases, turns, trimming, cleaning, limit, restart |
| `Catalog` | the library as a value, and what each request makes of it |
| `LibraryService` | the abstract store: atomic requests on a library that survives crashes |
| `Store` | memory, rows, transactions, publication and restart; implements `LibraryService` |
| `Scanner` | one scan after another against everything that happens meanwhile |
| `TrackRules` | order and rules of tracks in memory, used by `Browse` and `Query` |
| `Browse` | lists, groups, folders, pages, home and queues as functions of a library |
| `PageCache` | requests that look up, build and store pages while the library changes |
| `BrowseService` | `PageCache` with the pages of `Browse` |
| `Query` | the same questions in SQL, over lookup tables that are kept, lost and rebuilt |
| `AirPlaySession` | set-up, goroutines, control channel, clock, stream and close of one session |
| `PlaybackProofs`, `ShuffleRoundProofs`, `RemoteQueueProofs`, `TranscodeCacheProofs`, `StoreProofs`, `ScannerProofs`, `BrowseProofs`, `AirPlaySessionProofs` | proofs; `BrowseProofs` is about `PageCache`, `Query`, `Browse` and `BrowseService` |
| `MCPlayback`, `MCShuffleRound`, `MCRemoteQueue`, `MCTranscodeCache`, `MCStore`, `MCScanner`, `MCBrowse`, `MCQuery` | the same with the bounds and inputs of the runs |

The modules meet where the code does. The player asks its transport for no more
than `Transport` promises; the scanner's merge, favourites and plays are the
updates that `Store` shows to be atomic; `PageCache` publishes libraries as
`Store` does and `BrowseService` gives it the pages of `Browse`; `Playback` uses
a session through the outcomes of `AirPlaySession`, of which "not started" is
the one that is retried.

### Playback

One program counter per actor. `step` is where the holder of the `commands`
mutex stands (one variable is enough: the mutex admits one holder, named by
`commands`), `loop` where the event loop stands, `pc[w]` where worker `w`
stands. Every section under `mu` is one action; every wait for a mutex, a
channel or the network separates two actions.

| code | actions |
|---|---|
| `Command`, `command` | `ClientLock`, `ClientRefused`, `ClientEdit`, `ClientRestart`, `ClientHalt`, `ClientPlay`, `Settle`, `Leave` |
| `putPlaybackSettings` | `ClientLock`, `ClientSettings`, `Leave` |
| `cancelPlayback` | `CancelTake` (under `mu`), `CancelContext`, `CancelClose` |
| `start`, `startWithPolicy` | `StartAccepted`, `StartRejected`, `Begin` |
| `loop` | `LoopReceive`, `LoopEvent`, `LoopNext`, `LoopTick`, `LoopDeadline`, `LoopDone` |
| `Close` | `CloseLock`, then `cancelPlayback`, then `CloseReturn` |
| the worker | `WorkerLock` ... `WorkerSend`, `AfterFunc` |

Which track a request starts is of no concern here: a request starts something,
stops, or leaves the transport alone. What is edited in place matters in one way:
the progress of a continuous session (constant `Continuous`; those of the native
receiver are) counts only while queue and modes are those of its plan
(`matches`), and an edit restarts the session only if it is published already
(`Restarts`).

`Transport` numbers the requests and lets each report its end at any time
(`Report`); a report may be dropped (`Forget`), but only that of the latest
request is acted on (`Heed`, `Finish`). A player that took a late end for the
end of the new playback would not implement it: that is the mutant of
`ImplementsTransport`, which drops the generation from `Heeded`
(`remote.go:216`). The generation grows without bound in the code; here the
attempts are bounded by `MaxStarts`, client requests by `MaxRequests`. `EndCap`
is 16 in the code; the runs use 1, because the hazard is a full channel and one
place fills soonest. Artwork contents and pairing are left out, the volume is
`OutputVolume`: the outcomes of the calls are kept (`Outcomes`).

### PlayQueue, ShuffleRound, RemoteQueue

`PlayQueue` has one operator per Go function; a random choice is a set of
results, a result of `false` the empty set. `ShuffleRound` runs them beside
`round`, what a listener heard since the round began.

In `RemoteQueue` the transport shrinks to the worker of the current generation
(`Playback` shows that no other is heard). A command takes its snapshot
(`Request`), edits (one action per command), starts and persists (`Persist`);
between these steps progress may be reported, a boundary of a continuous session
may be crossed, and the deadline may pass. `start()` is two steps, because it
takes its copy of the saved record (`StartReads`) before it cancels what was
playing (`StartSucceeds`): a boundary in between makes the new worker one that
`crossed`, with the track before under the index behind it. Two simplifications
are deliberate:

* the sections of one command that lie between its snapshot and its last edit are
  merged into one action. The race between snapshot and edit is kept;
* a position is the start of a track, within it, or its very end; seconds are
  the set of tracks they were heard on (`heard`) and `counted`.

`PlaybackSession` is not a value of its own: `resetHistoryLocked` empties
`heard`. `Seeked` and the volume fields are left out. `failure` is a
field of the saved record but not restored from it, as in the code, where
`playback-settings.json` has the last word.

### TranscodeCache

One action per section under the mutex of the cache. A caller is a goroutine in
`Acquire`, a release, or `PUT /api/cache`; `pc[c]` says where it stands.

| code | actions |
|---|---|
| `Acquire` | `Ask`, `TakeTurn`, `Hit` or `Miss`, `ConvertFails` or `Converted`, then `Keep`, `Serve` or `RenameFails` |
| the context of a request | `Disconnect`, `GiveUp` |
| release | `Release` and then `Trim`; `ReleaseTemporary` |
| `Trim` | `ReadLimit`, `Trim`: the limit is read before the mutex is taken |
| `PUT`, `DELETE /api/cache` | `SetLimit` and then `Trim`; `Clear` |
| kill and `NewCache` | `Restart`, `Init` |

The table of entries is `cached` with `active` and `pending`; times are orders
(`used`, and `written` for modification times, which a restart reads), since
only their order decides what goes first. `Victims` states for each entry when
the loop of `trimLocked` removes it; `Loop` is that loop, and `TrimIsLoop`
compares the two.
Merged: the deferred return of the token and deletion of the job with the
section before them, and the registration of the job with the creation of its
file. `os.Remove` fails only for a file that does not exist: other I/O errors of
the cache directory, and files removed from it by others, are left out, as is
the choice of codec and gain, which is the key. `outdated`, `revived`, `late` and
`trimmed` only serve the properties: what was made before the last cleaning, and
what of it a restart has taken for an entry again.

### OutputVolume

One action per section under `mu` and per answer of the receiver. `Play`,
`Stop`, `Select` and `Volume` are the commands; `Volume` looks for the session,
and `VolumeKept` or `VolumeFails` follows after the network call. `Attach`,
`SetVolume`, `Clear` and `Leave` are the worker. `wanted` only serves the
property.

### Catalog, Store, LibraryService

`Catalog` has the library as one record (`State`), `Permits` (the checks of a
handler), `Edited` (its callback) and `Tidied` (what `Update` does after it).
`Store` has the writers, `writeMu`, memory, index and rows:

| code | actions |
|---|---|
| a request that waits for `writeMu` | `Call` |
| callback, tidying, statements of the transaction | `Write` |
| `tx.Commit`, `publish` | `Commit`, `Publish` |
| an error of `Begin`, a statement or `Commit` | `Fail` |
| the answer | `Return` |
| `Store.Close`; a kill and `OpenStore` | `Close`; `Restart` |

`Persist` writes differences into tables, `Load` reads whole tables back, and
they are translated separately, so `DiskIsMemory` compares two pieces of code.
`RecordPlayed`, `SetFavorite` and `ClearRecent` have statements of their own
(`RowsAfter`). That a transaction of SQLite is atomic and durable is assumed.

### Scanner

| code | actions |
|---|---|
| `Start`, `Stop` | `Start`, `Stop` |
| `run` | `Begin`, `Walk` or `WalkFails`, `Read` for each file, `Merge`, `Finish` |
| `refreshCovers` | `FindCovers`, `SetCovers` |
| `App.Close` | `CloseCancel`, `CloseWait` |
| handlers meanwhile | `Favorite`, `Play`, `AddSource`, `RemoveSource`, `Ignore`, `Separate` |
| the file system | `ChangeFile`; `ChangeRoot` (a root that is gone or cannot be read: the walk fails); `Remount` (an empty mount point, or other contents: it does not) |

A track stands for its file, the generation of its content, favourite, plays,
whether it is missing, and the file its cover comes from. `wanted`, `unseen` and
`steady` only serve the properties.

### TrackRules, Browse, PageCache, BrowseService, Query

A text is known by its rank among the lowercased texts, by whether it is blank
and by what it contains (`Fold`, `Within`); a tag text by the names it is made
of for each separator setting (`Members`). Groups have lowercased keys
(`strings.ToLower`), their pages look for names with `strings.EqualFold`: `Fold`
is the one, `Same` the other, and nothing relates them. A list may be sorted by
a tag (`TagOf`, `TagText`) or by any column of the table (`Columns`). A rule is
a leaf or a group of rules; `Rules` has those that are asked and all they are
made of, and `RuleAssumption` says that they are trees: among any groups there
is one that is made of no other of them. What the code walks recursively
(`Match`, `Valid`, `RuleSQL`) is a recursive function over `Rules`.

`Browse` is a function from a library and a query to a page. `IsLibrary` says
what the store keeps (a track under its own ID, playlists that name no track
twice), `IsQuery` what `decodeBrowse` lets through. `PageCache` does not look
into pages: `Ask` takes the snapshot, `Look` looks into the cache, `Store` builds
and stores what `Answers` has for the library and the request. `BrowseService`
fills `Answers` from `Browse` (`ServiceAssumption`) and states what a sequence of
pages adds up to.

`Query` (its specification is `QuerySpec`) keeps the rows of `track_search` and
`track_tag_index` beside the tracks, `Open` rebuilds them, and `PageSQL` computes
a page from the rows alone with SQL's order of blanks and its treatment of NULL.

### AirPlaySession

| code | actions |
|---|---|
| `Connect`, `connectRAOP` | `Connect` for each step, `ConnectFails`, `Cancel` |
| `control.request` | `Request`, `Reply`, `Fails`; `Answer` is the receiver |
| `feedback`, `events`, `retransmits` | `FeedbackLeaves`, `EventsEnd`, `Resend`, `RetransmitsLeaves` |
| `clockServer` | `Probe`, `Age`, `ClockFails` |
| `Stream`, `waitForClock` | `Stream`, `WaitForClock`, `Settle`, `WaitEnds`, `Read`, `ReadNothing`, `ReadFails`, `Keep`, `Send`, `SendFails`, `Drained` |
| `Close` | `BeginClose`, `Teardown`, `TeardownEnds`, `CloseConn`, `CloseRest`, `Closed` |

A packet is its place in the stream; the number on the wire wraps at `Wrap`. A
time limit is an action that may happen at any time. The receiver may ask for any
packet that is kept (`Resend`), the one in hand included, which is kept before it
is sent. A failed request of the feedback may be recorded as the end of the
stream or as another error (`Release`).

## 3. The runs

| run | module, configuration | instance | shows |
|---|---|---|---|
| `playback` | `MCPlayback`, `Playback.cfg` | 2 attempts, 2 requests, 1 place, continuous sessions, fairness | safety of the life cycle and `ImplementsTransport`; every start whose queue is not edited under it is resolved, `Close` returns |
| `shuffle_round` | `MCShuffleRound`, `ShuffleRound.cfg` | every queue up to 4 places over 3 tracks | the promises of shuffle under edits |
| `queue` | `MCRemoteQueue`, `Queue.cfg` | six scenarios: skipping, editing, timers, and three with continuous sessions (timers, modes, skipping with boundaries); queues up to 3 places, kills, fairness | index, what is heard, listening session, timer, what survives; skipping is exhaustive and ends |
| `cache` | `MCTranscodeCache`, `Cache.cfg` | 3 callers, keys of 1 and 2 bytes, limits 2 and 3 | leases, conversions, tokens, cleaning and limit agree |
| `store` | `MCStore`, `Store.cfg` | 2 writers, 4 tracks, 2 sources, 2 playlists, retention of 2, four scenarios of requests | disk and memory agree, sessions count once, `ImplementsLibrary` |
| `scan` | `MCScanner`, `Scan.cfg` | 2 sources, 3 files in 2 contents, 2 scans, up to 2 changes, eight scenarios, fairness | no edit lost or undone, no track doubled; missing only after a walk that succeeded; disk reflected; every scan ends |
| `browse` | `MCBrowse`, `Browse.cfg` | about 100 requests over 5 libraries of up to 6 tracks, under two separator settings, with a text that is all separators and names whose key is not the same as they are; 3 requests of 2 handlers against 2 publications and a cache of 2 entries | pages tile, groups count, snapshots are kept |
| `query` | `MCQuery`, `Query.cfg` | 3 tracks in two versions each, over 100 queries, sorted by fields, a tag, a column that is no field, and none of these | SQL and memory agree, of the orders by a tag or such a column in the total |
| `session` | `AirPlaySession`, `Session.cfg` | numbers wrap at 3, window of 2, 4 packets, 1 request besides the teardown, fairness | audio is safe, a session ends as a whole |
| `queue_remove_race` | `MCRemoteQueue`, `QueueRemoveRace.cfg` | the smallest input | a disagreement, section 5 |
| `skip_keeps_session` | `MCRemoteQueue`, `SkipKeepsSession.cfg` | a queue of three tracks, no edits | a disagreement, section 5 |
| `volume_race` | `OutputVolume`, `VolumeRace.cfg` | 2 plays, 2 volume commands | a disagreement, section 5 |

**Why these bounds.** Two attempts are a worker that still holds the playback
mutex, or has filled the one place of the channel, and one that is started
behind it; safety and refinement are theorems for every number of attempts,
requests and places. Two requests overlap with the event loop, the timer and
`Close`. Three or four places and three tracks give
duplicates, a first, a middle and a last track, an insertion before, at and
after the current one, and failures that are remembered across two skips. A
*scenario* restricts a behaviour to commands that meet each other, which keeps
the sum of all of them within reach; it is chosen in the initial state and
recorded in a variable (or constant set) of the module.

Three callers of the cache are a reader, a converter of the same key and one
that trims or changes the limit; the limits lie so that both files fit under one
of them only. Two writers are enough for the store: one holds `writeMu`, and
what a third could do the second may do. A retention of two with four tracks and
two times has ties at, before and behind the cut. Two contents of a file tell a
reread from none; two scans tell the first merge from one over lost tracks. In
the pages of three entries at most, lists are shorter, equal and longer than a
page; texts differ by case only, have two names under one setting and one under
the other, or none; two have different keys and are the same, one is not the
same as its key. With numbers that wrap at three and a window of two, four
packets wrap and overwrite.

**Deadlock** is checked in the runs `cache` and `query`, which need no bounds on
what users ask. In the others `CHECK_DEADLOCK FALSE`: a bounded model stops when
its requests are used up, and the program may rest.

**Fairness** is weak fairness only. `playback`: whoever holds `commands` runs on
(nothing in a handler waits for a worker); the loop serves its channel and its
`done`; a worker passes every step that has a timeout or fails when its session
is closed; a stream reports progress, and that changes the status only if queue
and modes are those of its plan. It is *not* assumed that a stream with an open
session ends, that a client sends anything, or that the timer is set. The
commands mutex is not assumed to be fair: requests are finite, so it is free for
good in the end. `queue`: a handler that has begun to start a track finishes,
with its copy, its cancel and its spawn. `scan`: the goroutine of the run is
scheduled (probing has a time limit and ends with its context), and `App.Close`
waits for nothing but the run. `session`: set-up, requests and stream end by
themselves or by their time limits, and the goroutines notice what ends them;
nothing is asked of the receiver, which may never answer.

Every property of a passing run has a mutant, an operator of the same module
that alters one definition as a plausible slip would (a dropped guard, a
missing reset, an off-by-one), under which TLC finds the property violated.

## 4. The proofs

Every safety property that a passing run checks is a theorem, for every value of
the constants that satisfies the assumptions of the modules; where the code has
a flaw, a hypothesis of the theorem says which behaviours are meant. TLC checked
each of them, and most of the invariants they rest on, before they were proved.

**`PlaybackProofs`** holds for every number of attempts and requests and every
capacity of the channel (`PlaybackAssumption`):

* `TypeCorrect`: `Spec => []TypeOK`;
* `OneTransportHolds`: at most one session is open. `OneTransport` alone is not
  inductive: nothing in it says that the worker that opens a session is the one
  that holds the mutex. `TransportInv` adds that a worker between its lock and
  its exit is the holder (`HolderIsOwner`), that an open session belongs to the
  present attempt of a connected worker (`OpenIsOwned`), and that the worker
  about to be started never ran (`NextIsFresh`, without which `Begin` could
  reset a worker that holds the mutex);
* `SessionIsCurrentHolds`: the published session is of the current generation;
  inductive by itself once types are known;
* `ClosedStaysQuietHolds`: after `Close` nothing plays. It needs the bound on
  generations (`GenerationBounds`: every worker is behind the current one after
  `Close`, so none reports progress) and that no handler is on its way into
  `start()` (`NoStartAfterClose`, which rests on the refusal of requests and,
  for `PUT /playback-settings`, on the property itself);
* `ReplyMeansQuietHolds`: a session that sounds is the published one if its
  worker is of the current generation; otherwise it is the one that
  `cancelPlayback` took, and the holder of `commands` is about to close it
  (`SoundingIsKnown`). So when the holder leaves nothing old sounds;
* `PlaybackImplementsTransport`: every step of `Playback` is a step of
  `Transport` or none. `PlayerInv` counts the generations that a request may
  have made, and says that every worker is behind while the player rests; that
  what `cancelPlayback` took is older than the present generation (`TakenIsOld`),
  whose own context and session are alive (`LiveIsCurrent`, `StreamIsOpen`); that
  every end on its way is of a generation that was counted (`EventsAreCounted`);
  and that the loop cancels for an end of the present generation only
  (`TurnIsCurrent`). The last rests on the comparison of `remote.go:216` and on
  `commands`, which keeps the generation while the loop acts: without it the step
  is no `Finish`.

**`ShuffleRoundProofs`** holds for every set of tracks and queues of any length,
with any duplicates (`ShuffleAssumption`). `RoundInv` is the whole argument: the
record that the code keeps, `visited`, is what the listener heard in this round,
and has the current track. `RoundInvHolds` shows it for every edit and every
choice that `advanceShuffleLocked` may make; then

* `StopsWhenCompleteHolds`, `OncePerRoundHolds` and `NoRepeatAcrossRoundsHolds`
  say of the listener what the code says of its record. Most of the work is
  about sequences: what insertion, removal and move do to each place, and where
  the current occurrence is afterwards.

**`RemoteQueueProofs`** holds for every set of tracks, queues of any length and
every set of scenarios (`RemoteAssumption`), with kills anywhere. One inductive
invariant, `Inv`, has a part for each pair that must agree: the place lies in
the queue, in memory, on disk, in the plan of the worker and in the copy that
`start()` has taken (`SoundOk`); the worker plays the track at the index, or has
crossed with a boundary, and a command that met it knows (`WorkerOk`); a
successor is in the stream only while no timer is armed (`BufferOk`); nothing but
a boundary comes between the copy and the worker (`CopyOk`); without continuous
sessions a snapshot keeps its index (`CommandOk`); when nobody is at work the
disk has what was acknowledged (`DiskOk`). From it follow `TypeCorrect`,
`IndexInRangeHolds`, `HeardIsCurrentHolds`, `EditsKeepCurrentHolds`,
`TimerHoldsTrackHolds` and `AcknowledgedSurvivesHolds`.

Two hypotheses are there because the code has two flaws, both in section 5.
`[][~RemoveRace]_vars` leaves out one step: a removal that decides with an index
which a boundary has moved since its command took the snapshot; there the index
does leave the queue (run `queue_remove_race`). Every other removal is covered, in
continuous sessions too, also those that meet a boundary before the snapshot or
after the edit. `HistoryIsOfCurrentHolds` adds `[][~GivesUpElsewhere]_vars`: no
`skipFailed` gives up on another track than it began with (run
`skip_keeps_session`). Under it the seconds of a listening session are those of
the current track (`HistInv`), on disk too, and those of a plan or a copy are of
its own track (`PlanHist`, `CopyHist`).

Two properties say less than their names. `HeardIsCurrent` and `TimerHoldsTrack`
except a worker that `crossed`: it was begun from a copy that a boundary had left
behind, and plays the track before the one at the index until it reports progress
(section 5). `EditsKeepCurrent` compares tracks and not places: when a queue holds
a track twice, it does not tell which of the two is current.

`SkipTriesAllHolds`: a skip that gives up under list repeat has seen every track
of the queue fail. In order that is a matter of places: after k advances the loop
stands k places on, wrapped once, and has seen a failure at each (`InOrderTries`).
With shuffle the loop has no more tries than the queue has places and may still
reach into the next round, so it must not waste any. It wastes none if either all
that failed was visited in this round, or nothing else was (`FailedThisRound`,
which the advances keep: `RoundMoves`, `SearchRound`). A track that has not failed
is then ahead of it, and every try but the first of a new round visits one track
more (`ShuffledTries`). The property claims the shuffled case under that condition
only, because the code does not keep it: the boundary of a continuous session and
the removal of the current track leave a track that did not fail and keep the
older failures, and then a skip does give up early (section 5). The scenario
`SkippingOn` of the run `queue` skips between boundaries, under shuffle.

**`TranscodeCacheProofs`** holds for every finite set of callers and keys, all
sizes and all limits (`CacheAssumption`). The theorems about leases use no more
of the trim than that it takes idle entries only, and every idle entry that is
doomed (`VictimsAreIdle`):

* `TypeCorrect`, together with `WantsKey` (a token that is given back is of a
  key); lemmas `AmongIsOrder` and `LatestIsOrder` keep the two orders total;
* `ConvertedOnceHolds`: from `OneTurn` (the token of a key is in its channel or
  with one caller) and `ConvertsMissing`;
* `TurnIsNotLostHolds`: the converse, `TurnIsHeld`;
* `ActiveCountsLeasesHolds` and `LeaseHasFileHolds`: the count of an entry is
  the cardinality of its readers (`ReadersGain`, `ReadersLose`); with
  `FilesOfEntries` (an entry has its file) a leased file exists. The rename
  that fails after `os.Remove(final)` needs `ConvertsMissing` too: an entry of
  that name could only be pending, and the trim just before removed it;
* `ClearedStaysAwayHolds`: until a restart finds its file (`revived`), what was
  made before a cleaning is served to nobody who asks later; every conversion that
  a cleaning met is marked until it ends (`LateIsMarked`);
* `ClearedIsRemovedHolds`: uses the counts, which are never negative;
* `TrimIsLoopHolds`: the loop of `trimLocked` removes what `Victims` says of
  each entry by itself. The step is `VictimsBefore`: if an older idle entry was
  spared, what is left since the oldest such entry fits, so nothing after it is
  removed for room;
* `LimitHoldsAlways`: `LimitHolds` says nothing while a trim is due, so the
  invariant does (`LimitInv`): the entries fit, or are read, or somebody will
  trim who has not read an old limit. A trim by an old limit does no harm
  because whoever changed the limit is still to trim, or already did. A single
  lease excuses any excess: what one lease may hold is not counted.

**`StoreProofs`** holds for every finite set of tracks, every set of sources,
playlists, rules, sessions and writers, every retention, and every library that
an earlier run may have left (the assumptions of `Catalog` and `Store`: the
seeds are proper and tidy, a scenario holds requests):

* `RetentionAgrees`: the rows that the SQL statement of `RecordPlayed` keeps are
  the first `Keep` of the list that the Go code sorts, ties included. `Before`
  is a strict total order of the played tracks, so the number of tracks before a
  track is its place in the list;
* `DiskMatches`: `Spec => []DiskIsMemory`. The invariant says where the rows
  stand at each point of a write: they are the rows of memory until the writer
  has them, of the next library after; that holds because writing the difference
  into the rows of one library gives the rows of the other, table by table;
* `SessionsCountOnce`: `Spec => []SessionCountsOnce`. Every edit keeps a proper
  library proper, of which the only hard one is a play: one session and one
  count more, or none of either;
* `StoreImplementsLibrary`: `Spec => ImplementsLibrary`, step by step. `Publish`
  is the effect; a kill between commit and publication is a crash after which
  one request has taken effect although nobody was told.

**`ScannerProofs`** holds for every finite set of files, every disk, scenario and
library to start with (`FilesAssumption`, and `LibrariesAssumption`: no file of
the first library has two tracks, as earlier merges left it). The merge enters
through `MergedTracks`: the tracks it had keep their numbers, and every file
that is new gets one track. `EditsSurviveScanHolds` and `OneTrackPerFileHolds`
need little more than the types. The other two need the run's own view:

* `OnlyAbsentGoMissingHolds`: a merge takes only what the walk of that source did
  not list, which under an empty mount point is everything (section 5). A track
  that is live in a source not yet merged was
  live in the snapshot (`LiveWasLive`), and a file of the source that is walked
  is yet to be read, was read, was not there, or had no track (`WalkAccounts`);
* `ScanReflectsDiskHolds`: as long as nothing else happens, what was read is what
  is on disk (`FoundReflects`), and the sources that were merged, then the
  covers, are as the disk has them (`MergedReflects`, `CoversHold`).

**`BrowseProofs`** is about all of browsing and searching. On the cache, for any
number of requests and libraries, pages of any length and any bounds
(`CacheAssumption` of `PageCache`):

* `PageIsOfSnapshotHolds`: a revision stands for one library, for the requests
  that saw it (`SnapshotsAgree`), the entries (`EntriesAgree`) and the store;
* `CacheIsAccountedHolds`: the size is the sum of the pages, the list names each
  once, and the loop that evicts ends within both bounds.

On `Query`, for every set of tracks, rules, playlists, queries and page sizes
(`RuleAssumption`, `QueryAssumption`):

* `TablesInvHolds`: while the store is open both tables are the projections of
  the tracks. While it is closed a table is that or missing, and one that is
  missing makes `Open` empty and refill both;
* `QueriesAgreeHolds`: `QuerySpec => []QueriesAgree`, in four parts. *Leaves*:
  the comparison of a column, or of the rows of a tag, is the comparison in
  memory, operator by operator, with NULL and its negations (`LeafAgrees`).
  *Rules*: a tree of rules has one evaluation and only one (`EvalExists`,
  `EvalUnique`), so agreement on the leaves carries over (`RuleAgrees`).
  *Order*: `ORDER BY` and the comparison in memory are one strict total order
  (`BeforeAgrees`), and a total order has one listing, in which the rank of a
  row is its place (`ListingIs`). The two orders are one for the fields that
  both know, and where neither knows the field (`OneOrder`); of a sort by a tag
  or by another column of the table only the total is claimed (section 5).
  *Pages*: the offset, with its own rule past the end, and the limit cut out the
  range that the page number names (`PageIsRange`).

On `Browse` behind the cache, for every library that the store may hold, every
query that `decodeBrowse` lets through, and pages and windows of any size
(`BrowseAssumption`, `ServiceAssumption`); an answer is the page of one library
by `PageIsOfSnapshotHolds`, so what is left is about that page:

* `ListsAreWholeHolds`: each order of tracks, groups and folders is strict and
  total on what it orders (`ListOrders`, `TopOrders`, `GroupOrders`,
  `FolderOrderIs`), ties of equal keys included, so each list has its elements
  once each; a page does not change the list it is cut from (`EntriesAlike`); the
  place of an entry, divided by the page size, names its page (`TileIs`); and the
  window of a queue moves back so far that it has the chosen track (`QueueIs`);
* `GroupsAreDetailsHolds`: a group counts the places of the list whose keys have
  its key, its page counts the tracks that have the name, and the first are the
  second when splitting and testing agree on each track (`KeyIsDetail`), one to
  one (`PlacesCount`). They may disagree on two kinds of names (section 5). A
  text of nothing but separators: there the group without a name counts at least
  what its page shows. Names for which having one lowercased form and being
  equal under `EqualFold` differ: the claim is made of a key where the two are
  one on the names of the library (`OneFolding`).

The proof found two flaws in these models that no run had shown: overlapping
guards of a `CASE`, which let TLC take the first and leaves the choice open in
the logic (the fields of a track, the order of an album with a preset). It also
asked for the texts that are all separators, which the models did not have.

**`AirPlaySessionProofs`** holds for numbers that wrap anywhere, every smaller
window, and streams of every length (`SessionAssumption`):

* `AudioIsSafeHolds`: the number on the wire is that of the packet (`Numbered`),
  and every number that can be asked for has the packet last sent under it,
  within the window (`WindowHeld`). Between `Keep` and `Send` the packet in hand
  is in the window already, which is why the bound has two cases, and it may be
  sent for a request before `Send` sends it; nothing beyond it is out
  (`NothingAhead`), and nothing is made, kept or sent before the clock is ready
  (`ClockHeld`);
* `SessionStaysEnded`: once `Close` has returned, or a failed set-up has closed
  what it opened, no goroutine, socket or clock is left, for good. That it comes
  to that is liveness (`SessionEnds`), which the run checks.

**Recursion.** The library's induction theorems take a predicate as a parameter,
which the provers cannot instantiate. Loops and sums are therefore written as
recursive functions, and a lemma about one has two parts: that the function
exists, as a table that is written down step by step (`Ledger`, `SearchTo`,
`Summed`, `Dealt`), and what it computes, by a least counterexample
(`LeastNumber`, from the well-foundedness of the natural numbers). For rules,
whose depth has no bound in the theorem, `RuleAssumption` takes that place: it is
the well-foundedness of trees, said of the sets of rules for which a claim fails.

**Only model-checked**: all liveness (`CloseCompletes`, `LoadingResolves`,
`SkipEnds`, `ScanEnds`, `SessionEnds`), with whatever needs `ENABLED`, which is
beyond TLAPS. The volume has no theorem: the code violates its one property.

## 5. Where the code and its documents disagree

With a run:

* `queue_remove_race`: `remove` compares with the index of its snapshot
  (`remote.go:823`); a continuous session that crosses a boundary in between
  leaves the index behind the end of the queue, although `commands` is said to
  serialize persisted state (`remote.go:153`).
* `skip_keeps_session`: when every candidate of `skipFailed` has failed it gives
  up with the index on another track and the seconds of the one that was heard
  (`remote.go:1026`); played from there, that track is counted too early, or not
  at all (`README.md:168`).
* `volume_race`: a worker that was stopped just after the receiver confirmed its
  pending volume clears the mark of the volume that was set after the stop
  (`remote.go:464`); the next start does not send it (`API.md:229`).

Seen while modelling, without a run:

* `clear` keeps the listening session; the next queue inherits its seconds
  (`remote.go:717`, `README.md:168`).
* An edit while a continuous session is being set up restarts nothing, and its
  progress is ignored from then on: the status says `loading` while music plays
  (`remote.go:907`, `remote_queue.go:202`, `API.md:214`). `LoadingResolves` makes
  the exception (`Heeds`).
* `start()` copies the saved record (`remote.go:359`) before it cancels what plays
  (`remote.go:387`). A continuous session that crosses a boundary in between has
  moved the index: the new worker plays the track before, and the status shows the
  one after. Its first progress moves the index back, unless an edit has made its
  plan stale meanwhile. Until then a track that fails marks the wrong one, a timer
  that waits for the end is held for the wrong one, and a shuffle round that the
  boundary began may lack what is then current (`crossed` in `RemoteQueue`).
* An empty mount point is walked without an error and lists nothing
  (`scan.go:164`): all tracks of the source go missing and lose their favourites
  (`scan.go:306`); files that come back are new tracks. `README.md:155` keeps the
  collection of a source that cannot be read, and does not speak of one that is
  read and empty.
* The name of a sort is not validated. SQL sorts by any column of the table and
  takes a tag for NULL (`store_query.go:62`, `store_query.go:69`); in memory
  such a column is a tag that no track has, and a tag sorts by its text
  (`model.go:206`). A playlist or a page sorted so has one order in SQL and
  another in memory.
* Groups have lowercased keys (`browse.go:275`), their pages look for the name
  with `EqualFold` (`browse.go:64`). Two names that differ by a final sigma are
  two groups of one track each, and either page shows both tracks; the page of
  the group of a name with a dotted capital I lacks its own track.
* A packet is kept before it is sent (`session.go:427`), and a receiver may ask
  for it (`session.go:255`). A session whose first packet went out so and then
  failed counts as not started, and the new session plays that packet again,
  against "Never replay audio" (`session.go:358`).
* The loop replaces the `stop` of `skipFailed` with `pause` when all candidates
  fail in the start that follows an end of track (`remote.go:246`, `API.md:252`).
* A continuous session that crosses into its next track keeps the failures seen
  before it: `failed` is cleared at the end of a whole stream (`remote.go:229`)
  and by explicit commands (`remote.go:585`), not in `remote_queue.go:208`, while
  `API.md:252` lets every completed track clear it. Under shuffle `skipFailed` may
  then give up before it has tried every track: with a failed and now behind, b
  heard to its end, and c failing, it goes on to a, begins a round, and may use up
  its tries on c and a (the condition in `SkipTriesAll`).
* Removing the current track in sequential mode does not add its successor to
  `playedIds` (`remote.go:832`, `API.md:216`).
* A scan that is stopped after a merge and before `refreshCovers` leaves the
  tracks it merged without covers until a scan runs to its end (`scan.go:274`,
  `scan.go:328`); `scan_cancel_test.go:38` asserts that a stopped scan leaves
  the covers, for a stop before the first merge.
* `contains` on a number compares two different spellings: Go's `fmt.Sprint`
  and SQLite's text of a real. `TestSQLRuleParity` (`store_query_test.go:48`)
  asserts parity for numbers spelled alike. `Query` asks no such rule.
* A genre or artist of nothing but separators ("/", with the slash as a
  separator) has no names: `members` (`model.go:115`) splits it into none, and
  `browseGroups` (`browse.go:255`) counts the track in the group without a name.
  The page of that group lists blank texts only (`browse.go:120`), so it shows
  fewer tracks than the group promises. No document speaks of it; the library
  `odd` of the run `browse` has such a text, and `GroupsAreDetails` makes the
  exception.
* After a kill `NewCache` takes a file that `Clear` could only mark for a good
  entry (`media.go:42`), which no document rules out (`revived` in
  `TranscodeCache`).

No HTTP route leads to `QueryTrackPage` and `SmartMemberships`: what `Query` shows
of them is the parity that the tests of the repository check, and would matter to
clients as soon as a handler used them.

## 6. Not modelled, and what is left

* **Pairing, SRP, encodings** (`pairing.go`, `srp.go`, `plist.go`, `metadata.go`,
  `volume.go`, `audio.go`): exchanges and byte formats without state between
  calls. What remains of state, the one attempt with its expiry in `remote.go`,
  has no module.
* **Discovery** and DNS, **tag parsers** and `ffprobe` output, **environment
  files**: parsing, no state.
* **Waveforms**: one slot and one file per track; sequential but for the slot.
* **PCM source and artwork**: file input behind `openPCM`, which `Playback` and
  `AirPlaySession` reduce to its outcomes.
* **HTTP**: routing, the token, ranges and conditional requests, and the serving
  of media, covers and lyrics. The handlers that change state are in `Catalog`,
  `TranscodeCache`, `RemoteQueue` and `OutputVolume`.
* **Process**: signals and order of shutdown. `ListenAndServe` returns as soon as
  `Shutdown` is called; `Playback` covers requests that reach the player after
  its `Close`, `Scanner` a scan that is started meanwhile, `Store` a write to a
  closed database.
* Within modelled parts: the leases of the prepared track and the frame
  arithmetic of a continuous session; the order of rows within a table, which is
  the order of insertion in memory as well; errors of a source, times of folders
  and files; headings and lyrics of a page; a search that spans two fields.

Next would be the reader of `remote_queue.go` with its leases, composed with the
cache, and a module for the pairing attempt.
