# MagnetoClip in TLA+

MagnetoClip is a download manager for the desktop: a Qt user interface, an asyncio program on
the same thread (qasync), a segmented HTTP engine, wrappers around libtorrent and yt-dlp, a
browser extension that hands captures over through a second process, and one SQLite database.
This directory holds TLA+ models of it, the TLC configurations that check them, and proofs for
TLAPS. Paths below are relative to `src/magnetoclip/` unless they begin with `docs/`.

    tlc -workers 2 -config Pool.cfg SegmentPool
    tlapm SegmentPool_proofs.tla

The core is the engine that transfers one file (`SegmentPool`, `DownloadTask`, and what it promises,
`DownloadPromise`), the manager of all downloads (`DownloadManager`) with the pause switch, and the
manager's two other branches: torrents (`TorrentQueue`) and streams (`StreamDownload`,
`HlsDownloader`). Around it are the bridge to the browser and nine smaller services, each a module.

## Inventory

Everything of the program runs on the GUI thread's event loop unless the table says otherwise, so
the code between two awaits is one step. Threads come in through `asyncio.to_thread`, `QThread` and
through libtorrent, yt-dlp and the scanners; other processes are the browsers' native messaging
hosts, a second start of the application and the updater's batch file.

| Component | Keeps | Does | Meets | What must be right |
|---|---|---|---|---|
| Segment pool (`engine/downloader/pool.py`, `segment.py`, `engine/segmenter/planner.py`, `allocator.py`) | segments with their range and progress, a queue, workers, the running and cancel events | take a segment, request, receive, write, retry, split the tail, cancel a stalled worker | the task sets its events and saves its progress; the limiter makes it wait | ranges tile the file; progress is never ahead of the disk; it ends |
| Download task (`engine/downloader/engine.py`, `engine/resume/mclip.py`) | the state it reports, the plan, the `.mclip` sidecar, part files, the final file | probe, plan or resume, reconcile, run a pool, merge or trim, verify, pause, resume, cancel | reports states to the manager by events; resumes from the sidecar after a crash | completed means whole; a resume trusts nothing the disk does not hold |
| Rate limiter (`engine/downloader/throttle.py`) | tokens | wait for tokens | between the clamp of a chunk and its write | the wait does not make a decision stale |
| Download manager (`core/downloads/manager.py`) | a row per download, a table of tasks, a semaphore, the downloads the switch paused | add, start, pause, resume, cancel, remove, restart, quit; events of the engine, the settings and the switch | the engine's table of tasks, the torrent queue, the user interface | one task per download; a status that tells the truth; permits neither lost nor given twice |
| Pause controller (`core/pause/manager.py`) | the switch and its timer, persisted | pause, resume, set hours, tick | an event that the manager handles | a paused program resumes nothing by itself but by its timer |
| Torrent queue (`core/torrent_queue.py`), handlers (`torrent/handler.py`) | nothing: it counts rows, tasks and handlers | admit, advance, reconcile, resume | tasks share the semaphore of all downloads, of which the queue knows nothing | a slot that is let go goes to who waits; a torrent put back in the queue starts |
| Torrent client (`torrent/client.py`) | handles by download and by info hash, paths of sidecars | add, pause, cancel, drain alerts, store resume data, shut down | every handler drains the alerts of all | resume data reaches the sidecar whoever pops it |
| Streaming (`media/`, the streaming branch of the manager) | cancel events, a table of active streams, part files and sidecars, reserved outputs | resolve, download by yt-dlp or through the browser, join an equal stream, restart after a stop | worker threads and a bounded queue | a published file is the whole stream; no row and no waiter is left behind |
| Browser integration (`browser/`, `ui/components/capture_watcher.py`, the extension) | captures, requests, detections, half-received bodies, stamps of the database file | claim, push, chunks, merge, park, skip | hosts and application are processes over one database | a body is whole; nothing written is overlooked; nothing detected vanishes |
| Library (`core/dedup/`, the manager's add, playlists and archives) | the question hung on the context, digests | check for duplicates, ask, add, index | nested event loops of the dialog | only the add that asked for a question is asked |
| Downloads page (`ui/pages/downloads.py`) | rows, ids and numbers of the widget | insert, update, remove, filter, fill in slices | events, queued and direct; rows written by another process | a button acts on the row it is shown in; the table is the database's |
| YouTube dialogs (`media/youtube/`) | a controller, a thread, the formats | read, retry, offer, accept | signals queued between threads | a dialog that waits is answered |
| Speed test, previews, settings and dashboard (`services/speedtest`, `services/preview`, `services/remote`) | history; a cache of proxies; the form, the server | test; probe, transcode, play; save, start, stop | threads, and tasks that overlap | buttons come back; a played proxy is whole; the sockets are those the settings ask for |
| Application, licence, updates (`app/`, `services/licensing`, `services/updates`) | the lock, the local server, the gate, the window; a downloaded release, the batch | start, forward, close, shut down; check, download, swap | a second process; the batch that replaces the first | what was forwarded is opened; nothing is replaced under a running program |
| Database (`database/`) | rows | one commit per step | everything | commits are the steps of its users |
| Event bus (`core/events/bus.py`) | - | a Qt signal: at once on the GUI thread, queued from others | everything | order of delivery |
| Network, intelligence, archiver, notifications, analytics, shell | small or no state of their own | | call the manager | see `PROJECT.json`, which lists each with its sources |

### Where it is hard

* A split changes a segment's end while its worker awaits a chunk; the limiter's wait puts the
  clamp and the write of one chunk in two steps.
* A worker may end on an exception that nothing records; workers are replaced by a ramp.
* A crash can fall between the merge, the deletion of the parts and the sidecar.
* The status column and the engine's state are two copies of one fact. Pause, resume, cancel, the
  switch and its timer reach a download in any phase: before its task has run, in line for a
  permit, while it is probed, while it is verified, while a restart waits for it.
* The semaphore is replaced on a settings change while tasks hold or wait for permits of the old one.
* The done callback that takes a task out of the table runs after the task ended, so that there
  is a moment in which a row is free and its task still known.
* A torrent takes a slot of the queue and a permit of the semaphore; each is let go by other events.
* Of a stream's stages some hear of a cancel between two blocks, some never; the writer of the HLS
  engine waits for its threads, and a second download of the stream waits for the first.
* Several processes read a list from the database, change it and write it back.
* Dialogs run an event loop of their own inside a timer's tick or inside an add.
* Threads end by a signal that is queued behind what the user does meanwhile.

The full list, each at its line, is `hazards` in `PROJECT.json`.

## Modules

    SegmentPool  <-- DownloadTask  --implements-->  DownloadPromise
        ^                 ^
    SegmentPool_proofs <-- DownloadTask_proofs

    PauseController <-- DownloadManager <-- MCDownloadManager, DownloadManager_proofs
    TorrentQueue                        <-- TorrentQueue_proofs
    StreamDownload                      <-- MCStreamDownload, StreamDownload_proofs
    HlsDownloader                       <-- HlsDownloader_proofs

    BrowserRequests, CaptureQueue, DetectionQueue         <-- MCBridge   <-- Bridge_proofs
    Library, DownloadsPage, TorrentSession, QualityDialog,
    SpeedTest, AppProcess <-- Updates, RemoteControl,
    Preview                                               <-- MCServices <-- Services_proofs

**SegmentPool**: one file, one pool. Bytes are offsets and a segment's data is a run that begins
at `start[i]`, so `part[i]` is the size of its part file (or what the shared file holds of it).
Workers are interchangeable: the model keeps how many are alive and, for each segment in hand, the
await its worker is at (`at[i]`). One action per stretch of code between awaits: `Get` (queue),
`Attempt` (wait while paused, open, request), `Respond` (the answer: 206, 200, 416, other),
`Receive`, `Clamp` (cut the chunk to the segment's end), `Commit` (after the limiter: write and
count), `EndOfBody`, `DiskError`; beside the workers `Spawn` (ramp), `Assist` (the split), `Kill`
(a stalled worker) and `End` (what `run` does after `join` or an error). `ClearRunning`,
`SetRunning` and `SetCancel` are the events the task sets. Left open: delays, measured speeds
(`Speeds`), and how the server cuts its body into chunks.

**DownloadTask** extends it with the life of a download: `Start` (over the sidecar, if it
parses), `Probe` (analysis, plan, reconciliation, first save), `Carried` (a step of the pool and,
when it completes a segment, the save of the sidecar), `PoolEnds`, `Merge`, `Unlink`, `Trim`,
`Verify`, the single connection fallback, `Pause`, `Resume`, `Cancel`, `Quit` and `Crash`. A crash
loses what the process had buffered and not what it had handed to the operating system; it may
also leave a sidecar that does not parse. The remote file does not change and paths are left out.

**DownloadPromise** is what a download promises to the rest of the program: the order of the
states it reports, completed only over a whole file, and no way to damage a file that was whole. A
transfer may report connecting again: the fallback to one connection probes a second time.
`DownloadTask` implements it under the mapping `status <- result` (or idle), `file <- final`.

**PauseController**: the persisted switch, its timer and the four handlers.

**DownloadManager**: `row` is the status column, `jobs` the asyncio tasks, `table` is `_tasks`,
`core` the engine's own table, which has a download only while its engine runs. A job is created,
takes a permit of the semaphore there is when it first runs or waits in that semaphore's line
(`waiters[g]`; a replaced semaphore keeps the line it had), is submitted, goes
through the engine's phases and is forgotten by its done callback. `Add` .. `RestartEnds` are the
calls of the user interface, `PauseSwitch` the event of the switch, `SettingsSaved` the event of
the settings. What the engine does in a phase is abstract here; its order and its effect on pause
and cancel are those of `DownloadTask`. Each download has two slots for jobs, so that two tasks at
once could happen if the code allowed it. `switched` and `redo` are `_paused_by_switch` and the
restarts that wait. `MCDownloadManager` adds the symmetry of downloads.

**TorrentQueue** is the queue, the torrent branch of the manager and the handler. `row`, `prio` and
`seeding` are columns, `limits` the two settings, `task[d]` the asyncio task with the handler's
`paused` and `cancel` events, `free` and `line` the semaphore. The queue's `Reconcile` and `Ask`
are pure operators over those, and every action that calls `advance` (an end, a failure, a pause, a
saved setting, an add) contains it. A pause leaves the task parked in its polling loop.

**StreamDownload** is the streaming branch: `task[d].phase` goes through the awaited stages
(`browser`, `resolve`, `fetch`, `again`), and each ends with any of the answers its code can give.
`role` is the table of active streams of the HLS engine (an owner, or a waiter `of` another), `told`
what the owner left for the waiter, `out` the reserved output. `loops` are the `_retry` loops of
`_schedule_stream_restart`.

**HlsDownloader** is the engine below it, at the grain of threads: `worker[w]` takes jobs, fetches
and puts results in a bounded queue, the run's thread (`stage`, `step`) takes them out, holds those
out of order, writes and, leaving, records the sidecar. A crash keeps any prefix of what was
written; the playlist may be another one in the next run.

**BrowserRequests** (fetches of the application through a host and its extension, in chunks),
**CaptureQueue** (pending captures, requests of the browser, the two timers of the watcher and the
dialogs nested in their ticks: `tick` is the stack) and **DetectionQueue** (the extension's queue, the
host's merge, the page's list and its removals, the acknowledgements) share a database and no state;
**MCBridge** runs one of them in each behaviour. **MCServices** does the same for nine services:

* **Library**: adds, the question of an attended add and its nested loop, playlists, archived
  pages whose thread outlives the row, the digest index with its threads.
* **DownloadsPage**: the widget's table (`table`, `ids`, `rows`) under events, slices and filters.
* **TorrentSession**: one session, alerts popped by any handler and stored by the loop, sidecars.
* **QualityDialog**: the controllers, threads and dialogs of a YouTube video and a playlist.
* **SpeedTest**: the service's tests, in a thread or blocking the loop, and the page's buttons.
* **AppProcess**: several starts of the application, the lock, the local server, the licence gate,
  the window, the stages of the shutdown. **Updates** extends it by the release and its batches.
* **RemoteControl**: the settings form, what other parts write meanwhile, the server's tasks.
* **Preview**: dialogs, probe and transcode threads, the watchdog, the cache.

Because the parts of a composition do not meet, one run of it costs the sum of its parts, and each
part is as free as if it were alone.

## Runs

| Run | Question | Instance | States |
|---|---|---|---|
| `pool` | do ranges tile, is progress on disk, does a segment that was not split hold its range, does a pool end | 4 bytes, 2 segments up to 3, 2 workers, 2 attempts, chunks up to 2, limiter on, writes that fail | 467,000 |
| `task_inplace` | does an in place download keep its promise and return | 3 bytes, expected hash, crash and quit in every stage | 69,500 |
| `task_parts` | is a completed download whole, is a resumed one on disk | both ways to store, every kind of server, crashes and quits | 317,000 |
| `manager` | one task per download, permits, truthful status | 2 downloads, 1 permit, 2 semaphores, quit, crash, escaped exceptions | 730,000 (with symmetry) |
| `manager_one` | is a row ever left at work without a task | 1 download, limits 1 and 2, 3 semaphores, timer | 66,800 |
| `torrents` | is a slot ever idle beside a queued torrent | 2 torrents, 2 priorities, 1 or 2 slots and places, 1 permit, restarts | 346,000 |
| `hls` | is a published stream whole, does a run end | 3 segments, 2 playlists, 2 workers, queue of 2, dying workers, crashes | 64,300 |
| `streams` | is a row or a waiter left behind | 2 streams that may be one, 1 or 2 permits, restarts | 897,000 (with symmetry) |
| `bridge` | does anything vanish between browser and application | 2 hosts, 1 request of 2 chunks, 1 capture in chunks, 1 assembly; 2 captures, 1 request; 2 files | 2,780,000 |
| `services` | the nine services | see `Services.cfg`: two of everything | 933,000 |
| `pool_split`, `torrents_requeued` | see below | | violated |

`TypeOK`, `TaskTypeOK`, `ManagerTypeOK`, `TorrentTypeOK`, `HlsTypeOK`, `StreamTypeOK`, `BridgeTypeOK`
and `ServicesTypeOK` are the type invariants. The others, in words:

* `RangesTile`: each byte of the file is in exactly one segment, whatever is split and when.
* `ProgressOnDisk`: recorded progress never counts a byte the file does not hold.
* `UnsplitWhole`: a segment that is recorded as completed and kept its planned end is on disk to
  its last byte, also when writes fail. This bounds what the defect of `pool_split` can damage.
* `PoolTerminates`: a pool that is not left paused ends, also when workers die.
* `KeepsPromise`, `CompletedWhole`, `SavedOnDisk`, `ResumedOnDisk`, `TaskReturns`: the task. The last
  says that a cancelled task returns from wherever it waits, and one not left paused too.
* `OneTask`: start, resume, restart and the switch never give one download two tasks.
* `StatusTruthful`: while a transfer that nobody is stopping goes on, its row says paused exactly
  when its workers are held, also when the pause came during the probe.
* `PermitsConserved`: for each semaphore, free permits and tasks that hold one add up to its size,
  and no permit is free while a task is in line.
* `NeverStuck`, `StreamNeverStuck`: no step but a crash, or an exception that escapes, leaves a row at
  work without a task. Such a row is stuck, because start refuses it.
* `NoIdleSlot`: a slot that is let go is given on in the same step. The three steps that break this
  are named: the start of the process (which does not look at the queue), the pause of a torrent that
  has no handler yet, and the forgetting of a task that ended while its torrent was put back.
* `FinishedWhole`, `SidecarDescribes`, `RunEnds`: the HLS engine. A published file is the whole
  playlist, each segment once and in order, unless a crash left a sidecar older than its part; a run
  ends unless a worker died of an exception nobody catches.
* `NobodyWaitsInVain`: who waits for another's stream waits for one that is at work.
* `AnswerWhole`: a fetch that returns bytes returns all of them, although two hosts may answer, chunks
  may be refused, and a row may be answered after it expired.
* `NobodyOverlooked`: whatever a host wrote is noticed by a tick that is still to come or in
  progress; the two stamps and the ticks nested in dialogs never hide a row.
* `ParkedOrDecided`: a capture is rejected only if the user decided on it or it was parked on the
  Detected page, unless a host added it between the two statements of "Skip all".
* `DetectionsKept`: a detected file stays in the extension's queue or on the page, but for three
  windows, which the comment names.
* `AskedOnlyUnderneath`: an add that nobody attends meets a question only under an open dialog.
* `ShowsTable`: rows, ids and numbers agree at every step, and when nothing is outstanding the page
  shows the table.
* `PauseFlushKept`: the resume data a pause asks for is on its way until it is in the sidecar.
* `ScanHasReader`: a dialog that shows "reading" has a reader or its answer on the way.
* `DisabledOnlyWhileTesting`: the buttons of the speed test come back whatever fails.
* `DeliveredToWindow`: a link reported as delivered is with a process that has, or had, a window.
* `SwapAfterExit`: the batch goes on only when the process that launched it has ended.
* `DashboardFollowsSetting`: once every task of the dashboard has ended, and unless saves overlapped,
  the sockets are those the setting asks for, and no socket is owned by nobody.
* `ProxyPlayedWhole`: a proxy that is played is whole, unless a dialog or a process was left while it
  transcoded.

### Where code and documents part

Two runs check a sentence of the repository and TLC finds a behaviour against it; the sentence and
the line are quoted in `findings`.

* `pool_split`: a segment is split while a chunk is in flight. Its worker writes that chunk and
  returns, short of the new end, and the segment is recorded as completed.
* `torrents_requeued`: a torrent is paused, another is admitted and waits for the permit the parked
  one keeps; the first is resumed and put back in the queue, to wait for the slot of the second.

Four more of the download task are one constant of `Task_parts.cfg` away, and then `CompletedWhole`
fails: `DiskErrors = TRUE` (a failed write ends the worker and still counts its segment as done, while
`docs/USER_GUIDE.md:225` has files pass a check first), `CrashIn = {"unlink"}` (after a crash between
the deletion of the parts and the end of the verification the next run merges parts that are gone
over the whole file), `ModeSwitch = TRUE` (the progress of the part files is trusted for the final
file) and splits (`AssistMin = 1`, `Size = 4`, `MaxSegs = 3`, for the reason of `pool_split`; also, a
split appends the new segment to the list whatever range it takes, and a resume stretches the last of
the list to the end of the file).

The models also contain the following, which the properties state as exceptions or leave out:

*Downloads.* A download added or started under the pause switch runs (`docs/USER_GUIDE.md:549`). An
error of the single connection fallback leaves `DownloadTask.run` as an exception and the row at
work. Old and new semaphore together exceed the limit for a while. A pause of a completed row makes
it startable again. A download in line can be neither cancelled nor removed before its turn. The
downloads the switch paused are kept in memory only. Choosing 0 hours keeps a timer that is set.

*Torrents.* Transfers exceed "Max active downloads" (`docs/USER_GUIDE.md:355`) when the user starts a
parked torrent. After a restart of the program rows that say connecting take slots for ever.
`start_seeding` writes a status that `start` then refuses. A cancel forgets the path of the sidecar
right after asking for the resume data; two downloads of one torrent share a handle; an older batch
of alerts may overwrite a newer sidecar.

*Streams.* An exception of the second attempt through the browser leaves the row connecting. A pause
while a task waits for its permit is lost. A crash leaves a sidecar older than its part file, and the
next run appends segments that are there already. A worker that dies leaves the writer waiting, deaf
to a cancel; workers that put results after the writer has left wait for ever. A waiter does not hear
of its own cancel.

*Browser.* The cap on assemblies also refuses chunks of bodies that have begun. `next_queued` and
`mark_expired` read and then write, so that two hosts may claim one row. A refused batch counts as
accepted; an acknowledgement drops a file found again; the merge of a host and the removal of the
page overwrite each other. The same capture may be shown twice, because the dialog counts as closed
before its answer is applied. What a host adds during "Skip all" is rejected unseen.

*Services.* Row ids are reused, so that the archive of a removed page lands on a newer row. A queued
snapshot may overtake a newer one on the page. A link forwarded between the taking of the lock and
the listening is refused, and one forwarded during the shutdown is delivered and lost. A second
download of a release truncates the file that may be installed; the swap outside Windows can leave no
installation; the batch kills an application the user has started again. A speed test that is
automatic blocks the window, and its end frees the buttons of a manual test. Save of the settings
writes every key of a form filled long ago; a changed port of the dashboard is never bound, because
`server.port` is set before it is compared, and the pairing address then shows a port nobody listens
on (against `docs/USER_GUIDE.md:372`); overlapping saves leak a socket. Escape leaves a preview's
threads and player at work, and half a transcode in the cache, which passes for a whole one.

### Bounds, and why they are enough

* Engine: files of 3 or 4 bytes. The plan's uneven last segment needs `Size` not divisible by
  `Connections` (3 and 2), a split needs a remainder of at least two bytes in flight (4 with chunks
  of 2, and `MaxSegs` one more than `Connections`). Two workers are the pairs that can meet at a
  segment: the owner and the one that takes the split. `RetryMax` 2 gives one retry, whose reopen is
  the interesting part. `Speeds` {0, 1} is a stalled and a moving segment.
* The pool's run has servers with and without ranges; those without a size are in `task_parts`.
* `AssistMin` is 3 in the task's runs, so that nothing is split there: with splits the defect of
  `pool_split` makes every property about the content false. The pool's runs split.
* Crashes and quits: any number, in the stages that `CrashIn` and `QuitIn` list. `unlink` is left
  out of `task_parts` and `ModeSwitch` is off, see above.
* Manager: two downloads and one permit make a holder and a waiter; a third would wait behind the
  second. `MaxSems` bounds the semaphores of one process: two exist in the run of two downloads,
  three in that of one, where the limit also changes. One restart of a download at a time may wait.
  `Hours` {0, 1} is no timer and a timer; the time is any.

* Torrents and streams: two of each are one that holds what the other waits for; two priorities are
  the order's two cases; one slot and one permit make the contention, two slots and two places the
  absence of it. One restart loop per stream may wait at a time (`MaxLoops`).
* HLS: three segments and two workers let one result come early and another block in a queue of two;
  two playlists are one that matches the sidecar and one that does not.
* Bridge: two hosts race for one request, two chunks are a body that can be half there, one assembly
  is a table that is full as soon as another begins; two addresses and `MaxRows` rows are a capture
  and one that comes meanwhile.
* Services: two of everything that can meet, and counters of what is only done again (`MaxAdds`,
  `MaxTests`, `MaxNotices`, `MaxBatches`, `MaxSwaps`, `MaxTokens`, `MaxTasks`, `Encoders`), each named in
  its module. Two launches are a process that runs or goes down and one that is turned away or
  follows it; with three the run holds too, at the price of half a million states more, and the
  theorems are about any number.

Symmetry is used in `manager` and `streams` only, whose properties are invariants and, in `streams`,
an action property: nothing tells downloads, or streams, apart.

`CHECK_DEADLOCK` is off where the system may stop: `hls` (no run is begun again), `bridge` and
`services` (a bounded number of requests, launches, tests), and `torrents_requeued`, where a state in
which nothing moves is what the run is about. A pool that ended stutters explicitly.

### Fairness

`FairPoolSpec` assumes that the event loop runs what is ready, that the ramp replaces workers
(`pool.py`, `_ramp` runs as long as the pool does), and that a server that answers keeps sending or
closes. The last is an assumption about the world: the client has no read timeout, so a silent
server holds its worker for ever. `FairTaskSpec` adds that probes and threads return. The user
promises nothing: no fairness on pause, resume or cancel, and the termination properties are
conditional on not being left paused. `FairSpec` of `HlsDownloader` assumes that the threads of a
run go on; a fetch ends by its timeout if by nothing else. The user begins no run and cancels none
by fairness. `FairSpec` of `TorrentQueue` assumes that the tasks go on: each step of a task is one
of the event loop's or of libtorrent's, and even under it the requeued torrent never starts. The
other runs are safety only.

## Proofs

TLC looks at small instances; the theorems below hold for every value of the constants that the
assumptions of the modules allow: any size, number of segments, downloads, torrents, streams, hosts,
workers and permits, any server, any playlist. Eight modules hold them, each beside the component it
is about; `tlapm X_proofs.tla` checks one, and `tlapm --summary X_proofs.tla` counts its obligations.

| Proofs | Theorem | States | Under |
|---|---|---|---|
| `SegmentPool_proofs` | `TypeCorrect`, `TilesCorrect`, `ProgressCorrect`, `UnsplitCorrect` | `TypeOK`, `RangesTile`, `ProgressOnDisk`, `UnsplitWhole` | nothing |
| | `CoveredSplitsCorrect` | `~open => CompletedHoldsRange` | every split is covered (`SplitsCovered`) |
| | `StalledSplitsCorrect` | the same | only stalled segments are split (`Speeds \subseteq {0}`) |
| `DownloadTask_proofs` | `TaskTypeCorrect` | `TaskTypeOK` | nothing |
| | `VerifiedCorrect` | `CompletedWhole` | an expected hash |
| | `SavedCorrect` | `SavedOnDisk` | in place, `~ModeSwitch` |
| | `ResumedCorrect` | `ResumedOnDisk` | `Trustworthy` |
| | `CompletedCorrect`, `PromiseKept` | `CompletedWhole`, `KeepsPromise` | `Sound` |
| `DownloadManager_proofs` | `ManagerType`, `OneTaskAlways`, `PermitsNeverLost`, `StatusAlwaysTruthful`, `NeverStuckAlways` | `ManagerTypeOK`, `OneTask`, `PermitsConserved`, `StatusTruthful`, `NeverStuck` | nothing |
| `TorrentQueue_proofs` | `TorrentTypeCorrect`, `SlotsAlwaysFilled` | `TorrentTypeOK`, `NoIdleSlot` | nothing |
| `HlsDownloader_proofs` | `HlsType`, `SidecarAlwaysDescribes`, `PublishedWhole` | `HlsTypeOK`, `SidecarDescribes`, `FinishedWhole` | nothing |
| `StreamDownload_proofs` | `StreamTypeCorrect`, `WaitersHeard`, `StreamNeverStuckAlways` | `StreamTypeOK`, `NobodyWaitsInVain`, `StreamNeverStuck` | nothing |
| `Bridge_proofs` | `BridgeTypeCorrect`, `AnswerCorrect`, `OverlooksNobody`, `ParkedOrDecidedAlways`, `DetectionsCorrect` | `BridgeTypeOK`, `AnswerWhole`, `NobodyOverlooked`, `ParkedOrDecided`, `DetectionsKept` | nothing |
| `Services_proofs` | `AskedCorrect`, `FlushCorrect`, `ScanCorrect`, `ButtonCorrect`, `DeliveryCorrect`, `SwapCorrect`, `DashboardCorrect`, `ProxyCorrect`, `PageCorrect`, each of its component's specification; `ServicesCorrect` of their composition | all the services' properties, `ServicesTypeOK` with them | nothing |

"Nothing" means that only the named assumptions of the modules are used, which say what kind of
number a constant is and how two of them compare, as the code does. An exception a property states
(a crash, an exception that escapes) is part of the property and not an assumption.

None of the invariants is inductive as it stands. What had to be added, and why:

**SegmentPool.** `IInv`: `alive` stays within its bounds because at most as many segments are in hand
as there are workers (`Cardinality(Active) <= alive`); a request asks for bytes of its own range; a
segment in hand was taken. Over it stand `Progress` (for each segment by itself: the file is opened
at the recorded progress, and what a response appends continues it) and `WInv` (a planned end only
moves by a split, and a worker that leaves a segment without one has its cursor past the end). The
proofs have a lemma per action; a step touches one segment, and `OthersKeep` carries the rest.
`PlanTiles` shows that the plan covers the file (multiplication and integer division are in
`PlanBounds` and the lemmas before it), `SplitTiles` that the only step that moves an end keeps it so.

`pool_split` shows that `CompletedHoldsRange` fails; `CoveredSplitsCorrect` names what has to hold for it
not to. `SplitsCovered` is a condition on the steps that move an end: what is left of the narrowed segment
is written or in its worker's hands, so that the next chunk, with which that worker stops, reaches the
new end (`Covered`). It holds of every split of a stalled segment, whose whole remainder is handed over,
and `StalledSplitsCorrect` follows. A failed write or a killed worker does not matter here, as neither
records its segment. The condition does not carry over to the task: a task that is ended after a split
and resumed gives the last segment of the list the end of the file, and that is the one the split made
(`engine.py:404`), so `CompletedWhole` fails even when only stalled segments are split. TLC finds it with
the constants of `task_parts`, `Speeds = {0}`, `AssistMin = 0` and a third segment.

**DownloadTask** takes those invariants over, not `PoolSpec`: the pool's actions occur between the
task's own, and every pool begins from a sidecar. `TaskInv` adds that saved and loaded plans are well
formed, and that workers exist only while the pool runs. `DiskKept` carries progress from the pool
into the sidecar and back through `Reconciled`: in place it is bytes of the file, in parts a part
file that will be measured. `ExactInv` says that the plan of a server is always the same one, that no
part is longer than its range, and that what a joined pool hands to `Merge` is complete. `Reports`
ties the stage to the last report, and `PromiseKept` shows for each action that it is a step of
`DownloadPromise` or changes neither report nor file.

The hypotheses are where the code is at fault, and each was first a counterexample (see above):

* `Trustworthy`: the way of writing does not change between two tasks, and either everything is in
  place or the process does not end between the deletion of the parts and that of the sidecar.
* `Sound`: that, and nothing is split (`NoSplit`: a file no longer than `AssistMin`, which is
  `assist_min_remaining`; a split may end a range short), and no write fails (an error of the disk
  ends a worker and counts its segment). `OnlyInPlace` takes the place of the condition on crashes.
  The constants of `task_inplace` and of `task_parts` satisfy it.
* `Hash`: the digest alone carries `CompletedWhole`, whatever was split, failed or crashed.

**DownloadManager.** `IInv` is three parts. `TablesInv`: a task is in `table` from its creation to its
done callback, and the engine's table holds those whose engine runs. `PermitInv`: the lines hold waiting
tasks, each once and of that semaphore, and the holders can be counted. `StatusInv`: what the engine
reports agrees with its event (`HeldTells`), while a restart is ready no task is past its probe
(`RedoTells`), and a task that has not begun or has recorded its end does not leave its row at work
(`RowTells`).

**TorrentQueue.** `QueueInv`: a handler whose row waits is parked, the line and the permits as above.
`NoIdleSlot` then rests on the walk of `advance`: the first torrent left out has only admitted ones
ahead of it (`FirstOut`), and those that are started had no slot before and take one after
(`AskFills`), because their handlers, if any, were parked. So after one call either no torrent waits or
no slot is free. Every other step lets no slot go, or is one of the three the property names.

**StreamDownload.** `RolesIn`: who waits for a stream waits for one whose task is in a stage of the
HLS engine and owns it; the owner leaves in the step that tells all who wait. `Fresh`: a row says
connecting only after its task got a permit, so that a task ended early cannot leave it so. That an
output name is always left is a pigeonhole argument (`OutputLeft`).

**HlsDownloader.** `DiskTells`: unless a crash left a sidecar that does not describe the part, the
sidecar is the part between runs, and in a run the part is the prefix of the playlist up to `done`.
`RunTells`: a run comes to publish only with every segment written.

**Bridge.** `Answering` counts the assemblies of a host and says that a row is ready only when it has
all chunks, and never taken back. `Capturing` relates the stack of nested ticks to pending rows and
stamps; `Detecting` is about a page that two processes rewrite. A behaviour of `MCBridge` moves one
of the three, and the invariant says what the other two are meanwhile.

**Services.** Each component has its own invariant and theorem (`Asking`, `Session`, `Reading`,
`Testing`, `Processes`, `Installing`, `Dashboard`, `Previews`). Those worth a look: `Session` (whose
sidecar an info hash leads to, and that what is owed to a paused download is not more than there is
on disk), `Attached` (the reader's thread was not told to quit, and its last word waits), `Following`
(unless saves overlapped there is one task, and what it is about to do follows from the setting), and
`Attended` (only the dialog on the screen is at work on the proxy). The types that these leave out
are invariants beside them, as each needs the other: a task of the dashboard that goes on has a port
(`Sockets`), a job that was looked up has an entry of the index (`Shelves`), a signal is of a thread
that was started (`Told`).

`Mirrors` is the invariant of the Downloads page: its list of ids and its numbers are inverse to each
other (`Tidy`), and of every row that was neither raced nor written by another process `UpToDate` says
who has the last word: the newest event in the queue, else the slice that is still to be loaded, else
the page, and that the last word is what the table holds. The operations that fill the table go
through a list (`Load`) or order a set (`Newest`). What holds after any number of their steps is shown
without the library's induction: if it failed after some number there would be a least one
(`Least`, from the well-founded order of finite sets), and the step before it, or no step at all, is
a contradiction (`Upward`). `ServicesCorrect` puts all of them together.

### Only model-checked

* Liveness: `PoolTerminates`, `TaskReturns` and `RunEnds`. The prover has no rule for fairness here, and
  none for ENABLED.
* The two findings, which are counterexamples.

No module of the project declares a RECURSIVE operator.

## Plan

What is left:

1. `CompletedWhole` with splits for a task that is not resumed after one. The pool's half is
   `CoveredSplitsCorrect`; the task's needs a plan that changes while it runs (`ExactInv` relies on one
   that does not) and a pool whose killed workers had nothing left to write.
2. Hazards of `PROJECT.json` without a property of their own: four of `engine.py`, `mclip.py` and
   `manager.py` where the code does not keep what a property would say; for each the README states
   the constant or the action that shows it.

## Not modelled

Network construction, analytics, the archiver's scraping, notifications, diagnostics, the shell and
the sites catalogue: request construction, presentation and text with almost no state of their own.
Of the user interface the pages that only call the manager; of settings the keys only the page
writes; of the database its migrations, which are one way and sequential. A native host that
transfers a download itself is left out: it is a second manager over the same rows, without a way to
be paused by the first. libtorrent, yt-dlp, ffmpeg, Qt, the browser and the HTTP server are outside;
of each the models keep what its answers may be. Bandwidth arithmetic and estimates do not change
what is transferred. Playlist parsing, format ladders, file names and the contents of messages are
data: the models keep what the control distinguishes.
