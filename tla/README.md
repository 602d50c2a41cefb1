# TLA+ models of podkit

podkit synchronises music (and video) collections to iPods and mass-storage
players. This directory holds TLA+ models of the parts of it whose correctness
depends on the order of events, TLC configurations that check them, and proofs
for the TLA+ proof system. Every definition is translated from the source;
`PROJECT.json` maps each one to its lines. Paths below are relative to
`packages/`.

## 1. The system

| Part | State it keeps | Operations | Hard behaviour |
|---|---|---|---|
| Bounded queue, `podkit-core/src/utils/async-queue.ts` | items, closed flag, parked pushes and pops | push, pop, close, iteration | a woken push resumes later; hand-over to a parked pop; close with callers parked |
| Music pipeline, `podkit-core/src/sync/music/pipeline.ts` | two queues, abort flag, collected failures and inline completions, temp files | download, prepare, transfer; inline removals, relocations, updates | three tasks, early exits, who deletes which file, dropped generator |
| Sync engine, `podkit-core/src/sync/engine/executor.ts` | counters, errors, aborted flag | batch path, per-operation path, checkpoint and final save | signal between effect and report; failing saves |
| CLI sync, `podkit-cli/src/commands/{music-presenter,sync-collection-phase,sync-presenter}.ts`, `shutdown.ts` | counted operations, abort signal, protected section | run phases, save after an interrupt, forced quit | SIGINT at any moment |
| Per-device lock, `podkit-core/src/lib/pid-file.ts` | one file | acquire with takeover, release | processes, crashes, wrong liveness verdicts, calls that fail unseen |
| Daemon, `podkit-daemon/src/{device-poller,sync-orchestrator,cli-runner,main}.ts` | in each of two lanes: known and pending devices; current device, flags, queue, child process | poll, mount / dry run / sync / eject, abort, shutdown of both lanes | devices come and go during scans and cycles; stop at any moment, during a scan too |
| Transfer and retry, `podkit-core/src/sync/music/transfer.ts`, `engine/error-handling.ts` | the half-done operation | add, copy, retry, roll back | retry after a half-done transfer |
| Mass-storage adapter, `podkit-core/src/device/mass-storage-adapter.ts` | tracks, allocated paths, managed files, pending moves, tag writes and covers; the manifest on the device | open, add, update, replace, relocate, save in five stages | order, partial failure and crash of a save, reuse of paths, files of the user's |
| Quality decisions, `podkit-core/src/sync/engine/{lossy-reduction,upgrades}.ts`, `sync/music/{classifier,handler,transfer}.ts`, `metadata/sync-tags.ts` | the sync tag in each file | classify, five passes over the diff, tag writing and merging | what one sync writes decides every later one |
| Sweep of transcode directories, `podkit-core/src/diagnostics/scanners/transcode-tmp-walker.ts`, `sync/engine/pre-sync-sweep.ts` | directories with owner files | make, mark, write, remove; look, judge, remove later | racing a running sync; reused process ids; grace periods |
| Diff and plan, `podkit-core/src/sync/{engine,music}` | none | match, reconcile places, order, look for collisions | plans made from what is stale by the time they run |
| Video sync, `podkit-core/src/sync/video` | as the engine's per-operation path | | |
| Diagnostics, discovery, metadata, adapters of collections, transcoding, artwork, iPod formats and bindings, CLI configuration and output, docs, demo | | | input, output or sequential parsing |

How they interact: the daemon runs `podkit sync` as a subprocess and talks to it
by exit code and SIGINT. The CLI takes the device's lock, protects the writing
section against signals and pulls progress from the engine. The engine pulls it
from the pipeline's generator, whose downloader and preparer are tasks of their
own; the three stages are joined by two bounded queues. Everything inside one
process is callbacks and awaits on one thread; between processes there are only
files, signals and exit codes.

What makes each part correct:

- queue: it is a channel (nothing lost, duplicated, reordered; bounded; nothing
  after close), and nobody waits in vain;
- pipeline, engine and CLI: temp files have one owner at a time and no reader
  loses its file; what is reported is what happened; the last save covers what
  happened; the batch ends; nothing touches the device after that;
- mass-storage player: the adapter's books agree with each other and, after a
  save, with the device; no file of podkit's is lost or forgotten and none of the
  user's touched; syncs come to rest with everything in its place;
- quality: tags tell the truth about their files; a cap is a cap; a better copy
  is not lost; a second sync has nothing to do;
- lock: one holder; a crash never locks the device for good; nothing is left
  after an orderly end unless a call failed;
- daemon: one cycle at a time; an iPod that stays gets its cycle; a stop
  completes, interrupts what runs, and does not end before what runs has ended;
- transcode directories: a running sync keeps its own, and what a killed one left
  is gone after the next sync.

## 2. Modules

| Module | Models | Composition |
|---|---|---|
| `BoundedChannel` | what a bounded queue promises (abstract) | |
| `AsyncQueue` | `async-queue.ts` | implements `BoundedChannel` (`INSTANCE ... WITH ended <- ...`) |
| `AsyncQueueProofs` | | theorems about `AsyncQueue` |
| `MusicPipeline` | `pipeline.ts`, the engine's batch path, the CLI around it, SIGINT | its two queues are channels as `AsyncQueue` implements them |
| `MusicPipelineProofs` | | theorems about `MusicPipeline` |
| `MassStorageAdapter` | `mass-storage-adapter.ts`: the adapter's state, each method an operator from state to state | |
| `MassStorageSync` | diff, plan, transfers and save against such an adapter; the device, the user, failures and crashes | extends `MassStorageAdapter` |
| `MassStorageProofs` | | theorems about both |
| `LossyReduction` | `lossy-reduction.ts`, the one place that bounds a bitrate | |
| `QualitySync` | what is made of a song's file, sync after sync | extends `LossyReduction` |
| `QualityProofs` | | theorems about both |
| `SyncLock` | `pid-file.ts`: any number of processes, one lock file | |
| `SyncLockProofs` | | theorems about `SyncLock` |
| `DetectedDevices` | the devices both sides of the daemon name | |
| `DevicePoller`, `SyncOrchestrator` | the daemon's two components | |
| `Lane` | one lane of the daemon: a poller and the orchestrator that listens to it | extends both |
| `LaneProofs` | | theorems about `Lane` |
| `Daemon` | `main.ts`: the iPod lane, the mass-storage lane and the shutdown | extends `Lane` and instantiates it once more |
| `DaemonProofs` | | theorems about `Daemon`, from those of `LaneProofs` for each lane |
| `TranscodeSweep` | `transcode-tmp-walker.ts`, `pre-sync-sweep.ts` and the directory's life in `pipeline.ts` | |
| `TranscodeSweepProofs` | | theorems about `TranscodeSweep` |
| `MC*` | small instances for TLC | |

Operators whose name starts a comment "Faulty ..." are single mistakes that
could be made in the definition they precede. They are used by nothing; each
stands beside its property in `PROJECT.json` to show that the property notices.

### AsyncQueue

One action is one synchronous stretch of JavaScript. `PushCall` is a push up to
its first await, `PushResume` the continuation of a woken one, which runs the
same tests again (`TryPush`). Resolving a waiter only schedules its
continuation, so a woken push is `"woken"` for a while and others may overtake
it. One order is guaranteed by the microtask queue and kept (`behind`): a pop
that wakes a push resolves that push before its own promise, so the push
continues before the caller of that pop does. Producers await each push;
consumers iterate, that is, they call pop again until they hear the end.
`accepted` and `delivered` are histories, which the refinement needs.

### MusicPipeline

`dl`, `prep` and `main` are the places of the downloader, the preparer and the
thread of control made of consumer, engine and CLI: a generator runs only while
somebody asks for its next value. An action ends where the code really waits.
An operation is `"copy"`, `"transcode"` or `"inline"`; everything else about it
is data. `downloads` and `outputs` are temp files on disk, `applied` is what is
on the device, `saved` what the last successful save covers. `EngineSees` is a
yield together with the engine's look at the signal, with which a batch
breaks off ("leave": only the finally blocks run). `Interrupt` is the first
signal in the protected section. Retries are part of a stage's outcome.

### MassStorageAdapter and MassStorageSync

The adapter is sequential: each of its methods is an operator (`AddTrack`,
`UpdateTrack`, `RelocateTrack`, `ReplaceTrackFile`, `RollBack` ...) from the
record of what it keeps in memory to the next one. A path is what the code tells
apart: a place of the layout, an extension, the number `deduplicatePath` puts
behind it and the endings of `replaceTrackFile`; the two searches for a free path are
modelled as such (`Deduplicate`, `ReplacementPath`).

`MassStorageSync` has the device (`disk`, `covers`, `manifest`), the collection
(`source`) and one process. `Open` reads the device, `Start` compares and plans
(the item a song is matched with is any of those with its tags, as the code
takes the first one it meets; a pair that differs in its metadata is not looked at for
its codec, so that it is updated or moved by this sync and encoded anew by the
next one, see `NeedsFile`), one operation of the plan is one step
(`Add`, `Upgrade`, `Relocate`, `Update`, `Remove`), and a save goes through its
stages one by one: moves, tags, covers written, covers deleted, manifest. Every
stage has its failure (`FlushMoveFails` ...), after which a checkpoint
drops the plan and tries the final save (`SaveThrows`). `Crash` is a kill anywhere,
with the torn states in which it may leave the disk; `Interrupt` is the first
signal. `Change` is the user: songs come and go, get other tags, another place or
another codec. `quiet` and `strays` are histories: the first counts the syncs in a row
that found a tidy device (`Tidy`: the places of wanted songs are not taken by others,
and no other file has the tags of one that the manifest lists), with nothing that went
wrong and no edit before them; the second holds the files that no manifest lists any more.

### LossyReduction and QualitySync

One song, since no decision about one depends on another. `Classify` is what is
made of a file that is added, `Decision` what a sync makes of a copy that is on
the device: the five passes of the handler in order, each of which sees only
what those before it left (`Before`). `Made` is the file that the pipeline
writes and `TagOf` its sync tag, merged into the one before. Name of the quality
and codec of a preset travel separately, as they do in the code, since more than
one definition here turns out to depend on it. Bitrates are numbers and the
arithmetic is the code's, in integers.

### SyncLock

An action is one system call on the lock file. Processes crash anywhere. The
file at the path is known by its creator, since a process whose file was
unlinked still writes to the file it opened. The liveness probe may call
anybody but a crashed process alive and anybody at all not alive, which is what
clock steps, a failing `ps` and reused PIDs amount to.

Every call may fail. A read that fails looks like a missing file
(`readOwnership`, to the takeover and to `release()` alike), the unlinks of
takeover, clean-up and release are swallowed, and a failing close throws past the
clean-up (`UnlinkFails`, `CleanUpFails`, `ReleaseReadFails`,
`ReleaseUnlinkFails`, `CloseFails`). In each of these the file stays, and the history
`kept` remembers who failed to remove whose file. `RefusedOnlyByRival` and
`NothingLeftBehind` name exactly these cases as their exceptions: a process may be
refused by a file that its own takeover could not unlink (the code's
"dead-but-occupied"), or by that of a process which could not remove it and has not
exited yet; and a file may stay behind its process. The variable `hit` records the
three ways in which a takeover goes wrong: a running owner misjudged, a running
owner's identity not read (not written in time, or the reads failed), a file
replaced after it was judged. A failing unlink frees nothing and is none of them.

### DevicePoller, SyncOrchestrator, Lane and Daemon

A cycle is one async function, an action its code between two awaits of a
subprocess. `isSyncing` and `currentDevice`, by which all handlers decide, are
separate from `stage`, where each device's cycle really is, so that "one cycle
at a time" is not true by construction. The poller awaits its scan, and devices
come and go meanwhile. What follows the scan runs in one go with the
orchestrator's handlers: each event is a step (`EmitAppeared` with
`HandleDeviceAppeared`, in `PollCompletes`), `told` says which have been emitted,
and as long as a poll is in the midst of it (`~Quiet`, `~Free`) nothing else
happens. The order of the scan's entries is not known and is left open.

The daemon has the lane's variables twice: as they are for iPods, and with the
prefix `ms` for mount points of players (`MassStorage == INSTANCE Lane WITH ...`).
The second lane looks at its paths without waiting and mounts nothing, so its
polls are one step and its mounts do not fail. `Shutdown` is the signal
handler, `awaited` the lanes that it waits for; `waitForIdle` looks only at
`isSyncing`, and only until it has been false once (`IdleSeen`).

### TranscodeSweep

A session is one sync process: it makes its directory, marks it with its
process id, has outputs written, renamed and removed in it, and removes it in the end,
unless it is killed or that fails. Time is `Tick`; the mtime of an entry is its
age. A sweep lists the directories, then looks at each in the three reads of the
code (the directory's mtime, the owner and its liveness, what is inside), and acts on
its verdicts when the plan is carried out, if ever. A running owner may be
probed unknown, and the process id of one that is gone may be another's by now. `fooled` is a
history: it records, for a running session, by what the sweep was deceived.

## 3. Runs

| Run | Expect | What it checks |
|---|---|---|
| `async_queue` | pass | `TypeOK`, `ImplementsChannel`, `WaitersJustified`, `NoStrandedProducer`, `WaitsEnd` |
| `music_pipeline` | pass | `PipelineTypeOK`, `TempsOwned`, `ReportsHonest`, `RunAccounted`, `CountedInterruptSaves`, `QuietAfterReturn`, `BatchEnds` |
| `mass_storage` | pass | `MassStorageTypeOK`, `Bookkeeping`, `CollisionsCaughtEarly`, `SettledIsSynced`, `TwoSyncsSettle`, `SaveLands`, `NoForgottenFile`, `NothingLost`, `UserFilesSafe`, `CoverKept`, `Converges` |
| `mass_storage_user_file` | violation | `UserFilesSafe`, where a file of the user's has the tags of a song that is removed |
| `mass_storage_lost` | violation | `NothingLost`, where one song's old place is another one's new one |
| `quality` | pass | `QualityTypeOK`, `NoWorkTwice`, `RecordedIsReal`, `CeilingHolds`, `KeepsBetterCopy` |
| `quality_twice` | violation | `TwiceChangesNothing` |
| `quality_playable` | violation | `PlaysWhatItGets`, on a player of lossy files only |
| `sync_lock` | pass | `LockTypeOK`, `ExclusiveUnlessMistaken`, `RefusedOnlyByRival`, `NothingLeftBehind` |
| `sync_lock_takeover` | violation | `ExclusiveIfJudgedRightly` |
| `daemon` | pass | `DaemonTypeOK`, `OneCyclePerLane`, `ExitsIdle`, `PluggedDeviceServed`, `ShutdownCompletes` |
| `transcode_sweep` | pass | `SweepTypeOK`, `RunningSpared`, `NextSweepClears` |

Every run that expects a violation checks what a comment or a page of the
documentation says and the code does not do; `findings` in `PROJECT.json` quotes
the line. In short:

- a removal looks its track up by tags among everything on the device, and may
  unlink a file of the user's;
- a relocation frees its old path at once and moves the file at the next save: a
  track added in between is written over it, and then moved along;
- a lossless song encoded to MP3 or Opus is encoded again by every sync;
- a lossy file that needs encoding becomes ALAC at `quality=max`, whether
  the device plays it or not;
- a takeover unlinks whatever is at the lock's path by then: if the file it rightly
  judged stale has been removed and another process has acquired the lock in between
  (the trace has a failed write's clean-up remove it; a release or another takeover
  does as well), it removes the new owner's file, and both hold the lock.

### Bounds

- `async_queue`: one producer with five pushes, two consumers, room for two. The
  queue fills, empties and hands over in all orders; two consumers are more than
  the pipeline has.
- `music_pipeline`: five operations, two transcodes, one copy and two inline
  ones, room for one in each queue (2 and 3 in the code; one makes the stages
  wait for each other most often, and each stage still has a successor and a
  predecessor at work), a checkpoint after every second completed operation, so
  that both outcomes of the test occur. `Remote = TRUE`: local sources only make
  `downloads` empty.
- `mass_storage`: two songs and one file of the user's, three places in two
  album directories, two extensions, two versions of the tags, a player with cover
  files, `--delete`. The first song can be moved to where the user's file is in the
  way; the second shares its directory, so that a cover is abandoned or not. Bounds:
  `MaxChanges = 1` edit (of any number of songs at once) and `MaxAccidents = 1`
  failure, interrupt or kill, at any step; syncs are not bounded. The two violation
  runs need no accident.
- `quality`: six files (two lossless codecs, of which the ALAC one is of a bitrate
  between two caps, two bitrates of one lossy codec, a codec that the device does
  not play, one of unknown bitrate), thirty configurations, all four ways of calling
  sync. No bound on the number of syncs,
  edits and kills: the state space is finite. Tolerance and presets are the code's;
  `DeviceMax = 200` lies between the caps, so that each of the two limits is the
  lower one somewhere. No device profile declares a maximum yet: the violation runs,
  which are about what happens today, have 0 for none. The theorems cover every value.
- `sync_lock`: three processes (one that leaves a stale file and two that contend
  for it), any call failing any number of times, two reads (three in the code; the
  third repeats the second), with symmetry, which is sound as no liveness is
  checked. The theorems cover any number of both.
- `daemon`: two iPods plugged in twice between them (`PlugLimit`) and one mount point
  of a player, mounted once (`MountLimit`): the two in either order and at once,
  one that comes back while its own cycle runs, and each lane syncing or idle when
  the signal comes. A device that comes back while the other one is synced and
  queued takes three plugs; the theorems cover that, and every number of all of these.
- `transcode_sweep`: two sessions, one after or beside the other, grace periods of one and
  two ticks (a minute and an hour; only their order matters to the code), ages
  capped at the longer one, one output per directory. Sweeps are not bounded. With symmetry,
  which is sound as no liveness is checked.

`CHECK_DEADLOCK FALSE` stands in the lock's and the daemon's runs, whose processes
really end. In the other models nothing ever stops: they have a step `Finished` in
which a system that is through rests, or the next sync can always be started.

### Fairness

- `AsyncQueue`: the event loop runs every scheduled continuation (`PushResume`),
  and a consumer that iterates pops again. Pushes and close are not fair.
- `MusicPipeline`: each of the three threads of control goes on. A download, a
  transcode and a transfer end one way or the other, as FFmpeg, the network
  stack and the file system do; the signal need not come.
- `Daemon`: timers fire, a scan ends, a subprocess ends or is killed after five
  minutes, and a scan does not fail for ever. Each of these is a callback that
  the event loop gets to, however often it is busy with another one meanwhile;
  since a callback is not enabled in the midst of the other lane's, that is strong fairness.
  Nobody has to plug, unplug or stop anything.
- `MassStorageSync`: the process runs on, and syncs are started again and again
  (`Run`), by the user or the daemon. Failures, signals and edits are not fair.
- `SyncLock`, `QualitySync` and `TranscodeSweep` have no fairness: they state safety only.

## 4. Proofs

`AsyncQueueProofs` (for any producers, consumers, size and number of pushes,
under `QueueAssumption`: the size is at least 1, as the constructor enforces).
The properties are not inductive by themselves. `IInv` adds that what was
accepted is what was delivered followed by the queue, and no more than MaxSize
is in it (`HistoryOK`); that the list of parked consumers names each one once
and each of them is waiting (`ParkedOnce`), without which a hand-over could
answer a consumer twice; and that whoever is parked or woken has started a push
(`PushStarted`), so that the item it comes back with exists. Each action has one lemma
that shows both that `IInv` is preserved and that the step is a step of the
channel or a stutter; `QueueImplementsChannel` combines them.
`OneProducerNotStranded` needs one more invariant (`Solo`): a lone producer is
parked only on a full queue, as only a pop makes room and that pop wakes it.

`MusicPipelineProofs` (for any plan, queue sizes and save interval, local or remote
sources, under `PipelineAssumption`). Every property of the pipeline's safety runs
follows from one `IInv`, whose parts say:

- where a stage is and what it then holds, when a queue is closed, and that the
  consumer goes past its loop only when nothing can come any more (`Stations`);
- that an operation is in one place (`OnePlace`): without it the end of one
  stage's work could remove a temp file another one needs, and `TempsOwned` is lost;
- that what has failed, was done inline, is on the device or has been reported is
  held by no stage but the consumer, which has still to clean up (`Outcomes`), and that
  the two lists that are yielded at the end are reported in their order and
  once (`InTurn`): the two together keep the engine from hearing of an operation twice;
- that the temp files a later stage reads exist (`Temps`), until the directory is
  removed;
- and, without a signal and a failed save in a run that continues on errors, that the
  stages end one after the other with nothing left between them (`InOrder`) and that no
  operation is dropped (`NoneDropped`). `RunAccounted` counts reports; that their
  number is that of the plan follows since no two are of one operation, and all
  are of it.

`PipelineTempsBounded` adds that neither queue outgrows its size (`RoomKept`) and
counts the places a temp file can be at: `PrefetchSize + TransferSize + 3` sources and
`TransferSize + 2` transcoded files, eight and five with the sizes of the code. Both
are reached by plans longer than the run's, with a device slow enough. No bound on
the disk is written down in the code; this is the one that the queues amount to.

`PipelineNoStandstill` is the part of `BatchEnds` that is a matter of safety: until the
batch has ended the three threads never all wait for each other. `DownloaderWaits`,
`PreparerWaits` and `MainWaits` say when a thread has no step. What makes it hard is that
a preparer that leaves on a signal does not drain the prefetch queue. `RoomLeft` says
why the consumer, which at the end awaits the downloader, need not drain it either: the
preparer saw the signal on an operation it had taken, the downloader has one more to push
at most, and then sees the signal itself.

`PipelineRunAccounted` and `PipelineQuietAfterReturn` have the hypothesis
`ContinueOnError`, as `music-presenter.ts` always sets it, and as the run has it;
with the library's default the stages are stopped behind the engine's back: the
flag is set behind a yield (`pipeline.ts:1032`), and no property covers that line.
`QuietAfterReturn` also excepts a checkpoint save that throws, at which the engine
drops the generator with stages at work. `MassStorageSync` has no stages: there the
rest of the plan ends with the failed checkpoint, and what a stage might still do
during the final save is in neither model.

`SyncLockProofs` (for any set of processes and number of reads, under
`LockAssumption`). `IInv` says who can have left which trace (`NoTrace`), that a
file in somebody's way belongs to a crashed process, to a rival, or to one that
could not remove it, and after a takeover to a rival unless the takeover's own
unlink failed (`InTheWay`), and what holds as long as no takeover made a mistake: a
process with a file of its own finds it at the path (`OwnerOwnsFile`), and a
takeover under way is from one that no longer runs (`TakenFromTheGone`). Exclusion
follows from `OwnerOwnsFile`, since a path holds one file. The other theorems are
conjuncts of `IInv`.

`MassStorageProofs` (for any songs, places, layouts, extensions, user's files and
numbers of edits and failures, under `AdapterAssumption` and `SyncAssumption`).
Each method of the adapter has a lemma that says that it keeps the books in
agreement (`Sound`) and what becomes of podkit's tracks (`Own`) and of others'
files (`Foreign`); `DeduplicateIsFree` shows by a pigeonhole argument that the
search for a free path ends at one. `IInv` adds to `Sound` that every operation
of the plan that is about a track still has it, although relocations and
replacements rename tracks while the plan is carried out, and that no
planned addition is aimed at a foreign file (`PlanSound`): that is what makes
`CollisionsCaughtEarly` inductive, since moves may only take files away from the
foreign ones, never add any. The disk is finite, or there might be no free path. That
every queued tag write is for the path of a track that the adapter still has is part of
`Bookkeeping`, and so of `BooksAgree`.

`SettledSynced` needs none of this, and holds after crashes too: what a sync that was
just opened sees is the device as it is (`OpenIsFresh`), since nothing comes between
reading manifest and tags and comparing them; of all steps only `Settle` ends
as settled (`PhaseFacts`); and a matching with no operation has an agreeing track for
every wanted song (`NothingToDo`). What it would take to break it is a cache of the
device that outlives a sync.

`MassStorageTyped` needs more than the types of `MassStorageTypeOK`: `TInv` types the
adapter's state as well, and the operations of the plan. Each method has a second lemma
(`RelocateIsTyped` ...) and each operation one that says what it does to files, tracks
and queued moves (`RelocateEffect` ...), which the next two theorems use again.
Both are about files that are not where their track is, since a relocation
moves the track at once and the file in the next save. `CoversKept`: covers are
deleted by a look at the track list alone, so `CInv` says that every file has its
track, or is on its way to one (`ToMove`, of the moves that are still to be
flushed), or was left behind by an upgrade whose new file is in the same
directory and is not to be relocated any more (`LeftBehind`; `Ready` puts relocations
before upgrades, which is what this rests on). `NothingForgotten`: `NInv` says the same
of podkit's own files and managedFiles (`Listed`), and that no operation still planned
takes away the track that a queued move is to arrive at (`Reserved`), or the file
would arrive at a path that the manifest does not list. Both survive a flush that
fails half-way and starts over, since entries that are done stay in the list.

The other four need to know what is on the disk and not only where, so each operation
has a third lemma (`RelocateRecorded` ...), which says what becomes of the record of every
track.

`UserFilesKept`: `FInv` says that podkit's files are of songs and the user's of
`UserTags`, that removals are of songs, and that for the length of a run each of
the user's files is on record as such (`Aside`), where no operation and no move
looks for it. Its hypothesis is `Delete => UserTags \notin Songs`: the run
`mass_storage_user_file` is what happens without it.

`NothingGoesLost` has the hypothesis `LayoutsApart` (no place is offered to two songs),
which the run `mass_storage_lost` shows to be needed. With it a file never leaves
the places of its song (`HInv`), and what is renamed over it is a file of the same
song. A removal takes any file with its tags, perhaps the one that was to stay, so
no file can be followed; but as long as removals of a wanted song are to come,
they are fewer than its files (`Outnumbered` in `RInv`, an argument about cardinalities
that needs removals to come first, `RemovalsFirst`).

`SavesLand` needs no hypothesis. That moves are flushed one after the other and do what was
planned takes that none goes to a path from which it or a later one is still to take a
file (`Separate`). `Truthful` then says that every file is what the adapter has on record
for its path, or for the path it is to be moved to, but for what is queued. Where
places are shared, that fails once a new file is put where another one waits to be
moved; but then the new file is moved in its stead, and its tag write, which stays
behind, finds no file: the save fails before the manifest (`Doomed`). So `SInv` is that
the record is truthful or the save is doomed.

`SyncsSettle` follows two whole syncs, with `LayoutsApart` again: with shared places TLC
finds songs that push each other out of them. `PInv` is about the run: each song has one
track of podkit's, at one of its own places (`TracksApart`); what is left of the plan is
what a diff would still make of its songs (`PlanFits`); and each wanted song has an
operation to come or a track with nothing left to do but, in a first sync, to get
either a new form or a new place (`OnItsWay`): a file that is replaced keeps its place,
and one whose metadata differ is updated or moved and keeps its form. With `SInv` this
becomes, at the final manifest, what is on the device (`OnceSynced`, `TwiceSynced`), and
`DInv` keeps that until the next sync. A second sync has to bring the one without
disturbing the other. What it moves has its form. What it replaces is in its
place and has to stay there under its new extension, which needs that path to be
free: the adapter knows of every file on the disk (`OnRecord`), and no other track is at
a place of that song (`UpgradeStaysHome`).

`QualityProofs` (for any files, configurations, device, maximum and tolerance,
under `ReductionAssumption` and `QualityAssumption`). `ReducedGoesDown` and
`ForcedIsCapped` are about the arithmetic of the seam. `RecordedIsReal` is not
enough to show `KeepsBetterCopy`, since it allows a tag without a bitrate; `IInv`
says for each kind of file what its tag records (`Faithful`), for as long as file
and tag were written together. That each pass leaves the track, encodes or copies
in one of the known ways is shown pass by pass (`DecisionDecides`).

`CeilingEnforced` is about one step: whatever the state a plain sync finds, the copy it
leaves is within the cap (`Within`), because it was encoded (`EncodedWithin`), copied
by a rule that looked at the cap (`AsItIsWithin`), renewed, or left by passes that
would have acted otherwise (`LeftWithin`). The tag is all that those passes know of
the copy, hence `Faithful`, which had to learn that a tag of a lossy preset stands for a
file of a lossy codec at the preset's bitrate where the tag tells none. `NothingTwice`
follows a copy through two syncs: the first one leaves it untouched, as a lossy song it
has encoded under both limits (`JustEncoded`), as a file made anew (`JustRenewed`), or as
an untagged file adopted as a copy of its source (`JustAdopted`); each of the three is
shown to settle, and a flag only ever asks for more than no flag (`FlagsAskForMore`).
Both properties were too strong as first stated, and the states in which their proofs
failed are among what was seen while modelling: a copied ALAC file within the cap, and a
forced lift above the device's maximum. Neither is in reach of a run whose lossless files
are all larger than the caps and whose device has no maximum, which is why the run
has both now.

`LaneProofs` (for any devices and number of plugs, under `PollerAssumption` and
`OrchestratorAssumption`). `OneCycleAtATime` and the type invariant together are
inductive (`LaneInv`): that the queue is empty while nothing is syncing is what lets
`EndCycle` start the next cycle with no other in its way, and that a device
is in the queue once is kept by the test before `Append` and by `RemoveFirst`, which
takes one entry out (`Spliced`). Each kind of step has a lemma. `DaemonProofs` (the
same assumptions for both lanes, and `MassStorageAssumption`) shows that every
step of the daemon is a step or a stutter of either lane (`IpodLaneStep`,
`MassStorageLaneStep`), so `LaneInv` holds in both; `LaneProofs` is instantiated for
the second one. For `ExitsIdle`, `ExitInv` says that once the daemon is shutting
down a lane that is no longer awaited is idle, but for a late poll of iPods.

`TranscodeSweepProofs` (for any sessions and grace periods, under
`SweepAssumption`: the first grace period is at least a tick and shorter than the
second, which is what the constants in `transcode-tmp-walker.ts` are, and the mark
for "no directory" is not a session). A look at a
directory spans several steps between which the session goes on, so `RunningSpared`
needs to know what the sweep has read by then. `IInv` says of each session what there
is of its directory at each step (`Contents`); that whatever untouched time
could deceive the sweep has been recorded (`Recorded`); that the directory's
mtime as it was read is not older than the newest thing in it but for an output that
went under the sweep's eyes (`SeenWell`), and that the grace period chosen for a running session
was the first one only if it had no mark then, and else it was misjudged
(`SeenRunning`); that a running session that is condemned is excused already
(`Spared`), since the removal comes whenever the plan is carried out; and for
`NextSweepClears` that a directory to be removed is still listed, being looked at
with no grace period, condemned, or could not be removed (`Clearing`).

Only model-checked: all liveness properties, `BatchEnds` and `Converges` among them, since
liveness under fairness is out of the prover's reach. Every safety property of the
passing runs is a theorem. Those that have a hypothesis have it named above, and the run
that checks the property satisfies it: `ContinueOnError` and a single producer in the
pipeline and the queue, `LayoutsApart` and `UserTags \notin Songs` in `mass_storage`.

## 5. Not modelled, and why

- of the sweep: residue of incomplete writes on the device itself (it is found and
  removed the same way, but has no owner who could be running), a second sweep at the same time;
- per-operation path of the engine, video phase, several collections, second
  signal in the middle of a run phase: planned (below);
- of the mass-storage player: embedded pictures, `removeTrack` (no sync calls it),
  video files, several collections that share one adapter, files of the user's that
  cannot be read and so are not allocated;
- of the quality decisions: transfer modes, artwork and transform passes,
  `skipUpgrades`, and the path for devices without codec resolution;
- error categories, retry counts and delays: a retry happens or does not;
- the iPod database (native libgpod), file formats, firmware, discovery,
  metadata, artwork, FFmpeg: sequential input and output code, which
  appears as operations that end well or badly;
- CLI output, configuration, documentation, demo: nothing that a model could
  check.

### Seen while modelling

The models show these too; no run is kept for them.

- Queue: with several producers a parked push can be forgotten (the pipeline has
  one per queue, for which that is proved impossible).
- Pipeline: the flag that stops the stages after a failed transfer is set behind a
  yield that is never resumed when the engine leaves there; an interrupt before the
  first operation has been counted saves nothing; prefetched downloads may stay in
  the temp directory after a signal.
- Lock: `release()` reads and unlinks in two steps and may unlink a successor's file;
  a read of its own file that fails makes it leave that file behind, and so does a close
  that fails after the file was made, since it throws out of the `finally` past the clean-up.
- Daemon: a stop during mount or dry run does not interrupt the sync that follows; a
  device unplugged and plugged in again between two scans gets no new cycle. One
  that is queued again while it is being synced and then goes is only marked, and
  its second cycle mounts a device that is not there (`sync-orchestrator.ts:439`). A
  poll whose scan is under way at the signal can start a cycle afterwards; in a lane
  that has been idle meanwhile that cycle is cut off when the other lane is done
  (`main.ts:139`, where `sync-orchestrator.ts:136` wants no sync killed in the middle):
  `ExitsIdle` has to make an exception of it. A whole sync has the five minutes of
  `cli-runner.ts:109`, then SIGKILL, which loses the tracks since the last save;
  `docker-daemon.md:58` says "Completed tracks are always preserved in the iPod
  database".
- Sweep: it reads a directory's mtime before it looks inside, so an output that
  is renamed or removed in between is not noticed ("under the eyes" in
  `RunningSpared`). What it found is removed only if the first collection has
  something to do (`sync-collection-phase.ts:194`): not by a dry run, not after a refusal
  and not by a sync that finds everything in place, while the command line
  says "Cleaning" and `doctor.md:166` that every sync cleans up. A sync
  never prunes manifest rows whose file is gone, since `sync.ts:1097` passes no
  `loadManagedFiles`; `planning.md:147` says it does.
- Mass storage: a first sync that is killed before its manifest is written leaves
  files that no manifest lists; they collide with every later sync, which is
  refused. A song whose place is taken gets " (2)" and is relocated by every sync.
  A cover whose write failed, or whose track moves to another directory, is not
  written again, since the tag records it as there. Without cover files on the
  player an untagged file is not encoded anew when the codec changes.
  `executeRemove` leaves its row in the manifest until `podkit doctor` prunes it.
  When the flush of moves fails at a checkpoint, the entries that are done stay
  queued and the final save repeats them: of two songs that moved up one after the
  other (b from the second place to the third, a from the first to the second), the
  repeated move of b takes a's file and overwrites b's. The comment at
  `mass-storage-adapter.ts:1476` calls the re-firing idempotent, which it is for
  moves that do not follow one another. Two syncs without an accident need not be enough
  either, as `TwoSyncsSettle` once said: not while two listed files have the tags of
  one song (an upgrade that was killed after its copy, and a manifest row that outlived
  its file), nor while a file of the user's or a stray has them, since a removal then
  may take the wrong one. And a run that adds a track at a path whose move is still
  queued, where layouts share places, ends with a save that fails at its tag writes, for
  the new file has been moved away by then.
- Quality: `cbr` in a tag survives the change to a lossless preset, and each sync
  then encodes the file again; so does the bitrate of a file replaced by
  one of unknown bitrate. A copy whose source became lossy has no recorded bitrate
  and no lowered cap reaches it. The lift of a forced transcode, and lossless
  sources, ignore the device's maximum. `--force-sync-tags` at `quality=max`
  records the lossy codec for an ALAC file, which the next sync encodes again. With
  `preserve`, a target above the source's bitrate reads as a source that got worse
  in every sync. A lossy file ripped anew at a higher bitrate is never taken. A
  copied ALAC file whose bitrate is within the cap passes for a lossy copy: when its
  source becomes a lossy file, it stays ALAC, since `isDeviceCopyLossless`
  (`upgrades.ts:110`) goes by the extension, which AAC shares, although a
  lossless copy is to be encoded anew for a lossy target (`upgrades.ts:464`). With a
  device maximum, a forced lift above it would be undone by the next plain sync.

## 6. Plan

1. `SyncExecutor`: the per-operation path with skip, abort and save, and
   `Shutdown` (first, duplicate and second signal) around phases and
   collections; abstract specification: a run ends complete, interrupted or
   failed, and saved accordingly. The engine's part of `MusicPipeline` then
   refines the same specification.
2. `removeTrack`, embedded pictures and video files of the mass-storage adapter.
