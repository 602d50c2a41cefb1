--------------------------- MODULE MusicPipeline ---------------------------
(***************************************************************************)
(* One batch of a music sync: the three stages of                          *)
(* packages/podkit-core/src/sync/music/pipeline.ts (downloader, preparer,  *)
(* consumer), the engine that pulls progress out of it                     *)
(* (sync/engine/executor.ts, executeBatch) and the CLI around the engine   *)
(* (music-presenter.ts executeSync, sync-collection-phase.ts), with SIGINT *)
(* arriving at any moment of the protected section.                        *)
(*                                                                         *)
(* The downloader and the preparer are tasks of their own. The consumer is *)
(* a generator: it runs only while the engine asks for the next progress,  *)
(* so consumer, engine and CLI are one thread of control, "main". Every    *)
(* action is a stretch of code between two awaits that really wait (a      *)
(* download, a transcode, a transfer, a save, a full or an empty queue).   *)
(* The two queues are the channels that AsyncQueue implements: one         *)
(* producer and one consumer each.                                         *)
(*                                                                         *)
(* Retries are inside the stage's outcome: a preparation or a transfer     *)
(* succeeds or fails for good.                                             *)
(***************************************************************************)
EXTENDS Naturals, Sequences, FiniteSets

CONSTANTS
  Plan,             \* the kinds of the plan's operations, in order
  Remote,           \* are the sources streams, downloaded to temp files?
  ContinueOnError,  \* TRUE in the CLI, FALSE by default in the library
  PrefetchSize,     \* PREFETCH_BUFFER_SIZE
  TransferSize,     \* PIPELINE_BUFFER_SIZE
  SaveInterval      \* completed operations between two checkpoints

Kinds == {"copy", "transcode", "inline"}

ASSUME PipelineAssumption ==
  /\ Plan \in Seq(Kinds) /\ Plan # <<>>
  /\ Remote \in BOOLEAN
  /\ ContinueOnError \in BOOLEAN
  /\ PrefetchSize \in Nat \ {0}
  /\ TransferSize \in Nat \ {0}
  /\ SaveInterval \in Nat \ {0}

Ops == DOMAIN Plan
NoOp == 0

VARIABLES
  next,            \* the first operation the downloader has not looked at
  dl,              \* the downloader: idle, fetching, pushing, done
  prefetchQueue, prefetchClosed,
  prep, prepOp,    \* the preparer and the operation it holds
  transferQueue, transferClosed,
  main, cur,       \* consumer, engine and CLI, and the operation held
  signal,          \* the abort signal has fired
  abortRequested,  \* the pipeline's own flag
  pipelineFailures, inlineCompletions,
  yielded,         \* how many of each of those two lists have been yielded
  engineAborted,   \* the engine's result.aborted
  reports,         \* what the engine has counted, in order: operation, outcome
  shown,           \* how many completed operations the CLI has counted
  saveFailed,      \* a save has thrown
  downloads,       \* operations whose downloaded source is on disk
  outputs,         \* operations whose transcoded file is on disk
  dirGone,         \* the batch's transcode directory has been removed
  applied,         \* operations whose effect is on the device
  saved            \* operations recorded by the last save that succeeded

dlVars == <<next, dl, prefetchClosed>>
prepVars == <<prep, prepOp, transferClosed>>
engineVars == <<engineAborted, reports, shown>>
mainVars == <<main, cur, yielded, engineVars, saveFailed, dirGone, saved>>
vars == <<dlVars, prefetchQueue, prepVars, transferQueue, mainVars, signal,
          abortRequested, pipelineFailures, inlineCompletions, downloads,
          outputs, applied>>

Init ==
  /\ next = 1 /\ dl = "idle" /\ prefetchQueue = <<>> /\ prefetchClosed = FALSE
  /\ prep = "idle" /\ prepOp = NoOp /\ transferQueue = <<>> /\ transferClosed = FALSE
  /\ main = "pop" /\ cur = NoOp
  /\ signal = FALSE /\ abortRequested = FALSE
  /\ pipelineFailures = <<>> /\ inlineCompletions = <<>>
  /\ yielded = [failures |-> 0, inline |-> 0]
  /\ engineAborted = FALSE
  /\ reports = <<>> /\ shown = 0
  /\ saveFailed = FALSE
  /\ downloads = {} /\ outputs = {} /\ dirGone = FALSE
  /\ applied = {} /\ saved = {}

Aborting == signal \/ abortRequested

(***************************************************************************)
(* What a stage does when an operation fails in it: the failure is listed, *)
(* and unless the run continues on errors the whole pipeline is asked to   *)
(* stop.                                                                   *)
(***************************************************************************)
StageFails(op) ==
  /\ pipelineFailures' = Append(pipelineFailures, op)
  /\ abortRequested' = (abortRequested \/ ~ContinueOnError)

-----------------------------------------------------------------------------
(***************************************************************************)
(* Stage 1, the downloader. next - 1 is the operation it is busy with.     *)
(***************************************************************************)
DownloaderFinish ==
  /\ dl' = "done"
  /\ prefetchClosed' = TRUE

DownloaderStop ==
  /\ dl = "idle"
  /\ Aborting \/ next \notin Ops
  /\ DownloaderFinish
  /\ UNCHANGED <<next, prefetchQueue, prepVars, transferQueue, mainVars, signal,
                 abortRequested, pipelineFailures, inlineCompletions, downloads,
                 outputs, applied>>

DownloaderFetch ==
  /\ dl = "idle" /\ ~Aborting
  /\ next \in Ops /\ Plan[next] # "inline"
  /\ dl' = "fetching"
  /\ next' = next + 1
  /\ UNCHANGED <<prefetchQueue, prefetchClosed, prepVars, transferQueue, mainVars,
                 signal, abortRequested, pipelineFailures, inlineCompletions,
                 downloads, outputs, applied>>

\* getTrackFilePath: a remote source lands in a temp file of its own.
FetchOk ==
  /\ dl = "fetching"
  /\ downloads' = IF Remote THEN downloads \union {next - 1} ELSE downloads
  /\ dl' = "pushing"
  /\ UNCHANGED <<next, prefetchQueue, prefetchClosed, prepVars, transferQueue,
                 mainVars, signal, abortRequested, pipelineFailures,
                 inlineCompletions, outputs, applied>>

\* Faulty FetchFail: a failed download is skipped and not listed.
FetchFailUnlisted ==
  /\ dl = "fetching"
  /\ dl' = "idle"
  /\ UNCHANGED <<next, prefetchQueue, prefetchClosed, prepVars, transferQueue, mainVars,
                 signal, abortRequested, pipelineFailures, inlineCompletions, downloads,
                 outputs, applied>>

FetchFail ==
  /\ dl = "fetching"
  /\ StageFails(next - 1)
  /\ IF ContinueOnError THEN dl' = "idle" /\ UNCHANGED prefetchClosed
                        ELSE DownloaderFinish
  /\ UNCHANGED <<next, prefetchQueue, prepVars, transferQueue, mainVars, signal,
                 inlineCompletions, downloads, outputs, applied>>

DownloaderPush ==
  /\ dl = "pushing"
  /\ Len(prefetchQueue) < PrefetchSize
  /\ prefetchQueue' = Append(prefetchQueue, next - 1)
  /\ dl' = "idle"
  /\ UNCHANGED <<next, prefetchClosed, prepVars, transferQueue, mainVars, signal,
                 abortRequested, pipelineFailures, inlineCompletions, downloads,
                 outputs, applied>>

\* Faulty InlineOk: the stage looks for an abort before downloads only.
InlineUnasked ==
  /\ dl = "idle"
  /\ next \in Ops /\ Plan[next] = "inline"
  /\ applied' = applied \union {next}
  /\ inlineCompletions' = Append(inlineCompletions, next)
  /\ next' = next + 1
  /\ UNCHANGED <<dl, prefetchQueue, prefetchClosed, prepVars, transferQueue, mainVars,
                 signal, abortRequested, pipelineFailures, downloads, outputs>>

(***************************************************************************)
(* Removals, relocations and metadata updates run here, in one stretch.    *)
(***************************************************************************)
InlineOk ==
  /\ dl = "idle" /\ ~Aborting
  /\ next \in Ops /\ Plan[next] = "inline"
  /\ applied' = applied \union {next}
  /\ inlineCompletions' = Append(inlineCompletions, next)
  /\ next' = next + 1
  /\ UNCHANGED <<dl, prefetchQueue, prefetchClosed, prepVars, transferQueue, mainVars,
                 signal, abortRequested, pipelineFailures, downloads, outputs>>

\* Faulty InlineFail: the failed operation is listed as completed, too.
InlineFailCompletes ==
  /\ dl = "idle" /\ ~Aborting
  /\ next \in Ops /\ Plan[next] = "inline"
  /\ StageFails(next)
  /\ inlineCompletions' = Append(inlineCompletions, next)
  /\ next' = next + 1
  /\ UNCHANGED <<dl, prefetchQueue, prefetchClosed, prepVars, transferQueue, mainVars,
                 signal, downloads, outputs, applied>>

InlineFail ==
  /\ dl = "idle" /\ ~Aborting
  /\ next \in Ops /\ Plan[next] = "inline"
  /\ StageFails(next)
  /\ next' = next + 1
  /\ IF ContinueOnError THEN UNCHANGED <<dl, prefetchClosed>> ELSE DownloaderFinish
  /\ UNCHANGED <<prefetchQueue, prepVars, transferQueue, mainVars, signal,
                 inlineCompletions, downloads, outputs, applied>>

Downloader ==
  \/ DownloaderStop \/ DownloaderFetch \/ FetchOk \/ FetchFail
  \/ DownloaderPush \/ InlineOk \/ InlineFail

-----------------------------------------------------------------------------

\* Faulty PreparerTake: the operation dropped on an abort keeps its temp file.
PreparerTakeLeaks ==
  /\ prep = "idle" /\ prefetchQueue # <<>>
  /\ prefetchQueue' = Tail(prefetchQueue)
  /\ IF Aborting
       THEN prep' = "leaving" /\ UNCHANGED prepOp
       ELSE prepOp' = Head(prefetchQueue) /\ prep' = "preparing"
  /\ UNCHANGED <<dlVars, transferClosed, transferQueue, mainVars, signal,
                 abortRequested, pipelineFailures, inlineCompletions, downloads,
                 outputs, applied>>

(***************************************************************************)
(* Stage 2, the preparer.                                                  *)
(***************************************************************************)
PreparerTake ==
  /\ prep = "idle" /\ prefetchQueue # <<>>
  /\ prefetchQueue' = Tail(prefetchQueue)
  /\ IF Aborting
       THEN /\ downloads' = downloads \ {Head(prefetchQueue)}
            /\ prep' = "leaving"
            /\ UNCHANGED prepOp
       ELSE /\ prepOp' = Head(prefetchQueue)
            /\ prep' = "preparing"
            /\ UNCHANGED downloads
  /\ UNCHANGED <<dlVars, transferClosed, transferQueue, mainVars, signal,
                 abortRequested, pipelineFailures, inlineCompletions, outputs, applied>>

PreparerEnd ==
  /\ prep = "idle" /\ prefetchQueue = <<>> /\ prefetchClosed
  /\ prep' = "leaving"
  /\ UNCHANGED <<dlVars, prefetchQueue, prepOp, transferClosed, transferQueue, mainVars,
                 signal, abortRequested, pipelineFailures, inlineCompletions,
                 downloads, outputs, applied>>

\* Faulty PrepareOk: the source is deleted before it has been transferred.
PrepareOkDeletes ==
  /\ prep = "preparing"
  /\ Plan[prepOp] = "transcode" => ~dirGone
  /\ outputs' = IF Plan[prepOp] = "transcode" THEN outputs \union {prepOp} ELSE outputs
  /\ downloads' = downloads \ {prepOp}
  /\ prep' = "pushing"
  /\ UNCHANGED <<dlVars, prefetchQueue, prepOp, transferClosed, transferQueue, mainVars,
                 signal, abortRequested, pipelineFailures, inlineCompletions, applied>>

\* FFmpeg writes into the transcode directory, so it fails once that is gone.
PrepareOk ==
  /\ prep = "preparing"
  /\ Plan[prepOp] = "transcode" => ~dirGone
  /\ outputs' = IF Plan[prepOp] = "transcode" THEN outputs \union {prepOp} ELSE outputs
  /\ prep' = "pushing"
  /\ UNCHANGED <<dlVars, prefetchQueue, prepOp, transferClosed, transferQueue, mainVars,
                 signal, abortRequested, pipelineFailures, inlineCompletions,
                 downloads, applied>>

PrepareFail ==
  /\ prep = "preparing"
  /\ StageFails(prepOp)
  /\ downloads' = downloads \ {prepOp}
  /\ prep' = IF ContinueOnError THEN "idle" ELSE "leaving"
  /\ prepOp' = NoOp
  /\ UNCHANGED <<dlVars, prefetchQueue, transferClosed, transferQueue, mainVars, signal,
                 inlineCompletions, outputs, applied>>

PreparerPush ==
  /\ prep = "pushing"
  /\ Len(transferQueue) < TransferSize
  /\ transferQueue' = Append(transferQueue, prepOp)
  /\ prep' = "idle"
  /\ prepOp' = NoOp
  /\ UNCHANGED <<dlVars, prefetchQueue, transferClosed, mainVars, signal,
                 abortRequested, pipelineFailures, inlineCompletions, downloads,
                 outputs, applied>>

\* Faulty PreparerLeave: without an abort the transfer queue stays open.
PreparerLeavesOpen ==
  /\ prep = "leaving"
  /\ prep' = IF abortRequested THEN "draining" ELSE "done"
  /\ UNCHANGED <<dlVars, prefetchQueue, prepOp, transferClosed, transferQueue, mainVars,
                 signal, abortRequested, pipelineFailures, inlineCompletions, downloads,
                 outputs, applied>>

\* Behind the loop: only abortRequested makes it drain, the signal does not.
PreparerLeave ==
  /\ prep = "leaving"
  /\ IF abortRequested
       THEN prep' = "draining" /\ UNCHANGED transferClosed
       ELSE prep' = "done" /\ transferClosed' = TRUE
  /\ UNCHANGED <<dlVars, prefetchQueue, prepOp, transferQueue, mainVars, signal,
                 abortRequested, pipelineFailures, inlineCompletions, downloads,
                 outputs, applied>>

PreparerDrain ==
  /\ prep = "draining"
  /\ \/ /\ prefetchQueue # <<>>
        /\ prefetchQueue' = Tail(prefetchQueue)
        /\ downloads' = downloads \ {Head(prefetchQueue)}
        /\ UNCHANGED <<prep, transferClosed>>
     \/ /\ prefetchQueue = <<>> /\ prefetchClosed
        /\ prep' = "done" /\ transferClosed' = TRUE
        /\ UNCHANGED <<prefetchQueue, downloads>>
  /\ UNCHANGED <<dlVars, prepOp, transferQueue, mainVars, signal, abortRequested,
                 pipelineFailures, inlineCompletions, outputs, applied>>

Preparer ==
  \/ PreparerTake \/ PreparerEnd \/ PrepareOk \/ PrepareFail
  \/ PreparerPush \/ PreparerLeave \/ PreparerDrain

-----------------------------------------------------------------------------
(***************************************************************************)
(* Stage 3 and what is around it. The generator yields the outcome of an   *)
(* operation; nothing that waits comes between the yield and the engine's  *)
(* look at the signal, so both are one step. An engine that sees the       *)
(* signal, or a failure it may not go past, drops the generator: its       *)
(* finally blocks run ("leave") and nothing behind the yield does.         *)
(***************************************************************************)
Reported(outcome) == {k \in DOMAIN reports : reports[k].outcome = outcome}

ResumeAfter(op) == IF cur = op THEN "cleanup" ELSE main

EngineSees(op, outcome) ==
  IF signal
    THEN /\ engineAborted' = TRUE
         /\ main' = "leave"
         /\ UNCHANGED <<reports, shown>>
    ELSE /\ reports' = Append(reports, [op |-> op, outcome |-> outcome])
         /\ UNCHANGED engineAborted
         /\ IF outcome = "failed"
              THEN /\ main' = IF ContinueOnError THEN ResumeAfter(op) ELSE "leave"
                   /\ UNCHANGED shown
              ELSE IF (Cardinality(Reported("complete")) + 1) % SaveInterval = 0
                     THEN main' = "checkpoint" /\ UNCHANGED shown
                     ELSE main' = ResumeAfter(op) /\ shown' = shown + 1

ConsumerTake ==
  /\ main = "pop" /\ transferQueue # <<>>
  /\ cur' = Head(transferQueue)
  /\ transferQueue' = Tail(transferQueue)
  /\ abortRequested' = (abortRequested \/ signal)
  /\ main' = "transferring"
  /\ UNCHANGED <<dlVars, prefetchQueue, prepVars, yielded, engineVars, saveFailed,
                 dirGone, saved, signal, pipelineFailures, inlineCompletions,
                 downloads, outputs, applied>>

ConsumerEnd ==
  /\ main = "pop" /\ transferQueue = <<>> /\ transferClosed
  /\ main' = "failures"
  /\ UNCHANGED <<dlVars, prefetchQueue, prepVars, transferQueue, cur, yielded,
                 engineVars, saveFailed, dirGone, saved, signal, abortRequested,
                 pipelineFailures, inlineCompletions, downloads, outputs, applied>>

TransferOk ==
  /\ main = "transferring"
  /\ applied' = applied \union {cur}
  /\ EngineSees(cur, "complete")
  /\ UNCHANGED <<dlVars, prefetchQueue, prepVars, transferQueue, cur, yielded,
                 saveFailed, dirGone, saved, signal, abortRequested,
                 pipelineFailures, inlineCompletions, downloads, outputs>>

TransferFail ==
  /\ main = "transferring"
  /\ EngineSees(cur, "failed")
  /\ UNCHANGED <<dlVars, prefetchQueue, prepVars, transferQueue, cur, yielded,
                 saveFailed, dirGone, saved, signal, abortRequested,
                 pipelineFailures, inlineCompletions, downloads, outputs, applied>>

\* cleanupPreparedFile, in the loop's finally.
CleanUp(op) ==
  /\ downloads' = downloads \ {op}
  /\ outputs' = outputs \ {op}

ConsumerNext ==
  /\ main = "cleanup"
  /\ CleanUp(cur)
  /\ main' = "pop" /\ cur' = NoOp
  /\ UNCHANGED <<dlVars, prefetchQueue, prepVars, transferQueue, yielded, engineVars,
                 saveFailed, dirGone, saved, signal, abortRequested,
                 pipelineFailures, inlineCompletions, applied>>

\* Faulty YieldFailure: it yields the position in the list for the operation.
YieldFailurePosition ==
  /\ main = "failures"
  /\ IF yielded.failures < Len(pipelineFailures)
       THEN /\ yielded' = [yielded EXCEPT !.failures = @ + 1]
            /\ EngineSees(yielded.failures, "failed")
       ELSE /\ main' = "inline"
            /\ UNCHANGED <<yielded, engineVars>>
  /\ UNCHANGED <<dlVars, prefetchQueue, prepVars, transferQueue, cur, saveFailed,
                 dirGone, saved, signal, abortRequested, pipelineFailures,
                 inlineCompletions, downloads, outputs, applied>>

(***************************************************************************)
(* Behind the loop the collected failures are yielded, then the completed  *)
(* inline operations. Both lists are read as they stand at that moment.    *)
(***************************************************************************)
YieldFailure ==
  /\ main = "failures"
  /\ IF yielded.failures < Len(pipelineFailures)
       THEN /\ yielded' = [yielded EXCEPT !.failures = @ + 1]
            /\ EngineSees(pipelineFailures[yielded.failures + 1], "failed")
       ELSE /\ main' = "inline"
            /\ UNCHANGED <<yielded, engineVars>>
  /\ UNCHANGED <<dlVars, prefetchQueue, prepVars, transferQueue, cur, saveFailed,
                 dirGone, saved, signal, abortRequested, pipelineFailures,
                 inlineCompletions, downloads, outputs, applied>>

YieldInline ==
  /\ main = "inline"
  /\ IF yielded.inline < Len(inlineCompletions)
       THEN /\ yielded' = [yielded EXCEPT !.inline = @ + 1]
            /\ EngineSees(inlineCompletions[yielded.inline + 1], "complete")
       ELSE /\ main' = "join"
            /\ UNCHANGED <<yielded, engineVars>>
  /\ UNCHANGED <<dlVars, prefetchQueue, prepVars, transferQueue, cur, saveFailed,
                 dirGone, saved, signal, abortRequested, pipelineFailures,
                 inlineCompletions, downloads, outputs, applied>>

(***************************************************************************)
(* The generator's end: both stages awaited, then AbortError if the signal *)
(* fired. (A fatalError has been yielded as a failure before, so the       *)
(* engine has left and never sees it thrown.)                              *)
(***************************************************************************)
Join ==
  /\ main = "join" /\ dl = "done" /\ prep = "done"
  /\ engineAborted' = signal
  /\ main' = "leave"
  /\ UNCHANGED <<dlVars, prefetchQueue, prepVars, transferQueue, cur, yielded, reports,
                 shown, saveFailed, dirGone, saved, signal, abortRequested,
                 pipelineFailures, inlineCompletions, downloads, outputs, applied>>

\* The finally blocks of the loop and of execute: the batch's directory goes.
\* If a checkpoint threw, the engine's catch looks at the signal after that.
Leave ==
  /\ main = "leave"
  /\ downloads' = downloads \ {cur}
  /\ outputs' = {}
  /\ dirGone' = TRUE
  /\ cur' = NoOp
  /\ engineAborted' = (engineAborted \/ (saveFailed /\ signal))
  /\ main' = "finalSave"
  /\ UNCHANGED <<dlVars, prefetchQueue, prepVars, transferQueue, yielded, reports, shown,
                 saveFailed, saved, signal, abortRequested, pipelineFailures,
                 inlineCompletions, applied>>

-----------------------------------------------------------------------------
(***************************************************************************)
(* The saves: the engine's checkpoint, its final save, and the CLI's save  *)
(* after an interrupt.                                                     *)
(***************************************************************************)
SaveTo(nextMain) ==
  \/ saved' = applied /\ main' = nextMain /\ UNCHANGED saveFailed
  \/ saveFailed' = TRUE /\ UNCHANGED saved
     /\ main' = IF main = "checkpoint" THEN "leave" ELSE nextMain

Checkpoint ==
  /\ main = "checkpoint"
  /\ SaveTo(IF cur # NoOp THEN "cleanup" ELSE "inline")
  /\ shown' = IF main' = "leave" THEN shown ELSE shown + 1
  /\ UNCHANGED <<dlVars, prefetchQueue, prepVars, transferQueue, cur, yielded,
                 engineAborted, reports, dirGone, signal, abortRequested,
                 pipelineFailures, inlineCompletions, downloads, outputs, applied>>

FinalSave ==
  /\ main = "finalSave"
  /\ IF ~engineAborted /\ (reports # <<>> \/ saveFailed)
       THEN SaveTo("cli")
       ELSE main' = "cli" /\ UNCHANGED <<saved, saveFailed>>
  /\ UNCHANGED <<dlVars, prefetchQueue, prepVars, transferQueue, cur, yielded,
                 engineVars, dirGone, signal, abortRequested, pipelineFailures,
                 inlineCompletions, downloads, outputs, applied>>

\* Faulty InterruptSave: the CLI leaves the save to the engine.
InterruptSaveMissing ==
  /\ main = "cli"
  /\ main' = "done"
  /\ UNCHANGED <<dlVars, prefetchQueue, prepVars, transferQueue, cur, yielded,
                 engineVars, saveFailed, saved, dirGone, signal, abortRequested,
                 pipelineFailures, inlineCompletions, downloads, outputs, applied>>

InterruptSave ==
  /\ main = "cli"
  /\ IF signal /\ shown > 0
       THEN SaveTo("done")
       ELSE main' = "done" /\ UNCHANGED <<saved, saveFailed>>
  /\ UNCHANGED <<dlVars, prefetchQueue, prepVars, transferQueue, cur, yielded,
                 engineVars, dirGone, signal, abortRequested, pipelineFailures,
                 inlineCompletions, downloads, outputs, applied>>

Main ==
  \/ ConsumerTake \/ ConsumerEnd \/ TransferOk \/ TransferFail \/ ConsumerNext
  \/ YieldFailure \/ YieldInline \/ Join \/ Leave
  \/ Checkpoint \/ FinalSave \/ InterruptSave

\* SIGINT in the section the CLI protects.
Interrupt ==
  /\ main \notin {"cli", "done"} /\ ~signal
  /\ signal' = TRUE
  /\ UNCHANGED <<dlVars, prefetchQueue, prepVars, transferQueue, mainVars,
                 abortRequested, pipelineFailures, inlineCompletions, downloads,
                 outputs, applied>>

\* The CLI is through, and whatever stage still runs is at rest or stuck.
Finished ==
  /\ main = "done"
  /\ UNCHANGED vars

Next == Downloader \/ Preparer \/ Main \/ Interrupt \/ Finished

Spec == Init /\ [][Next]_vars

(***************************************************************************)
(* A download, a transcode, a transfer and a save end, one way or the      *)
(* other, and the event loop runs what is ready. SIGINT need not come.     *)
(***************************************************************************)
FairSpec == Spec /\ WF_vars(Downloader) /\ WF_vars(Preparer) /\ WF_vars(Main)

-----------------------------------------------------------------------------
OpsOrNone == Ops \union {NoOp}

(***************************************************************************)
(* The type invariant: what is queued, held, listed, reported, on disk and *)
(* on the device are operations of the plan, and every task is at one of   *)
(* its places.                                                             *)
(***************************************************************************)
PipelineTypeOK ==
  /\ next \in 1..Len(Plan) + 1
  /\ dl \in {"idle", "fetching", "pushing", "done"}
  /\ prefetchQueue \in Seq(Ops) /\ prefetchClosed \in BOOLEAN
  /\ prep \in {"idle", "preparing", "pushing", "leaving", "draining", "done"}
  /\ prepOp \in OpsOrNone
  /\ transferQueue \in Seq(Ops) /\ transferClosed \in BOOLEAN
  /\ main \in {"pop", "transferring", "cleanup", "failures", "inline", "join",
               "checkpoint", "leave", "finalSave", "cli", "done"}
  /\ cur \in OpsOrNone
  /\ signal \in BOOLEAN /\ abortRequested \in BOOLEAN
  /\ pipelineFailures \in Seq(Ops) /\ inlineCompletions \in Seq(Ops)
  /\ yielded \in [failures : Nat, inline : Nat]
  /\ engineAborted \in BOOLEAN
  /\ reports \in Seq([op : Ops, outcome : {"complete", "failed"}]) /\ shown \in Nat
  /\ saveFailed \in BOOLEAN /\ dirGone \in BOOLEAN
  /\ downloads \subseteq Ops /\ outputs \subseteq Ops
  /\ applied \subseteq Ops /\ saved \subseteq Ops

Entries(s) == {s[k] : k \in DOMAIN s}

\* The operations each place of the pipeline holds.
Fetching == IF dl \in {"fetching", "pushing"} THEN {next - 1} ELSE {}
Preparing == {prepOp} \ {NoOp}
Transferring == {cur} \ {NoOp}

(***************************************************************************)
(* Every temp file there is belongs to exactly one operation that the      *)
(* pipeline still holds, and an operation is held in one place only: no    *)
(* early exit, failure path or drain forgets a file it was the last to     *)
(* know of, and no file has two owners that both delete it. Nor is one     *)
(* deleted that a later stage still reads: what waits in the queues or is  *)
(* being prepared or transferred has its source, and its transcoded file   *)
(* once it has been prepared. (What a forsaken queue holds after an        *)
(* interrupt is another matter: then the queue is the only place that      *)
(* knows of the file.)                                                     *)
(***************************************************************************)
TempsOwned ==
  LET places == <<Fetching, Entries(prefetchQueue), Preparing,
                  Entries(transferQueue), Transferring>>
      ready == Entries(transferQueue)
                 \union (IF main = "transferring" THEN {cur} ELSE {})
      sourced == Entries(prefetchQueue) \union Preparing \union ready
  IN  /\ downloads \union outputs \subseteq UNION {places[k] : k \in DOMAIN places}
      /\ \A j, k \in DOMAIN places : j # k => places[j] \intersect places[k] = {}
      /\ Remote => sourced \subseteq downloads
      /\ ~dirGone => {op \in ready : Plan[op] = "transcode"} \subseteq outputs

(***************************************************************************)
(* The engine hears of an operation at most once, and hears "complete"     *)
(* only of what is on the device.                                          *)
(***************************************************************************)
ReportsHonest ==
  /\ \A j, k \in DOMAIN reports : reports[j].op = reports[k].op => j = k
  /\ \A k \in DOMAIN reports :
       reports[k].outcome = "complete" <=> reports[k].op \in applied

(***************************************************************************)
(* A batch that was not interrupted and whose saves succeeded accounts for *)
(* every operation, leaves no temp file and no stage running, and its last *)
(* save covers everything it did.                                          *)
(***************************************************************************)
RunAccounted ==
  main = "done" /\ ~signal /\ ~saveFailed =>
    /\ {reports[k].op : k \in DOMAIN reports} = Ops
    /\ dl = "done" /\ prep = "done"
    /\ downloads = {} /\ outputs = {}
    /\ saved = applied

(***************************************************************************)
(* After an interrupt that left at least one completed operation counted,  *)
(* the CLI's save covers everything that reached the device, the operation *)
(* finished after the signal included.                                     *)
(***************************************************************************)
CountedInterruptSaves ==
  main = "done" /\ signal /\ ~saveFailed /\ shown > 0 => saved = applied

(***************************************************************************)
(* Once the engine has left the generator no stage still running changes   *)
(* the device, so the saves see it at rest: after the normal end and after *)
(* an interrupt, in a run that continues on errors. A checkpoint that      *)
(* throws makes the engine drop the generator with the stages at work, and *)
(* then this is false.                                                     *)
(***************************************************************************)
AfterBatch == main \in {"finalSave", "cli", "done"}

QuietAfterReturn == [][(AfterBatch /\ ~saveFailed) => (applied' = applied)]_vars

(***************************************************************************)
(* The batch ends, interrupted or not: neither queue's full or empty end,  *)
(* nor a stage that left early, keeps the consumer waiting for ever.       *)
(***************************************************************************)
BatchEnds == <>(main = "done")

=============================================================================
