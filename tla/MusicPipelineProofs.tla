------------------------ MODULE MusicPipelineProofs ------------------------
(***************************************************************************)
(* Theorems about MusicPipeline, for any plan, sizes of the queues and     *)
(* save interval, local and remote sources.                                *)
(***************************************************************************)
EXTENDS MusicPipeline, SequenceTheorems, FiniteSetTheorems, TLAPS

-----------------------------------------------------------------------------
(* The inductive invariant.                                                *)

Distinct(s) == \A j, k \in DOMAIN s : s[j] = s[k] => j = k

\* The operations the consumer has not taken yet, and all that are held.
Upstream ==
  Fetching \union Entries(prefetchQueue) \union Preparing \union Entries(transferQueue)
Held == Upstream \union Transferring

Failed == Entries(pipelineFailures)
Inlined == Entries(inlineCompletions)
ReportedOps == {reports[k].op : k \in DOMAIN reports}

\* A task holds an operation at the places where it works on one, a queue is
\* closed by the end of the task that fills it, and the consumer goes past its
\* loop when nothing can come any more.
Stations ==
  /\ dl \in {"fetching", "pushing"} => next > 1
  /\ prefetchClosed <=> dl = "done"
  /\ prep \in {"preparing", "pushing"} <=> prepOp # NoOp
  /\ transferClosed <=> prep = "done"
  /\ main \in {"transferring", "cleanup"} => cur # NoOp
  /\ main \in {"pop", "failures", "inline", "join", "finalSave", "cli", "done"} => cur = NoOp
  /\ dirGone <=> main \in {"finalSave", "cli", "done"}
  /\ main \in {"failures", "inline", "join"} \/ (main = "checkpoint" /\ cur = NoOp)
       => transferQueue = <<>> /\ prep = "done"

\* No operation is held twice, and none that the downloader has not looked at.
OnePlace ==
  /\ Distinct(prefetchQueue)
  /\ Distinct(transferQueue)
  /\ Entries(prefetchQueue) \intersect Fetching = {}
  /\ Preparing \intersect (Fetching \union Entries(prefetchQueue)) = {}
  /\ Entries(transferQueue)
       \intersect (Fetching \union Entries(prefetchQueue) \union Preparing) = {}
  /\ Transferring \intersect Upstream = {}
  /\ Held \subseteq 1 .. (next - 1)

\* What has failed, was done inline, is on the device or has been reported is
\* over: no stage still holds it, but for the consumer's own.
Outcomes ==
  /\ Distinct(pipelineFailures)
  /\ Distinct(inlineCompletions)
  /\ Failed \union Inlined \union applied \union ReportedOps \subseteq 1 .. (next - 1)
  /\ Failed \intersect (Held \union applied) = {}
  /\ Inlined \intersect Held = {}
  /\ Inlined \subseteq applied
  /\ (applied \union ReportedOps) \intersect Upstream = {}
  /\ main = "transferring" => cur \notin applied \union ReportedOps

\* What is listed is reported in the order of the list.
InTurn ==
  /\ \A k \in DOMAIN pipelineFailures :
       pipelineFailures[k] \in ReportedOps => k <= yielded.failures
  /\ \A k \in DOMAIN inlineCompletions :
       inlineCompletions[k] \in ReportedOps => k <= yielded.inline

\* What waits for the consumer, with its transcoded file.
Prepared == Entries(transferQueue)
              \union (IF main = "transferring" THEN {cur} ELSE {})
              \union (IF prep = "pushing" THEN {prepOp} ELSE {})

Temps ==
  /\ downloads \subseteq Held
  /\ outputs \subseteq Entries(transferQueue) \union Transferring
                         \union (IF prep = "pushing" THEN {prepOp} ELSE {})
  /\ Remote => /\ Entries(prefetchQueue) \union Preparing \union Prepared \subseteq downloads
               /\ dl = "pushing" => next - 1 \in downloads
  /\ dl = "fetching" => next - 1 \notin downloads
  /\ ~dirGone => {op \in Prepared : Plan[op] = "transcode"} \subseteq outputs

\* Without a signal and a failed save, in a run that continues on errors, each
\* stage ends when the one before it has and nothing is left, and the two lists
\* are complete before they are yielded to their ends.
Undisturbed == ContinueOnError /\ ~signal /\ ~saveFailed

Over == main \in {"leave", "finalSave", "cli", "done"}
FailuresYielded ==
  Over \/ main \in {"inline", "join"} \/ (main = "checkpoint" /\ cur = NoOp)

InOrder ==
  /\ ~abortRequested
  /\ dl = "done" => next = Len(Plan) + 1
  /\ prep \in {"leaving", "draining", "done"} => prefetchQueue = <<>> /\ dl = "done"
  /\ yielded.failures <= Len(pipelineFailures)
  /\ yielded.inline <= Len(inlineCompletions)
  /\ FailuresYielded => yielded.failures = Len(pipelineFailures)
  /\ Over \/ main = "join" => yielded.inline = Len(inlineCompletions)
  /\ Over => dl = "done" /\ prep = "done" /\ transferQueue = <<>> /\ cur = NoOp

\* Then nothing is dropped: an operation that is held no more is listed or
\* reported, and what has been yielded is reported.
NoneDropped ==
  /\ 1 .. (next - 1) \subseteq Held \union Failed \union Inlined \union ReportedOps
  /\ \A k \in DOMAIN pipelineFailures :
       k <= yielded.failures => pipelineFailures[k] \in ReportedOps
  /\ \A k \in DOMAIN inlineCompletions :
       k <= yielded.inline => inlineCompletions[k] \in ReportedOps
  /\ main = "cleanup" \/ (main = "checkpoint" /\ cur # NoOp) => cur \in ReportedOps

Accounted == Undisturbed => InOrder /\ NoneDropped

\* What the saves cover, once the engine has left.
Saves ==
  /\ engineAborted => signal
  /\ main \in {"cli", "done"} /\ Undisturbed => saved = applied
  /\ CountedInterruptSaves

IInv == PipelineTypeOK /\ Stations /\ OnePlace /\ Outcomes /\ InTurn /\ ReportsHonest
          /\ Temps /\ Accounted /\ Saves

-----------------------------------------------------------------------------
(* Queues and lists.                                                       *)

LEMMA Added ==
  ASSUME NEW S, NEW s \in Seq(S), NEW e \in S
  PROVE  /\ Append(s, e) \in Seq(S)
         /\ Len(Append(s, e)) = Len(s) + 1
         /\ Entries(Append(s, e)) = Entries(s) \union {e}
         /\ Distinct(s) /\ e \notin Entries(s) => Distinct(Append(s, e))
<1>1. Append(s, e) \in Seq(S) /\ Len(Append(s, e)) = Len(s) + 1
  BY AppendProperties
<1>2. \A k \in 1 .. Len(s) + 1 : Append(s, e)[k] = IF k = Len(s) + 1 THEN e ELSE s[k]
  BY AppendProperties
<1>3. DOMAIN s = 1 .. Len(s) /\ DOMAIN Append(s, e) = 1 .. Len(s) + 1 /\ Len(s) \in Nat
  BY <1>1, LenProperties
<1>4. Entries(Append(s, e)) = Entries(s) \union {e}
  BY <1>2, <1>3 DEF Entries
<1>5. ASSUME Distinct(s), e \notin Entries(s) PROVE Distinct(Append(s, e))
  BY <1>2, <1>3, <1>5 DEF Distinct, Entries
<1>. QED BY <1>1, <1>4, <1>5

LEMMA Taken ==
  ASSUME NEW S, NEW s \in Seq(S), s # <<>>
  PROVE  /\ Head(s) \in S
         /\ Tail(s) \in Seq(S)
         /\ Entries(s) = Entries(Tail(s)) \union {Head(s)}
         /\ Distinct(s) => Distinct(Tail(s)) /\ Head(s) \notin Entries(Tail(s))
<1>1. /\ Head(s) \in S
      /\ Tail(s) \in Seq(S)
      /\ Len(Tail(s)) = Len(s) - 1
      /\ \A k \in 1 .. Len(Tail(s)) : Tail(s)[k] = s[k + 1]
  BY HeadTailProperties
<1>2. Len(s) \in Nat \ {0} /\ DOMAIN s = 1 .. Len(s) /\ DOMAIN Tail(s) = 1 .. Len(s) - 1
  BY <1>1, LenProperties, EmptySeq
<1>3. Head(s) = s[1]
  OBVIOUS
<1>4. Entries(s) = Entries(Tail(s)) \union {Head(s)}
  <2>1. Entries(s) \subseteq Entries(Tail(s)) \union {Head(s)}
    <3>1. ASSUME NEW k \in 1 .. Len(s), k # 1 PROVE s[k] \in Entries(Tail(s))
      <4>1. k - 1 \in DOMAIN Tail(s) /\ Tail(s)[k - 1] = s[k]
        BY <1>1, <1>2, <3>1
      <4>. QED BY <4>1 DEF Entries
    <3>. QED BY <1>2, <1>3, <3>1 DEF Entries
  <2>2. Entries(Tail(s)) \union {Head(s)} \subseteq Entries(s)
    BY <1>1, <1>2, <1>3 DEF Entries
  <2>. QED BY <2>1, <2>2
<1>5. ASSUME Distinct(s) PROVE Distinct(Tail(s)) /\ Head(s) \notin Entries(Tail(s))
  BY <1>1, <1>2, <1>3, <1>5 DEF Distinct, Entries
<1>. QED BY <1>1, <1>4, <1>5

\* An empty list has no entries.
LEMMA NoEntries == Entries(<<>>) = {} /\ Distinct(<<>>)
BY DEF Entries, Distinct

-----------------------------------------------------------------------------
(* What the engine makes of a report.                                      *)

Outcome == {"complete", "failed"}

LEMMA Sees ==
  ASSUME PipelineTypeOK, NEW op \in Ops, NEW outcome \in Outcome, EngineSees(op, outcome)
  PROVE  \/ /\ signal
            /\ engineAborted' = TRUE
            /\ main' = "leave"
            /\ UNCHANGED <<reports, shown>>
         \/ /\ ~signal
            /\ UNCHANGED engineAborted
            /\ reports' = Append(reports, [op |-> op, outcome |-> outcome])
            /\ ReportedOps' = ReportedOps \union {op}
            /\ shown' \in Nat
            /\ main' \in {"checkpoint", "leave", IF cur = op THEN "cleanup" ELSE main}
            /\ main' = "checkpoint" /\ main # "checkpoint" => outcome = "complete"
            /\ main' = "leave" /\ main # "leave" => ~ContinueOnError /\ outcome = "failed"
<1>1. CASE signal
  BY <1>1 DEF EngineSees
<1>2. CASE ~signal
  <2> DEFINE r == [op |-> op, outcome |-> outcome]
             R == [op : Ops, outcome : {"complete", "failed"}]
  <2>1. reports \in Seq(R) /\ r \in R
    BY DEF PipelineTypeOK, Outcome
  <2>2. reports' = Append(reports, r) /\ UNCHANGED engineAborted
    BY <1>2 DEF EngineSees
  <2>3. /\ DOMAIN reports = 1 .. Len(reports)
        /\ DOMAIN Append(reports, r) = 1 .. Len(reports) + 1
        /\ Len(reports) \in Nat
        /\ \A k \in 1 .. Len(reports) + 1 :
             Append(reports, r)[k] = IF k = Len(reports) + 1 THEN r ELSE reports[k]
    <3> HIDE DEF r, R
    <3>. QED BY <2>1, AppendProperties, LenProperties
  <2>4. r.op = op
    OBVIOUS
  <2>5. ReportedOps' = ReportedOps \union {op}
    <3> HIDE DEF r
    <3>. QED BY <2>2, <2>3, <2>4 DEF ReportedOps
  <2>6. shown' \in Nat
    BY <1>2 DEF EngineSees, PipelineTypeOK
  <2>7. /\ main' \in {"checkpoint", "leave", IF cur = op THEN "cleanup" ELSE main}
        /\ main' = "checkpoint" /\ main # "checkpoint" => outcome = "complete"
        /\ main' = "leave" /\ main # "leave" => ~ContinueOnError /\ outcome = "failed"
    BY <1>2 DEF EngineSees, ResumeAfter, Outcome
  <2>. QED BY <1>2, <2>2, <2>5, <2>6, <2>7
<1>. QED BY <1>1, <1>2

-----------------------------------------------------------------------------
(* Types.                                                                  *)

LEMMA TypeInit == Init => PipelineTypeOK
<1>1. Len(Plan) \in Nat
  BY PipelineAssumption, LenProperties
<1>2. /\ <<>> \in Seq(Ops)
      /\ <<>> \in Seq([op : Ops, outcome : {"complete", "failed"}])
  BY EmptySeq
<1>. SUFFICES ASSUME Init PROVE PipelineTypeOK
  OBVIOUS
<1>3. /\ next \in 1..Len(Plan) + 1
      /\ yielded \in [failures : Nat, inline : Nat]
      /\ shown \in Nat
  BY <1>1 DEF Init
<1>4. reports \in Seq([op : Ops, outcome : {"complete", "failed"}])
  BY <1>2 DEF Init
<1>. QED BY <1>2, <1>3, <1>4 DEF Init, PipelineTypeOK, OpsOrNone

LEMMA DownloaderTypes ==
  PipelineTypeOK /\ Stations /\ Downloader => PipelineTypeOK'
<1>. SUFFICES ASSUME PipelineTypeOK, Stations, Downloader PROVE PipelineTypeOK'
  OBVIOUS
<1>. USE DEF dlVars, prepVars, mainVars, engineVars, PipelineTypeOK, OpsOrNone
<1>0. Len(Plan) \in Nat /\ Ops = 1 .. Len(Plan)
  BY PipelineAssumption, LenProperties DEF Ops
<1>1. CASE DownloaderStop
  BY <1>1 DEF DownloaderStop, DownloaderFinish
<1>2. CASE DownloaderFetch
  BY <1>0, <1>2 DEF DownloaderFetch
<1>3. CASE FetchOk
  BY <1>0, <1>3 DEF FetchOk, Stations
<1>4. CASE FetchFail
  <2>1. Append(pipelineFailures, next - 1) \in Seq(Ops)
    BY <1>0, <1>4, Added DEF FetchFail, Stations
  <2>2. dl' \in {"idle", "done"} /\ prefetchClosed' \in BOOLEAN
    BY <1>4 DEF FetchFail, DownloaderFinish
  <2>. QED BY <1>4, <2>1, <2>2 DEF FetchFail, StageFails
<1>5. CASE DownloaderPush
  <2>1. Append(prefetchQueue, next - 1) \in Seq(Ops)
    BY <1>0, <1>5, Added DEF DownloaderPush, Stations
  <2>. QED BY <1>5, <2>1 DEF DownloaderPush
<1>6. CASE InlineOk
  <2>1. Append(inlineCompletions, next) \in Seq(Ops)
    BY <1>6, Added DEF InlineOk
  <2>. QED BY <1>0, <1>6, <2>1 DEF InlineOk
<1>7. CASE InlineFail
  <2>1. Append(pipelineFailures, next) \in Seq(Ops)
    BY <1>7, Added DEF InlineFail
  <2>2. dl' \in {"idle", "done"} /\ prefetchClosed' \in BOOLEAN
    BY <1>7 DEF InlineFail, DownloaderFinish
  <2>. QED BY <1>0, <1>7, <2>1, <2>2 DEF InlineFail, StageFails
<1>. QED BY <1>1, <1>2, <1>3, <1>4, <1>5, <1>6, <1>7 DEF Downloader

LEMMA PreparerTypes ==
  PipelineTypeOK /\ Stations /\ Preparer => PipelineTypeOK'
<1>. SUFFICES ASSUME PipelineTypeOK, Stations, Preparer PROVE PipelineTypeOK'
  OBVIOUS
<1>. USE DEF dlVars, prepVars, mainVars, engineVars, PipelineTypeOK, OpsOrNone
<1>0. prepOp # NoOp => prepOp \in Ops
  OBVIOUS
<1>1. CASE PreparerTake
  <2>1. Head(prefetchQueue) \in Ops /\ Tail(prefetchQueue) \in Seq(Ops)
    BY <1>1, Taken DEF PreparerTake
  <2>. QED BY <1>1, <2>1 DEF PreparerTake
<1>2. CASE PreparerEnd
  BY <1>2 DEF PreparerEnd
<1>3. CASE PrepareOk
  BY <1>0, <1>3 DEF PrepareOk, Stations
<1>4. CASE PrepareFail
  <2>1. Append(pipelineFailures, prepOp) \in Seq(Ops)
    BY <1>0, <1>4, Added DEF PrepareFail, Stations
  <2>. QED BY <1>4, <2>1 DEF PrepareFail, StageFails
<1>5. CASE PreparerPush
  <2>1. Append(transferQueue, prepOp) \in Seq(Ops)
    BY <1>0, <1>5, Added DEF PreparerPush, Stations
  <2>. QED BY <1>5, <2>1 DEF PreparerPush
<1>6. CASE PreparerLeave
  <2>1. prep' \in {"draining", "done"} /\ transferClosed' \in BOOLEAN
    BY <1>6 DEF PreparerLeave
  <2>. QED BY <1>6, <2>1 DEF PreparerLeave
<1>7. CASE PreparerDrain
  <2>1. prefetchQueue # <<>> => Tail(prefetchQueue) \in Seq(Ops)
    BY Taken
  <2>2. /\ prep' \in {"draining", "done"} /\ transferClosed' \in BOOLEAN
        /\ prefetchQueue' \in Seq(Ops) /\ downloads' \subseteq Ops
    BY <1>7, <2>1 DEF PreparerDrain
  <2>. QED BY <1>7, <2>2 DEF PreparerDrain
<1>. QED BY <1>1, <1>2, <1>3, <1>4, <1>5, <1>6, <1>7 DEF Preparer

\* What the engine sees keeps the types.
LEMMA SeesTypes ==
  ASSUME PipelineTypeOK, NEW op \in Ops, NEW outcome \in Outcome, EngineSees(op, outcome)
  PROVE  /\ main' \in {"checkpoint", "leave", "cleanup", main}
         /\ engineAborted' \in BOOLEAN
         /\ reports' \in Seq([op : Ops, outcome : {"complete", "failed"}])
         /\ shown' \in Nat
<1>1. Append(reports, [op |-> op, outcome |-> outcome])
        \in Seq([op : Ops, outcome : {"complete", "failed"}])
  BY AppendProperties DEF PipelineTypeOK, Outcome
<1>. QED BY <1>1, Sees DEF PipelineTypeOK

LEMMA MainTypes ==
  PipelineTypeOK /\ Stations /\ Main => PipelineTypeOK'
<1>. SUFFICES ASSUME PipelineTypeOK, Stations, Main PROVE PipelineTypeOK'
  OBVIOUS
<1>. USE DEF dlVars, prepVars, mainVars, engineVars, PipelineTypeOK, OpsOrNone
<1>0. cur # NoOp => cur \in Ops
  OBVIOUS
<1>1. CASE ConsumerTake
  <2>1. Head(transferQueue) \in Ops /\ Tail(transferQueue) \in Seq(Ops)
    BY <1>1, Taken DEF ConsumerTake
  <2>. QED BY <1>1, <2>1 DEF ConsumerTake
<1>2. CASE ConsumerEnd
  BY <1>2 DEF ConsumerEnd
<1>3. CASE TransferOk
  <2>1. cur \in Ops /\ EngineSees(cur, "complete")
    BY <1>0, <1>3 DEF TransferOk, Stations
  <2>2. /\ main' \in {"checkpoint", "leave", "cleanup", main}
        /\ engineAborted' \in BOOLEAN
        /\ reports' \in Seq([op : Ops, outcome : {"complete", "failed"}])
        /\ shown' \in Nat
    BY <2>1, SeesTypes DEF Outcome
  <2>. QED BY <1>3, <2>1, <2>2 DEF TransferOk
<1>4. CASE TransferFail
  <2>1. cur \in Ops /\ EngineSees(cur, "failed")
    BY <1>0, <1>4 DEF TransferFail, Stations
  <2>2. /\ main' \in {"checkpoint", "leave", "cleanup", main}
        /\ engineAborted' \in BOOLEAN
        /\ reports' \in Seq([op : Ops, outcome : {"complete", "failed"}])
        /\ shown' \in Nat
    BY <2>1, SeesTypes DEF Outcome
  <2>. QED BY <1>4, <2>1, <2>2 DEF TransferFail
<1>5. CASE ConsumerNext
  BY <1>5 DEF ConsumerNext, CleanUp
<1>6. CASE YieldFailure
  <2>1. CASE yielded.failures < Len(pipelineFailures)
    <3>1. pipelineFailures[yielded.failures + 1] \in Ops
      BY <2>1, LenProperties
    <3>2. EngineSees(pipelineFailures[yielded.failures + 1], "failed")
      BY <1>6, <2>1 DEF YieldFailure
    <3>3. /\ main' \in {"checkpoint", "leave", "cleanup", main}
          /\ engineAborted' \in BOOLEAN
          /\ reports' \in Seq([op : Ops, outcome : {"complete", "failed"}])
          /\ shown' \in Nat
      BY <3>1, <3>2, SeesTypes DEF Outcome
    <3>. QED BY <1>6, <2>1, <3>3 DEF YieldFailure
  <2>2. CASE ~(yielded.failures < Len(pipelineFailures))
    BY <1>6, <2>2 DEF YieldFailure
  <2>. QED BY <2>1, <2>2
<1>7. CASE YieldInline
  <2>1. CASE yielded.inline < Len(inlineCompletions)
    <3>1. inlineCompletions[yielded.inline + 1] \in Ops
      BY <2>1, LenProperties
    <3>2. EngineSees(inlineCompletions[yielded.inline + 1], "complete")
      BY <1>7, <2>1 DEF YieldInline
    <3>3. /\ main' \in {"checkpoint", "leave", "cleanup", main}
          /\ engineAborted' \in BOOLEAN
          /\ reports' \in Seq([op : Ops, outcome : {"complete", "failed"}])
          /\ shown' \in Nat
      BY <3>1, <3>2, SeesTypes DEF Outcome
    <3>. QED BY <1>7, <2>1, <3>3 DEF YieldInline
  <2>2. CASE ~(yielded.inline < Len(inlineCompletions))
    BY <1>7, <2>2 DEF YieldInline
  <2>. QED BY <2>1, <2>2
<1>8. CASE Join
  BY <1>8 DEF Join
<1>9. CASE Leave
  BY <1>9 DEF Leave
<1>10. CASE Checkpoint
  <2>1. SaveTo("cleanup") \/ SaveTo("inline")
    BY <1>10 DEF Checkpoint
  <2>2. /\ main' \in {"leave", "cleanup", "inline"}
        /\ saved' \subseteq Ops /\ saveFailed' \in BOOLEAN
    BY <2>1 DEF SaveTo
  <2>3. shown' \in Nat
    BY <1>10 DEF Checkpoint
  <2>. QED BY <1>10, <2>2, <2>3 DEF Checkpoint
<1>11. CASE FinalSave
  <2>1. main' = "cli" /\ saved' \subseteq Ops /\ saveFailed' \in BOOLEAN
    BY <1>11 DEF FinalSave, SaveTo
  <2>. QED BY <1>11, <2>1 DEF FinalSave
<1>12. CASE InterruptSave
  <2>1. main' = "done" /\ saved' \subseteq Ops /\ saveFailed' \in BOOLEAN
    BY <1>12 DEF InterruptSave, SaveTo
  <2>. QED BY <1>12, <2>1 DEF InterruptSave
<1>. QED BY <1>1, <1>2, <1>3, <1>4, <1>5, <1>6, <1>7, <1>8, <1>9, <1>10, <1>11, <1>12 DEF Main

-----------------------------------------------------------------------------
(* Where the tasks are.                                                    *)

LEMMA DownloaderStations ==
  PipelineTypeOK /\ Stations /\ Downloader => Stations'
<1>. SUFFICES ASSUME PipelineTypeOK, Stations, Downloader PROVE Stations'
  OBVIOUS
<1>. USE DEF dlVars, prepVars, mainVars, engineVars, Stations
<1>0. Ops = 1 .. Len(Plan) /\ Len(Plan) \in Nat /\ next \in Nat
  BY PipelineAssumption, LenProperties DEF Ops, PipelineTypeOK
<1>1. CASE DownloaderStop
  BY <1>1 DEF DownloaderStop, DownloaderFinish
<1>2. CASE DownloaderFetch
  BY <1>0, <1>2 DEF DownloaderFetch
<1>3. CASE FetchOk
  BY <1>3 DEF FetchOk
<1>4. CASE FetchFail
  <2>1. dl' \in {"idle", "done"} /\ (prefetchClosed' <=> dl' = "done")
    BY <1>4 DEF FetchFail, DownloaderFinish
  <2>. QED BY <1>4, <2>1 DEF FetchFail
<1>5. CASE DownloaderPush
  BY <1>5 DEF DownloaderPush
<1>6. CASE InlineOk
  BY <1>0, <1>6 DEF InlineOk
<1>7. CASE InlineFail
  <2>1. dl' \in {"idle", "done"} /\ (prefetchClosed' <=> dl' = "done")
    BY <1>7 DEF InlineFail, DownloaderFinish
  <2>. QED BY <1>7, <2>1 DEF InlineFail
<1>. QED BY <1>1, <1>2, <1>3, <1>4, <1>5, <1>6, <1>7 DEF Downloader

LEMMA PreparerStations ==
  PipelineTypeOK /\ Stations /\ Preparer => Stations'
<1>. SUFFICES ASSUME PipelineTypeOK, Stations, Preparer PROVE Stations'
  OBVIOUS
<1>. USE DEF dlVars, prepVars, mainVars, engineVars, Stations
<1>1. CASE PreparerTake
  <2>1. Head(prefetchQueue) \in Ops
    BY <1>1, Taken DEF PreparerTake, PipelineTypeOK
  <2>2. Head(prefetchQueue) # NoOp
    BY <2>1, PipelineAssumption, LenProperties DEF Ops, NoOp
  <2>. QED BY <1>1, <2>2 DEF PreparerTake
<1>2. CASE PreparerEnd
  BY <1>2 DEF PreparerEnd
<1>3. CASE PrepareOk
  BY <1>3 DEF PrepareOk
<1>4. CASE PrepareFail
  BY <1>4 DEF PrepareFail
<1>5. CASE PreparerPush
  BY <1>5 DEF PreparerPush
<1>6. CASE PreparerLeave
  <2>1. prep' \in {"draining", "done"} /\ (transferClosed' <=> prep' = "done")
    BY <1>6 DEF PreparerLeave
  <2>. QED BY <1>6, <2>1 DEF PreparerLeave
<1>7. CASE PreparerDrain
  <2>1. prep' \in {"draining", "done"} /\ (transferClosed' <=> prep' = "done")
    BY <1>7 DEF PreparerDrain
  <2>. QED BY <1>7, <2>1 DEF PreparerDrain
<1>. QED BY <1>1, <1>2, <1>3, <1>4, <1>5, <1>6, <1>7 DEF Preparer

LEMMA MainStations ==
  PipelineTypeOK /\ Stations /\ Main => Stations'
<1>. SUFFICES ASSUME PipelineTypeOK, Stations, Main PROVE Stations'
  OBVIOUS
<1>. USE DEF dlVars, prepVars, mainVars, engineVars, Stations
<1>0. \A op \in Ops : op # NoOp
  BY PipelineAssumption, LenProperties DEF Ops, NoOp
<1>1. CASE ConsumerTake
  <2>1. Head(transferQueue) \in Ops
    BY <1>1, Taken DEF ConsumerTake, PipelineTypeOK
  <2>. QED BY <1>0, <1>1, <2>1 DEF ConsumerTake
<1>2. CASE ConsumerEnd
  BY <1>2 DEF ConsumerEnd
<1>3. CASE TransferOk
  <2>1. cur \in Ops
    BY <1>3 DEF TransferOk, PipelineTypeOK, OpsOrNone
  <2>2. main' \in {"leave", "checkpoint", "cleanup"}
    BY <1>3, <2>1, Sees DEF TransferOk, Outcome
  <2>. QED BY <1>0, <1>3, <2>1, <2>2 DEF TransferOk
<1>4. CASE TransferFail
  <2>1. cur \in Ops
    BY <1>4 DEF TransferFail, PipelineTypeOK, OpsOrNone
  <2>2. main' \in {"leave", "checkpoint", "cleanup"}
    BY <1>4, <2>1, Sees DEF TransferFail, Outcome
  <2>. QED BY <1>0, <1>4, <2>1, <2>2 DEF TransferFail
<1>5. CASE ConsumerNext
  BY <1>5 DEF ConsumerNext
<1>6. CASE YieldFailure
  <2>1. main' \in {"leave", "checkpoint", "failures", "inline"}
    <3>1. CASE yielded.failures < Len(pipelineFailures)
      <4>1. pipelineFailures[yielded.failures + 1] \in Ops
        BY <3>1, LenProperties DEF PipelineTypeOK
      <4>. QED BY <1>0, <1>6, <3>1, <4>1, Sees DEF YieldFailure, Outcome
    <3>2. CASE ~(yielded.failures < Len(pipelineFailures))
      BY <1>6, <3>2 DEF YieldFailure
    <3>. QED BY <3>1, <3>2
  <2>. QED BY <1>6, <2>1 DEF YieldFailure
<1>7. CASE YieldInline
  <2>1. main' \in {"leave", "checkpoint", "inline", "join"}
    <3>1. CASE yielded.inline < Len(inlineCompletions)
      <4>1. inlineCompletions[yielded.inline + 1] \in Ops
        BY <3>1, LenProperties DEF PipelineTypeOK
      <4>. QED BY <1>0, <1>7, <3>1, <4>1, Sees DEF YieldInline, Outcome
    <3>2. CASE ~(yielded.inline < Len(inlineCompletions))
      BY <1>7, <3>2 DEF YieldInline
    <3>. QED BY <3>1, <3>2
  <2>. QED BY <1>7, <2>1 DEF YieldInline
<1>8. CASE Join
  BY <1>8 DEF Join
<1>9. CASE Leave
  BY <1>9 DEF Leave
<1>10. CASE Checkpoint
  <2>1. main' \in {"leave", IF cur # NoOp THEN "cleanup" ELSE "inline"}
    BY <1>10 DEF Checkpoint, SaveTo
  <2>. QED BY <1>10, <2>1 DEF Checkpoint
<1>11. CASE FinalSave
  <2>1. main' = "cli"
    BY <1>11 DEF FinalSave, SaveTo
  <2>. QED BY <1>11, <2>1 DEF FinalSave
<1>12. CASE InterruptSave
  <2>1. main' = "done"
    BY <1>12 DEF InterruptSave, SaveTo
  <2>. QED BY <1>12, <2>1 DEF InterruptSave
<1>. QED BY <1>1, <1>2, <1>3, <1>4, <1>5, <1>6, <1>7, <1>8, <1>9, <1>10, <1>11, <1>12 DEF Main

-----------------------------------------------------------------------------
(* Where the operations are.                                               *)

LEMMA DownloaderPlaces ==
  PipelineTypeOK /\ Stations /\ OnePlace /\ Downloader => OnePlace'
<1>. SUFFICES ASSUME PipelineTypeOK, Stations, OnePlace, Downloader PROVE OnePlace'
  OBVIOUS
<1>. USE DEF dlVars, prepVars, mainVars, engineVars, OnePlace, Held, Upstream, Fetching,
             Preparing, Transferring
<1>0. /\ Ops = 1 .. Len(Plan) /\ Len(Plan) \in Nat /\ next \in 1 .. Len(Plan) + 1
      /\ dl \in {"fetching", "pushing"} => next > 1
  BY PipelineAssumption, LenProperties DEF Ops, PipelineTypeOK, Stations
<1>1. CASE DownloaderStop \/ FetchOk
  BY <1>1 DEF DownloaderStop, DownloaderFinish, FetchOk
<1>2. CASE DownloaderFetch
  BY <1>0, <1>2 DEF DownloaderFetch
<1>3. CASE FetchFail
  <2>1. dl' \in {"idle", "done"}
    BY <1>3 DEF FetchFail, DownloaderFinish
  <2>. QED BY <1>3, <2>1 DEF FetchFail
<1>4. CASE DownloaderPush
  <2>1. /\ Entries(prefetchQueue') = Entries(prefetchQueue) \union {next - 1}
        /\ Distinct(prefetchQueue')
    BY <1>0, <1>4, Added DEF DownloaderPush, PipelineTypeOK
  <2>. QED BY <1>4, <2>1 DEF DownloaderPush
<1>5. CASE InlineOk
  BY <1>0, <1>5 DEF InlineOk
<1>6. CASE InlineFail
  <2>1. dl' \in {"idle", "done"}
    BY <1>6 DEF InlineFail, DownloaderFinish
  <2>. QED BY <1>0, <1>6, <2>1 DEF InlineFail
<1>. QED BY <1>1, <1>2, <1>3, <1>4, <1>5, <1>6 DEF Downloader

LEMMA PreparerPlaces ==
  PipelineTypeOK /\ Stations /\ OnePlace /\ Preparer => OnePlace'
<1>. SUFFICES ASSUME PipelineTypeOK, Stations, OnePlace, Preparer PROVE OnePlace'
  OBVIOUS
<1>. USE DEF dlVars, prepVars, mainVars, engineVars, OnePlace, Held, Upstream, Fetching,
             Preparing, Transferring
<1>0. prefetchQueue # <<>> =>
        /\ Entries(prefetchQueue) = Entries(Tail(prefetchQueue)) \union {Head(prefetchQueue)}
        /\ Distinct(Tail(prefetchQueue))
        /\ Head(prefetchQueue) \notin Entries(Tail(prefetchQueue))
  BY Taken DEF PipelineTypeOK
<1>1. CASE PreparerTake
  <2>1. Preparing = {}
    BY <1>1 DEF PreparerTake, Stations
  <2>2. Preparing' \subseteq {Head(prefetchQueue)}
    BY <1>1, <2>1 DEF PreparerTake
  <2>3. UNCHANGED <<next, dl, transferQueue, cur>> /\ prefetchQueue' = Tail(prefetchQueue)
    BY <1>1 DEF PreparerTake
  <2>4. prefetchQueue # <<>>
    BY <1>1 DEF PreparerTake
  <2>. QED BY <1>0, <2>2, <2>3, <2>4
<1>2. CASE PrepareFail
  BY <1>2 DEF PrepareFail
<1>3. CASE PreparerPush
  <2>1. prepOp \in Ops /\ prepOp # NoOp
    BY <1>3 DEF PreparerPush, Stations, PipelineTypeOK, OpsOrNone
  <2>2. /\ Entries(transferQueue') = Entries(transferQueue) \union {prepOp}
        /\ Distinct(transferQueue')
    BY <1>3, <2>1, Added DEF PreparerPush, PipelineTypeOK
  <2>. QED BY <1>3, <2>1, <2>2 DEF PreparerPush
<1>4. CASE PreparerDrain
  <2>1. UNCHANGED <<next, dl, prepOp, transferQueue, cur>>
    BY <1>4 DEF PreparerDrain
  <2>2. \/ prefetchQueue' = prefetchQueue
        \/ prefetchQueue # <<>> /\ prefetchQueue' = Tail(prefetchQueue)
    BY <1>4 DEF PreparerDrain
  <2>. QED BY <1>0, <2>1, <2>2
<1>5. CASE PreparerEnd \/ PrepareOk \/ PreparerLeave
  BY <1>5 DEF PreparerEnd, PrepareOk, PreparerLeave
<1>. QED BY <1>1, <1>2, <1>3, <1>4, <1>5 DEF Preparer

LEMMA MainPlaces ==
  PipelineTypeOK /\ Stations /\ OnePlace /\ Main => OnePlace'
<1>. SUFFICES ASSUME PipelineTypeOK, Stations, OnePlace, Main PROVE OnePlace'
  OBVIOUS
<1>. USE DEF dlVars, prepVars, mainVars, engineVars, OnePlace, Held, Upstream, Fetching,
             Preparing, Transferring
<1>1. CASE ConsumerTake
  <2>1. Transferring = {}
    BY <1>1 DEF ConsumerTake, Stations
  <2>2. /\ Entries(transferQueue) = Entries(transferQueue') \union {cur'}
        /\ Distinct(transferQueue')
        /\ cur' \notin Entries(transferQueue')
    BY <1>1, Taken DEF ConsumerTake, PipelineTypeOK
  <2>. QED BY <1>1, <2>1, <2>2 DEF ConsumerTake
<1>2. CASE ConsumerNext \/ Leave
  BY <1>2 DEF ConsumerNext, Leave
<1>3. CASE \/ ConsumerEnd \/ TransferOk \/ TransferFail \/ YieldFailure \/ YieldInline
           \/ Join \/ Checkpoint \/ FinalSave \/ InterruptSave
  <2>1. UNCHANGED <<next, dl, prefetchQueue, prepOp, transferQueue, cur>>
    BY <1>3 DEF ConsumerEnd, TransferOk, TransferFail, YieldFailure, YieldInline, Join,
                Checkpoint, FinalSave, InterruptSave
  <2>. QED BY <2>1
<1>. QED BY <1>1, <1>2, <1>3 DEF Main

-----------------------------------------------------------------------------
(* What becomes of the operations.                                         *)

PlacesInv == PipelineTypeOK /\ Stations /\ OnePlace

LEMMA DownloaderOutcomes ==
  PlacesInv /\ Outcomes /\ InTurn /\ Downloader => Outcomes' /\ InTurn'
<1>. SUFFICES ASSUME PlacesInv, Outcomes, InTurn, Downloader PROVE Outcomes' /\ InTurn'
  OBVIOUS
<1>. USE DEF dlVars, prepVars, mainVars, engineVars
<1>0. /\ Ops = 1 .. Len(Plan) /\ Len(Plan) \in Nat /\ next \in 1 .. Len(Plan) + 1
      /\ dl \in {"fetching", "pushing"} => next > 1
      /\ pipelineFailures \in Seq(Ops) /\ inlineCompletions \in Seq(Ops)
      /\ prefetchQueue \in Seq(Ops)
  BY PipelineAssumption, LenProperties DEF Ops, PlacesInv, PipelineTypeOK, Stations
<1>1. CASE DownloaderStop \/ FetchOk
  <2>1. UNCHANGED <<Upstream, Held, next, main, cur, pipelineFailures, inlineCompletions,
                    applied, yielded, Failed, Inlined, ReportedOps>>
    BY <1>1 DEF DownloaderStop, DownloaderFinish, FetchOk, Held, Upstream, Fetching, Preparing,
                Transferring, Failed, Inlined, ReportedOps
  <2>. QED BY <2>1 DEF Outcomes, InTurn
<1>2. CASE DownloaderFetch
  <2>1. /\ Upstream' = Upstream \union {next} /\ Held' = Held \union {next}
        /\ next \notin Held
    BY <1>0, <1>2 DEF DownloaderFetch, Held, Upstream, Fetching, Preparing, Transferring,
                      PlacesInv, OnePlace
  <2>2. /\ UNCHANGED <<main, cur, pipelineFailures, inlineCompletions, applied, yielded,
                       Failed, Inlined, ReportedOps>>
        /\ next' = next + 1
    BY <1>2 DEF DownloaderFetch, Failed, Inlined, ReportedOps
  <2>. QED BY <1>0, <2>1, <2>2 DEF Outcomes, InTurn
<1>3. CASE FetchFail
  <2>1. next - 1 \in Fetching /\ next - 1 \in Ops
    BY <1>0, <1>3 DEF FetchFail, Fetching
  <2>2. /\ Failed' = Failed \union {next - 1}
        /\ next - 1 \notin Failed => Distinct(pipelineFailures')
        /\ DOMAIN pipelineFailures' = 1 .. Len(pipelineFailures) + 1
    BY <1>0, <1>3, <2>1, Added, AppendProperties, LenProperties
       DEF FetchFail, StageFails, Failed, Outcomes
  <2>3. next - 1 \notin Failed \union Inlined \union applied \union ReportedOps
    BY <2>1 DEF Outcomes, Held, Upstream
  <2>4. dl' \in {"idle", "done"}
    BY <1>3 DEF FetchFail, DownloaderFinish
  <2>5. /\ Held' \subseteq Held \ {next - 1}
        /\ Upstream' \subseteq Upstream
    BY <1>3, <2>1, <2>4
       DEF FetchFail, Held, Upstream, Fetching, Preparing, Transferring, PlacesInv, OnePlace
  <2>6. UNCHANGED <<next, main, cur, inlineCompletions, Inlined, applied, reports,
                    ReportedOps, yielded>>
    BY <1>3 DEF FetchFail, Inlined, ReportedOps
  <2>7. Outcomes'
    BY <1>0, <2>1, <2>2, <2>3, <2>5, <2>6 DEF Outcomes
  <2>8. InTurn'
    <3>1. \A k \in DOMAIN pipelineFailures' : k \notin DOMAIN pipelineFailures
                                              => pipelineFailures'[k] = next - 1
      BY <1>0, <1>3, <2>1, AppendProperties, LenProperties DEF FetchFail, StageFails
    <3>2. \A k \in DOMAIN pipelineFailures : pipelineFailures'[k] = pipelineFailures[k]
      BY <1>0, <1>3, <2>1, AppendProperties, LenProperties DEF FetchFail, StageFails
    <3>. QED BY <2>3, <2>6, <3>1, <3>2 DEF InTurn
  <2>. QED BY <2>7, <2>8
<1>4. CASE DownloaderPush
  <2>0. next - 1 \in Ops
    BY <1>0, <1>4 DEF DownloaderPush
  <2>1. Entries(prefetchQueue') = Entries(prefetchQueue) \union {next - 1}
    BY <1>0, <1>4, <2>0, Added DEF DownloaderPush
  <2>2. UNCHANGED <<Upstream, Held>>
    BY <1>4, <2>1 DEF DownloaderPush, Held, Upstream, Fetching, Preparing, Transferring
  <2>3. UNCHANGED <<next, main, cur, pipelineFailures, inlineCompletions, applied, yielded,
                    Failed, Inlined, ReportedOps>>
    BY <1>4 DEF DownloaderPush, Failed, Inlined, ReportedOps
  <2>. QED BY <2>2, <2>3 DEF Outcomes, InTurn
<1>5. CASE InlineOk
  <2>1. /\ Inlined' = Inlined \union {next}
        /\ next \notin Inlined => Distinct(inlineCompletions')
    BY <1>0, <1>5, Added DEF InlineOk, Inlined, Outcomes
  <2>2. next \notin Failed \union Inlined \union applied \union ReportedOps \union Held
    BY <1>0 DEF Outcomes, PlacesInv, OnePlace
  <2>3. /\ UNCHANGED <<Held, Upstream, main, cur, pipelineFailures, Failed, reports,
                       ReportedOps, yielded>>
        /\ next' = next + 1 /\ applied' = applied \union {next}
    BY <1>5 DEF InlineOk, Held, Upstream, Fetching, Preparing, Transferring, Failed,
                ReportedOps
  <2>4. cur # next \/ main # "transferring"
    BY <2>2 DEF Held, Transferring, Stations, PlacesInv
  <2>5. Outcomes'
    BY <1>0, <2>1, <2>2, <2>3, <2>4 DEF Outcomes, Held
  <2>6. InTurn'
    <3>1. \A k \in DOMAIN inlineCompletions' : k \notin DOMAIN inlineCompletions
                                              => inlineCompletions'[k] = next
      BY <1>0, <1>5, AppendProperties, LenProperties DEF InlineOk
    <3>2. \A k \in DOMAIN inlineCompletions : inlineCompletions'[k] = inlineCompletions[k]
      BY <1>0, <1>5, AppendProperties, LenProperties DEF InlineOk
    <3>. QED BY <2>2, <2>3, <3>1, <3>2 DEF InTurn
  <2>. QED BY <2>5, <2>6
<1>6. CASE InlineFail
  <2>1. /\ Failed' = Failed \union {next}
        /\ next \notin Failed => Distinct(pipelineFailures')
    BY <1>0, <1>6, Added DEF InlineFail, StageFails, Failed, Outcomes
  <2>2. next \notin Failed \union Inlined \union applied \union ReportedOps \union Held
    BY <1>0 DEF Outcomes, PlacesInv, OnePlace
  <2>3. dl = "idle" /\ dl' \in {"idle", "done"}
    BY <1>6 DEF InlineFail, DownloaderFinish
  <2>4. /\ UNCHANGED <<Held, Upstream, main, cur, inlineCompletions, Inlined, reports,
                       ReportedOps, yielded, applied>>
        /\ next' = next + 1
    BY <1>6, <2>3 DEF InlineFail, Held, Upstream, Fetching, Preparing, Transferring,
                      Inlined, ReportedOps
  <2>5. Outcomes'
    BY <1>0, <2>1, <2>2, <2>4 DEF Outcomes
  <2>6. InTurn'
    <3>1. \A k \in DOMAIN pipelineFailures' : k \notin DOMAIN pipelineFailures
                                              => pipelineFailures'[k] = next
      BY <1>0, <1>6, AppendProperties, LenProperties DEF InlineFail, StageFails
    <3>2. \A k \in DOMAIN pipelineFailures : pipelineFailures'[k] = pipelineFailures[k]
      BY <1>0, <1>6, AppendProperties, LenProperties DEF InlineFail, StageFails
    <3>. QED BY <2>2, <2>4, <3>1, <3>2 DEF InTurn
  <2>. QED BY <2>5, <2>6
<1>. QED BY <1>1, <1>2, <1>3, <1>4, <1>5, <1>6 DEF Downloader

LEMMA PreparerOutcomes ==
  PlacesInv /\ Outcomes /\ InTurn /\ Preparer => Outcomes' /\ InTurn'
<1>. SUFFICES ASSUME PlacesInv, Outcomes, InTurn, Preparer PROVE Outcomes' /\ InTurn'
  OBVIOUS
<1>. USE DEF dlVars, prepVars, mainVars, engineVars
<1>0. /\ pipelineFailures \in Seq(Ops) /\ prefetchQueue \in Seq(Ops)
      /\ transferQueue \in Seq(Ops)
      /\ prefetchQueue # <<>> =>
           Entries(prefetchQueue) = Entries(Tail(prefetchQueue)) \union {Head(prefetchQueue)}
  BY Taken DEF PlacesInv, PipelineTypeOK
<1>1. CASE PrepareFail
  <2>1. prepOp \in Preparing /\ prepOp \in Ops
    BY <1>1 DEF PrepareFail, Preparing, PlacesInv, Stations, PipelineTypeOK, OpsOrNone
  <2>2. /\ Failed' = Failed \union {prepOp}
        /\ prepOp \notin Failed => Distinct(pipelineFailures')
    BY <1>0, <1>1, <2>1, Added DEF PrepareFail, StageFails, Failed, Outcomes
  <2>3. /\ prepOp \notin Failed \union Inlined \union applied \union ReportedOps
        /\ prepOp \in 1 .. (next - 1)
    BY <2>1 DEF Outcomes, Held, Upstream, PlacesInv, OnePlace
  <2>4. /\ Held' \subseteq Held \ {prepOp}
        /\ Upstream' \subseteq Upstream
    BY <1>1, <2>1
       DEF PrepareFail, Held, Upstream, Fetching, Preparing, Transferring, PlacesInv, OnePlace
  <2>5. UNCHANGED <<next, main, cur, inlineCompletions, Inlined, applied, reports,
                    ReportedOps, yielded>>
    BY <1>1 DEF PrepareFail, Inlined, ReportedOps
  <2>6. Outcomes'
    BY <2>2, <2>3, <2>4, <2>5 DEF Outcomes
  <2>7. InTurn'
    <3>1. \A k \in DOMAIN pipelineFailures' : k \notin DOMAIN pipelineFailures
                                              => pipelineFailures'[k] = prepOp
      BY <1>0, <1>1, <2>1, AppendProperties, LenProperties DEF PrepareFail, StageFails
    <3>2. \A k \in DOMAIN pipelineFailures : pipelineFailures'[k] = pipelineFailures[k]
      BY <1>0, <1>1, <2>1, AppendProperties, LenProperties DEF PrepareFail, StageFails
    <3>. QED BY <2>3, <2>5, <3>1, <3>2 DEF InTurn
  <2>. QED BY <2>6, <2>7
<1>2. CASE ~PrepareFail
  <2>1. Upstream' \subseteq Upstream
    <3>1. CASE PreparerTake
      BY <1>0, <3>1 DEF PreparerTake, Upstream, Fetching, Preparing
    <3>2. CASE PreparerPush
      <4>1. Entries(transferQueue') = Entries(transferQueue) \union {prepOp}
        BY <1>0, <3>2, Added
           DEF PreparerPush, PlacesInv, Stations, PipelineTypeOK, OpsOrNone
      <4>2. prepOp \in Preparing
        BY <3>2 DEF PreparerPush, Preparing, PlacesInv, Stations
      <4>. QED BY <3>2, <4>1, <4>2 DEF PreparerPush, Upstream, Fetching, Preparing
    <3>3. CASE PreparerDrain
      BY <1>0, <3>3 DEF PreparerDrain, Upstream, Fetching, Preparing
    <3>4. CASE PreparerEnd \/ PrepareOk \/ PreparerLeave
      BY <3>4 DEF PreparerEnd, PrepareOk, PreparerLeave, Upstream, Fetching, Preparing
    <3>. QED BY <1>2, <3>1, <3>2, <3>3, <3>4 DEF Preparer
  <2>2. UNCHANGED <<next, main, cur, pipelineFailures, inlineCompletions, applied, reports,
                    yielded>>
    BY <1>2 DEF Preparer, PreparerTake, PreparerEnd, PrepareOk, PreparerPush, PreparerLeave,
                PreparerDrain
  <2>. QED BY <2>1, <2>2
           DEF Outcomes, InTurn, Held, Transferring, Failed, Inlined, ReportedOps
<1>. QED BY <1>1, <1>2

\* A report of an operation that had none, with the outcome it deserves.
LEMMA HonestReport ==
  ASSUME PipelineTypeOK, ReportsHonest, NEW op \in Ops, NEW outcome \in Outcome,
         reports' = Append(reports, [op |-> op, outcome |-> outcome]),
         op \notin ReportedOps,
         outcome = "complete" <=> op \in applied',
         \A r \in ReportedOps : r \in applied' <=> r \in applied
  PROVE  ReportsHonest'
<1> DEFINE r == [op |-> op, outcome |-> outcome]
           R == [op : Ops, outcome : {"complete", "failed"}]
<1>1. reports \in Seq(R) /\ r \in R /\ r.op = op /\ r.outcome = outcome
  BY DEF PipelineTypeOK, Outcome
<1>2. reports' = Append(reports, r)
  OBVIOUS
<1>. HIDE DEF r, R
<1>3. /\ DOMAIN reports = 1 .. Len(reports)
      /\ DOMAIN reports' = 1 .. Len(reports) + 1
      /\ Len(reports) \in Nat
      /\ \A k \in 1 .. Len(reports) + 1 :
           reports'[k] = IF k = Len(reports) + 1 THEN r ELSE reports[k]
  BY <1>1, <1>2, AppendProperties, LenProperties
<1>4. \A k \in 1 .. Len(reports) : reports[k].op # op
  BY <1>3 DEF ReportedOps
<1>5. \A j, k \in DOMAIN reports' : reports'[j].op = reports'[k].op => j = k
  BY <1>1, <1>3, <1>4 DEF ReportsHonest
<1>6. \A k \in DOMAIN reports' :
        reports'[k].outcome = "complete" <=> reports'[k].op \in applied'
  <2>1. \A k \in 1 .. Len(reports) : reports[k].op \in ReportedOps
    BY <1>3 DEF ReportedOps
  <2>. QED BY <1>1, <1>3, <2>1 DEF ReportsHonest
<1>. QED BY <1>5, <1>6 DEF ReportsHonest

\* Where nothing is reported, what has been must stay as it is.
LEMMA HonestSilence ==
  ASSUME ReportsHonest, UNCHANGED reports,
         \A r \in ReportedOps : r \in applied' <=> r \in applied
  PROVE  ReportsHonest'
BY DEF ReportsHonest, ReportedOps

\* The operations that a transfer or a list yields to the engine.
OutcomesInv == PlacesInv /\ Outcomes /\ InTurn /\ ReportsHonest

LEMMA ConsumerOutcomes ==
  OutcomesInv /\ (TransferOk \/ TransferFail) => Outcomes' /\ InTurn' /\ ReportsHonest'
<1>. SUFFICES ASSUME OutcomesInv, TransferOk \/ TransferFail
              PROVE  Outcomes' /\ InTurn' /\ ReportsHonest'
  OBVIOUS
<1>. USE DEF dlVars, prepVars, mainVars, engineVars
<1>1. PICK outcome \in Outcome :
        /\ EngineSees(cur, outcome)
        /\ applied' = IF outcome = "complete" THEN applied \union {cur} ELSE applied
  BY DEF TransferOk, TransferFail, Outcome
<1>2. main = "transferring" /\ cur \in Ops /\ cur # NoOp
  BY DEF TransferOk, TransferFail, OutcomesInv, PlacesInv, Stations, PipelineTypeOK, OpsOrNone
<1>3. UNCHANGED <<next, dl, prefetchQueue, prepOp, transferQueue, cur, pipelineFailures,
                  inlineCompletions, yielded>>
  BY DEF TransferOk, TransferFail
<1>4. /\ cur \in Transferring
      /\ cur \notin Upstream \union Failed \union Inlined \union applied \union ReportedOps
      /\ cur \in 1 .. (next - 1)
  BY <1>2 DEF OutcomesInv, PlacesInv, OnePlace, Outcomes, Transferring, Held
<1>5. main' # "transferring" /\ ReportedOps' \subseteq ReportedOps \union {cur}
  BY <1>1, <1>2, Sees DEF OutcomesInv, PlacesInv, ReportedOps
<1>6. UNCHANGED <<Upstream, Held, Failed, Inlined>>
  BY <1>3 DEF Upstream, Held, Fetching, Preparing, Transferring, Failed, Inlined
<1>7. Outcomes'
  <2>1. applied' \subseteq applied \union {cur} /\ applied \subseteq applied'
    BY <1>1
  <2>. QED BY <1>3, <1>4, <1>5, <1>6, <2>1 DEF OutcomesInv, Outcomes
<1>8. InTurn'
  BY <1>3, <1>4, <1>5 DEF OutcomesInv, InTurn, Failed, Inlined, Entries
<1>9. ReportsHonest'
  <2>1. \A r \in ReportedOps : r \in applied' <=> r \in applied
    BY <1>1, <1>4
  <2>2. CASE signal
    BY <1>1, <1>2, <2>1, <2>2, Sees, HonestSilence DEF OutcomesInv, PlacesInv
  <2>3. CASE ~signal
    <3>1. reports' = Append(reports, [op |-> cur, outcome |-> outcome])
      BY <1>1, <1>2, <2>3, Sees DEF OutcomesInv, PlacesInv
    <3>2. outcome = "complete" <=> cur \in applied'
      BY <1>1, <1>4 DEF Outcome
    <3>. QED BY <1>2, <1>4, <2>1, <3>1, <3>2, HonestReport DEF OutcomesInv, PlacesInv
  <2>. QED BY <2>2, <2>3
<1>. QED BY <1>7, <1>8, <1>9

LEMMA FailureOutcomes ==
  OutcomesInv /\ YieldFailure => Outcomes' /\ InTurn' /\ ReportsHonest'
<1>. SUFFICES ASSUME OutcomesInv, YieldFailure
              PROVE  Outcomes' /\ InTurn' /\ ReportsHonest'
  OBVIOUS
<1>. USE DEF dlVars, prepVars, mainVars, engineVars
<1>1. UNCHANGED <<next, dl, prefetchQueue, prepOp, transferQueue, cur, pipelineFailures,
                  inlineCompletions, applied>>
  BY DEF YieldFailure
<1>2. UNCHANGED <<Upstream, Held, Failed, Inlined>>
  BY <1>1 DEF Upstream, Held, Fetching, Preparing, Transferring, Failed, Inlined
<1>3. /\ pipelineFailures \in Seq(Ops) /\ Len(pipelineFailures) \in Nat
      /\ DOMAIN pipelineFailures = 1 .. Len(pipelineFailures)
      /\ yielded \in [failures : Nat, inline : Nat]
      /\ main = "failures"
  BY LenProperties DEF OutcomesInv, PlacesInv, PipelineTypeOK, YieldFailure
<1>4. CASE yielded.failures < Len(pipelineFailures)
  <2> DEFINE op == pipelineFailures[yielded.failures + 1]
  <2>1. op \in Ops /\ op \in Failed /\ op # NoOp
    BY <1>3, <1>4, PipelineAssumption, LenProperties DEF Failed, Entries, Ops, NoOp
  <2>2. EngineSees(op, "failed") /\ yielded' = [yielded EXCEPT !.failures = @ + 1]
    BY <1>4 DEF YieldFailure
  <2>. HIDE DEF op
  <2>3. cur = NoOp
    BY <1>3 DEF OutcomesInv, PlacesInv, Stations
  <2>4. op \notin Held \union Inlined \union applied /\ op \in 1 .. (next - 1)
    BY <2>1 DEF OutcomesInv, Outcomes
  <2>5. op \notin ReportedOps
    BY <1>3, <1>4 DEF OutcomesInv, InTurn, op
  <2>6. main' # "transferring" /\ ReportedOps' \subseteq ReportedOps \union {op}
    BY <1>3, <2>1, <2>2, <2>3, Sees DEF OutcomesInv, PlacesInv, ReportedOps, Outcome
  <2>7. Outcomes'
    BY <1>1, <1>2, <2>4, <2>6 DEF OutcomesInv, Outcomes, Held
  <2>8. InTurn'
    <3>1. /\ yielded'.failures = yielded.failures + 1
          /\ yielded'.inline = yielded.inline
      BY <1>3, <2>2
    <3>2. \A k \in DOMAIN pipelineFailures :
            pipelineFailures[k] = op => k <= yielded.failures + 1
      BY <1>3, <1>4 DEF OutcomesInv, Outcomes, Distinct, op
    <3>3. \A k \in DOMAIN inlineCompletions : inlineCompletions[k] # op
      BY <2>4 DEF Inlined, Entries
    <3>. QED BY <1>1, <1>3, <2>6, <3>1, <3>2, <3>3 DEF OutcomesInv, InTurn
  <2>9. ReportsHonest'
    <3>1. CASE signal
      BY <1>1, <2>1, <2>2, <3>1, Sees, HonestSilence DEF OutcomesInv, PlacesInv, Outcome
    <3>2. CASE ~signal
      <4>1. reports' = Append(reports, [op |-> op, outcome |-> "failed"])
        BY <2>1, <2>2, <3>2, Sees DEF OutcomesInv, PlacesInv, Outcome
      <4>. QED BY <1>1, <2>1, <2>4, <2>5, <4>1, HonestReport
               DEF OutcomesInv, PlacesInv, Outcome
    <3>. QED BY <3>1, <3>2
  <2>. QED BY <2>7, <2>8, <2>9
<1>5. CASE ~(yielded.failures < Len(pipelineFailures))
  <2>1. main' = "inline" /\ UNCHANGED <<yielded, reports>>
    BY <1>5 DEF YieldFailure
  <2>. QED BY <1>1, <1>2, <2>1
           DEF OutcomesInv, Outcomes, InTurn, ReportsHonest, ReportedOps
<1>. QED BY <1>4, <1>5

LEMMA InlineOutcomes ==
  OutcomesInv /\ YieldInline => Outcomes' /\ InTurn' /\ ReportsHonest'
<1>. SUFFICES ASSUME OutcomesInv, YieldInline
              PROVE  Outcomes' /\ InTurn' /\ ReportsHonest'
  OBVIOUS
<1>. USE DEF dlVars, prepVars, mainVars, engineVars
<1>1. UNCHANGED <<next, dl, prefetchQueue, prepOp, transferQueue, cur, pipelineFailures,
                  inlineCompletions, applied>>
  BY DEF YieldInline
<1>2. UNCHANGED <<Upstream, Held, Failed, Inlined>>
  BY <1>1 DEF Upstream, Held, Fetching, Preparing, Transferring, Failed, Inlined
<1>3. /\ inlineCompletions \in Seq(Ops) /\ Len(inlineCompletions) \in Nat
      /\ DOMAIN inlineCompletions = 1 .. Len(inlineCompletions)
      /\ yielded \in [failures : Nat, inline : Nat]
      /\ main = "inline"
  BY LenProperties DEF OutcomesInv, PlacesInv, PipelineTypeOK, YieldInline
<1>4. CASE yielded.inline < Len(inlineCompletions)
  <2> DEFINE op == inlineCompletions[yielded.inline + 1]
  <2>1. op \in Ops /\ op \in Inlined /\ op # NoOp
    BY <1>3, <1>4, PipelineAssumption, LenProperties DEF Inlined, Entries, Ops, NoOp
  <2>2. EngineSees(op, "complete") /\ yielded' = [yielded EXCEPT !.inline = @ + 1]
    BY <1>4 DEF YieldInline
  <2>. HIDE DEF op
  <2>3. cur = NoOp
    BY <1>3 DEF OutcomesInv, PlacesInv, Stations
  <2>4. op \notin Held \union Failed /\ op \in applied /\ op \in 1 .. (next - 1)
    BY <2>1 DEF OutcomesInv, Outcomes
  <2>5. op \notin ReportedOps
    BY <1>3, <1>4 DEF OutcomesInv, InTurn, op
  <2>6. main' # "transferring" /\ ReportedOps' \subseteq ReportedOps \union {op}
    BY <1>3, <2>1, <2>2, <2>3, Sees DEF OutcomesInv, PlacesInv, ReportedOps, Outcome
  <2>7. Outcomes'
    BY <1>1, <1>2, <2>4, <2>6 DEF OutcomesInv, Outcomes, Held
  <2>8. InTurn'
    <3>1. /\ yielded'.failures = yielded.failures
          /\ yielded'.inline = yielded.inline + 1
      BY <1>3, <2>2
    <3>2. \A k \in DOMAIN inlineCompletions :
            inlineCompletions[k] = op => k <= yielded.inline + 1
      BY <1>3, <1>4 DEF OutcomesInv, Outcomes, Distinct, op
    <3>3. \A k \in DOMAIN pipelineFailures : pipelineFailures[k] # op
      BY <2>4 DEF Failed, Entries
    <3>. QED BY <1>1, <1>3, <2>6, <3>1, <3>2, <3>3 DEF OutcomesInv, InTurn
  <2>9. ReportsHonest'
    <3>1. CASE signal
      BY <1>1, <2>1, <2>2, <3>1, Sees, HonestSilence DEF OutcomesInv, PlacesInv, Outcome
    <3>2. CASE ~signal
      <4>1. reports' = Append(reports, [op |-> op, outcome |-> "complete"])
        BY <2>1, <2>2, <3>2, Sees DEF OutcomesInv, PlacesInv, Outcome
      <4>. QED BY <1>1, <2>1, <2>4, <2>5, <4>1, HonestReport
               DEF OutcomesInv, PlacesInv, Outcome
    <3>. QED BY <3>1, <3>2
  <2>. QED BY <2>7, <2>8, <2>9
<1>5. CASE ~(yielded.inline < Len(inlineCompletions))
  <2>1. main' = "join" /\ UNCHANGED <<yielded, reports>>
    BY <1>5 DEF YieldInline
  <2>. QED BY <1>1, <1>2, <2>1
           DEF OutcomesInv, Outcomes, InTurn, ReportsHonest, ReportedOps
<1>. QED BY <1>4, <1>5

LEMMA MainOutcomes ==
  OutcomesInv /\ Main => Outcomes' /\ InTurn' /\ ReportsHonest'
<1>. SUFFICES ASSUME OutcomesInv, Main PROVE Outcomes' /\ InTurn' /\ ReportsHonest'
  OBVIOUS
<1>. USE DEF dlVars, prepVars, mainVars, engineVars
<1>1. CASE TransferOk \/ TransferFail
  BY <1>1, ConsumerOutcomes
<1>2. CASE YieldFailure
  BY <1>2, FailureOutcomes
<1>3. CASE YieldInline
  BY <1>3, InlineOutcomes
<1>4. CASE ConsumerTake
  <2>1. Transferring = {}
    BY <1>4 DEF ConsumerTake, Transferring, OutcomesInv, PlacesInv, Stations
  <2>2. /\ Entries(transferQueue) = Entries(transferQueue') \union {cur'}
        /\ cur' \in Upstream
    BY <1>4, Taken DEF ConsumerTake, OutcomesInv, PlacesInv, PipelineTypeOK, Upstream
  <2>3. UNCHANGED <<next, pipelineFailures, inlineCompletions, reports, applied, yielded>>
    BY <1>4 DEF ConsumerTake
  <2>4. Upstream' \subseteq Upstream /\ Held' \subseteq Held
    BY <1>4, <2>1, <2>2
       DEF ConsumerTake, Upstream, Held, Fetching, Preparing, Transferring
  <2>. QED BY <2>2, <2>3, <2>4
           DEF OutcomesInv, Outcomes, InTurn, ReportsHonest, Failed, Inlined, ReportedOps
<1>5. CASE ConsumerNext \/ Leave
  <2>1. UNCHANGED <<next, dl, prefetchQueue, prepOp, transferQueue, pipelineFailures,
                    inlineCompletions, reports, applied, yielded>>
    BY <1>5 DEF ConsumerNext, Leave
  <2>2. main' # "transferring" /\ Transferring' = {}
    BY <1>5 DEF ConsumerNext, Leave, Transferring
  <2>. QED BY <2>1, <2>2
           DEF OutcomesInv, Outcomes, InTurn, ReportsHonest, Failed, Inlined, ReportedOps,
               Upstream, Held, Fetching, Preparing
<1>6. CASE ConsumerEnd \/ Join \/ Checkpoint \/ FinalSave \/ InterruptSave
  <2>1. UNCHANGED <<next, dl, prefetchQueue, prepOp, transferQueue, cur, pipelineFailures,
                    inlineCompletions, reports, applied, yielded>>
    BY <1>6 DEF ConsumerEnd, Join, Checkpoint, FinalSave, InterruptSave
  <2>2. main' # "transferring"
    BY <1>6 DEF ConsumerEnd, Join, Checkpoint, FinalSave, InterruptSave, SaveTo
  <2>. QED BY <2>1, <2>2
           DEF OutcomesInv, Outcomes, InTurn, ReportsHonest, Failed, Inlined, ReportedOps,
               Upstream, Held, Fetching, Preparing, Transferring
<1>. QED BY <1>1, <1>2, <1>3, <1>4, <1>5, <1>6 DEF Main

\* The stages report nothing, and what they do is not reported yet.
LEMMA StagesHonest ==
  OutcomesInv /\ (Downloader \/ Preparer) => ReportsHonest'
<1>. SUFFICES ASSUME OutcomesInv, Downloader \/ Preparer PROVE ReportsHonest'
  OBVIOUS
<1>1. UNCHANGED reports
  BY DEF Downloader, DownloaderStop, DownloaderFetch, FetchOk, FetchFail, DownloaderPush,
         InlineOk, InlineFail, Preparer, PreparerTake, PreparerEnd, PrepareOk, PrepareFail,
         PreparerPush, PreparerLeave, PreparerDrain, mainVars, engineVars
<1>2. applied' = applied \/ applied' = applied \union {next}
  BY DEF Downloader, DownloaderStop, DownloaderFetch, FetchOk, FetchFail, DownloaderPush,
         InlineOk, InlineFail, Preparer, PreparerTake, PreparerEnd, PrepareOk, PrepareFail,
         PreparerPush, PreparerLeave, PreparerDrain
<1>3. next \notin ReportedOps
  BY DEF OutcomesInv, Outcomes, PlacesInv, PipelineTypeOK
<1>. QED BY <1>1, <1>2, <1>3, HonestSilence DEF OutcomesInv

-----------------------------------------------------------------------------
(* The temp files.                                                         *)

\* DownloaderTemps: the downloader's steps keep Temps.
LEMMA DownloaderTemps ==
  PlacesInv /\ Temps /\ Downloader => Temps'
<1>. SUFFICES ASSUME PlacesInv, Temps, Downloader PROVE Temps'
  OBVIOUS
<1>. USE DEF dlVars, prepVars, mainVars, engineVars
<1>0. /\ next \in 1 .. Len(Plan) + 1
      /\ dl \in {"fetching", "pushing"} => next > 1
      /\ Held \subseteq 1 .. (next - 1)
      /\ prefetchQueue \in Seq(Ops)
      /\ Ops = 1 .. Len(Plan) /\ Len(Plan) \in Nat
      /\ Entries(prefetchQueue) \intersect Fetching = {}
      /\ downloads \subseteq Ops
  BY PipelineAssumption, LenProperties
     DEF PlacesInv, OnePlace, PipelineTypeOK, Stations, Ops
<1>1. UNCHANGED <<prep, prepOp, transferQueue, main, cur, dirGone, outputs>>
  BY DEF Downloader, DownloaderStop, DownloaderFetch, FetchOk, FetchFail, DownloaderPush,
         InlineOk, InlineFail
<1>2. UNCHANGED <<Preparing, Transferring, Prepared, Entries(transferQueue)>>
  BY <1>1 DEF Preparing, Transferring, Prepared
<1>3. outputs' \subseteq Entries(transferQueue') \union Transferring'
                  \union (IF prep' = "pushing" THEN {prepOp'} ELSE {})
  BY <1>1, <1>2 DEF Temps
<1>4. ~dirGone' => {op \in Prepared' : Plan[op] = "transcode"} \subseteq outputs'
  BY <1>1, <1>2 DEF Temps
<1>5. CASE DownloaderPush
  <2>1. Entries(prefetchQueue') = Entries(prefetchQueue) \union {next - 1}
    <3>1. next - 1 \in Ops /\ prefetchQueue' = Append(prefetchQueue, next - 1)
      BY <1>0, <1>5 DEF DownloaderPush
    <3>. QED BY <1>0, <3>1, Added
  <2>2. Fetching = {next - 1} /\ UNCHANGED <<next, downloads>>
    BY <1>5 DEF DownloaderPush, Fetching
  <2>3. Held' = Held /\ dl' = "idle"
    BY <1>2, <1>5, <2>1, <2>2 DEF DownloaderPush, Held, Upstream, Fetching
  <2>4. Remote => Entries(prefetchQueue') \subseteq downloads
    BY <1>5, <2>1 DEF DownloaderPush, Temps
  <2>. QED BY <1>2, <1>3, <1>4, <2>2, <2>3, <2>4 DEF Temps
<1>6. CASE ~DownloaderPush
  <2>1. UNCHANGED <<prefetchQueue, Entries(prefetchQueue)>>
    BY <1>6 DEF Downloader, DownloaderStop, DownloaderFetch, FetchOk, FetchFail, InlineOk,
                InlineFail
  <2>2. /\ downloads' \subseteq Held'
        /\ downloads \subseteq downloads'
        /\ Remote /\ dl' = "pushing" => next' - 1 \in downloads'
        /\ dl' = "fetching" => next' - 1 \notin downloads'
    <3>1. CASE DownloaderStop
      BY <1>0, <1>1, <1>2, <2>1, <3>1
         DEF DownloaderStop, DownloaderFinish, Temps, Held, Upstream, Fetching
    <3>2. CASE DownloaderFetch
      BY <1>0, <1>1, <1>2, <2>1, <3>2 DEF DownloaderFetch, Temps, Held, Upstream, Fetching
    <3>3. CASE FetchOk
      BY <1>0, <1>1, <1>2, <2>1, <3>3 DEF FetchOk, Temps, Held, Upstream, Fetching
    <3>4. CASE FetchFail
      <4>1. dl' \in {"idle", "done"} /\ UNCHANGED downloads
        BY <3>4 DEF FetchFail, DownloaderFinish
      <4>2. Fetching = {next - 1} /\ dl = "fetching" /\ Fetching' = {}
        BY <3>4, <4>1 DEF FetchFail, Fetching
      <4>. QED BY <1>2, <2>1, <4>1, <4>2 DEF Temps, Held, Upstream
    <3>5. CASE InlineOk
      BY <1>0, <1>1, <1>2, <2>1, <3>5 DEF InlineOk, Temps, Held, Upstream, Fetching
    <3>6. CASE InlineFail
      <4>1. dl' \in {"idle", "done"} /\ UNCHANGED downloads /\ dl = "idle"
        BY <3>6 DEF InlineFail, DownloaderFinish
      <4>. QED BY <1>2, <2>1, <4>1 DEF Temps, Held, Upstream, Fetching
    <3>. QED BY <1>6, <3>1, <3>2, <3>3, <3>4, <3>5, <3>6 DEF Downloader
  <2>3. Remote => Entries(prefetchQueue') \union Preparing' \union Prepared' \subseteq downloads'
    BY <1>2, <2>1, <2>2 DEF Temps
  <2>. QED BY <1>3, <1>4, <2>2, <2>3 DEF Temps
<1>. QED BY <1>5, <1>6

\* PreparerTemps: so do the preparer's.
LEMMA PreparerTemps ==
  PlacesInv /\ Temps /\ Preparer => Temps'
<1>. SUFFICES ASSUME PlacesInv, Temps, Preparer PROVE Temps'
  OBVIOUS
<1>. USE DEF dlVars, prepVars, mainVars, engineVars
<1>0. /\ prefetchQueue \in Seq(Ops) /\ transferQueue \in Seq(Ops)
      /\ prefetchQueue # <<>> =>
           /\ Entries(prefetchQueue)
                = Entries(Tail(prefetchQueue)) \union {Head(prefetchQueue)}
           /\ Head(prefetchQueue) \notin Entries(Tail(prefetchQueue))
           /\ Head(prefetchQueue) \in Ops
      /\ \A op \in Ops : op # NoOp
  <2>1. /\ prefetchQueue \in Seq(Ops) /\ transferQueue \in Seq(Ops)
        /\ Distinct(prefetchQueue)
    BY DEF PlacesInv, OnePlace, PipelineTypeOK
  <2>2. \A op \in Ops : op # NoOp
    BY PipelineAssumption, LenProperties DEF Ops, NoOp
  <2>. QED BY <2>1, <2>2, Taken
<1>1. /\ UNCHANGED <<next, dl, main, cur, dirGone>>
      /\ UNCHANGED <<Fetching, Transferring>>
  BY DEF Preparer, PreparerTake, PreparerEnd, PrepareOk, PrepareFail, PreparerPush,
         PreparerLeave, PreparerDrain, Fetching, Transferring
<1>2. /\ Preparing = IF prep \in {"preparing", "pushing"} THEN {prepOp} ELSE {}
      /\ Preparing \intersect
           (Fetching \union Entries(prefetchQueue) \union Entries(transferQueue)
              \union Transferring) = {}
      /\ Fetching \intersect Entries(prefetchQueue) = {}
      /\ (Entries(transferQueue) \union Transferring) \intersect
           (Fetching \union Entries(prefetchQueue)) = {}
      /\ prep \in {"preparing", "pushing"} <=> prepOp # NoOp
  BY DEF PlacesInv, OnePlace, Stations, Preparing, Held, Upstream
<1>3. main = "transferring" => cur \in Transferring
  BY DEF PlacesInv, Stations, Transferring
<1>4. dl \in {"fetching", "pushing"} => next - 1 \in Fetching
  BY DEF Fetching
<1>5. CASE PreparerTake
  <2>1. /\ prefetchQueue # <<>>
        /\ prefetchQueue' = Tail(prefetchQueue)
        /\ UNCHANGED <<transferQueue, outputs>>
        /\ prep = "idle" /\ prep' \in {"leaving", "preparing"}
        /\ \/ prepOp' = prepOp /\ downloads' = downloads \ {Head(prefetchQueue)}
           \/ prepOp' = Head(prefetchQueue) /\ downloads' = downloads
    BY <1>5 DEF PreparerTake
  <2>2. Preparing = {} /\ Prepared' = Prepared
    BY <1>1, <1>2, <2>1 DEF Prepared
  <2>3. CASE prepOp' = prepOp /\ downloads' = downloads \ {Head(prefetchQueue)}
    <3>1. Preparing' = {}
      BY <2>2, <2>3 DEF Preparing
    <3>2. Head(prefetchQueue) \notin Prepared
      BY <1>0, <1>2, <1>3, <2>1 DEF Prepared
    <3>. QED BY <1>0, <1>1, <1>2, <1>3, <1>4, <2>1, <2>2, <2>3, <3>1, <3>2
             DEF Temps, Held, Upstream
  <2>4. CASE prepOp' = Head(prefetchQueue) /\ downloads' = downloads
    <3>1. Preparing' = {Head(prefetchQueue)}
      BY <1>0, <2>1, <2>4 DEF Preparing
    <3>. QED BY <1>0, <1>1, <1>2, <1>3, <2>1, <2>2, <2>4, <3>1 DEF Temps, Held, Upstream
  <2>. QED BY <2>1, <2>3, <2>4
<1>6. CASE PrepareOk
  <2>1. /\ UNCHANGED <<prefetchQueue, prepOp, transferQueue, downloads, Preparing>>
        /\ prep = "preparing" /\ prep' = "pushing"
        /\ outputs' = IF Plan[prepOp] = "transcode" THEN outputs \union {prepOp} ELSE outputs
    BY <1>6 DEF PrepareOk, Preparing
  <2>2. Prepared' = Prepared \union {prepOp} /\ Preparing = {prepOp}
    BY <1>1, <1>2, <2>1 DEF Prepared
  <2>3. Held' = Held
    BY <1>1, <2>1 DEF Held, Upstream
  <2>4. outputs' \subseteq Entries(transferQueue') \union Transferring'
                    \union (IF prep' = "pushing" THEN {prepOp'} ELSE {})
    BY <1>1, <2>1 DEF Temps
  <2>5. Remote => Entries(prefetchQueue') \union Preparing' \union Prepared' \subseteq downloads'
    BY <2>1, <2>2 DEF Temps
  <2>. QED BY <1>1, <2>1, <2>2, <2>3, <2>4, <2>5 DEF Temps
<1>7. CASE PrepareFail
  <2>1. /\ UNCHANGED <<prefetchQueue, transferQueue, outputs>>
        /\ prep = "preparing" /\ prep' \in {"idle", "leaving"}
        /\ Preparing' = {} /\ Preparing = {prepOp}
        /\ downloads' = downloads \ {prepOp}
    BY <1>2, <1>7 DEF PrepareFail, Preparing
  <2>2. Prepared' = Prepared
    BY <1>1, <2>1 DEF Prepared
  <2>3. prepOp \notin Prepared
    BY <1>2, <1>3, <2>1 DEF Prepared
  <2>. QED BY <1>1, <1>2, <1>4, <2>1, <2>2, <2>3 DEF Temps, Held, Upstream
<1>8. CASE PreparerPush
  <2>1. /\ UNCHANGED <<prefetchQueue, outputs, downloads>>
        /\ prep = "pushing" /\ prep' = "idle"
        /\ Preparing' = {} /\ Preparing = {prepOp}
        /\ transferQueue' = Append(transferQueue, prepOp)
    BY <1>2, <1>8 DEF PreparerPush, Preparing
  <2>2. prepOp \in Ops
    BY <1>2, <2>1 DEF PlacesInv, PipelineTypeOK, OpsOrNone
  <2>3. Entries(transferQueue') = Entries(transferQueue) \union {prepOp}
    BY <1>0, <2>1, <2>2, Added
  <2>4. Prepared' = Prepared /\ Held' = Held
    BY <1>1, <2>1, <2>3 DEF Prepared, Held, Upstream
  <2>. QED BY <1>1, <2>1, <2>3, <2>4 DEF Temps
<1>9. CASE PreparerDrain
  <2>1. /\ UNCHANGED <<prepOp, transferQueue, outputs, Preparing>>
        /\ prep = "draining" /\ prep' \in {"draining", "done"}
        /\ \/ prefetchQueue # <<>> /\ prefetchQueue' = Tail(prefetchQueue)
              /\ downloads' = downloads \ {Head(prefetchQueue)}
           \/ UNCHANGED <<prefetchQueue, downloads>>
    BY <1>9 DEF PreparerDrain, Preparing
  <2>2. Prepared' = Prepared /\ Preparing = {}
    BY <1>1, <1>2, <2>1 DEF Prepared
  <2>3. prefetchQueue # <<>> => Head(prefetchQueue) \notin Prepared
    BY <1>0, <1>2, <1>3, <2>1 DEF Prepared
  <2>. QED BY <1>0, <1>1, <1>2, <1>4, <2>1, <2>2, <2>3 DEF Temps, Held, Upstream
<1>10. CASE PreparerEnd \/ PreparerLeave
  <2>1. /\ UNCHANGED <<prefetchQueue, prepOp, transferQueue, outputs, downloads, Preparing>>
        /\ prep \in {"idle", "leaving"} /\ prep' \in {"leaving", "draining", "done"}
    BY <1>10 DEF PreparerEnd, PreparerLeave, Preparing
  <2>2. Prepared' = Prepared
    BY <1>1, <2>1 DEF Prepared
  <2>. QED BY <1>1, <2>1, <2>2 DEF Temps, Held, Upstream
<1>. QED BY <1>5, <1>6, <1>7, <1>8, <1>9, <1>10 DEF Preparer

\* Only the start of a transfer leads to one.
LEMMA TransferEnds ==
  PlacesInv /\ Main /\ ~ConsumerTake => main' # "transferring"
<1>. SUFFICES ASSUME PlacesInv, Main, ~ConsumerTake PROVE main' # "transferring"
  OBVIOUS
<1>1. CASE TransferOk \/ TransferFail
  <2>1. PICK outcome \in Outcome : EngineSees(cur, outcome)
    BY <1>1 DEF TransferOk, TransferFail, Outcome
  <2>2. cur \in Ops
    BY <1>1 DEF TransferOk, TransferFail, PlacesInv, Stations, PipelineTypeOK, OpsOrNone
  <2>. QED BY <1>1, <2>1, <2>2, Sees DEF PlacesInv
<1>2. CASE YieldFailure \/ YieldInline
  <2>1. cur' = NoOp
    BY <1>2 DEF YieldFailure, YieldInline, PlacesInv, Stations
  <2>2. Stations'
    BY MainStations DEF PlacesInv
  <2>. QED BY <2>1, <2>2 DEF Stations
<1>3. CASE ConsumerEnd \/ ConsumerNext \/ Join \/ Leave \/ Checkpoint \/ FinalSave \/ InterruptSave
  BY <1>3 DEF ConsumerEnd, ConsumerNext, Join, Leave, Checkpoint, FinalSave, InterruptSave, SaveTo
<1>. QED BY <1>1, <1>2, <1>3 DEF Main

\* MainTemps: and the consumer's, the engine's and the CLI's.
LEMMA MainTemps ==
  PlacesInv /\ Temps /\ Main => Temps'
<1>. SUFFICES ASSUME PlacesInv, Temps, Main PROVE Temps'
  OBVIOUS
<1>. USE DEF dlVars, prepVars, mainVars, engineVars
<1>0. /\ transferQueue \in Seq(Ops)
      /\ \A op \in Ops : op # NoOp
      /\ cur # NoOp => cur \in Ops
  BY PipelineAssumption, LenProperties
     DEF PlacesInv, PipelineTypeOK, Ops, NoOp, OpsOrNone
<1>1. /\ UNCHANGED <<next, dl, prefetchQueue, prep, prepOp>>
      /\ UNCHANGED <<Fetching, Preparing>>
  BY DEF Main, ConsumerTake, ConsumerEnd, TransferOk, TransferFail, ConsumerNext, YieldFailure,
         YieldInline, Join, Leave, Checkpoint, FinalSave, InterruptSave, Fetching, Preparing
<1>2. /\ Transferring \intersect
           (Fetching \union Entries(prefetchQueue) \union Preparing
              \union Entries(transferQueue)) = {}
      /\ prep = "pushing" => prepOp \in Preparing
      /\ dl \in {"fetching", "pushing"} => next - 1 \in Fetching
  BY DEF PlacesInv, OnePlace, Stations, Upstream, Preparing, Fetching
<1>3. CASE ConsumerTake
  <2>1. /\ main = "pop" /\ main' = "transferring" /\ transferQueue # <<>>
        /\ cur' = Head(transferQueue) /\ transferQueue' = Tail(transferQueue)
        /\ UNCHANGED <<downloads, outputs, dirGone>>
    BY <1>3 DEF ConsumerTake
  <2>2. /\ Entries(transferQueue) = Entries(transferQueue') \union {cur'}
        /\ cur' \in Ops
    BY <1>0, <2>1, Taken
  <2>3. Transferring = {} /\ Transferring' = {cur'}
    BY <1>0, <2>1, <2>2 DEF PlacesInv, Stations, Transferring
  <2>4. Prepared' = Prepared /\ Held' = Held
    BY <1>1, <2>1, <2>2, <2>3 DEF Prepared, Held, Upstream
  <2>. QED BY <1>1, <2>1, <2>2, <2>3, <2>4 DEF Temps
<1>4. CASE ConsumerNext
  <2>1. /\ main = "cleanup" /\ main' = "pop"
        /\ downloads' = downloads \ {cur} /\ outputs' = outputs \ {cur}
        /\ Transferring' = {} /\ Transferring = {cur}
        /\ UNCHANGED <<transferQueue, dirGone>>
    BY <1>4 DEF ConsumerNext, CleanUp, PlacesInv, Stations, Transferring
  <2>2. Prepared' = Prepared /\ cur \notin Prepared
    BY <1>1, <1>2, <2>1 DEF Prepared
  <2>. QED BY <1>1, <1>2, <2>1, <2>2 DEF Temps, Held, Upstream
<1>5. CASE Leave
  <2>1. /\ main = "leave" /\ main' = "finalSave"
        /\ downloads' = downloads \ {cur} /\ outputs' = {} /\ dirGone' = TRUE
        /\ Transferring' = {}
        /\ UNCHANGED transferQueue
    BY <1>5 DEF Leave, Transferring
  <2>2. Prepared' = Prepared /\ Transferring \subseteq {cur}
    BY <1>1, <2>1 DEF Prepared, Transferring
  <2>3. cur \in Ops => cur \in Transferring
    BY <1>0 DEF Transferring
  <2>4. /\ downloads \subseteq Ops
        /\ Entries(prefetchQueue) \subseteq Ops /\ Entries(transferQueue) \subseteq Ops
        /\ Preparing \subseteq Ops
    BY LenProperties DEF PlacesInv, PipelineTypeOK, Entries, Preparing, OpsOrNone
  <2>5. downloads' = downloads \ Transferring
    BY <2>1, <2>2, <2>3, <2>4
  <2>6. Held' = Held \ Transferring
    BY <1>1, <1>2, <2>1 DEF Held, Upstream
  <2>7. downloads' \subseteq Held'
    BY <2>5, <2>6 DEF Temps
  <2>8. Remote => Entries(prefetchQueue') \union Preparing' \union Prepared' \subseteq downloads'
    <3>1. Prepared \intersect Transferring = {}
      BY <1>2, <2>1 DEF Prepared
    <3>. QED BY <1>1, <1>2, <2>1, <2>2, <2>5, <3>1 DEF Temps
  <2>9. /\ Remote /\ dl' = "pushing" => next' - 1 \in downloads'
        /\ dl' = "fetching" => next' - 1 \notin downloads'
    BY <1>1, <1>2, <2>5 DEF Temps
  <2>. QED BY <2>1, <2>7, <2>8, <2>9 DEF Temps
<1>6. CASE \/ ConsumerEnd \/ TransferOk \/ TransferFail \/ YieldFailure \/ YieldInline
           \/ Join \/ Checkpoint \/ FinalSave \/ InterruptSave
  <2>1. UNCHANGED <<transferQueue, cur, downloads, outputs, dirGone>>
    BY <1>6 DEF ConsumerEnd, TransferOk, TransferFail, YieldFailure, YieldInline, Join,
                Checkpoint, FinalSave, InterruptSave
  <2>2. main' # "transferring"
    BY <1>6, TransferEnds
       DEF ConsumerTake, ConsumerEnd, TransferOk, TransferFail, YieldFailure, YieldInline, Join,
           Checkpoint, FinalSave, InterruptSave
  <2>3. Prepared' \subseteq Prepared /\ UNCHANGED <<Held, Transferring>>
    BY <1>1, <2>1, <2>2 DEF Prepared, Held, Upstream, Transferring
  <2>. QED BY <1>1, <2>1, <2>3 DEF Temps
<1>. QED BY <1>3, <1>4, <1>5, <1>6 DEF Main

-----------------------------------------------------------------------------
(* A run that is not disturbed.                                            *)

\* The downloader keeps the order: it adds to a list only before the
\* consumer can be past it.
LEMMA DownloaderInOrder ==
  PlacesInv /\ Undisturbed /\ InOrder /\ Downloader => InOrder'
<1>. SUFFICES ASSUME PlacesInv, Undisturbed, InOrder, Downloader PROVE InOrder'
  OBVIOUS
<1>. USE DEF dlVars, prepVars, mainVars, engineVars
<1>0. /\ next \in 1 .. Len(Plan) + 1 /\ Ops = 1 .. Len(Plan) /\ Len(Plan) \in Nat
      /\ pipelineFailures \in Seq(Ops) /\ Len(pipelineFailures) \in Nat
      /\ inlineCompletions \in Seq(Ops) /\ Len(inlineCompletions) \in Nat
      /\ yielded.failures \in Nat /\ yielded.inline \in Nat
      /\ dl \in {"fetching", "pushing"} => next > 1
  BY PipelineAssumption, LenProperties DEF PlacesInv, PipelineTypeOK, Stations, Ops
<1>1. UNCHANGED <<prep, prepOp, transferQueue, main, cur, yielded, FailuresYielded, Over>>
  BY DEF Downloader, DownloaderStop, DownloaderFetch, FetchOk, FetchFail, DownloaderPush,
         InlineOk, InlineFail, FailuresYielded, Over
<1>2. dl # "done"
  BY DEF Downloader, DownloaderStop, DownloaderFetch, FetchOk, FetchFail, DownloaderPush,
         InlineOk, InlineFail
<1>3. /\ ~FailuresYielded /\ ~Over /\ main # "join"
      /\ prep \notin {"leaving", "draining", "done"}
  BY <1>2 DEF InOrder, FailuresYielded, Over, PlacesInv, Stations
<1>4. ~Aborting /\ ContinueOnError
  BY DEF Aborting, InOrder, Undisturbed
<1>5. ~abortRequested'
  BY <1>4 DEF Aborting, Downloader, DownloaderStop, DownloaderFetch, FetchOk, FetchFail,
              DownloaderPush, InlineOk, InlineFail, StageFails
<1>6. dl' = "done" => next' = Len(Plan) + 1
  <2>1. CASE DownloaderStop
    BY <1>0, <1>4, <2>1 DEF DownloaderStop
  <2>2. CASE ~DownloaderStop
    BY <1>4, <2>2 DEF Downloader, DownloaderFetch, FetchOk, FetchFail, DownloaderPush,
              InlineOk, InlineFail
  <2>. QED BY <2>1, <2>2
<1>7. /\ yielded.failures <= Len(pipelineFailures')
      /\ yielded.inline <= Len(inlineCompletions')
  <2>1. \/ UNCHANGED <<pipelineFailures, inlineCompletions>>
        \/ UNCHANGED inlineCompletions
           /\ \E op \in Ops : pipelineFailures' = Append(pipelineFailures, op)
        \/ UNCHANGED pipelineFailures
           /\ \E op \in Ops : inlineCompletions' = Append(inlineCompletions, op)
    <3>1. CASE FetchFail
      <4>1. next - 1 \in Ops
        BY <1>0, <3>1 DEF FetchFail
      <4>. QED BY <3>1, <4>1 DEF FetchFail, StageFails
    <3>2. CASE ~FetchFail
      BY <3>2 DEF Downloader, DownloaderStop, DownloaderFetch, FetchOk, DownloaderPush,
                  InlineOk, InlineFail, StageFails
    <3>. QED BY <3>1, <3>2
  <2>2. /\ \A op \in Ops : Len(Append(pipelineFailures, op)) = Len(pipelineFailures) + 1
        /\ \A op \in Ops : Len(Append(inlineCompletions, op)) = Len(inlineCompletions) + 1
    BY <1>0, Added
  <2>. QED BY <1>0, <2>1, <2>2 DEF InOrder
<1>. QED BY <1>1, <1>3, <1>5, <1>6, <1>7 DEF InOrder

\* The preparer leaves its loop when nothing can come any more.
LEMMA PreparerInOrder ==
  PlacesInv /\ Undisturbed /\ InOrder /\ Preparer => InOrder'
<1>. SUFFICES ASSUME PlacesInv, Undisturbed, InOrder, Preparer PROVE InOrder'
  OBVIOUS
<1>. USE DEF dlVars, prepVars, mainVars, engineVars
<1>0. /\ pipelineFailures \in Seq(Ops) /\ Len(pipelineFailures) \in Nat
      /\ yielded.failures \in Nat
  BY LenProperties DEF PlacesInv, PipelineTypeOK
<1>1. UNCHANGED <<next, dl, main, cur, yielded, inlineCompletions, FailuresYielded, Over>>
  BY DEF Preparer, PreparerTake, PreparerEnd, PrepareOk, PrepareFail, PreparerPush,
         PreparerLeave, PreparerDrain, FailuresYielded, Over
<1>2. prep # "done"
  BY DEF Preparer, PreparerTake, PreparerEnd, PrepareOk, PrepareFail, PreparerPush,
         PreparerLeave, PreparerDrain
<1>3. ~FailuresYielded /\ ~Over /\ main # "join"
  BY <1>2 DEF InOrder, FailuresYielded, Over, PlacesInv, Stations
<1>4. ~Aborting /\ ContinueOnError
  BY DEF Aborting, InOrder, Undisturbed
<1>5. ~abortRequested'
  BY <1>4 DEF Aborting, Preparer, PreparerTake, PreparerEnd, PrepareOk, PrepareFail,
              PreparerPush, PreparerLeave, PreparerDrain, StageFails
<1>6. prep' \in {"leaving", "draining", "done"} => prefetchQueue' = <<>> /\ dl' = "done"
  <2>1. CASE PreparerTake
    BY <1>4, <2>1 DEF PreparerTake
  <2>2. CASE PreparerEnd
    BY <2>2 DEF PreparerEnd, PlacesInv, Stations
  <2>3. CASE PreparerDrain \/ PreparerLeave
    BY <2>3 DEF PreparerDrain, PreparerLeave, InOrder
  <2>4. CASE PrepareOk \/ PrepareFail \/ PreparerPush
    BY <1>4, <2>4 DEF PrepareOk, PrepareFail, PreparerPush
  <2>. QED BY <2>1, <2>2, <2>3, <2>4 DEF Preparer
<1>7. yielded.failures <= Len(pipelineFailures')
  <2>1. CASE PrepareFail
    <3>1. prepOp \in Ops /\ pipelineFailures' = Append(pipelineFailures, prepOp)
      BY <2>1 DEF PrepareFail, StageFails, PlacesInv, Stations, PipelineTypeOK, OpsOrNone
    <3>2. Len(pipelineFailures') = Len(pipelineFailures) + 1
      BY <1>0, <3>1, Added
    <3>. QED BY <1>0, <3>2 DEF InOrder
  <2>2. CASE ~PrepareFail
    BY <2>2 DEF Preparer, PreparerTake, PreparerEnd, PrepareOk, PreparerPush,
                PreparerLeave, PreparerDrain, InOrder
  <2>. QED BY <2>1, <2>2
<1>. QED BY <1>1, <1>3, <1>5, <1>6, <1>7 DEF InOrder

\* The engine goes on after each report, so the consumer comes to its end.
LEMMA MainInOrder ==
  PlacesInv /\ Undisturbed /\ Undisturbed' /\ InOrder /\ Main => InOrder'
<1>. SUFFICES ASSUME PlacesInv, Undisturbed, Undisturbed', InOrder, Main PROVE InOrder'
  OBVIOUS
<1>. USE DEF dlVars, prepVars, mainVars, engineVars
<1>0. /\ pipelineFailures \in Seq(Ops) /\ Len(pipelineFailures) \in Nat
      /\ inlineCompletions \in Seq(Ops) /\ Len(inlineCompletions) \in Nat
      /\ yielded \in [failures : Nat, inline : Nat]
      /\ \A op \in Ops : op # NoOp
      /\ cur # NoOp => cur \in Ops
  BY PipelineAssumption, LenProperties
     DEF PlacesInv, PipelineTypeOK, Ops, NoOp, OpsOrNone
<1>1. UNCHANGED <<next, dl, prefetchQueue, prep, pipelineFailures, inlineCompletions>>
  BY DEF Main, ConsumerTake, ConsumerEnd, TransferOk, TransferFail, ConsumerNext, YieldFailure,
         YieldInline, Join, Leave, Checkpoint, FinalSave, InterruptSave
<1>2. ~signal /\ ~saveFailed' /\ ContinueOnError
  BY DEF Undisturbed
<1>3. ~abortRequested'
  BY <1>2 DEF InOrder, Main, ConsumerTake, ConsumerEnd, TransferOk, TransferFail, ConsumerNext,
         YieldFailure, YieldInline, Join, Leave, Checkpoint, FinalSave, InterruptSave
<1>4. CASE ConsumerTake \/ ConsumerEnd \/ ConsumerNext
  BY <1>1, <1>3, <1>4
     DEF ConsumerTake, ConsumerEnd, ConsumerNext, InOrder, FailuresYielded, Over
<1>5. CASE TransferOk \/ TransferFail
  <2>1. PICK outcome \in Outcome : EngineSees(cur, outcome)
    BY <1>5 DEF TransferOk, TransferFail, Outcome
  <2>2. main = "transferring" /\ cur # NoOp /\ cur \in Ops
    BY <1>0, <1>5 DEF TransferOk, TransferFail, PlacesInv, Stations
  <2>3. main' \in {"checkpoint", "cleanup"}
    BY <1>2, <2>1, <2>2, Sees DEF PlacesInv
  <2>4. UNCHANGED <<cur, transferQueue, yielded>>
    BY <1>5 DEF TransferOk, TransferFail
  <2>. QED BY <1>1, <1>3, <2>2, <2>3, <2>4 DEF InOrder, FailuresYielded, Over
<1>6. CASE YieldFailure
  <2>1. /\ main = "failures" /\ cur = NoOp /\ UNCHANGED <<cur, transferQueue>>
    BY <1>6 DEF YieldFailure, PlacesInv, Stations
  <2>2. CASE yielded.failures < Len(pipelineFailures)
    <3> DEFINE op == pipelineFailures[yielded.failures + 1]
    <3>1. op \in Ops /\ op # NoOp
      BY <1>0, <2>2, LenProperties
    <3>2. EngineSees(op, "failed") /\ yielded' = [yielded EXCEPT !.failures = @ + 1]
      BY <1>6, <2>2 DEF YieldFailure
    <3>. HIDE DEF op
    <3>3. main' = "failures"
      BY <1>2, <2>1, <3>1, <3>2, Sees DEF PlacesInv, Outcome
    <3>4. /\ yielded'.failures = yielded.failures + 1
          /\ yielded'.inline = yielded.inline
      BY <1>0, <3>2
    <3>. QED BY <1>0, <1>1, <1>3, <2>1, <2>2, <3>3, <3>4 DEF InOrder, FailuresYielded, Over
  <2>3. CASE ~(yielded.failures < Len(pipelineFailures))
    <3>1. main' = "inline" /\ UNCHANGED yielded
      BY <1>6, <2>3 DEF YieldFailure
    <3>. QED BY <1>0, <1>1, <1>3, <2>1, <2>3, <3>1 DEF InOrder, FailuresYielded, Over
  <2>. QED BY <2>2, <2>3
<1>7. CASE YieldInline
  <2>1. /\ main = "inline" /\ cur = NoOp /\ UNCHANGED <<cur, transferQueue>>
    BY <1>7 DEF YieldInline, PlacesInv, Stations
  <2>2. CASE yielded.inline < Len(inlineCompletions)
    <3> DEFINE op == inlineCompletions[yielded.inline + 1]
    <3>1. op \in Ops /\ op # NoOp
      BY <1>0, <2>2, LenProperties
    <3>2. EngineSees(op, "complete") /\ yielded' = [yielded EXCEPT !.inline = @ + 1]
      BY <1>7, <2>2 DEF YieldInline
    <3>. HIDE DEF op
    <3>3. main' \in {"checkpoint", "inline"}
      BY <1>2, <2>1, <3>1, <3>2, Sees DEF PlacesInv, Outcome
    <3>4. /\ yielded'.failures = yielded.failures
          /\ yielded'.inline = yielded.inline + 1
      BY <1>0, <3>2
    <3>. QED BY <1>0, <1>1, <1>3, <2>1, <2>2, <3>3, <3>4 DEF InOrder, FailuresYielded, Over
  <2>3. CASE ~(yielded.inline < Len(inlineCompletions))
    <3>1. main' = "join" /\ UNCHANGED yielded
      BY <1>7, <2>3 DEF YieldInline
    <3>. QED BY <1>0, <1>1, <1>3, <2>1, <2>3, <3>1 DEF InOrder, FailuresYielded, Over
  <2>. QED BY <2>2, <2>3
<1>8. CASE Join
  BY <1>1, <1>3, <1>8 DEF Join, InOrder, FailuresYielded, Over, PlacesInv, Stations
<1>9. CASE Leave
  BY <1>1, <1>3, <1>9 DEF Leave, InOrder, FailuresYielded, Over
<1>10. CASE Checkpoint
  <2>1. main' = IF cur # NoOp THEN "cleanup" ELSE "inline"
    BY <1>2, <1>10 DEF Checkpoint, SaveTo
  <2>. QED BY <1>1, <1>3, <1>10, <2>1 DEF Checkpoint, InOrder, FailuresYielded, Over
<1>11. CASE FinalSave \/ InterruptSave
  <2>1. /\ main \in {"finalSave", "cli"} /\ main' \in {"cli", "done"}
        /\ UNCHANGED <<cur, transferQueue, yielded>>
    BY <1>11 DEF FinalSave, InterruptSave, SaveTo
  <2>. QED BY <1>1, <1>3, <2>1 DEF InOrder, FailuresYielded, Over
<1>. QED BY <1>4, <1>5, <1>6, <1>7, <1>8, <1>9, <1>10, <1>11 DEF Main

\* A list that grows keeps the entries up to its old length.
LEMMA Grown ==
  ASSUME NEW S, NEW s \in Seq(S), NEW e \in S
  PROVE  \A k \in DOMAIN Append(s, e) :
           k <= Len(s) => k \in DOMAIN s /\ Append(s, e)[k] = s[k]
<1>1. DOMAIN s = 1 .. Len(s) /\ Len(s) \in Nat
  BY LenProperties
<1>2. /\ DOMAIN Append(s, e) = 1 .. Len(s) + 1
      /\ \A k \in 1 .. Len(s) : Append(s, e)[k] = s[k]
  BY <1>1, AppendProperties, LenProperties
<1>. QED BY <1>1, <1>2

\* What the downloader lets go of it has listed.
LEMMA DownloaderDropsNone ==
  PlacesInv /\ Undisturbed /\ InOrder /\ NoneDropped /\ Downloader => NoneDropped'
<1>. SUFFICES ASSUME PlacesInv, Undisturbed, InOrder, NoneDropped, Downloader
              PROVE  NoneDropped'
  OBVIOUS
<1>. USE DEF dlVars, prepVars, mainVars, engineVars
<1>0. /\ next \in 1 .. Len(Plan) + 1 /\ Ops = 1 .. Len(Plan) /\ Len(Plan) \in Nat
      /\ pipelineFailures \in Seq(Ops) /\ inlineCompletions \in Seq(Ops)
      /\ prefetchQueue \in Seq(Ops)
      /\ dl \in {"fetching", "pushing"} => next > 1 /\ next - 1 \in Ops
  BY PipelineAssumption, LenProperties DEF PlacesInv, PipelineTypeOK, Stations, Ops
<1>1. UNCHANGED <<prepOp, transferQueue, main, cur, yielded, ReportedOps, Preparing,
                  Transferring>>
  BY DEF Downloader, DownloaderStop, DownloaderFetch, FetchOk, FetchFail, DownloaderPush,
         InlineOk, InlineFail, ReportedOps, Preparing, Transferring
<1>2. ContinueOnError
  BY DEF Undisturbed
<1>3. main' = "cleanup" \/ (main' = "checkpoint" /\ cur' # NoOp) => cur' \in ReportedOps'
  BY <1>1 DEF NoneDropped
<1>4. CASE DownloaderStop \/ DownloaderFetch \/ FetchOk \/ DownloaderPush
  <2>1. UNCHANGED <<pipelineFailures, inlineCompletions, Failed, Inlined>>
    BY <1>4 DEF DownloaderStop, DownloaderFetch, FetchOk, DownloaderPush, Failed, Inlined
  <2>2. 1 .. (next' - 1) \subseteq 1 .. (next - 1) \union Fetching'
    BY <1>0, <1>4 DEF DownloaderStop, DownloaderFetch, FetchOk, DownloaderPush, Fetching
  <2>3. Fetching \union Entries(prefetchQueue) \subseteq Fetching' \union Entries(prefetchQueue')
    <3>1. CASE DownloaderPush
      <4>1. Entries(prefetchQueue') = Entries(prefetchQueue) \union {next - 1}
        <5>1. next - 1 \in Ops /\ prefetchQueue' = Append(prefetchQueue, next - 1)
          BY <1>0, <3>1 DEF DownloaderPush
        <5>. QED BY <1>0, <5>1, Added
      <4>. QED BY <3>1, <4>1 DEF DownloaderPush, Fetching
    <3>2. CASE DownloaderStop \/ DownloaderFetch \/ FetchOk
      BY <3>2 DEF DownloaderStop, DownloaderFetch, FetchOk, Fetching
    <3>. QED BY <1>4, <3>1, <3>2
  <2>4. Held \subseteq Held'
    BY <1>1, <2>3 DEF Held, Upstream
  <2>5. Fetching' \subseteq Held'
    BY DEF Held, Upstream
  <2>. QED BY <1>1, <1>3, <2>1, <2>2, <2>4, <2>5 DEF NoneDropped
<1>5. CASE FetchFail \/ InlineFail
  <2>1. PICK op \in Ops : /\ pipelineFailures' = Append(pipelineFailures, op)
                          /\ 1 .. (next' - 1) \subseteq 1 .. (next - 1) \union {op}
                          /\ Fetching \subseteq {op}
    <3>1. CASE FetchFail
      BY <1>0, <3>1 DEF FetchFail, StageFails, Fetching
    <3>2. CASE InlineFail
      <4>1. /\ next \in Ops /\ Fetching = {}
            /\ pipelineFailures' = Append(pipelineFailures, next)
            /\ next' = next + 1
        BY <3>2 DEF InlineFail, StageFails, Fetching
      <4>2. 1 .. (next' - 1) \subseteq 1 .. (next - 1) \union {next}
        BY <1>0, <4>1
      <4>. QED BY <4>1, <4>2
    <3>. QED BY <1>5, <3>1, <3>2
  <2>2. /\ Failed' = Failed \union {op}
        /\ \A k \in DOMAIN pipelineFailures' : k <= Len(pipelineFailures) =>
             k \in DOMAIN pipelineFailures /\ pipelineFailures'[k] = pipelineFailures[k]
    <3>1. Entries(Append(pipelineFailures, op)) = Entries(pipelineFailures) \union {op}
      BY <1>0, <2>1, Added
    <3>2. \A k \in DOMAIN Append(pipelineFailures, op) : k <= Len(pipelineFailures) =>
            k \in DOMAIN pipelineFailures
              /\ Append(pipelineFailures, op)[k] = pipelineFailures[k]
      BY <1>0, Grown
    <3>. QED BY <2>1, <3>1, <3>2 DEF Failed
  <2>3. UNCHANGED <<prefetchQueue, inlineCompletions, Inlined, Entries(prefetchQueue)>>
    BY <1>5 DEF FetchFail, InlineFail, Inlined
  <2>4. Held \subseteq Held' \union {op}
    BY <1>1, <2>1, <2>3 DEF Held, Upstream
  <2>5. \A k \in DOMAIN pipelineFailures' :
          k <= yielded'.failures => pipelineFailures'[k] \in ReportedOps'
    <3>1. /\ yielded.failures \in Nat /\ Len(pipelineFailures) \in Nat
          /\ DOMAIN pipelineFailures' \subseteq Nat
      BY <1>0, <2>1, LenProperties, AppendProperties DEF PlacesInv, PipelineTypeOK
    <3>. QED BY <1>1, <2>2, <3>1 DEF NoneDropped, InOrder
  <2>. QED BY <1>1, <1>3, <2>1, <2>2, <2>3, <2>4, <2>5 DEF NoneDropped
<1>6. CASE InlineOk
  <2>1. /\ next \in Ops
        /\ inlineCompletions' = Append(inlineCompletions, next)
        /\ 1 .. (next' - 1) \subseteq 1 .. (next - 1) \union {next}
    BY <1>0, <1>6 DEF InlineOk
  <2>2. /\ Inlined' = Inlined \union {next}
        /\ \A k \in DOMAIN inlineCompletions' : k <= Len(inlineCompletions) =>
             k \in DOMAIN inlineCompletions /\ inlineCompletions'[k] = inlineCompletions[k]
    <3>1. Entries(Append(inlineCompletions, next)) = Entries(inlineCompletions) \union {next}
      BY <1>0, <2>1, Added
    <3>2. \A k \in DOMAIN Append(inlineCompletions, next) : k <= Len(inlineCompletions) =>
            k \in DOMAIN inlineCompletions
              /\ Append(inlineCompletions, next)[k] = inlineCompletions[k]
      BY <1>0, <2>1, Grown
    <3>. QED BY <2>1, <3>1, <3>2 DEF Inlined
  <2>3. UNCHANGED <<prefetchQueue, pipelineFailures, Failed, Entries(prefetchQueue), Held>>
    BY <1>1, <1>6 DEF InlineOk, Failed, Held, Upstream, Fetching
  <2>4. \A k \in DOMAIN inlineCompletions' :
          k <= yielded'.inline => inlineCompletions'[k] \in ReportedOps'
    <3>1. /\ yielded.inline \in Nat /\ Len(inlineCompletions) \in Nat
          /\ DOMAIN inlineCompletions' \subseteq Nat
      BY <1>0, <2>1, LenProperties, AppendProperties DEF PlacesInv, PipelineTypeOK
    <3>. QED BY <1>1, <2>2, <3>1 DEF NoneDropped, InOrder
  <2>. QED BY <1>1, <1>3, <2>1, <2>2, <2>3, <2>4 DEF NoneDropped
<1>. QED BY <1>4, <1>5, <1>6 DEF Downloader

\* Nor does the preparer drop an operation: it takes one only to prepare it.
LEMMA PreparerDropsNone ==
  PlacesInv /\ Undisturbed /\ InOrder /\ NoneDropped /\ Preparer => NoneDropped'
<1>. SUFFICES ASSUME PlacesInv, Undisturbed, InOrder, NoneDropped, Preparer
              PROVE  NoneDropped'
  OBVIOUS
<1>. USE DEF dlVars, prepVars, mainVars, engineVars
<1>0. /\ pipelineFailures \in Seq(Ops) /\ Len(pipelineFailures) \in Nat
      /\ prefetchQueue \in Seq(Ops) /\ transferQueue \in Seq(Ops)
      /\ prepOp # NoOp => prepOp \in Ops
      /\ \A op \in Ops : op # NoOp
      /\ prep \in {"preparing", "pushing"} <=> prepOp # NoOp
  BY PipelineAssumption, LenProperties
     DEF PlacesInv, PipelineTypeOK, Stations, Ops, NoOp, OpsOrNone
<1>1. UNCHANGED <<next, dl, main, cur, yielded, inlineCompletions, ReportedOps, Inlined,
                  Fetching, Transferring>>
  BY DEF Preparer, PreparerTake, PreparerEnd, PrepareOk, PrepareFail, PreparerPush,
         PreparerLeave, PreparerDrain, ReportedOps, Inlined, Fetching, Transferring
<1>2. ~Aborting
  BY DEF Aborting, InOrder, Undisturbed
<1>3. CASE PrepareFail
  <2>1. /\ prepOp \in Ops /\ pipelineFailures' = Append(pipelineFailures, prepOp)
        /\ Preparing = {prepOp}
        /\ UNCHANGED <<Entries(prefetchQueue), Entries(transferQueue)>>
    BY <1>0, <1>3 DEF PrepareFail, StageFails, Preparing
  <2>2. Failed' = Failed \union {prepOp}
    <3>1. Entries(Append(pipelineFailures, prepOp)) = Entries(pipelineFailures) \union {prepOp}
      BY <1>0, <2>1, Added
    <3>. QED BY <2>1, <3>1 DEF Failed
  <2>3. \A k \in DOMAIN Append(pipelineFailures, prepOp) : k <= Len(pipelineFailures) =>
            k \in DOMAIN pipelineFailures
              /\ Append(pipelineFailures, prepOp)[k] = pipelineFailures[k]
    BY <1>0, <2>1, Grown
  <2>4. Held \subseteq Held' \union {prepOp}
    BY <1>1, <2>1 DEF Held, Upstream
  <2>5. \A k \in DOMAIN pipelineFailures' :
          k <= yielded'.failures => pipelineFailures'[k] \in ReportedOps'
    <3>1. /\ yielded.failures \in Nat
          /\ DOMAIN pipelineFailures' \subseteq Nat
      BY <1>0, <2>1, LenProperties, AppendProperties DEF PlacesInv, PipelineTypeOK
    <3>. QED BY <1>0, <1>1, <2>1, <2>3, <3>1 DEF NoneDropped, InOrder
  <2>. QED BY <1>1, <2>2, <2>4, <2>5 DEF NoneDropped
<1>4. CASE ~PrepareFail
  <2>1. UNCHANGED <<pipelineFailures, Failed>>
    BY <1>4 DEF Preparer, PreparerTake, PreparerEnd, PrepareOk, PreparerPush,
                PreparerLeave, PreparerDrain, Failed
  <2>2. Held \subseteq Held'
    <3>1. CASE PreparerTake
      <4>1. /\ prefetchQueue # <<>> /\ prefetchQueue' = Tail(prefetchQueue)
            /\ prepOp' = Head(prefetchQueue) /\ UNCHANGED transferQueue
            /\ Preparing = {}
        BY <1>0, <1>2, <3>1 DEF PreparerTake, Preparing
      <4>2. /\ Entries(prefetchQueue) = Entries(Tail(prefetchQueue)) \union {Head(prefetchQueue)}
            /\ Head(prefetchQueue) \in Ops
        BY <1>0, <4>1, Taken
      <4>3. Preparing' = {Head(prefetchQueue)}
        BY <1>0, <4>1, <4>2 DEF Preparing
      <4>. QED BY <1>1, <4>1, <4>2, <4>3 DEF Held, Upstream
    <3>2. CASE PreparerPush
      <4>1. /\ transferQueue' = Append(transferQueue, prepOp) /\ prepOp \in Ops
            /\ Preparing = {prepOp} /\ UNCHANGED prefetchQueue
        BY <1>0, <3>2 DEF PreparerPush, Preparing
      <4>2. Entries(transferQueue') = Entries(transferQueue) \union {prepOp}
        BY <1>0, <4>1, Added
      <4>. QED BY <1>1, <4>1, <4>2 DEF Held, Upstream
    <3>3. CASE PreparerDrain
      BY <1>1, <3>3 DEF PreparerDrain, InOrder, Held, Upstream, Preparing
    <3>4. CASE PreparerEnd \/ PrepareOk \/ PreparerLeave
      BY <1>1, <3>4 DEF PreparerEnd, PrepareOk, PreparerLeave, Held, Upstream, Preparing
    <3>. QED BY <1>4, <3>1, <3>2, <3>3, <3>4 DEF Preparer
  <2>. QED BY <1>1, <2>1, <2>2 DEF NoneDropped
<1>. QED BY <1>3, <1>4

\* The consumer lets an operation go when the engine has counted it.
LEMMA MainDropsNone ==
  PlacesInv /\ Undisturbed /\ Undisturbed' /\ InOrder /\ NoneDropped /\ Main => NoneDropped'
<1>. SUFFICES ASSUME PlacesInv, Undisturbed, Undisturbed', InOrder, NoneDropped, Main
              PROVE  NoneDropped'
  OBVIOUS
<1>. USE DEF dlVars, prepVars, mainVars, engineVars
<1>0. /\ pipelineFailures \in Seq(Ops) /\ Len(pipelineFailures) \in Nat
      /\ DOMAIN pipelineFailures = 1 .. Len(pipelineFailures)
      /\ inlineCompletions \in Seq(Ops) /\ Len(inlineCompletions) \in Nat
      /\ DOMAIN inlineCompletions = 1 .. Len(inlineCompletions)
      /\ transferQueue \in Seq(Ops)
      /\ yielded \in [failures : Nat, inline : Nat]
      /\ \A op \in Ops : op # NoOp
      /\ cur # NoOp => cur \in Ops
  BY PipelineAssumption, LenProperties
     DEF PlacesInv, PipelineTypeOK, Ops, NoOp, OpsOrNone
<1>1. UNCHANGED <<next, pipelineFailures, inlineCompletions, Failed, Inlined, Fetching,
                  Preparing, Entries(prefetchQueue)>>
  BY DEF Main, ConsumerTake, ConsumerEnd, TransferOk, TransferFail, ConsumerNext, YieldFailure,
         YieldInline, Join, Leave, Checkpoint, FinalSave, InterruptSave, Failed, Inlined,
         Fetching, Preparing
<1>2. ~signal /\ ~saveFailed' /\ ContinueOnError
  BY DEF Undisturbed
<1>3. CASE ConsumerTake
  <2>1. /\ transferQueue # <<>> /\ transferQueue' = Tail(transferQueue)
        /\ cur' = Head(transferQueue) /\ cur = NoOp /\ main' = "transferring"
        /\ UNCHANGED <<yielded, ReportedOps>>
    BY <1>3 DEF ConsumerTake, PlacesInv, Stations, ReportedOps
  <2>2. /\ Entries(transferQueue) = Entries(transferQueue') \union {cur'}
        /\ cur' \in Ops
    BY <1>0, <2>1, Taken
  <2>3. Held \subseteq Held'
    BY <1>0, <1>1, <2>1, <2>2 DEF Held, Upstream, Transferring
  <2>. QED BY <1>1, <2>1, <2>3 DEF NoneDropped
<1>4. CASE TransferOk \/ TransferFail
  <2>1. PICK outcome \in Outcome : EngineSees(cur, outcome)
    BY <1>4 DEF TransferOk, TransferFail, Outcome
  <2>2. cur # NoOp /\ cur \in Ops
    BY <1>0, <1>4 DEF TransferOk, TransferFail, PlacesInv, Stations
  <2>3. ReportedOps' = ReportedOps \union {cur}
    BY <1>2, <2>1, <2>2, Sees DEF PlacesInv
  <2>4. UNCHANGED <<cur, transferQueue, yielded, Held>>
    BY <1>1, <1>4 DEF TransferOk, TransferFail, Held, Upstream, Transferring
  <2>. QED BY <1>1, <2>3, <2>4 DEF NoneDropped
<1>5. CASE ConsumerNext
  <2>1. /\ main = "cleanup" /\ main' = "pop" /\ cur \in ReportedOps
        /\ UNCHANGED <<transferQueue, yielded, ReportedOps>>
    BY <1>5 DEF ConsumerNext, ReportedOps, NoneDropped
  <2>2. Held \subseteq Held' \union {cur}
    BY <1>1, <2>1 DEF Held, Upstream, Transferring
  <2>. QED BY <1>1, <2>1, <2>2 DEF NoneDropped
<1>6. CASE YieldFailure
  <2>1. /\ main = "failures" /\ cur = NoOp /\ UNCHANGED <<cur, transferQueue, Held>>
    BY <1>1, <1>6 DEF YieldFailure, PlacesInv, Stations, Held, Upstream, Transferring
  <2>2. CASE yielded.failures < Len(pipelineFailures)
    <3> DEFINE op == pipelineFailures[yielded.failures + 1]
    <3>1. op \in Ops /\ op # NoOp
      BY <1>0, <2>2
    <3>2. EngineSees(op, "failed") /\ yielded' = [yielded EXCEPT !.failures = @ + 1]
      BY <1>6, <2>2 DEF YieldFailure
    <3>3. /\ yielded'.failures = yielded.failures + 1
          /\ yielded'.inline = yielded.inline
      BY <1>0, <3>2
    <3>4. \A k \in DOMAIN pipelineFailures : k <= yielded.failures + 1 =>
            k <= yielded.failures \/ pipelineFailures[k] = op
      BY <1>0
    <3>. HIDE DEF op
    <3>5. main' = "failures" /\ ReportedOps' = ReportedOps \union {op}
      BY <1>2, <2>1, <3>1, <3>2, Sees DEF PlacesInv, Outcome
    <3>. QED BY <1>1, <2>1, <3>3, <3>4, <3>5 DEF NoneDropped
  <2>3. CASE ~(yielded.failures < Len(pipelineFailures))
    <3>1. main' = "inline" /\ UNCHANGED <<yielded, ReportedOps>>
      BY <1>6, <2>3 DEF YieldFailure, ReportedOps
    <3>. QED BY <1>1, <2>1, <3>1 DEF NoneDropped
  <2>. QED BY <2>2, <2>3
<1>7. CASE YieldInline
  <2>1. /\ main = "inline" /\ cur = NoOp /\ UNCHANGED <<cur, transferQueue, Held>>
    BY <1>1, <1>7 DEF YieldInline, PlacesInv, Stations, Held, Upstream, Transferring
  <2>2. CASE yielded.inline < Len(inlineCompletions)
    <3> DEFINE op == inlineCompletions[yielded.inline + 1]
    <3>1. op \in Ops /\ op # NoOp
      BY <1>0, <2>2
    <3>2. EngineSees(op, "complete") /\ yielded' = [yielded EXCEPT !.inline = @ + 1]
      BY <1>7, <2>2 DEF YieldInline
    <3>3. /\ yielded'.inline = yielded.inline + 1
          /\ yielded'.failures = yielded.failures
      BY <1>0, <3>2
    <3>4. \A k \in DOMAIN inlineCompletions : k <= yielded.inline + 1 =>
            k <= yielded.inline \/ inlineCompletions[k] = op
      BY <1>0
    <3>. HIDE DEF op
    <3>5. main' \in {"checkpoint", "inline"} /\ ReportedOps' = ReportedOps \union {op}
      BY <1>2, <2>1, <3>1, <3>2, Sees DEF PlacesInv, Outcome
    <3>. QED BY <1>1, <2>1, <3>3, <3>4, <3>5 DEF NoneDropped
  <2>3. CASE ~(yielded.inline < Len(inlineCompletions))
    <3>1. main' = "join" /\ UNCHANGED <<yielded, ReportedOps>>
      BY <1>7, <2>3 DEF YieldInline, ReportedOps
    <3>. QED BY <1>1, <2>1, <3>1 DEF NoneDropped
  <2>. QED BY <2>2, <2>3
<1>8. CASE Leave
  <2>1. cur = NoOp /\ cur' = NoOp /\ main' = "finalSave"
    BY <1>8 DEF Leave, InOrder, Over
  <2>2. UNCHANGED <<transferQueue, yielded, ReportedOps, Held>>
    BY <1>1, <1>8, <2>1 DEF Leave, ReportedOps, Held, Upstream, Transferring
  <2>. QED BY <1>1, <2>1, <2>2 DEF NoneDropped
<1>9. CASE Checkpoint
  <2>1. main = "checkpoint" /\ main' = IF cur # NoOp THEN "cleanup" ELSE "inline"
    BY <1>2, <1>9 DEF Checkpoint, SaveTo
  <2>2. UNCHANGED <<cur, yielded, ReportedOps, Held>>
    BY <1>1, <1>9 DEF Checkpoint, ReportedOps, Held, Upstream, Transferring
  <2>. QED BY <1>1, <2>1, <2>2 DEF NoneDropped
<1>10. CASE ConsumerEnd \/ Join \/ FinalSave \/ InterruptSave
  <2>1. /\ main' \in {"failures", "leave", "cli", "done"}
        /\ UNCHANGED <<cur, yielded, ReportedOps, Held>>
    BY <1>1, <1>10
       DEF ConsumerEnd, Join, FinalSave, InterruptSave, SaveTo, ReportedOps, Held, Upstream,
           Transferring
  <2>. QED BY <1>1, <2>1 DEF NoneDropped
<1>. QED BY <1>3, <1>4, <1>5, <1>6, <1>7, <1>8, <1>9, <1>10 DEF Main

-----------------------------------------------------------------------------
(* The saves.                                                              *)

\* An undisturbed batch that is over has reported every operation.
LEMMA AllReported ==
  ASSUME PlacesInv, InOrder, NoneDropped, Over
  PROVE  Ops \subseteq ReportedOps /\ Upstream = {}
<1>1. /\ Ops = 1 .. Len(Plan) /\ next = Len(Plan) + 1 /\ Len(Plan) \in Nat
      /\ dl = "done" /\ prefetchQueue = <<>> /\ prepOp = NoOp /\ transferQueue = <<>>
      /\ cur = NoOp
  BY PipelineAssumption, LenProperties DEF Ops, InOrder, PlacesInv, Stations
<1>2. Upstream = {} /\ Held = {}
  BY <1>1, NoEntries DEF Held, Upstream, Fetching, Preparing, Transferring
<1>3. Failed \subseteq ReportedOps
  <2>1. /\ DOMAIN pipelineFailures = 1 .. Len(pipelineFailures)
        /\ Len(pipelineFailures) \in Nat
        /\ yielded.failures = Len(pipelineFailures)
    BY LenProperties DEF PlacesInv, PipelineTypeOK, InOrder, FailuresYielded
  <2>. QED BY <2>1 DEF NoneDropped, Failed, Entries
<1>4. Inlined \subseteq ReportedOps
  <2>1. /\ DOMAIN inlineCompletions = 1 .. Len(inlineCompletions)
        /\ Len(inlineCompletions) \in Nat
        /\ yielded.inline = Len(inlineCompletions)
    BY LenProperties DEF PlacesInv, PipelineTypeOK, InOrder
  <2>. QED BY <2>1 DEF NoneDropped, Inlined, Entries
<1>5. 1 .. (next - 1) = Ops
  BY <1>1
<1>. QED BY <1>2, <1>3, <1>4, <1>5 DEF NoneDropped

\* The device is at rest when the engine has left: the stages have ended, or
\* the signal keeps the downloader from inline operations.
LEMMA StagesSaves ==
  Saves /\ Accounted /\ (Downloader \/ Preparer) => Saves'
<1>. SUFFICES ASSUME Saves, Accounted, Downloader \/ Preparer PROVE Saves'
  OBVIOUS
<1>1. UNCHANGED <<main, signal, saveFailed, saved, engineAborted, shown>>
  BY DEF Downloader, DownloaderStop, DownloaderFetch, FetchOk, FetchFail, DownloaderPush,
         InlineOk, InlineFail, Preparer, PreparerTake, PreparerEnd, PrepareOk, PrepareFail,
         PreparerPush, PreparerLeave, PreparerDrain, mainVars, engineVars
<1>2. signal \/ dl = "done" => applied' = applied
  BY DEF Downloader, DownloaderStop, DownloaderFetch, FetchOk, FetchFail, DownloaderPush,
         InlineOk, InlineFail, Preparer, PreparerTake, PreparerEnd, PrepareOk, PrepareFail,
         PreparerPush, PreparerLeave, PreparerDrain, Aborting
<1>3. Undisturbed /\ main \in {"cli", "done"} => dl = "done"
  BY DEF Accounted, InOrder, Over
<1>4. Undisturbed' = Undisturbed
  BY <1>1 DEF Undisturbed
<1>. QED BY <1>1, <1>2, <1>3, <1>4 DEF Saves, CountedInterruptSaves

\* The final save, and the CLI's after an interrupt, record what is applied.
LEMMA MainSaves ==
  PlacesInv /\ Saves /\ Accounted /\ Main => Saves'
<1>. SUFFICES ASSUME PlacesInv, Saves, Accounted, Main PROVE Saves'
  OBVIOUS
<1>. USE DEF dlVars, prepVars, mainVars, engineVars
<1>0. UNCHANGED signal /\ (saveFailed => saveFailed')
  BY DEF Main, ConsumerTake, ConsumerEnd, TransferOk, TransferFail, ConsumerNext, YieldFailure,
         YieldInline, Join, Leave, Checkpoint, FinalSave, InterruptSave, SaveTo
<1>1. engineAborted' => signal'
  <2>1. CASE TransferOk \/ TransferFail \/ YieldFailure \/ YieldInline
    BY <1>0, <2>1 DEF TransferOk, TransferFail, YieldFailure, YieldInline, EngineSees, Saves
  <2>2. CASE \/ ConsumerTake \/ ConsumerEnd \/ ConsumerNext \/ Join \/ Leave \/ Checkpoint
             \/ FinalSave \/ InterruptSave
    BY <1>0, <2>2 DEF ConsumerTake, ConsumerEnd, ConsumerNext, Join, Leave, Checkpoint,
                      FinalSave, InterruptSave, Saves
  <2>. QED BY <2>1, <2>2 DEF Main
<1>2. CASE FinalSave
  <2>1. main = "finalSave" /\ main' = "cli" /\ applied' = applied
    BY <1>2 DEF FinalSave, SaveTo
  <2>2. Undisturbed' => saved' = applied
    <3>. SUFFICES ASSUME Undisturbed' PROVE saved' = applied
      OBVIOUS
    <3>1. Undisturbed /\ ~engineAborted /\ ~saveFailed'
      BY <1>0 DEF Undisturbed, Saves
    <3>2. reports # <<>>
      <4>1. Ops \subseteq ReportedOps
        BY <2>1, <3>1, AllReported DEF Accounted, Over
      <4>2. 1 \in Ops
        BY PipelineAssumption, LenProperties, EmptySeq DEF Ops
      <4>. QED BY <4>1, <4>2 DEF ReportedOps
    <3>. QED BY <1>2, <3>1, <3>2 DEF FinalSave, SaveTo
  <2>. QED BY <1>1, <2>1, <2>2 DEF Saves, CountedInterruptSaves
<1>3. CASE InterruptSave
  <2>1. /\ main = "cli" /\ main' = "done" /\ UNCHANGED <<applied, shown>>
        /\ IF signal /\ shown > 0
             THEN saved' = applied \/ saveFailed' = TRUE
             ELSE UNCHANGED saved
    BY <1>3 DEF InterruptSave, SaveTo
  <2>. QED BY <1>0, <1>1, <2>1 DEF Saves, CountedInterruptSaves, Undisturbed
<1>4. CASE ~FinalSave /\ ~InterruptSave
  <2>1. main' \notin {"cli", "done"}
    <3>1. CASE TransferOk \/ TransferFail
      <4>1. PICK outcome \in Outcome : EngineSees(cur, outcome)
        BY <3>1 DEF TransferOk, TransferFail, Outcome
      <4>2. cur \in Ops /\ main = "transferring"
        BY <3>1 DEF TransferOk, TransferFail, PlacesInv, Stations, PipelineTypeOK, OpsOrNone
      <4>. QED BY <4>1, <4>2, SeesTypes DEF PlacesInv
    <3>2. CASE YieldFailure \/ YieldInline
      BY <3>2 DEF YieldFailure, YieldInline, EngineSees, ResumeAfter
    <3>3. CASE ConsumerTake \/ ConsumerEnd \/ ConsumerNext \/ Join \/ Leave \/ Checkpoint
      BY <3>3 DEF ConsumerTake, ConsumerEnd, ConsumerNext, Join, Leave, Checkpoint, SaveTo
    <3>. QED BY <1>4, <3>1, <3>2, <3>3 DEF Main
  <2>. QED BY <1>1, <2>1 DEF Saves, CountedInterruptSaves
<1>. QED BY <1>2, <1>3, <1>4

-----------------------------------------------------------------------------
(* The invariant.                                                          *)

LEMMA InitInvariant == Init => IInv
<1>. SUFFICES ASSUME Init PROVE IInv
  OBVIOUS
<1>1. PipelineTypeOK
  BY TypeInit
<1>2. Stations
  BY DEF Init, Stations
<1>3. /\ Entries(prefetchQueue) = {} /\ Entries(transferQueue) = {}
      /\ Fetching = {} /\ Preparing = {} /\ Transferring = {}
      /\ Failed = {} /\ Inlined = {} /\ ReportedOps = {}
      /\ Held = {} /\ Upstream = {} /\ Prepared = {}
      /\ DOMAIN pipelineFailures = {} /\ DOMAIN inlineCompletions = {} /\ DOMAIN reports = {}
      /\ Len(pipelineFailures) = 0 /\ Len(inlineCompletions) = 0
      /\ Distinct(prefetchQueue) /\ Distinct(transferQueue)
      /\ Distinct(pipelineFailures) /\ Distinct(inlineCompletions)
  BY NoEntries DEF Init, Held, Upstream, Fetching, Preparing, Transferring, Failed, Inlined,
                   ReportedOps, Prepared
<1>4. OnePlace
  BY <1>3 DEF OnePlace
<1>5. Outcomes /\ InTurn /\ ReportsHonest
  BY <1>3 DEF Init, Outcomes, InTurn, ReportsHonest
<1>6. Temps
  BY <1>3 DEF Init, Temps
<1>7. Accounted
  <2>1. Len(Plan) \in Nat
    BY PipelineAssumption, LenProperties
  <2>2. InOrder
    BY <1>3 DEF Init, InOrder, Over, FailuresYielded
  <2>3. NoneDropped
    BY <1>3 DEF Init, NoneDropped
  <2>. QED BY <2>2, <2>3 DEF Accounted
<1>8. Saves
  BY DEF Init, Saves, CountedInterruptSaves
<1>. QED BY <1>1, <1>2, <1>4, <1>5, <1>6, <1>7, <1>8 DEF IInv

\* A signal leaves everything where it is.
LEMMA InterruptInvariant == IInv /\ Interrupt => IInv'
<1>. SUFFICES ASSUME IInv, Interrupt PROVE IInv'
  OBVIOUS
<1>. USE DEF dlVars, prepVars, mainVars, engineVars
<1>1. /\ signal' = TRUE /\ main \notin {"cli", "done"}
      /\ UNCHANGED <<next, dl, prefetchQueue, prefetchClosed, prep, prepOp, transferQueue,
                     transferClosed, main, cur, yielded, engineAborted, reports, shown,
                     saveFailed, dirGone, saved, abortRequested, pipelineFailures,
                     inlineCompletions, downloads, outputs, applied>>
  BY DEF Interrupt
<1>2. /\ UNCHANGED <<Fetching, Preparing, Transferring, Failed, Inlined, ReportedOps, Prepared,
                     Held, Upstream>>
      /\ ~Undisturbed'
  BY <1>1 DEF Fetching, Preparing, Transferring, Failed, Inlined, ReportedOps, Prepared, Held,
              Upstream, Undisturbed
<1>3. PipelineTypeOK'
  BY <1>1 DEF IInv, PipelineTypeOK
<1>4. Stations'
  BY <1>1 DEF IInv, Stations
<1>5. OnePlace'
  BY <1>1, <1>2 DEF IInv, OnePlace
<1>6. Outcomes' /\ InTurn' /\ ReportsHonest'
  BY <1>1, <1>2 DEF IInv, Outcomes, InTurn, ReportsHonest
<1>7. Temps'
  BY <1>1, <1>2 DEF IInv, Temps
<1>8. Accounted' /\ Saves'
  BY <1>1, <1>2 DEF Accounted, Saves, CountedInterruptSaves
<1>. QED BY <1>3, <1>4, <1>5, <1>6, <1>7, <1>8 DEF IInv

LEMMA StutterInvariant == IInv /\ UNCHANGED vars => IInv'
<1>. SUFFICES ASSUME IInv, UNCHANGED vars PROVE IInv'
  OBVIOUS
<1>1. UNCHANGED <<Fetching, Preparing, Transferring, Failed, Inlined, ReportedOps, Prepared,
                  Held, Upstream, Undisturbed, Over, FailuresYielded>>
  BY DEF vars, dlVars, prepVars, mainVars, engineVars, Fetching, Preparing, Transferring, Failed,
         Inlined, ReportedOps, Prepared, Held, Upstream, Undisturbed, Over, FailuresYielded
<1>. USE DEF vars, dlVars, prepVars, mainVars, engineVars
<1>2. PipelineTypeOK'
  BY DEF IInv, PipelineTypeOK
<1>3. Stations' /\ OnePlace'
  BY <1>1 DEF IInv, Stations, OnePlace
<1>4. Outcomes' /\ InTurn' /\ ReportsHonest'
  BY <1>1 DEF IInv, Outcomes, InTurn, ReportsHonest
<1>5. Temps'
  BY <1>1 DEF IInv, Temps
<1>6. Accounted'
  BY <1>1 DEF IInv, Accounted, InOrder, NoneDropped
<1>7. Saves'
  BY <1>1 DEF IInv, Saves, CountedInterruptSaves
<1>. QED BY <1>2, <1>3, <1>4, <1>5, <1>6, <1>7 DEF IInv

LEMMA NextInvariant == IInv /\ [Next]_vars => IInv'
<1>. SUFFICES ASSUME IInv, [Next]_vars PROVE IInv'
  OBVIOUS
<1>. USE DEF IInv, PlacesInv, OutcomesInv
<1>1. CASE Downloader
  <2>1. PipelineTypeOK' /\ Stations' /\ OnePlace'
    BY <1>1, DownloaderTypes, DownloaderStations, DownloaderPlaces
  <2>2. Outcomes' /\ InTurn' /\ ReportsHonest'
    BY <1>1, DownloaderOutcomes, StagesHonest
  <2>3. Temps' /\ Saves'
    BY <1>1, DownloaderTemps, StagesSaves
  <2>4. Undisturbed' => Undisturbed
    BY <1>1 DEF Undisturbed, Downloader, DownloaderStop, DownloaderFetch, FetchOk, FetchFail,
                DownloaderPush, InlineOk, InlineFail, mainVars
  <2>5. Accounted'
    BY <1>1, <2>4, DownloaderInOrder, DownloaderDropsNone DEF Accounted
  <2>. QED BY <2>1, <2>2, <2>3, <2>5
<1>2. CASE Preparer
  <2>1. PipelineTypeOK' /\ Stations' /\ OnePlace'
    BY <1>2, PreparerTypes, PreparerStations, PreparerPlaces
  <2>2. Outcomes' /\ InTurn' /\ ReportsHonest'
    BY <1>2, PreparerOutcomes, StagesHonest
  <2>3. Temps' /\ Saves'
    BY <1>2, PreparerTemps, StagesSaves
  <2>4. Undisturbed' => Undisturbed
    BY <1>2 DEF Undisturbed, Preparer, PreparerTake, PreparerEnd, PrepareOk, PrepareFail,
                PreparerPush, PreparerLeave, PreparerDrain, mainVars
  <2>5. Accounted'
    BY <1>2, <2>4, PreparerInOrder, PreparerDropsNone DEF Accounted
  <2>. QED BY <2>1, <2>2, <2>3, <2>5
<1>3. CASE Main
  <2>1. PipelineTypeOK' /\ Stations' /\ OnePlace'
    BY <1>3, MainTypes, MainStations, MainPlaces
  <2>2. Outcomes' /\ InTurn' /\ ReportsHonest'
    BY <1>3, MainOutcomes
  <2>3. Temps' /\ Saves'
    BY <1>3, MainTemps, MainSaves
  <2>4. Undisturbed' => Undisturbed
    BY <1>3 DEF Undisturbed, Main, ConsumerTake, ConsumerEnd, TransferOk, TransferFail,
                ConsumerNext, YieldFailure, YieldInline, Join, Leave, Checkpoint, FinalSave,
                InterruptSave, SaveTo
  <2>5. Accounted'
    BY <1>3, <2>4, MainInOrder, MainDropsNone DEF Accounted
  <2>. QED BY <2>1, <2>2, <2>3, <2>5
<1>4. CASE Interrupt
  BY <1>4, InterruptInvariant
<1>5. CASE Finished \/ UNCHANGED vars
  BY <1>5, StutterInvariant DEF Finished
<1>. QED BY <1>1, <1>2, <1>3, <1>4, <1>5 DEF Next

LEMMA Invariant == Spec => []IInv
BY InitInvariant, NextInvariant, PTL DEF Spec

-----------------------------------------------------------------------------
(* The theorems.                                                           *)

\* The values of all variables stay in their sets: queues, lists and reports
\* name operations of the plan, and every task is at one of its places.
THEOREM PipelineTypeCorrect == Spec => []PipelineTypeOK
<1>1. IInv => PipelineTypeOK
  BY DEF IInv
<1>. QED BY <1>1, Invariant, PTL

\* Every temp file, downloaded or transcoded, belongs to the one operation
\* that the pipeline still holds in one place, and what a later stage will read
\* is there: on every exit, failure and drain, interrupted or not.
THEOREM PipelineTempsOwned == Spec => []TempsOwned
<1>1. IInv => TempsOwned
  <2>. SUFFICES ASSUME IInv PROVE TempsOwned
    OBVIOUS
  <2> DEFINE places == <<Fetching, Entries(prefetchQueue), Preparing,
                         Entries(transferQueue), Transferring>>
             ready == Entries(transferQueue)
                        \union (IF main = "transferring" THEN {cur} ELSE {})
  <2>1. DOMAIN places = 1 .. 5
    OBVIOUS
  <2>2. UNION {places[k] : k \in DOMAIN places} = Held
    <3>1. UNION {places[k] : k \in DOMAIN places}
            = places[1] \union places[2] \union places[3] \union places[4] \union places[5]
      BY <2>1
    <3>. QED BY <3>1 DEF Held, Upstream
  <2>3. downloads \union outputs \subseteq Held
    <3>1. prep = "pushing" => prepOp \in Preparing
      BY DEF IInv, Stations, Preparing
    <3>. QED BY <3>1 DEF IInv, Temps, Held, Upstream
  <2>4. \A j, k \in DOMAIN places : j # k => places[j] \intersect places[k] = {}
    <3>1. /\ places[1] = Fetching /\ places[2] = Entries(prefetchQueue)
          /\ places[3] = Preparing /\ places[4] = Entries(transferQueue)
          /\ places[5] = Transferring
      OBVIOUS
    <3>. HIDE DEF places
    <3>2. \A j, k \in 1 .. 5 : j < k => places[j] \intersect places[k] = {}
      BY <3>1 DEF IInv, OnePlace, Upstream
    <3>. QED BY <2>1, <3>2
  <2>5. ready \subseteq Prepared
    BY DEF Prepared
  <2>. QED BY <2>2, <2>3, <2>4, <2>5 DEF IInv, Temps, TempsOwned
<1>. QED BY <1>1, Invariant, PTL

\* The engine hears of an operation at most once, and "complete" only of what
\* is on the device, through transfers, failures and inline operations alike.
THEOREM PipelineReportsHonest == Spec => []ReportsHonest
<1>1. IInv => ReportsHonest
  BY DEF IInv
<1>. QED BY <1>1, Invariant, PTL

\* In a run that continues on errors, as the CLI's do, a batch that was neither
\* interrupted nor failed to save has counted every operation, left no temp file
\* and no stage running, and saved all it did.
THEOREM PipelineRunAccounted == ContinueOnError => (Spec => []RunAccounted)
<1>1. IInv /\ ContinueOnError => RunAccounted
  <2>. SUFFICES ASSUME IInv, ContinueOnError, main = "done", ~signal, ~saveFailed
                PROVE  /\ {reports[k].op : k \in DOMAIN reports} = Ops
                       /\ dl = "done" /\ prep = "done"
                       /\ downloads = {} /\ outputs = {}
                       /\ saved = applied
    BY DEF RunAccounted
  <2>1. Undisturbed /\ Over /\ InOrder /\ NoneDropped /\ PlacesInv
    BY DEF Undisturbed, Over, IInv, Accounted, PlacesInv
  <2>2. Ops \subseteq ReportedOps /\ Upstream = {}
    BY <2>1, AllReported
  <2>3. ReportedOps \subseteq Ops
    <3> DEFINE R == [op : Ops, outcome : {"complete", "failed"}]
    <3>1. reports \in Seq(R) /\ \A r \in R : r.op \in Ops
      BY DEF IInv, PipelineTypeOK
    <3>. HIDE DEF R
    <3>2. \A k \in DOMAIN reports : reports[k] \in R
      BY <3>1, LenProperties
    <3>. QED BY <3>1, <3>2 DEF ReportedOps
  <2>4. dl = "done" /\ prep = "done" /\ transferQueue = <<>> /\ cur = NoOp
    BY <2>1 DEF InOrder
  <2>5. downloads = {} /\ outputs = {}
    BY <2>2, <2>4, NoEntries DEF IInv, Temps, Held, Transferring
  <2>6. saved = applied
    BY <2>1 DEF IInv, Saves
  <2>. QED BY <2>2, <2>3, <2>4, <2>5, <2>6 DEF ReportedOps
<1>. SUFFICES ASSUME ContinueOnError PROVE Spec => []RunAccounted
  OBVIOUS
<1>2. IInv => RunAccounted
  BY <1>1
<1>. QED BY <1>2, Invariant, PTL

\* After an interrupt with a completed operation counted, the CLI's save
\* covers everything on the device, what was finished after the signal included.
THEOREM PipelineInterruptSaves == Spec => []CountedInterruptSaves
<1>1. IInv => CountedInterruptSaves
  BY DEF IInv, Saves
<1>. QED BY <1>1, Invariant, PTL

\* In a run that continues on errors no stage changes the device once the
\* engine has left the generator, unless a save threw: the later saves see the
\* device at rest.
THEOREM PipelineQuietAfterReturn == ContinueOnError => (Spec => QuietAfterReturn)
<1>. SUFFICES ASSUME ContinueOnError PROVE Spec => QuietAfterReturn
  OBVIOUS
<1>1. IInv /\ [Next]_vars => [(AfterBatch /\ ~saveFailed) => (applied' = applied)]_vars
  <2>. SUFFICES ASSUME IInv, Next, AfterBatch, ~saveFailed PROVE applied' = applied
    OBVIOUS
  <2>1. CASE Downloader
    <3>1. CASE signal
      BY <2>1, <3>1 DEF Downloader, DownloaderStop, DownloaderFetch, FetchOk, FetchFail,
                        DownloaderPush, InlineOk, InlineFail, Aborting
    <3>2. CASE ~signal
      <4>1. dl = "done"
        BY <3>2 DEF IInv, Accounted, Undisturbed, InOrder, Over, AfterBatch
      <4>. QED BY <2>1, <4>1 DEF Downloader, DownloaderStop, DownloaderFetch, FetchOk, FetchFail,
                                 DownloaderPush, InlineOk, InlineFail
    <3>. QED BY <3>1, <3>2
  <2>2. CASE Preparer
    BY <2>2 DEF Preparer, PreparerTake, PreparerEnd, PrepareOk, PrepareFail, PreparerPush,
                PreparerLeave, PreparerDrain
  <2>3. CASE Main
    BY <2>3 DEF AfterBatch, Main, ConsumerTake, ConsumerEnd, TransferOk, TransferFail,
                ConsumerNext, YieldFailure, YieldInline, Join, Leave, Checkpoint, FinalSave,
                InterruptSave
  <2>4. CASE Interrupt \/ Finished
    BY <2>4 DEF Interrupt, Finished, vars
  <2>. QED BY <2>1, <2>2, <2>3, <2>4 DEF Next
<1>. QED BY <1>1, Invariant, PTL DEF Spec, QuietAfterReturn

-----------------------------------------------------------------------------
(* How many temp files there are at once.                                  *)

\* Neither queue outgrows its size.
RoomKept == Len(prefetchQueue) <= PrefetchSize /\ Len(transferQueue) <= TransferSize

LEMMA RoomStaysKept == IInv /\ RoomKept /\ [Next]_vars => RoomKept'
<1>. SUFFICES ASSUME IInv, RoomKept, [Next]_vars PROVE RoomKept'
  OBVIOUS
<1>1. /\ prefetchQueue \in Seq(Ops) /\ transferQueue \in Seq(Ops)
      /\ next - 1 \in Ops \/ dl \notin {"fetching", "pushing"}
      /\ prepOp \in Ops \/ prep # "pushing"
      /\ PrefetchSize \in Nat /\ TransferSize \in Nat
  BY PipelineAssumption, LenProperties
     DEF IInv, PipelineTypeOK, Stations, Ops, OpsOrNone, NoOp
<1>2. ASSUME NEW q \in Seq(Ops), q # <<>> PROVE Len(Tail(q)) <= Len(q)
  BY <1>2, HeadTailProperties, LenProperties, EmptySeq
<1>3. ASSUME NEW q \in Seq(Ops), NEW e \in Ops PROVE Len(Append(q, e)) = Len(q) + 1
  BY Added
<1>4. Len(prefetchQueue') <= PrefetchSize
  <2>1. CASE DownloaderPush
    BY <1>1, <1>3, <2>1, LenProperties DEF DownloaderPush
  <2>2. \/ DownloaderPush
        \/ UNCHANGED prefetchQueue
        \/ prefetchQueue # <<>> /\ prefetchQueue' = Tail(prefetchQueue)
    BY DEF Next, Downloader, DownloaderStop, DownloaderFetch, FetchOk, FetchFail, InlineOk,
           InlineFail, Preparer, PreparerTake, PreparerEnd, PrepareOk, PrepareFail, PreparerPush,
           PreparerLeave, PreparerDrain, Main, ConsumerTake, ConsumerEnd, TransferOk,
           TransferFail, ConsumerNext, YieldFailure, YieldInline, Join, Leave, Checkpoint,
           FinalSave, InterruptSave, Interrupt, Finished, vars
  <2>. QED BY <1>1, <1>2, <2>1, <2>2, LenProperties DEF RoomKept
<1>5. Len(transferQueue') <= TransferSize
  <2>1. CASE PreparerPush
    BY <1>1, <1>3, <2>1, LenProperties DEF PreparerPush
  <2>2. \/ PreparerPush
        \/ UNCHANGED transferQueue
        \/ transferQueue # <<>> /\ transferQueue' = Tail(transferQueue)
    BY DEF Next, Downloader, DownloaderStop, DownloaderFetch, FetchOk, FetchFail, DownloaderPush,
           InlineOk, InlineFail, Preparer, PreparerTake, PreparerEnd, PrepareOk, PrepareFail,
           PreparerLeave, PreparerDrain, Main, ConsumerTake, ConsumerEnd, TransferOk,
           TransferFail, ConsumerNext, YieldFailure, YieldInline, Join, Leave, Checkpoint,
           FinalSave, InterruptSave, Interrupt, Finished, vars
  <2>. QED BY <1>1, <1>2, <2>1, <2>2, LenProperties DEF RoomKept
<1>. QED BY <1>4, <1>5 DEF RoomKept

\* A list has no more entries than its length, and a union no more than both.
LEMMA FewEntries ==
  ASSUME NEW S, NEW s \in Seq(S)
  PROVE  IsFiniteSet(Entries(s)) /\ Cardinality(Entries(s)) <= Len(s)
<1>1. s \in Surjection(1 .. Len(s), Entries(s))
  BY LenProperties DEF Surjection, Entries
<1>2. IsFiniteSet(1 .. Len(s)) /\ Cardinality(1 .. Len(s)) = Len(s)
  <2>1. Len(s) \in Nat /\ 1 \in Int /\ Len(s) \in Int
    BY LenProperties
  <2>2. /\ IsFiniteSet(1 .. Len(s))
        /\ Cardinality(1 .. Len(s)) = IF 1 > Len(s) THEN 0 ELSE Len(s) - 1 + 1
    BY <2>1, FS_Interval
  <2>. QED BY <2>1, <2>2
<1>. QED BY <1>1, <1>2, FS_Surjection DEF ExistsSurjection

LEMMA UnionIsNoLarger ==
  ASSUME NEW S, NEW T, IsFiniteSet(S), IsFiniteSet(T),
         NEW m \in Nat, NEW n \in Nat, Cardinality(S) <= m, Cardinality(T) <= n
  PROVE  IsFiniteSet(S \union T) /\ Cardinality(S \union T) <= m + n
<1>1. Cardinality(S \cap T) \in Nat /\ IsFiniteSet(S \union T)
  BY FS_Union, FS_Subset, FS_CardinalityType
<1>2. /\ Cardinality(S \cup T) = Cardinality(S) + Cardinality(T) - Cardinality(S \cap T)
      /\ Cardinality(S) \in Nat /\ Cardinality(T) \in Nat
  BY FS_Union, FS_CardinalityType
<1>. QED BY <1>1, <1>2

LEMMA AtMostOne ==
  ASSUME NEW x, NEW S \in SUBSET {x}
  PROVE  IsFiniteSet(S) /\ Cardinality(S) <= 1
<1>1. IsFiniteSet({x}) /\ Cardinality({x}) = 1
  BY FS_Singleton
<1>2. IsFiniteSet(S) /\ Cardinality(S) <= Cardinality({x})
  BY <1>1, FS_Subset
<1>. QED BY <1>1, <1>2

\* However long the plan and however slow the device, the disk holds at most
\* the sources that fill the prefetch and the transfer queue and three more
\* (one that waits for room, one being prepared, one being transferred), and
\* the transcoded files that fill the transfer queue and two more.
TempsBounded ==
  /\ Cardinality(downloads) <= PrefetchSize + TransferSize + 3
  /\ Cardinality(outputs) <= TransferSize + 2

THEOREM PipelineTempsBounded == Spec => []TempsBounded
<1>1. Init => RoomKept
  BY PipelineAssumption, LenProperties DEF Init, RoomKept
<1>2. IInv /\ RoomKept => TempsBounded
  <2>. SUFFICES ASSUME IInv, RoomKept PROVE TempsBounded
    OBVIOUS
  <2>1. PrefetchSize \in Nat /\ TransferSize \in Nat
    BY PipelineAssumption
  <2>2. /\ IsFiniteSet(Entries(prefetchQueue))
        /\ Cardinality(Entries(prefetchQueue)) <= PrefetchSize
    BY <2>1, FewEntries, LenProperties, FS_CardinalityType DEF IInv, PipelineTypeOK, RoomKept
  <2>3. /\ IsFiniteSet(Entries(transferQueue))
        /\ Cardinality(Entries(transferQueue)) <= TransferSize
    BY <2>1, FewEntries, LenProperties, FS_CardinalityType DEF IInv, PipelineTypeOK, RoomKept
  <2>4. /\ IsFiniteSet(Fetching) /\ Cardinality(Fetching) <= 1
        /\ IsFiniteSet(Preparing) /\ Cardinality(Preparing) <= 1
        /\ IsFiniteSet(Transferring) /\ Cardinality(Transferring) <= 1
    BY AtMostOne DEF Fetching, Preparing, Transferring
  <2>5. LET ready == Entries(transferQueue) \union Transferring
            later == Preparing \union ready
            fed   == Entries(prefetchQueue) \union later
        IN  /\ IsFiniteSet(later) /\ Cardinality(later) <= TransferSize + 2
            /\ IsFiniteSet(Fetching \union fed)
            /\ Cardinality(Fetching \union fed) <= PrefetchSize + TransferSize + 3
    <3> DEFINE ready == Entries(transferQueue) \union Transferring
               later == Preparing \union ready
               fed   == Entries(prefetchQueue) \union later
    <3>1. IsFiniteSet(ready) /\ Cardinality(ready) <= TransferSize + 1
      BY <2>1, <2>3, <2>4, UnionIsNoLarger
    <3>2. IsFiniteSet(later) /\ Cardinality(later) <= 1 + (TransferSize + 1)
      <4>1. TransferSize + 1 \in Nat /\ 1 \in Nat
        BY <2>1
      <4>. HIDE DEF ready
      <4>. QED BY <2>4, <3>1, <4>1, UnionIsNoLarger, ZenonT(30)
    <3>3. IsFiniteSet(fed) /\ Cardinality(fed) <= PrefetchSize + (1 + (TransferSize + 1))
      <4>1. 1 + (TransferSize + 1) \in Nat
        BY <2>1
      <4>. HIDE DEF later
      <4>. QED BY <2>1, <2>2, <3>2, <4>1, UnionIsNoLarger, ZenonT(30)
    <3>4. /\ IsFiniteSet(Fetching \union fed)
          /\ Cardinality(Fetching \union fed) <= 1 + (PrefetchSize + (1 + (TransferSize + 1)))
      <4>1. PrefetchSize + (1 + (TransferSize + 1)) \in Nat /\ 1 \in Nat
        BY <2>1
      <4>. HIDE DEF fed
      <4>. QED BY <2>4, <3>3, <4>1, UnionIsNoLarger, ZenonT(30)
    <3>. HIDE DEF fed, later
    <3>. QED BY <2>1, <3>2, <3>4, FS_CardinalityType DEF fed, later
  <2>6. prep = "pushing" => prepOp \in Preparing
    BY DEF IInv, Stations, Preparing
  <2>7. /\ downloads \subseteq
             Fetching \union (Entries(prefetchQueue)
                \union (Preparing \union (Entries(transferQueue) \union Transferring)))
        /\ outputs \subseteq Preparing \union (Entries(transferQueue) \union Transferring)
    BY <2>6 DEF IInv, Temps, Held, Upstream
  <2>8. /\ IsFiniteSet(downloads)
        /\ Cardinality(downloads) <= PrefetchSize + TransferSize + 3
    BY <2>1, <2>5, <2>7, FS_Subset, FS_CardinalityType
  <2>9. IsFiniteSet(outputs) /\ Cardinality(outputs) <= TransferSize + 2
    BY <2>1, <2>5, <2>7, FS_Subset, FS_CardinalityType
  <2>. QED BY <2>8, <2>9 DEF TempsBounded
<1>. QED BY <1>1, <1>2, Invariant, RoomStaysKept, PTL DEF Spec


-----------------------------------------------------------------------------
(* Who waits for whom.                                                     *)

\* What a thread of control that has no step waits for: the other end of a queue,
\* or the other stages at the end. Nothing else in the pipeline waits for a thread.
DownloaderWaits == dl = "done" \/ (dl = "pushing" /\ Len(prefetchQueue) >= PrefetchSize)
PreparerWaits ==
  \/ prep = "done"
  \/ prep \in {"idle", "draining"} /\ prefetchQueue = <<>> /\ ~prefetchClosed
  \/ prep = "pushing" /\ Len(transferQueue) >= TransferSize
MainWaits ==
  \/ main = "pop" /\ transferQueue = <<>> /\ ~transferClosed
  \/ main = "join" /\ ~(dl = "done" /\ prep = "done")

\* The preparer is through with the prefetch queue, without draining it.
Left == prep = "done" \/ (prep = "leaving" /\ ~abortRequested)

\* Then there is room for what the downloader holds, and it will not take more.
RoomLeft ==
  Left => dl = "done" \/ (Aborting /\ (dl = "idle" \/ Len(prefetchQueue) < PrefetchSize))

LEMMA RoomIsLeft == IInv /\ RoomKept /\ RoomLeft /\ [Next]_vars => RoomLeft'
<1>. SUFFICES ASSUME IInv, RoomKept, RoomLeft, [Next]_vars, Left' PROVE RoomLeft'
  BY DEF RoomLeft
<1>1. /\ prefetchQueue \in Seq(Ops) /\ PrefetchSize \in Nat /\ Len(prefetchQueue) \in Nat
      /\ prefetchClosed <=> dl = "done"
      /\ Len(prefetchQueue) <= PrefetchSize
  BY PipelineAssumption, LenProperties DEF IInv, PipelineTypeOK, Stations, RoomKept
<1>2. (signal => signal') /\ (abortRequested => abortRequested')
  <2>1. \/ FetchFail \/ InlineFail \/ PrepareFail \/ ConsumerTake
        \/ UNCHANGED abortRequested
    BY DEF Next, Downloader, DownloaderStop, DownloaderFetch, FetchOk, DownloaderPush, InlineOk,
           Preparer, PreparerTake, PreparerEnd, PrepareOk, PreparerPush, PreparerLeave,
           PreparerDrain, Main, ConsumerEnd, TransferOk, TransferFail, ConsumerNext,
           YieldFailure, YieldInline, Join, Leave, Checkpoint, FinalSave, InterruptSave,
           Interrupt, Finished, vars
  <2>2. Interrupt \/ UNCHANGED signal
    BY DEF Next, Downloader, DownloaderStop, DownloaderFetch, FetchOk, FetchFail, DownloaderPush,
           InlineOk, InlineFail, Preparer, PreparerTake, PreparerEnd, PrepareOk, PrepareFail,
           PreparerPush, PreparerLeave, PreparerDrain, Main, ConsumerTake, ConsumerEnd,
           TransferOk, TransferFail, ConsumerNext, YieldFailure, YieldInline, Join, Leave,
           Checkpoint, FinalSave, InterruptSave, Finished, vars
  <2>3. FetchFail \/ InlineFail \/ PrepareFail =>
          abortRequested' = (abortRequested \/ ~ContinueOnError)
    BY DEF FetchFail, InlineFail, PrepareFail, StageFails
  <2>4. ConsumerTake => abortRequested' = (abortRequested \/ signal)
    BY DEF ConsumerTake
  <2>5. Interrupt => signal' = TRUE
    BY DEF Interrupt
  <2>6. ASSUME abortRequested PROVE abortRequested'
    <3>1. CASE UNCHANGED abortRequested
      BY <2>6, <3>1
    <3>2. CASE FetchFail \/ InlineFail \/ PrepareFail
      BY <2>3, <2>6, <3>2
    <3>3. CASE ConsumerTake
      BY <2>4, <2>6, <3>3
    <3>. QED BY <2>1, <3>1, <3>2, <3>3
  <2>7. ASSUME signal PROVE signal'
    <3>1. CASE UNCHANGED signal
      BY <2>7, <3>1
    <3>. QED BY <2>2, <2>5, <3>1
  <2>. QED BY <2>6, <2>7
<1>3. CASE Downloader
  <2>0. prep' = prep
    BY <1>3 DEF Downloader, DownloaderStop, DownloaderFetch, FetchOk, FetchFail, DownloaderPush,
                InlineOk, InlineFail, prepVars
  <2>1. Left /\ (dl = "done" \/ (Aborting /\ (dl = "idle" \/ Len(prefetchQueue) < PrefetchSize)))
    BY <1>2, <2>0 DEF Left, RoomLeft
  <2>2. Aborting => Aborting'
    BY <1>2 DEF Aborting
  <2>3. CASE DownloaderStop
    BY <2>3 DEF DownloaderStop, DownloaderFinish, RoomLeft
  <2>4. CASE DownloaderFetch \/ InlineOk \/ InlineFail
    BY <2>1, <2>4 DEF DownloaderFetch, InlineOk, InlineFail
  <2>5. CASE FetchOk
    BY <2>1, <2>2, <2>5 DEF FetchOk, RoomLeft
  <2>6. CASE FetchFail
    BY <2>1, <2>2, <2>6 DEF FetchFail, DownloaderFinish, RoomLeft
  <2>7. CASE DownloaderPush
    BY <2>1, <2>2, <2>7 DEF DownloaderPush, RoomLeft
  <2>. QED BY <1>3, <2>3, <2>4, <2>5, <2>6, <2>7 DEF Downloader
<1>4. CASE Preparer
  <2>1. dl' = dl /\ (Aborting => Aborting')
    <3>1. dl' = dl
      BY <1>4 DEF Preparer, PreparerTake, PreparerEnd, PrepareOk, PrepareFail, PreparerPush,
                  PreparerLeave, PreparerDrain, dlVars
    <3>. QED BY <1>2, <3>1 DEF Aborting
  <2>2. CASE PreparerTake
    <3>1. Aborting
      BY <2>2 DEF PreparerTake, Left
    <3>2. Len(prefetchQueue') < PrefetchSize
      BY <1>1, <2>2, HeadTailProperties, EmptySeq, LenProperties DEF PreparerTake
    <3>. QED BY <2>1, <3>1, <3>2 DEF RoomLeft
  <2>3. CASE PreparerEnd
    BY <1>1, <2>1, <2>3 DEF PreparerEnd, RoomLeft
  <2>4. CASE PreparerLeave
    <3>1. Left
      BY <2>4 DEF PreparerLeave, Left
    <3>. QED BY <2>1, <2>4, <3>1 DEF PreparerLeave, RoomLeft
  <2>5. CASE PreparerDrain
    BY <1>1, <2>1, <2>5 DEF PreparerDrain, Left, RoomLeft
  <2>6. ~PrepareOk /\ ~PreparerPush /\ ~PrepareFail
    <3>1. ~PrepareFail
      BY DEF PrepareFail, StageFails, Left
    <3>. QED BY <3>1 DEF PrepareOk, PreparerPush, Left
  <2>. QED BY <1>4, <2>2, <2>3, <2>4, <2>5, <2>6 DEF Preparer
<1>5. CASE Main \/ Interrupt \/ Finished \/ UNCHANGED vars
  <2>1. dl' = dl /\ prep' = prep /\ prefetchQueue' = prefetchQueue
    <3>1. CASE Main
      BY <3>1 DEF Main, ConsumerTake, ConsumerEnd, TransferOk, TransferFail, ConsumerNext,
                  YieldFailure, YieldInline, Join, Leave, Checkpoint, FinalSave, InterruptSave,
                  dlVars, prepVars
    <3>2. CASE Interrupt \/ Finished \/ UNCHANGED vars
      BY <3>2 DEF Interrupt, Finished, vars, dlVars, prepVars
    <3>. QED BY <1>5, <3>1, <3>2
  <2>2. Left
    BY <1>2, <2>1 DEF Left
  <2>. QED BY <1>2, <2>1, <2>2 DEF RoomLeft, Aborting
<1>. QED BY <1>3, <1>4, <1>5 DEF Next

\* For any plan, queue sizes and outcomes, with or without a signal: until the batch
\* has ended, one of the three threads of control has a step to make. A preparer that
\* leaves on a signal does not drain the prefetch queue (executeOperations in
\* pipeline.ts), and still the downloader never waits for room in front of a consumer
\* that waits for the downloader: it has one operation at most to push, for which the
\* preparer has made room by taking the one on which it saw the signal.
NoStandstill == main # "done" => ~(DownloaderWaits /\ PreparerWaits /\ MainWaits)

THEOREM PipelineNoStandstill == Spec => []NoStandstill
<1>1. Init => RoomKept /\ RoomLeft
  BY PipelineAssumption, LenProperties DEF Init, RoomKept, RoomLeft, Left
<1>2. IInv /\ RoomKept /\ RoomLeft => NoStandstill
  <2>. SUFFICES ASSUME IInv, RoomLeft, DownloaderWaits, PreparerWaits, MainWaits PROVE FALSE
    BY DEF NoStandstill
  <2>1. /\ PrefetchSize \in Nat \ {0} /\ TransferSize \in Nat \ {0}
        /\ Len(prefetchQueue) \in Nat
        /\ prefetchClosed <=> dl = "done"
        /\ transferClosed <=> prep = "done"
        /\ main = "join" => prep = "done"
    BY PipelineAssumption, LenProperties DEF IInv, PipelineTypeOK, Stations
  <2>2. CASE main = "pop"
    <3>1. transferQueue = <<>> /\ prep # "done"
      BY <2>1, <2>2 DEF MainWaits
    <3>2. prefetchQueue = <<>> /\ dl # "done"
      <4>1. ~(Len(<<>>) >= TransferSize)
        BY <2>1
      <4>. QED BY <2>1, <3>1, <4>1 DEF PreparerWaits
    <3>3. ~(Len(<<>>) >= PrefetchSize)
      BY <2>1
    <3>. QED BY <3>2, <3>3 DEF DownloaderWaits
  <2>3. CASE main = "join"
    <3>1. prep = "done" /\ dl # "done"
      BY <2>1, <2>3 DEF MainWaits
    <3>2. dl = "pushing" /\ Len(prefetchQueue) >= PrefetchSize
      BY <3>1 DEF DownloaderWaits
    <3>. QED BY <2>1, <3>1, <3>2 DEF RoomLeft, Left
  <2>. QED BY <2>2, <2>3 DEF MainWaits
<1>. QED BY <1>1, <1>2, Invariant, RoomStaysKept, RoomIsLeft, PTL DEF Spec

=============================================================================
