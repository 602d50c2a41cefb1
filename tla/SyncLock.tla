------------------------------ MODULE SyncLock ------------------------------
(***************************************************************************)
(* packages/podkit-core/src/lib/pid-file.ts: the per-device lock file that *)
(* `podkit sync` and `podkit doctor --repair` hold while they write to a   *)
(* device.                                                                 *)
(*                                                                         *)
(* A process here is one run of podkit against the device: it starts,      *)
(* tries to get the lock once, and ends; it may crash anywhere. Processes  *)
(* share nothing but the lock file, so an action is one system call.       *)
(*                                                                         *)
(* An open file descriptor names a file and not a path: a process whose    *)
(* file was unlinked by another one writes to a file nobody can see. The   *)
(* lock file is therefore known by the process that created it.            *)
(*                                                                         *)
(* Every system call may fail. The code swallows a read or an unlink that  *)
(* fails and goes on as if there were no file: the file stays.             *)
(***************************************************************************)
EXTENDS Naturals

CONSTANTS
  Procs,     \* every process that runs podkit against the device
  NoProc,    \* stands for "nobody"
  Attempts   \* how often an unreadable lock file is read (3 in the code)

ASSUME LockAssumption ==
  /\ NoProc \notin Procs
  /\ Attempts \in Nat \ {0}

VARIABLES
  creator,   \* who created the file at the lock path; NoProc: no file there
  written,   \* that file holds its creator's identity
  pc,        \* where each process is
  tries,     \* reads of the lock file so far
  judged,    \* whose file the process last looked at
  rival,     \* history: another process had the lock during the attempt
  hit,       \* history: how takeovers went wrong, see Mistakes
  kept       \* history: <<p, q>>: p was to remove q's file, and a call failed

vars == <<creator, written, pc, tries, judged, rival, hit, kept>>

Attempting == {"open", "read", "probe", "unlink", "reopen"}
Owning     == {"write", "cleanup", "holding", "unlocking"}
Ended      == {"refused", "failed", "released"}

(***************************************************************************)
(* "misjudged": a running owner was not recognised as alive.               *)
(* "unread": a running creator's identity could not be read: it was not    *)
(* written in time, or the reads failed.                                   *)
(* "overtaken": the file was replaced after it had been judged.            *)
(***************************************************************************)
Mistakes == {"misjudged", "unread", "overtaken"}

Running(p) == pc[p] \in Attempting \cup Owning

Init ==
  /\ creator = NoProc
  /\ written = FALSE
  /\ pc = [p \in Procs |-> "new"]
  /\ tries = [p \in Procs |-> 0]
  /\ judged = [p \in Procs |-> NoProc]
  /\ rival = [p \in Procs |-> FALSE]
  /\ hit = {}
  /\ kept = {}

\* Process p goes on from one of the places in `from` to the place `to`.
Goes(p, from, to) ==
  /\ pc[p] \in from
  /\ pc' = [pc EXCEPT ![p] = to]

NoFileLeft == creator' = NoProc /\ written' = FALSE

\* Process p does not get to remove the file that is at the path, if any.
FileStays(p) == kept' = kept \cup {p} \X ({creator} \ {NoProc})

-----------------------------------------------------------------------------
Start(p) ==
  /\ Goes(p, {"new"}, "open")
  /\ rival' = [rival EXCEPT ![p] = \E q \in Procs : pc[q] \in Owning]
  /\ UNCHANGED <<creator, written, tries, judged, hit, kept>>

\* Faulty OpenNew: open(path, 'w') does not mind a file that is there.
OpenAny(p) ==
  /\ Goes(p, {"open", "reopen"}, "write")
  /\ creator' = p
  /\ written' = FALSE
  /\ rival' = [q \in Procs |-> rival[q] \/ (q # p /\ pc[q] \in Attempting)]
  /\ UNCHANGED <<tries, judged, hit, kept>>

\* open(path, 'wx') makes an empty file.
OpenNew(p) ==
  /\ creator = NoProc
  /\ Goes(p, {"open", "reopen"}, "write")
  /\ creator' = p
  /\ written' = FALSE
  /\ rival' = [q \in Procs |-> rival[q] \/ (q # p /\ pc[q] \in Attempting)]
  /\ UNCHANGED <<tries, judged, hit, kept>>

\* EEXIST the first time: look at the file.
OpenTaken(p) ==
  /\ creator # NoProc
  /\ Goes(p, {"open"}, "read")
  /\ UNCHANGED <<creator, written, tries, judged, rival, hit, kept>>

(***************************************************************************)
(* EEXIST the second time: refused. A last look at the file only chooses   *)
(* between LockHeldError and LockContestedError; both end the run with     *)
(* exit code 4.                                                            *)
(***************************************************************************)
ReopenTaken(p) ==
  /\ creator # NoProc
  /\ Goes(p, {"reopen"}, "refused")
  /\ judged' = [judged EXCEPT ![p] = creator]
  /\ UNCHANGED <<creator, written, tries, rival, hit, kept>>

\* EACCES, EROFS, EPERM and every other error of open().
OpenDenied(p) ==
  /\ Goes(p, {"open", "reopen"}, "failed")
  /\ UNCHANGED <<creator, written, tries, judged, rival, hit, kept>>

-----------------------------------------------------------------------------
\* The identity goes to the file this process opened, wherever it is now.
WriteOk(p) ==
  /\ Goes(p, {"write"}, "holding")
  /\ written' = (written \/ creator = p)
  /\ UNCHANGED <<creator, tries, judged, rival, hit, kept>>

\* What was to be written may have reached the file all the same.
MayBeWritten(p) == written' \in {written, written \/ creator = p}

\* Faulty WriteFails: the error leaves at once, and the half-made file stays.
WriteThrows(p) ==
  /\ Goes(p, {"write"}, "failed")
  /\ MayBeWritten(p)
  /\ UNCHANGED <<creator, tries, judged, rival, hit, kept>>

\* writeFile or sync fails.
WriteFails(p) ==
  /\ Goes(p, {"write"}, "cleanup")
  /\ MayBeWritten(p)
  /\ UNCHANGED <<creator, tries, judged, rival, hit, kept>>

\* close fails: it throws out of the finally block and passes the clean-up by.
CloseFails(p) ==
  /\ Goes(p, {"write"}, "failed")
  /\ MayBeWritten(p)
  /\ FileStays(p)
  /\ UNCHANGED <<creator, tries, judged, rival, hit>>

\* The clean-up after a failed write unlinks the path, and the file may be another process's.
CleanUp(p) ==
  /\ Goes(p, {"cleanup"}, "failed")
  /\ NoFileLeft
  /\ UNCHANGED <<tries, judged, rival, hit, kept>>

\* "if the unlink also fails", the write's error is thrown all the same.
CleanUpFails(p) ==
  /\ Goes(p, {"cleanup"}, "failed")
  /\ FileStays(p)
  /\ UNCHANGED <<creator, written, tries, judged, rival, hit>>

-----------------------------------------------------------------------------
\* A read that finds an owner's identity.
ReadOwner(p) ==
  /\ creator # NoProc /\ written
  /\ Goes(p, {"read"}, "probe")
  /\ judged' = [judged EXCEPT ![p] = creator]
  /\ UNCHANGED <<creator, written, tries, rival, hit, kept>>

\* Faulty ReadAgain: it reads once too often.
ReadOnceMore(p) ==
  /\ pc[p] = "read"
  /\ tries[p] <= Attempts
  /\ tries' = [tries EXCEPT ![p] = @ + 1]
  /\ UNCHANGED <<creator, written, pc, judged, rival, hit, kept>>

\* A read that finds no file or an empty one, or that fails, and is to be repeated.
ReadAgain(p) ==
  /\ pc[p] = "read"
  /\ tries[p] + 1 < Attempts
  /\ tries' = [tries EXCEPT ![p] = @ + 1]
  /\ UNCHANGED <<creator, written, pc, judged, rival, hit, kept>>

\* Faulty GiveUpReading: an unreadable file is contested rather than stale.
GiveUpAcquiring(p) ==
  /\ tries[p] + 1 >= Attempts
  /\ Goes(p, {"read"}, "refused")
  /\ judged' = [judged EXCEPT ![p] = creator]
  /\ UNCHANGED <<creator, written, tries, rival, hit, kept>>

\* The last such read: the file counts as stale.
GiveUpReading(p) ==
  /\ tries[p] + 1 >= Attempts
  /\ Goes(p, {"read"}, "unlink")
  /\ judged' = [judged EXCEPT ![p] = creator]
  /\ hit' = IF creator # NoProc /\ Running(creator)
              THEN hit \cup {"unread"} ELSE hit
  /\ UNCHANGED <<creator, written, tries, rival, kept>>

(***************************************************************************)
(* probeLiveness: only a crashed process is surely gone; one that has done *)
(* its work may or may not have exited. "alive" refuses the lock.          *)
(***************************************************************************)
ProbeAlive(p) ==
  /\ Goes(p, {"probe"}, "refused")
  /\ pc[judged[p]] # "crashed"
  /\ UNCHANGED <<creator, written, tries, judged, rival, hit, kept>>

(***************************************************************************)
(* "dead" and "unknown" both take the lock over. A running owner can probe *)
(* "unknown": a clock step, a suspend, a failing ps.                       *)
(***************************************************************************)
ProbeNotAlive(p) ==
  /\ Goes(p, {"probe"}, "unlink")
  /\ hit' = IF Running(judged[p]) THEN hit \cup {"misjudged"} ELSE hit
  /\ UNCHANGED <<creator, written, tries, judged, rival, kept>>

\* The takeover unlinks whatever is at the path by now.
Unlink(p) ==
  /\ Goes(p, {"unlink"}, "reopen")
  /\ NoFileLeft
  /\ hit' = IF creator # NoProc /\ Running(creator) /\ creator # judged[p]
              THEN hit \cup {"overtaken"} ELSE hit
  /\ UNCHANGED <<tries, judged, rival, kept>>

\* An unlink that fails is retried no more than one that finds no file.
UnlinkFails(p) ==
  /\ Goes(p, {"unlink"}, "reopen")
  /\ FileStays(p)
  /\ UNCHANGED <<creator, written, tries, judged, rival, hit>>

-----------------------------------------------------------------------------
\* release(): read the file; a file that is not ours stays.
ReleaseRead(p) ==
  /\ Goes(p, {"holding"}, IF creator = p /\ written THEN "unlocking" ELSE "released")
  /\ UNCHANGED <<creator, written, tries, judged, rival, hit, kept>>

\* A read that fails counts as a file that is gone.
ReleaseReadFails(p) ==
  /\ Goes(p, {"holding"}, "released")
  /\ FileStays(p)
  /\ UNCHANGED <<creator, written, tries, judged, rival, hit>>

ReleaseUnlink(p) ==
  /\ Goes(p, {"unlocking"}, "released")
  /\ NoFileLeft
  /\ UNCHANGED <<tries, judged, rival, hit, kept>>

\* The handle is released whether or not the file could be removed.
ReleaseUnlinkFails(p) ==
  /\ Goes(p, {"unlocking"}, "released")
  /\ FileStays(p)
  /\ UNCHANGED <<creator, written, tries, judged, rival, hit>>

\* SIGKILL, power loss, the second Ctrl-C: no finally block runs.
Crash(p) ==
  /\ Goes(p, Attempting \cup Owning, "crashed")
  /\ UNCHANGED <<creator, written, tries, judged, rival, hit, kept>>

Acquire(p) ==
  \/ OpenNew(p) \/ OpenTaken(p) \/ ReopenTaken(p) \/ OpenDenied(p)
  \/ WriteOk(p) \/ WriteFails(p) \/ CloseFails(p) \/ CleanUp(p) \/ CleanUpFails(p)
  \/ ReadOwner(p) \/ ReadAgain(p) \/ GiveUpReading(p)
  \/ ProbeAlive(p) \/ ProbeNotAlive(p) \/ Unlink(p) \/ UnlinkFails(p)

Release(p) ==
  \/ ReleaseRead(p) \/ ReleaseReadFails(p) \/ ReleaseUnlink(p) \/ ReleaseUnlinkFails(p)

Next == \E p \in Procs : Start(p) \/ Acquire(p) \/ Release(p) \/ Crash(p)

Spec == Init /\ [][Next]_vars

-----------------------------------------------------------------------------
(***************************************************************************)
(* The type invariant: the path holds no file or one process's file, each  *)
(* process is somewhere in acquireLock or release, and nobody reads more   *)
(* often than waitForOwnership allows.                                     *)
(***************************************************************************)
LockTypeOK ==
  /\ creator \in Procs \cup {NoProc}
  /\ written \in BOOLEAN
  /\ pc \in [Procs -> {"new", "crashed"} \cup Attempting \cup Owning \cup Ended]
  /\ tries \in [Procs -> 0..Attempts]
  /\ judged \in [Procs -> Procs \cup {NoProc}]
  /\ rival \in [Procs -> BOOLEAN]
  /\ hit \in SUBSET Mistakes
  /\ kept \in SUBSET (Procs \X Procs)

AtMostOneHolder ==
  \A p, q \in Procs : pc[p] = "holding" /\ pc[q] = "holding" => p = q

(***************************************************************************)
(* The lock excludes every other process unless a takeover made one of the *)
(* three mistakes. The other three places that unlink or write the file    *)
(* (release after its read, the clean-up of a failed write, a late write   *)
(* of the identity), crashes anywhere and calls that fail never break it   *)
(* by themselves.                                                          *)
(***************************************************************************)
ExclusiveUnlessMistaken == hit = {} => AtMostOneHolder

(***************************************************************************)
(* "Acquire an exclusive lock at `path`" (pid-file.ts:427), "another       *)
(* process won the takeover race" (436): exclusion also holds when stale   *)
(* files are taken over, as long as each one was judged rightly when it    *)
(* was looked at.                                                          *)
(***************************************************************************)
ExclusiveIfJudgedRightly == hit \subseteq {"overtaken"} => AtMostOneHolder

(***************************************************************************)
(* What a crash leaves behind never refuses anyone the lock ("the next     *)
(* process's acquireLock ... retakes the lock"): a process is turned away  *)
(* only if another one had the lock, or got it, during its own attempt, or *)
(* by a file that its own takeover could not unlink ("dead-but-occupied"), *)
(* or whose owner, who may not have exited yet, could not.                 *)
(***************************************************************************)
RefusedOnlyByRival ==
  \A p \in Procs : pc[p] = "refused" =>
    rival[p] \/ <<p, judged[p]>> \in kept \/ <<judged[p], judged[p]>> \in kept

(***************************************************************************)
(* A process that ends in order, whether it had the lock, was refused or   *)
(* failed half way, leaves no lock file of its own behind, written or not, *)
(* unless a call of its own that was to remove it failed.                  *)
(***************************************************************************)
NothingLeftBehind ==
  \A p \in Procs : pc[p] \in Ended /\ creator = p => <<p, p>> \in kept

=============================================================================
