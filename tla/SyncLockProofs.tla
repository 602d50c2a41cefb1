--------------------------- MODULE SyncLockProofs ---------------------------
(***************************************************************************)
(* What the device lock guarantees for any number of processes: exclusion  *)
(* unless a takeover made a mistake, refusal only because of a rival or of *)
(* a file that could not be removed, and nothing else left behind by a     *)
(* process that ends in order.                                             *)
(***************************************************************************)
EXTENDS SyncLock, TLAPS

\* A process that has not created the lock file has left no trace of one.
NoTrace ==
  \A p \in Procs : pc[p] \in {"new", "refused"} \cup Attempting =>
    /\ creator # p
    /\ \A q \in Procs : judged[q] # p

\* A process that probes has read somebody's identity.
ProbesSomebody ==
  \A p \in Procs : pc[p] = "probe" => judged[p] \in Procs

\* A process ended with its file still at the path, since a call failed.
Leftover(p) == <<p, p>> \in kept

\* A lock file in a process's way is a crashed process's, a rival's or a leftover, and
\* after a takeover one that the takeover could not remove.
InTheWay ==
  \A p \in Procs :
    /\ pc[p] \in Attempting =>
         creator = NoProc \/ pc[creator] = "crashed" \/ rival[p] \/ Leftover(creator)
    /\ pc[p] = "probe" => pc[judged[p]] = "crashed" \/ rival[p] \/ Leftover(judged[p])
    /\ pc[p] = "reopen" => creator = NoProc \/ rival[p] \/ <<p, creator>> \in kept

\* Without a mistake, a process with a file of its own finds it at the path,
OwnerOwnsFile == hit = {} => \A p \in Procs : pc[p] \in Owning => creator = p

\* and a takeover under way is from a process that no longer runs.
TakenFromTheGone ==
  hit = {} => \A p \in Procs :
    pc[p] = "unlink" => judged[p] = NoProc \/ ~Running(judged[p])

\* Who holds the lock has written its identity: a release knows its own file.
WrittenFirst ==
  \A p \in Procs : pc[p] = "holding" /\ creator = p => written

IInv ==
  /\ LockTypeOK
  /\ NoTrace
  /\ ProbesSomebody
  /\ InTheWay
  /\ RefusedOnlyByRival
  /\ NothingLeftBehind
  /\ OwnerOwnsFile
  /\ TakenFromTheGone
  /\ WrittenFirst

-----------------------------------------------------------------------------
\* The invariant holds in the initial state.
LEMMA IInvInit == Init => IInv
<1>. SUFFICES ASSUME Init PROVE IInv
  OBVIOUS
<1>. USE LockAssumption DEF Init
<1>1. LockTypeOK
  <2>1. rival \in [Procs -> BOOLEAN]
    BY Zenon
  <2>2. tries \in [Procs -> 0..Attempts]
    OBVIOUS
  <2>. QED BY <2>1, <2>2 DEF LockTypeOK
<1>2. NoTrace /\ ProbesSomebody /\ InTheWay
  BY DEF NoTrace, ProbesSomebody, InTheWay, Attempting
<1>3. RefusedOnlyByRival /\ NothingLeftBehind
  BY DEF RefusedOnlyByRival, NothingLeftBehind, Ended
<1>4. OwnerOwnsFile /\ TakenFromTheGone /\ WrittenFirst
  BY DEF OwnerOwnsFile, TakenFromTheGone, WrittenFirst, Owning
<1>. QED BY <1>1, <1>2, <1>3, <1>4 DEF IInv

(***************************************************************************)
(* Every system call preserves it. Each step is shown for the types, for   *)
(* the traces a process leaves, for who stands in whose way, and for what  *)
(* holds as long as no takeover made a mistake.                            *)
(***************************************************************************)
LEMMA IInvStep == IInv /\ [Next]_vars => IInv'
<1>. USE LockAssumption
     DEF IInv, Goes, NoFileLeft, FileStays, MayBeWritten, Leftover, Attempting, Owning, Ended, Mistakes, Running
<1>. SUFFICES ASSUME IInv, [Next]_vars PROVE IInv'
  OBVIOUS
<1>1. CASE UNCHANGED vars
  BY <1>1 DEF vars, LockTypeOK, NoTrace, ProbesSomebody, InTheWay, RefusedOnlyByRival,
              NothingLeftBehind, OwnerOwnsFile, TakenFromTheGone, WrittenFirst
<1>2. ASSUME NEW p \in Procs, Start(p) \/ Acquire(p) \/ Release(p) \/ Crash(p)
      PROVE  IInv'
  <2>1. CASE Start(p)
    <3>1. LockTypeOK'
      BY <2>1 DEF Start, LockTypeOK
    <3>2. (NoTrace /\ NothingLeftBehind)'
      BY <2>1 DEF Start, LockTypeOK, NoTrace, NothingLeftBehind
    <3>3. (ProbesSomebody /\ InTheWay /\ RefusedOnlyByRival)'
      BY <2>1 DEF Start, LockTypeOK, NoTrace, NothingLeftBehind, ProbesSomebody,
                  InTheWay, RefusedOnlyByRival
    <3>4. (OwnerOwnsFile /\ TakenFromTheGone)'
      BY <2>1 DEF Start, LockTypeOK, NoTrace, OwnerOwnsFile, TakenFromTheGone
    <3>5. WrittenFirst'
      BY <2>1 DEF Start, LockTypeOK, NoTrace, WrittenFirst
    <3>. QED BY <3>1, <3>2, <3>3, <3>4, <3>5
  <2>2. CASE OpenNew(p)
    <3>1. LockTypeOK'
      BY <2>2 DEF OpenNew, LockTypeOK
    <3>2. (NoTrace /\ NothingLeftBehind)'
      BY <2>2 DEF OpenNew, LockTypeOK, NoTrace, NothingLeftBehind
    <3>3. (ProbesSomebody /\ InTheWay /\ RefusedOnlyByRival)'
      BY <2>2 DEF OpenNew, LockTypeOK, NoTrace, NothingLeftBehind, ProbesSomebody,
                  InTheWay, RefusedOnlyByRival
    <3>4. (OwnerOwnsFile /\ TakenFromTheGone)'
      BY <2>2 DEF OpenNew, LockTypeOK, NoTrace, OwnerOwnsFile, TakenFromTheGone
    <3>5. WrittenFirst'
      BY <2>2 DEF OpenNew, LockTypeOK, NoTrace, WrittenFirst
    <3>. QED BY <3>1, <3>2, <3>3, <3>4, <3>5
  <2>3. CASE OpenTaken(p)
    <3>1. LockTypeOK'
      BY <2>3 DEF OpenTaken, LockTypeOK
    <3>2. (NoTrace /\ NothingLeftBehind)'
      BY <2>3 DEF OpenTaken, LockTypeOK, NoTrace, NothingLeftBehind
    <3>3. (ProbesSomebody /\ InTheWay /\ RefusedOnlyByRival)'
      BY <2>3 DEF OpenTaken, LockTypeOK, NoTrace, NothingLeftBehind, ProbesSomebody,
                  InTheWay, RefusedOnlyByRival
    <3>4. (OwnerOwnsFile /\ TakenFromTheGone)'
      BY <2>3 DEF OpenTaken, LockTypeOK, NoTrace, OwnerOwnsFile, TakenFromTheGone
    <3>5. WrittenFirst'
      BY <2>3 DEF OpenTaken, LockTypeOK, NoTrace, WrittenFirst
    <3>. QED BY <3>1, <3>2, <3>3, <3>4, <3>5
  <2>4. CASE ReopenTaken(p)
    <3>1. LockTypeOK'
      BY <2>4 DEF ReopenTaken, LockTypeOK
    <3>2. (NoTrace /\ NothingLeftBehind)'
      BY <2>4 DEF ReopenTaken, LockTypeOK, NoTrace, NothingLeftBehind
    <3>3. (ProbesSomebody /\ InTheWay /\ RefusedOnlyByRival)'
      BY <2>4 DEF ReopenTaken, LockTypeOK, NoTrace, NothingLeftBehind, ProbesSomebody,
                  InTheWay, RefusedOnlyByRival
    <3>4. (OwnerOwnsFile /\ TakenFromTheGone)'
      BY <2>4 DEF ReopenTaken, LockTypeOK, NoTrace, OwnerOwnsFile, TakenFromTheGone
    <3>5. WrittenFirst'
      BY <2>4 DEF ReopenTaken, LockTypeOK, NoTrace, WrittenFirst
    <3>. QED BY <3>1, <3>2, <3>3, <3>4, <3>5
  <2>5. CASE OpenDenied(p)
    <3>1. LockTypeOK'
      BY <2>5 DEF OpenDenied, LockTypeOK
    <3>2. (NoTrace /\ NothingLeftBehind)'
      BY <2>5 DEF OpenDenied, LockTypeOK, NoTrace, NothingLeftBehind
    <3>3. (ProbesSomebody /\ InTheWay /\ RefusedOnlyByRival)'
      BY <2>5 DEF OpenDenied, LockTypeOK, NoTrace, NothingLeftBehind, ProbesSomebody,
                  InTheWay, RefusedOnlyByRival
    <3>4. (OwnerOwnsFile /\ TakenFromTheGone)'
      BY <2>5 DEF OpenDenied, LockTypeOK, NoTrace, OwnerOwnsFile, TakenFromTheGone
    <3>5. WrittenFirst'
      BY <2>5 DEF OpenDenied, LockTypeOK, NoTrace, WrittenFirst
    <3>. QED BY <3>1, <3>2, <3>3, <3>4, <3>5
  <2>6. CASE WriteOk(p)
    <3>1. LockTypeOK'
      BY <2>6 DEF WriteOk, LockTypeOK
    <3>2. (NoTrace /\ NothingLeftBehind)'
      BY <2>6 DEF WriteOk, LockTypeOK, NoTrace, NothingLeftBehind
    <3>3. (ProbesSomebody /\ InTheWay /\ RefusedOnlyByRival)'
      BY <2>6 DEF WriteOk, LockTypeOK, NoTrace, NothingLeftBehind, ProbesSomebody,
                  InTheWay, RefusedOnlyByRival
    <3>4. (OwnerOwnsFile /\ TakenFromTheGone)'
      BY <2>6 DEF WriteOk, LockTypeOK, NoTrace, OwnerOwnsFile, TakenFromTheGone
    <3>5. WrittenFirst'
      BY <2>6 DEF WriteOk, LockTypeOK, NoTrace, WrittenFirst
    <3>. QED BY <3>1, <3>2, <3>3, <3>4, <3>5
  <2>7. CASE WriteFails(p)
    <3>1. LockTypeOK'
      BY <2>7 DEF WriteFails, LockTypeOK
    <3>2. (NoTrace /\ NothingLeftBehind)'
      BY <2>7 DEF WriteFails, LockTypeOK, NoTrace, NothingLeftBehind
    <3>3. (ProbesSomebody /\ InTheWay /\ RefusedOnlyByRival)'
      BY <2>7 DEF WriteFails, LockTypeOK, NoTrace, NothingLeftBehind, ProbesSomebody,
                  InTheWay, RefusedOnlyByRival
    <3>4. (OwnerOwnsFile /\ TakenFromTheGone)'
      BY <2>7 DEF WriteFails, LockTypeOK, NoTrace, OwnerOwnsFile, TakenFromTheGone
    <3>5. WrittenFirst'
      BY <2>7 DEF WriteFails, LockTypeOK, NoTrace, WrittenFirst
    <3>. QED BY <3>1, <3>2, <3>3, <3>4, <3>5
  <2>8. CASE CleanUp(p)
    <3>1. LockTypeOK'
      BY <2>8 DEF CleanUp, LockTypeOK
    <3>2. (NoTrace /\ NothingLeftBehind)'
      BY <2>8 DEF CleanUp, LockTypeOK, NoTrace, NothingLeftBehind
    <3>3. (ProbesSomebody /\ InTheWay /\ RefusedOnlyByRival)'
      BY <2>8 DEF CleanUp, LockTypeOK, NoTrace, NothingLeftBehind, ProbesSomebody,
                  InTheWay, RefusedOnlyByRival
    <3>4. (OwnerOwnsFile /\ TakenFromTheGone)'
      BY <2>8 DEF CleanUp, LockTypeOK, NoTrace, OwnerOwnsFile, TakenFromTheGone
    <3>5. WrittenFirst'
      BY <2>8 DEF CleanUp, LockTypeOK, NoTrace, WrittenFirst
    <3>. QED BY <3>1, <3>2, <3>3, <3>4, <3>5
  <2>9. CASE ReadOwner(p)
    <3>1. LockTypeOK'
      BY <2>9 DEF ReadOwner, LockTypeOK
    <3>2. (NoTrace /\ NothingLeftBehind)'
      BY <2>9 DEF ReadOwner, LockTypeOK, NoTrace, NothingLeftBehind
    <3>3. (ProbesSomebody /\ InTheWay /\ RefusedOnlyByRival)'
      BY <2>9 DEF ReadOwner, LockTypeOK, NoTrace, NothingLeftBehind, ProbesSomebody,
                  InTheWay, RefusedOnlyByRival
    <3>4. (OwnerOwnsFile /\ TakenFromTheGone)'
      BY <2>9 DEF ReadOwner, LockTypeOK, NoTrace, OwnerOwnsFile, TakenFromTheGone
    <3>5. WrittenFirst'
      BY <2>9 DEF ReadOwner, LockTypeOK, NoTrace, WrittenFirst
    <3>. QED BY <3>1, <3>2, <3>3, <3>4, <3>5
  <2>10. CASE ReadAgain(p)
    <3>1. LockTypeOK'
      BY <2>10 DEF ReadAgain, LockTypeOK
    <3>2. (NoTrace /\ NothingLeftBehind)'
      BY <2>10 DEF ReadAgain, LockTypeOK, NoTrace, NothingLeftBehind
    <3>3. (ProbesSomebody /\ InTheWay /\ RefusedOnlyByRival)'
      BY <2>10 DEF ReadAgain, LockTypeOK, NoTrace, NothingLeftBehind, ProbesSomebody,
                  InTheWay, RefusedOnlyByRival
    <3>4. (OwnerOwnsFile /\ TakenFromTheGone)'
      BY <2>10 DEF ReadAgain, LockTypeOK, NoTrace, OwnerOwnsFile, TakenFromTheGone
    <3>5. WrittenFirst'
      BY <2>10 DEF ReadAgain, LockTypeOK, NoTrace, WrittenFirst
    <3>. QED BY <3>1, <3>2, <3>3, <3>4, <3>5
  <2>11. CASE GiveUpReading(p)
    <3>1. LockTypeOK'
      BY <2>11 DEF GiveUpReading, LockTypeOK
    <3>2. (NoTrace /\ NothingLeftBehind)'
      BY <2>11 DEF GiveUpReading, LockTypeOK, NoTrace, NothingLeftBehind
    <3>3. (ProbesSomebody /\ InTheWay /\ RefusedOnlyByRival)'
      BY <2>11 DEF GiveUpReading, LockTypeOK, NoTrace, NothingLeftBehind, ProbesSomebody,
                  InTheWay, RefusedOnlyByRival
    <3>4. (OwnerOwnsFile /\ TakenFromTheGone)'
      BY <2>11 DEF GiveUpReading, LockTypeOK, NoTrace, OwnerOwnsFile, TakenFromTheGone
    <3>5. WrittenFirst'
      BY <2>11 DEF GiveUpReading, LockTypeOK, NoTrace, WrittenFirst
    <3>. QED BY <3>1, <3>2, <3>3, <3>4, <3>5
  <2>12. CASE ProbeAlive(p)
    <3>1. LockTypeOK'
      BY <2>12 DEF ProbeAlive, LockTypeOK
    <3>2. (NoTrace /\ NothingLeftBehind)'
      BY <2>12 DEF ProbeAlive, LockTypeOK, NoTrace, NothingLeftBehind
    <3>3. (ProbesSomebody /\ InTheWay /\ RefusedOnlyByRival)'
      BY <2>12 DEF ProbeAlive, LockTypeOK, NoTrace, NothingLeftBehind, ProbesSomebody,
                  InTheWay, RefusedOnlyByRival
    <3>4. (OwnerOwnsFile /\ TakenFromTheGone)'
      BY <2>12 DEF ProbeAlive, LockTypeOK, NoTrace, OwnerOwnsFile, TakenFromTheGone
    <3>5. WrittenFirst'
      BY <2>12 DEF ProbeAlive, LockTypeOK, NoTrace, WrittenFirst
    <3>. QED BY <3>1, <3>2, <3>3, <3>4, <3>5
  <2>13. CASE ProbeNotAlive(p)
    <3>1. LockTypeOK'
      BY <2>13 DEF ProbeNotAlive, LockTypeOK
    <3>2. (NoTrace /\ NothingLeftBehind)'
      BY <2>13 DEF ProbeNotAlive, LockTypeOK, NoTrace, NothingLeftBehind
    <3>3. (ProbesSomebody /\ InTheWay /\ RefusedOnlyByRival)'
      BY <2>13 DEF ProbeNotAlive, LockTypeOK, NoTrace, NothingLeftBehind, ProbesSomebody,
                  InTheWay, RefusedOnlyByRival
    <3>4. (OwnerOwnsFile /\ TakenFromTheGone)'
      BY <2>13 DEF ProbeNotAlive, LockTypeOK, NoTrace, OwnerOwnsFile, TakenFromTheGone
    <3>5. WrittenFirst'
      BY <2>13 DEF ProbeNotAlive, LockTypeOK, NoTrace, WrittenFirst
    <3>. QED BY <3>1, <3>2, <3>3, <3>4, <3>5
  <2>14. CASE Unlink(p)
    <3>1. LockTypeOK'
      BY <2>14 DEF Unlink, LockTypeOK
    <3>2. (NoTrace /\ NothingLeftBehind)'
      BY <2>14 DEF Unlink, LockTypeOK, NoTrace, NothingLeftBehind
    <3>3. (ProbesSomebody /\ InTheWay /\ RefusedOnlyByRival)'
      BY <2>14 DEF Unlink, LockTypeOK, NoTrace, NothingLeftBehind, ProbesSomebody,
                  InTheWay, RefusedOnlyByRival
    <3>4. (OwnerOwnsFile /\ TakenFromTheGone)'
      BY <2>14 DEF Unlink, LockTypeOK, NoTrace, OwnerOwnsFile, TakenFromTheGone
    <3>5. WrittenFirst'
      BY <2>14 DEF Unlink, LockTypeOK, NoTrace, WrittenFirst
    <3>. QED BY <3>1, <3>2, <3>3, <3>4, <3>5
  <2>15. CASE ReleaseRead(p)
    <3>1. LockTypeOK'
      BY <2>15 DEF ReleaseRead, LockTypeOK
    <3>2. (NoTrace /\ NothingLeftBehind)'
      <4>1. CASE creator = p /\ written
        BY <2>15, <4>1 DEF ReleaseRead, LockTypeOK, NoTrace, NothingLeftBehind
      <4>2. CASE ~(creator = p /\ written)
        <5>1. creator # p
          BY <2>15, <4>2 DEF ReleaseRead, LockTypeOK, NoTrace, NothingLeftBehind, WrittenFirst
        <5>. QED BY <2>15, <4>2, <5>1 DEF ReleaseRead, LockTypeOK, NoTrace, NothingLeftBehind
      <4>. QED BY <4>1, <4>2
    <3>3. (ProbesSomebody /\ InTheWay /\ RefusedOnlyByRival)'
      BY <2>15 DEF ReleaseRead, LockTypeOK, NoTrace, NothingLeftBehind, ProbesSomebody,
                  InTheWay, RefusedOnlyByRival
    <3>4. (OwnerOwnsFile /\ TakenFromTheGone)'
      BY <2>15 DEF ReleaseRead, LockTypeOK, NoTrace, OwnerOwnsFile, TakenFromTheGone
    <3>5. WrittenFirst'
      BY <2>15 DEF ReleaseRead, LockTypeOK, NoTrace, WrittenFirst
    <3>. QED BY <3>1, <3>2, <3>3, <3>4, <3>5
  <2>16. CASE ReleaseUnlink(p)
    <3>1. LockTypeOK'
      BY <2>16 DEF ReleaseUnlink, LockTypeOK
    <3>2. (NoTrace /\ NothingLeftBehind)'
      BY <2>16 DEF ReleaseUnlink, LockTypeOK, NoTrace, NothingLeftBehind
    <3>3. (ProbesSomebody /\ InTheWay /\ RefusedOnlyByRival)'
      BY <2>16 DEF ReleaseUnlink, LockTypeOK, NoTrace, NothingLeftBehind, ProbesSomebody,
                  InTheWay, RefusedOnlyByRival
    <3>4. (OwnerOwnsFile /\ TakenFromTheGone)'
      BY <2>16 DEF ReleaseUnlink, LockTypeOK, NoTrace, OwnerOwnsFile, TakenFromTheGone
    <3>5. WrittenFirst'
      BY <2>16 DEF ReleaseUnlink, LockTypeOK, NoTrace, WrittenFirst
    <3>. QED BY <3>1, <3>2, <3>3, <3>4, <3>5
  <2>17. CASE Crash(p)
    <3>1. LockTypeOK'
      BY <2>17 DEF Crash, LockTypeOK
    <3>2. (NoTrace /\ NothingLeftBehind)'
      BY <2>17 DEF Crash, LockTypeOK, NoTrace, NothingLeftBehind
    <3>3. (ProbesSomebody /\ InTheWay /\ RefusedOnlyByRival)'
      BY <2>17 DEF Crash, LockTypeOK, NoTrace, NothingLeftBehind, ProbesSomebody,
                  InTheWay, RefusedOnlyByRival
    <3>4. (OwnerOwnsFile /\ TakenFromTheGone)'
      BY <2>17 DEF Crash, LockTypeOK, NoTrace, OwnerOwnsFile, TakenFromTheGone
    <3>5. WrittenFirst'
      BY <2>17 DEF Crash, LockTypeOK, NoTrace, WrittenFirst
    <3>. QED BY <3>1, <3>2, <3>3, <3>4, <3>5
  <2>18. CASE CloseFails(p)
    <3>1. LockTypeOK'
      BY <2>18 DEF CloseFails, LockTypeOK
    <3>2. (NoTrace /\ NothingLeftBehind)'
      BY <2>18 DEF CloseFails, LockTypeOK, NoTrace, NothingLeftBehind
    <3>3. (ProbesSomebody /\ InTheWay /\ RefusedOnlyByRival)'
      BY <2>18 DEF CloseFails, LockTypeOK, NoTrace, NothingLeftBehind, ProbesSomebody,
                  InTheWay, RefusedOnlyByRival
    <3>4. (OwnerOwnsFile /\ TakenFromTheGone)'
      BY <2>18 DEF CloseFails, LockTypeOK, NoTrace, OwnerOwnsFile, TakenFromTheGone
    <3>5. WrittenFirst'
      BY <2>18 DEF CloseFails, LockTypeOK, NoTrace, WrittenFirst
    <3>. QED BY <3>1, <3>2, <3>3, <3>4, <3>5
  <2>19. CASE CleanUpFails(p)
    <3>1. LockTypeOK'
      BY <2>19 DEF CleanUpFails, LockTypeOK
    <3>2. (NoTrace /\ NothingLeftBehind)'
      BY <2>19 DEF CleanUpFails, LockTypeOK, NoTrace, NothingLeftBehind
    <3>3. (ProbesSomebody /\ InTheWay /\ RefusedOnlyByRival)'
      BY <2>19 DEF CleanUpFails, LockTypeOK, NoTrace, NothingLeftBehind, ProbesSomebody,
                  InTheWay, RefusedOnlyByRival
    <3>4. (OwnerOwnsFile /\ TakenFromTheGone)'
      BY <2>19 DEF CleanUpFails, LockTypeOK, NoTrace, OwnerOwnsFile, TakenFromTheGone
    <3>5. WrittenFirst'
      BY <2>19 DEF CleanUpFails, LockTypeOK, NoTrace, WrittenFirst
    <3>. QED BY <3>1, <3>2, <3>3, <3>4, <3>5
  <2>20. CASE UnlinkFails(p)
    <3>1. LockTypeOK'
      BY <2>20 DEF UnlinkFails, LockTypeOK
    <3>2. (NoTrace /\ NothingLeftBehind)'
      BY <2>20 DEF UnlinkFails, LockTypeOK, NoTrace, NothingLeftBehind
    <3>3. (ProbesSomebody /\ InTheWay /\ RefusedOnlyByRival)'
      BY <2>20 DEF UnlinkFails, LockTypeOK, NoTrace, NothingLeftBehind, ProbesSomebody,
                  InTheWay, RefusedOnlyByRival
    <3>4. (OwnerOwnsFile /\ TakenFromTheGone)'
      BY <2>20 DEF UnlinkFails, LockTypeOK, NoTrace, OwnerOwnsFile, TakenFromTheGone
    <3>5. WrittenFirst'
      BY <2>20 DEF UnlinkFails, LockTypeOK, NoTrace, WrittenFirst
    <3>. QED BY <3>1, <3>2, <3>3, <3>4, <3>5
  <2>21. CASE ReleaseReadFails(p)
    <3>1. LockTypeOK'
      BY <2>21 DEF ReleaseReadFails, LockTypeOK
    <3>2. (NoTrace /\ NothingLeftBehind)'
      BY <2>21 DEF ReleaseReadFails, LockTypeOK, NoTrace, NothingLeftBehind
    <3>3. (ProbesSomebody /\ InTheWay /\ RefusedOnlyByRival)'
      BY <2>21 DEF ReleaseReadFails, LockTypeOK, NoTrace, NothingLeftBehind, ProbesSomebody,
                  InTheWay, RefusedOnlyByRival
    <3>4. (OwnerOwnsFile /\ TakenFromTheGone)'
      BY <2>21 DEF ReleaseReadFails, LockTypeOK, NoTrace, OwnerOwnsFile, TakenFromTheGone
    <3>5. WrittenFirst'
      BY <2>21 DEF ReleaseReadFails, LockTypeOK, NoTrace, WrittenFirst
    <3>. QED BY <3>1, <3>2, <3>3, <3>4, <3>5
  <2>22. CASE ReleaseUnlinkFails(p)
    <3>1. LockTypeOK'
      BY <2>22 DEF ReleaseUnlinkFails, LockTypeOK
    <3>2. (NoTrace /\ NothingLeftBehind)'
      BY <2>22 DEF ReleaseUnlinkFails, LockTypeOK, NoTrace, NothingLeftBehind
    <3>3. (ProbesSomebody /\ InTheWay /\ RefusedOnlyByRival)'
      BY <2>22 DEF ReleaseUnlinkFails, LockTypeOK, NoTrace, NothingLeftBehind, ProbesSomebody,
                  InTheWay, RefusedOnlyByRival
    <3>4. (OwnerOwnsFile /\ TakenFromTheGone)'
      BY <2>22 DEF ReleaseUnlinkFails, LockTypeOK, NoTrace, OwnerOwnsFile, TakenFromTheGone
    <3>5. WrittenFirst'
      BY <2>22 DEF ReleaseUnlinkFails, LockTypeOK, NoTrace, WrittenFirst
    <3>. QED BY <3>1, <3>2, <3>3, <3>4, <3>5
  <2>. QED
    BY <1>2, <2>1, <2>2, <2>3, <2>4, <2>5, <2>6, <2>7, <2>8, <2>9,
       <2>10, <2>11, <2>12, <2>13, <2>14, <2>15, <2>16, <2>17, <2>18, <2>19,
       <2>20, <2>21, <2>22
       DEF Acquire, Release
<1>. QED BY <1>1, <1>2 DEF Next

\* The invariant holds in every reachable state.
THEOREM LockInvariant == Spec => []IInv
<1>. QED BY IInvInit, IInvStep, PTL DEF Spec

\* Every variable keeps its type, whatever the number of processes and reads.
THEOREM LockTypeCorrect == Spec => []LockTypeOK
<1>1. IInv => LockTypeOK
  BY DEF IInv
<1>. QED BY <1>1, LockInvariant, PTL

(***************************************************************************)
(* acquireLock and release: two processes hold the device's lock at once   *)
(* only after a takeover that misjudged a running owner, could not read    *)
(* what a running owner wrote or was to write, or was overtaken between    *)
(* its judgement and its unlink, whatever else fails.                      *)
(***************************************************************************)
THEOREM LockExclusiveUnlessMistaken == Spec => []ExclusiveUnlessMistaken
<1>1. IInv => ExclusiveUnlessMistaken
  BY DEF IInv, OwnerOwnsFile, ExclusiveUnlessMistaken, AtMostOneHolder, Owning
<1>. QED BY <1>1, LockInvariant, PTL

(***************************************************************************)
(* acquireLock: a process is refused the lock only if another one had it   *)
(* or got it in the meantime, or by a file that its own takeover or its    *)
(* owner could not remove; a crashed process's file refuses nobody who can *)
(* unlink it.                                                              *)
(***************************************************************************)
THEOREM LockRefusedOnlyByRival == Spec => []RefusedOnlyByRival
<1>1. IInv => RefusedOnlyByRival
  BY DEF IInv
<1>. QED BY <1>1, LockInvariant, PTL

(***************************************************************************)
(* Every orderly way out of acquireLock and release leaves no lock file of *)
(* the process's own at the path, unless its own close, read or unlink     *)
(* failed.                                                                 *)
(***************************************************************************)
THEOREM LockNothingLeftBehind == Spec => []NothingLeftBehind
<1>1. IInv => NothingLeftBehind
  BY DEF IInv
<1>. QED BY <1>1, LockInvariant, PTL

=============================================================================
