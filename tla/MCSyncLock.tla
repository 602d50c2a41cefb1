----------------------------- MODULE MCSyncLock -----------------------------
(***************************************************************************)
(* SyncLock with three processes: one that leaves a stale file and two     *)
(* that contend for it.                                                    *)
(***************************************************************************)
EXTENDS SyncLock, TLC

\* Processes are interchangeable.
MCSymmetry == Permutations(Procs)

=============================================================================
