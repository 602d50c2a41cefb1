---------------------------- MODULE MCAsyncQueue ----------------------------
(***************************************************************************)
(* AsyncQueue on small instances. MCAsyncQueue.cfg has the one producer    *)
(* that each queue of the pipeline has; MCAsyncQueueMany.cfg has two.      *)
(***************************************************************************)
EXTENDS AsyncQueue

=============================================================================
