------------------------------ MODULE MCDaemon ------------------------------
(***************************************************************************)
(* The daemon with two iPods in one lane and a player in the other.        *)
(***************************************************************************)
EXTENDS Daemon

=============================================================================
