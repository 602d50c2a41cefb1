-------------------------- MODULE MCTranscodeSweep --------------------------
(* Two sessions beside one sweeping sync after the other.                    *)
EXTENDS TranscodeSweep, TLC

Symmetric == Permutations(Sessions)
=============================================================================
