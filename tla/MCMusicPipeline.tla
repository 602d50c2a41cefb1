-------------------------- MODULE MCMusicPipeline --------------------------
(***************************************************************************)
(* MusicPipeline on small plans of every kind of operation.                *)
(***************************************************************************)
EXTENDS MusicPipeline

MCPlan == <<"transcode", "copy", "inline", "transcode", "inline">>

=============================================================================
