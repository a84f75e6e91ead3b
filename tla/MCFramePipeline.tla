-------------------------- MODULE MCFramePipeline --------------------------
(* Instance of FramePipeline for TLC: ticks on time and one interval late.  *)
EXTENDS FramePipeline

MCTickCounts == {1, 2}

=============================================================================
