---------------------------- MODULE MCInterleave ----------------------------
(* Instances of Interleave for TLC.                                         *)
EXTENDS Interleave

\* Each encoder may start anywhere within some frames of the others.
MCAnyOrigins == [Streams -> 0 .. 6]

=============================================================================
