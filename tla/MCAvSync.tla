------------------------------ MODULE MCAvSync ------------------------------
(* Instances of AvSync for TLC.                                             *)
EXTENDS AvSync

\* Before, between and on the samples of the first chunks.
MCStarts == 1 .. 8

=============================================================================
