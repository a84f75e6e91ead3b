------------------------------ MODULE MCEncoder ------------------------------
(* Instances of Encoder for TLC.                                            *)
EXTENDS Encoder

CONSTANTS stream, record, replay

MCOutputs == {stream, record, replay}
MCDelayed == {stream}

=============================================================================
