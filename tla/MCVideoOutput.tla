--------------------------- MODULE MCVideoOutput ---------------------------
(* Instances of VideoOutput for TLC: two encoders, one of which may fail    *)
(* and disconnect itself from inside its callback.                          *)
EXTENDS VideoOutput

CONSTANTS enc, raw

MCInputs == {enc, raw}
MCSelfRemoving == {enc}
MCCounts == {1, 2}

=============================================================================
