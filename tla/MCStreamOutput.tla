--------------------------- MODULE MCStreamOutput ---------------------------
(* Instances of StreamOutput for TLC.  Numbers of threads are used again,   *)
(* so few are needed; TypeOK says that they suffice.                        *)
EXTENDS StreamOutput

MCThreads == 1 .. 6

=============================================================================
