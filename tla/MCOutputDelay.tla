---------------------------- MODULE MCOutputDelay ----------------------------
(* Instances of OutputDelay for TLC.                                        *)
EXTENDS OutputDelay
=============================================================================
