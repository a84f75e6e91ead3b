---------------------------- MODULE MCObjectRefs ----------------------------
(* Instance of ObjectRefs for TLC: owners, one of which may be a callback   *)
(* that keeps what obs_enum_sources shows it.                               *)
EXTENDS ObjectRefs

CONSTANTS a, b, c

MCOwners == {a, b, c}
MCRetainers == {b}

=============================================================================
