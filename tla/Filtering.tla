----------------------------- MODULE Filtering -----------------------------
(***************************************************************************)
(* What the code writes by taking every element out of a queue and putting *)
(* back the ones it keeps: drop_frames of rtmp-stream.c, the sweep of      *)
(* signal.c over callbacks marked for removal; and what clean_cache of     *)
(* obs-source.c leaves when it erases entries.  The same as SelectSeq of   *)
(* the standard module Sequences, defined so that it can be proved about.  *)
(***************************************************************************)
EXTENDS Integers, Sequences

\* The elements of s that belong to T, in their order.
Passing(s, T) ==
  LET prefix[n \in 0 .. Len(s)] ==
        IF n = 0 THEN <<>>
        ELSE IF s[n] \in T THEN Append(prefix[n - 1], s[n])
                           ELSE prefix[n - 1]
  IN prefix[Len(s)]

=============================================================================
