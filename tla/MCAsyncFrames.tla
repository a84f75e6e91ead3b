---------------------------- MODULE MCAsyncFrames ----------------------------
(* An instance of AsyncFrames for TLC.  The sources: one at the rate of the  *)
(* ticks, one above it, one whose time stamps jump forward, one that starts  *)
(* again near 0, so that the play time wraps, and one that changes its size. *)
EXTENDS AsyncFrames

CONSTANTS small, large

At(ts, size) == [i \in DOMAIN ts |-> [ts |-> ts[i], size |-> size]]

MCStreams ==
  {At(<<4, 7, 10, 13>>, small), At(<<4, 6, 8, 10>>, small),
   At(<<4, 7, 16, 19>>, small), At(<<20, 23, 1, 4>>, small),
   At(<<4, 7>>, small) \o At(<<10, 13>>, large)}
MCTicks  == {3, 6}
=============================================================================
