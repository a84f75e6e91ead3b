-------------------------- MODULE MCRtmpSendQueue --------------------------
(* Instances of RtmpSendQueue for TLC.                                      *)
EXTENDS RtmpSendQueue

\* Audio, disposable, low and high priority frames.
MCKinds == {Audio, DISPOSABLE, LOW, HIGH}

\* A session that fills the queue until frames are dropped, and a short one on
\* what it left.
MCMaxPackets == <<6, 2>>

\* Filtering agrees with the standard module on short sequences.
ASSUME PassingIsSelectSeq ==
  \A s \in BoundedSeq(0 .. 2, 4), T \in SUBSET (0 .. 2) :
    Passing(s, T) = SelectSeq(s, LAMBDA x : x \in T)

=============================================================================
