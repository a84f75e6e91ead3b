----------------------------- MODULE FrameQueue -----------------------------
(***************************************************************************)
(* What the frame cache of libobs/media-io/video-io.c promises to the      *)
(* graphics thread that fills it and to the outputs that drain it: a       *)
(* bounded first-in first-out queue of pictures, each standing for a       *)
(* number of frame intervals.  A picture that finds the queue full is      *)
(* dropped and its intervals are given to the youngest queued picture, so  *)
(* no interval of the frame clock is ever lost.                            *)
(*                                                                         *)
(* Time is counted in frame intervals (frame_time in the code): picture p  *)
(* was rendered at the p-th interval.                                      *)
(***************************************************************************)
EXTENDS Integers, Sequences

CONSTANTS
  Size,      (* number of pictures the queue can hold                      *)
  Counts,    (* numbers of intervals one picture may stand for             *)
  MaxClock   (* bound: last interval of the frame clock that is explored   *)

VARIABLES
  queue,     (* pictures not completely shown yet, oldest first            *)
  produced,  (* intervals the graphics thread has accounted for            *)
  emitted    (* intervals that have been put out                           *)

queueVars == <<queue, produced, emitted>>

Picture == [pic : Nat, count : Nat \ {0}]

QueueInit ==
  /\ queue = <<>>
  /\ produced = 0
  /\ emitted = 0

\* There is room: the picture rendered at interval `produced` is queued.
Push(c) ==
  /\ Len(queue) < Size
  /\ produced + c <= MaxClock
  /\ queue' = Append(queue, [pic |-> produced, count |-> c])
  /\ produced' = produced + c
  /\ UNCHANGED emitted

\* The queue is full: the youngest picture is repeated in place of a new one.
Repeat(c) ==
  /\ Len(queue) = Size
  /\ produced + c <= MaxClock
  /\ queue' = [queue EXCEPT ![Size].count = @ + c]
  /\ produced' = produced + c
  /\ UNCHANGED emitted

\* The oldest picture is shown for one interval and leaves after its last one.
Emit ==
  /\ queue # <<>>
  /\ queue' = IF Head(queue).count = 1
              THEN Tail(queue)
              ELSE [queue EXCEPT ![1].count = @ - 1]
  /\ emitted' = emitted + 1
  /\ UNCHANGED produced

QueueNext ==
  \/ \E c \in Counts : Push(c) \/ Repeat(c)
  \/ Emit

QueueSpec == QueueInit /\ [][QueueNext]_queueVars

=============================================================================
