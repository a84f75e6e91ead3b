---------------------------- MODULE VideoOutput ----------------------------
(***************************************************************************)
(* libobs/media-io/video-io.c: the frame cache between the graphics        *)
(* thread, which renders pictures (obs-video.c), and the video thread,     *)
(* which hands them to the connected inputs (encoders and raw outputs).    *)
(*                                                                         *)
(* Threads and the state each of them owns:                                *)
(*   graphics   video_output_lock_frame / copy / video_output_unlock_frame *)
(*   video      video_thread and video_output_cur_frame                    *)
(*   main       video_output_stop, then joins both threads and closes      *)
(*   others     video_output_connect / video_output_disconnect             *)
(* Every critical section of data_mutex is one action.  input_mutex is     *)
(* held by the video thread while it is at "pass"; other threads need it   *)
(* for a single critical section.                                          *)
(*                                                                         *)
(* Time is counted in frame intervals, so timestamp += frame_time is + 1.  *)
(***************************************************************************)
EXTENDS Integers, SequencesExt

CONSTANTS
  Inputs,        (* encoders and outputs that may connect                  *)
  SelfRemoving,  (* inputs whose callback may disconnect them: an encoder  *)
                 (* that fails calls full_stop from inside receive_video   *)
  cache_size,    (* video_output_info.cache_size                           *)
  Counts,        (* interval counts video_sleep can hand over              *)
  MaxClock       (* bound: last interval the graphics thread reaches       *)

ASSUME VideoAssumption ==
  /\ SelfRemoving \subseteq Inputs
  /\ cache_size \in Nat \ {0}
  /\ Counts \subseteq Nat \ {0}
  /\ MaxClock \in Nat

MAX_CACHE_SIZE == 16

\* init_cache clamps the requested size to the array in the structure.
CacheSize == IF cache_size > MAX_CACHE_SIZE THEN MAX_CACHE_SIZE ELSE cache_size

Slots == 0 .. CacheSize - 1

\* Contents of a slot that the graphics thread is overwriting or never wrote.
Torn == -1

VARIABLES
  cache,             (* slots: timestamp, count left, picture held         *)
  available_frames,
  first_added,
  last_added,
  update_semaphore,  (* value of the semaphore                             *)
  skipped_frames,
  total_frames,
  stop,
  inputs,            (* connected inputs, in the order of the array        *)
  gpc, wslot, clock, (* graphics thread: where it is, slot it writes, time *)
  vpc, cur, pos,     (* video thread: where it is, frame_info, loop index  *)
  mpc,               (* main thread: progress of the shutdown              *)
  emitted,           (* history: intervals put out so far                  *)
  served             (* history: inputs offered the frame of this pass     *)

cacheVars    == <<cache, available_frames, first_added, last_added>>
graphicsVars == <<gpc, wslot, clock, skipped_frames>>
videoVars    == <<vpc, cur, pos, total_frames, emitted, served>>
stopVars     == <<stop, mpc>>
vars == <<cacheVars, graphicsVars, videoVars, stopVars, update_semaphore, inputs>>

\* Mutant: the index is not wrapped at cache_size.
SuccUnwrapped(i) == i + 1

Succ(i) == IF i + 1 = CacheSize THEN 0 ELSE i + 1

Connected == Range(inputs)

\* Mutant: the semaphore only remembers that it was posted.
PostedOnce == 1

\* os_sem_post.
Posted == update_semaphore + 1

-----------------------------------------------------------------------------
(* video_output_open leaves an empty cache and a video thread that waits.  *)

Init ==
  /\ cache = [i \in Slots |-> [ts |-> 0, count |-> 0, pic |-> Torn]]
  /\ available_frames = CacheSize
  /\ first_added = 0
  /\ last_added = 0
  /\ update_semaphore = 0
  /\ stop = FALSE /\ mpc = "running"
  /\ inputs = <<>>
  /\ gpc = "idle" /\ wslot = 0 /\ clock = 0 /\ skipped_frames = 0
  /\ vpc = "wait" /\ cur = 0 /\ pos = 1 /\ total_frames = 0
  /\ emitted = 0 /\ served = {}

-----------------------------------------------------------------------------
(* Graphics thread.                                                        *)

\* Mutant: the oldest frame is shown longer.
StretchedOldest == first_added

\* The frame that stands in for one that finds the cache full.
Stretched == last_added

\* video_output_lock_frame with no free slot: the last added frame is shown
\* c intervals longer and the new picture is not copied.
SkipFrame(c) ==
  /\ gpc = "idle"
  /\ clock + c <= MaxClock
  /\ available_frames = 0
  /\ skipped_frames' = skipped_frames + c
  /\ cache' = [cache EXCEPT ![Stretched].count = @ + c]
  /\ clock' = clock + c
  /\ UNCHANGED <<available_frames, first_added, last_added, gpc, wslot,
                 videoVars, stopVars, update_semaphore, inputs>>

\* Mutant: last_added is advanced in an empty cache too.
FreeSlotAlwaysNext == Succ(last_added)

FreeSlot == IF available_frames # CacheSize THEN Succ(last_added) ELSE last_added

\* video_output_lock_frame with a free slot: stamp it and start copying.
LockFrame(c) ==
  /\ gpc = "idle"
  /\ clock + c <= MaxClock
  /\ available_frames # 0
  /\ last_added' = FreeSlot
  /\ cache' = [cache EXCEPT ![FreeSlot] =
                 [ts |-> clock, count |-> c, pic |-> Torn]]
  /\ wslot' = FreeSlot
  /\ gpc' = "writing"
  /\ clock' = clock + c
  /\ UNCHANGED <<available_frames, first_added, skipped_frames, videoVars,
                 stopVars, update_semaphore, inputs>>

\* The copy is complete; video_output_unlock_frame publishes the slot.
UnlockFrame ==
  /\ gpc = "writing"
  /\ cache' = [cache EXCEPT ![wslot].pic = cache[wslot].ts]
  /\ available_frames' = available_frames - 1
  /\ update_semaphore' = Posted
  /\ gpc' = "idle"
  /\ UNCHANGED <<first_added, last_added, wslot, clock, skipped_frames,
                 videoVars, stopVars, inputs>>

\* obs_video_thread leaves its loop once video_output_stopped answers true.
GraphicsExit ==
  /\ gpc = "idle"
  /\ stop
  /\ gpc' = "ended"
  /\ UNCHANGED <<cacheVars, wslot, clock, skipped_frames, videoVars, stopVars,
                 update_semaphore, inputs>>

-----------------------------------------------------------------------------
(* Video thread.                                                           *)

\* os_sem_wait returns.
Wake ==
  /\ vpc = "wait"
  /\ update_semaphore > 0
  /\ update_semaphore' = update_semaphore - 1
  /\ vpc' = "woken"
  /\ UNCHANGED <<cacheVars, graphicsVars, cur, pos, total_frames, emitted,
                 served, stopVars, inputs>>

\* if (video->stop) break;
CheckStop ==
  /\ vpc = "woken"
  /\ vpc' = IF stop THEN "exited" ELSE "loop"
  /\ UNCHANGED <<cacheVars, graphicsVars, cur, pos, total_frames, emitted,
                 served, stopVars, update_semaphore, inputs>>

\* The inner loop finds stop set: the wake-up is counted, nothing is shown.
Abandon ==
  /\ vpc = "loop"
  /\ stop
  /\ total_frames' = total_frames + 1
  /\ vpc' = "wait"
  /\ UNCHANGED <<cacheVars, graphicsVars, cur, pos, emitted, served, stopVars,
                 update_semaphore, inputs>>

\* video_output_cur_frame, first section: frame_info = &cache[first_added].
PickFrame ==
  /\ vpc = "loop"
  /\ ~stop
  /\ cur' = first_added
  /\ vpc' = "picked"
  /\ UNCHANGED <<cacheVars, graphicsVars, pos, total_frames, emitted, served,
                 stopVars, update_semaphore, inputs>>

\* video_output_cur_frame takes input_mutex and starts its loop.
BeginPass ==
  /\ vpc = "picked"
  /\ vpc' = "pass"
  /\ pos' = 1
  /\ served' = {}
  /\ UNCHANGED <<cacheVars, graphicsVars, cur, total_frames, emitted, stopVars,
                 update_semaphore, inputs>>

\* One iteration: the callback gets the frame, or its scaler fails and the
\* callback is left out; in both cases the input has had its turn.
OfferFrame ==
  /\ vpc = "pass"
  /\ pos <= Len(inputs)
  /\ served' = served \cup {inputs[pos]}
  /\ pos' = pos + 1
  /\ UNCHANGED <<cacheVars, graphicsVars, vpc, cur, total_frames, emitted,
                 stopVars, update_semaphore, inputs>>

\* One iteration whose callback disconnects its own input: input_mutex is
\* recursive, the array shrinks under the loop and the index still advances.
OfferFrameAndRemove ==
  /\ vpc = "pass"
  /\ pos <= Len(inputs)
  /\ inputs[pos] \in SelfRemoving
  /\ served' = served \cup {inputs[pos]}
  /\ inputs' = RemoveAt(inputs, pos)
  /\ pos' = pos + 1
  /\ UNCHANGED <<cacheVars, graphicsVars, vpc, cur, total_frames, emitted,
                 stopVars, update_semaphore>>

EndPass ==
  /\ vpc = "pass"
  /\ pos > Len(inputs)
  /\ vpc' = "account"
  /\ UNCHANGED <<cacheVars, graphicsVars, cur, pos, total_frames, emitted,
                 served, stopVars, update_semaphore, inputs>>

\* Mutant: the timestamp stays while the frame is repeated.
ShownSameTime(frame) == [frame EXCEPT !.count = @ - 1]

\* One interval of the frame is done.
Shown(frame) == [frame EXCEPT !.ts = @ + 1, !.count = @ - 1]

LastAdded(freed, first) == IF freed = CacheSize THEN first ELSE last_added

\* video_output_cur_frame, last section: the slot is given back after the last
\* interval of its frame.
FinishFrame ==
  LET complete == cache[cur].count = 1
  IN /\ vpc = "account"
     /\ cache' = [cache EXCEPT ![cur] = Shown(@)]
     /\ IF complete
        THEN /\ first_added' = Succ(first_added)
             /\ available_frames' = available_frames + 1
             /\ last_added' = LastAdded(available_frames + 1, Succ(first_added))
             /\ vpc' = "wait"
        ELSE /\ vpc' = "loop"
             /\ UNCHANGED <<first_added, available_frames, last_added>>
     /\ total_frames' = total_frames + 1
     /\ emitted' = emitted + 1
     /\ UNCHANGED <<graphicsVars, cur, pos, served, stopVars, update_semaphore,
                    inputs>>

-----------------------------------------------------------------------------
(* Any other thread: needs input_mutex.                                    *)

InputsUnlocked == vpc # "pass"

Connect(i) ==
  /\ InputsUnlocked
  /\ mpc # "closed"
  /\ i \notin Connected
  /\ inputs' = Append(inputs, i)
  /\ UNCHANGED <<cacheVars, graphicsVars, videoVars, stopVars, update_semaphore>>

Disconnect(i) ==
  /\ InputsUnlocked
  /\ mpc # "closed"
  /\ \E n \in DOMAIN inputs : inputs[n] = i /\ inputs' = RemoveAt(inputs, n)
  /\ UNCHANGED <<cacheVars, graphicsVars, videoVars, stopVars, update_semaphore>>

-----------------------------------------------------------------------------
(* Main thread: stop_video and obs_free_video of obs.c.                    *)

SetStop ==
  /\ mpc = "running"
  /\ stop' = TRUE
  /\ mpc' = "flagged"
  /\ UNCHANGED <<cacheVars, graphicsVars, videoVars, update_semaphore, inputs>>

PostStop ==
  /\ mpc = "flagged"
  /\ update_semaphore' = Posted
  /\ mpc' = "joining"
  /\ UNCHANGED <<cacheVars, graphicsVars, videoVars, stop, inputs>>

\* Both pthread_join calls have returned; video_output_close frees the cache
\* and the inputs still connected.
Close ==
  /\ mpc = "joining"
  /\ vpc = "exited"
  /\ gpc = "ended"
  /\ inputs' = <<>>
  /\ mpc' = "closed"
  /\ UNCHANGED <<cacheVars, graphicsVars, videoVars, stop, update_semaphore>>

Terminated == mpc = "closed" /\ UNCHANGED vars

-----------------------------------------------------------------------------

Graphics == \/ \E c \in Counts : SkipFrame(c) \/ LockFrame(c)
            \/ UnlockFrame
            \/ GraphicsExit

Video == \/ Wake \/ CheckStop \/ Abandon \/ PickFrame \/ BeginPass
         \/ OfferFrame \/ OfferFrameAndRemove \/ EndPass \/ FinishFrame

Main == SetStop \/ PostStop \/ Close

Others == \E i \in Inputs : Connect(i) \/ Disconnect(i)

Next == Graphics \/ Video \/ Main \/ Others \/ Terminated

Spec == Init /\ [][Next]_vars

(* The video thread and a started shutdown are ordinary threads that the   *)
(* scheduler runs; a copy once started ends.  Nothing obliges the user to  *)
(* stop, an input to connect, or the graphics thread to render again.      *)
Fairness ==
  /\ WF_vars(Video)
  /\ WF_vars(UnlockFrame)
  /\ WF_vars(GraphicsExit)
  /\ WF_vars(PostStop)
  /\ WF_vars(Close)

FairSpec == Spec /\ Fairness

-----------------------------------------------------------------------------
(* Properties.                                                             *)

\* Published pictures, and the slots they and the one being written are in.
Queued == CacheSize - available_frames
Held == IF gpc = "writing" THEN Queued + 1 ELSE Queued
Slot(k) == IF first_added + k < CacheSize THEN first_added + k
                                          ELSE first_added + k - CacheSize

\* The video thread works on the frame it picked.
Busy == vpc \in {"picked", "pass", "account"}

\* Every variable stays within its type.
TypeOK ==
  /\ cache \in [Slots -> [ts : Nat, count : Nat, pic : Nat \cup {Torn}]]
  /\ available_frames \in 0 .. CacheSize
  /\ first_added \in Slots /\ last_added \in Slots
  /\ update_semaphore \in Nat /\ skipped_frames \in Nat /\ total_frames \in Nat
  /\ stop \in BOOLEAN
  /\ inputs \in Seq(Inputs)
  /\ gpc \in {"idle", "writing", "ended"} /\ wslot \in Slots /\ clock \in Nat
  /\ vpc \in {"wait", "woken", "loop", "picked", "pass", "account", "exited"}
  /\ cur \in Slots /\ pos \in Nat \ {0}
  /\ mpc \in {"running", "flagged", "joining", "closed"}
  /\ emitted \in Nat /\ served \in SUBSET Inputs

\* The video thread reads frame_info outside data_mutex: what it reads is a
\* completely copied picture and never the slot the graphics thread writes.
NoTearing ==
  Busy => /\ cache[cur].pic # Torn
          /\ ~(gpc = "writing" /\ wslot = cur)

\* The outputs see every interval of the frame clock once and in order: the
\* timestamp of the frame being put out is the next interval, and the frame
\* shows a picture that had been rendered by then.
Cadence ==
  Busy => cache[cur].ts = emitted /\ cache[cur].pic <= emitted

\* Intervals dropped on a full cache are neither lost nor shown twice: what
\* is still queued stands for exactly the intervals not yet put out.
Timeline ==
  /\ Held = 0 => emitted = clock
  /\ Held > 0 => cache[first_added].ts = emitted
  /\ \A k \in 0 .. Held - 1 :
       /\ cache[Slot(k)].count >= 1
       /\ cache[Slot(k)].ts + cache[Slot(k)].count =
            IF k + 1 < Held THEN cache[Slot(k + 1)].ts ELSE clock

\* last_added, which the graphics thread advances and the video thread resets
\* when the cache drains, always names the youngest occupied slot.
RingOrder ==
  /\ Held <= CacheSize
  /\ last_added = IF Held = 0 THEN first_added ELSE Slot(Held - 1)
  /\ gpc = "writing" => wslot = last_added
  /\ Busy => cur = first_added

\* Until the output is stopped, every published picture is matched by one post
\* of the semaphore, or by the wake-up the video thread is working on.
OnePostPerFrame ==
  ~stop => /\ mpc = "running"
           /\ vpc # "exited"
           /\ Queued = update_semaphore + (IF vpc = "wait" THEN 0 ELSE 1)

\* In one pass over the inputs, an input is left without the frame only when
\* another one disconnected itself from inside its callback.
PassedBy == {inputs[k] : k \in {n \in DOMAIN inputs : n < pos}}
MissedOnlyBehindRemoval ==
  vpc = "pass" => Cardinality(PassedBy \ served)
                    <= Cardinality(served \ Connected)

\* The cache is the bounded queue of FrameQueue: a picture enters when
\* video_output_unlock_frame publishes it.
Queue == [k \in 1 .. Queued |-> [pic   |-> cache[Slot(k - 1)].pic,
                                count |-> cache[Slot(k - 1)].count]]
Produced == IF gpc = "writing" THEN cache[wslot].ts ELSE clock

FIFO == INSTANCE FrameQueue WITH
  Size <- CacheSize, queue <- Queue, produced <- Produced, emitted <- emitted
ImplementsFrameQueue == FIFO!QueueSpec

\* Every interval handed over by the graphics thread is put out eventually,
\* unless the output is stopped first.
EveryIntervalShown ==
  \A n \in 1 .. MaxClock : clock >= n ~> (emitted >= n \/ stop)

\* video_output_stop ends: the flag and the extra post wake the video thread
\* wherever it is, and both threads can be joined.
StopCompletes == stop ~> mpc = "closed"

\* Whatever the clock hands over reaches every input: all intervals are put out, each
\* pass leaves out an input only behind one that removed itself, and a stop ends both
\* threads at any moment.
InputsServed == []MissedOnlyBehindRemoval /\ EveryIntervalShown /\ StopCompletes
=============================================================================
