------------------------- MODULE VideoOutputProofs -------------------------
(***************************************************************************)
(* Proofs about the way of a picture: first libobs/media-io/video-io.c,    *)
(* then, at the end, what comes before it in libobs/obs-video.c.           *)
(*                                                                         *)
(* VideoOutput, for every cache size, set of inputs and range of interval  *)
(* counts.  Its properties are not inductive by themselves: that the video *)
(* thread never frees a slot it does not hold rests on the posts of the    *)
(* semaphore, the posts on the position of first_added and last_added, and *)
(* the timestamps on all of these.  IInv puts them together and adds       *)
(* Whole.                                                                  *)
(*                                                                         *)
(* FramePipeline, for any lengths of a tick and any number of ticks,       *)
(* failed downloads and resets: PipelineIInv says which picture is in      *)
(* which texture, which times wait, and so how they meet.                  *)
(*                                                                         *)
(* No name is in both modules, so that one module can extend them.         *)
(***************************************************************************)
EXTENDS VideoOutput, FramePipeline, SequenceTheorems, FiniteSetTheorems, TLAPS

\* Published slots hold whole pictures, and the frame at work is published.
Whole ==
  /\ \A k \in 0 .. Queued - 1 :
       /\ cache[Slot(k)].pic \in Nat
       /\ cache[Slot(k)].pic <= cache[Slot(k)].ts
  /\ Busy => Queued >= 1

IInv == TypeOK /\ RingOrder /\ Timeline /\ OnePostPerFrame /\ Whole

-----------------------------------------------------------------------------
(* The ring.                                                               *)

\* The clamped size is a positive number.
LEMMA CacheSizePos == CacheSize \in Nat \ {0}
  BY VideoAssumption DEF CacheSize, MAX_CACHE_SIZE

\* The occupied slots are distinct members of the ring.
LEMMA SlotRing ==
  ASSUME first_added \in Slots
  PROVE  /\ \A k \in 0 .. CacheSize - 1 : Slot(k) \in Slots
         /\ \A j, k \in 0 .. CacheSize - 1 : Slot(j) = Slot(k) => j = k
         /\ \A k \in 0 .. CacheSize - 2 : Succ(Slot(k)) = Slot(k + 1)
         /\ Slot(0) = first_added
  BY CacheSizePos DEF Slots, Slot, Succ

\* Freeing the first slot renumbers the others.
LEMMA SlotShift ==
  ASSUME first_added \in Slots, first_added' = Succ(first_added)
  PROVE  /\ first_added' \in Slots /\ first_added' = Slot(0)'
         /\ \A k \in 0 .. CacheSize - 2 : Slot(k)' = Slot(k + 1)
  BY CacheSizePos DEF Slots, Slot, Succ

\* Erasing an element of an array closes the gap it leaves.
LEMMA RemoveAtIs ==
  ASSUME NEW S, NEW s \in Seq(S), NEW i \in 1 .. Len(s)
  PROVE  /\ RemoveAt(s, i) \in Seq(S) /\ Len(RemoveAt(s, i)) = Len(s) - 1
         /\ \A k \in 1 .. Len(s) - 1 :
              RemoveAt(s, i)[k] = IF k < i THEN s[k] ELSE s[k + 1]
<1> DEFINE n == Len(s)
           a == SubSeq(s, 1, i - 1)
           b == SubSeq(s, i + 1, n)
<1>1. n \in Nat /\ i \in 1 .. n /\ \A k \in 1 .. n : s[k] \in S
  BY LenProperties, ElementOfSeq
<1>2. /\ a \in Seq(S) /\ Len(a) = i - 1
      /\ \A k \in 1 .. i - 1 : a[k] = s[k]
  BY <1>1, SubSeqProperties
<1>3. /\ b \in Seq(S) /\ Len(b) = n - i
      /\ \A k \in 1 .. n - i : b[k] = s[k + i]
  BY <1>1, SubSeqProperties
<1> HIDE DEF a, b, n
<1>4. /\ a \o b \in Seq(S) /\ Len(a \o b) = n - 1
      /\ \A k \in 1 .. n - 1 : (a \o b)[k] = IF k < i THEN s[k] ELSE s[k + 1]
  <2>1. /\ a \o b \in Seq(S) /\ Len(a \o b) = Len(a) + Len(b)
        /\ \A k \in 1 .. Len(a) + Len(b) :
             (a \o b)[k] = IF k <= Len(a) THEN a[k] ELSE b[k - Len(a)]
    BY <1>2, <1>3, ConcatProperties
  <2>2. Len(a) + Len(b) = n - 1
    BY <1>1, <1>2, <1>3
  <2>3. ASSUME NEW k \in 1 .. n - 1
        PROVE  (a \o b)[k] = IF k < i THEN s[k] ELSE s[k + 1]
    <3>1. CASE k < i
      BY <1>1, <1>2, <2>1, <2>2, <3>1
    <3>2. CASE ~(k < i)
      <4>1. k - (i - 1) \in 1 .. n - i /\ (k - (i - 1)) + i = k + 1 /\ ~(k <= i - 1)
        BY <1>1, <3>2
      <4> QED
        BY <1>2, <1>3, <2>1, <2>2, <3>2, <4>1
    <3> QED
      BY <3>1, <3>2
  <2> QED
    BY <2>1, <2>2, <2>3
<1> QED
  BY <1>4 DEF RemoveAt, a, b, n

-----------------------------------------------------------------------------
(* The initial state.                                                      *)

\* The empty cache that video_output_open leaves is consistent.
LEMMA InitIInv == Init => IInv
<1> SUFFICES ASSUME Init PROVE IInv
  OBVIOUS
<1> USE CacheSizePos DEF Init
<1>1. Queued = 0 /\ Held = 0 /\ ~Busy
  BY DEF Queued, Held, Busy
<1>2. TypeOK
  <2>1. inputs \in Seq(Inputs)
    BY EmptySeq
  <2>2. 0 \in Slots /\ CacheSize \in 0 .. CacheSize
    BY DEF Slots
  <2> QED
    BY <2>1, <2>2 DEF TypeOK
<1>3. RingOrder
  BY <1>1 DEF RingOrder
<1>4. Timeline
  BY <1>1 DEF Timeline
<1>5. OnePostPerFrame
  BY <1>1 DEF OnePostPerFrame
<1>6. Whole
  BY <1>1 DEF Whole
<1> QED
  BY <1>2, <1>3, <1>4, <1>5, <1>6 DEF IInv

-----------------------------------------------------------------------------
(* Steps that leave the cache alone.                                       *)

\* A step that leaves the cache, the clock and the write slot alone keeps the
\* ring, the timeline and the complete copies.
LEMMA QuietRing ==
  ASSUME IInv,
         UNCHANGED <<cacheVars, wslot, clock, emitted>>,
         gpc' = gpc \/ (gpc = "idle" /\ gpc' = "ended"),
         Busy' => Queued >= 1 /\ cur' = first_added
  PROVE  RingOrder' /\ Timeline' /\ Whole'
<1>1. Queued' = Queued /\ Held' = Held /\ (gpc' = "writing" <=> gpc = "writing")
  BY DEF Queued, Held, cacheVars
<1>2. \A k : Slot(k)' = Slot(k)
  BY DEF Slot, cacheVars
<1>3. Held \in Int
  BY CacheSizePos DEF IInv, TypeOK, Held, Queued
<1>4. RingOrder'
  BY <1>1, <1>2 DEF IInv, RingOrder, cacheVars
<1>5. Timeline'
  BY <1>1, <1>2 DEF IInv, Timeline, cacheVars
<1>6. Whole'
  BY <1>1, <1>2 DEF IInv, Whole, cacheVars
<1> QED
  BY <1>4, <1>5, <1>6

\* The video thread between the frames, the inputs and the shutdown.
LEMMA QuietIInv ==
  ASSUME IInv,
         \/ GraphicsExit \/ Wake \/ CheckStop \/ Abandon \/ PickFrame
         \/ BeginPass \/ OfferFrame \/ OfferFrameAndRemove \/ EndPass
         \/ SetStop \/ PostStop \/ Close \/ UNCHANGED vars
         \/ \E i \in Inputs : Connect(i) \/ Disconnect(i)
  PROVE  IInv'
<1> USE DEF IInv
<1>1. CASE GraphicsExit
  <2>1. TypeOK' /\ OnePostPerFrame'
    BY <1>1 DEF GraphicsExit, TypeOK, OnePostPerFrame, Queued, videoVars, stopVars, cacheVars
  <2>2. RingOrder' /\ Timeline' /\ Whole'
    BY <1>1, QuietRing DEF GraphicsExit, videoVars, stopVars, cacheVars, Busy, RingOrder, Whole
  <2> QED
    BY <2>1, <2>2
<1>2. CASE Wake \/ CheckStop \/ Abandon
  <2>0. Queued' = Queued /\ Queued \in Int
    BY <1>2, CacheSizePos DEF Wake, CheckStop, Abandon, Queued, TypeOK, cacheVars
  <2>b. TypeOK'
    <3>1. CASE Wake
      BY <3>1 DEF Wake, TypeOK, graphicsVars, stopVars, cacheVars
    <3>2. CASE CheckStop
      BY <3>2 DEF CheckStop, TypeOK, graphicsVars, stopVars, cacheVars
    <3>3. CASE Abandon
      BY <3>3 DEF Abandon, TypeOK, graphicsVars, stopVars, cacheVars
    <3> QED
      BY <1>2, <3>1, <3>2, <3>3
  <2>c. OnePostPerFrame'
    <3>1. CASE Wake
      BY <3>1, <2>0 DEF Wake, OnePostPerFrame, TypeOK, stopVars
    <3>2. CASE CheckStop \/ Abandon
      BY <1>2, <3>2, <2>0 DEF CheckStop, Abandon, OnePostPerFrame, TypeOK, stopVars
    <3> QED
      BY <1>2, <3>1, <3>2
  <2>1. TypeOK' /\ OnePostPerFrame'
    BY <2>b, <2>c
  <2>2. RingOrder' /\ Timeline' /\ Whole'
    BY <1>2, QuietRing DEF Wake, CheckStop, Abandon, graphicsVars, stopVars, Busy
  <2> QED
    BY <2>1, <2>2
<1>3. CASE PickFrame
  <2>1. TypeOK' /\ OnePostPerFrame'
    BY <1>3 DEF PickFrame, TypeOK, OnePostPerFrame, Queued, graphicsVars, stopVars, cacheVars
  <2>2. Queued >= 1 /\ cur' = first_added
    BY <1>3 DEF PickFrame, OnePostPerFrame, TypeOK
  <2>3. RingOrder' /\ Timeline' /\ Whole'
    BY <1>3, <2>2, QuietRing DEF PickFrame, graphicsVars, stopVars
  <2> QED
    BY <2>1, <2>3
<1>4. CASE BeginPass \/ OfferFrame \/ OfferFrameAndRemove \/ EndPass
  <2>1. inputs' \in Seq(Inputs) /\ served' \in SUBSET Inputs /\ pos' \in Nat \ {0}
    <3>1. CASE BeginPass \/ EndPass
      BY <1>4, <3>1 DEF BeginPass, EndPass, TypeOK
    <3>2. CASE OfferFrame \/ OfferFrameAndRemove
      <4>1. pos \in 1 .. Len(inputs) /\ pos \in DOMAIN inputs
        BY <3>2, LenProperties DEF OfferFrame, OfferFrameAndRemove, TypeOK
      <4>2. inputs[pos] \in Inputs
        BY <4>1, ElementOfSeq DEF TypeOK
      <4>3. RemoveAt(inputs, pos) \in Seq(Inputs)
        BY <4>1, RemoveAtIs DEF TypeOK
      <4> QED
        BY <3>2, <4>2, <4>3 DEF OfferFrame, OfferFrameAndRemove, TypeOK
    <3> QED
      BY <1>4, <3>1, <3>2
  <2>2. TypeOK' /\ OnePostPerFrame'
    BY <1>4, <2>1 DEF BeginPass, OfferFrame, OfferFrameAndRemove, EndPass, TypeOK,
                      OnePostPerFrame, Queued, graphicsVars, stopVars, cacheVars
  <2>3. RingOrder' /\ Timeline' /\ Whole'
    BY <1>4, QuietRing DEF BeginPass, OfferFrame, OfferFrameAndRemove, EndPass,
                           graphicsVars, stopVars, Busy, RingOrder, Whole
  <2> QED
    BY <2>2, <2>3
<1>5. CASE SetStop \/ PostStop \/ Close \/ UNCHANGED vars
  <2>1. <<>> \in Seq(Inputs)
    BY EmptySeq
  <2>0. TypeOK'
    <3>1. CASE SetStop \/ Close
      BY <2>1, <3>1 DEF SetStop, Close, TypeOK, graphicsVars, videoVars, stopVars, cacheVars
    <3>2. CASE PostStop
      BY <3>2 DEF PostStop, Posted, TypeOK, graphicsVars, videoVars, stopVars, cacheVars
    <3>3. CASE UNCHANGED vars
      BY <3>3 DEF vars, TypeOK, graphicsVars, videoVars, stopVars, cacheVars
    <3> QED
      BY <1>5, <3>1, <3>2, <3>3
  <2>b. OnePostPerFrame'
    <3>1. CASE SetStop \/ PostStop
      BY <3>1 DEF SetStop, PostStop, Posted, OnePostPerFrame
    <3>2. CASE Close \/ UNCHANGED vars
      BY <3>2 DEF Close, vars, OnePostPerFrame, Queued, videoVars, stopVars, cacheVars
    <3> QED
      BY <1>5, <3>1, <3>2
  <2>2. TypeOK' /\ OnePostPerFrame'
    BY <2>0, <2>b
  <2>3. RingOrder' /\ Timeline' /\ Whole'
    BY <1>5, QuietRing DEF SetStop, PostStop, Posted, Close, vars, graphicsVars, videoVars, stopVars,
                           Busy, RingOrder, Whole
  <2> QED
    BY <2>2, <2>3
<1>6. CASE \E i \in Inputs : Connect(i) \/ Disconnect(i)
  <2>1. PICK i \in Inputs : Connect(i) \/ Disconnect(i)
    BY <1>6
  <2>2. inputs' \in Seq(Inputs)
    <3>1. CASE Connect(i)
      BY <3>1, AppendProperties DEF Connect, TypeOK
    <3>2. CASE Disconnect(i)
      BY <3>2, LenProperties, RemoveAtIs DEF Disconnect, TypeOK
    <3> QED
      BY <2>1, <3>1, <3>2
  <2>3. TypeOK' /\ OnePostPerFrame'
    BY <2>1, <2>2 DEF Connect, Disconnect, TypeOK, OnePostPerFrame, Queued,
                      graphicsVars, videoVars, stopVars, cacheVars
  <2>4. RingOrder' /\ Timeline' /\ Whole'
    BY <2>1, QuietRing DEF Connect, Disconnect, graphicsVars, videoVars, stopVars, Busy,
                           RingOrder, Whole
  <2> QED
    BY <2>3, <2>4
<1> QED
  BY <1>1, <1>2, <1>3, <1>4, <1>5, <1>6

-----------------------------------------------------------------------------
(* The graphics thread.                                                    *)

\* Stretching the last added frame on a full cache keeps the cache consistent.
LEMMA SkipFrameIInv ==
  ASSUME IInv, NEW c \in Counts, SkipFrame(c)
  PROVE  IInv'
<1> USE DEF IInv
<1>1. /\ c \in Nat \ {0} /\ CacheSize \in Nat \ {0} /\ clock \in Nat
      /\ Held = CacheSize /\ Queued = CacheSize /\ gpc = "idle"
      /\ last_added = Slot(CacheSize - 1)
  BY VideoAssumption, CacheSizePos
     DEF SkipFrame, Stretched, TypeOK, RingOrder, Held, Queued
<1>2. /\ Held' = Held /\ Queued' = Queued /\ Busy' = Busy
      /\ \A k : Slot(k)' = Slot(k)
  BY DEF SkipFrame, Stretched, Held, Queued, Busy, Slot, videoVars, stopVars
<1>3. TypeOK'
  <2> DEFINE Frame == [ts : Nat, count : Nat, pic : Nat \cup {Torn}]
  <2>1. cache[last_added] \in Frame /\ cache[last_added].count + c \in Nat
    BY <1>1 DEF TypeOK
  <2>2. [cache[last_added] EXCEPT !.count = @ + c] \in Frame
    BY <2>1
  <2>3. cache' \in [Slots -> Frame]
    BY <2>2 DEF SkipFrame, Stretched, TypeOK
  <2>4. skipped_frames' \in Nat /\ clock' \in Nat
    <3>1. skipped_frames \in Nat /\ skipped_frames' = skipped_frames + c
      BY DEF SkipFrame, Stretched, TypeOK
    <3>2. clock' = clock + c
      BY DEF SkipFrame, Stretched
    <3> QED
      BY <1>1, <3>1, <3>2
  <2> QED
    BY <2>3, <2>4 DEF SkipFrame, Stretched, TypeOK, videoVars, stopVars
<1>4. \A i \in Slots :
        /\ cache'[i].ts = cache[i].ts /\ cache'[i].pic = cache[i].pic
        /\ cache'[i].count = IF i = last_added THEN cache[i].count + c
                                               ELSE cache[i].count
  BY DEF SkipFrame, Stretched, TypeOK
<1>5. \A k \in 0 .. CacheSize - 1 :
        Slot(k) \in Slots /\ (Slot(k) = last_added <=> k = CacheSize - 1)
  <2>1. CacheSize - 1 \in 0 .. CacheSize - 1
    BY <1>1
  <2>2. first_added \in Slots
    BY DEF TypeOK
  <2> QED
    BY <1>1, <2>1, <2>2, SlotRing
<1>6. RingOrder'
  BY <1>1, <1>2 DEF RingOrder, SkipFrame, Stretched, videoVars, stopVars
<1>7. Timeline'
  <2>1. cache'[first_added].ts = emitted
    BY <1>1, <1>4 DEF Timeline, TypeOK
  <2>2. ASSUME NEW k \in 0 .. CacheSize - 1
        PROVE  /\ cache'[Slot(k)].count >= 1
               /\ cache'[Slot(k)].ts + cache'[Slot(k)].count =
                    IF k + 1 < CacheSize THEN cache'[Slot(k + 1)].ts ELSE clock + c
    <3>1. cache[Slot(k)].ts \in Nat /\ cache[Slot(k)].count \in Nat
      BY <1>5 DEF TypeOK
    <3>2. CASE k = CacheSize - 1
      BY <1>1, <1>4, <1>5, <3>1, <3>2 DEF Timeline
    <3>3. CASE k # CacheSize - 1
      BY <1>1, <1>4, <1>5, <3>1, <3>3 DEF Timeline
    <3> QED
      BY <3>2, <3>3
  <2>3. clock' = clock + c /\ emitted' = emitted /\ first_added' = first_added
    BY DEF SkipFrame, Stretched, videoVars, stopVars
  <2> QED
    BY <1>1, <1>2, <2>1, <2>2, <2>3 DEF Timeline
<1>8. OnePostPerFrame'
  BY <1>2 DEF OnePostPerFrame, SkipFrame, videoVars, stopVars
<1>9. Whole'
  BY <1>1, <1>2, <1>4, <1>5 DEF Whole
<1> QED
  BY <1>3, <1>6, <1>7, <1>8, <1>9

\* Taking a free slot and starting the copy keeps the cache consistent.
LEMMA LockFrameIInv ==
  ASSUME IInv, NEW c \in Counts, LockFrame(c)
  PROVE  IInv'
<1> USE DEF IInv
<1>1. /\ c \in Nat \ {0} /\ CacheSize \in Nat \ {0} /\ clock \in Nat
      /\ Held \in 0 .. CacheSize - 1 /\ Queued = Held
      /\ gpc = "idle" /\ gpc' = "writing"
  BY VideoAssumption, CacheSizePos DEF LockFrame, FreeSlot, TypeOK, Held, Queued
<1>2. /\ Held' = Held + 1 /\ Queued' = Queued /\ Busy' = Busy
      /\ \A k : Slot(k)' = Slot(k)
  BY <1>1 DEF LockFrame, FreeSlot, Held, Queued, Busy, Slot, videoVars, stopVars
<1>3. /\ \A k \in 0 .. CacheSize - 1 : Slot(k) \in Slots
      /\ \A k \in 0 .. Held - 1 : Slot(k) # Slot(Held)
      /\ Slot(0) = first_added
  BY <1>1, SlotRing DEF TypeOK
<1>4. last_added' = Slot(Held) /\ wslot' = Slot(Held) /\ Slot(Held) \in Slots
  <2>1. CASE available_frames = CacheSize
    <3>1. Held = 0 /\ last_added = first_added
      BY <1>1, <2>1 DEF Queued, RingOrder
    <3> QED
      BY <1>1, <1>3, <2>1, <3>1 DEF LockFrame, FreeSlot
  <2>2. CASE available_frames # CacheSize
    <3>1. Held # 0 /\ last_added = Slot(Held - 1)
      BY <1>1, <2>2, CacheSizePos DEF Queued, RingOrder, TypeOK
    <3>2. Succ(last_added) = Slot(Held)
      BY <1>1, <3>1, SlotRing DEF TypeOK
    <3> QED
      BY <1>1, <1>3, <2>2, <3>2 DEF LockFrame, FreeSlot
  <2> QED
    BY <2>1, <2>2
<1>5. /\ cache'[Slot(Held)] = [ts |-> clock, count |-> c, pic |-> Torn]
      /\ \A k \in 0 .. Held - 1 : cache'[Slot(k)] = cache[Slot(k)]
  BY <1>1, <1>3, <1>4 DEF LockFrame, FreeSlot, TypeOK
<1>6. TypeOK'
  BY <1>1, <1>4 DEF LockFrame, FreeSlot, TypeOK, videoVars, stopVars
<1>7. RingOrder'
  BY <1>1, <1>2, <1>4 DEF RingOrder, LockFrame, FreeSlot, videoVars, stopVars
<1>8. Timeline'
  <2>1. clock' = clock + c /\ emitted' = emitted /\ first_added' = first_added
    BY DEF LockFrame, FreeSlot, videoVars, stopVars
  <2>2. cache'[first_added].ts = emitted
    <3>1. CASE Held = 0
      BY <1>3, <1>5, <3>1 DEF Timeline
    <3>2. CASE Held # 0
      BY <1>1, <1>3, <1>5, <3>2 DEF Timeline
    <3> QED
      BY <3>1, <3>2
  <2>3. ASSUME NEW k \in 0 .. Held
        PROVE  /\ cache'[Slot(k)].count >= 1
               /\ cache'[Slot(k)].ts + cache'[Slot(k)].count =
                    IF k + 1 < Held + 1 THEN cache'[Slot(k + 1)].ts ELSE clock + c
    <3>1. CASE k = Held
      BY <1>1, <1>5, <3>1
    <3>2. CASE k # Held
      BY <1>1, <1>5, <3>2 DEF Timeline
    <3> QED
      BY <3>1, <3>2
  <2> QED
    BY <1>1, <1>2, <2>1, <2>2, <2>3 DEF Timeline
<1>9. OnePostPerFrame'
  BY <1>2 DEF OnePostPerFrame, LockFrame, FreeSlot, videoVars, stopVars
<1>10. Whole'
  BY <1>1, <1>2, <1>5 DEF Whole
<1> QED
  BY <1>6, <1>7, <1>8, <1>9, <1>10

\* Publishing the copied slot with a post keeps the cache consistent.
LEMMA UnlockFrameIInv ==
  ASSUME IInv, UnlockFrame
  PROVE  IInv'
<1> USE DEF IInv
<1>1. /\ CacheSize \in Nat \ {0} /\ Queued \in 0 .. CacheSize - 1
      /\ Held = Queued + 1 /\ gpc = "writing" /\ gpc' = "idle"
  <2>1. gpc = "writing" /\ gpc' = "idle" /\ Held = Queued + 1 /\ Held <= CacheSize
    BY DEF UnlockFrame, Posted, RingOrder, Held
  <2>2. CacheSize \in Nat \ {0} /\ available_frames \in 0 .. CacheSize
    BY CacheSizePos DEF TypeOK
  <2> QED
    BY <2>1, <2>2 DEF Queued
<1>2. /\ Queued' = Queued + 1 /\ Held' = Held /\ Busy' = Busy
      /\ \A k : Slot(k)' = Slot(k)
  BY <1>1, CacheSizePos DEF UnlockFrame, Posted, TypeOK, Held, Queued, Busy, Slot, videoVars, stopVars
<1>3. /\ wslot = Slot(Queued) /\ first_added \in Slots
      /\ \A k \in 0 .. CacheSize - 1 : Slot(k) \in Slots
      /\ \A k \in 0 .. Queued - 1 : Slot(k) # wslot
  BY <1>1, SlotRing DEF TypeOK, RingOrder
<1>4. /\ \A i \in Slots : cache'[i].ts = cache[i].ts /\ cache'[i].count = cache[i].count
      /\ cache'[wslot].pic = cache[wslot].ts
      /\ \A k \in 0 .. Queued - 1 : cache'[Slot(k)] = cache[Slot(k)]
  <2>1. wslot \in Slots /\ cache \in [Slots -> [ts : Nat, count : Nat, pic : Nat \cup {Torn}]]
    BY DEF TypeOK
  <2>2. cache' = [cache EXCEPT ![wslot] = [@ EXCEPT !.pic = cache[wslot].ts]]
    BY DEF UnlockFrame, Posted
  <2>3. \A i \in Slots : cache'[i].ts = cache[i].ts /\ cache'[i].count = cache[i].count
    BY <2>1, <2>2
  <2>4. cache'[wslot].pic = cache[wslot].ts
    BY <2>1, <2>2
  <2>5. \A k \in 0 .. Queued - 1 : Slot(k) \in Slots /\ Slot(k) # wslot
    BY <1>1, <1>3
  <2>6. \A k \in 0 .. Queued - 1 : cache'[Slot(k)] = cache[Slot(k)]
    BY <2>1, <2>2, <2>5
  <2> QED
    BY <2>3, <2>4, <2>6
<1>5. TypeOK'
  <2> DEFINE Frame == [ts : Nat, count : Nat, pic : Nat \cup {Torn}]
  <2>1. [cache[wslot] EXCEPT !.pic = cache[wslot].ts] \in Frame
    BY DEF TypeOK
  <2>2. cache' \in [Slots -> Frame]
    BY <2>1 DEF UnlockFrame, Posted, TypeOK
  <2>3. available_frames' \in 0 .. CacheSize
    <3>1. available_frames' = available_frames - 1 /\ available_frames \in 0 .. CacheSize
      BY DEF UnlockFrame, Posted, TypeOK
    <3> QED
      BY <1>1, <3>1 DEF Queued
  <2>4. update_semaphore' \in Nat
    BY DEF UnlockFrame, Posted, TypeOK
  <2> QED
    BY <1>1, <2>2, <2>3, <2>4 DEF UnlockFrame, Posted, TypeOK, videoVars, stopVars
<1>6. RingOrder'
  BY <1>1, <1>2, <1>3 DEF RingOrder, UnlockFrame, Posted, videoVars, stopVars
<1>7. Timeline'
  BY <1>1, <1>2, <1>3, <1>4 DEF Timeline, UnlockFrame, videoVars, stopVars
<1>8. OnePostPerFrame'
  <2>1. /\ update_semaphore' = update_semaphore + 1 /\ update_semaphore \in Nat
        /\ stop' = stop /\ mpc' = mpc /\ vpc' = vpc
    BY DEF UnlockFrame, Posted, TypeOK, videoVars, stopVars
  <2> QED
    BY <1>1, <1>2, <2>1 DEF OnePostPerFrame
<1>9. Whole'
  <2>1. cache[wslot].ts \in Nat
    BY DEF TypeOK
  <2> QED
    BY <1>1, <1>2, <1>3, <1>4, <2>1 DEF Whole
<1> QED
  BY <1>5, <1>6, <1>7, <1>8, <1>9

-----------------------------------------------------------------------------
(* The video thread gives an interval of the frame back.                   *)

\* Giving back an interval, and the slot after the last one, keeps the cache
\* consistent, also when the graphics thread is in the middle of a copy.
LEMMA FinishFrameIInv ==
  ASSUME IInv, FinishFrame
  PROVE  IInv'
<1> USE DEF IInv
<1> DEFINE Frame == [ts : Nat, count : Nat, pic : Nat \cup {Torn}]
<1>1. /\ CacheSize \in Nat \ {0} /\ Queued \in 1 .. CacheSize
      /\ Held \in Queued .. CacheSize /\ Held <= Queued + 1
      /\ cur = first_added /\ vpc = "account" /\ first_added \in Slots
  <2>1. available_frames \in 0 .. CacheSize /\ CacheSize \in Nat \ {0}
    BY CacheSizePos DEF TypeOK
  <2>2. vpc = "account" /\ Busy
    BY DEF FinishFrame, Shown, LastAdded, Busy
  <2>3. Queued >= 1 /\ cur = first_added /\ Held <= CacheSize /\ first_added \in Slots
    BY <2>2 DEF Whole, RingOrder, TypeOK
  <2> QED
    BY <2>1, <2>2, <2>3 DEF Queued, Held
<1>2. /\ \A k \in 0 .. CacheSize - 1 : Slot(k) \in Slots /\ (Slot(k) = cur <=> k = 0)
      /\ Slot(0) = cur
  BY <1>1, SlotRing
<1>3. /\ cache[cur] \in Frame /\ cache[cur].count >= 1 /\ cache[cur].ts = emitted
      /\ cache[cur].pic \in Nat /\ cache[cur].pic <= cache[cur].ts
  <2>1. cache[cur] \in Frame
    BY DEF TypeOK
  <2>2. 0 \in 0 .. Held - 1 /\ 0 \in 0 .. Queued - 1
    BY <1>1
  <2> QED
    BY <1>1, <1>2, <2>1, <2>2 DEF Timeline, Whole
<1>4. /\ cache' \in [Slots -> Frame]
      /\ cache'[cur].ts = emitted + 1 /\ cache'[cur].count = cache[cur].count - 1
      /\ cache'[cur].pic = cache[cur].pic
      /\ \A k \in 1 .. CacheSize - 1 : cache'[Slot(k)] = cache[Slot(k)]
  <2>1. cache' = [cache EXCEPT ![cur] = [cache[cur] EXCEPT !.ts = @ + 1, !.count = @ - 1]]
    BY DEF FinishFrame, Shown, LastAdded, TypeOK
  <2>2. [cache[cur] EXCEPT !.ts = @ + 1, !.count = @ - 1] \in Frame
    <3>1. cache[cur].ts + 1 \in Nat /\ cache[cur].count - 1 \in Nat
      BY <1>3
    <3> QED
      BY <1>3, <3>1
  <2>3. cur \in Slots /\ cache \in [Slots -> Frame]
    BY DEF TypeOK
  <2>4. cache' \in [Slots -> Frame]
    BY <2>1, <2>2, <2>3
  <2>5. cache'[cur] = [cache[cur] EXCEPT !.ts = @ + 1, !.count = @ - 1]
    BY <2>1, <2>3
  <2>6. \A k \in 1 .. CacheSize - 1 : Slot(k) \in Slots /\ Slot(k) # cur
    BY <1>2
  <2>7. \A k \in 1 .. CacheSize - 1 : cache'[Slot(k)] = cache[Slot(k)]
    BY <2>1, <2>3, <2>6
  <2> QED
    BY <1>3, <2>4, <2>5, <2>7
<1>5. /\ emitted' = emitted + 1 /\ emitted \in Nat /\ emitted' \in Nat
      /\ total_frames' \in Nat /\ clock' = clock /\ gpc' = gpc /\ wslot' = wslot
      /\ cur' = cur /\ ~Busy' /\ stop' = stop /\ mpc' = mpc
      /\ update_semaphore' = update_semaphore
  <2>1. /\ emitted' = emitted + 1 /\ emitted \in Nat
        /\ total_frames' = total_frames + 1 /\ total_frames \in Nat
    BY DEF FinishFrame, Shown, LastAdded, TypeOK
  <2>2. vpc' \in {"wait", "loop"}
    BY DEF FinishFrame, Shown, LastAdded
  <2>3. /\ clock' = clock /\ gpc' = gpc /\ wslot' = wslot /\ cur' = cur
        /\ stop' = stop /\ mpc' = mpc /\ update_semaphore' = update_semaphore
    BY DEF FinishFrame, Shown, LastAdded, graphicsVars, stopVars
  <2> QED
    BY <2>1, <2>2, <2>3 DEF Busy
<1>6. CASE cache[cur].count # 1
  <2>1. /\ first_added' = first_added /\ available_frames' = available_frames
        /\ last_added' = last_added /\ vpc' = "loop"
    BY <1>6 DEF FinishFrame, Shown, LastAdded
  <2>2. Queued' = Queued /\ Held' = Held /\ \A k : Slot(k)' = Slot(k)
    BY <1>5, <2>1 DEF Queued, Held, Slot
  <2>3. TypeOK'
    BY <1>4, <1>5, <2>1 DEF FinishFrame, Shown, LastAdded, TypeOK, graphicsVars, stopVars
  <2>4. RingOrder'
    BY <1>5, <2>1, <2>2 DEF RingOrder
  <2>5. Timeline'
    <3>1. cache'[first_added].ts = emitted'
      BY <1>1, <1>4, <1>5
    <3>2. ASSUME NEW k \in 0 .. Held - 1
          PROVE  /\ cache'[Slot(k)].count >= 1
                 /\ cache'[Slot(k)].ts + cache'[Slot(k)].count =
                      IF k + 1 < Held THEN cache'[Slot(k + 1)].ts ELSE clock
      <4>1. k + 1 < Held => cache'[Slot(k + 1)] = cache[Slot(k + 1)]
        BY <1>1, <1>4
      <4>2. CASE k = 0
        BY <1>1, <1>2, <1>3, <1>4, <1>6, <4>1, <4>2 DEF Timeline
      <4>3. CASE k # 0
        BY <1>1, <1>4, <4>1, <4>3 DEF Timeline
      <4> QED
        BY <4>2, <4>3
    <3> QED
      BY <1>1, <1>5, <2>1, <2>2, <3>1, <3>2 DEF Timeline
  <2>6. OnePostPerFrame'
    BY <1>1, <1>5, <2>1, <2>2 DEF OnePostPerFrame
  <2>7. Whole'
    <3>1. ASSUME NEW k \in 0 .. Queued - 1
          PROVE  cache'[Slot(k)].pic \in Nat /\ cache'[Slot(k)].pic <= cache'[Slot(k)].ts
      <4>1. CASE k = 0
        BY <1>2, <1>3, <1>4, <1>5, <4>1
      <4>2. CASE k # 0
        BY <1>1, <1>4, <4>2 DEF Whole
      <4> QED
        BY <4>1, <4>2
    <3> QED
      BY <1>5, <2>2, <3>1 DEF Whole
  <2> QED
    BY <2>3, <2>4, <2>5, <2>6, <2>7
<1>7. CASE cache[cur].count = 1
  <2>1. /\ first_added' = Succ(first_added)
        /\ available_frames' = available_frames + 1
        /\ last_added' = IF available_frames + 1 = CacheSize
                         THEN first_added' ELSE last_added
        /\ vpc' = "wait"
    BY <1>7 DEF FinishFrame, Shown, LastAdded
  <2>2. Queued' = Queued - 1 /\ Held' = Held - 1
    BY <1>1, <1>5, <2>1, CacheSizePos DEF Queued, Held, TypeOK
  <2>3. /\ first_added' \in Slots
        /\ \A k \in 0 .. CacheSize - 2 : Slot(k)' = Slot(k + 1)
    BY <1>1, <2>1, SlotShift
  <2>4. first_added' = Slot(0)'
    BY <1>1, <2>1, SlotShift
  <2>5. available_frames' \in 0 .. CacheSize
    BY <1>1, <2>1, CacheSizePos DEF Queued, TypeOK
  <2>6. TypeOK'
    BY <1>4, <1>5, <2>1, <2>3, <2>5 DEF FinishFrame, Shown, LastAdded, TypeOK, graphicsVars, stopVars
  <2>7. last_added' = IF Held' = 0 THEN first_added' ELSE Slot(Held - 1)'
    <3>1. CASE Held = 1
      <4>1. Queued = 1
        BY <1>1, <3>1
      <4>2. available_frames + 1 = CacheSize
        BY <4>1, CacheSizePos DEF Queued, TypeOK
      <4> QED
        BY <2>1, <2>2, <3>1, <4>2
    <3>2. CASE Held # 1
      <4>1. Slot(Held - 1)' = Slot(Held - 1)
        BY <1>1, <2>1, <2>2, <3>2 DEF Slot, Slots, Succ
      <4>2. last_added = Slot(Held - 1)
        BY <1>1, <3>2 DEF RingOrder
      <4>3. CASE available_frames + 1 # CacheSize
        BY <1>1, <2>1, <2>2, <3>2, <4>1, <4>2, <4>3
      <4>4. CASE available_frames + 1 = CacheSize
        <5>1. Queued = 1
          BY <4>4, CacheSizePos DEF Queued, TypeOK
        <5>2. Held = 2
          BY <1>1, <3>2, <5>1
        <5>3. Slot(Held - 1)' = first_added'
          <6>1. Slot(0)' = Slot(1)
            BY <1>1, <2>3, <5>2
          <6> QED
            BY <2>4, <4>1, <5>2, <6>1
        <5> QED
          BY <2>1, <4>4, <5>3
      <4> QED
        BY <4>3, <4>4
    <3> QED
      BY <3>1, <3>2
  <2>8. gpc' = "writing" => wslot' = last_added'
    <3>1. SUFFICES ASSUME gpc = "writing" PROVE wslot = last_added'
      BY <1>5
    <3>2. Held # 0 /\ Held = Queued + 1 /\ wslot = Slot(Held - 1)
      BY <1>1, <3>1 DEF RingOrder, Held
    <3>3. Held' # 0 /\ Slot(Held - 1)' = Slot(Held - 1)
      BY <1>1, <2>1, <2>2, <3>2 DEF Slot, Slots, Succ
    <3> QED
      BY <2>7, <3>2, <3>3
  <2>9. RingOrder'
    BY <1>1, <1>5, <2>2, <2>7, <2>8 DEF RingOrder
  <2>10. Timeline'
    <3>1. ASSUME NEW k \in 0 .. Held - 2
          PROVE  /\ cache'[Slot(k)'].count >= 1
                 /\ cache'[Slot(k)'].ts + cache'[Slot(k)'].count =
                      IF k + 1 < Held - 1 THEN cache'[Slot(k + 1)'].ts ELSE clock
      <4>1. Slot(k)' = Slot(k + 1) /\ cache'[Slot(k + 1)] = cache[Slot(k + 1)]
        BY <1>1, <1>4, <2>3
      <4>2. k + 1 < Held - 1 =>
              Slot(k + 1)' = Slot(k + 2) /\ cache'[Slot(k + 2)] = cache[Slot(k + 2)]
        BY <1>1, <1>4, <2>3
      <4>3. k + 1 \in 0 .. Held - 1
        BY <1>1
      <4> QED
        BY <1>1, <4>1, <4>2, <4>3 DEF Timeline
    <3>2. CASE Held = 1
      <4>1. emitted + 1 = clock
        BY <1>1, <1>2, <1>3, <1>7, <3>2 DEF Timeline
      <4> QED
        BY <1>1, <1>5, <2>2, <3>2, <4>1 DEF Timeline
    <3>3. CASE Held # 1
      <4>1. cache[Slot(1)].ts = emitted + 1
        BY <1>1, <1>2, <1>3, <1>7, <3>3 DEF Timeline
      <4>2. first_added' = Slot(1) /\ cache'[Slot(1)] = cache[Slot(1)]
        BY <1>1, <1>4, <2>3, <2>4, <3>3
      <4>3. cache'[first_added'].ts = emitted'
        BY <1>5, <4>1, <4>2
      <4>4. Held' > 0 /\ Held' # 0
        BY <1>1, <2>2, <3>3
      <4> QED
        BY <1>1, <1>5, <2>2, <3>1, <4>3, <4>4 DEF Timeline
    <3> QED
      BY <3>2, <3>3
  <2>11. OnePostPerFrame'
    <3>1. SUFFICES ASSUME ~stop
                   PROVE  mpc = "running" /\ Queued - 1 = update_semaphore
      BY <1>5, <2>1, <2>2 DEF OnePostPerFrame
    <3>2. update_semaphore \in Nat
      BY DEF TypeOK
    <3> QED
      BY <1>1, <3>1, <3>2 DEF OnePostPerFrame
  <2>12. Whole'
    <3>1. ASSUME NEW k \in 0 .. Queued - 2
          PROVE  cache'[Slot(k)'].pic \in Nat /\ cache'[Slot(k)'].pic <= cache'[Slot(k)'].ts
      <4>1. Slot(k)' = Slot(k + 1) /\ cache'[Slot(k + 1)] = cache[Slot(k + 1)]
        BY <1>1, <1>4, <2>3
      <4>2. k + 1 \in 0 .. Queued - 1
        BY <1>1
      <4> QED
        BY <4>1, <4>2 DEF Whole
    <3> QED
      BY <1>1, <1>5, <2>2, <3>1 DEF Whole
  <2> QED
    BY <2>6, <2>9, <2>10, <2>11, <2>12
<1> QED
  BY <1>6, <1>7

-----------------------------------------------------------------------------
(* What the video thread reads.                                            *)

\* The frame at work is the first of the published ones, the slot that is being
\* written comes behind the last of them.
LEMMA NotTorn == IInv => NoTearing
<1>1. SUFFICES ASSUME IInv, Busy PROVE NoTearing
  BY DEF NoTearing
<1>2. /\ CacheSize \in Nat \ {0} /\ Queued \in 1 .. CacheSize
      /\ cur = first_added /\ first_added \in Slots
  BY <1>1, CacheSizePos DEF IInv, Whole, RingOrder, TypeOK, Queued
<1>3. cur = Slot(0) /\ 0 \in 0 .. Queued - 1
  BY <1>2, SlotRing
<1>4. cache[cur].pic # Torn
  BY <1>1, <1>3 DEF IInv, Whole, Torn
<1>5. ASSUME gpc = "writing" PROVE wslot # cur
  <2>1. Held = Queued + 1 /\ Held <= CacheSize /\ wslot = Slot(Queued)
    BY <1>1, <1>2, <1>5 DEF IInv, RingOrder, Held
  <2> QED
    BY <1>2, <1>3, <2>1, SlotRing
<1> QED
  BY <1>4, <1>5 DEF NoTearing

-----------------------------------------------------------------------------
(* The cache is a FrameQueue.                                              *)

\* What the graphics thread is about to publish stands for a number of intervals
\* that was handed to it, and its clock stays within the bound.
Offered ==
  /\ clock <= MaxClock
  /\ gpc = "writing" => cache[wslot].count \in Counts

\* Only LockFrame writes to the slot and to the clock while a copy is under way.
LEMMA OfferedKept == IInv /\ Offered /\ [Next]_vars => Offered'
<1> SUFFICES ASSUME IInv, Offered, [Next]_vars PROVE Offered'
  OBVIOUS
<1> USE DEF Offered
<1>1. ASSUME NEW c \in Counts, SkipFrame(c) PROVE Offered'
  BY <1>1 DEF SkipFrame
<1>2. ASSUME NEW c \in Counts, LockFrame(c) PROVE Offered'
  <2>1. FreeSlot \in Slots
    BY CacheSizePos DEF IInv, TypeOK, FreeSlot, Succ, Slots
  <2> QED
    BY <1>2, <2>1 DEF LockFrame, IInv, TypeOK
<1>3. CASE UnlockFrame
  BY <1>3 DEF UnlockFrame
<1>4. CASE FinishFrame
  <2>1. gpc' = gpc /\ wslot' = wslot /\ clock' = clock
    BY <1>4 DEF FinishFrame, graphicsVars
  <2>2. gpc = "writing" => cache'[wslot] = cache[wslot]
    BY <1>4, NotTorn DEF FinishFrame, Busy, NoTearing, IInv, TypeOK
  <2> QED
    BY <2>1, <2>2
<1>5. CASE gpc' = gpc /\ UNCHANGED <<cache, wslot, clock>>
  BY <1>5
<1>6. CASE GraphicsExit
  BY <1>6 DEF GraphicsExit, cacheVars
<1> QED
  BY <1>1, <1>2, <1>3, <1>4, <1>5, <1>6
     DEF Next, Graphics, Video, Main, Others, Terminated, vars, cacheVars,
         graphicsVars, Wake, CheckStop, Abandon, PickFrame, BeginPass, OfferFrame,
         OfferFrameAndRemove, EndPass, SetStop, PostStop, Close, Connect, Disconnect

\* A sequence is the function from its indices; so are a sequence with one
\* element replaced and its tail.
LEMMA SeqIsFunction ==
  ASSUME NEW T, NEW s \in Seq(T), NEW i, NEW v, NEW n, n = Len(s)
  PROVE  /\ s = [k \in 1 .. n |-> s[k]]
         /\ [s EXCEPT ![i] = v] = [k \in 1 .. n |-> [s EXCEPT ![i] = v][k]]
<1>1. DOMAIN s = 1 .. n /\ s = [k \in 1 .. n |-> s[k]]
  BY LenProperties, Zenon
<1> QED
  BY <1>1, Zenon

LEMMA TailIsFunction ==
  ASSUME NEW T, NEW s \in Seq(T), s # <<>>
  PROVE  Tail(s) = [k \in 1 .. Len(s) - 1 |-> s[k + 1]]
<1>1. /\ Tail(s) \in Seq(T) /\ Len(Tail(s)) = Len(s) - 1
      /\ \A k \in 1 .. Len(s) - 1 : Tail(s)[k] = s[k + 1]
  BY HeadTailProperties
<1>2. Tail(s) = [k \in 1 .. Len(s) - 1 |-> Tail(s)[k]]
  BY <1>1, LenProperties, Zenon
<1> QED
  BY <1>1, <1>2

\* A function of 1 .. n is a sequence of length n.
LEMMA FunctionIsSeq ==
  ASSUME NEW T, NEW n \in Nat, NEW f \in [1 .. n -> T]
  PROVE  f \in Seq(T) /\ Len(f) = n
<1>1. DOMAIN f = 1 .. n /\ \A k \in 1 .. n : f[k] \in T
  OBVIOUS
<1>2. f = [k \in 1 .. n |-> f[k]]
  OBVIOUS
<1>3. f \in Seq(T)
  BY SeqDef
<1> QED
  BY <1>1, <1>3, LenProperties

\* The queue is a sequence of as many pictures as are published.
LEMMA QueueSeq ==
  ASSUME IInv
  PROVE  /\ Queued \in Nat /\ Len(Queue) = Queued
         /\ Queue \in Seq([pic : Nat \cup {Torn}, count : Nat])
         /\ \A k \in 1 .. Queued :
              Queue[k] = [pic   |-> cache[Slot(k - 1)].pic,
                          count |-> cache[Slot(k - 1)].count]
<1>1. Queued \in Nat /\ Queued <= CacheSize /\ CacheSize \in Nat
  BY CacheSizePos DEF IInv, TypeOK, Queued
<1>2. \A k \in 1 .. Queued : Slot(k - 1) \in Slots
  BY <1>1, SlotRing DEF IInv, TypeOK
<1>3. \A k \in 1 .. Queued :
        [pic |-> cache[Slot(k - 1)].pic, count |-> cache[Slot(k - 1)].count]
          \in [pic : Nat \cup {Torn}, count : Nat]
  BY <1>2 DEF IInv, TypeOK
<1>4. Queue \in [1 .. Queued -> [pic : Nat \cup {Torn}, count : Nat]]
  BY <1>3 DEF Queue
<1>5. \A k \in 1 .. Queued :
        Queue[k] = [pic   |-> cache[Slot(k - 1)].pic,
                    count |-> cache[Slot(k - 1)].count]
  BY DEF Queue
<1>6. Queue \in Seq([pic : Nat \cup {Torn}, count : Nat]) /\ Len(Queue) = Queued
  BY <1>1, <1>4, FunctionIsSeq
<1> QED
  BY <1>1, <1>5, <1>6

\* Two queues of the same length with the same pictures are the same.
LEMMA SameQueue ==
  ASSUME IInv, Queued' = Queued,
         \A k \in 0 .. Queued - 1 :
           /\ cache'[Slot(k)'].pic = cache[Slot(k)].pic
           /\ cache'[Slot(k)'].count = cache[Slot(k)].count
  PROVE  Queue' = Queue
<1>1. Queued \in Nat
  BY QueueSeq
<1>2. \A k \in 1 .. Queued : k - 1 \in 0 .. Queued - 1
  BY <1>1
<1> QED
  BY <1>2 DEF Queue

\* video_output_unlock_frame puts the picture at the end of the queue.
LEMMA UnlockFramePushes ==
  ASSUME IInv, Offered, UnlockFrame
  PROVE  \E c \in Counts : FIFO!Push(c)
<1> DEFINE c == cache[wslot].count
           new == [pic |-> cache[wslot].ts, count |-> c]
<1>1. /\ CacheSize \in Nat \ {0} /\ gpc = "writing" /\ gpc' = "idle"
      /\ Queued \in 0 .. CacheSize - 1 /\ Held = Queued + 1
      /\ Queued' = Queued + 1 /\ wslot = Slot(Queued) /\ clock' = clock
      /\ emitted' = emitted /\ first_added' = first_added
      /\ \A k : Slot(k)' = Slot(k)
  <2>1. /\ gpc = "writing" /\ gpc' = "idle" /\ clock' = clock
        /\ emitted' = emitted /\ first_added' = first_added
        /\ available_frames' = available_frames - 1
    BY DEF UnlockFrame, videoVars
  <2>2. /\ CacheSize \in Nat \ {0} /\ available_frames \in 0 .. CacheSize
        /\ Held = Queued + 1 /\ Held <= CacheSize
    BY <2>1, CacheSizePos DEF IInv, TypeOK, RingOrder, Held
  <2>3. Queued \in 0 .. CacheSize - 1 /\ Queued' = Queued + 1
    BY <2>1, <2>2 DEF Queued
  <2>4. wslot = Slot(Queued)
    BY <2>1, <2>2, <2>3 DEF IInv, RingOrder
  <2>5. \A k : Slot(k)' = Slot(k)
    BY <2>1 DEF Slot
  <2> QED
    BY <2>1, <2>2, <2>3, <2>4, <2>5
<1>2. /\ \A k \in 0 .. CacheSize - 1 : Slot(k) \in Slots
      /\ \A k \in 0 .. Queued - 1 : Slot(k) # wslot
  BY <1>1, SlotRing DEF IInv, TypeOK
<1>3. /\ cache'[wslot].pic = cache[wslot].ts /\ cache'[wslot].count = c
      /\ \A k \in 0 .. Queued - 1 : cache'[Slot(k)] = cache[Slot(k)]
  <2>1. wslot \in Slots /\ \A k \in 0 .. Queued - 1 : Slot(k) \in Slots
    BY <1>1, <1>2
  <2>2. cache' = [cache EXCEPT ![wslot] = [@ EXCEPT !.pic = cache[wslot].ts]]
    BY DEF UnlockFrame
  <2>3. /\ cache \in [Slots -> [ts : Nat, count : Nat, pic : Nat \cup {Torn}]]
        /\ cache[wslot] \in [ts : Nat, count : Nat, pic : Nat \cup {Torn}]
    BY <2>1 DEF IInv, TypeOK
  <2> QED
    BY <1>2, <2>1, <2>2, <2>3
<1>4. Queue' = Append(Queue, new)
  <2>1. /\ Queued \in Nat /\ Len(Queue) = Queued
        /\ Queue \in Seq([pic : Nat \cup {Torn}, count : Nat])
        /\ \A k \in 1 .. Queued :
             Queue[k] = [pic |-> cache[Slot(k - 1)].pic, count |-> cache[Slot(k - 1)].count]
    BY QueueSeq
  <2>2. Queue' = [k \in 1 .. Queued + 1 |-> [pic   |-> cache'[Slot(k - 1)].pic,
                                             count |-> cache'[Slot(k - 1)].count]]
    BY <1>1 DEF Queue
  <2>3. Append(Queue, new) =
          [k \in 1 .. Queued + 1 |-> IF k = Queued + 1 THEN new ELSE Queue[k]]
    BY <2>1
  <2>4. ASSUME NEW k \in 1 .. Queued + 1
        PROVE  [pic |-> cache'[Slot(k - 1)].pic, count |-> cache'[Slot(k - 1)].count]
                 = IF k = Queued + 1 THEN new ELSE Queue[k]
    <3>1. CASE k = Queued + 1
      <4>1. k - 1 = Queued
        BY <2>1, <3>1
      <4> QED
        BY <1>1, <1>3, <3>1, <4>1
    <3>2. CASE k # Queued + 1
      <4>1. k \in 1 .. Queued /\ k - 1 \in 0 .. Queued - 1
        BY <2>1, <3>2
      <4> QED
        BY <1>3, <2>1, <3>2, <4>1
    <3> QED
      BY <3>1, <3>2
  <2> QED
    BY <2>2, <2>3, <2>4
<1>5. Produced = cache[wslot].ts /\ Produced' = clock /\ Produced + c = clock
  <2>1. cache[wslot].ts + c = clock
    BY <1>1 DEF IInv, Timeline
  <2> QED
    BY <1>1, <2>1 DEF Produced
<1>6. c \in Counts /\ Produced + c <= MaxClock /\ Len(Queue) < CacheSize
  <2>1. Len(Queue) = Queued
    BY QueueSeq
  <2> QED
    BY <1>1, <1>5, <2>1 DEF Offered
<1>7. FIFO!Push(c)
  <2>1. new = [pic |-> Produced, count |-> c]
    BY <1>5
  <2> HIDE DEF c, new
  <2> QED
    BY <1>1, <1>4, <1>5, <1>6, <2>1 DEF FIFO!Push
<1> QED
  BY <1>6, <1>7

\* video_output_lock_frame on a full cache gives the intervals to the last picture.
LEMMA SkipFrameRepeats ==
  ASSUME IInv, IInv', NEW c \in Counts, SkipFrame(c)
  PROVE  FIFO!Repeat(c)
<1> DEFINE Repeated == [Queue EXCEPT ![CacheSize].count = @ + c]
<1>1. /\ CacheSize \in Nat \ {0} /\ gpc = "idle" /\ gpc' = "idle"
      /\ Queued = CacheSize /\ Queued' = CacheSize
      /\ last_added = Slot(CacheSize - 1) /\ last_added \in Slots
      /\ clock' = clock + c /\ clock + c <= MaxClock /\ emitted' = emitted
      /\ \A k : Slot(k)' = Slot(k)
  <2>1. /\ gpc = "idle" /\ gpc' = "idle" /\ available_frames = 0
        /\ available_frames' = 0 /\ first_added' = first_added
        /\ clock' = clock + c /\ clock + c <= MaxClock /\ emitted' = emitted
    BY DEF SkipFrame, videoVars
  <2>2. CacheSize \in Nat \ {0} /\ Queued = CacheSize /\ Queued' = CacheSize
    BY <2>1, CacheSizePos DEF Queued
  <2>3. last_added = Slot(CacheSize - 1) /\ last_added \in Slots
    BY <2>1, <2>2 DEF IInv, TypeOK, RingOrder, Held
  <2>4. \A k : Slot(k)' = Slot(k)
    BY <2>1 DEF Slot
  <2> QED
    BY <2>1, <2>2, <2>3, <2>4
<1>2. \A k \in 0 .. CacheSize - 1 :
        Slot(k) \in Slots /\ (Slot(k) = last_added <=> k = CacheSize - 1)
  <2>1. CacheSize - 1 \in 0 .. CacheSize - 1
    BY <1>1
  <2> QED
    BY <1>1, <2>1, SlotRing DEF IInv, TypeOK
<1>3. \A i \in Slots :
        /\ cache'[i].pic = cache[i].pic
        /\ cache'[i].count = IF i = last_added THEN cache[i].count + c
                                               ELSE cache[i].count
  BY DEF SkipFrame, Stretched, IInv, TypeOK
<1>4. /\ Len(Queue) = CacheSize /\ Len(Queue') = CacheSize
      /\ Queue \in Seq([pic : Nat \cup {Torn}, count : Nat])
      /\ Queue' \in Seq([pic : Nat \cup {Torn}, count : Nat])
      /\ \A k \in 1 .. CacheSize :
           /\ Queue[k]  = [pic   |-> cache[Slot(k - 1)].pic,
                           count |-> cache[Slot(k - 1)].count]
           /\ Queue'[k] = [pic   |-> cache'[Slot(k - 1)].pic,
                           count |-> cache'[Slot(k - 1)].count]
  <2>1. Queue' = [k \in 1 .. Queued' |-> [pic   |-> cache'[Slot(k - 1)'].pic,
                                          count |-> cache'[Slot(k - 1)'].count]]
    BY DEF Queue
  <2>2. \A k \in 1 .. CacheSize : Slot(k - 1) \in Slots
    BY <1>1, <1>2
  <2>3. \A k \in 1 .. CacheSize : cache'[Slot(k - 1)].pic \in Nat \cup {Torn}
                                  /\ cache'[Slot(k - 1)].count \in Nat
    BY <2>2 DEF IInv, TypeOK
  <2> QED
    BY <1>1, <2>1, <2>3, QueueSeq
<1>5. Queue' = Repeated
  <2>1. ASSUME NEW k \in 1 .. CacheSize PROVE Queue'[k] = Repeated[k]
    <3>1. k - 1 \in 0 .. CacheSize - 1 /\ (k - 1 = CacheSize - 1 <=> k = CacheSize)
      BY <1>1
    <3>2. Slot(k - 1) \in Slots /\ (Slot(k - 1) = last_added <=> k = CacheSize)
      BY <1>2, <3>1
    <3>3. CASE k = CacheSize
      <4>1. Repeated[k] = [Queue[k] EXCEPT !.count = @ + c]
        BY <1>1, <1>4, <3>3
      <4>2. Queue'[k] = [pic |-> cache[Slot(k - 1)].pic,
                         count |-> cache[Slot(k - 1)].count + c]
        BY <1>3, <1>4, <3>2, <3>3
      <4>3. Queue[k] = [pic |-> cache[Slot(k - 1)].pic,
                        count |-> cache[Slot(k - 1)].count]
        BY <1>4
      <4> QED
        BY <4>1, <4>2, <4>3
    <3>4. CASE k # CacheSize
      <4>1. Repeated[k] = Queue[k]
        BY <1>4, <3>4
      <4> QED
        BY <1>3, <1>4, <3>2, <3>4, <4>1
    <3> QED
      BY <3>3, <3>4
  <2>2. Queue' = [k \in 1 .. CacheSize |-> Queue'[k]]
    BY <1>1 DEF Queue
  <2>3. Repeated = [k \in 1 .. CacheSize |-> Repeated[k]]
    <3>1. ASSUME NEW v
          PROVE  [Queue EXCEPT ![CacheSize] = v]
                  = [k \in 1 .. CacheSize |-> [Queue EXCEPT ![CacheSize] = v][k]]
      <4>1. CacheSize = Len(Queue) /\ Queue \in Seq([pic : Nat \cup {Torn}, count : Nat])
        BY <1>4
      <4> QED
        BY <4>1, SeqIsFunction, Zenon
    <3>2. Repeated = [Queue EXCEPT ![CacheSize] = [Queue[CacheSize] EXCEPT !.count = @ + c]]
      BY DEF Repeated
    <3> HIDE DEF Repeated
    <3> QED
      BY <3>1, <3>2
  <2> HIDE DEF Repeated
  <2> QED
    BY <2>1, <2>2, <2>3
<1>6. Produced = clock /\ Produced' = clock + c
  BY <1>1 DEF Produced
<1> QED
  BY <1>1, <1>4, <1>5, <1>6 DEF FIFO!Repeat

\* video_output_cur_frame shows an interval of the oldest picture.
LEMMA FinishFrameEmits ==
  ASSUME IInv, IInv', FinishFrame
  PROVE  FIFO!Emit
<1>1. /\ CacheSize \in Nat \ {0} /\ Queued \in 1 .. CacheSize
      /\ cur = first_added /\ cur \in Slots /\ vpc = "account"
      /\ gpc' = gpc /\ clock' = clock /\ wslot' = wslot /\ emitted' = emitted + 1
  BY CacheSizePos
     DEF FinishFrame, IInv, TypeOK, Whole, RingOrder, Busy, Queued, graphicsVars
<1>2. /\ Slot(0) = cur
      /\ \A k \in 0 .. CacheSize - 1 : Slot(k) \in Slots /\ (Slot(k) = cur <=> k = 0)
  BY <1>1, SlotRing
<1>3. /\ cache'[cur].pic = cache[cur].pic /\ cache'[cur].count = cache[cur].count - 1
      /\ \A i \in Slots \ {cur} : cache'[i] = cache[i]
  BY <1>1 DEF FinishFrame, Shown, IInv, TypeOK
<1>4. Produced' = Produced
  <2>1. gpc = "writing" => wslot \in Slots \ {cur}
    BY <1>1, NotTorn DEF NoTearing, Busy, IInv, TypeOK
  <2> QED
    BY <1>1, <1>3, <2>1 DEF Produced
<1>5. /\ Len(Queue) = Queued /\ Queue # <<>>
      /\ Queue \in Seq([pic : Nat \cup {Torn}, count : Nat])
      /\ \A k \in 1 .. Queued :
           Queue[k] = [pic |-> cache[Slot(k - 1)].pic, count |-> cache[Slot(k - 1)].count]
      /\ Head(Queue) = Queue[1] /\ Queue[1].count = cache[cur].count
      /\ Queue[1].pic = cache[cur].pic
  <2>1. /\ Len(Queue) = Queued /\ Queued > 0
        /\ Queue \in Seq([pic : Nat \cup {Torn}, count : Nat])
        /\ \A k \in 1 .. Queued :
             Queue[k] = [pic |-> cache[Slot(k - 1)].pic, count |-> cache[Slot(k - 1)].count]
    BY <1>1, QueueSeq
  <2>2. Queue # <<>> /\ Head(Queue) = Queue[1]
    BY <2>1
  <2>3. 1 \in 1 .. Queued /\ 1 - 1 = 0
    BY <1>1
  <2>4. Queue[1] = [pic |-> cache[cur].pic, count |-> cache[cur].count]
    BY <1>2, <2>1, <2>3
  <2> QED
    BY <2>1, <2>2, <2>4
<1>6. Queue' = [k \in 1 .. Queued' |-> [pic   |-> cache'[Slot(k - 1)'].pic,
                                        count |-> cache'[Slot(k - 1)'].count]]
  BY DEF Queue
<1>7. CASE cache[cur].count = 1
  <2>1. /\ first_added' = Succ(first_added) /\ Queued' = Queued - 1
        /\ \A k \in 0 .. CacheSize - 2 : Slot(k)' = Slot(k + 1)
    <3>1. first_added' = Succ(first_added) /\ available_frames' = available_frames + 1
      BY <1>7 DEF FinishFrame
    <3>2. Queued' = Queued - 1
      BY <1>1, <3>1 DEF Queued, IInv, TypeOK
    <3> QED
      BY <1>1, <3>1, <3>2, SlotShift
  <2>2. Tail(Queue) = [k \in 1 .. Queued - 1 |-> Queue[k + 1]]
    BY <1>5, TailIsFunction
  <2>3. ASSUME NEW k \in 1 .. Queued - 1
        PROVE  [pic |-> cache'[Slot(k - 1)'].pic, count |-> cache'[Slot(k - 1)'].count]
                 = Queue[k + 1]
    <3>1. /\ k - 1 \in 0 .. CacheSize - 2 /\ (k - 1) + 1 = k /\ (k + 1) - 1 = k
          /\ k \in 0 .. CacheSize - 1 /\ k # 0 /\ k + 1 \in 1 .. Queued
      BY <1>1
    <3>2. Slot(k - 1)' = Slot(k) /\ Slot(k) \in Slots \ {cur}
      BY <1>2, <2>1, <3>1
    <3>3. Queue[k + 1] = [pic |-> cache[Slot(k)].pic, count |-> cache[Slot(k)].count]
      BY <1>5, <3>1
    <3> QED
      BY <1>3, <3>2, <3>3
  <2>4. Queue' = Tail(Queue)
    BY <1>6, <2>1, <2>2, <2>3
  <2> QED
    BY <1>1, <1>4, <1>5, <1>7, <2>4 DEF FIFO!Emit
<1>8. CASE cache[cur].count # 1
  <2> DEFINE Shorter == [Queue EXCEPT ![1].count = @ - 1]
  <2>1. Queued' = Queued /\ \A k : Slot(k)' = Slot(k)
    BY <1>8 DEF FinishFrame, Queued, Slot
  <2>2. ASSUME NEW k \in 1 .. Queued
        PROVE  [pic |-> cache'[Slot(k - 1)].pic, count |-> cache'[Slot(k - 1)].count]
                 = Shorter[k]
    <3>1. CASE k = 1
      <4>1. Shorter[k] = [Queue[1] EXCEPT !.count = @ - 1]
        BY <1>1, <1>5, <3>1
      <4>2. Slot(k - 1) = cur
        BY <1>2, <3>1
      <4>3. Queue[1] \in [pic : Nat \cup {Torn}, count : Nat]
        BY <1>1, <1>5
      <4> QED
        BY <1>3, <1>5, <4>1, <4>2, <4>3
    <3>2. CASE k # 1
      <4>1. k - 1 \in 0 .. CacheSize - 1 /\ k - 1 # 0
        BY <1>1, <3>2
      <4>2. Slot(k - 1) \in Slots \ {cur}
        BY <1>2, <4>1
      <4>3. Shorter[k] = Queue[k]
        BY <1>5, <3>2
      <4> QED
        BY <1>3, <1>5, <4>2, <4>3
    <3> QED
      BY <3>1, <3>2
  <2>3. Shorter = [k \in 1 .. Queued |-> Shorter[k]]
    BY <1>5, SeqIsFunction
  <2>4. Queue' = [k \in 1 .. Queued |-> [pic   |-> cache'[Slot(k - 1)].pic,
                                         count |-> cache'[Slot(k - 1)].count]]
    BY <1>6, <2>1
  <2>5. Queue' = Shorter
    <3> HIDE DEF Shorter
    <3> QED
      BY <2>2, <2>3, <2>4
  <2> QED
    BY <1>1, <1>4, <1>5, <1>8, <2>5 DEF FIFO!Emit
<1> QED
  BY <1>7, <1>8

\* Nobody sees a picture that is being copied.
LEMMA LockFrameHidden ==
  ASSUME IInv, NEW c \in Counts, LockFrame(c)
  PROVE  UNCHANGED <<Queue, Produced, emitted>>
<1>1. /\ CacheSize \in Nat \ {0} /\ Queued \in 0 .. CacheSize - 1 /\ Held = Queued
      /\ gpc = "idle" /\ gpc' = "writing" /\ Queued' = Queued
      /\ wslot' = FreeSlot /\ emitted' = emitted
      /\ \A k : Slot(k)' = Slot(k)
  BY CacheSizePos
     DEF LockFrame, IInv, TypeOK, Queued, Held, Slot, videoVars
<1>2. FreeSlot = Slot(Queued)
  <2>1. CASE Queued = 0
    BY <1>1, <2>1, SlotRing DEF FreeSlot, Queued, IInv, TypeOK, RingOrder
  <2>2. CASE Queued # 0
    <3>1. last_added = Slot(Queued - 1) /\ available_frames # CacheSize
      BY <1>1, <2>2 DEF IInv, RingOrder, TypeOK, Queued
    <3>2. Succ(Slot(Queued - 1)) = Slot((Queued - 1) + 1)
      BY <1>1, <2>2, SlotRing DEF IInv, TypeOK
    <3> QED
      BY <1>1, <3>1, <3>2 DEF FreeSlot
  <2> QED
    BY <2>1, <2>2
<1>3. /\ FreeSlot \in Slots
      /\ \A k \in 0 .. Queued - 1 : Slot(k) \in Slots /\ Slot(k) # FreeSlot
  BY <1>1, <1>2, SlotRing DEF IInv, TypeOK
<1>4. /\ cache'[FreeSlot].ts = clock
      /\ \A k \in 0 .. Queued - 1 : cache'[Slot(k)] = cache[Slot(k)]
  BY <1>3 DEF LockFrame, IInv, TypeOK
<1>5. Queue' = Queue
  BY <1>1, <1>4, SameQueue
<1>6. Produced' = Produced
  BY <1>1, <1>4 DEF Produced
<1> QED
  BY <1>1, <1>5, <1>6

\* Nor does the rest of the output touch the queue.
LEMMA QuietHidden ==
  ASSUME UNCHANGED <<cacheVars, wslot, clock, emitted>>,
         gpc' = gpc \/ (gpc = "idle" /\ gpc' = "ended")
  PROVE  UNCHANGED <<Queue, Produced, emitted>>
<1>1. Queued' = Queued /\ \A k : Slot(k)' = Slot(k)
  BY DEF cacheVars, Queued, Slot
<1>2. Queue' = Queue
  BY <1>1 DEF Queue, cacheVars
<1>3. Produced' = Produced
  BY DEF Produced, cacheVars
<1> QED
  BY <1>2, <1>3

\* Every step is one of the queue, or none.
LEMMA StepRefines ==
  IInv /\ IInv' /\ Offered /\ [Next]_vars => [FIFO!QueueNext]_(FIFO!queueVars)
<1> SUFFICES ASSUME IInv, IInv', Offered, [Next]_vars
             PROVE  FIFO!QueueNext \/ UNCHANGED <<Queue, Produced, emitted>>
  BY DEF FIFO!queueVars
<1>1. CASE \E c \in Counts : SkipFrame(c)
  BY <1>1, SkipFrameRepeats DEF FIFO!QueueNext
<1>2. CASE \E c \in Counts : LockFrame(c)
  BY <1>2, LockFrameHidden
<1>3. CASE UnlockFrame
  BY <1>3, UnlockFramePushes DEF FIFO!QueueNext
<1>4. CASE FinishFrame
  BY <1>4, FinishFrameEmits DEF FIFO!QueueNext
<1>5. CASE /\ UNCHANGED <<cacheVars, wslot, clock, emitted>>
           /\ gpc' = gpc \/ (gpc = "idle" /\ gpc' = "ended")
  BY <1>5, QuietHidden
<1> QED
  BY <1>1, <1>2, <1>3, <1>4, <1>5
     DEF Next, Graphics, Video, Main, Others, Terminated, vars,
         graphicsVars, videoVars, GraphicsExit, Wake, CheckStop, Abandon, PickFrame,
         BeginPass, OfferFrame, OfferFrameAndRemove, EndPass, SetStop, PostStop,
         Close, Connect, Disconnect

\* The empty cache is the empty queue.
LEMMA InitRefines == Init => FIFO!QueueInit /\ Offered
<1> SUFFICES ASSUME Init PROVE FIFO!QueueInit /\ Offered
  OBVIOUS
<1>1. Queued = 0
  BY CacheSizePos DEF Init, Queued
<1>2. Queue = <<>>
  BY <1>1 DEF Queue
<1> QED
  BY <1>2, VideoAssumption DEF Init, Produced, Offered, FIFO!QueueInit

-----------------------------------------------------------------------------
(* The theorems.                                                           *)

\* Every step of every thread keeps the cache consistent.
LEMMA NextIInv == IInv /\ [Next]_vars => IInv'
<1> SUFFICES ASSUME IInv, [Next]_vars PROVE IInv'
  OBVIOUS
<1>1. CASE \E c \in Counts : SkipFrame(c)
  BY <1>1, SkipFrameIInv
<1>2. CASE \E c \in Counts : LockFrame(c)
  BY <1>2, LockFrameIInv
<1>3. CASE UnlockFrame
  BY <1>3, UnlockFrameIInv
<1>4. CASE FinishFrame
  BY <1>4, FinishFrameIInv
<1>5. CASE \/ GraphicsExit \/ Wake \/ CheckStop \/ Abandon \/ PickFrame
           \/ BeginPass \/ OfferFrame \/ OfferFrameAndRemove \/ EndPass
           \/ SetStop \/ PostStop \/ Close \/ UNCHANGED vars
           \/ \E i \in Inputs : Connect(i) \/ Disconnect(i)
  BY <1>5, QuietIInv
<1> QED
  BY <1>1, <1>2, <1>3, <1>4, <1>5
     DEF Next, Graphics, Video, Main, Others, Terminated

\* The cache is consistent in every reachable state.
THEOREM CacheConsistent == Spec => []IInv
<1>1. Init => IInv
  BY InitIInv
<1>2. IInv /\ [Next]_vars => IInv'
  BY NextIInv
<1> QED
  BY <1>1, <1>2, PTL DEF Spec

\* Every variable of the video output keeps its type.
THEOREM TypeCorrect == Spec => []TypeOK
<1>1. IInv => TypeOK
  BY DEF IInv
<1> QED
  BY <1>1, CacheConsistent, PTL

\* No dropped interval is lost or shown twice, for any cache size.
THEOREM TimelineHolds == Spec => []Timeline
<1>1. IInv => Timeline
  BY DEF IInv
<1> QED
  BY <1>1, CacheConsistent, PTL

\* The graphics thread never overwrites the picture the video thread reads.
THEOREM NoTearingHolds == Spec => []NoTearing
  BY NotTorn, CacheConsistent, PTL

\* The outputs are handed every interval once, in order, with a picture that
\* was rendered by then.
THEOREM CadenceHolds == Spec => []Cadence
<1>1. IInv => Cadence
  <2>1. SUFFICES ASSUME IInv, Busy PROVE Cadence
    BY DEF Cadence
  <2>2. /\ CacheSize \in Nat \ {0} /\ Queued \in 1 .. CacheSize
        /\ cur = first_added /\ first_added \in Slots /\ Held > 0
    BY <2>1, CacheSizePos DEF IInv, Whole, RingOrder, TypeOK, Queued, Held
  <2>3. cur = Slot(0) /\ 0 \in 0 .. Queued - 1
    BY <2>2, SlotRing
  <2> QED
    BY <2>1, <2>2, <2>3 DEF IInv, Whole, Timeline, Cadence
<1> QED
  BY <1>1, CacheConsistent, PTL

\* The frame cache is the bounded queue that FrameQueue describes: pictures leave in
\* the order in which they entered, a full cache stretches the youngest one, and no
\* interval is lost.
THEOREM FrameQueueImplemented == Spec => ImplementsFrameQueue
<1>1. IInv /\ Offered /\ [Next]_vars => Offered'
  BY OfferedKept
<1>2. IInv /\ IInv' /\ Offered /\ [Next]_vars => [FIFO!QueueNext]_(FIFO!queueVars)
  BY StepRefines
<1> QED
  BY <1>1, <1>2, InitRefines, CacheConsistent, PTL
     DEF Spec, ImplementsFrameQueue, FIFO!QueueSpec

-----------------------------------------------------------------------------
(* The inputs of one pass.                                                 *)

\* An input that leaves the array: the others stay, each once.
LEMMA RemovedInput ==
  ASSUME TypeOK, IsInjective(inputs), NEW i \in DOMAIN inputs,
         inputs' = RemoveAt(inputs, i)
  PROVE  /\ IsInjective(inputs')
         /\ Connected' = Connected \ {inputs[i]}
         /\ \A n \in DOMAIN inputs' :
              /\ n < i => n \in DOMAIN inputs /\ inputs'[n] = inputs[n]
              /\ n >= i => inputs'[n] = inputs[n + 1]
<1> DEFINE m == Len(inputs)
<1>1. /\ m \in Nat /\ DOMAIN inputs = 1 .. m /\ inputs \in Seq(Inputs) /\ i \in 1 .. m
  BY LenProperties DEF TypeOK
<1>2. /\ inputs' \in Seq(Inputs) /\ Len(inputs') = m - 1
      /\ \A k \in 1 .. m - 1 : inputs'[k] = IF k < i THEN inputs[k] ELSE inputs[k + 1]
  BY <1>1, RemoveAtIs
<1>3. DOMAIN inputs' = 1 .. m - 1
  BY <1>2, LenProperties
<1> HIDE DEF m
<1>4. /\ \A k \in 1 .. m - 1 : k \in 1 .. m /\ k + 1 \in 1 .. m
      /\ \A k \in 1 .. m : k < i => k \in 1 .. m - 1
      /\ \A k \in 1 .. m : k > i => k - 1 \in 1 .. m - 1 /\ ~(k - 1 < i) /\ (k - 1) + 1 = k
  BY <1>1
<1>5. IsInjective(inputs')
  <2>1. SUFFICES ASSUME NEW j \in 1 .. m - 1, NEW k \in 1 .. m - 1, inputs'[j] = inputs'[k]
                 PROVE  j = k
    BY <1>3 DEF IsInjective
  <2> DEFINE f(x) == IF x < i THEN x ELSE x + 1
  <2>2. f(j) \in 1 .. m /\ f(k) \in 1 .. m /\ inputs[f(j)] = inputs[f(k)]
    BY <1>2, <1>4, <2>1
  <2>3. f(j) = f(k)
    BY <1>1, <2>2 DEF IsInjective
  <2> QED
    BY <1>1, <2>3
<1>6. ASSUME NEW y PROVE y \in Connected' <=> y \in Connected /\ y # inputs[i]
  <2>1. /\ y \in Connected' <=> \E k \in 1 .. m - 1 : inputs'[k] = y
        /\ y \in Connected <=> \E k \in 1 .. m : inputs[k] = y
    BY <1>1, <1>3 DEF Connected, Range
  <2>2. ASSUME NEW k \in 1 .. m - 1, inputs'[k] = y PROVE y \in Connected /\ y # inputs[i]
    <3>1. CASE k < i
      <4>1. k \in 1 .. m /\ k # i /\ inputs[k] = y
        BY <1>1, <1>2, <1>4, <2>2, <3>1
      <4> QED
        BY <1>1, <2>1, <4>1 DEF IsInjective
    <3>2. CASE ~(k < i)
      <4>1. k + 1 \in 1 .. m /\ k + 1 # i /\ inputs[k + 1] = y
        BY <1>1, <1>2, <1>4, <2>2, <3>2
      <4> QED
        BY <1>1, <2>1, <4>1 DEF IsInjective
    <3> QED
      BY <3>1, <3>2
  <2>3. ASSUME NEW k \in 1 .. m, inputs[k] = y, y # inputs[i] PROVE y \in Connected'
    <3>1. CASE k < i
      BY <1>2, <1>4, <2>1, <2>3, <3>1
    <3>2. CASE ~(k < i)
      <4>1. k > i
        BY <1>1, <2>3, <3>2
      <4>2. k - 1 \in 1 .. m - 1 /\ inputs'[k - 1] = y
        BY <1>2, <1>4, <2>3, <4>1
      <4> QED
        BY <2>1, <4>2
    <3> QED
      BY <3>1, <3>2
  <2> QED
    BY <2>1, <2>2, <2>3
<1>7. ASSUME NEW n \in DOMAIN inputs'
      PROVE  /\ n < i => n \in DOMAIN inputs /\ inputs'[n] = inputs[n]
             /\ n >= i => inputs'[n] = inputs[n + 1]
  BY <1>1, <1>2, <1>3, <1>4, <1>7
<1> QED
  BY <1>5, <1>6, <1>7

\* An input is connected once; a pass has left out no more inputs than it removed.
Passes ==
  /\ IsInjective(inputs)
  /\ vpc = "pass" => IsFiniteSet(PassedBy) /\ IsFiniteSet(served)
  /\ MissedOnlyBehindRemoval

\* What one turn adds to those passed by, without the input x that had it.
LEMMA TurnPasses ==
  ASSUME TypeOK, Passes, vpc = "pass", vpc' = "pass", NEW x, NEW y,
         IsInjective(inputs'),
         served' = served \cup {x}, x \in Connected,
         \/ PassedBy' \subseteq PassedBy \cup {x} /\ Connected' = Connected
         \/ PassedBy' \subseteq PassedBy \cup {y} /\ Connected' = Connected \ {x}
  PROVE  Passes'
<1> DEFINE M == PassedBy \ served
           R == served \ Connected
<1>1. IsFiniteSet(PassedBy) /\ IsFiniteSet(served) /\ Cardinality(M) <= Cardinality(R)
  BY DEF Passes, MissedOnlyBehindRemoval
<1>2. IsFiniteSet(PassedBy') /\ IsFiniteSet(served')
  <2>1. /\ IsFiniteSet(PassedBy \cup {x}) /\ IsFiniteSet(PassedBy \cup {y})
        /\ IsFiniteSet(served \cup {x})
    BY <1>1, FS_AddElement
  <2>2. IsFiniteSet(PassedBy')
    BY <2>1, FS_Subset
  <2> QED
    BY <2>1, <2>2
<1>3. /\ IsFiniteSet(M) /\ IsFiniteSet(R)
      /\ Cardinality(M) \in Nat /\ Cardinality(R) \in Nat
  <2>1. IsFiniteSet(M) /\ IsFiniteSet(R)
    BY <1>1, FS_Subset
  <2> QED
    BY <2>1, FS_CardinalityType
<1>4. x \notin R
  OBVIOUS
<1>5. Cardinality(PassedBy' \ served') <= Cardinality(served' \ Connected')
  <2>1. CASE PassedBy' \subseteq PassedBy \cup {x} /\ Connected' = Connected
    <3>1. PassedBy' \ served' \subseteq M /\ served' \ Connected' = R
      BY <2>1
    <3>2. Cardinality(PassedBy' \ served') <= Cardinality(M)
          /\ IsFiniteSet(PassedBy' \ served')
      BY <1>3, <3>1, FS_Subset
    <3>3. Cardinality(PassedBy' \ served') \in Nat
      BY <3>2, FS_CardinalityType
    <3> QED
      BY <1>1, <1>3, <3>1, <3>2, <3>3
  <2>2. CASE PassedBy' \subseteq PassedBy \cup {y} /\ Connected' = Connected \ {x}
    <3>1. PassedBy' \ served' \subseteq M \cup {y} /\ served' \ Connected' = R \cup {x}
      BY <2>2
    <3>2. Cardinality(R \cup {x}) = Cardinality(R) + 1
      BY <1>3, <1>4, FS_AddElement
    <3>3. IsFiniteSet(M \cup {y}) /\ Cardinality(M \cup {y}) <= Cardinality(M) + 1
          /\ Cardinality(M \cup {y}) \in Nat
      <4> HIDE DEF M
      <4>1. /\ IsFiniteSet(M \cup {y})
            /\ Cardinality(M \cup {y}) = IF y \in M THEN Cardinality(M) ELSE Cardinality(M) + 1
        BY <1>3, FS_AddElement
      <4> QED
        BY <1>3, <4>1
    <3>4. Cardinality(PassedBy' \ served') <= Cardinality(M \cup {y})
          /\ IsFiniteSet(PassedBy' \ served')
      BY <3>1, <3>3, FS_Subset
    <3>5. Cardinality(PassedBy' \ served') \in Nat
      BY <3>4, FS_CardinalityType
    <3>6. Cardinality(served' \ Connected') = Cardinality(R) + 1
      BY <3>1, <3>2
    <3>7. Cardinality(M) <= Cardinality(R)
      BY <1>1
    <3> HIDE DEF M, R
    <3> QED
      BY <1>3, <3>3, <3>4, <3>5, <3>6, <3>7
  <2> QED
    BY <2>1, <2>2
<1> QED
  BY <1>2, <1>5 DEF Passes, MissedOnlyBehindRemoval

\* Every step keeps Passes: only the turns of the pass touch what it counts.
LEMMA NextPasses == TypeOK /\ Passes /\ [Next]_vars => Passes'
<1> SUFFICES ASSUME TypeOK, Passes, [Next]_vars PROVE Passes'
  OBVIOUS
<1>1. inputs \in Seq(Inputs) /\ DOMAIN inputs = 1 .. Len(inputs) /\ Len(inputs) \in Nat
      /\ pos \in Nat \ {0}
  BY LenProperties DEF TypeOK
<1>2. CASE BeginPass
  <2>1. PassedBy' = {} /\ served' = {} /\ UNCHANGED inputs
    BY <1>1, <1>2 DEF BeginPass, PassedBy
  <2>2. IsFiniteSet({}) /\ Cardinality({}) = 0 /\ {} \ served' = {} /\ {} \ Connected' = {}
    BY FS_EmptySet
  <2> QED
    BY <2>1, <2>2 DEF Passes, MissedOnlyBehindRemoval
<1>3. CASE OfferFrame
  <2> DEFINE x == inputs[pos]
  <2>1. /\ pos \in DOMAIN inputs /\ x \in Connected /\ UNCHANGED inputs
        /\ vpc = "pass" /\ vpc' = "pass" /\ pos' = pos + 1
        /\ served' = served \cup {x}
    <3>1. vpc = "pass" /\ pos <= Len(inputs) /\ UNCHANGED <<inputs, vpc>>
      BY <1>3 DEF OfferFrame
    <3>2. pos \in DOMAIN inputs
      BY <1>1, <3>1
    <3> QED
      BY <1>3, <3>1, <3>2 DEF OfferFrame, Connected, Range
  <2>2. PassedBy' \subseteq PassedBy \cup {x} /\ Connected' = Connected
    BY <1>1, <2>1 DEF PassedBy, Connected
  <2>3. IsInjective(inputs')
    BY <2>1 DEF Passes
  <2> HIDE DEF x
  <2> QED
    BY <2>1, <2>2, <2>3, TurnPasses
<1>4. CASE OfferFrameAndRemove
  <2> DEFINE x == inputs[pos]
             y == inputs[pos + 1]
  <2>1. /\ pos \in DOMAIN inputs /\ x \in Connected /\ inputs' = RemoveAt(inputs, pos)
        /\ vpc = "pass" /\ vpc' = "pass" /\ pos' = pos + 1
        /\ served' = served \cup {x}
    <3>1. vpc = "pass" /\ pos <= Len(inputs) /\ UNCHANGED vpc
      BY <1>4 DEF OfferFrameAndRemove
    <3>2. pos \in DOMAIN inputs
      BY <1>1, <3>1
    <3> QED
      BY <1>4, <3>1, <3>2 DEF OfferFrameAndRemove, Connected, Range
  <2>2. /\ IsInjective(inputs') /\ Connected' = Connected \ {x}
        /\ \A n \in DOMAIN inputs' :
              /\ n < pos => n \in DOMAIN inputs /\ inputs'[n] = inputs[n]
              /\ n >= pos => inputs'[n] = inputs[n + 1]
    BY <2>1, RemovedInput DEF Passes
  <2>3. inputs' \in Seq(Inputs)
    BY <1>1, <2>1, RemoveAtIs
  <2>4. DOMAIN inputs' \subseteq Nat
    BY <2>3, LenProperties
  <2>5. PassedBy' \subseteq PassedBy \cup {y}
    <3>1. SUFFICES ASSUME NEW n \in DOMAIN inputs', n < pos + 1
                   PROVE  inputs'[n] \in PassedBy \cup {y}
      BY <2>1 DEF PassedBy
    <3>2. n \in Nat
      BY <2>4
    <3>3. CASE n < pos
      BY <2>2, <3>3 DEF PassedBy
    <3>4. CASE n = pos
      BY <1>1, <2>2, <3>4
    <3> QED
      BY <1>1, <3>1, <3>2, <3>3, <3>4
  <2> HIDE DEF x, y
  <2> QED
    BY <2>1, <2>2, <2>5, TurnPasses
<1>5. CASE \E i \in Inputs : Connect(i) \/ Disconnect(i)
  <2>1. PICK i \in Inputs : Connect(i) \/ Disconnect(i)
    BY <1>5
  <2>2. vpc' # "pass"
    BY <2>1 DEF Connect, Disconnect, InputsUnlocked, videoVars
  <2>3. CASE Connect(i)
    <3>1. inputs' = Append(inputs, i) /\ i \notin Connected
      BY <2>3 DEF Connect
    <3>2. /\ inputs' \in Seq(Inputs) /\ Len(inputs') = Len(inputs) + 1
          /\ inputs'[Len(inputs) + 1] = i
          /\ \A k \in 1 .. Len(inputs) : inputs'[k] = inputs[k]
      BY <1>1, <3>1, AppendProperties
    <3>3. DOMAIN inputs' = 1 .. Len(inputs) + 1
      BY <3>2, LenProperties
    <3>4. \A k \in 1 .. Len(inputs) : inputs[k] # i
      BY <1>1, <3>1 DEF Connected, Range
    <3>5. \A k \in 1 .. Len(inputs) + 1 : k \in 1 .. Len(inputs) \/ k = Len(inputs) + 1
      BY <1>1
    <3>6. IsInjective(inputs')
      BY <1>1, <3>2, <3>3, <3>4, <3>5 DEF Passes, IsInjective
    <3> QED
      BY <2>2, <3>6 DEF Passes, MissedOnlyBehindRemoval
  <2>4. CASE Disconnect(i)
    <3>1. PICK n \in DOMAIN inputs : inputs' = RemoveAt(inputs, n)
      BY <2>4 DEF Disconnect
    <3>2. IsInjective(inputs')
      BY <3>1, RemovedInput DEF Passes
    <3> QED
      BY <2>2, <3>2 DEF Passes, MissedOnlyBehindRemoval
  <2> QED
    BY <2>1, <2>3, <2>4
<1>6. CASE Close
  <2>1. inputs' = <<>> /\ vpc' # "pass"
    BY <1>6 DEF Close, videoVars
  <2>2. IsInjective(<<>>)
    BY DEF IsInjective
  <2> QED
    BY <2>1, <2>2 DEF Passes, MissedOnlyBehindRemoval
<1>7. CASE Wake \/ CheckStop \/ Abandon \/ PickFrame \/ EndPass \/ FinishFrame
  <2>1. UNCHANGED inputs /\ vpc' # "pass"
    BY <1>7 DEF Wake, CheckStop, Abandon, PickFrame, EndPass, FinishFrame
  <2> QED
    BY <2>1 DEF Passes, MissedOnlyBehindRemoval
<1>8. CASE Graphics \/ SetStop \/ PostStop \/ UNCHANGED vars
  <2>1. UNCHANGED <<inputs, vpc, pos, served>>
    BY <1>8 DEF Graphics, SkipFrame, LockFrame, UnlockFrame, GraphicsExit, SetStop,
                PostStop, videoVars, vars
  <2> QED
    BY <2>1 DEF Passes, MissedOnlyBehindRemoval, PassedBy, Connected
<1> QED
  BY <1>2, <1>3, <1>4, <1>5, <1>6, <1>7, <1>8 DEF Next, Video, Main, Others, Terminated

\* In one pass over the inputs, one is left without the frame only behind another
\* that has removed itself: no more of them than of those.
THEOREM MissedOnlyBehindRemovalHolds == Spec => []MissedOnlyBehindRemoval
<1>1. Init => Passes
  <2>1. IsInjective(<<>>)
    BY DEF IsInjective
  <2> QED
    BY <2>1 DEF Init, Passes, MissedOnlyBehindRemoval
<1>2. TypeOK /\ Passes /\ [Next]_vars => Passes'
  BY NextPasses
<1>3. Passes => MissedOnlyBehindRemoval
  BY DEF Passes
<1> QED
  BY <1>1, <1>2, <1>3, TypeCorrect, PTL DEF Spec


-----------------------------------------------------------------------------
(* FramePipeline.                                                          *)

Pictures == [Textures -> Int]
Info     == [tick : Int, timestamp : Nat, count : TickCounts]
Steps    == {"render", "download", "sleep"}

\* How many ticks were rendered in this session, and how many went as far as the
\* download.
Rendered   == IF step = "render" THEN tick ELSE tick + 1
Downloaded == IF step = "sleep" THEN tick + 1 ELSE tick

\* The texture of each stage that was drawn last, and the one drawn before it.
Newest == IF step = "download" THEN cur_texture ELSE 1 - cur_texture
Older  == 1 - Newest

\* What a stage has made of tick n, if there was one; and what is in the surface
\* that was copied without gpu conversion at tick n.
Before(n)  == IF n < 0 THEN Empty ELSE n
Surface(n) == IF n < 0 THEN Empty ELSE IF n < 2 THEN Undrawn ELSE n - 2

\* How many ticks found a picture to download, and how many times they took.
Reached == IF gpu_conversion
           THEN IF Downloaded < 4 THEN 0 ELSE Downloaded - 4
           ELSE IF Downloaded < 1 THEN 0 ELSE Downloaded - 1
Popped  == Reached - failures

-----------------------------------------------------------------------------
(* The inductive invariant.                                                *)

Typed ==
  /\ gpu_conversion \in BOOLEAN
  /\ cur_texture \in Textures
  /\ textures \in [render : Pictures, output : Pictures, convert : Pictures,
                   copy : Pictures]
  /\ mapped_surface \in Textures \cup {Empty}
  /\ vframe_info \in Seq(Info)
  /\ video_time \in Nat /\ tick \in Nat /\ due \in Nat /\ failures \in Nat
  /\ session \in Nat
  /\ step \in Steps
  /\ tick <= MaxTicks /\ (step # "render" => tick < MaxTicks)

\* Each stage is one tick behind the one before it.
Stages ==
  /\ textures.render[Newest] = Before(Rendered - 1)
  /\ textures.render[Older]  = Before(Rendered - 2)
  /\ textures.output[Newest] = Before(Rendered - 2)
  /\ textures.output[Older]  = Before(Rendered - 3)
  /\ IF gpu_conversion
     THEN /\ textures.convert[Newest] = Before(Rendered - 3)
          /\ textures.convert[Older]  = Before(Rendered - 4)
          /\ textures.copy[Newest]    = Before(Rendered - 4)
          /\ textures.copy[Older]     = Before(Rendered - 5)
     ELSE /\ textures.convert[Newest] = Empty
          /\ textures.convert[Older]  = Empty
          /\ textures.copy[Newest]    = Surface(Rendered - 1)
          /\ textures.copy[Older]     = Surface(Rendered - 2)

\* The times that wait are those of the last ticks, as many as were not taken.
Waiting ==
  /\ failures <= Reached
  /\ Len(vframe_info) = tick - Popped
  /\ \A i \in 1 .. Len(vframe_info) : vframe_info[i].tick = Popped + i - 1

\* They cover the intervals from `due` to the present without a gap.
Covered ==
  /\ vframe_info = <<>> => due = video_time
  /\ vframe_info # <<>> => vframe_info[1].timestamp = due
  /\ \A i \in 1 .. Len(vframe_info) :
       vframe_info[i].timestamp + vframe_info[i].count =
         IF i = Len(vframe_info) THEN video_time ELSE vframe_info[i + 1].timestamp

PipelineIInv == Typed /\ Stages /\ Waiting /\ Covered /\ SteadyLag

-----------------------------------------------------------------------------

\* The other texture.
LEMMA OtherTexture == cur_texture \in Textures =>
  /\ cur_texture \in {0, 1} /\ Textures = {0, 1}
  /\ prev_texture = 1 - cur_texture /\ NextTexture = 1 - cur_texture
  /\ prev_texture \in Textures /\ NextTexture \in Textures
BY DEF Textures, NUM_TEXTURES, prev_texture, NextTexture

LEMMA PipelineStarts == PipelineInit => PipelineIInv
<1> SUFFICES ASSUME PipelineInit PROVE PipelineIInv
  OBVIOUS
<1> USE PipelineAssumption DEF PipelineInit, BlankTextures, Blank, Empty, NoFrame
<1>1. Typed
  BY DEF Typed, Pictures, Textures, NUM_TEXTURES, Steps
<1>2. Stages
  BY DEF Stages, Newest, Older, Rendered, Before, Surface, Textures, NUM_TEXTURES
<1>3. Waiting /\ Covered /\ SteadyLag
  BY DEF Waiting, Popped, Reached, Downloaded, Covered, SteadyLag
<1> QED
  BY <1>1, <1>2, <1>3 DEF PipelineIInv

\* What comes through the stages arrives after as many ticks as there are stages,
\* and by then times wait: the buffer is not empty when it is popped.
LEMMA PictureAndTime ==
  ASSUME Typed, Stages, Waiting, step = "download"
  PROVE  /\ textures.copy[prev_texture] # Empty <=> tick >= IF gpu_conversion THEN 4
                                                            ELSE 1
         /\ textures.copy[prev_texture] =
              IF gpu_conversion THEN Before(tick - 4) ELSE Surface(tick - 1)
         /\ textures.copy[prev_texture] # Empty => vframe_info # <<>>
<1>1. prev_texture = Older /\ Rendered = tick + 1 /\ Downloaded = tick
  BY OtherTexture DEF Typed, Older, Newest, Rendered, Downloaded
<1>2. textures.copy[prev_texture] =
        IF gpu_conversion THEN Before(tick - 4) ELSE Surface(tick - 1)
  BY <1>1 DEF Stages, Typed
<1>3. textures.copy[prev_texture] # Empty <=> tick >= IF gpu_conversion THEN 4
                                                      ELSE 1
  BY <1>2 DEF Before, Surface, Empty, Undrawn, Typed
<1>4. Len(vframe_info) = tick - Reached + failures
  BY <1>1 DEF Waiting, Popped, Reached, Typed
<1>5. tick >= (IF gpu_conversion THEN 4 ELSE 1) => Len(vframe_info) > 0
  BY <1>1, <1>4 DEF Reached, Typed
<1>6. Len(vframe_info) > 0 => vframe_info # <<>>
  OBVIOUS
<1> QED
  BY <1>2, <1>3, <1>5, <1>6

\* Every step keeps the types.
LEMMA TypedKept == Typed /\ Stages /\ Waiting /\ [PipelineNext]_pipelineVars => Typed'
<1> SUFFICES ASSUME Typed, Stages, Waiting, [PipelineNext]_pipelineVars PROVE Typed'
  OBVIOUS
<1> USE PipelineAssumption, OtherTexture DEF Typed, Steps
<1>1. CASE RenderVideo
  <2>1. ASSUME NEW t \in Pictures, NEW n \in Int
        PROVE  [t EXCEPT ![cur_texture] = n] \in Pictures
    BY <2>1 DEF Pictures
  <2>2. ASSUME NEW t \in Pictures, NEW s \in Pictures PROVE Drawn(t, s) \in Pictures
    <3>1. s[prev_texture] \in Int
      BY DEF Pictures
    <3> QED
      BY <2>1, <3>1 DEF Drawn
  <2>3. ASSUME NEW t \in Pictures, NEW s \in Pictures
        PROVE  StagedUnconverted(t, s) \in Pictures
    <3>1. s[prev_texture] \in Int
      BY DEF Pictures
    <3> QED
      BY <2>1, <3>1 DEF StagedUnconverted, Undrawn
  <2>4. textures' \in [render : Pictures, output : Pictures, convert : Pictures,
                       copy : Pictures]
    BY <1>1, <2>1, <2>2, <2>3 DEF RenderVideo, Converted
  <2> QED
    BY <1>1, <2>4 DEF RenderVideo
<1>2. CASE DownloadFrame
  <2>1. vframe_info # <<>>
    BY <1>2, PictureAndTime DEF DownloadFrame
  <2>2. Head(vframe_info) \in Info /\ Tail(vframe_info) \in Seq(Info)
    BY <2>1
  <2>3. Head(vframe_info).timestamp \in Nat /\ Head(vframe_info).count \in TickCounts
    BY <2>2 DEF Info
  <2>4. \A a \in Nat : \A c \in TickCounts : a + c \in Nat
    OBVIOUS
  <2>5. Head(vframe_info).timestamp + Head(vframe_info).count \in Nat
    BY <2>3, <2>4
  <2> QED
    BY <1>2, <2>2, <2>5 DEF DownloadFrame
<1>3. CASE NothingToDownload
  BY <1>3 DEF NothingToDownload
<1>4. CASE DownloadFails
  BY <1>4 DEF DownloadFails
<1>5. ASSUME NEW count \in TickCounts, VideoSleep(count) PROVE Typed'
  <2>1. [tick |-> tick, timestamp |-> video_time, count |-> count] \in Info
    BY DEF Info
  <2>2. vframe_info' \in Seq(Info)
    BY <1>5, <2>1 DEF VideoSleep, Intervals
  <2> QED
    BY <1>5, <2>2 DEF VideoSleep
<1>6. CASE ResetVideo
  BY <1>6 DEF ResetVideo, TexturesAfterReset, TimesAfterReset, BlankTextures, Blank,
              Pictures, Textures, NUM_TEXTURES, Empty
<1>7. CASE UNCHANGED pipelineVars
  BY <1>7 DEF pipelineVars
<1> QED
  BY <1>1, <1>2, <1>3, <1>4, <1>5, <1>6, <1>7 DEF PipelineNext, Stopped

\* Every stage stays one tick behind the one before it.
LEMMA StagesKept == Typed /\ Stages /\ Typed' /\ [PipelineNext]_pipelineVars => Stages'
<1> SUFFICES ASSUME Typed, Stages, Typed', [PipelineNext]_pipelineVars PROVE Stages'
  OBVIOUS
<1> USE PipelineAssumption, OtherTexture DEF Newest, Older, Rendered
<1>1. CASE RenderVideo
  <2>1. /\ Newest = prev_texture /\ Older = cur_texture /\ Rendered = tick
        /\ Newest' = cur_texture /\ Older' = prev_texture
        /\ Rendered' = Rendered + 1 /\ gpu_conversion' = gpu_conversion
        /\ tick \in Nat /\ cur_texture # prev_texture
    BY <1>1 DEF RenderVideo, Typed
  <2>2. ASSUME NEW t \in Pictures, NEW n
        PROVE  /\ [t EXCEPT ![cur_texture] = n][cur_texture] = n
               /\ [t EXCEPT ![cur_texture] = n][prev_texture] = t[prev_texture]
    BY <2>1 DEF Typed, Pictures
  <2>3. ASSUME NEW t \in Pictures, NEW s \in Pictures, NEW n \in Int,
               t[cur_texture] = Before(n - 2), s[prev_texture] = Before(n)
        PROVE  /\ Drawn(t, s)[cur_texture] = Before(n)
               /\ Drawn(t, s)[prev_texture] = t[prev_texture]
    BY <2>2, <2>3 DEF Drawn, Before, Empty
  <2>4. /\ textures.render \in Pictures /\ textures.output \in Pictures
        /\ textures.convert \in Pictures /\ textures.copy \in Pictures
    BY DEF Typed
  <2>5. /\ textures'.render = [textures.render EXCEPT ![cur_texture] = tick]
        /\ textures'.output = Drawn(textures.output, textures.render)
        /\ textures'.convert = IF gpu_conversion
                               THEN Drawn(textures.convert, textures.output)
                               ELSE textures.convert
        /\ textures'.copy = IF gpu_conversion
                            THEN Drawn(textures.copy, textures.convert)
                            ELSE StagedUnconverted(textures.copy, textures.output)
    BY <1>1 DEF RenderVideo, Converted
  <2>6. /\ textures'.render[cur_texture] = Before(tick)
        /\ textures'.render[prev_texture] = Before(tick - 1)
    <3>1. /\ textures'.render[cur_texture] = tick
          /\ textures'.render[prev_texture] = textures.render[prev_texture]
      BY <2>2, <2>4, <2>5
    <3>2. textures.render[prev_texture] = Before(tick - 1)
      BY <2>1 DEF Stages
    <3> QED
      BY <2>1, <3>1, <3>2 DEF Before
  <2>7. /\ textures'.output[cur_texture] = Before(tick - 1)
        /\ textures'.output[prev_texture] = Before(tick - 2)
    <3>1. /\ textures.output[cur_texture] = Before((tick - 1) - 2)
          /\ textures.output[prev_texture] = Before(tick - 2)
          /\ textures.render[prev_texture] = Before(tick - 1)
      BY <2>1 DEF Stages
    <3> QED
      BY <2>1, <2>3, <2>4, <2>5, <3>1
  <2>8. CASE gpu_conversion
    <3>1. /\ textures.convert[cur_texture] = Before((tick - 2) - 2)
          /\ textures.convert[prev_texture] = Before(tick - 3)
          /\ textures.output[prev_texture] = Before(tick - 2)
          /\ textures.copy[cur_texture] = Before((tick - 3) - 2)
          /\ textures.copy[prev_texture] = Before(tick - 4)
      BY <2>1, <2>8 DEF Stages
    <3>2. /\ textures'.convert[cur_texture] = Before(tick - 2)
          /\ textures'.convert[prev_texture] = Before(tick - 3)
      BY <2>1, <2>3, <2>4, <2>5, <2>8, <3>1
    <3>3. /\ textures'.copy[cur_texture] = Before(tick - 3)
          /\ textures'.copy[prev_texture] = Before(tick - 4)
      BY <2>1, <2>3, <2>4, <2>5, <2>8, <3>1
    <3> QED
      BY <2>1, <2>6, <2>7, <2>8, <3>2, <3>3 DEF Stages
  <2>9. CASE ~gpu_conversion
    <3>1. /\ textures'.convert[cur_texture] = Empty
          /\ textures'.convert[prev_texture] = Empty
      BY <2>1, <2>5, <2>9 DEF Stages
    <3>2. textures.output[prev_texture] = Before(tick - 2)
      BY <2>1 DEF Stages
    <3>3. /\ textures'.copy[cur_texture] = IF textures.output[prev_texture] = Empty
                                            THEN Undrawn
                                            ELSE textures.output[prev_texture]
          /\ textures'.copy[prev_texture] = textures.copy[prev_texture]
      BY <2>2, <2>4, <2>5, <2>9 DEF StagedUnconverted
    <3>4. textures'.copy[cur_texture] = Surface(tick)
      BY <2>1, <3>2, <3>3 DEF Before, Surface, Empty
    <3>5. textures'.copy[prev_texture] = Surface(tick - 1)
      BY <2>1, <2>9, <3>3 DEF Stages
    <3> QED
      BY <2>1, <2>6, <2>7, <2>9, <3>1, <3>4, <3>5 DEF Stages
  <2> QED
    BY <2>8, <2>9 DEF Typed
<1>2. CASE DownloadFrame \/ NothingToDownload \/ DownloadFails
  <2>1. /\ step = "download" /\ step' = "sleep" /\ cur_texture' = 1 - cur_texture
        /\ tick' = tick /\ textures' = textures /\ gpu_conversion' = gpu_conversion
    BY <1>2 DEF DownloadFrame, NothingToDownload, DownloadFails, Typed
  <2>2. Newest' = Newest /\ Older' = Older /\ Rendered' = Rendered
    BY <2>1 DEF Typed
  <2> QED
    BY <2>1, <2>2 DEF Stages
<1>3. ASSUME NEW count \in TickCounts, VideoSleep(count) PROVE Stages'
  <2>1. /\ Newest' = Newest /\ Older' = Older /\ Rendered' = Rendered
        /\ textures' = textures /\ gpu_conversion' = gpu_conversion
    BY <1>3 DEF VideoSleep, Typed
  <2> QED
    BY <2>1 DEF Stages
<1>4. CASE ResetVideo
  <2>1. Newest' \in Textures /\ Older' \in Textures /\ Rendered' = 0
    BY <1>4 DEF ResetVideo, Typed
  <2>2. textures' = BlankTextures
    BY <1>4 DEF ResetVideo, TexturesAfterReset
  <2> QED
    BY <2>1, <2>2 DEF Stages, BlankTextures, Blank, Before, Surface, Empty
<1>5. CASE UNCHANGED pipelineVars
  BY <1>5 DEF pipelineVars, Stages
<1> QED
  BY <1>1, <1>2, <1>3, <1>4, <1>5 DEF PipelineNext, Stopped

\* As many times wait as ticks are between the rendering and the download.
LEMMA WaitingKept ==
  Typed /\ Stages /\ Waiting /\ Typed' /\ [PipelineNext]_pipelineVars => Waiting'
<1> SUFFICES ASSUME Typed, Stages, Waiting, Typed', [PipelineNext]_pipelineVars
             PROVE  Waiting'
  OBVIOUS
<1> USE PipelineAssumption, OtherTexture DEF Reached, Popped, Downloaded
<1>1. CASE RenderVideo
  <2>1. /\ Popped' = Popped /\ Reached' = Reached /\ tick' = tick
        /\ vframe_info' = vframe_info /\ failures' = failures
    BY <1>1 DEF RenderVideo
  <2> QED
    BY <2>1 DEF Waiting
<1>2. CASE DownloadFrame
  <2>1. vframe_info # <<>> /\ tick >= IF gpu_conversion THEN 4 ELSE 1
    BY <1>2, PictureAndTime DEF DownloadFrame
  <2>2. /\ Reached' = Reached + 1 /\ Popped' = Popped + 1
        /\ failures' = failures /\ tick' = tick
    BY <1>2, <2>1 DEF DownloadFrame, Typed
  <2>3. vframe_info' = Tail(vframe_info)
    BY <1>2 DEF DownloadFrame
  <2>4. /\ Len(vframe_info') = Len(vframe_info) - 1
        /\ \A i \in 1 .. Len(vframe_info') : vframe_info'[i] = vframe_info[i + 1]
    BY <2>1, <2>3 DEF Typed
  <2>5. Popped \in Int /\ Reached \in Int /\ tick \in Int /\ Len(vframe_info) \in Nat
    BY DEF Typed
  <2>6. ASSUME NEW i \in 1 .. Len(vframe_info')
        PROVE  vframe_info'[i].tick = Popped' + i - 1
    <3>1. i + 1 \in 1 .. Len(vframe_info)
      BY <2>4, <2>5
    <3>2. vframe_info[i + 1].tick = Popped + (i + 1) - 1
      BY <3>1 DEF Waiting
    <3> QED
      BY <2>2, <2>4, <2>5, <3>2
  <2> QED
    BY <2>2, <2>4, <2>5, <2>6 DEF Waiting, Typed
<1>3. CASE NothingToDownload
  <2>1. tick < IF gpu_conversion THEN 4 ELSE 1
    BY <1>3, PictureAndTime DEF NothingToDownload, Typed
  <2>2. /\ Popped' = Popped /\ Reached' = Reached /\ tick' = tick
        /\ vframe_info' = vframe_info /\ failures' = failures
    BY <1>3, <2>1 DEF NothingToDownload, Typed
  <2> QED
    BY <2>2 DEF Waiting
<1>4. CASE DownloadFails
  <2>1. tick >= IF gpu_conversion THEN 4 ELSE 1
    BY <1>4, PictureAndTime DEF DownloadFails
  <2>2. /\ Reached' = Reached + 1 /\ Popped' = Popped
        /\ failures' = failures + 1 /\ tick' = tick /\ vframe_info' = vframe_info
    BY <1>4, <2>1 DEF DownloadFails, Typed
  <2>3. Reached \in Int /\ failures \in Int
    BY DEF Typed
  <2>4. failures <= Reached /\ Len(vframe_info) = tick - Popped
        /\ \A i \in 1 .. Len(vframe_info) : vframe_info[i].tick = Popped + i - 1
    BY DEF Waiting
  <2>5. failures + 1 <= Reached + 1
    BY <2>3, <2>4
  <2> HIDE DEF Reached, Popped, Downloaded
  <2> QED
    BY <2>2, <2>4, <2>5 DEF Waiting
<1>5. ASSUME NEW count \in TickCounts, VideoSleep(count) PROVE Waiting'
  <2> DEFINE info == [tick |-> tick, timestamp |-> video_time, count |-> count]
  <2>1. vframe_info' = Append(vframe_info, info)
    BY <1>5 DEF VideoSleep, Intervals
  <2>2. /\ Len(vframe_info') = Len(vframe_info) + 1
        /\ \A i \in 1 .. Len(vframe_info) : vframe_info'[i] = vframe_info[i]
        /\ vframe_info'[Len(vframe_info) + 1].tick = tick
    BY <2>1 DEF Typed
  <2>3. /\ Popped' = Popped /\ Reached' = Reached /\ tick' = tick + 1
        /\ failures' = failures
    BY <1>5 DEF VideoSleep, Typed
  <2>4. Popped \in Int /\ Reached \in Int /\ tick \in Int /\ Len(vframe_info) \in Nat
    BY DEF Typed
  <2>5. ASSUME NEW i \in 1 .. Len(vframe_info')
        PROVE  vframe_info'[i].tick = Popped' + i - 1
    <3>1. CASE i \in 1 .. Len(vframe_info)
      BY <2>2, <2>3, <3>1 DEF Waiting
    <3>2. CASE i = Len(vframe_info) + 1
      <4>1. Len(vframe_info) = tick - Popped
        BY DEF Waiting
      <4>2. tick = Popped + (Len(vframe_info) + 1) - 1
        BY <2>4, <4>1
      <4>3. vframe_info'[i].tick = tick
        BY <2>2, <3>2
      <4> HIDE DEF Reached, Popped, Downloaded
      <4> QED
        BY <2>3, <3>2, <4>2, <4>3
    <3> QED
      BY <2>2, <2>4, <3>1, <3>2
  <2>6. failures <= Reached /\ Len(vframe_info) = tick - Popped
    BY DEF Waiting
  <2> HIDE DEF Reached, Popped, Downloaded
  <2>7. failures' <= Reached'
    BY <2>3, <2>6
  <2>8. Len(vframe_info') = tick' - Popped'
    BY <2>2, <2>3, <2>4, <2>6
  <2> QED
    BY <2>5, <2>7, <2>8 DEF Waiting
<1>6. CASE ResetVideo
  <2>1. /\ vframe_info' = <<>> /\ tick' = 0 /\ failures' = 0 /\ step' = "render"
    BY <1>6 DEF ResetVideo, TimesAfterReset
  <2>2. Reached' = 0 /\ Popped' = 0
    BY <2>1
  <2> QED
    BY <2>1, <2>2 DEF Waiting
<1>7. CASE UNCHANGED pipelineVars
  BY <1>7 DEF pipelineVars, Waiting
<1> QED
  BY <1>1, <1>2, <1>3, <1>4, <1>5, <1>6, <1>7 DEF PipelineNext, Stopped

\* Frames go on where the last one ended.
LEMMA CoveredKept ==
  Typed /\ Stages /\ Waiting /\ Covered /\ [PipelineNext]_pipelineVars => Covered'
<1> SUFFICES ASSUME Typed, Stages, Waiting, Covered, [PipelineNext]_pipelineVars
             PROVE  Covered'
  OBVIOUS
<1> USE PipelineAssumption, OtherTexture
<1>1. CASE RenderVideo \/ NothingToDownload \/ DownloadFails \/ UNCHANGED pipelineVars
  <2>1. UNCHANGED <<vframe_info, due, video_time>>
    BY <1>1 DEF RenderVideo, NothingToDownload, DownloadFails, pipelineVars
  <2> QED
    BY <2>1 DEF Covered
<1>2. CASE DownloadFrame
  <2>1. vframe_info # <<>>
    BY <1>2, PictureAndTime DEF DownloadFrame
  <2>2. /\ vframe_info' = Tail(vframe_info) /\ video_time' = video_time
        /\ due' = vframe_info[1].timestamp + vframe_info[1].count
    BY <1>2, <2>1 DEF DownloadFrame, Typed
  <2>3. /\ Len(vframe_info') = Len(vframe_info) - 1 /\ Len(vframe_info) \in Nat \ {0}
        /\ \A i \in 1 .. Len(vframe_info') : vframe_info'[i] = vframe_info[i + 1]
    BY <2>1, <2>2 DEF Typed
  <2>4. vframe_info' = <<>> <=> Len(vframe_info) = 1
    <3>1. vframe_info' \in Seq(Info)
      BY <2>1, <2>2 DEF Typed
    <3>2. vframe_info' = <<>> <=> Len(vframe_info') = 0
      BY <3>1
    <3> QED
      BY <2>3, <3>2
  <2>5. due' = IF Len(vframe_info) = 1 THEN video_time ELSE vframe_info[2].timestamp
    <3>1. 1 \in 1 .. Len(vframe_info)
      BY <2>3
    <3>2. vframe_info[1].timestamp + vframe_info[1].count =
            IF 1 = Len(vframe_info) THEN video_time ELSE vframe_info[1 + 1].timestamp
      BY <3>1 DEF Covered
    <3> QED
      BY <2>2, <3>2
  <2>6. ASSUME NEW i \in 1 .. Len(vframe_info')
        PROVE  vframe_info'[i].timestamp + vframe_info'[i].count =
                 IF i = Len(vframe_info') THEN video_time
                 ELSE vframe_info'[i + 1].timestamp
    <3>1. i + 1 \in 1 .. Len(vframe_info) /\ (i # Len(vframe_info') =>
                                                i + 1 \in 1 .. Len(vframe_info'))
      BY <2>3
    <3>2. vframe_info[i + 1].timestamp + vframe_info[i + 1].count =
            IF i + 1 = Len(vframe_info) THEN video_time
            ELSE vframe_info[(i + 1) + 1].timestamp
      BY <3>1 DEF Covered
    <3> QED
      BY <2>3, <3>1, <3>2
  <2>7. vframe_info' # <<>> => vframe_info'[1] = vframe_info[2]
    BY <2>3, <2>4
  <2> QED
    BY <2>2, <2>4, <2>5, <2>6, <2>7 DEF Covered
<1>3. ASSUME NEW count \in TickCounts, VideoSleep(count) PROVE Covered'
  <2> DEFINE info == [tick |-> tick, timestamp |-> video_time, count |-> count]
             n    == Len(vframe_info)
  <2>1. vframe_info' = Append(vframe_info, info) /\ due' = due
        /\ video_time' = video_time + count
    BY <1>3 DEF VideoSleep, Intervals
  <2>2. /\ n \in Nat /\ Len(vframe_info') = n + 1 /\ vframe_info' # <<>>
        /\ \A i \in 1 .. n : vframe_info'[i] = vframe_info[i]
        /\ vframe_info'[n + 1] = info
    BY <2>1 DEF Typed
  <2>3. vframe_info'[1].timestamp = due
    <3>1. CASE vframe_info = <<>>
      BY <2>2, <3>1 DEF Covered
    <3>2. CASE vframe_info # <<>>
      <4>1. n > 0
        BY <3>2 DEF Typed
      <4> QED
        BY <2>2, <3>2, <4>1 DEF Covered
    <3> QED
      BY <3>1, <3>2
  <2>4. ASSUME NEW i \in 1 .. n + 1
        PROVE  vframe_info'[i].timestamp + vframe_info'[i].count =
                 IF i = n + 1 THEN video_time' ELSE vframe_info'[i + 1].timestamp
    <3>1. CASE i = n + 1
      BY <2>1, <2>2, <3>1
    <3>2. CASE i = n /\ n > 0
      <4>1. vframe_info[i].timestamp + vframe_info[i].count = video_time
        BY <2>2, <3>2 DEF Covered
      <4> QED
        BY <2>2, <3>2, <4>1
    <3>3. CASE i < n
      <4>1. vframe_info[i].timestamp + vframe_info[i].count
              = vframe_info[i + 1].timestamp
        BY <2>2, <3>3 DEF Covered
      <4>2. i + 1 \in 1 .. n
        BY <2>2, <3>3
      <4> QED
        BY <2>2, <3>3, <4>1, <4>2
    <3> QED
      BY <2>2, <3>1, <3>2, <3>3
  <2> QED
    BY <2>1, <2>2, <2>3, <2>4 DEF Covered
<1>4. CASE ResetVideo
  <2>1. vframe_info' = <<>> /\ due' = video_time' /\ Len(vframe_info') = 0
    BY <1>4 DEF ResetVideo, TimesAfterReset
  <2> QED
    BY <2>1 DEF Covered
<1> QED
  BY <1>1, <1>2, <1>3, <1>4 DEF PipelineNext, Stopped

\* The lag of a frame depends on nothing but the path and the failures before it.
LEMMA LagKept == PipelineIInv /\ [PipelineNext]_pipelineVars => SteadyLag'
<1> SUFFICES ASSUME Typed, Stages, Waiting, SteadyLag, [PipelineNext]_pipelineVars
             PROVE  SteadyLag'
  BY DEF PipelineIInv
<1>1. CASE DownloadFrame
  <2>1. /\ vframe_info # <<>> /\ tick >= IF gpu_conversion THEN 4 ELSE 1
        /\ textures.copy[prev_texture] =
             IF gpu_conversion THEN Before(tick - 4) ELSE Surface(tick - 1)
    BY <1>1, PictureAndTime DEF DownloadFrame
  <2>2. Popped = (IF gpu_conversion THEN tick - 4 ELSE tick - 1) - failures
    BY <1>1, <2>1 DEF DownloadFrame, Popped, Reached, Downloaded, Typed
  <2>3. Head(vframe_info).tick = Popped
    <3>1. Len(vframe_info) \in Nat /\ Len(vframe_info) > 0 /\ Popped \in Int
      BY <2>1, <2>2 DEF Typed
    <3>2. Head(vframe_info) = vframe_info[1]
      BY <2>1 DEF Typed
    <3>3. vframe_info[1].tick = Popped + 1 - 1
      BY <3>1 DEF Waiting
    <3> QED
      BY <3>1, <3>2, <3>3
  <2>4. /\ frame' = [pic |-> textures.copy[prev_texture], tick |-> Popped,
                     failed |-> failures]
        /\ gpu_conversion' = gpu_conversion
    BY <1>1, <2>3 DEF DownloadFrame
  <2>5. tick \in Int /\ failures \in Int /\ Popped \in Int /\ gpu_conversion \in BOOLEAN
    BY <2>2 DEF Typed
  <2>6. /\ frame'.tick = Popped /\ frame'.failed = failures
        /\ frame'.pic = textures.copy[prev_texture]
    BY <2>4
  <2> HIDE DEF Popped
  <2>7. CASE gpu_conversion
    <3>1. Popped + failures - 0 = tick - 4 /\ tick - 4 >= 0
      BY <2>1, <2>2, <2>5, <2>7
    <3>2. frame'.pic = tick - 4 /\ Lag' = 0
      BY <2>1, <2>4, <2>5, <2>6, <2>7, <3>1 DEF Before, Lag
    <3> QED
      BY <2>5, <2>6, <3>1, <3>2 DEF SteadyLag
  <2>8. CASE ~gpu_conversion
    <3>1. Popped + failures - 2 = (tick - 1) - 2 /\ tick - 1 >= 0
      BY <2>1, <2>2, <2>5, <2>8
    <3>2. /\ frame'.pic = IF (tick - 1) - 2 < 0 THEN Undrawn ELSE (tick - 1) - 2
          /\ Lag' = 2
      BY <2>1, <2>4, <2>5, <2>6, <2>8, <3>1 DEF Surface, Lag
    <3> QED
      BY <2>5, <2>6, <3>1, <3>2 DEF SteadyLag
  <2> QED
    BY <2>7, <2>8
<1>2. CASE ResetVideo
  BY <1>2 DEF ResetVideo, SteadyLag
<1>3. CASE UNCHANGED <<frame, gpu_conversion>>
  BY <1>3 DEF SteadyLag, Lag
<1> QED
  BY <1>1, <1>2, <1>3
     DEF PipelineNext, pipelineVars, RenderVideo, NothingToDownload, DownloadFails,
         VideoSleep, Stopped

-----------------------------------------------------------------------------

LEMMA PipelineKept == PipelineIInv /\ [PipelineNext]_pipelineVars => PipelineIInv'
BY TypedKept, StagesKept, WaitingKept, CoveredKept, LagKept DEF PipelineIInv

\* The invariant holds in every state of every behaviour.
THEOREM PipelineConsistent == PipelineSpec => []PipelineIInv
BY PipelineStarts, PipelineKept, PTL DEF PipelineSpec

\* Every variable stays within its type, and no index runs over the end of the
\* arrays of textures.
THEOREM PipelineTypeCorrect == PipelineSpec => []PipelineTypeOK
<1>1. PipelineIInv => PipelineTypeOK
  <2> SUFFICES ASSUME Typed, Stages PROVE PipelineTypeOK
    BY DEF PipelineIInv
  <2> USE PipelineAssumption, OtherTexture DEF Typed
  <2>1. Newest \in Textures /\ Older \in Textures /\ Textures = {Newest, Older}
    BY DEF Newest, Older
  <2>2. Rendered \in 0 .. MaxTicks
    BY DEF Rendered, Steps
  <2>3. \A n \in Int : n <= MaxTicks => /\ Before(n) \in -2 .. MaxTicks
                                        /\ Surface(n) \in -2 .. MaxTicks
    BY DEF Before, Surface, Empty, Undrawn
  <2>4. ASSUME NEW t \in Pictures, t[Newest] \in -2 .. MaxTicks,
               t[Older] \in -2 .. MaxTicks
        PROVE  t \in [Textures -> -2 .. MaxTicks]
    BY <2>1, <2>4 DEF Pictures
  <2>5. /\ Before(Rendered - 1) \in -2 .. MaxTicks
        /\ Before(Rendered - 2) \in -2 .. MaxTicks
        /\ Before(Rendered - 3) \in -2 .. MaxTicks
        /\ Before(Rendered - 4) \in -2 .. MaxTicks
        /\ Before(Rendered - 5) \in -2 .. MaxTicks
        /\ Surface(Rendered - 1) \in -2 .. MaxTicks
        /\ Surface(Rendered - 2) \in -2 .. MaxTicks
        /\ Empty \in -2 .. MaxTicks
    <3>1. \A k \in 1 .. 5 : Rendered - k \in Int /\ Rendered - k <= MaxTicks
      BY <2>2
    <3>2. \A k \in 1 .. 5 : /\ Before(Rendered - k) \in -2 .. MaxTicks
                            /\ Surface(Rendered - k) \in -2 .. MaxTicks
      BY <2>3, <3>1
    <3>3. {1, 2, 3, 4, 5} = 1 .. 5
      OBVIOUS
    <3> QED
      BY <3>2, <3>3 DEF Empty
  <2>6. /\ textures.render \in [Textures -> -2 .. MaxTicks]
        /\ textures.output \in [Textures -> -2 .. MaxTicks]
    BY <2>4, <2>5 DEF Stages
  <2>7. /\ textures.convert \in [Textures -> -2 .. MaxTicks]
        /\ textures.copy \in [Textures -> -2 .. MaxTicks]
    <3>1. /\ textures.convert[Newest] \in -2 .. MaxTicks
          /\ textures.convert[Older] \in -2 .. MaxTicks
          /\ textures.copy[Newest] \in -2 .. MaxTicks
          /\ textures.copy[Older] \in -2 .. MaxTicks
      BY <2>5 DEF Stages
    <3>2. textures.convert \in Pictures /\ textures.copy \in Pictures
      OBVIOUS
    <3> QED
      BY <2>4, <3>1, <3>2
  <2>8. DOMAIN textures = {"render", "output", "convert", "copy"}
    OBVIOUS
  <2>9. \A i \in DOMAIN vframe_info : vframe_info[i].count \in TickCounts
    <3>1. \A i \in DOMAIN vframe_info : vframe_info[i] \in Info
      OBVIOUS
    <3> QED
      BY <3>1 DEF Info
  <2> QED
    BY <2>2, <2>6, <2>7, <2>8, <2>9 DEF PipelineTypeOK, Rendered, Steps
<1> QED
  BY <1>1, PipelineConsistent, PTL

\* Pictures, times and the clock stay together: the lag between a picture and its
\* time is constant but for failed downloads, the buffer of times is never empty
\* when it is popped, and the frames put out leave no gap between them.
THEOREM PicturesOnTimeHolds == PipelineSpec => PicturesOnTime
<1>1. PipelineIInv => SteadyLag /\ TimeForEveryPicture
  BY PictureAndTime DEF PipelineIInv, TimeForEveryPicture
<1>2. PipelineIInv /\ [PipelineNext]_pipelineVars =>
        [session' = session /\ due' # due
           => Head(vframe_info).timestamp = due]_pipelineVars
  <2> SUFFICES ASSUME PipelineIInv, [PipelineNext]_pipelineVars,
                      session' = session, due' # due
               PROVE  Head(vframe_info).timestamp = due
    OBVIOUS
  <2>1. DownloadFrame
    <3>1. ~ResetVideo
      BY DEF ResetVideo, PipelineIInv, Typed
    <3> QED
      BY <3>1 DEF PipelineNext, pipelineVars, RenderVideo, NothingToDownload, DownloadFails,
                  VideoSleep, Stopped
  <2>2. vframe_info # <<>>
    BY <2>1, PictureAndTime DEF DownloadFrame, PipelineIInv
  <2>3. Head(vframe_info) = vframe_info[1]
    BY <2>2 DEF PipelineIInv, Typed
  <2> QED
    BY <2>2, <2>3 DEF PipelineIInv, Covered
<1> QED
  BY <1>1, <1>2, PipelineConsistent, PTL DEF PipelineSpec, PicturesOnTime, NoGap


=============================================================================
