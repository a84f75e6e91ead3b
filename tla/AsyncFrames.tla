---------------------------- MODULE AsyncFrames ----------------------------
(***************************************************************************)
(* The frames of an asynchronous source (libobs/obs-source.c): a camera or *)
(* a decoder delivers pictures from a thread of its own, each is copied    *)
(* into a frame of the source's cache and queued; the graphics thread      *)
(* takes the one that is due at each tick, passes it through an async      *)
(* delay filter (plugins/obs-filters/async-delay-filter.c) and uploads it. *)
(* async_mutex protects the cache and the queue; the copy, the filter and  *)
(* the upload run outside of it, and a count keeps their frame alive.      *)
(*                                                                         *)
(* Time stamps are integers modulo W, the 2^64 of the code.  A frame whose *)
(* count is 0 is freed memory, and the next allocation may return it.      *)
(***************************************************************************)
EXTENDS Integers, Sequences, FiniteSets, SequencesExt, Filtering

CONSTANTS
  Frames,      (* addresses; they bound how many frames live at a time      *)
  None,
  W,           (* time stamps are computed modulo W                         *)
  Near,        (* 2000000 ns in ready_async_frame                           *)
  MaxTsVar,    (* MAX_TS_VAR, 2 s                                           *)
  MaxAsync,    (* MAX_ASYNC_FRAMES, 30                                      *)
  MaxUnused,   (* MAX_UNUSED_FRAME_DURATION, 5                              *)
  Ticks,       (* times between two ticks of the graphics thread            *)
  Delay,       (* the interval of the delay filter                          *)
  MaxLost,     (* bounds the uploads that fail                              *)
  Streams      (* what the source may deliver: sequences of pictures        *)

ASSUME AsyncAssumption ==
  /\ None \notin Frames
  /\ {W, Near, MaxTsVar, MaxAsync, MaxUnused, Delay} \subseteq Nat \ {0}
  /\ Ticks \subseteq 1..(W-1)
  /\ \A s \in Streams : s \in Seq(Range(s)) /\ \A i \in DOMAIN s : s[i].ts \in 1..(W-1)

VARIABLES
  async_cache,      (* the frames of the source with used and unused_count  *)
  async_frames,     (* the queue                                            *)
  cur_async_frame,
  last_frame_ts,    (* the play time, 0 before the first picture            *)
  cache_size,       (* async_cache_width, height and format                 *)
  unbuffered,       (* OBS_SOURCE_FLAG_UNBUFFERED, set by the user          *)
  refs,             (* of each frame                                        *)
  pic,              (* the picture in each frame                            *)
  stream,           (* what the source delivers                             *)
  source,           (* the thread that delivers it                          *)
  graphics,         (* the graphics thread                                  *)
  filter,           (* the delay filter and the frames that it holds        *)
  lost,             (* history: frames the graphics thread never gave back  *)
  shown             (* history: the picture uploaded last                   *)

queue == <<async_cache, async_frames, cur_async_frame, last_frame_ts, cache_size>>
memory == <<refs, pic>>
vars == <<queue, unbuffered, memory, stream, source, graphics, filter, lost, shown>>

NoPicture == [n |-> 0, ts |-> 0, size |-> None]

\* A filter that was just created: its update asks for a reset.
NewFilter == [on |-> FALSE, held |-> <<>>, reached |-> FALSE, reset |-> TRUE,
              last_ts |-> 0]

Init ==
  /\ async_cache = <<>> /\ async_frames = <<>> /\ cur_async_frame = None
  /\ last_frame_ts = 0 /\ cache_size = None
  /\ unbuffered = FALSE
  /\ refs = [f \in Frames |-> 0] /\ pic = [f \in Frames |-> NoPicture]
  /\ stream \in Streams
  /\ source = [pc |-> "idle", frame |-> None, n |-> 0]
  /\ graphics = [pc |-> "tick", frame |-> None]
  /\ filter = NewFilter
  /\ lost = {} /\ shown = 0

Minus(a, b) == (a - b) % W
Stamp(f) == pic[f].ts
Cached(cache) == {cache[i].frame : i \in DOMAIN cache}

-----------------------------------------------------------------------------
(* The cache.                                                              *)

\* remove_async_frame for each frame of fs.
Unused(cache, fs) ==
  [i \in DOMAIN cache |->
     [cache[i] EXCEPT !.used = cache[i].used /\ cache[i].frame \notin fs]]

Decref(r, fs) == [f \in Frames |-> IF f \in fs THEN r[f] - 1 ELSE r[f]]

\* Mutant: freeing the cache frees its frames, whoever uses them.
FreeAll(r, fs) == [f \in Frames |-> IF f \in fs THEN 0 ELSE r[f]]

\* free_async_cache drops the reference that the cache has of each frame.
FreedCache(r, fs) == Decref(r, fs)

TextureChanged(size) == cache_size # size

\* clean_cache: one more call without use; too many of them end the frame.
Counted(cache) ==
  [i \in DOMAIN cache |->
     IF cache[i].used THEN cache[i]
     ELSE [cache[i] EXCEPT !.unused_count = @ + 1]]
Stale(entry) == ~entry.used /\ entry.unused_count = MaxUnused

\* Frames that are destroyed whatever their count.
Destroyed(r, fs) == [f \in Frames |-> IF f \in fs THEN 0 ELSE r[f]]

NewEntry(f) == [frame |-> f, used |-> TRUE, unused_count |-> 0]

\* The first entry that is not used, or 0.
FreeEntry(cache) ==
  LET free == {i \in DOMAIN cache : ~cache[i].used}
  IN  IF free = {} THEN 0 ELSE CHOOSE i \in free : \A j \in free : i <= j

\* Mutant: one frame too many.
OverloadedLate == Len(async_frames) > MaxAsync

Overloaded == Len(async_frames) >= MaxAsync

\* obs_source_output_video is called with the next picture.
Picture == stream[source.n]
NextPicture == stream[source.n + 1]
Deliverable == source.pc = "idle" /\ source.n < Len(stream)

\* cache_video when the queue is full: cache and queue are emptied.
DropPicture ==
  /\ Deliverable
  /\ Overloaded
  /\ source' = [source EXCEPT !.n = @ + 1]
  /\ refs' = FreedCache(refs, Cached(async_cache))
  /\ async_cache' = <<>> /\ async_frames' = <<>> /\ cur_async_frame' = None
  /\ last_frame_ts' = 0
  /\ UNCHANGED <<cache_size, unbuffered, pic, stream, graphics, filter, lost, shown>>

\* cache_video up to the unlock: a frame of the cache or a new one.
CacheVideo ==
  /\ Deliverable
  /\ ~Overloaded
  /\ LET size  == NextPicture.size
         fresh == TextureChanged(size)
         old   == IF fresh THEN <<>> ELSE async_cache
         i     == FreeEntry(old)
         taken == IF i = 0 THEN old
                  ELSE [old EXCEPT ![i].used = TRUE, ![i].unused_count = 0]
         all   == Counted(taken)
         cache == Passing(all, {e \in Range(all) : ~Stale(e)})
         r     == Destroyed(IF fresh THEN FreedCache(refs, Cached(async_cache))
                            ELSE refs,
                            Cached(all) \ Cached(cache))
         f     == IF i # 0 THEN old[i].frame ELSE CHOOSE g \in Frames : r[g] = 0
     IN  /\ i = 0 => \E g \in Frames : r[g] = 0
         /\ source' = [pc |-> "copy", frame |-> f, n |-> source.n + 1]
         /\ cache_size' = size
         /\ async_cache' = IF i # 0 THEN cache ELSE Append(cache, NewEntry(f))
         /\ refs' = [r EXCEPT ![f] = IF i # 0 THEN @ + 1 ELSE 2]
         /\ pic' = [pic EXCEPT ![f] = IF i # 0 THEN [@ EXCEPT !.n = 0, !.ts = 0]
                                      ELSE [n |-> 0, ts |-> 0, size |-> size]]
         /\ async_frames' = IF fresh THEN <<>> ELSE async_frames
         /\ cur_async_frame' = IF fresh THEN None ELSE cur_async_frame
  /\ UNCHANGED <<last_frame_ts, unbuffered, stream, graphics, filter, lost, shown>>

\* copy_frame_data has run; the count of the copy is given back.
EndCopy ==
  /\ source.pc = "copy"
  /\ pic' = [pic EXCEPT ![source.frame].n = source.n,
                        ![source.frame].ts = Picture.ts]
  /\ refs' = Decref(refs, {source.frame})
  /\ source' = IF refs'[source.frame] = 0
               THEN [source EXCEPT !.pc = "idle", !.frame = None]
               ELSE [source EXCEPT !.pc = "push"]
  /\ UNCHANGED <<queue, unbuffered, stream, graphics, filter, lost, shown>>

\* The end of obs_source_output_video.
PushFrame ==
  /\ source.pc = "push"
  /\ async_frames' = Append(async_frames, source.frame)
  /\ source' = [source EXCEPT !.pc = "idle", !.frame = None]
  /\ UNCHANGED <<async_cache, cur_async_frame, last_frame_ts, cache_size,
                 unbuffered, memory, stream, graphics, filter, lost, shown>>

-----------------------------------------------------------------------------
(* The tick of the graphics thread.                                        *)

OutOfBounds(last, ts) ==
  IF ts < last THEN last - ts > MaxTsVar ELSE ts - last > MaxTsVar

\* Mutant: the play time stands still.
NoElapsed(last, elapsed) == [i \in 1..Len(async_frames) |-> last]

\* The loop of ready_async_frame: the play time when the i-th frame of the queue is
\* looked at.  A time stamp that jumps takes the play time with it.
PlayTime(last, elapsed) ==
  LET ts(i) == Stamp(async_frames[i])
      t[i \in 1..Len(async_frames)] ==
        IF i = 1 THEN (last + elapsed) % W
        ELSE IF Minus(ts(i), ts(i - 1)) > MaxTsVar
        THEN Minus(ts(i), Minus(ts(i - 1), IF i = 2 THEN last ELSE t[i - 1]))
        ELSE t[i - 1]
  IN  t

\* A frame is due when the play time has passed it, and not only just.
Due(last, ts) == last > ts /\ last - ts >= Near

\* Mutant: a tick looks at the first frame only.
FirstDue(t) == IF Due(t[1], Stamp(async_frames[1])) THEN 1 ELSE 0

\* How many frames at the head of the queue are due.
CountDue(t) ==
  LET due == {k \in 0..Len(async_frames) :
                \A i \in 1..k : Due(t[i], Stamp(async_frames[i]))}
  IN  CHOOSE k \in due : \A j \in due : j <= k

\* What a tick takes: how many frames leave the queue, the last of which is taken,
\* and the new play time.
Taken(elapsed) ==
  LET n    == Len(async_frames)
      head == Stamp(async_frames[1])
      t    == PlayTime(last_frame_ts, elapsed)
      k    == CountDue(t)
  IN  CASE n = 0                            -> [count |-> 0, last |-> last_frame_ts]
        [] n # 0 /\ last_frame_ts = 0       -> [count |-> 1, last |-> head]
        [] n # 0 /\ last_frame_ts # 0 /\ unbuffered
                                            -> [count |-> n, last |-> last_frame_ts]
        [] n # 0 /\ last_frame_ts # 0 /\ ~unbuffered
             /\ OutOfBounds(last_frame_ts, head)
                                            -> [count |-> 1, last |-> head]
        [] OTHER -> [count |-> k, last |-> IF k = n THEN t[n] ELSE t[k + 1]]

\* obs_source_video_tick: what the last tick took and nobody asked for is given
\* back, and the frame that is due becomes the current one.
VideoTick ==
  /\ graphics.pc = "tick"
  /\ \E elapsed \in Ticks :
       LET t    == Taken(elapsed)
           skip == {async_frames[i] : i \in 1..(t.count - 1)}
       IN  /\ async_cache' = Unused(async_cache, skip \cup {cur_async_frame})
           /\ cur_async_frame' = IF t.count = 0 THEN None
                                 ELSE async_frames[t.count]
           /\ async_frames' = SubSeq(async_frames, t.count + 1, Len(async_frames))
           /\ last_frame_ts' = t.last
  /\ graphics' = [graphics EXCEPT !.pc = "render"]
  /\ UNCHANGED <<cache_size, unbuffered, memory, stream, source, filter, lost, shown>>

-----------------------------------------------------------------------------
(* Rendering.                                                              *)

\* The source is on no display: nothing renders it in this frame.
NotRendered ==
  /\ graphics.pc = "render"
  /\ graphics' = [graphics EXCEPT !.pc = "tick"]
  /\ UNCHANGED <<queue, unbuffered, memory, stream, source, filter, lost, shown>>

\* obs_source_get_frame.
GetFrame ==
  /\ graphics.pc = "render"
  /\ cur_async_frame' = None
  /\ IF cur_async_frame = None
     THEN /\ graphics' = [graphics EXCEPT !.pc = "tick"]
          /\ UNCHANGED refs
     ELSE /\ refs' = [refs EXCEPT ![cur_async_frame] = @ + 1]
          /\ graphics' = [pc    |-> IF filter.on THEN "filter" ELSE "upload",
                          frame |-> cur_async_frame]
  /\ UNCHANGED <<async_cache, async_frames, last_frame_ts, cache_size, unbuffered,
                 pic, stream, source, filter, lost, shown>>

\* obs_source_release_frame.
ReleaseFrame(f) ==
  /\ refs' = Decref(refs, {f})
  /\ async_cache' = IF refs'[f] = 0 THEN async_cache ELSE Unused(async_cache, {f})

\* The filter starts anew when it was told to or the time stamps jump.
MustReset ==
  LET ts == Stamp(graphics.frame)
  IN  \/ filter.reset
      \/ ts < filter.last_ts \/ ts - filter.last_ts > MaxTsVar \div 2

\* free_video_data in async_delay_filter_video, one frame after the other.
FilterFree ==
  /\ graphics.pc = "filter" /\ MustReset /\ filter.held # <<>>
  /\ ReleaseFrame(Head(filter.held))
  /\ filter' = [filter EXCEPT !.held = Tail(@)]
  /\ UNCHANGED <<async_frames, cur_async_frame, last_frame_ts, cache_size,
                 unbuffered, pic, stream, source, graphics, lost, shown>>

\* The rest of async_delay_filter_video: the frame waits, and once the delay is
\* reached the oldest one goes on.
FilterVideo ==
  /\ graphics.pc = "filter" /\ ~(MustReset /\ filter.held # <<>>)
  /\ LET ts      == Stamp(graphics.frame)
         held    == Append(filter.held, graphics.frame)
         reached == \/ filter.reached /\ ~MustReset
                    \/ Minus(ts, Stamp(held[1])) >= Delay
     IN  /\ filter' = [filter EXCEPT !.reset = FALSE, !.last_ts = ts,
                                     !.reached = reached,
                                     !.held = IF reached THEN Tail(held) ELSE held]
         /\ graphics' = IF reached THEN [pc |-> "upload", frame |-> held[1]]
                        ELSE [pc |-> "tick", frame |-> None]
  /\ UNCHANGED <<queue, unbuffered, memory, stream, source, lost, shown>>

\* The end of obs_source_update_async_video: the frame is uploaded and given back.
Upload ==
  /\ graphics.pc = "upload"
  /\ shown' = pic[graphics.frame].n
  /\ ReleaseFrame(graphics.frame)
  /\ graphics' = [pc |-> "tick", frame |-> None]
  /\ UNCHANGED <<async_frames, cur_async_frame, last_frame_ts, cache_size,
                 unbuffered, pic, stream, source, filter, lost>>

\* The texture cannot be made or updated: the function returns early.  MaxLost bounds
\* how often.
UploadFails ==
  /\ graphics.pc = "upload" /\ Cardinality(lost) < MaxLost
  /\ lost' = lost \cup {graphics.frame}
  /\ graphics' = [pc |-> "tick", frame |-> None]
  /\ UNCHANGED <<queue, unbuffered, memory, stream, source, filter, shown>>

-----------------------------------------------------------------------------
(* The user.                                                               *)

SetFlags ==
  /\ unbuffered' = ~unbuffered
  /\ UNCHANGED <<queue, memory, stream, source, graphics, filter, lost, shown>>

\* filter_mutex is held while the filter runs.
AddFilter ==
  /\ ~filter.on /\ filter.held = <<>> /\ graphics.pc # "filter"
  /\ filter' = [NewFilter EXCEPT !.on = TRUE]
  /\ UNCHANGED <<queue, unbuffered, memory, stream, source, graphics, lost, shown>>

RemoveFilter ==
  /\ filter.on /\ graphics.pc # "filter"
  /\ filter' = [filter EXCEPT !.on = FALSE]
  /\ UNCHANGED <<queue, unbuffered, memory, stream, source, graphics, lost, shown>>

\* async_delay_filter_remove: the user's thread frees what the filter holds.
FilterRemoved ==
  /\ ~filter.on /\ filter.held # <<>>
  /\ ReleaseFrame(Head(filter.held))
  /\ filter' = [filter EXCEPT !.held = Tail(@)]
  /\ UNCHANGED <<async_frames, cur_async_frame, last_frame_ts, cache_size,
                 unbuffered, pic, stream, source, graphics, lost, shown>>

-----------------------------------------------------------------------------

Deliver == DropPicture \/ CacheVideo \/ EndCopy \/ PushFrame
Render  == NotRendered \/ GetFrame \/ FilterFree \/ FilterVideo \/ Upload
User    == SetFlags \/ AddFilter \/ RemoveFilter \/ FilterRemoved

Next == Deliver \/ VideoTick \/ Render \/ UploadFails \/ User

\* The graphics thread goes on, and a copy ends.  Nobody has to render the source,
\* and neither the source nor the user has to do anything.
Fairness == WF_vars(VideoTick \/ Render) /\ WF_vars(EndCopy \/ PushFrame)

Spec == Init /\ [][Next]_vars /\ Fairness

-----------------------------------------------------------------------------
(* Properties.                                                             *)

\* The type invariant.
TypeOK ==
  /\ async_cache \in Seq([frame : Frames, used : BOOLEAN,
                          unused_count : 0..(MaxUnused - 1)])
  /\ async_frames \in Seq(Frames) /\ cur_async_frame \in Frames \cup {None}
  /\ last_frame_ts \in 0..(W-1)
  /\ refs \in [Frames -> 0..2]
  /\ source.pc \in {"idle", "copy", "push"}
  /\ (source.pc = "idle") = (source.frame = None)
  /\ graphics.pc \in {"tick", "render", "filter", "upload"}
  /\ (graphics.pc \in {"filter", "upload"}) = (graphics.frame # None)
  /\ filter.held \in Seq(Frames)
  /\ Len(async_frames) <= MaxAsync

Known(f) == IF f = None THEN <<>> ELSE <<f>>

\* The frames in use, by whom does not matter.
InUse == Known(source.frame) \o async_frames \o Known(cur_async_frame)
         \o Known(graphics.frame) \o filter.held

\* Those that are in use without a reference: they live by that of the cache.
Borrowed == (IF source.pc = "push" THEN Known(source.frame) ELSE <<>>)
            \o async_frames \o Known(cur_async_frame)

\* The references that someone still has to give back.
Owed(f) ==
  Cardinality({i \in DOMAIN async_cache : async_cache[i].frame = f})
  + (IF source.pc = "copy" /\ source.frame = f THEN 1 ELSE 0)
  + (IF graphics.frame = f THEN 1 ELSE 0)
  + Cardinality({i \in DOMAIN filter.held : filter.held[i] = f})
  + (IF f \in lost THEN 1 ELSE 0)

\* No picture is copied over another one that is queued, filtered or uploaded, and
\* none is copied into, read from or queued in freed memory or a frame of another
\* size: a frame has one user at a time, the cache counts as used what has one and
\* nothing else (but for what a failed upload has lost), and the references of a
\* frame are those that someone will give back (cache_video, clean_cache and
\* free_async_cache against get_frame, release_frame and the delay filter).
FramesOwned ==
  /\ IsInjective(InUse)
  /\ \A f \in Frames : refs[f] = Owed(f)
  /\ Range(Borrowed) \subseteq Cached(async_cache)
  /\ \A e \in Range(async_cache) : e.used = (e.frame \in Range(InUse) \cup lost)
  /\ source.pc = "copy" => pic[source.frame].size = Picture.size

\* Queued frames whose time stamps neither go back nor jump.
Steady(q) ==
  \A i \in 1..(Len(q) - 1) : Stamp(q[i + 1]) - Stamp(q[i]) \in 0..MaxTsVar

LongestTick == CHOOSE t \in Ticks : \A u \in Ticks : u <= t

\* "Ensures that cached frames are displayed on time" (obs_source_get_frame).  The
\* pictures are shown in the order in which they were delivered; while time stamps
\* are steady no frame that waits after a tick is due, whatever the play time did,
\* and a tick takes a frame behind the first only if the play time reaches it in that
\* tick, unless frames are not to be buffered.
Timely ==
  [][/\ shown' # shown => shown' > shown
     /\ (graphics.pc = "tick" /\ graphics'.pc = "render"
           /\ ~unbuffered /\ Steady(async_frames)) =>
          /\ async_frames' # <<>> =>
               ~Due(last_frame_ts', Stamp(async_frames'[1]))
          /\ cur_async_frame' # None =>
               \/ cur_async_frame' = async_frames[1]
               \/ Stamp(cur_async_frame') + Near <= last_frame_ts + LongestTick]_vars

\* Once the source has delivered its last picture the queue empties: the play time
\* never stops before a frame that waits (ready_async_frame advances last_frame_ts at
\* each tick, whatever the time stamps do), so every picture is taken or skipped.
QueueEmpties == <>[](async_frames = <<>>)
=============================================================================
