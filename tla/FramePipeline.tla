--------------------------- MODULE FramePipeline ---------------------------
(***************************************************************************)
(* libobs/obs-video.c: the graphics thread's way from a rendered picture   *)
(* to a frame with a timestamp.  To keep the GPU busy every stage works on *)
(* what the stage before it made one tick earlier, in the other one of two *)
(* textures; the time of each tick waits in vframe_info_buffer until the   *)
(* picture of that tick has been downloaded.                               *)
(*                                                                         *)
(* A tick is one turn of obs_video_thread: RenderVideo, DownloadFrame,     *)
(* VideoSleep.  A texture is the tick of the picture it shows.  Time is    *)
(* counted in frame intervals.                                             *)
(***************************************************************************)
EXTENDS Integers, Sequences

CONSTANTS
  TickCounts,  (* intervals a tick may take, 1 unless the thread lags      *)
  MaxTicks,    (* bound: ticks of one session                              *)
  MaxFailures, (* bound: downloads that fail in one session                *)
  MaxSessions  (* bound: calls of obs_reset_video                          *)

ASSUME PipelineAssumption ==
  /\ TickCounts \subseteq Nat \ {0}
  /\ MaxTicks \in Nat /\ MaxFailures \in Nat /\ MaxSessions \in Nat

NUM_TEXTURES == 2
Textures == 0 .. NUM_TEXTURES - 1

\* Contents of a texture whose flag is not set, and of a surface that was
\* copied from such a texture.
Empty   == -1
Undrawn == -2

VARIABLES
  gpu_conversion,
  cur_texture,
  textures,       (* render, output, convert textures and copy surfaces    *)
  mapped_surface, (* surface mapped for the processor, or Empty            *)
  vframe_info,    (* vframe_info_buffer: tick, timestamp and count         *)
  video_time,
  tick,           (* history: number of the tick                           *)
  step,           (* where the thread is in its turn                       *)
  frame,          (* history: last frame handed to output_video_data, and  *)
                  (* how many downloads had failed before it               *)
  due,            (* history: first interval not covered by a frame yet    *)
  failures,       (* history: failed downloads                             *)
  session

pipelineVars ==
  <<gpu_conversion, cur_texture, textures, mapped_surface, vframe_info,
    video_time, tick, step, frame, due, failures, session>>

NoFrame == [pic |-> Empty, tick |-> Empty, failed |-> 0]
Blank == [i \in Textures |-> Empty]
BlankTextures == [render |-> Blank, output |-> Blank, convert |-> Blank,
                  copy |-> Blank]

prev_texture == IF cur_texture = 0 THEN NUM_TEXTURES - 1 ELSE cur_texture - 1

\* What obs_init_video finds: zeroed by the allocation or by obs_free_video.
PipelineInit ==
  /\ gpu_conversion \in BOOLEAN
  /\ cur_texture = 0
  /\ textures = BlankTextures
  /\ mapped_surface = Empty
  /\ vframe_info = <<>>
  /\ video_time = 0 /\ tick = 0 /\ step = "render"
  /\ frame = NoFrame /\ due = 0 /\ failures = 0
  /\ session = 1

-----------------------------------------------------------------------------

\* A stage draws the texture made a tick earlier, if it was made, into the
\* current texture of its own.
Drawn(target, source) ==
  IF source[prev_texture] = Empty
  THEN target
  ELSE [target EXCEPT ![cur_texture] = source[prev_texture]]

\* stage_output_texture without gpu conversion takes the pointer to the output
\* texture for the flag that it was drawn.
StagedUnconverted(target, source) ==
  [target EXCEPT ![cur_texture] = IF source[prev_texture] = Empty
                                  THEN Undrawn ELSE source[prev_texture]]

Converted(t) == Drawn(t.convert, t.output)

RenderVideo ==
  /\ step = "render"
  /\ tick < MaxTicks
  /\ textures' =
       [render  |-> [textures.render EXCEPT ![cur_texture] = tick],
        output  |-> Drawn(textures.output, textures.render),
        convert |-> IF gpu_conversion THEN Converted(textures)
                                      ELSE textures.convert,
        copy    |-> IF gpu_conversion
                    THEN Drawn(textures.copy, textures.convert)
                    ELSE StagedUnconverted(textures.copy, textures.output)]
  /\ mapped_surface' = Empty
  /\ step' = "download"
  /\ UNCHANGED <<gpu_conversion, cur_texture, vframe_info, video_time, tick,
                 frame, due, failures, session>>

\* Mutant: the index runs over the end of the arrays.
NextTextureUnwrapped == cur_texture + 1

NextTexture == IF cur_texture + 1 = NUM_TEXTURES THEN 0 ELSE cur_texture + 1

\* download_frame maps the surface copied a tick earlier; the oldest waiting
\* time goes with it into output_video_data.
DownloadFrame ==
  LET info == Head(vframe_info)
  IN /\ step = "download"
     /\ textures.copy[prev_texture] # Empty
     /\ mapped_surface' = prev_texture
     /\ frame' = [pic |-> textures.copy[prev_texture], tick |-> info.tick,
                   failed |-> failures]
     /\ due' = info.timestamp + info.count
     /\ vframe_info' = Tail(vframe_info)
     /\ cur_texture' = NextTexture
     /\ step' = "sleep"
     /\ UNCHANGED <<gpu_conversion, textures, video_time, tick, failures, session>>

\* Nothing has come through the stages yet.
NothingToDownload ==
  /\ step = "download"
  /\ textures.copy[prev_texture] = Empty
  /\ cur_texture' = NextTexture
  /\ step' = "sleep"
  /\ UNCHANGED <<gpu_conversion, textures, mapped_surface, vframe_info,
                 video_time, tick, frame, due, failures, session>>

\* gs_stagesurface_map fails: no frame, and no waiting time is taken.
DownloadFails ==
  /\ step = "download"
  /\ textures.copy[prev_texture] # Empty
  /\ failures < MaxFailures
  /\ failures' = failures + 1
  /\ cur_texture' = NextTexture
  /\ step' = "sleep"
  /\ UNCHANGED <<gpu_conversion, textures, mapped_surface, vframe_info,
                 video_time, tick, frame, due, session>>

Intervals(count) == count

\* video_sleep: on time, or late by some intervals.
VideoSleep(count) ==
  /\ step = "sleep"
  /\ vframe_info' = Append(vframe_info, [tick |-> tick, timestamp |-> video_time,
                                         count |-> Intervals(count)])
  /\ video_time' = video_time + count
  /\ tick' = tick + 1
  /\ step' = "render"
  /\ UNCHANGED <<gpu_conversion, cur_texture, textures, mapped_surface, frame,
                 due, failures, session>>

\* Mutant: the waiting times outlive the session.
LeftTimes == vframe_info

\* circlebuf_free in obs_free_video.
TimesAfterReset == <<>>

\* The memsets of obs_free_video.
TexturesAfterReset == BlankTextures

\* obs_reset_video: stop_video ends the thread between two turns,
\* obs_free_video clears the pipeline and obs_init_video starts a new thread.
ResetVideo ==
  /\ step = "render"
  /\ session < MaxSessions
  /\ gpu_conversion' \in BOOLEAN
  /\ cur_texture' = 0
  /\ textures' = TexturesAfterReset
  /\ mapped_surface' = Empty
  /\ vframe_info' = TimesAfterReset
  /\ tick' = 0 /\ frame' = NoFrame /\ due' = video_time /\ failures' = 0
  /\ session' = session + 1
  /\ UNCHANGED <<video_time, step>>

Stopped == step = "render" /\ tick = MaxTicks /\ UNCHANGED pipelineVars

PipelineNext ==
  \/ RenderVideo \/ DownloadFrame \/ NothingToDownload \/ DownloadFails
  \/ \E count \in TickCounts : VideoSleep(count)
  \/ ResetVideo \/ Stopped

PipelineSpec == PipelineInit /\ [][PipelineNext]_pipelineVars

-----------------------------------------------------------------------------
(* Properties.                                                             *)

\* Every variable stays within its type.
PipelineTypeOK ==
  /\ gpu_conversion \in BOOLEAN
  /\ cur_texture \in Textures
  /\ \A stage \in DOMAIN textures :
       textures[stage] \in [Textures -> -2 .. MaxTicks]
  /\ mapped_surface \in Textures \cup {Empty}
  /\ \A i \in DOMAIN vframe_info : vframe_info[i].count \in TickCounts
  /\ video_time \in Nat /\ tick \in 0 .. MaxTicks /\ due \in Nat
  /\ step \in {"render", "download", "sleep"}

\* Ticks by which a picture is behind the time it is put out with.  With gpu
\* conversion it has exactly its own time.  Without it two surfaces are copied
\* before anything was drawn: they take the first two times, and every picture
\* gets the time of the tick two later.
Lag == IF gpu_conversion THEN 0 ELSE 2

\* Pictures and times are carried by different queues, and yet the picture of
\* a frame is always the same number of ticks away from its time: the lag of
\* the path, less one tick for every download that failed, for good.  Only the
\* first frames of the path without gpu conversion show no picture.
SteadyLag ==
  LET expected == frame.tick + frame.failed - Lag
  IN frame # NoFrame =>
       frame.pic = IF expected < 0 THEN Undrawn ELSE expected

\* There is a time for every picture that can be downloaded: the buffer is
\* never popped when it is empty.
TimeForEveryPicture ==
  step = "download" /\ textures.copy[prev_texture] # Empty => vframe_info # <<>>

\* What video_output_lock_frame is called with, and VideoOutput takes for
\* granted: frames cover the intervals one after the other without a gap,
\* also when the thread lags and when downloads fail.
NoGap ==
  [][session' = session /\ due' # due
       => Head(vframe_info).timestamp = due]_pipelineVars

\* Pictures, times and the clock stay together through late ticks, failed downloads
\* and resets.
PicturesOnTime == [](SteadyLag /\ TimeForEveryPicture) /\ NoGap
=============================================================================
