-------------------------------- MODULE AvSync --------------------------------
(***************************************************************************)
(* libobs/obs-encoder.c: how an audio encoder that is paired with a video  *)
(* encoder finds its first sample.  Video starts with the first frame that *)
(* is not older than the first audio; audio then starts where video did:   *)
(* receive_video, receive_audio, buffer_audio.  The thread of video and    *)
(* that of audio read each other's fields without a lock.  A field is read *)
(* and written whole; first_raw_ts is written before first_received.       *)
(*                                                                         *)
(* A sample is its number.  Time is counted in ticks, Period of them to a  *)
(* sample; a time stamp of 0 means that there is none.                     *)
(***************************************************************************)
EXTENDS Integers, SequencesExt

CONSTANTS
  Period,        (* ticks between two samples                               *)
  Chunk,         (* samples that arrive at once                             *)
  framesize,     (* samples that are encoded at once                        *)
  FrameInterval, (* ticks between two frames of video                       *)
  Starts,        (* when the first frame may be taken                       *)
  MaxSamples, MaxSessions

ASSUME AvSyncAssumption ==
  /\ {Period, Chunk, framesize, FrameInterval, MaxSamples, MaxSessions}
       \subseteq Nat \ {0}
  /\ Starts \subseteq Nat \ {0}

VARIABLES
  audio,       (* the audio encoder; `buffer`: audio_input_buffer           *)
  video,       (* start_ts of the video encoder                             *)
  audioPc,     (* where the thread of audio is                              *)
  sample,      (* the first sample of the next chunk                        *)
  frame,       (* when the next frame was taken                             *)
  encoded,     (* history: the samples given to the encoder                 *)
  dropped,     (* history: the chunk that was not pushed                    *)
  session

media    == <<sample, frame>>
syncVars == <<audio, video, audioPc, media, encoded, dropped, session>>

\* pair_encoders: one audio encoder is paired with the video encoder, the others
\* are not.
SyncInit ==
  /\ audio \in [first_received : {FALSE}, first_raw_ts : {0}, start_ts : {0},
                paired : BOOLEAN, buffer : {<<>>}]
  /\ video = 0
  /\ audioPc = "idle"
  /\ sample = 1 /\ frame \in Starts
  /\ encoded = <<>> /\ dropped = <<>>
  /\ session = 1

-----------------------------------------------------------------------------
(* The chunk that arrives.                                                 *)

TimeOf(s) == s * Period
Data      == [i \in 1 .. Chunk |-> sample + i - 1]
Timestamp == TimeOf(sample)
EndTs     == TimeOf(sample + Chunk)

\* Mutant: the sample after the start of video is the first one.
RoundUp(v, a) == (v - a + Period - 1) \div Period

\* calc_offset_size: how many samples lie between a and v.
Offset(v, a) == (v - a) \div Period

Without(samples, n) == SubSeq(samples, n + 1, Len(samples))

-----------------------------------------------------------------------------
(* The thread of video: receive_video.                                     *)

\* Mutant: any frame will do once there is audio.
AnyFrame == audio.first_received

\* It waits for audio that is not younger than the frame.
AudioIsThere == audio.first_received /\ audio.first_raw_ts <= frame

ReceiveVideo ==
  /\ video = 0
  /\ frame <= TimeOf(MaxSamples)
  /\ video' = IF audio.paired => AudioIsThere THEN frame ELSE 0
  /\ frame' = frame + FrameInterval
  /\ UNCHANGED <<audio, audioPc, sample, encoded, dropped, session>>

-----------------------------------------------------------------------------
(* The thread of audio: receive_audio.                                     *)

BeginAudio ==
  /\ audioPc = "idle"
  /\ sample + Chunk - 1 <= MaxSamples
  /\ audioPc' = "buffer"
  /\ audio' = IF audio.first_received THEN audio
              ELSE [audio EXCEPT !.first_raw_ts = Timestamp,
                                 !.first_received = TRUE, !.buffer = <<>>]
  /\ UNCHANGED <<video, media, encoded, dropped, session>>

\* Mutant: one frame at a time.
SendOneFrame(samples, start_ts) ==
  LET one == IF Len(samples) < framesize THEN 0 ELSE framesize
  IN  /\ encoded' = encoded \o SubSeq(samples, 1, one)
      /\ audio' = [audio EXCEPT !.buffer = Without(samples, one),
                                !.start_ts = start_ts]

\* The samples that fill frames are encoded, the others stay.
SendAudioData(samples, start_ts) ==
  LET full == (Len(samples) \div framesize) * framesize
  IN  /\ encoded' = encoded \o SubSeq(samples, 1, full)
      /\ audio' = [audio EXCEPT !.buffer = Without(samples, full),
                                !.start_ts = start_ts]

EndAudio == /\ audioPc = "buffer" /\ audioPc' = "idle"
            /\ sample' = sample + Chunk
            /\ UNCHANGED <<video, frame, session>>

\* A paired encoder that has not started.
Waits == audio.start_ts = 0 /\ audio.paired

\* Video has not started, or starts later than the chunk ends.
TooEarly ==
  /\ Waits
  /\ video = 0 \/ EndTs <= video
  /\ audio' = [audio EXCEPT !.buffer = @ \o Data]
  /\ EndAudio
  /\ UNCHANGED <<encoded, dropped>>

\* Video starts within the chunk.
StartInChunk ==
  /\ Waits
  /\ video # 0 /\ Timestamp <= video /\ video < EndTs
  /\ SendAudioData(Without(Data, Offset(video, Timestamp)), video)
  /\ EndAudio
  /\ UNCHANGED dropped

\* start_from_buffer.
BufferFrom ==
  IF audio.first_raw_ts < video
  THEN Without(audio.buffer, Offset(video, audio.first_raw_ts))
  ELSE audio.buffer

\* Video started before the chunk: what is buffered is used, and the chunk is not.
StartFromBuffer ==
  /\ Waits
  /\ video # 0 /\ video < Timestamp
  /\ SendAudioData(BufferFrom, video)
  /\ dropped' = Data
  /\ EndAudio

\* An encoder that is not paired starts with its first sample.
StartAlone ==
  /\ audio.start_ts = 0 /\ ~audio.paired
  /\ SendAudioData(audio.buffer \o Data, Timestamp)
  /\ EndAudio
  /\ UNCHANGED dropped

Continue ==
  /\ audio.start_ts # 0
  /\ SendAudioData(audio.buffer \o Data, audio.start_ts)
  /\ EndAudio
  /\ UNCHANGED dropped

-----------------------------------------------------------------------------

\* Mutant: the start of the last session stays.
KeepStart(encoder) == [encoder EXCEPT !.first_received = FALSE]

\* obs_encoder_shutdown.
Shut(encoder) == [encoder EXCEPT !.first_received = FALSE, !.start_ts = 0]

\* Both encoders are stopped, opened again and paired or not.
Restart ==
  /\ session < MaxSessions /\ session' = session + 1
  /\ audioPc = "idle"
  /\ \E paired \in BOOLEAN :
       audio' = [Shut(audio) EXCEPT !.paired = paired, !.buffer = <<>>]
  /\ video' = 0
  /\ encoded' = <<>> /\ dropped' = <<>>
  /\ UNCHANGED <<audioPc, media>>

SyncNext ==
  \/ ReceiveVideo
  \/ BeginAudio
  \/ TooEarly \/ StartInChunk \/ StartFromBuffer \/ StartAlone \/ Continue
  \/ Restart

SyncSpec == SyncInit /\ [][SyncNext]_syncVars

-----------------------------------------------------------------------------
(* Properties.                                                             *)

\* Types; less than a frame of audio stays behind once audio has started.
SyncTypeOK ==
  /\ audio.first_received \in BOOLEAN /\ audio.paired \in BOOLEAN
  /\ {audio.first_raw_ts, audio.start_ts, video, sample, frame} \subseteq Nat
  /\ audio.start_ts # 0 => Len(audio.buffer) < framesize
  /\ Len(encoded) % framesize = 0

\* How much later the k-th encoded sample was taken than it will be heard.
Late(k) == TimeOf(encoded[k]) - (audio.start_ts + (k - 1) * Period)

\* The samples behind the chunk that was not pushed come one chunk too soon.
Shift(s) == IF dropped # <<>> /\ s > Last(dropped) THEN Chunk * Period ELSE 0

\* Every sample is heard when it was taken, to less than a sample, whichever of
\* video and audio is ahead.  The exception is buffer_audio's `goto skip_push`:
\* when audio starts from its buffer the chunk at hand is lost, and everything
\* behind it is heard one chunk too soon.
InSyncButForAChunk ==
  \A k \in DOMAIN encoded :
    LET late == Late(k) - Shift(encoded[k]) IN -Period < late /\ late <= 0

\* Paired encoders count time from the same instant, in every session.
SameZero == audio.paired /\ encoded # <<>> => audio.start_ts = video
=============================================================================
