----------------------------- MODULE Interleave -----------------------------
(***************************************************************************)
(* libobs/obs-output.c: interleave_packets merges the packets of the video *)
(* encoder and of the audio encoders of an output into one sequence for    *)
(* the muxer.  Until both kinds have arrived packets are only collected;   *)
(* then the start is pruned, the time stamps are made to start at zero,    *)
(* and from there on each packet that arrives may let one packet go.       *)
(*                                                                         *)
(* The encoder threads enter one at a time (interleaved_mutex), so each    *)
(* arrival is one action.  A packet's ts is its dts_usec: before the start *)
(* system time, after it the time since the first packet of its stream.    *)
(* A dts counts packets of the stream; what the division by a timebase     *)
(* rounds off is left out.                                                 *)
(***************************************************************************)
EXTENDS Integers, SequencesExt

CONSTANTS
  NumTracks,     (* num_audio_mixes                                        *)
  VideoDuration, (* of a packet, in units of time                          *)
  AudioDuration,
  Origins,       (* system times of dts 0: functions on Streams            *)
  MaxLead,       (* how far one encoder may be ahead of another            *)
  MaxDts,        (* bound: packets of a stream                             *)
  MaxSessions    (* bound: sessions                                        *)

Video   == -1
Tracks  == 0 .. NumTracks - 1
Streams == {Video} \cup Tracks

ASSUME InterleaveAssumption ==
  /\ NumTracks \in Nat \ {0}
  /\ VideoDuration \in Nat \ {0} /\ AudioDuration \in Nat \ {0}
  /\ Origins \subseteq [Streams -> Nat]
  /\ MaxLead \in Nat /\ MaxDts \in Nat /\ MaxSessions \in Nat \ {0}

VARIABLES
  interleaved_packets, (* sorted by ts                                     *)
  received_audio, received_video,
  highest_audio_ts, highest_video_ts,
  offset,         (* video_offset and audio_offsets                        *)
  stopped,
  origin, next,   (* encoders: system time of dts 0, dts of the next packet*)
  out,            (* history: the last packet handed to the muxer          *)
  sent,           (* history: the last dts sent of each stream, or -1      *)
  late,           (* history: prune_premature_packets found audio too late *)
  nth_session     (* history: number of the session                        *)

encoderVars == <<origin, next>>
interleaveVars ==
  <<interleaved_packets, received_audio, received_video, highest_audio_ts,
    highest_video_ts, offset, stopped, encoderVars, out, sent, late, nth_session>>

Duration(s) == IF s = Video THEN VideoDuration ELSE AudioDuration

\* The system time that do_encode gives a packet.
SystemTime(s, dts) == origin[s] + dts * Duration(s)

NoPacket == [stream |-> Video, dts |-> -1, key |-> TRUE, ts |-> 0]

Started == received_audio /\ received_video

-----------------------------------------------------------------------------
(* The buffer.                                                             *)

\* find_first_packet_type_idx: 0 when there is none.
FirstIdx(q, s) == SelectInSeq(q, LAMBDA p : p.stream = s)
First(q, s) == q[FirstIdx(q, s)]
Missing(q) == {s \in Streams : FirstIdx(q, s) = 0}

\* Mutant: a packet goes to the end.
InsertLast(q, p) == Append(q, p)

\* insert_interleaved_packet: behind the packets of the same time.
Insert(q, p) ==
  LET later == {i \in DOMAIN q : p.ts < q[i].ts}
  IN InsertAt(q, Min(later \cup {Len(q) + 1}), p)

\* apply_interleaved_packet_offset.
Relative(p, off) ==
  [p EXCEPT !.ts = (p.dts - off[p.stream]) * Duration(p.stream)]

\* resort_interleaved_packets.
Resort(q) ==
  LET sorted[n \in 0 .. Len(q)] ==
        IF n = 0 THEN <<>> ELSE Insert(sorted[n - 1], q[n])
  IN sorted[Len(q)]

\* discard_unused_audio_packets.
NotBefore(ts, q) ==
  LET kept == {i \in DOMAIN q : q[i].ts >= ts}
  IN SubSeq(q, Min(kept \cup {Len(q) + 1}), Len(q))

Distance(t, u) == IF t > u THEN t - u ELSE u - t

\* Mutant: the oldest audio packet is as good as the closest.
OldestAudioIdx(q) == Min({i \in DOMAIN q : q[i].stream # Video})

\* get_interleaved_start_idx: the audio packet closest to the first video.
ClosestAudioIdx(q) ==
  LET audio == {i \in DOMAIN q : q[i].stream # Video}
      d(i) == Distance(q[i].ts, First(q, Video).ts)
  IN Min({i \in audio : \A j \in audio : d(i) <= d(j)})

StartIdx(q) == Min({FirstIdx(q, Video), ClosestAudioIdx(q)})

\* prune_premature_packets: audio starts too long after video.  The code
\* compares the difference of the last track.
Premature(q) ==
  First(q, NumTracks - 1).ts - First(q, Video).ts > VideoDuration

\* prune_interleaved_packets, when no stream is missing.
Pruned(q) ==
  IF Premature(q)
  THEN SubSeq(q, Max({FirstIdx(q, s) : s \in Streams}) + 1, Len(q))
  ELSE SubSeq(q, StartIdx(q), Len(q))

-----------------------------------------------------------------------------

InterleaveInit ==
  /\ interleaved_packets = <<>>
  /\ received_audio = FALSE /\ received_video = FALSE
  /\ highest_audio_ts = 0 /\ highest_video_ts = 0
  /\ offset = [s \in Streams |-> 0]
  /\ stopped = FALSE
  /\ origin \in Origins
  /\ next = [s \in Streams |-> 0]
  /\ out = NoPacket
  /\ sent = [s \in Streams |-> -1]
  /\ late = FALSE
  /\ nth_session = 1

\* has_higher_opposing_ts.
HasHigherOpposing(p, audio_ts, video_ts) ==
  IF p.stream = Video THEN audio_ts > p.ts ELSE video_ts > p.ts

\* send_interleaved: at most one packet; one that is popped after a stop is
\* not handed on.
SendInterleaved(q, audio_ts, video_ts) ==
  IF ~HasHigherOpposing(Head(q), audio_ts, video_ts)
  THEN interleaved_packets' = q /\ UNCHANGED <<out, sent>>
  ELSE /\ interleaved_packets' = Tail(q)
       /\ IF stopped
          THEN UNCHANGED <<out, sent>>
          ELSE /\ out' = Head(q)
               /\ sent' = [sent EXCEPT ![Head(q).stream] = Head(q).dts]

\* set_higher_ts.
HigherTs(highest, ts) == Max({highest, ts})

AudioTs(p) == IF p.stream = Video THEN highest_audio_ts
                                  ELSE HigherTs(highest_audio_ts, p.ts)
VideoTs(p) == IF p.stream = Video THEN HigherTs(highest_video_ts, p.ts)
                                  ELSE highest_video_ts

\* The first video packet must be a keyframe.
Acceptable(p) == received_video \/ p.stream # Video \/ p.key

\* It is not: it is dropped, with the audio before it.
AwaitKeyframe(p) ==
  /\ ~Acceptable(p)
  /\ interleaved_packets' = NotBefore(p.ts, interleaved_packets)
  /\ UNCHANGED <<received_audio, received_video, highest_audio_ts,
                 highest_video_ts, offset, out, sent, late>>

\* check_received.
ReceivesAudio(p) == received_audio \/ p.stream # Video
ReceivesVideo(p) == received_video \/ p.stream = Video

Collected(p) == ~Started /\ Acceptable(p)

\* One of the kinds has not arrived yet.
Collect(p) ==
  /\ Collected(p)
  /\ ~(ReceivesAudio(p) /\ ReceivesVideo(p))
  /\ interleaved_packets' = Insert(interleaved_packets, p)
  /\ received_audio' = ReceivesAudio(p)
  /\ received_video' = ReceivesVideo(p)
  /\ highest_audio_ts' = AudioTs(p) /\ highest_video_ts' = VideoTs(p)
  /\ UNCHANGED <<offset, out, sent, late>>

\* Both kinds are there, but a track is missing: prune_premature_packets says
\* so before anything is pruned.
StartTooEarly(p) ==
  LET q == Insert(interleaved_packets, p)
  IN /\ Collected(p)
     /\ ReceivesAudio(p) /\ ReceivesVideo(p)
     /\ Missing(q) # {}
     /\ interleaved_packets' = q
     /\ received_video' = (Video \notin Missing(q))
     /\ received_audio' = (Video \in Missing(q))
     /\ highest_audio_ts' = AudioTs(p) /\ highest_video_ts' = VideoTs(p)
     /\ UNCHANGED <<offset, out, sent, late>>

\* The pruning has left a stream without packets: initialize_interleaved_packets
\* goes back to waiting.
StartPrunedAway(p) ==
  LET q == Insert(interleaved_packets, p)
      r == Pruned(q)
  IN /\ Collected(p)
     /\ ReceivesAudio(p) /\ ReceivesVideo(p)
     /\ Missing(q) = {}
     /\ Missing(r) # {}
     /\ interleaved_packets' = r
     /\ received_video' = (Video \notin Missing(r))
     /\ received_audio' = (Missing(r) \subseteq {Video})
     /\ highest_audio_ts' = AudioTs(p) /\ highest_video_ts' = VideoTs(p)
     /\ late' = (late \/ Premature(q))
     /\ UNCHANGED <<offset, out, sent>>

\* Mutant: the highest times are not moved with the packets.
NotRebased(highest, p) == highest

Rebased(highest, p) == highest - p.ts

\* initialize_interleaved_packets succeeds: the streams start at zero, each with
\* its first packet.  The highest audio time is moved by the first track only.
Start(p) ==
  LET q == Insert(interleaved_packets, p)
      r == Pruned(q)
      off == [s \in Streams |-> First(r, s).dts]
      audio_ts == Rebased(AudioTs(p), First(r, 0))
      video_ts == Rebased(VideoTs(p), First(r, Video))
      moved == [i \in DOMAIN r |-> Relative(r[i], off)]
  IN /\ Collected(p)
     /\ ReceivesAudio(p) /\ ReceivesVideo(p)
     /\ Missing(q) = {} /\ Missing(r) = {}
     /\ offset' = off
     /\ received_audio' = TRUE /\ received_video' = TRUE
     /\ highest_audio_ts' = audio_ts /\ highest_video_ts' = video_ts
     /\ late' = (late \/ Premature(q))
     /\ SendInterleaved(Resort(moved), audio_ts, video_ts)

\* From then on.
Continue(p) ==
  LET r == Relative(p, offset)
  IN /\ Started
     /\ highest_audio_ts' = AudioTs(r) /\ highest_video_ts' = VideoTs(r)
     /\ SendInterleaved(Insert(interleaved_packets, r), AudioTs(r), VideoTs(r))
     /\ UNCHANGED <<received_audio, received_video, offset, late>>

\* interleave_packets.
InterleavePacket(p) ==
  \/ AwaitKeyframe(p) \/ Collect(p) \/ StartTooEarly(p)
  \/ StartPrunedAway(p) \/ Start(p) \/ Continue(p)

\* An encoder delivers its next packet; a key frame or not.
Deliver(s, key) ==
  /\ next[s] < MaxDts
  /\ \A t \in Streams :
       SystemTime(s, next[s]) <= SystemTime(t, next[t]) + MaxLead
  /\ s # Video => key
  /\ InterleavePacket([stream |-> s, dts |-> next[s], key |-> key,
                       ts |-> SystemTime(s, next[s])])
  /\ next' = [next EXCEPT ![s] = @ + 1]
  /\ UNCHANGED <<stopped, origin, nth_session>>

\* obs_output_actual_stop; the encoders still call.
StopOutput ==
  /\ ~stopped
  /\ stopped' = TRUE
  /\ UNCHANGED <<interleaved_packets, received_audio, received_video,
                 highest_audio_ts, highest_video_ts, offset, encoderVars, out, sent,
                 late, nth_session>>

\* obs_output_actual_start and then reset_packet_data, for a session on the
\* same encoders (begin_delayed_capture leaves them running).  Only the offset
\* of the first track is reset.
Restart ==
  /\ stopped
  /\ nth_session < MaxSessions
  /\ stopped' = FALSE
  /\ interleaved_packets' = <<>>
  /\ received_audio' = FALSE /\ received_video' = FALSE
  /\ highest_audio_ts' = 0 /\ highest_video_ts' = 0
  /\ offset' = [offset EXCEPT ![Video] = 0, ![0] = 0]
  /\ out' = NoPacket
  /\ sent' = [s \in Streams |-> -1]
  /\ late' = FALSE
  /\ nth_session' = nth_session + 1
  /\ UNCHANGED encoderVars

\* The bounds are reached.
Exhausted ==
  /\ stopped /\ nth_session = MaxSessions
  /\ \E s \in Streams : next[s] = MaxDts
  /\ UNCHANGED interleaveVars

InterleaveNext ==
  \/ \E s \in Streams, key \in BOOLEAN : Deliver(s, key)
  \/ StopOutput \/ Restart \/ Exhausted

InterleaveSpec == InterleaveInit /\ [][InterleaveNext]_interleaveVars

-----------------------------------------------------------------------------
(* Properties.                                                             *)

\* Every variable stays within its type; the buffer is sorted.
InterleaveTypeOK ==
  /\ \A i \in DOMAIN interleaved_packets :
       /\ interleaved_packets[i].stream \in Streams
       /\ interleaved_packets[i].dts \in 0 .. MaxDts
  /\ \A i, j \in DOMAIN interleaved_packets :
       i < j => interleaved_packets[i].ts <= interleaved_packets[j].ts
  /\ received_audio \in BOOLEAN /\ received_video \in BOOLEAN
  /\ stopped \in BOOLEAN
  /\ offset \in [Streams -> 0 .. MaxDts]
  /\ sent \in [Streams -> -1 .. MaxDts]

SendsPacket == out' # out /\ out' # NoPacket

\* send_interleaved: "this ensures that the timestamps are monotonic".  It does
\* with one audio track, although the highest times are moved at the start.
Monotonic == [][SendsPacket => out'.ts >= out.ts]_interleaveVars

\* Once a stream has started, none of its packets is lost or sent twice, and it
\* starts at time zero, whatever was pruned before.
Gapless ==
  [][SendsPacket =>
       LET s == out'.stream
       IN IF sent[s] = -1 THEN out'.ts = 0 /\ out'.dts = offset'[s]
                          ELSE out'.dts = sent[s] + 1]_interleaveVars

\* What is taken for time zero differs between streams by this much of real
\* time.
Lag(t) == SystemTime(t, offset[t]) - SystemTime(Video, offset[Video])

\* prune_interleaved_packets: "prunes the first video packet if it's too far
\* away from audio": audio then starts at most a frame after video.  When it was
\* there first the closest packet is taken, half a packet of audio away or less.
AudioNotLate ==
  Started => \A t \in Tracks :
    Lag(t) <= VideoDuration \/ 2 * Lag(t) <= AudioDuration

\* Nor does it start more than a packet before video, beyond the lead that one
\* encoder had over the other.
AudioNotEarly ==
  Started => \A t \in Tracks : -Lag(t) <= AudioDuration + MaxLead

InSync == AudioNotLate /\ AudioNotEarly

\* interleave_packets: "if first video frame is not a keyframe, discard until
\* received": the muxer gets a keyframe first, unless audio came so late that
\* prune_premature_packets has thrown the keyframe away.
KeyframeFirst ==
  [][SendsPacket /\ out'.stream = Video /\ sent[Video] = -1 =>
       out'.key \/ late']_interleaveVars

\* What the muxer gets is a stream: in order, without gaps, from a keyframe on.
StreamIntact == Monotonic /\ Gapless /\ KeyframeFirst
=============================================================================
