# A verification development for the streaming core of tblive

tblive is a live-streaming client built on OBS Studio: `src/libobs` is the
engine, `src/plugins` the sources, encoders and outputs, `src/obs` the Qt
application. This directory holds TLA+ models of the engine's concurrent core,
configurations with which TLC checks them on small instances, and theorems that
TLAPS proves for every instance.

Each module is translated from the C source. Above every action stands the
function it models; `PROJECT.json` maps each definition to its lines.

## 1. Inventory

The engine is a pipeline of threads that meet in a few shared structures:

```
 tick_sources ─ render ─ download      video cache          encoders       interleaver      send queue
 [graphics thread, obs-video.c] ──▶ [video thread] ──▶ receive_video ──▶ obs-output.c ──▶ rtmp-stream.c ──▶ network
 [capture threads] ──▶ obs-source.c ──▶ [audio thread] ──▶ receive_audio ──┘    │            [send thread]
                                                                        delay / reconnect threads
```

| component | code | state | operations | hard because |
|---|---|---|---|---|
| video frame cache | `media-io/video-io.c` | ring of frames, `available_frames`, semaphore, inputs | lock/unlock frame, `video_output_cur_frame`, connect, disconnect, stop | frame read outside the mutex, full cache, callbacks that disconnect, shutdown |
| frame pipeline | `obs-video.c`, `obs.c` | double-buffered textures with flags, `vframe_info_buffer` | render, stage, download, sleep, reset | pictures and times in different queues, failed downloads |
| RTMP send queue | `rtmp-stream.c` | packet queue, drop state, stop event, flags | `rtmp_stream_data`, `send_thread`, stop, `init_connect` | congestion, lost connection, stop at any moment |
| stream life cycle | `obs-output.c`, `rtmp-stream.c` | `active`, `connecting`, `stopping`, reconnect state, thread handles | start, stop, `signal_stop`, reconnect | four threads that join, detach and restart each other |
| interleaver | `obs-output.c` | `interleaved_packets`, offsets, `received_*` | `interleave_packets`, start offsets | two encoder threads, audio and video start apart |
| output delay | `obs-output-delay.c` | `delay_data`, `active_delay_ns`, flags | push, pop, start, stop, cleanup | restart refs, both encoder threads pop |
| encoder | `obs-encoder.c` | callbacks, `active`, pairing, `destroy_on_stop` | add/remove callback, receive, `full_stop`, destroy | callbacks that remove themselves, lock order, A/V pairing |
| signals | `callback/signal.c` | callback list, `signalling` | connect, disconnect, signal | disconnect from inside a signal, nested signals |
| references | `obs-internal.h`, `obs.c`, `obs-source.c` | strong and weak counts | addref, release, `weak_get_ref` | the last release races with a weak upgrade |
| source activation | `obs-source.c`, `obs-scene.c`, `obs-source-transition.c` | `show_refs`, `activate_refs`, scene items | activate, deactivate, add and remove child | nested trees changed while rendered |
| async frames | `obs-source.c` | `async_frames`, `async_cache` | output, get, release frame | capture thread against graphics thread |
| audio | `media-io/audio-io.c`, `obs-audio.c`, `obs-source.c` | mix buffers, buffering ticks, source audio queues | `audio_thread`, `audio_callback`, add buffering | late audio shifts every source |
| threads and buffers | `util/threading-posix.c`, `util/circlebuf.h` | events, semaphores, ring buffer | wait, signal, push, pop | timed waits, wrap and growth |
| hotkeys | `obs-hotkey.c` | bindings, pressed state | inject, query thread, callbacks | thread against user interface |
| UI outputs, task pool | `src/obs` | stream state of the window, queue of tasks | start, stop, signals | signals arrive on other threads |
| settings, properties, profiler, graphics, capture, codecs, librtmp, UI layout | rest | — | — | pure data, I/O or third-party; not modelled |

What makes each component correct is stated as the properties of its module,
and for the components not modelled yet in the plan below. The hazards, each at
its line, are listed in `PROJECT.json`.

## 2. Plan

Most important first: what decides whether pictures and packets arrive, then who
may start and stop whom, then the object model.

1. `VideoOutput` with `FrameQueue`: video frame cache. *Done, with proofs.*
2. `FramePipeline`: how pictures meet their timestamps. *Done, with proofs.*
3. `RtmpSendQueue`: packets on their way to the network. *Done, with proofs.*
4. `ObjectRefs`: reference counts and lookup. *Done, with proofs.*
5. `Interleave`: the order in which the muxer gets packets. *Done, with proofs.*
6. `StreamOutput`: who starts, stops and restarts a stream. *Done, with proofs.*
7. `Encoder` and `AvSync`: an encoder that several outputs share, and how its
   audio meets its video. *Done, both with proofs, in one module.*
8. `OutputDelay`: a stream that is sent later than it is encoded. *Done, with proofs.*
9. `SignalHandler`: callbacks that come and go while they are called. *Done, with proofs.*
10. `AsyncFrames`: the pictures of a camera or a decoder on their way to the
    screen. *Done, with proofs.*
11. `SourceActivation` (`show_refs`, `activate_refs` over a tree of scenes and
    transitions).
12. `AudioIO` (`audio-io.c`, `obs-audio.c`): catching up, buffering ticks.
13. `Circlebuf` and `OsEvent` (`util`): pure functions against a sequence, and
    timed waits. Then hotkeys and the outputs of the user interface.

## 3. Modules

### VideoOutput, FrameQueue, MCVideoOutput, VideoOutputProofs

`video-io.c`. Variables carry the names of `struct video_output`. Actions are
the critical sections of `data_mutex`: `SkipFrame` and `LockFrame` are the two
outcomes of `video_output_lock_frame`, `UnlockFrame` is
`video_output_unlock_frame`; the video thread goes round `Wake`, `CheckStop`,
`PickFrame`, `BeginPass`, `OfferFrame`*, `EndPass`, `FinishFrame`, and `Abandon`
is the return of a loop that found `stop`. `input_mutex` is held from
`BeginPass` to `EndPass`; it is recursive, so a callback may disconnect its own
input (`OfferFrameAndRemove`, which is what `full_stop` of an encoder does).
`SetStop`, `PostStop` and `Close` are `video_output_stop` and
`video_output_close`; `GraphicsExit` is the end of `obs_video_thread`.

Time is counted in frame intervals. A slot holds `ts`, `count` and `pic`: the
interval it is stamped with, how long it is shown, and the picture in it, `Torn`
while it is being copied. `emitted` and `served` are history.

`FrameQueue` is the abstract promise: a bounded FIFO of pictures, each shown for
some intervals, whose youngest entry is stretched when there is no room.
`ImplementsFrameQueue` is the refinement of it.

`InputsServed` joins three properties of what comes out: every interval is put
out, a stop ends both threads, and an input misses a frame only if another one
removed itself earlier in the same pass, which is a limit of the code
(`MissedOnlyBehindRemoval`).

### FramePipeline, MCFramePipeline, VideoOutputProofs

`obs-video.c`, one turn of `obs_video_thread` in three steps: `RenderVideo` (all
stages of `render_video`), `DownloadFrame` or one of its early returns,
`VideoSleep`. A texture is the tick of the picture in it. `SteadyLag` says by
how many ticks a picture and its timestamp miss each other: none with gpu
conversion; two without, because `stage_output_texture` takes the pointer of the
output texture for its flag (line 289) and stages two surfaces that were never
drawn; and one less for every failed map, for the rest of the session, because
the time of the lost picture stays in `vframe_info_buffer`. `NoGap` is what
`VideoOutput` assumes of the clock of its producer. `PicturesOnTime` is the
conjunction of these, with `TimeForEveryPicture`: a picture that is put out never
finds the buffer of times empty.

### RtmpSendQueue, MCRtmpSendQueue, Filtering, PacketProofs, FilteringProofs

`rtmp-stream.c` from `rtmp_stream_data` to the socket. A packet is its number of
arrival and its kind. `AddVideo` is the whole of `add_video_packet`:
`check_to_drop_frames`, `drop_frames` and the comparison with `min_priority`.
The sender's `Wake`, `TakePacket`, `Send`, `SendFails`, `FreePackets`,
`Signalled`, `EndThread` are the statements of `send_thread`; the same actions
with `flush` and `sendlast` are `send_remaining_packets`. `Reconnect` is what
`init_connect` and `init_send` reset. Time is counted in packets, so
`drop_threshold` is a number of packets.

`ResumePriority` speaks of sessions with one drop pass, because that is as far as
the code keeps its word: `drop_frames` (line 746) overwrites `min_priority` with the
priority of the present pass. If a first pass dropped a LOW frame and a second one
drops nothing or only DISPOSABLE frames, a DISPOSABLE frame is sent after the lost
LOW one, against the comment of `obs-encoder.h:70`.

`Filtering` has the one operator `Passing`: what is left when every element is
taken out of a queue and some are put back. `drop_frames` does so (`Kept`), and so
does the end of a signal (`SignalHandler!Remaining`); `clean_cache` comes to the same.

### ObjectRefs, MCObjectRefs, ObjectRefsProofs

The counts of `obs-internal.h` as `obs-source.c` uses them, with the list of
`obs.c`. An owner is one variable that may hold a strong and a weak reference.
Each atomic operation is an action: the upgrade reads the count (`Upgrade`,
`ReadFound`) and swaps it later (`Swap`, `SwapFails`); the release of the last
reference goes on to `RemoveContext` (under `sources_mutex`), `FreeSource` and
`DropControl`. `EnumFinds` and `EnumRetains` are a callback of
`obs_enum_sources` that keeps the source; `Retainers` names the owners that do.
`revived` remembers that one did so after the last reference was gone: from then
on the program uses freed memory and nothing is claimed but `GoneForGood` and
`Freed`. `OBSAdvAudioCtrl` is such a callback: it keeps a source it got from
`obs_enum_sources` with `obs_source_addref`, against `obs.h:480`, and may so hold
a source that is being destroyed. `Safe` joins the three invariants that hold
before that: `StrongKeepsAlive`, `NoUseAfterFree` and `DestroyedOnce`.

### Interleave, MCInterleave (proofs in PacketProofs)

`interleave_packets` of `obs-output.c`. Each arrival of a packet is one action,
since `interleaved_mutex` is held throughout; the actions `AwaitKeyframe`,
`Collect`, `StartTooEarly`, `StartPrunedAway`, `Start` and `Continue` are the
ways through the function. The buffer and the operators on it (`Insert`,
`Pruned`, `ClosestAudioIdx`, ...) are the helpers of the C code. A packet holds
its stream (video or the number of a track), `dts`, `key` and `ts`, which stands
for `dts_usec`: system time until the start, then time since the start. The
encoders are the environment: packet n of a stream has system time
`origin + n * Duration`, and an encoder may be ahead of another by `MaxLead`.

`StreamIntact` joins `Monotonic`, `Gapless` and `KeyframeFirst`. Two limits are part
of them. `Monotonic` is checked for one audio track: with several, nothing makes a
packet wait for the other tracks, and `prune_premature_packets` (line 975) computes
`max_diff` over the tracks but compares `diff`, that of the last one. And
`KeyframeFirst` excepts sessions in which `prune_premature_packets` found audio
too late (`late`), since it drops the keyframe and keeps the frames behind it.

`InSync` says how far the zeros of the streams may lie apart in real time. When
audio is there before video, the audio packet closest to the first frame is taken,
so it may begin up to half a packet of audio after the frame; when it comes later,
`prune_premature_packets` allows a frame of video. On the other side an audio packet
may begin a packet before the frame, and by the lead of the video encoder more. The
comment at `obs-output.c:852` promises less, about 23 milliseconds, which is one packet
of AAC, for an audio encoder that another output has started: with the lead of the
video encoder the bound of `InSync` is wider than that.

### StreamOutput, MCStreamOutput, StreamOutputProofs

`obs-output.c` with `rtmp-stream.c`, as threads. `output` and `stream` are the
fields of `struct obs_output` and `struct rtmp_stream` that decide who may do
what; `pc` says at which statement each thread is. The sections of the module are
the threads: the user interface (`obs_output_start`, `obs_output_stop`),
`connect_thread`, `send_thread`, `reconnect_thread`, and `output_reconnect`,
which the second and the third call. Each access to a shared flag is a step, so
the places between `end_data_capture`, `output_reconnect`, `os_event_reset` and
`active = false` are there for the others to get in. `pthread_join` and
`pthread_detach` keep a set of joinable threads: a handle that is joined without
being joinable is undefined behaviour in general and returns at once with glibc;
the model does the latter and remembers it in `bad_join`. `NoBadJoin` speaks of
the time before a connection is lost (`lost`); when a loss meets a stop, the handle
of a thread that has detached itself may be joined.

`rtmp_stream_start` fails when the encoders cannot be opened (`StartFails`, lines
689 to 692). A first start then tells the user. In `reconnect_thread` nobody looks at
the result (`Restart`, `obs-output.c:1583`): `reconnecting` stays set without another
attempt, `obs_output_active` stays true, a stop does not clear it, and so no stream
can be started any more. `abandoned` remembers that this has happened.

`InStep` joins three statements about what the threads agree on. The third,
`StopLasts`, says that a stop lasts, except in three cases that the history
variable `undone` records:

* `output_reconnect` (line 1615) resets the event that a stop has just signalled.
  The stop returns, the user interface shows an idle stream, and it goes on air
  again when the next attempt is due.
* Between `os_event_signal(stop_event)` and the test of `active` in
  `rtmp_stream_stop` the send thread may end. Then nobody ends the capture and the
  output stays active.
* A stop while the stream waits to reconnect sets `stop_event` although no send
  thread is left to reset it. In the next session `rtmp_stream_stop` takes it for a
  stop that is under way and returns at once.

The flags are no locks, and there are moments for which they make no provision. The
blocking steps, connecting, sending, closing, waiting and joining, are not among
them: these meet starts, stops, losses and attempts in every order. The moments are
those of a thread that is about to write a flag or a handle that may no longer be its
own, most of them a few instructions wide. `StartRaces`, `StopRaces`, `LossRaces` and
`RetryRaces` name them, the model goes on through them, and `races` counts how often
somebody acted in one. `ThreadsInOrder`, `InStep` and `Progress` speak of the time
before the first. What goes wrong then:

* A start between `end_data_capture` and `reconnecting = true` of a lost session
  (`BetweenStreams`), when `obs_output_active` is false: two connect threads, that of
  the user and later that of the reconnect thread, on one RTMP session.
* A start while a connect thread is at its last two statements (`detach`,
  `clearConnecting`): it detaches the new thread and clears the new thread's
  `connecting`. Likewise `ClearStreaming` clears `active` of the new session, and a
  send thread that gave up resets a stop event that is not for it (`resetStop`).
* A stop while a connect thread is at `signalStart` or at those two statements: it
  joins a thread that has detached itself, and the encoders and the user interface
  are told of a start after the stop. A stop while a reconnect thread is at `restart`
  or `leave`, or a send thread at `retrySend`: the attempt it should end is under way
  or begins behind it.
* A loss before the connect thread has signalled the start (`activate`,
  `signalStart`): `reconnecting`, set by the send thread, is cleared again.
* An attempt that is due, two seconds or more after the loss, while the send thread
  has still not executed its last statements, or the user is between two statements
  of a stop.

### Encoder, MCEncoder, EncoderProofs

`obs-encoder.c` from the side of the outputs. The field `active` of the encoder
is the set of its callbacks, `connected` is its input at the video cache, `open`
is `context.data`. The threads are the outputs (`EnterStart`, `AddCallback`,
`Connect`, `LeaveStart`; `EnterStop`, `RemoveCallback`, `Disconnect`, `Shutdown`),
the owner (`Release`) and the thread of raw media (`Receive`, `Encode`,
`Deliver`, `DeliverStop`, `OwnStop`, `Fail`, `FailShutdown`, `Leave`). Three
mutexes are variables: `init_mutex`, `callbacks_mutex` and the `input_mutex` of
the cache, each recursive. An output with a delay stops from inside the callback
(`DeliverStop`), the others from their own thread.

`Connect` may fail: `video_output_connect` refuses when the input cannot be set up
(`video-io.c:356`), and `add_connection` does not look at the result, so the encoder
counts as active and its outputs capture without getting anything. `unfed` remembers
it; the next first callback connects again.

`OpenWhileEncoding` and `Served` (together `OpenAndServed`), `NoUseAfterDestroy` and
`CallsReturn` each name the case in which the code breaks them:

* An output that captures may have no callback (`shut`): the encoder was closed under
  it, by another output that stopped between its initialization and its start, or by
  a failure, after which the encoder still counts as initialized. `shut` holds just
  these outputs, from the closing until they initialize the encoder anew.
* The encoder may be in use and not connected: an input that failed (`unfed`).
* A release in the middle of a call (`early`), a delayed stop that meets another stop
  (`own`) and a failure (`failed`) are not safe from a use after the destruction.
* A callback that stops an output, or fails, waits for `init_mutex` with
  `callbacks_mutex`, the reverse of the usual order.

Apart from these they hold.

### AvSync, MCAvSync (proofs in EncoderProofs)

The same file from the side of the data: `receive_video`, `receive_audio`,
`buffer_audio`. A sample is its number, so that `InSyncButForAChunk` can compare
when a sample was taken with when it will be heard. The exception in its name is
`goto skip_push`: when audio starts from its buffer, the chunk at hand is not
pushed, and all that follows is heard one chunk (1024 samples) early. It happens
whenever the first chunk that finds video started is younger than the first frame.

Sessions end and begin for both encoders together. An audio encoder that is paired
with one video encoder and used with another one as well, so that it goes on while its
partner restarts, is not covered.

### OutputDelay, MCOutputDelay (proofs in EncoderProofs)

`obs-output-delay.c` with the parts of `obs-output.c` that look at its fields.
`delay_data` holds packets, starts and stops; either encoder's thread goes round
`PushPacket` and then `PopPacket` until `NothingDue` or `Preserve`, and processes
what it popped after it has given up `delay_mutex`: `ProcessPacket`,
`ProcessStart`, or `Stop` to `SignalStop`. Those stop steps are
`obs_output_actual_stop`, which the user's `StopNow` and the connect thread that
fails (`ConnectFails`, thread `net`) take as well. A time stamp is kept as its age,
so the model has no clock to bound; packets of one tick that follow each other are
one item, because nothing here tells them apart. The user and the network act when
every thread rests or waits (`Settled`); what the user has begun then meets the
steps of the others. An attempt to reconnect that fails may be followed by another
one (`RetryLater`) or be the last (`ConnectFails`), whatever `reconnect_retry_max` is.

`SentAsAsked` joins two properties. Each packet remembers whether the user wanted it when it was pushed; so
`NothingUnasked` can say that a start and a stop cut the stream where they were
made; `DelayKept` says that what is sent waited for as long as was promised. Both, and
`RestartKept`, speak of the time until a second event is popped while one is
processed, or a thread that was blocked pops with its old time, whose difference
underflows (`astray`). The model goes on from there as the code does: two stops close
one capture or wait for each other's callbacks, two captures overlap, and the queue is
sent at once. Of such states `DelayTypeOK` promises only types and the order of time.

Threads do wait for each other in this code, and no property says otherwise. A delayed
stop that is due while the stream connects joins the connect thread inside the
callbacks of an encoder; if the connection fails, its thread takes the mutex of those
callbacks to end the capture, and both wait for ever (`Stop` against `Detach` of
`net`). Two stops that are processed by the two encoders' threads at once may each
wait for the other to leave its callbacks (`Detach` against `Detach`).

### SignalHandler, MCSignalHandler, SignalHandlerProofs

`callback/signal.c`, one signal. `stack` is the recursion: one frame per
`signal_handler_signal` in progress, with the index its loop stands at. While a
callback runs, its thread may do anything to the signal; other threads wait for
`mutex`. `Signal`, `Skip`, `Call`, `Return`, `End` are the statements of
`signal_handler_signal`, `Connect` and `Disconnect` its neighbours. The frames also
keep history: who was connected all the time, who was called, whether the callback
that runs was connected when it was called. Two habits of the code show up as
exceptions: a signal inside a signal ends the protection of the outer one
(`EveryoneOnce`), and a callback that is disconnected and connected again in the
same signal is dropped (`StaysConnected`); `ConnectedMeansCalled` joins the two.

### AsyncFrames, MCAsyncFrames, AsyncFramesProofs

`obs-source.c` from `obs_source_output_video` to `obs_source_update_async_video`,
with `async-delay-filter.c` in between. `CacheVideo` is `cache_video` up to the
unlock, with `clean_cache` and `async_texture_changed`; `EndCopy` and `PushFrame`
are the copy outside of the mutex and the end of the call, `DropPicture` the full
queue. `VideoTick` is `async_tick` with `ready_async_frame`, of which `PlayTime`,
`CountDue` and `Taken` are the loop; time stamps are integers modulo `W`, so that
the subtractions underflow where those of the code do. `GetFrame`, `FilterFree`,
`FilterVideo` and `Upload` are the render thread, which holds one frame at a time;
the filter holds as many as its delay lasts.

`clean_cache` is `Counted` and `Passing` (of `Filtering`): every unused entry gets one
call older, and the stale ones leave.

A frame is an address. Its count is in `refs`, and 0 means freed memory, which the
next allocation may return. `FramesOwned` accounts for every reference: whoever
will give one back is a term of `Owed`. Its exception is `UploadFails`: when the
texture cannot be made, `obs_source_update_async_video` returns without giving the
frame back, and the cache counts it as used for ever (`lost`).

One thread delivers pictures, as the sources of this repository do. Two would not
be safe: the reference that the copy holds is given back before the frame is
queued, and a call for the other size in between frees it.


## 4. Runs

| run | question | bounds, and why they suffice |
|---|---|---|
| `video_cache` | safety, refinement, progress and shutdown of the cache | 3 slots: full, drained, wrapped and one in between; 6 intervals: two laps; counts 1 and 2: on time and late; two inputs of which one removes itself |
| `frame_pipeline` | lag between pictures and times | 8 ticks: the pipe fills in 4; 2 failures, 2 sessions, so that a failure and a reset follow each other; both conversion paths |
| `send_queue` | what is queued, dropped, sent and freed, and that it leaves | 6 packets and a threshold of 3: the queue needs 5 packets before anything is dropped, so one drop pass and a packet after it; then a session of 2 packets on the event and the semaphore that the first one left |
| `object_refs` | safety and reclamation of references, and what may revive a source | 3 owners: one destroys while one looks up or enumerates and one upgrades |
| `interleave` | order, completeness, synchrony and the first keyframe | 1 track, 5 packets each, any offset of the encoders, lead of 2 frames, 2 sessions |
| `stream` | who starts, stops and restarts a stream, that calls return and attempts end | 2 attempts to reconnect: one fails or cannot begin, another one follows it, and the last one; 6 numbers of threads, which `TypeOK` says suffice; any number of starts, stops and losses. `MaxRaces` is 0: the properties promise nothing behind a race, and with one race TLC does not finish; the theorems are for every `MaxRaces` |
| `encoder` | who may open, close, start, stop and destroy a shared encoder | 3 outputs, of which one has a delay: two that race and one that stops inside a callback; inputs that cannot be connected, one failure, one release |
| `av_sync` | how audio is cut to start with video | a sample lasts 2 ticks and a frame 5, chunks of 3 and frames of 2 samples: no length divides the next, so every remainder occurs; 24 samples, 3 sessions, paired and not |
| `output_delay` | what a delayed stream sends, when, and when it ends | a delay of 1 tick and ages up to 2: due, not due, and grown by an outage; 3 events that wait, start, stop and start being the shortest sequence in which references can go wrong |
| `delay_restart` | a second start within the delay | the same |
| `signals` | who is called while callbacks come and go | 3 callbacks: one before, at and behind the index; 3 levels: a signal inside, and one inside that; 2 threads |
| `async_frames` | who owns a frame, which one is shown, and that the queue empties | streams of 4 pictures: at the rate of the ticks, above it, with a jump, back to a small time stamp, with a new size; a queue of 3, an unused frame ends after 2 calls, so both limits are met; ticks that are on time or one late; 5 addresses |

`MaxClock`, `MaxTicks`, `MaxFailures`, `MaxLead`, `MaxPackets`, `MaxDts` and `MaxSessions` bound
counters that the code leaves unbounded; they stand in the guards of the actions
that count. `ObjectRefs` needs no bound: the owners bound the counts.
In `Interleave` durations of 3 and 2 make every phase between video and audio
occur; five packets allow a failed start, a second one and packets sent after it.
`MaxAge` bounds in `Tick` how long a stop or an outage lasts, `MaxEvents` how many
starts and stops wait.
`MaxDepth` bounds in `Signal` how deep signals are nested.
`Frames` bounds in `CacheVideo` how many frames live at a time: with the five
addresses of the run there always is a free one. `MaxLost` bounds failed uploads in `UploadFails`. In `AsyncFrames` the wrap is at 64
and a jump is more than 7: a late tick of 6 is none, the third stream has one.

### Fairness

Weak fairness is assumed of threads that have something to execute: the video
thread, the send thread, a copy or a call once begun, a shutdown once started.
The scheduler owes them that. Nothing is assumed of the user, of encoders, of
the network or of the graphics thread's next frame. Strong fairness is used in
one place, for mutexes of `Encoder`.
`Freed` is conditional on lookups not going on for ever, since a pthread mutex
promises no turn.
In `StreamOutput` this includes that an attempt to connect ends (the socket has
timeouts) and that a timed wait ends.
In `Encoder` a thread that waits for a mutex gets it (strong fairness): the thread
of raw media frees `input_mutex` after each frame and waits for the next, which
leaves the others the time of a frame.
In `AsyncFrames` the graphics thread goes on and a copy ends; nobody has to render
the source, and neither the source nor the user has to do anything.

### Findings

One disagreement with a documented promise has a run of its own, which TLC must
find violated. The others are the exceptions that properties of passing runs
name: each is as narrow as TLC allows, and section 3 says which steps lead there.

* `delay_restart`: start, stop and start again within one delay. The first start
  takes the restart reference that was counted for the second
  (`obs-output.c:198`), so the stop ends the capture and the second start is
  thrown away with the queue. `RestartKept` says that this theft is the only way.

## 5. Proofs

`VideoOutputProofs` proves `Spec => []IInv` for every `cache_size`, every set of
inputs and every set of counts, from `VideoAssumption` alone (the cache has a
slot, counts are positive). `IInv` strengthens the checked invariants:

* `TypeOK`;
* `RingOrder`: the occupied slots are consecutive from `first_added`, and
  `last_added` is the youngest. Without it nothing is known about the slot that
  `FreeSlot` names;
* `Timeline`: the occupied slots tile the clock from `emitted` on;
* `OnePostPerFrame`: it excludes that the video thread wakes with no frame;
* `Whole`: every published slot holds a complete picture not newer than its
  timestamp.

`NoTearing` and `Cadence` follow from it: the frame the video thread works on is
`first_added`, which is published because of `OnePostPerFrame`, hence whole and
stamped with `emitted`. The proof has a lemma per action that moves the ring;
steps that leave it alone share `QuietRing`.

`FrameQueueImplemented` is the refinement. The queue of `FrameQueue` is the occupied
part of the ring, read from `first_added` on, so a step that moves the ring moves the
head (`FinishFrameEmits`, when the frame's count is used up), or the tail
(`UnlockFramePushes`); a dropped interval changes the last element alone
(`SkipFrameRepeats`), and locking a slot is hidden (`LockFrameHidden`), since a locked
slot is not yet counted. The emitted picture is whole by `NotTorn`. What the mapping
needs beyond `IInv` is `Offered`: a frame being written carries the clock of the
moment it was locked.

`MissedOnlyBehindRemovalHolds` is the safety part of `InputsServed`. It counts sets,
so its inductive invariant `Passes` says first that those sets are finite and that no
input is connected twice (`video_output_connect` checks that). Then each turn adds
at most one input to those passed by without the frame, and only a turn that removes
the input it serves can leave one out (`TurnPasses`); that removal pays for it.

The end of `VideoOutputProofs` proves both properties of `FramePipeline` for any
lengths of a tick and any number of ticks, failed downloads and resets, from
`PipelineAssumption`. `SteadyLag` alone is far from inductive; `PipelineIInv` adds
`Stages`, which gives the tick in both textures of every stage as a function of the
number of ticks rendered; `Waiting`, by which the waiting times are those of the last
ticks, one for each tick whose picture is still on its way and one more for each
failed download; and `Covered`, by which they tile the clock from `due` to the
present. `PictureAndTime` joins the two queues: a picture comes out of the last stage
exactly from tick 4 on (tick 1 without gpu conversion), when a time waits for it.

`FilteringProofs` says what `Passing` computes, for every queue: the elements kept
have increasing places in it (`PassingPlaces`). The library's induction theorems take
an operator, so this induction is over a set of numbers: every non-empty set of them
has a least element (`LeastNumber`), hence a set with 0 and all successors has them
all (`Induction`). `PassingPrefixes` shows in that way that the recursive function
behind `Passing` exists, and `PassingPlaces` what its values are. `GreatestNumber` and
`Recursion` (a rule for the next value defines a function) are for the proofs that
extend this module.

`PacketProofs` proves the three safety properties of `RtmpSendQueue` for any
kinds of packets, threshold and lengths of sessions, from its assumptions on the
constants. That packets are sent in order is not inductive: the sender holds one
packet, the producer another, and between them `drop_frames` rebuilds the queue.
`Line` therefore orders all of them at once, by what was sent last and what arrived
last. `Counts` bounds the histories, and `Resume` says that `min_priority` is the
memory of what was lost as long as one pass did the dropping. `NothingStranded` is
inductive given these.

`ObjectRefsProofs` proves `GoneForGood` for any owners and callbacks, from
`Counted` (the strong count is the number of strong references less one, and
whoever is in the middle of an upgrade saw it above -1), and `TypeOK` and
`Safe` from `IInv`, which is `Counted` and, until a source was
revived, `Phases`: the control block is referenced by the source until the
destruction is over, one owner at most destroys, and who holds `sources_mutex`
sees a listed source. The invariants by themselves are not inductive: that a
lookup is safe depends on where the destroying owner is.

`PacketProofs` extends `Interleave` as well (its names are kept apart from those of
`RtmpSendQueue`) and proves its type invariant, `Gapless` and `KeyframeFirst` for any
number of tracks, `InSync` and all of `StreamIntact` for one, from
`InterleaveAssumption` alone: any durations, origins, lead and numbers of packets and
sessions. One track is a hypothesis because the properties do not hold of more.

`StreamIntact` speaks of what is sent and says nothing of what waits, so it is not
inductive. `InterleaveInv` adds, for the buffer, that it is sorted, that each stream
is in order and without a gap up to the next packet of its encoder (`Complete`), and
that the time of a packet follows from its number (`Timed`, with other zeros before
the start than after); before the start, what has not been received and that the
first video is a keyframe (`Collecting`); after it, that what waits begins with the
packet to be sent next (`Flows`), that nothing to come is earlier than what was sent
(`Passed`), and that `highest_audio_ts` and `highest_video_ts` are not ahead of the
encoders (`HighestTimes`). A packet goes when the other kind's highest time is past
it; with one track that time belongs to one encoder, and all it will deliver is later
still (`PassesOn`). With two tracks the highest audio time may come from the other
track, which is where the proof, and the code, stop.

The operators have lemmas of their own: `InsertSorts`, `ResortIs` (the recursive
function of `Resort` exists by `Induction`, and sorting the moved packets keeps each
stream in order), `SuffixKeeps` (what is dropped in front leaves no gap), `ClosestIs`
and `PrunedIs`. `StartsNear` is the argument for `InSync`: before the start only one
kind is in the buffer, so the packet that starts it is the only one of its kind, and
a start that prunes it away is no start; otherwise the chosen audio is the closest,
and the audio before and behind it, which `Complete` provides, are not closer.

`StreamOutputProofs` proves the three invariants of `StreamOutput` for any numbers of
threads, of attempts and of races and any failures. `TypeOK` says that there is always
a number for a new thread, which needs enough of them: `SixThreads`. (`FewInUse`: the
numbers in use belong to the three handles, to the thread that the user interface waits
for, and to one thread that is about to end while its handle is already used for the
next one.) The other two have no hypothesis.

No lock makes these invariants true, and no short one is inductive: that a second
connect thread is never created depends on the button, on both events, on the two
`active` flags, on `reconnecting`, on `stopped`, and on where the other three threads
are. `IInv` says so, as long as `races` is 0, in three parts:

* `Typed`.
* `Placed`: which thread is where. A thread that has more to do than to end is the one
  of its handle (`Handled`); a thread that waits for another waits for the last send
  thread (`Joined`); at most one thread is left behind (`OneLeft`). From this
  `OneOfEach` and the number of threads follow. The rest of the invariant need not
  speak of threads any more but of `Con`, `Snd` and `Rcn` only: where the threads of
  the three handles are.
* `Agreed`: what these places, the flags and the button have to do with one another.
  `Alone` is why there is one connect thread: it has a reason to be there, nobody waits
  to connect again, and the last session is over, or nearly. `Waits` and `Reconnects`
  are the same for a reconnect thread; `Captures` and `Losses` for the send thread and
  the encoders; `Starting`, `Shows` and `Signalled` say what the button and the events
  mean; `Unbroken` what holds until a connection is lost, `Lasting` what a stop leaves
  behind unless it is undone; `Awaited`, `LeftAlone` and `Counted` the rest.

When an attempt could not begin (`abandoned`) `Placed` and `Agreed` give way to
`GivenUp`: no thread has anything left to do but to end and the user can do nothing
but stop. Since `reconnecting` is never cleared, nothing leads out of that. Behind a
race only `Typed` is claimed.

The clauses were found from the reachable states of small instances and the steps that
broke them, and checked there as invariants with 0, 1 and 2 attempts before anything
was proved. The proof has one lemma for every action, each in the same order: where the
threads are before and after (from `ConnectMoves`, `SendMoves`, `ReconnectBegins` and
their like, which carry `Placed` over the step), what changes in the flags, and then
the parts of `Agreed` one by one. The lemmas of
`UserStart`, `UserStop`, `SendFails` and `WaitTimedOut` are those that need to know
that the step is no race.

`StopLasts` follows from `Lasting` (no attempt is under way), `Waits` and `Reconnects`
(nobody is to make one); `ShowsTheTruth` from `Shows` and `Starting`.

`EncoderProofs` proves the three invariants of `Encoder` for any set of outputs, of
which any may have a delay, from `EncoderAssumption` (the threads are distinct). Its
`IInv` has five parts, each preserved on the strength of those before it: `Typed`;
`Held`, which says where in the code each mutex is held; `Open`, which relates
`connected`, `unfed`, `data`, `active` and the callbacks, with the places where the holder of
`init_mutex` has them differ; `Fed`, which adds outputs between their initialization
and their start; and `Fate`, which says how the outputs leave after the release.
`Fate` is what the checked invariant lacks: that the last output destroys alone
follows from nobody being able to add a callback behind it.

The same module extends `AvSync` too, whose names are kept apart from those of
`Encoder` for that, and proves its three invariants from `AvSyncAssumption`, for any
rates, sizes of chunks and frames, and starts.
`InSyncButForAChunk` speaks of encoded samples only. `SyncInv` says the same of those
that wait for a whole frame and of the sample that comes next (`Running`), with the
loss of one chunk in its place (`OnTime`); before the start, that the buffer holds
consecutive samples from `first_raw_ts` to the next chunk (`Buffered`); and that a
paired video never starts before `first_raw_ts` (`Paired`), which is what the order of
the unlocked reads in `receive_video` has to guarantee. `SendAudioData` keeps the
places of samples whatever the size of a frame (`Sent`, `Playing`), so the cut of the
first chunk is all that rounding touches (`OffsetIs`), and a lost chunk moves what
follows by exactly its length (`ChunkDropped`).

`EncoderProofs` proves the three invariants of `OutputDelay` as well, from
`DelayAssumption` (a delay shorter than the greatest age), for any delay, greatest age
and number of events; it extends `OutputDelay` by the side of the other two, with names
of its own. `DelayConsistent` says `DelayShaped` of every state: types, and the order
of the queue (`ShapedKept`). Until `astray` it says `Orderly`, which is `DelayTyped`
and `Calm`. `Calm` has six parts that need each other:
`Turns` and `Closes` say which threads can be in a start or a stop at once, and that a
capture that is not delayed any more is being closed by exactly one thread, with the
other encoder out of its callbacks; `Leftover`, what one capture can leave in the queue
for the next; `Dense`, that while the delay is active there is a packet of every tick
from the age of the delay to the present, so that what is due is no younger than
promised, even when a stop or the end of an outage is what comes due; `Wanted`, that
what follows each start in the queue, up to the next event, was asked for; and
`Counted`, that there are as many restart references as starts that wait or are being
processed, or one less while the start that began the capture is still to come.
`SentAsAsked` rests on `Dense` and `Wanted`, `RestartKept` on `Counted` and `Turns`.
The lemmas before them say what appending, taking out and
ageing do to the order, the density and the counts of any queue.

`SignalHandlerProofs` proves the safety of a signal for any callbacks, threads and
depth, from `SignalAssumption`. `ConnectedMeansCalled` speaks of the end of a signal
and says nothing before it; `OnTheWay` does: the stable callbacks that a signal has
called are those whose place in the array is in front of its index. It holds of a
signal as long as none has ended inside it, because only then is the array not erased
under the index, only marked (`Disconnect`) or extended (`Connect`). `Entries` says
that the unmarked places are the connected callbacks. At the end of a signal
`PassingPlaces` gives what the sweep leaves. Every `Disconnect` during a signal comes
from the thread that holds `mutex` (`LockIs`), which is why `SafeToFree` holds.


`AsyncFramesProofs` proves the three safety properties of `AsyncFrames` for any
addresses, time stamps, limits, ticks and streams, from `AsyncAssumption`.
`FramesOwned` speaks of sequences and counts of references; `IInv` says the same of one
frame at a time: it has at most one user (`Users`), as many references as it has claims
(`Claims`), and the cache has an entry of it as long as one of its users has none
(`Lent`). The step that needs most is `CacheVideo`: a frame of the cache or a new one,
nobody else uses it, and what `clean_cache` destroys was lent to nobody.

The order in `Timely` needs `Ordered`: the pictures on their way rise from what was
shown, over the frame in hand and those that the filter keeps (in the one order before
the filter has run and in the other after it), to the current frame and the queue, and
the one that is being copied comes last. What a filter still keeps after it was removed
is in that order as well, but need not come after what was shown: it is freed and never
uploaded. The rest of `Timely` is about one tick. `SteadyTime` shows by `Induction`
that steady time stamps leave the play time of the loop as it begins, and `TickTakes`
that what waits is then not due, and that a frame behind the first is taken only if the
play time reaches it in this tick. That says nothing of how far ahead of the source the
play time may be: an early tick takes a picture when it is due, not when it is new, and
there is no bound on what it skips that would hold for all lengths of ticks.
`QueueEmpties` stays with TLC.


Only model-checked: liveness, because TLAPS does not reason about fairness here. That is
`Drains`, `Freed`, `Progress`, `CallsReturn`, `QueueEmpties` and, of `InputsServed`,
that every interval is put out and that a stop ends both threads. Every other property
of a passing run is proved; each theorem's hypotheses, where it has any besides the
assumptions on the constants, are named above (`SixThreads`, one track).
The claim of `delay_restart` has no theorem, since it does not hold.

## 6. Not modelled

Pixel formats, scaling and codecs (data), graphics backends and shaders, capture
plugins and operating system interfaces, librtmp and the bytes on the wire,
settings files, translations, the layout of the user interface, the profiler,
and third-party code under `deps` and `third_party`. `PROJECT.json` lists each
with its reason, and the components of the plan that have no module yet.
