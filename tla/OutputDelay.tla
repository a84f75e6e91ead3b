----------------------------- MODULE OutputDelay -----------------------------
(***************************************************************************)
(* libobs/obs-output-delay.c with the parts of obs-output.c it works with: *)
(* a stream that is sent later than it is encoded.  Packets wait in        *)
(* delay_data, and so do the user's starts and stops, so that they take    *)
(* effect between the packets between which they were made.  Whichever     *)
(* thread pushes a packet, that of video or that of audio, also pops what  *)
(* is due, and starts or stops the stream when it pops an event.           *)
(*                                                                         *)
(* A time stamp is kept as its age.  The stream (rtmp-stream.c) is seen    *)
(* from outside: it connects, fails, is lost and is connected to again.    *)
(***************************************************************************)
EXTENDS Integers, Sequences, FiniteSets

CONSTANTS
  delay_sec,   (* ticks; each encoder delivers a packet per tick            *)
  MaxAge,      (* bounds how long a connection takes and an outage lasts    *)
  MaxEvents    (* bounds the starts and stops that wait                     *)

ASSUME DelayAssumption ==
  /\ {delay_sec, MaxAge, MaxEvents} \subseteq Nat \ {0}
  /\ delay_sec < MaxAge

Encoders == {"video", "audio"}
DelayThreads == Encoders \cup {"user", "net"}

VARIABLES
  delay_data,  (* the queue, oldest first                                   *)
  output,      (* the fields of struct obs_output that this file uses       *)
  attached,    (* the encoders that call process_delay                      *)
  stream,      (* what the connection is doing                              *)
  at,          (* where each thread is                                      *)
  dd,          (* what each encoder's thread has popped                     *)
  lag,         (* how old the time is that it works with                    *)
  button,      (* what the user can do next                                 *)
  force,       (* whether the user's stop is obs_output_force_stop          *)
  asked,       (* history: the user's last event in the queue is a start    *)
  stolen,      (* history: a start without a reference has taken one        *)
  astray       (* history: an event was popped while another was processed, *)
               (* or an item that is younger than the time of the thread    *)

past == <<asked, stolen, astray>>
delayVars == <<delay_data, output, attached, stream, at, dd, lag, button, force,
               past>>

Packet(on, cross) == [msg |-> "packet", age |-> 0, on |-> on, cross |-> cross]
Nothing == [Packet(FALSE, FALSE) EXCEPT !.msg = "nothing"]
Event(msg) == [msg |-> msg, age |-> 0, on |-> FALSE, cross |-> FALSE]

DelayInit ==
  /\ delay_data = <<>>
  /\ output \in [delay_active : {FALSE}, delay_capturing : {FALSE},
                 active : {FALSE}, active_delay_ns : {0}, preserve : {FALSE},
                 delay_restart_refs : {0}, reconnecting : {FALSE}]
  /\ attached = {}
  /\ stream = "idle"
  /\ at = [x \in DelayThreads |-> "idle"]
  /\ dd = [e \in Encoders |-> Nothing]
  /\ lag = [e \in Encoders |-> 1]
  /\ button = "start" /\ force = FALSE
  /\ asked = FALSE /\ stolen = FALSE /\ astray = FALSE

\* Thread x goes from one place to another.
Goto(x, from, to) == at[x] = from /\ at' = [at EXCEPT ![x] = to]

\* Where a thread goes on after obs_output_actual_stop or a failed connection.
Back(x) == IF x \in Encoders THEN "pop" ELSE "idle"


\* obs_encoder_stop waits until the encoder's thread has left its callbacks, except
\* in that thread itself.
Quiet(x, e) == x = e \/ at[e] = "idle"

\* A thread that waits for another one.
Blocked(x) ==
  \/ at[x] = "stop" /\ stream \in {"connecting", "failing"}
  \/ at[x] = "detachVideo" /\ ~Quiet(x, "video")
  \/ at[x] = "detachAudio" /\ ~Quiet(x, "audio")

\* Users and networks are slow: they do something when every thread rests or
\* waits, and what a thread then begins meets what they have begun.
Settled == \A x \in DelayThreads : at[x] = "idle" \/ Blocked(x)

\* The thread is in the middle of a start or a stop.
Processing(x) == at[x] \notin {"idle", "pop", "packet", "push", "begin"}

-----------------------------------------------------------------------------
(* A thread of an encoder: process_delay.                                  *)

\* Packets that follow each other within a tick are one.
Pushed ==
  IF delay_data # <<>> /\ delay_data[Len(delay_data)] = Packet(asked, FALSE)
  THEN delay_data ELSE Append(delay_data, Packet(asked, FALSE))

PushPacket(e) ==
  /\ e \in attached /\ lag[e] > 0
  /\ Goto(e, "idle", "pop")
  /\ delay_data' = Pushed
  /\ lag' = [lag EXCEPT ![e] = 0]
  /\ UNCHANGED <<output, attached, stream, dd, button, force, past>>

Oldest == Head(delay_data)

\* pop_packet compares unsigned numbers: a packet that is younger than the time
\* of a thread that had to wait is as good as infinitely old.
Due(e) == \/ Oldest.age < lag[e]
          \/ Oldest.age - lag[e] > output.active_delay_ns

Elapsed(e) == IF Oldest.age < lag[e] THEN MaxAge ELSE Oldest.age - lag[e]

Preserving == output.preserve /\ output.reconnecting

\* While a connection is restored, the delay grows instead.
Preserve(e) ==
  /\ delay_data # <<>> /\ Preserving
  /\ output' = [output EXCEPT !.active_delay_ns = Elapsed(e)]
  /\ Goto(e, "pop", "idle")
  /\ UNCHANGED <<delay_data, attached, stream, dd, lag, button, force, past>>

NothingDue(e) ==
  /\ delay_data # <<>> => ~Preserving /\ ~Due(e)
  /\ Goto(e, "pop", "idle")
  /\ UNCHANGED <<delay_data, output, attached, stream, dd, lag, button, force,
                 past>>

PopPacket(e) ==
  /\ delay_data # <<>> /\ ~Preserving /\ Due(e)
  /\ Goto(e, "pop", Oldest.msg)
  /\ delay_data' = Tail(delay_data)
  /\ LET cross == \E x \in DelayThreads \ {e} : Processing(x)
     IN /\ dd' = IF Oldest.msg = "packet"
                 THEN [dd EXCEPT ![e] = [Oldest EXCEPT !.cross = cross]] ELSE dd
        /\ astray' = (astray \/ Oldest.age < lag[e] \/ (Oldest.msg # "packet" /\ cross))
  /\ UNCHANGED <<output, attached, stream, lag, button, force, asked, stolen>>

\* process_delay_data: a packet is handed on, or dropped when nothing captures.
ProcessPacket(e) ==
  /\ Goto(e, "packet", "pop")
  /\ dd' = [dd EXCEPT ![e] = Nothing]
  /\ UNCHANGED <<delay_data, output, attached, stream, lag, button, force, past>>

-----------------------------------------------------------------------------
(* Starting: obs_output_actual_start.                                      *)

CanBegin == output.delay_active \/ ~output.active

\* Mutant: starts take no references.
KeepRefs == output.delay_restart_refs

\* A start takes a reference if there is one, whether or not it is its own.
RefsAfterStart ==
  IF output.delay_restart_refs > 0 THEN output.delay_restart_refs - 1 ELSE 0

\* Every start but the first of a capture has a reference, which is for itself:
\* there should be as many references as starts in the queue.
Queued(msgs) == Cardinality({i \in DOMAIN delay_data : delay_data[i].msg \in msgs})
StartsWaiting == Queued({"start"})

ActualStart ==
  /\ stream' = IF CanBegin THEN "connecting" ELSE stream
  /\ output' = [output EXCEPT !.delay_restart_refs = RefsAfterStart]
  /\ stolen' = (stolen \/ RefsAfterStart < StartsWaiting)

\* An event DELAY_MSG_START.
ProcessStart(e) ==
  /\ Goto(e, "start", "pop")
  /\ ActualStart
  /\ UNCHANGED <<delay_data, attached, dd, lag, button, force, asked, astray>>

\* reconnect_thread, when the time has passed.
Attempt ==
  /\ Settled
  /\ stream = "waiting"
  /\ ActualStart
  /\ UNCHANGED <<delay_data, attached, at, dd, lag, button, force, asked, astray>>

\* hook_data_capture with a delay.
Hook ==
  /\ output' = [output EXCEPT !.active_delay_ns = delay_sec, !.delay_active = TRUE,
                              !.active = TRUE, !.reconnecting = FALSE,
                              !.preserve = FALSE]
  /\ attached' = Encoders

\* connect_thread calls obs_output_begin_data_capture, which calls
\* begin_delayed_capture; it begins a capture if another stop has just ended the
\* one it connects for, and does nothing while that is being closed.
Connected ==
  /\ Settled
  /\ stream = "connecting" /\ stream' = "live"
  /\ \/ /\ output.delay_active
        /\ output' = [output EXCEPT !.delay_capturing = TRUE,
                                    !.reconnecting = FALSE, !.preserve = FALSE]
        /\ button' = IF output.delay_capturing \/ output.reconnecting THEN button
                     ELSE "stop"
        /\ UNCHANGED attached
     \/ ~output.delay_active /\ ~output.active /\ Hook /\ UNCHANGED button
     \/ /\ ~output.delay_active /\ output.active
        /\ UNCHANGED <<output, attached, button>>
  /\ UNCHANGED <<delay_data, at, dd, lag, force, past>>

\* The connection breaks: end_data_capture and output_reconnect.  Only from here to
\* the end of reconnecting is OBS_OUTPUT_DELAY_PRESERVE of delay_cur_flags read.
Lose ==
  /\ Settled
  /\ stream = "live" /\ output.delay_active
  /\ stream' = "waiting"
  /\ \E preserve \in BOOLEAN :
       output' = [output EXCEPT !.delay_capturing = FALSE, !.reconnecting = TRUE,
                                !.preserve = preserve]
  /\ UNCHANGED <<delay_data, attached, at, dd, lag, button, force, past>>

\* Or there is one, and however many there are: reconnect_retry_max is 20 by default.
RetryLater ==
  /\ Settled
  /\ stream = "connecting" /\ output.reconnecting
  /\ stream' = "waiting"
  /\ output' = [output EXCEPT !.delay_capturing = FALSE]
  /\ UNCHANGED <<delay_data, attached, at, dd, lag, button, force, past>>

\* connect_thread fails: obs_output_signal_stop ends the capture, at the first
\* connection or when no attempt to reconnect is left.  The thread can be joined when
\* it is done.
ConnectFails ==
  /\ Settled
  /\ stream = "connecting"
  /\ stream' = "failing"
  /\ Goto("net", "idle", IF output.active THEN "detachVideo" ELSE "signal")
  /\ output' = [output EXCEPT !.delay_capturing = FALSE, !.delay_active = FALSE,
                              !.reconnecting = FALSE, !.preserve = FALSE]
  /\ UNCHANGED <<delay_data, attached, dd, lag, button, force, past>>

-----------------------------------------------------------------------------
(* Stopping: obs_output_actual_stop.                                       *)

\* Mutant: rtmp_stream_stop leaves the end of the capture to somebody else.
StillCapturing == output.delay_capturing

CapturingAfterStop ==
  output.delay_capturing /\ ~(stream = "live" /\ output.delay_active)

\* info.stop waits for a connect thread, then ends the capture.  The attempts to
\* reconnect are over.
Stop(x) ==
  /\ stream \notin {"connecting", "failing"}
  /\ stream' = "idle"
  /\ Goto(x, "stop",
          IF output.delay_active THEN "decide"
          ELSE IF stream = "live" /\ output.active THEN "detachVideo"
          ELSE "signal")
  /\ output' = [output EXCEPT !.delay_capturing = CapturingAfterStop,
                              !.reconnecting = FALSE, !.preserve = FALSE]
  /\ UNCHANGED <<delay_data, attached, dd, lag, button, force, past>>

Forced(x) == x = "user" /\ force

\* Mutant: restart references are not looked at.
Always(x) == output.delay_active

\* Nobody wants to start again.
LastStop(x) ==
  output.delay_active /\ (Forced(x) \/ output.delay_restart_refs = 0)

Decide(x) ==
  /\ Goto(x, "decide",
          IF LastStop(x) THEN IF output.active THEN "detachVideo" ELSE "signal"
          ELSE IF Forced(x) \/ ~output.delay_active THEN "signal" ELSE Back(x))
  /\ output' = [output EXCEPT !.delay_active = @ /\ ~LastStop(x)]
  /\ UNCHANGED <<delay_data, attached, stream, dd, lag, button, force, past>>

\* obs_output_end_data_capture.
Detach(x, e) ==
  /\ Quiet(x, e)
  /\ attached' = attached \ {f \in {e} : output.active_delay_ns > 0}
  /\ UNCHANGED <<delay_data, output, stream, dd, lag, button, force, past>>

DetachVideo(x) == Goto(x, "detachVideo", "detachAudio") /\ Detach(x, "video")
DetachAudio(x) == Goto(x, "detachAudio", "cleanup") /\ Detach(x, "audio")

\* obs_output_cleanup_delay empties the queue without delay_mutex.
Cleanup(x) ==
  /\ Goto(x, "cleanup", "signal")
  /\ delay_data' = IF output.active_delay_ns > 0 THEN <<>> ELSE delay_data
  /\ output' = [output EXCEPT
       !.active = FALSE, !.active_delay_ns = 0,
       !.delay_restart_refs = IF output.active_delay_ns > 0 THEN 0 ELSE @]
  /\ UNCHANGED <<attached, stream, dd, lag, button, force, past>>

SignalStop(x) ==
  /\ Goto(x, "signal", Back(x))
  /\ button' = "start"
  /\ stream' = IF x = "net" THEN "idle" ELSE stream
  /\ force' = (force /\ x # "user")
  /\ UNCHANGED <<delay_data, output, attached, dd, lag, past>>

-----------------------------------------------------------------------------
(* The user: obs_output_start, obs_output_stop, obs_output_force_stop.     *)

EventsWaiting == Queued({"start", "stop"})

\* A capture that begins with nothing left of the last one.
FreshCapture ==
  /\ ~output.active /\ delay_data = <<>> /\ stream = "idle"
  /\ \A x \in DelayThreads : at[x] = "idle"

\* obs_output_delay_start.
PressStart ==
  /\ Settled
  /\ button = "start" /\ EventsWaiting < MaxEvents
  /\ CanBegin
  /\ Goto("user", "idle", "push")
  /\ stolen' = (stolen /\ ~FreshCapture)
  /\ UNCHANGED <<delay_data, output, attached, stream, dd, lag, button, force,
                 asked, astray>>

PushStart ==
  /\ Goto("user", "push", "begin")
  /\ delay_data' = Append(delay_data, Event("start"))
  /\ asked' = TRUE
  /\ UNCHANGED <<output, attached, stream, dd, lag, button, force, stolen, astray>>

\* delay_active is read once more: a start of what is running counts a reference,
\* another one begins the capture.
Begin ==
  /\ Goto("user", "begin", "idle")
  /\ \/ /\ output.delay_active
        /\ output' = [output EXCEPT !.delay_restart_refs = @ + 1]
        /\ button' = "stop"
        /\ UNCHANGED <<delay_data, attached>>
     \/ /\ ~output.delay_active /\ ~output.active
        /\ Hook
        /\ button' = "stop"
        /\ UNCHANGED delay_data
     \/ /\ ~output.delay_active /\ output.active
        /\ delay_data' = <<>>
        /\ output' = [output EXCEPT !.active_delay_ns = 0,
                                    !.delay_restart_refs = 0]
        /\ UNCHANGED <<attached, button>>
  /\ UNCHANGED <<stream, dd, lag, force, past>>

StreamingActive == output.active \/ output.reconnecting

\* obs_output_delay_stop.
PressStop ==
  /\ Settled
  /\ button = "stop" /\ EventsWaiting < MaxEvents
  /\ StreamingActive /\ output.active_delay_ns > 0
  /\ at["user"] = "idle"
  /\ delay_data' = Append(delay_data, Event("stop"))
  /\ asked' = FALSE
  /\ button' = "start"
  /\ UNCHANGED <<output, attached, stream, at, dd, lag, force, stolen, astray>>

\* Without a delay, and obs_output_force_stop.
StopNow ==
  /\ Settled
  /\ StreamingActive
  /\ force' \in {TRUE, FALSE}
  /\ ~force' => button = "stop" /\ output.active_delay_ns = 0
  /\ Goto("user", "idle", "stop")
  /\ asked' = FALSE
  /\ UNCHANGED <<delay_data, output, attached, stream, dd, lag, button, stolen,
                 astray>>

-----------------------------------------------------------------------------
(* Time.                                                                   *)

\* Time passes when every thread rests or waits and the packets are there.
Tick ==
  /\ Settled
  /\ \A e \in attached : at[e] = "idle" => lag[e] = 0
  /\ \A i \in DOMAIN delay_data : delay_data[i].age < MaxAge
  /\ \A e \in Encoders : at[e] # "idle" => lag[e] < MaxAge
  /\ delay_data' = [i \in DOMAIN delay_data |->
                      [delay_data[i] EXCEPT !.age = @ + 1]]
  /\ lag' = [e \in Encoders |-> IF at[e] = "idle" THEN 1 ELSE lag[e] + 1]
  /\ UNCHANGED <<output, attached, stream, at, dd, button, force, past>>

EncoderStep(e) == \/ PushPacket(e) \/ Preserve(e) \/ NothingDue(e)
                  \/ PopPacket(e) \/ ProcessPacket(e) \/ ProcessStart(e)

StopStep(x) == \/ Stop(x) \/ Decide(x) \/ DetachVideo(x) \/ DetachAudio(x)
               \/ Cleanup(x) \/ SignalStop(x)

DelayNext ==
  \/ \E e \in Encoders : EncoderStep(e)
  \/ \E x \in DelayThreads : StopStep(x)
  \/ Attempt \/ Connected \/ ConnectFails \/ RetryLater \/ Lose
  \/ PressStart \/ PushStart \/ Begin \/ PressStop \/ StopNow
  \/ Tick

DelaySpec == DelayInit /\ [][DelayNext]_delayVars

-----------------------------------------------------------------------------
(* Properties.                                                             *)

\* Types; the queue is in the order of time.  Until two events are processed at once
\* a start that does not wait any more has at most one reference left, and nothing
\* connects unless the delay is active.
DelayTypeOK ==
  /\ output.active_delay_ns \in 0 .. MaxAge
  /\ attached \subseteq Encoders
  /\ stream \in {"idle", "connecting", "failing", "live", "waiting"}
  /\ \A e \in Encoders : lag[e] \in 0 .. MaxAge
  /\ \A i \in DOMAIN delay_data : \A j \in 1 .. i :
       delay_data[j].age >= delay_data[i].age
  /\ ~astray => /\ output.delay_restart_refs \in 0 .. MaxEvents + 1
                /\ output.delay_active =>
                     output.active /\ output.delay_restart_refs <= StartsWaiting + 1
                /\ stream = "connecting" => output.delay_active

\* e hands a packet on.
Delivers(e) == at[e] = "packet" /\ output.delay_active /\ output.delay_capturing

\* What is sent was encoded between a start and the next stop, unless a thread
\* popped it while another one was starting or stopping.  This and what follows hold
\* until two events are processed at once, or a thread that had to wait goes on with
\* an old time (`astray`): from then on two stops may close one capture, or wait for
\* each other's callbacks, and the queue is sent at once.
NothingUnasked ==
  ~astray => \A e \in Encoders : Delivers(e) => dd[e].on \/ dd[e].cross

\* Nothing is sent before the delay has passed, also when it has grown while a
\* connection was restored.
DelayKept ==
  ~astray => \A e \in Encoders : Delivers(e) => dd[e].age > delay_sec

\* A stop ends the capture if and only if no start waits behind it; unless that
\* start is just being counted, or another start has taken its reference.
RestartKept ==
  \A x \in Encoders :
    /\ at[x] = "decide" /\ output.delay_active
    /\ ~astray /\ ~stolen /\ at["user"] # "begin"
    => (LastStop(x) <=> StartsWaiting = 0)

\* obs.h:1235: "Starts the output."
StartKept == \A x \in Encoders : at[x] = "decide" /\ LastStop(x) => StartsWaiting = 0

\* What leaves the queue is what the user asked for, as late as was promised, with the
\* exceptions above.
SentAsAsked == NothingUnasked /\ DelayKept
=============================================================================
