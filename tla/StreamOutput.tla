---------------------------- MODULE StreamOutput ----------------------------
(***************************************************************************)
(* libobs/obs-output.c and plugins/obs-outputs/rtmp-stream.c: who starts,  *)
(* stops and restarts a stream.  Four kinds of thread take part:           *)
(*   user       the user interface: obs_output_start, obs_output_stop      *)
(*   connect    connect_thread: connects, then starts send and capture     *)
(*   send       send_thread: sends until stopped or disconnected           *)
(*   reconnect  reconnect_thread: waits, then starts the stream again      *)
(* No lock protects the state they share, so each action is one access to  *)
(* it, or several of which only one can matter to the others.  The output  *)
(* has no delay; its packets are the subject of RtmpSendQueue.             *)
(*                                                                         *)
(* A thread is a number, which is used again when the thread has ended and *)
(* no handle refers to it.                                                 *)
(***************************************************************************)
EXTENDS Integers, FiniteSetsExt, Functions

CONSTANTS
  Threads,             (* numbers of threads                               *)
  reconnect_retry_max,
  Failures,            (* the network may refuse the connection, "connect", *)
                       (* and lose it, "send"; and an encoder may fail to   *)
                       (* open, "start"                                     *)
  MaxRaces             (* how often somebody acts in one of the moments     *)
                       (* below for which the flags make no provision       *)

ASSUME StreamOutputAssumption ==
  /\ Threads \subseteq Nat \ {0}
  /\ reconnect_retry_max \in Nat
  /\ Failures \subseteq {"connect", "send", "start"}
  /\ MaxRaces \in Nat

VARIABLES
  output,    (* struct obs_output; `capturing`: its encoder callbacks are  *)
             (* hooked                                                     *)
  stream,    (* struct rtmp_stream; `posted`: the count of send_sem is not *)
             (* zero                                                       *)
  pc,        (* where each thread is                                       *)
  user,      (* where the user interface is                                *)
  button,    (* what it shows: "idle", "starting" or "live"                *)
  joinable,  (* threads neither joined nor detached; one that has ended and *)
             (* has no handle may be forgotten                             *)
  joining,   (* the thread that a thread waits for                         *)
  bad_join,  (* history: before the network lost a connection a handle was  *)
             (* joined that may not be                                     *)
  lost,      (* history: the network has lost a connection                 *)
  races,     (* history: how often somebody has acted in such a moment     *)
  abandoned, (* history: an attempt to reconnect could not begin           *)
  undone     (* history: the last stop found the event of an earlier one,  *)
             (* or the send thread gone before it could end the capture;   *)
             (* or its own event was reset                                 *)

joins == <<joinable, joining, bad_join, lost, undone>>
fate  == <<races, abandoned>>
vars  == <<output, stream, pc, user, button, joins, fate>>

NoThread == 0
UI       == 0       \* the thread of the user interface, which is never joined

Init ==
  /\ output = [active |-> FALSE, capturing |-> FALSE, stopped |-> FALSE,
               reconnecting |-> FALSE, reconnect_retries |-> 0,
               reconnect_stop_event |-> FALSE, reconnect_thread |-> NoThread,
               reconnect_thread_active |-> FALSE]
  /\ stream = [connecting |-> FALSE, active |-> FALSE, stop_event |-> FALSE,
               posted |-> FALSE, connect_thread |-> NoThread,
               send_thread |-> NoThread]
  /\ pc = [t \in Threads |-> "ended"]
  /\ user = "idle" /\ button = "idle"
  /\ joinable = {}
  /\ joining = [t \in Threads \cup {UI} |-> NoThread]
  /\ bad_join = FALSE /\ lost = FALSE /\ undone = FALSE
  /\ races = 0 /\ abandoned = FALSE

-----------------------------------------------------------------------------
(* Threads.                                                                *)

Handles == {stream.connect_thread, stream.send_thread, output.reconnect_thread}
Free    == {t \in Threads \ (Handles \cup Range(joining)) : pc[t] = "ended"}

\* pthread_create: the number of a thread that does not exist.
New == Min(Free)

\* Thread t goes from a to b.
Move(t, a, b) == pc[t] = a /\ pc' = [pc EXCEPT ![t] = b] /\ UNCHANGED user
Step(t, a, b) == Move(t, a, b) /\ UNCHANGED fate

\* It does so and creates a thread that begins at c.
StepAndCreate(t, a, b, c) ==
  /\ pc[t] = a
  /\ Free # {}
  /\ pc' = [pc EXCEPT ![t] = b, ![New] = c]
  /\ joinable' = (joinable \ Free) \cup {New}
  /\ UNCHANGED <<user, joining, bad_join, lost, undone, fate>>

\* The user interface goes from a to b.
UserMove(a, b) == user = a /\ user' = b /\ UNCHANGED pc
UserStep(a, b) == UserMove(a, b) /\ UNCHANGED fate

\* Thread t calls pthread_join.  No thread, or one that is detached or joined
\* already, may not be joined; glibc's call then returns at once.
BeginJoin(t, h) ==
  /\ joining' = [joining EXCEPT ![t] = IF h \in joinable THEN h ELSE NoThread]
  /\ joinable' = joinable \ {h}
  /\ bad_join' = (bad_join \/ (h \notin joinable /\ ~lost))
  /\ UNCHANGED <<output, stream, button, lost, undone>>

EndJoin(t) ==
  /\ joining[t] \in {NoThread} \cup {h \in Threads : pc[h] = "ended"}
  /\ joining' = [joining EXCEPT ![t] = NoThread]
  /\ UNCHANGED <<joinable, bad_join, lost, undone, output, stream, button>>

\* pthread_detach.
Detach(h) == /\ joinable' = joinable \ {h}
             /\ UNCHANGED <<joining, bad_join, lost, undone>>

-----------------------------------------------------------------------------
(* Moments for which the flags make no provision.                          *)

At(places) == {t \in Threads : pc[t] \in places}

\* A thread is about to end: it has read the flags and handles for the last time, or
\* has still to write one that may by then belong to the next thread.
Departing == At({"detach", "clearConnecting", "clearStreaming", "leave", "exit"})

\* A send thread has ended the capture and not yet begun to reconnect.
BetweenStreams == At({"signalLost", "countRetrySend", "setReconnectingSend"})

\* The user starts a stream ...
StartRaces ==
  \/ Departing \cup BetweenStreams # {}
  \/ At({"resetStop"}) # {} /\ stream.send_thread \notin joinable

\* ... or stops it; ...
StopRaces ==
  Departing \cup BetweenStreams
    \cup At({"retrySend", "resetStop", "enter", "restart", "signalStart"}) # {}

\* ... a connection is lost ...
LossRaces == Departing \cup At({"activate", "signalStart"}) # {}

\* ... or an attempt is due.
RetryRaces ==
  \/ Departing \cup At({"resetStop"}) # {}
  \/ user \in {"readReconnect", "joinReconnect", "endCapture", "signal"}

\* Somebody acts, at such a moment or not.
Acts(racing) ==
  /\ racing => races < MaxRaces
  /\ races' = IF racing THEN races + 1 ELSE races
  /\ UNCHANGED abandoned

-----------------------------------------------------------------------------
(* What several threads call.                                              *)

\* obs_output_active.
OutputActive == output.active \/ output.reconnecting

\* Mutant: the encoders are not stopped.
ForgetEncoders == output' = [output EXCEPT !.active = FALSE]

\* obs_output_end_data_capture.
EndDataCapture ==
  output' = [output EXCEPT !.active = FALSE,
                           !.capturing = @ /\ ~output.active]

\* signal_stop.
SignalStop == button' = "idle"

\* obs_output_actual_start.
ActualStart == output' = [output EXCEPT !.stopped = FALSE]

\* rtmp_stream_start: it fails when an encoder cannot be opened or the output is
\* active; otherwise connect_thread is created.
StartFails == output.active \/ "start" \in Failures
StartConnect ==
  /\ ~output.active
  /\ stream' = [stream EXCEPT !.connecting = TRUE, !.connect_thread = New]

\* default_encoded_callback, send_interleaved and rtmp_stream_data: a packet is
\* queued and the semaphore posted.  A post that no send thread waits for is
\* forgotten when the semaphore is reset.
Deliver ==
  /\ output.capturing /\ ~output.stopped
  /\ ~stream.posted /\ \E t \in Threads : pc[t] = "send"
  /\ stream' = [stream EXCEPT !.posted = TRUE]
  /\ UNCHANGED <<output, pc, user, button, joins, fate>>

-----------------------------------------------------------------------------
(* User interface.                                                         *)

\* StartStreaming, obs_output_start.
UserStart ==
  /\ user = "idle" /\ button # "starting" /\ ~OutputActive
  /\ Acts(StartRaces)
  /\ ActualStart
  /\ \/ /\ Free # {}
        /\ StartConnect
        /\ pc' = [pc EXCEPT ![New] = "initConnect"]
        /\ joinable' = (joinable \ Free) \cup {New}
        /\ button' = "starting"
        /\ undone' = FALSE
     \/ /\ StartFails
        /\ button' = "idle"
        /\ UNCHANGED <<stream, pc, joinable, undone>>
  /\ UNCHANGED <<user, joining, bad_join, lost>>

\* StopStreaming, obs_output_stop, obs_output_actual_stop.
UserStop ==
  /\ OutputActive
  /\ Acts(StopRaces)
  /\ UserMove("idle", "readReconnect")
  /\ output' = [output EXCEPT !.stopped = TRUE, !.reconnect_stop_event = TRUE]
  /\ UNCHANGED <<stream, button, joins>>

ReadReconnect ==
  /\ UserStep("readReconnect", IF output.reconnect_thread_active
                               THEN "joinReconnect" ELSE "readStop")
  /\ UNCHANGED <<output, stream, button, joins>>

JoinReconnect == /\ UserStep("joinReconnect", "awaitReconnect")
                 /\ BeginJoin(UI, output.reconnect_thread)

AwaitReconnect == UserStep("awaitReconnect", "readStop") /\ EndJoin(UI)

\* rtmp_stream_stop.
ReadStop ==
  /\ UserStep("readStop", IF stream.stop_event THEN "signal"
                          ELSE IF stream.connecting THEN "joinConnect"
                          ELSE "setStop")
  /\ undone' = (undone \/ stream.stop_event)
  /\ UNCHANGED <<output, stream, button, joinable, joining, bad_join, lost>>

JoinConnect == /\ UserStep("joinConnect", "awaitConnect")
               /\ BeginJoin(UI, stream.connect_thread)

AwaitConnect == UserStep("awaitConnect", "setStop") /\ EndJoin(UI)

SetStop ==
  /\ UserStep("setStop", "endCapture")
  /\ stream' = [stream EXCEPT !.stop_event = TRUE]
  /\ UNCHANGED <<output, button, joins>>

PostSendSem == [stream EXCEPT !.posted = TRUE]

UserEndCapture ==
  /\ UserStep("endCapture", "signal")
  /\ IF stream.active
     THEN stream' = PostSendSem /\ EndDataCapture
     ELSE UNCHANGED <<stream, output>>
  /\ undone' = (undone \/ (~stream.active /\ output.active))
  /\ UNCHANGED <<button, joinable, joining, bad_join, lost>>

\* signal_stop(OBS_OUTPUT_SUCCESS), and obs_output_stop returns.
UserSignal ==
  /\ UserStep("signal", "idle")
  /\ SignalStop
  /\ UNCHANGED <<output, stream, joins>>

Stopping == \/ ReadReconnect \/ JoinReconnect \/ AwaitReconnect
            \/ ReadStop \/ JoinConnect \/ AwaitConnect
            \/ SetStop \/ UserEndCapture \/ UserSignal

-----------------------------------------------------------------------------
(* connect_thread.                                                         *)

\* Mutant: it joins without asking whether there is a thread to join.
AlwaysJoin(t) ==
  /\ Step(t, "initConnect", "joinSend")
  /\ UNCHANGED <<output, stream, button, joins>>

\* init_connect waits for the send thread of the last session.
InitConnect(t) ==
  /\ Step(t, "initConnect", IF stream.stop_event THEN "joinSend" ELSE "connect")
  /\ UNCHANGED <<output, stream, button, joins>>

JoinSend(t) ==
  Step(t, "joinSend", "awaitSend") /\ BeginJoin(t, stream.send_thread)

AwaitSend(t) == Step(t, "awaitSend", "connect") /\ EndJoin(t)

\* try_connect fails.
ConnectFails(t) ==
  /\ "connect" \in Failures
  /\ Step(t, "connect", "signalFailure")
  /\ UNCHANGED <<output, stream, button, joins>>

\* try_connect succeeds; init_send.
Connected(t) ==
  /\ StepAndCreate(t, "connect", "setStreaming", "send")
  /\ stream' = [stream EXCEPT !.send_thread = New, !.posted = FALSE]
  /\ UNCHANGED <<output, button>>

SetStreaming(t) ==
  /\ Step(t, "setStreaming", "beginCapture")
  /\ stream' = [stream EXCEPT !.active = TRUE]
  /\ UNCHANGED <<output, button, joins>>

\* obs_output_begin_data_capture: nothing if the output is active; otherwise the
\* encoders are hooked, then the output becomes active, then it is signalled.
BeginCapture(t) ==
  /\ Step(t, "beginCapture", IF output.active THEN "detach" ELSE "activate")
  /\ output' = [output EXCEPT !.capturing = @ \/ ~output.active]
  /\ UNCHANGED <<stream, button, joins>>

Activate(t) ==
  /\ Step(t, "activate", "signalStart")
  /\ output' = [output EXCEPT !.active = TRUE]
  /\ UNCHANGED <<stream, button, joins>>

SignalStart(t) ==
  /\ Step(t, "signalStart", "detach")
  /\ output' = [output EXCEPT !.reconnecting = FALSE]
  /\ button' = IF output.reconnecting THEN button ELSE "live"
  /\ UNCHANGED <<stream, joins>>

\* obs_output_signal_stop with the code of a failed connection.
SignalFailure(t) ==
  /\ Step(t, "signalFailure", IF output.reconnecting THEN "countRetry"
                              ELSE "detach")
  /\ EndDataCapture
  /\ IF output.reconnecting THEN UNCHANGED button ELSE SignalStop
  /\ UNCHANGED <<stream, joins>>

DetachConnect(t) ==
  /\ Step(t, "detach", "clearConnecting")
  /\ IF stream.stop_event THEN UNCHANGED joins
     ELSE Detach(stream.connect_thread)
  /\ UNCHANGED <<output, stream, button>>

ClearConnecting(t) ==
  /\ Step(t, "clearConnecting", "ended")
  /\ stream' = [stream EXCEPT !.connecting = FALSE]
  /\ UNCHANGED <<output, button, joins>>

Connect(t) == \/ InitConnect(t) \/ JoinSend(t) \/ AwaitSend(t)
              \/ ConnectFails(t) \/ Connected(t)
              \/ SetStreaming(t) \/ BeginCapture(t) \/ Activate(t)
              \/ SignalStart(t) \/ SignalFailure(t)
              \/ DetachConnect(t) \/ ClearConnecting(t)

-----------------------------------------------------------------------------
(* send_thread.                                                            *)

\* It is woken and finds that it is to stop.
SendStops(t) ==
  /\ stream.posted /\ stream.stop_event
  /\ Step(t, "send", "close")
  /\ UNCHANGED <<output, stream, button, joins>>

\* It sends a packet, if there is one; the count is decremented.
SendPacket(t) ==
  /\ stream.posted /\ ~stream.stop_event
  /\ Step(t, "send", "send")
  /\ \E more \in BOOLEAN : stream' = [stream EXCEPT !.posted = more]
  /\ UNCHANGED <<output, button, joins>>

\* A packet cannot be sent.
SendFails(t) ==
  /\ "send" \in Failures
  /\ stream.posted /\ ~stream.stop_event
  /\ Acts(LossRaces)
  /\ Move(t, "send", "close")
  /\ lost' = TRUE
  /\ UNCHANGED <<output, stream, button, joinable, joining, bad_join, undone>>

\* What remains has been sent or freed, the connection is closed.
CloseSend(t) ==
  /\ Step(t, "close", IF stream.stop_event THEN "resetStop" ELSE "signalLost")
  /\ IF stream.stop_event THEN UNCHANGED joins ELSE Detach(stream.send_thread)
  /\ UNCHANGED <<output, stream, button>>

\* obs_output_signal_stop(OBS_OUTPUT_DISCONNECTED).
SignalLost(t) ==
  /\ Step(t, "signalLost", "countRetrySend")
  /\ EndDataCapture
  /\ UNCHANGED <<stream, button, joins>>

ResetStop(t) ==
  /\ Step(t, "resetStop", "clearStreaming")
  /\ stream' = [stream EXCEPT !.stop_event = FALSE]
  /\ UNCHANGED <<output, button, joins>>

ClearStreaming(t) ==
  /\ Step(t, "clearStreaming", "ended")
  /\ stream' = [stream EXCEPT !.active = FALSE]
  /\ UNCHANGED <<output, button, joins>>

Send(t) == \/ SendStops(t) \/ SendPacket(t) \/ CloseSend(t)
           \/ SignalLost(t) \/ ResetStop(t) \/ ClearStreaming(t)

-----------------------------------------------------------------------------
(* output_reconnect in a connect thread or a send thread: the places a, b  *)
(* and c of that thread are its steps, and it goes on at back.             *)

\* Mutant: one attempt too many.
LastPassed(retries) == retries > reconnect_retry_max

NoneLeft(retries) == retries >= reconnect_retry_max

\* How many attempts were made: they are counted from the first one.
Made == IF output.reconnecting THEN output.reconnect_retries ELSE 0

GiveUp(t, a, back) ==
  /\ NoneLeft(Made)
  /\ Step(t, a, back)
  /\ output' = [output EXCEPT !.reconnecting = FALSE,
                              !.reconnect_retries = Made]
  /\ SignalStop
  /\ UNCHANGED <<stream, joins>>

OneMore(t, a, b) ==
  /\ ~NoneLeft(Made)
  /\ Step(t, a, b)
  /\ output' = [output EXCEPT !.reconnect_retries = Made]
  /\ UNCHANGED <<stream, button, joins>>

\* One attempt more; when it is the first one, the stop event is reset.
SetReconnecting(t, b, c) ==
  /\ Step(t, b, c)
  /\ output' = [output EXCEPT !.reconnecting = TRUE,
                              !.reconnect_retries = @ + 1,
                              !.reconnect_stop_event = @ /\ output.reconnecting]
  /\ undone' = (undone \/ (output.stopped /\ ~output.reconnecting))
  /\ UNCHANGED <<stream, button, joinable, joining, bad_join, lost>>

CreateReconnect(t, c, back) ==
  /\ StepAndCreate(t, c, back, "enter")
  /\ output' = [output EXCEPT !.reconnect_thread = New]
  /\ UNCHANGED <<stream, button>>

OutputReconnect(t, a, b, c, back) ==
  \/ GiveUp(t, a, back) \/ OneMore(t, a, b)
  \/ SetReconnecting(t, b, c) \/ CreateReconnect(t, c, back)

-----------------------------------------------------------------------------
(* reconnect_thread.                                                       *)

EnterReconnect(t) ==
  /\ Step(t, "enter", "wait")
  /\ output' = [output EXCEPT !.reconnect_thread_active = TRUE]
  /\ UNCHANGED <<stream, button, joins>>

\* Mutant: the stop event does not wake the thread.
SleepOn(t) ==
  /\ output.reconnect_stop_event
  /\ Step(t, "wait", "wait")
  /\ UNCHANGED <<output, stream, button, joins>>

WaitStopped(t) ==
  /\ output.reconnect_stop_event
  /\ Step(t, "wait", "leave")
  /\ UNCHANGED <<output, stream, button, joins>>

WaitTimedOut(t) ==
  /\ ~output.reconnect_stop_event
  /\ Acts(RetryRaces)
  /\ Move(t, "wait", "restart")
  /\ UNCHANGED <<output, stream, button, joins>>

\* obs_output_actual_start, and whether it fails does not matter: `reconnecting`
\* stays set although nobody will try again.
Restart(t) ==
  /\ ActualStart
  /\ \/ StepAndCreate(t, "restart", "leave", "initConnect") /\ StartConnect
     \/ /\ StartFails
        /\ Move(t, "restart", "leave")
        /\ abandoned' = (abandoned \/ output.reconnecting)
        /\ UNCHANGED <<stream, joins, races>>
  /\ UNCHANGED button

LeaveReconnect(t) ==
  /\ Step(t, "leave", "exit")
  /\ IF output.reconnect_stop_event
     THEN output' = [output EXCEPT !.reconnecting = FALSE] /\ UNCHANGED joins
     ELSE Detach(output.reconnect_thread) /\ UNCHANGED output
  /\ UNCHANGED <<stream, button>>

ExitReconnect(t) ==
  /\ Step(t, "exit", "ended")
  /\ output' = [output EXCEPT !.reconnect_thread_active = FALSE]
  /\ UNCHANGED <<stream, button, joins>>

Reconnect(t) == \/ EnterReconnect(t) \/ WaitStopped(t) \/ WaitTimedOut(t)
                \/ Restart(t) \/ LeaveReconnect(t) \/ ExitReconnect(t)

-----------------------------------------------------------------------------

\* What a thread does by itself; a connection is lost by accident.
Run(t) ==
  /\ pc[t] # "ended"
  /\ \/ Connect(t) \/ Send(t) \/ Reconnect(t)
     \/ OutputReconnect(t, "countRetry", "setReconnecting", "retry", "detach")
     \/ OutputReconnect(t, "countRetrySend", "setReconnectingSend", "retrySend",
                        "resetStop")

Next == UserStart \/ UserStop \/ Stopping \/ Deliver
        \/ \E t \in Threads : Run(t) \/ SendFails(t)

Spec == Init /\ [][Next]_vars

\* A thread that has something to do does it; an attempt to connect succeeds or
\* fails, and waiting for the next one comes to an end.
FairSpec ==
  /\ Spec
  /\ \A t \in Threads : WF_vars(Run(t))
  /\ WF_vars(Stopping)

-----------------------------------------------------------------------------
(* Properties.                                                             *)

\* Every thread waits for time, for the network or for another thread.
Quiet ==
  /\ \A t \in Threads : pc[t] \in {"ended", "wait", "connect", "send", "close",
                                   "awaitSend"}
  /\ user \in {"idle", "awaitReconnect", "awaitConnect"}

\* Types; attempts are bounded; there are more numbers of threads than threads,
\* unless two threads of a kind were let run.
TypeOK ==
  /\ Handles \subseteq Threads \cup {NoThread}
  /\ joinable \subseteq Threads
  /\ joining \in [Threads \cup {UI} -> Threads \cup {NoThread}]
  /\ races \in 0 .. MaxRaces /\ abandoned \in BOOLEAN
  /\ races = 0 => /\ output.reconnect_retries \in 0 .. reconnect_retry_max
                  /\ Free # {}

Connecting == At({"initConnect", "joinSend", "awaitSend", "connect",
                  "setStreaming", "beginCapture", "activate", "signalStart"})
Sending    == At({"send", "close"})
Waiting    == At({"enter", "wait", "restart"})

\* At most one thread connects, at most one sends and at most one waits to connect
\* again: they share one RTMP session, one queue and one handle of each kind, and
\* nothing but the flags keeps two of a kind apart.
OneOfEach ==
  /\ Cardinality(Connecting) <= 1
  /\ Cardinality(Sending) <= 1
  /\ Cardinality(Waiting) <= 1

\* The encoders deliver to an output if and only if it is active, except while
\* obs_output_begin_data_capture makes it so.
CaptureFollowsOutput ==
  output.capturing = output.active \/ At({"activate"}) # {}

\* What the user interface shows is so as soon as no thread has anything left to
\* do: a stream it shows as live is active, and one it shows as starting has a
\* thread that connects or waits for the last session to end.
ShowsTheTruth ==
  Quiet /\ user = "idle" =>
    /\ button = "live" => OutputActive
    /\ button = "starting" => Connecting # {}

\* A stop lasts: once it has returned and the threads have come to rest the output
\* is not active and nobody connects.  It says that it reconnects only if it has
\* given that up without saying so, when an attempt could not begin.  Three cases
\* undo a stop: stop_event is still signalled, by a stop that no send thread was
\* there to see; the send thread ends between rtmp_stream_stop's signal and its
\* test of `active`, and nobody ends the capture; and a loss at the same moment
\* resets the event that was signalled.
StopLasts ==
  /\ Quiet /\ user = "idle" /\ button = "idle" /\ ~undone
  /\ At({"wait"}) # {} => ~output.reconnect_stop_event
  => /\ ~output.active /\ Connecting = {}
     /\ output.reconnecting => abandoned

\* No thread is joined that was detached, joined or never created, until the
\* network loses a connection; when a loss meets a stop, connect_thread or
\* send_thread may be detached while `connecting` or the stop event still says
\* that it can be joined.
NoBadJoin == ~bad_join

\* obs_output_stop returns: what it joins ends, whatever that thread is at.
StopReturns == (user # "idle") ~> (user = "idle" \/ races > 0)

\* A start is answered with a signal that it succeeded or failed.
StartIsAnswered == (button = "starting") ~> (button # "starting" \/ races > 0)

\* Reconnecting comes to an end: success, a stop or the last attempt.  If an attempt
\* cannot begin, for want of an encoder, it does not: `reconnecting` stays set, the
\* output counts as active and no stream can be started any more.
ReconnectEnds ==
  output.reconnecting ~> (~output.reconnecting \/ abandoned \/ races > 0)

\* However starts, stops, losses and attempts follow one another, the flags, which
\* are no locks, keep the threads of an output apart, as long as nobody acts in one
\* of the moments named above.  In those they do not: a stream started or lost, an
\* attempt due or a stop then meets a thread that has read what is changed.
ThreadsInOrder == races = 0 => OneOfEach /\ NoBadJoin

\* Encoders, output and user interface agree, on streams and on stopped ones, with
\* the same exception.
InStep == races = 0 => CaptureFollowsOutput /\ ShowsTheTruth /\ StopLasts

\* Nobody waits for ever, and reconnecting ends unless an attempt could not begin;
\* with the same exception.
Progress == StopReturns /\ StartIsAnswered /\ ReconnectEnds
=============================================================================
