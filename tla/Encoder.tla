------------------------------- MODULE Encoder -------------------------------
(***************************************************************************)
(* libobs/obs-encoder.c: an encoder that several outputs share.  An output *)
(* initializes it, registers a callback with it and removes the callback   *)
(* when it stops; the first callback connects the encoder to the thread    *)
(* that delivers raw media and the last one disconnects and closes it.     *)
(*   o        the thread that starts and stops output o                    *)
(*   Media    the thread that delivers raw media to the encoder            *)
(*   owner    the user interface, which releases the encoder               *)
(* Three mutexes are taken in different orders: `init` (init_mutex),       *)
(* `callbacks` (callbacks_mutex) and `input`, of video-io.c or audio-io.c, *)
(* which the thread of raw media holds while it calls the encoder.  A      *)
(* critical section that waits for nothing is one action.                  *)
(***************************************************************************)
EXTENDS FiniteSets

CONSTANTS
  Outputs,
  Delayed,     (* outputs with a delay: their stop runs in a callback      *)
  Fails,       (* what may fail: "connect", an input of the thread of raw  *)
               (* media, and "encode"                                      *)
  Media, None

ASSUME EncoderAssumption ==
  /\ Delayed \subseteq Outputs
  /\ Fails \subseteq {"connect", "encode"}
  /\ Media \notin Outputs /\ None \notin Outputs \cup {Media}

VARIABLES
  data,          (* context.data # NULL: the encoder is open               *)
  initialized, active, destroy_on_stop,
  callbacks,     (* the outputs whose callback is registered               *)
  connected,     (* receive_video or receive_audio is among the inputs     *)
  lock,          (* who holds each mutex                                   *)
  pc,            (* where each thread is                                   *)
  stopping,      (* the output that a callback stops                       *)
  released, destroyed,
  early,         (* history: it was released in the middle of a call       *)
  own,           (* history: a callback destroyed it, or stopped an output *)
                 (* that another thread was stopping                       *)
  failed,        (* history: encoding has failed                           *)
  shut,          (* history: outputs under which it was closed since they  *)
                 (* initialized it, by another output between that and the *)
                 (* start or by a failure; or which found it closed by an  *)
                 (* earlier failure although it counted as initialized     *)
  unfed          (* history: the last time it was to be connected it was   *)
                 (* not                                                    *)

state   == <<data, initialized, active>>
fate    == <<destroy_on_stop, released, destroyed>>
history == <<early, own, failed, shut, unfed>>
vars    == <<state, callbacks, connected, lock, pc, stopping, fate, history>>

Threads == Outputs \cup {Media}

Init ==
  /\ data = FALSE /\ initialized = FALSE /\ active = FALSE
  /\ callbacks = {} /\ connected = FALSE
  /\ lock = [m \in {"init", "callbacks", "input"} |-> None]
  /\ pc = [t \in Threads |-> IF t = Media THEN "idle" ELSE "stopped"]
  /\ stopping = None
  /\ destroy_on_stop = FALSE /\ released = FALSE /\ destroyed = FALSE
  /\ early = FALSE /\ own = FALSE /\ failed = FALSE
  /\ shut = {} /\ unfed = FALSE

-----------------------------------------------------------------------------
(* Threads and mutexes.                                                    *)

Step(t, a, b) == pc[t] = a /\ pc' = [pc EXCEPT ![t] = b]

Free(m)      == lock[m] = None
Lock(t, m)   == Free(m) /\ lock' = [lock EXCEPT ![m] = t]
Unlock(m)    == lock' = [lock EXCEPT ![m] = None]

\* Output o has called obs_encoder_start or obs_encoder_stop.
InCall(o) == pc[o] \in {"enter", "addCallback", "connect", "leaveStart",
                        "enterStop", "removeCallback", "disconnect",
                        "shutdown", "destroy"}

\* There it does not hold init_mutex.
Unlocked == {"enter", "enterStop", "destroy"}

\* Outputs that have initialized the encoder and not yet begun to capture.
Starting == {o \in Outputs : pc[o] \in {"initialized", "enter"}}

-----------------------------------------------------------------------------
(* Opening and closing.                                                    *)

\* obs_encoder_shutdown and set_encoder_active(false), of remove_connection.
CloseEncoder ==
  /\ data' = FALSE /\ active' = FALSE
  /\ shut' = shut \cup Starting

\* Mutant: the encoder still counts as open.
StaysInitialized == UNCHANGED initialized

\* Only obs_encoder_stop_internal does this.
ResetInitialized == initialized' = FALSE

\* obs_output_initialize_encoders, obs_encoder_initialize.  The plugin may fail
\* to create the encoder.  Nobody starts an output once the user interface has
\* released the encoder.
Initialize(o) ==
  /\ ~released
  /\ Free("init")
  /\ IF active \/ initialized
     THEN /\ Step(o, "stopped", "initialized")
          /\ UNCHANGED state
     ELSE \E created \in BOOLEAN :
          /\ Step(o, "stopped", IF created THEN "initialized" ELSE "stopped")
          /\ data' = created /\ initialized' = created
          /\ UNCHANGED active
  /\ shut' = IF failed /\ initialized /\ ~data THEN shut \cup {o} ELSE shut \ {o}
  /\ UNCHANGED <<callbacks, connected, lock, stopping, fate, early, own, failed,
                 unfed>>

-----------------------------------------------------------------------------
(* obs_encoder_start, called by obs_output_begin_data_capture.             *)

\* The output looks whether it has an encoder: one that is destroyed has removed
\* itself from its outputs.
BeginCapture(o) ==
  /\ Step(o, "initialized", IF destroyed THEN "stopped" ELSE "enter")
  /\ UNCHANGED <<state, callbacks, connected, lock, stopping, fate, history>>

\* An encoder that is not open is not started, and nobody is told.
EnterStart(o) ==
  /\ Step(o, "enter", IF data THEN "addCallback" ELSE "running")
  /\ IF data THEN Lock(o, "init") ELSE Free("init") /\ UNCHANGED lock
  /\ UNCHANGED <<state, callbacks, connected, stopping, fate, history>>

AddCallback(o) ==
  /\ Step(o, "addCallback", IF callbacks = {} THEN "connect" ELSE "leaveStart")
  /\ Free("callbacks")
  /\ callbacks' = callbacks \cup {o}
  /\ UNCHANGED <<state, connected, lock, stopping, fate, history>>

\* add_connection: whether video_output_connect or audio_output_connect fails does
\* not matter, the encoder becomes active and the callback stays.
Connect(o) ==
  /\ Step(o, "connect", "leaveStart")
  /\ Free("input")
  /\ connected' \in {TRUE, "connect" \notin Fails}
  /\ active' = TRUE
  /\ unfed' = ~connected'
  /\ UNCHANGED <<data, initialized, callbacks, lock, stopping, fate, early, own,
                 failed, shut>>

LeaveStart(o) ==
  /\ Step(o, "leaveStart", "running")
  /\ Unlock("init")
  /\ UNCHANGED <<state, callbacks, connected, stopping, fate, history>>

-----------------------------------------------------------------------------
(* obs_encoder_stop, called by obs_output_end_data_capture.                *)

BeginStop(o) ==
  /\ Step(o, "running", IF destroyed THEN "stopped" ELSE "enterStop")
  /\ UNCHANGED <<state, callbacks, connected, lock, stopping, fate, history>>

EnterStop(o) ==
  /\ Step(o, "enterStop", "removeCallback")
  /\ Lock(o, "init")
  /\ UNCHANGED <<state, callbacks, connected, stopping, fate, history>>

\* The callback of o is there and it is the last one.
IsLast(o) == callbacks = {o}

\* Mutant: init_mutex is kept.
KeepInit == UNCHANGED lock

UnlockInit == Unlock("init")

RemoveCallback(o) ==
  /\ Free("callbacks")
  /\ callbacks' = callbacks \ {o}
  /\ IF IsLast(o)
     THEN Step(o, "removeCallback", "disconnect") /\ UNCHANGED lock
     ELSE Step(o, "removeCallback", "stopped") /\ UnlockInit
  /\ UNCHANGED <<state, connected, stopping, fate, history>>

\* video_output_disconnect, audio_output_disconnect.
DisconnectInput == Free("input") /\ connected' = FALSE

Disconnect(o) ==
  /\ Step(o, "disconnect", "shutdown")
  /\ DisconnectInput
  /\ UNCHANGED <<state, callbacks, lock, stopping, fate, history>>

Shutdown(o) ==
  /\ Step(o, "shutdown", IF destroy_on_stop THEN "destroy" ELSE "stopped")
  /\ CloseEncoder
  /\ ResetInitialized
  /\ Unlock("init")
  /\ UNCHANGED <<callbacks, connected, stopping, fate, early, own, failed, unfed>>

\* obs_encoder_actually_destroy.
Destroy(o) ==
  /\ Step(o, "destroy", "stopped")
  /\ destroyed' = TRUE
  /\ UNCHANGED <<state, callbacks, connected, lock, stopping, destroy_on_stop,
                 released, history>>

Call(o) == \/ BeginCapture(o) \/ EnterStart(o) \/ AddCallback(o) \/ Connect(o)
           \/ LeaveStart(o)
           \/ EnterStop(o) \/ RemoveCallback(o) \/ Disconnect(o) \/ Shutdown(o)
           \/ Destroy(o)

-----------------------------------------------------------------------------
(* The last reference is released: obs_encoder_destroy.                    *)

\* Mutant: nobody asks whether outputs use the encoder.
AtOnce == TRUE

Unused == callbacks = {}

Release ==
  /\ ~released /\ released' = TRUE
  /\ Free("callbacks")
  /\ IF Unused
     THEN destroyed' = TRUE /\ UNCHANGED destroy_on_stop
     ELSE destroy_on_stop' = TRUE /\ UNCHANGED destroyed
  /\ early' = (\/ Starting # {} \/ \E o \in Outputs : InCall(o)
               \/ callbacks = {} /\ pc[Media] # "idle")
  /\ UNCHANGED <<state, callbacks, connected, lock, pc, stopping, own, failed,
                 shut, unfed>>

-----------------------------------------------------------------------------
(* The thread of raw media.                                                *)

\* receive_video, receive_audio.
Receive ==
  /\ connected
  /\ Step(Media, "idle", "encode")
  /\ Lock(Media, "input")
  /\ UNCHANGED <<state, callbacks, connected, stopping, fate, history>>

\* do_encode: with a packet, without one yet, or with a failure.
Encode ==
  /\ \/ Step(Media, "encode", "deliver")
     \/ Step(Media, "encode", "leave")
     \/ "encode" \in Fails /\ Step(Media, "encode", "fail")
  /\ UNCHANGED <<state, callbacks, connected, lock, stopping, fate, history>>

\* The callbacks get the packet.
Deliver ==
  /\ Free("callbacks")
  /\ Step(Media, "deliver", "leave")
  /\ UNCHANGED <<state, callbacks, connected, lock, stopping, fate, history>>

\* One of them belongs to an output with a delay, whose stop is due: process_delay
\* calls obs_output_end_data_capture and that obs_encoder_stop.
DeliverStop(o) ==
  /\ o \in callbacks
  /\ Step(Media, "deliver", "ownStop")
  /\ Lock(Media, "callbacks")
  /\ stopping' = o
  /\ UNCHANGED <<state, callbacks, connected, fate, history>>

\* It holds the other two mutexes and can take them again.
OwnStop ==
  /\ Free("init")
  /\ pc[Media] = "ownStop"
  /\ pc' = [pc EXCEPT ![Media] = "leave",
                      ![stopping] = IF @ = "running" THEN "stopped" ELSE @]
  /\ callbacks' = callbacks \ {stopping}
  /\ IF IsLast(stopping)
     THEN /\ connected' = FALSE
          /\ CloseEncoder /\ initialized' = FALSE
          /\ destroyed' = destroy_on_stop
     ELSE UNCHANGED <<state, connected, destroyed, shut>>
  /\ own' = (own \/ destroyed' \/ pc[stopping] # "running")
  /\ Unlock("callbacks")
  /\ stopping' = None
  /\ UNCHANGED <<destroy_on_stop, released, early, failed, unfed>>

\* full_stop: every callback is removed and the encoder disconnected, ...
Fail ==
  /\ Step(Media, "fail", "failShutdown")
  /\ Lock(Media, "callbacks")
  /\ callbacks' = {}
  /\ connected' = FALSE
  /\ failed' = TRUE
  /\ shut' = shut \cup callbacks
  /\ UNCHANGED <<state, stopping, fate, early, own, unfed>>

\* ... and closed.
FailShutdown ==
  /\ Step(Media, "failShutdown", "leave")
  /\ Free("init")
  /\ CloseEncoder
  /\ Unlock("callbacks")
  /\ UNCHANGED <<initialized, callbacks, connected, stopping, fate, early, own,
                 failed, unfed>>

Leave ==
  /\ Step(Media, "leave", "idle")
  /\ Unlock("input")
  /\ UNCHANGED <<state, callbacks, connected, stopping, fate, history>>

Work == \/ Receive \/ Encode \/ Deliver \/ OwnStop
        \/ Fail \/ FailShutdown \/ Leave

-----------------------------------------------------------------------------

Next ==
  \/ \E o \in Outputs : Initialize(o) \/ BeginStop(o) \/ Call(o)
  \/ \E o \in Delayed : DeliverStop(o)
  \/ Release
  \/ Work

Spec == Init /\ [][Next]_vars

\* A thread that can go on does.  A mutex that is free again and again is taken
\* in the end: the thread of raw media waits for the next frame between two
\* frames, the user between two clicks.
FairSpec ==
  /\ Spec
  /\ WF_vars(Work)
  /\ \A o \in Outputs : SF_vars(Call(o))

-----------------------------------------------------------------------------
(* Properties.                                                             *)

\* Types, and who may hold which mutex.
TypeOK ==
  /\ {data, initialized, active, connected, destroy_on_stop, released,
      destroyed, early, own, failed, unfed} \subseteq BOOLEAN
  /\ callbacks \subseteq Outputs /\ shut \subseteq Outputs
  /\ pc[Media] \in {"idle", "encode", "deliver", "ownStop", "fail",
                    "failShutdown", "leave"}
  /\ \A o \in Outputs : InCall(o) \/ pc[o] \in {"stopped", "initialized",
                                                "running"}
  /\ \A o \in Outputs : lock["init"] = o <=> InCall(o) /\ pc[o] \notin Unlocked
  /\ lock["callbacks"] = Media <=> pc[Media] \in {"ownStop", "failShutdown"}
  /\ lock["input"] = Media <=> pc[Media] # "idle"

\* While a frame is encoded the encoder is open; and unless somebody starts or stops
\* it, it is connected if and only if an output uses it and it could be connected:
\* the order of disconnecting, closing and starting again holds across three mutexes.
\* If it could not, its outputs capture and get nothing until the last one stops.
OpenWhileEncoding ==
  /\ pc[Media] = "encode" => data
  /\ Free("init") => connected = (callbacks # {} /\ ~unfed)

\* An output that captures is among those that get the packets, unless the encoder
\* was closed under it: initializing and starting are two calls and nothing keeps
\* the encoder open between them, and a failure closes it without a word to the
\* next output that initializes it.
Served == \A o \in Outputs : pc[o] = "running" => o \in callbacks \cup shut

\* No thread uses an encoder that is destroyed, unless it was released in the
\* middle of a call, a callback destroyed it or stopped an output that another
\* thread was stopping, or encoding has failed; outputs that got no packets are
\* not protected either.
NoUseAfterDestroy ==
  destroyed /\ ~early /\ ~own /\ ~failed =>
    pc[Media] = "idle" /\ \A o \in Outputs : InCall(o) => o \in shut

\* Starting and stopping come to an end, unless the thread of raw media waits for
\* init_mutex while it holds callbacks_mutex, which is the other way round.
CallsReturn ==
  \A o \in Outputs :
    InCall(o) ~> ~InCall(o) \/ pc[Media] \in {"ownStop", "failShutdown"}

\* Three mutexes, one of which is given up between the calls, make open, connected
\* and served the same thing.
OpenAndServed == OpenWhileEncoding /\ Served
=============================================================================
