--------------------------- MODULE EncoderProofs ---------------------------
(***************************************************************************)
(* Proofs about the two state machines of libobs/obs-encoder.c and about   *)
(* libobs/obs-output-delay.c, which runs in the encoders' threads.         *)
(*                                                                         *)
(* Encoder, for any outputs, delayed or not: what the mutexes, none of     *)
(* which is held from the start of an output to its stop, do guarantee.    *)
(*                                                                         *)
(* AvSync, for any rates and sizes: what two threads that read each        *)
(* other's fields without a lock make of the first samples.                *)
(*                                                                         *)
(* OutputDelay, for any delay: what leaves the queue, and when, however    *)
(* starts, stops, losses and failures fall together.                       *)
(*                                                                         *)
(* No name is in two of the modules, so that one module can extend them.   *)
(***************************************************************************)
EXTENDS Encoder, AvSync, OutputDelay, SequenceTheorems, FiniteSetTheorems, TLAPS

MediaPlaces  == {"idle", "encode", "deliver", "ownStop", "fail", "failShutdown",
                 "leave"}
CallPlaces   == {"enter", "addCallback", "connect", "leaveStart", "enterStop",
                 "removeCallback", "disconnect", "shutdown", "destroy"}
OutputPlaces == CallPlaces \cup {"stopped", "initialized", "running"}

\* Where the last output to stop is, once its callback is removed.
Ending == {"disconnect", "shutdown", "destroy"}

-----------------------------------------------------------------------------
(* The inductive invariant.                                                *)

Typed ==
  /\ data \in BOOLEAN /\ initialized \in BOOLEAN /\ active \in BOOLEAN
  /\ connected \in BOOLEAN /\ destroy_on_stop \in BOOLEAN
  /\ released \in BOOLEAN /\ destroyed \in BOOLEAN
  /\ early \in BOOLEAN /\ own \in BOOLEAN /\ failed \in BOOLEAN
  /\ unfed \in BOOLEAN
  /\ callbacks \subseteq Outputs /\ shut \subseteq Outputs
  /\ pc \in [Threads -> MediaPlaces \cup OutputPlaces]
  /\ pc[Media] \in MediaPlaces
  /\ \A o \in Outputs : pc[o] \in OutputPlaces
  /\ pc[Media] = "ownStop" => stopping \in Outputs

\* Who holds which mutex.
Held ==
  /\ lock \in [{"init", "callbacks", "input"} -> Threads \cup {None}]
  /\ \A o \in Outputs : lock["init"] = o <=> pc[o] \in CallPlaces \ Unlocked
  /\ lock["init"] # Media
  /\ lock["callbacks"] \in {None, Media} /\ lock["input"] \in {None, Media}
  /\ lock["callbacks"] = Media <=> pc[Media] \in {"ownStop", "failShutdown"}
  /\ lock["input"] = Media <=> pc[Media] # "idle"

\* What is connected is open, and connected if and only if it has callbacks and could
\* be connected, but for the two places where the holder of init_mutex is about to
\* make it so.
Open ==
  /\ connected => data
  /\ active => data
  /\ data => initialized
  /\ initialized => data \/ failed
  /\ \A o \in Outputs : pc[o] \in {"addCallback", "connect"} => data
  /\ (\A o \in Outputs : pc[o] \notin {"connect", "disconnect"})
       => (connected <=> callbacks # {} /\ ~unfed)
  /\ \A o \in Outputs : pc[o] = "connect" =>
       ~connected /\ callbacks = {o} /\ pc[Media] \in {"idle", "leave"}
  /\ \A o \in Outputs : pc[o] = "disconnect" => callbacks = {}
  /\ \A o \in Outputs : pc[o] = "shutdown" =>
       ~connected /\ callbacks = {} /\ pc[Media] = "idle"
  /\ pc[Media] \in {"encode", "deliver", "fail"} => connected
  /\ pc[Media] = "failShutdown" => ~connected /\ callbacks = {} /\ failed

\* An output on its way to its packets finds the encoder open, or knows why not.
Fed ==
  /\ \A o \in Outputs : pc[o] \in {"initialized", "enter"} =>
       data \/ o \in shut
  /\ \A o \in Outputs : pc[o] = "leaveStart" => o \in callbacks \cup shut
  /\ Served

\* After the release nobody starts, whoever stops still has a callback or never
\* got one, and one output is the last.
Winding ==
  /\ \A o \in Outputs : pc[o] \in {"stopped", "running", "enterStop",
                                   "removeCallback"} \cup Ending
  /\ \A o \in Outputs : pc[o] \in {"enterStop", "removeCallback"} =>
       o \in callbacks \/ o \in shut
  /\ \A o \in Outputs : pc[o] \in Ending => callbacks = {}
  /\ \A o, p \in Outputs : pc[o] \in Ending /\ pc[p] \in Ending => o = p
  /\ \A o \in Outputs : pc[o] = "destroy" => ~connected /\ pc[Media] = "idle"
  /\ destroyed => /\ callbacks = {} /\ ~connected /\ pc[Media] = "idle"
                  /\ \A o \in Outputs : pc[o] \notin Ending

Fate ==
  /\ ~released => ~destroyed /\ ~destroy_on_stop /\ ~early
  /\ \A o \in Outputs : pc[o] = "destroy" => released
  /\ released /\ ~early /\ ~own /\ ~failed => Winding

IInv == Typed /\ Held /\ Open /\ Fed /\ Fate

-----------------------------------------------------------------------------
(* One lemma for each part: every step preserves it.                       *)

\* Every step keeps the types.
LEMMA TypedKept == Typed /\ [Next]_vars => Typed'
<1> SUFFICES ASSUME Typed, [Next]_vars PROVE Typed'
  OBVIOUS
<1> USE EncoderAssumption DEF Typed, MediaPlaces, OutputPlaces, CallPlaces,
        Threads, Step, Free, Lock, Unlock, state, fate, history
<1>1. ASSUME NEW o \in Outputs, Initialize(o) PROVE Typed'
  BY <1>1 DEF Initialize
<1>2. ASSUME NEW o \in Outputs, BeginStop(o) PROVE Typed'
  BY <1>2 DEF BeginStop
<1>3. ASSUME NEW o \in Outputs, BeginCapture(o) PROVE Typed'
  BY <1>3 DEF BeginCapture
<1>4. ASSUME NEW o \in Outputs, EnterStart(o) PROVE Typed'
  BY <1>4 DEF EnterStart
<1>5. ASSUME NEW o \in Outputs, AddCallback(o) PROVE Typed'
  BY <1>5 DEF AddCallback
<1>6. ASSUME NEW o \in Outputs, Connect(o) PROVE Typed'
  <2>1. connected' \in BOOLEAN /\ active' = TRUE
    BY <1>6 DEF Connect
  <2>2. unfed' \in BOOLEAN
    BY <1>6 DEF Connect
  <2>3. /\ pc' \in [Threads -> MediaPlaces \cup OutputPlaces]
        /\ pc'[Media] = pc[Media]
        /\ \A p \in Outputs : pc'[p] \in OutputPlaces
    BY <1>6 DEF Connect
  <2>4. UNCHANGED <<data, initialized, callbacks, stopping, destroy_on_stop,
                    released, destroyed, early, own, failed, shut>>
    BY <1>6 DEF Connect
  <2> QED
    BY <2>1, <2>2, <2>3, <2>4
<1>7. ASSUME NEW o \in Outputs, LeaveStart(o) PROVE Typed'
  BY <1>7 DEF LeaveStart
<1>8. ASSUME NEW o \in Outputs, EnterStop(o) PROVE Typed'
  BY <1>8 DEF EnterStop
<1>9. ASSUME NEW o \in Outputs, RemoveCallback(o) PROVE Typed'
  <2>1. callbacks' \subseteq Outputs
    BY <1>9 DEF RemoveCallback
  <2>2. /\ pc' \in [Threads -> MediaPlaces \cup OutputPlaces]
        /\ pc'[Media] = pc[Media]
        /\ \A p \in Outputs : pc'[p] \in OutputPlaces
    BY <1>9 DEF RemoveCallback
  <2>3. UNCHANGED <<data, initialized, active, connected, stopping, destroy_on_stop,
                    released, destroyed, early, own, failed, shut, unfed>>
    BY <1>9 DEF RemoveCallback
  <2> QED
    BY <2>1, <2>2, <2>3
<1>10. ASSUME NEW o \in Outputs, Disconnect(o) PROVE Typed'
  <2>1. connected' \in BOOLEAN
    BY <1>10 DEF Disconnect, DisconnectInput
  <2>2. /\ pc' \in [Threads -> MediaPlaces \cup OutputPlaces]
        /\ pc'[Media] = pc[Media]
        /\ \A p \in Outputs : pc'[p] \in OutputPlaces
    BY <1>10 DEF Disconnect
  <2>3. UNCHANGED <<data, initialized, active, callbacks, stopping, destroy_on_stop,
                    released, destroyed, early, own, failed, shut, unfed>>
    BY <1>10 DEF Disconnect
  <2> QED
    BY <2>1, <2>2, <2>3
<1>11. ASSUME NEW o \in Outputs, Shutdown(o) PROVE Typed'
  <2>1. data' \in BOOLEAN /\ active' \in BOOLEAN /\ initialized' \in BOOLEAN
    BY <1>11 DEF Shutdown, CloseEncoder, ResetInitialized
  <2>2. shut' \subseteq Outputs
    <3>1. shut' = shut \cup Starting
      BY <1>11 DEF Shutdown, CloseEncoder
    <3> QED
      BY <3>1 DEF Starting
  <2>3. /\ pc' \in [Threads -> MediaPlaces \cup OutputPlaces]
        /\ pc'[Media] = pc[Media]
        /\ \A p \in Outputs : pc'[p] \in OutputPlaces
    BY <1>11 DEF Shutdown
  <2>4. UNCHANGED <<callbacks, connected, stopping, destroy_on_stop, released,
                    destroyed, early, own, failed, unfed>>
    BY <1>11 DEF Shutdown
  <2> QED
    BY <2>1, <2>2, <2>3, <2>4
<1>12. ASSUME NEW o \in Outputs, Destroy(o) PROVE Typed'
  BY <1>12 DEF Destroy
<1>13. ASSUME NEW o \in Delayed, DeliverStop(o) PROVE Typed'
  BY <1>13 DEF DeliverStop
<1>14. CASE Release
  <2>1. destroy_on_stop' \in BOOLEAN /\ destroyed' \in BOOLEAN
    BY <1>14 DEF Release
  <2>2. released' \in BOOLEAN
    BY <1>14 DEF Release
  <2>3. early' \in BOOLEAN
    BY <1>14, Zenon DEF Release
  <2>4. UNCHANGED <<data, initialized, active, callbacks, connected, pc, stopping, own,
                    failed, shut, unfed>>
    BY <1>14 DEF Release
  <2> QED
    BY <2>1, <2>2, <2>3, <2>4
<1>15. CASE Receive
  BY <1>15 DEF Receive
<1>16. CASE Encode
  BY <1>16 DEF Encode
<1>17. CASE Deliver
  BY <1>17 DEF Deliver
<1>18. CASE OwnStop
  BY <1>18 DEF OwnStop, IsLast, CloseEncoder, Starting
<1>19. CASE Fail
  BY <1>19 DEF Fail
<1>2a. CASE FailShutdown
  BY <1>2a DEF FailShutdown, CloseEncoder, Starting
<1>21. CASE Leave
  BY <1>21 DEF Leave
<1>22. CASE UNCHANGED vars
  BY <1>22 DEF vars
<1> QED
  BY <1>1, <1>2, <1>3, <1>4, <1>5, <1>6, <1>7, <1>8, <1>9, <1>10, <1>11,
     <1>12, <1>13, <1>14, <1>15, <1>16, <1>17, <1>18, <1>19, <1>2a, <1>21,
     <1>22
     DEF Next, Call, Work

\* A mutex is held exactly where the code is between its lock and its unlock.
LEMMA HeldKept == Typed /\ Held /\ [Next]_vars => Held'
<1> SUFFICES ASSUME Typed, Held, [Next]_vars PROVE Held'
  OBVIOUS
<1> USE EncoderAssumption DEF Typed, Held, Unlocked, MediaPlaces,
        OutputPlaces, CallPlaces, Threads, Step, Free, Lock, Unlock, state, fate,
        history
<1>1. ASSUME NEW o \in Outputs, Initialize(o) PROVE Held'
  BY <1>1 DEF Initialize
<1>2. ASSUME NEW o \in Outputs, BeginStop(o) PROVE Held'
  BY <1>2 DEF BeginStop
<1>3. ASSUME NEW o \in Outputs, BeginCapture(o) PROVE Held'
  BY <1>3 DEF BeginCapture
<1>4. ASSUME NEW o \in Outputs, EnterStart(o) PROVE Held'
  BY <1>4 DEF EnterStart
<1>5. ASSUME NEW o \in Outputs, AddCallback(o) PROVE Held'
  BY <1>5 DEF AddCallback
<1>6. ASSUME NEW o \in Outputs, Connect(o) PROVE Held'
  BY <1>6 DEF Connect
<1>7. ASSUME NEW o \in Outputs, LeaveStart(o) PROVE Held'
  BY <1>7 DEF LeaveStart
<1>8. ASSUME NEW o \in Outputs, EnterStop(o) PROVE Held'
  BY <1>8 DEF EnterStop
<1>9. ASSUME NEW o \in Outputs, RemoveCallback(o) PROVE Held'
  BY <1>9 DEF RemoveCallback, IsLast, UnlockInit
<1>10. ASSUME NEW o \in Outputs, Disconnect(o) PROVE Held'
  BY <1>10 DEF Disconnect, DisconnectInput
<1>11. ASSUME NEW o \in Outputs, Shutdown(o) PROVE Held'
  BY <1>11 DEF Shutdown, CloseEncoder, ResetInitialized, Starting
<1>12. ASSUME NEW o \in Outputs, Destroy(o) PROVE Held'
  BY <1>12 DEF Destroy
<1>13. ASSUME NEW o \in Delayed, DeliverStop(o) PROVE Held'
  BY <1>13 DEF DeliverStop
<1>14. CASE Release
  BY <1>14 DEF Release, Unused, Starting, InCall
<1>15. CASE Receive
  BY <1>15 DEF Receive
<1>16. CASE Encode
  BY <1>16 DEF Encode
<1>17. CASE Deliver
  BY <1>17 DEF Deliver
<1>18. CASE OwnStop
  BY <1>18 DEF OwnStop, IsLast, CloseEncoder, Starting
<1>19. CASE Fail
  BY <1>19 DEF Fail
<1>2a. CASE FailShutdown
  BY <1>2a DEF FailShutdown, CloseEncoder, Starting
<1>21. CASE Leave
  BY <1>21 DEF Leave
<1>22. CASE UNCHANGED vars
  BY <1>22 DEF vars
<1> QED
  BY <1>1, <1>2, <1>3, <1>4, <1>5, <1>6, <1>7, <1>8, <1>9, <1>10, <1>11,
     <1>12, <1>13, <1>14, <1>15, <1>16, <1>17, <1>18, <1>19, <1>2a, <1>21,
     <1>22
     DEF Next, Call, Work

\* Opening, connecting and their opposites keep to each other, because init_mutex
\* is held over all of them but full_stop.
LEMMA OpenKept == Typed /\ Held /\ Open /\ [Next]_vars => Open'
<1> SUFFICES ASSUME Typed, Held, Open, [Next]_vars PROVE Open'
  OBVIOUS
<1> USE EncoderAssumption DEF Typed, Held, Open, Unlocked, MediaPlaces,
        OutputPlaces, CallPlaces, Threads, Step, Free, Lock, Unlock, state, fate,
        history
<1>1. ASSUME NEW o \in Outputs, Initialize(o) PROVE Open'
  BY <1>1 DEF Initialize
<1>2. ASSUME NEW o \in Outputs, BeginStop(o) PROVE Open'
  BY <1>2 DEF BeginStop
<1>3. ASSUME NEW o \in Outputs, BeginCapture(o) PROVE Open'
  BY <1>3 DEF BeginCapture
<1>4. ASSUME NEW o \in Outputs, EnterStart(o) PROVE Open'
  BY <1>4 DEF EnterStart
<1>5. ASSUME NEW o \in Outputs, AddCallback(o) PROVE Open'
  BY <1>5 DEF AddCallback
<1>6. ASSUME NEW o \in Outputs, Connect(o) PROVE Open'
  BY <1>6 DEF Connect
<1>7. ASSUME NEW o \in Outputs, LeaveStart(o) PROVE Open'
  BY <1>7 DEF LeaveStart
<1>8. ASSUME NEW o \in Outputs, EnterStop(o) PROVE Open'
  BY <1>8 DEF EnterStop
<1>9. ASSUME NEW o \in Outputs, RemoveCallback(o) PROVE Open'
  BY <1>9 DEF RemoveCallback, IsLast, UnlockInit
<1>10. ASSUME NEW o \in Outputs, Disconnect(o) PROVE Open'
  BY <1>10 DEF Disconnect, DisconnectInput
<1>11. ASSUME NEW o \in Outputs, Shutdown(o) PROVE Open'
  BY <1>11 DEF Shutdown, CloseEncoder, ResetInitialized, Starting
<1>12. ASSUME NEW o \in Outputs, Destroy(o) PROVE Open'
  BY <1>12 DEF Destroy
<1>13. ASSUME NEW o \in Delayed, DeliverStop(o) PROVE Open'
  BY <1>13 DEF DeliverStop
<1>14. CASE Release
  BY <1>14 DEF Release, Unused, Starting, InCall
<1>15. CASE Receive
  BY <1>15 DEF Receive
<1>16. CASE Encode
  BY <1>16 DEF Encode
<1>17. CASE Deliver
  BY <1>17 DEF Deliver
<1>18. CASE OwnStop
  BY <1>18 DEF OwnStop, IsLast, CloseEncoder, Starting
<1>19. CASE Fail
  BY <1>19 DEF Fail
<1>2a. CASE FailShutdown
  BY <1>2a DEF FailShutdown, CloseEncoder, Starting
<1>21. CASE Leave
  BY <1>21 DEF Leave
<1>22. CASE UNCHANGED vars
  BY <1>22 DEF vars
<1> QED
  BY <1>1, <1>2, <1>3, <1>4, <1>5, <1>6, <1>7, <1>8, <1>9, <1>10, <1>11,
     <1>12, <1>13, <1>14, <1>15, <1>16, <1>17, <1>18, <1>19, <1>2a, <1>21,
     <1>22
     DEF Next, Call, Work

\* Nobody closes the encoder under an output that has a callback.
LEMMA FedKept == Typed /\ Held /\ Open /\ Fed /\ [Next]_vars => Fed'
<1> SUFFICES ASSUME Typed, Held, Open, Fed, [Next]_vars PROVE Fed'
  OBVIOUS
<1> USE EncoderAssumption DEF Typed, Held, Open, Fed, Served, Unlocked,
        MediaPlaces, OutputPlaces, CallPlaces, Threads, Step, Free, Lock, Unlock,
        state, fate, history
<1>1. ASSUME NEW o \in Outputs, Initialize(o) PROVE Fed'
  BY <1>1 DEF Initialize
<1>2. ASSUME NEW o \in Outputs, BeginStop(o) PROVE Fed'
  BY <1>2 DEF BeginStop
<1>3. ASSUME NEW o \in Outputs, BeginCapture(o) PROVE Fed'
  BY <1>3 DEF BeginCapture
<1>4. ASSUME NEW o \in Outputs, EnterStart(o) PROVE Fed'
  BY <1>4 DEF EnterStart
<1>5. ASSUME NEW o \in Outputs, AddCallback(o) PROVE Fed'
  BY <1>5 DEF AddCallback
<1>6. ASSUME NEW o \in Outputs, Connect(o) PROVE Fed'
  BY <1>6 DEF Connect
<1>7. ASSUME NEW o \in Outputs, LeaveStart(o) PROVE Fed'
  BY <1>7 DEF LeaveStart
<1>8. ASSUME NEW o \in Outputs, EnterStop(o) PROVE Fed'
  BY <1>8 DEF EnterStop
<1>9. ASSUME NEW o \in Outputs, RemoveCallback(o) PROVE Fed'
  BY <1>9 DEF RemoveCallback, IsLast, UnlockInit
<1>10. ASSUME NEW o \in Outputs, Disconnect(o) PROVE Fed'
  BY <1>10 DEF Disconnect, DisconnectInput
<1>11. ASSUME NEW o \in Outputs, Shutdown(o) PROVE Fed'
  BY <1>11 DEF Shutdown, CloseEncoder, ResetInitialized, Starting
<1>12. ASSUME NEW o \in Outputs, Destroy(o) PROVE Fed'
  BY <1>12 DEF Destroy
<1>13. ASSUME NEW o \in Delayed, DeliverStop(o) PROVE Fed'
  BY <1>13 DEF DeliverStop
<1>14. CASE Release
  BY <1>14 DEF Release, Unused, Starting, InCall
<1>15. CASE Receive
  BY <1>15 DEF Receive
<1>16. CASE Encode
  BY <1>16 DEF Encode
<1>17. CASE Deliver
  BY <1>17 DEF Deliver
<1>18. CASE OwnStop
  BY <1>18 DEF OwnStop, IsLast, CloseEncoder, Starting
<1>19. CASE Fail
  BY <1>19 DEF Fail
<1>20. CASE FailShutdown
  BY <1>20 DEF FailShutdown, CloseEncoder, Starting
<1>21. CASE Leave
  BY <1>21 DEF Leave
<1>22. CASE UNCHANGED vars
  BY <1>22 DEF vars
<1> QED
  BY <1>1, <1>2, <1>3, <1>4, <1>5, <1>6, <1>7, <1>8, <1>9, <1>10, <1>11,
     <1>12, <1>13, <1>14, <1>15, <1>16, <1>17, <1>18, <1>19, <1>20, <1>21,
     <1>22
     DEF Next, Call, Work

\* After the release the outputs leave one by one, and the last one destroys.
LEMMA FateKept == IInv /\ [Next]_vars => Fate'
<1> SUFFICES ASSUME IInv, [Next]_vars PROVE Fate'
  OBVIOUS
<1> USE EncoderAssumption DEF IInv, Typed, Held, Open, Fed, Served, Fate,
        Winding, Ending, Unlocked, MediaPlaces, OutputPlaces, CallPlaces, Threads,
        Step, Free, Lock, Unlock, state, fate, history
<1>1. ASSUME NEW o \in Outputs, Initialize(o) PROVE Fate'
  BY <1>1 DEF Initialize
<1>2. ASSUME NEW o \in Outputs, BeginStop(o) PROVE Fate'
  BY <1>2 DEF BeginStop
<1>3. ASSUME NEW o \in Outputs, BeginCapture(o) PROVE Fate'
  BY <1>3 DEF BeginCapture
<1>4. ASSUME NEW o \in Outputs, EnterStart(o) PROVE Fate'
  BY <1>4 DEF EnterStart
<1>5. ASSUME NEW o \in Outputs, AddCallback(o) PROVE Fate'
  BY <1>5 DEF AddCallback
<1>6. ASSUME NEW o \in Outputs, Connect(o) PROVE Fate'
  BY <1>6 DEF Connect
<1>7. ASSUME NEW o \in Outputs, LeaveStart(o) PROVE Fate'
  BY <1>7 DEF LeaveStart
<1>8. ASSUME NEW o \in Outputs, EnterStop(o) PROVE Fate'
  BY <1>8 DEF EnterStop
<1>9. ASSUME NEW o \in Outputs, RemoveCallback(o) PROVE Fate'
  BY <1>9 DEF RemoveCallback, IsLast, UnlockInit
<1>10. ASSUME NEW o \in Outputs, Disconnect(o) PROVE Fate'
  BY <1>10 DEF Disconnect, DisconnectInput
<1>11. ASSUME NEW o \in Outputs, Shutdown(o) PROVE Fate'
  BY <1>11 DEF Shutdown, CloseEncoder, ResetInitialized, Starting
<1>12. ASSUME NEW o \in Outputs, Destroy(o) PROVE Fate'
  BY <1>12 DEF Destroy
<1>13. ASSUME NEW o \in Delayed, DeliverStop(o) PROVE Fate'
  BY <1>13 DEF DeliverStop
<1>14. CASE Release
  BY <1>14 DEF Release, Unused, Starting, InCall
<1>15. CASE Receive
  BY <1>15 DEF Receive
<1>16. CASE Encode
  BY <1>16 DEF Encode
<1>17. CASE Deliver
  BY <1>17 DEF Deliver
<1>18. CASE OwnStop
  BY <1>18 DEF OwnStop, IsLast, CloseEncoder, Starting
<1>19. CASE Fail
  BY <1>19 DEF Fail
<1>20. CASE FailShutdown
  BY <1>20 DEF FailShutdown, CloseEncoder, Starting
<1>21. CASE Leave
  BY <1>21 DEF Leave
<1>22. CASE UNCHANGED vars
  BY <1>22 DEF vars
<1> QED
  BY <1>1, <1>2, <1>3, <1>4, <1>5, <1>6, <1>7, <1>8, <1>9, <1>10, <1>11,
     <1>12, <1>13, <1>14, <1>15, <1>16, <1>17, <1>18, <1>19, <1>20, <1>21,
     <1>22
     DEF Next, Call, Work

-----------------------------------------------------------------------------

LEMMA Start == Init => IInv
  BY EncoderAssumption
     DEF Init, IInv, Typed, Held, Open, Fed, Served, Fate, Winding, MediaPlaces,
         OutputPlaces, CallPlaces, Threads, Unlocked

\* The invariant holds in every state of every behaviour.
THEOREM Consistent == Spec => []IInv
<1>1. IInv /\ [Next]_vars => IInv'
  BY TypedKept, HeldKept, OpenKept, FedKept, FateKept DEF IInv
<1> QED
  BY <1>1, Start, PTL DEF Spec

\* Types, and which thread holds which mutex where: a mutex is taken and given up
\* on every path of obs_encoder_start and obs_encoder_stop.
THEOREM TypeCorrect == Spec => []TypeOK
<1>1. IInv => TypeOK
  BY DEF IInv, Typed, Held, TypeOK, InCall, MediaPlaces, OutputPlaces, CallPlaces
<1> QED
  BY <1>1, Consistent, PTL

\* Frames are encoded by an open encoder, which is connected while it has callbacks
\* unless connecting failed; and an output that runs has its callback there, unless
\* the encoder was closed under it since it initialized it, or before by a failure.
THEOREM OpenAndServedHolds == Spec => []OpenAndServed
<1>1. IInv => OpenWhileEncoding
  <2>1. SUFFICES ASSUME IInv PROVE OpenWhileEncoding
    OBVIOUS
  <2>2. pc[Media] = "encode" => data
    BY <2>1 DEF IInv, Open
  <2>3. Free("init") => \A o \in Outputs : pc[o] \notin {"connect", "disconnect"}
    BY <2>1, EncoderAssumption DEF IInv, Held, Free, CallPlaces, Unlocked
  <2>4. Free("init") => (connected <=> callbacks # {} /\ ~unfed)
    BY <2>1, <2>3 DEF IInv, Open
  <2>5. connected \in BOOLEAN /\ unfed \in BOOLEAN
    BY <2>1 DEF IInv, Typed
  <2> QED
    BY <2>2, <2>4, <2>5 DEF OpenWhileEncoding
<1>2. IInv => Served
  BY DEF IInv, Fed
<1> QED
  BY <1>1, <1>2, Consistent, PTL DEF OpenAndServed

\* Unless the release, a failure or a callback that stops its own output comes in
\* the middle of a call, the encoder is destroyed when nobody uses it any more.
THEOREM NoUseAfterDestroyHolds == Spec => []NoUseAfterDestroy
<1>1. IInv => NoUseAfterDestroy
  <2>1. SUFFICES ASSUME IInv, destroyed, ~early, ~own, ~failed
                 PROVE  /\ pc[Media] = "idle"
                        /\ \A o \in Outputs : InCall(o) => o \in shut
    BY DEF NoUseAfterDestroy
  <2>2. Winding
    BY <2>1 DEF IInv, Fate
  <2>3. ASSUME NEW o \in Outputs, InCall(o) PROVE o \in shut
    <3>1. pc[o] \in {"enterStop", "removeCallback"}
      BY <2>1, <2>2, <2>3 DEF Winding, InCall, Ending
    <3> QED
      BY <2>1, <2>2, <3>1 DEF Winding
  <2> QED
    BY <2>1, <2>2, <2>3 DEF Winding
<1> QED
  BY <1>1, Consistent, PTL

-----------------------------------------------------------------------------
(* AvSync.  The samples.                                                   *)

\* How a number of ticks is divided into samples.
LEMMA Division ==
  ASSUME NEW n \in Nat, NEW d \in Nat \ {0}
  PROVE  /\ n \div d \in Nat /\ (n \div d) * d \in Nat
         /\ (n \div d) * d <= n /\ n < (n \div d) * d + d
OBVIOUS

\* Whole frames and whole frames are whole frames.
LEMMA WholeFrames ==
  ASSUME NEW a \in Nat, NEW b \in Nat, NEW d \in Nat \ {0}, a % d = 0
  PROVE  (a + b * d) % d = 0
<1>1. \A n \in Nat : (n * d) % d = 0
  OBVIOUS
<1> DEFINE q == a \div d
<1>2. a = q * d /\ q \in Nat
  OBVIOUS
<1> HIDE DEF q
<1>3. a + b * d = (q + b) * d /\ q + b \in Nat
  BY <1>2
<1> QED
  BY <1>1, <1>3

\* What is assumed of the constants.
LEMMA SyncConstants ==
  /\ Period \in Nat \ {0} /\ Chunk \in Nat \ {0} /\ framesize \in Nat \ {0}
  /\ FrameInterval \in Nat \ {0} /\ Starts \subseteq Nat \ {0}
BY AvSyncAssumption DEF AvSyncAssumption

\* Leaving out the first n of a sequence.
LEMMA WithoutIs ==
  ASSUME NEW s \in Seq(Nat), NEW n \in 0 .. Len(s)
  PROVE  /\ Without(s, n) \in Seq(Nat) /\ Len(Without(s, n)) = Len(s) - n
         /\ \A k \in 1 .. Len(s) - n : Without(s, n)[k] = s[n + k]
<1>1. Len(s) \in Nat /\ n \in Nat /\ n + 1 \in Int /\ \A i \in 1 .. Len(s) : s[i] \in Nat
  BY LenProperties, ElementOfSeq
<1>2. \A i \in n + 1 .. Len(s) : s[i] \in Nat
  BY <1>1
<1>3. /\ SubSeq(s, n + 1, Len(s)) \in Seq(Nat)
      /\ Len(SubSeq(s, n + 1, Len(s))) = IF n + 1 <= Len(s) THEN Len(s) - (n + 1) + 1 ELSE 0
      /\ \A i \in 1 .. Len(s) - (n + 1) + 1 :
           SubSeq(s, n + 1, Len(s))[i] = s[n + 1 + i - 1]
  BY <1>1, <1>2, SubSeqProperties
<1>4. \A k \in 1 .. Len(s) - n : k \in 1 .. Len(s) - (n + 1) + 1 /\ n + 1 + k - 1 = n + k
  BY <1>1
<1> QED
  BY <1>1, <1>3, <1>4 DEF Without

\* The chunk is the Chunk samples from sample on.
LEMMA DataIs ==
  ASSUME sample \in Nat
  PROVE  /\ Data \in Seq(Nat) /\ Len(Data) = Chunk
         /\ \A k \in 1 .. Chunk : Data[k] = sample + k - 1
<1>1. Data \in [1 .. Chunk -> Nat] /\ Chunk \in Nat
  BY SyncConstants DEF Data
<1>2. Data \in Seq(Nat)
  BY <1>1, SeqDef
<1>3. Len(Data) = Chunk
  BY <1>1, <1>2, LenProperties
<1> QED
  BY <1>2, <1>3 DEF Data

\* What is encoded are whole frames.
Framed(s) == Len(s) % framesize = 0

\* A frame of audio after another is taken from what there is: the samples keep
\* their places, counted over what is encoded and what stays.
LEMMA Sent ==
  ASSUME NEW samples \in Seq(Nat), NEW ts \in Nat,
         encoded \in Seq(Nat), Framed(encoded), SendAudioData(samples, ts)
  PROVE  \E full \in 0 .. Len(samples) :
           /\ encoded' \in Seq(Nat) /\ Len(encoded') = Len(encoded) + full
           /\ Framed(encoded')
           /\ \A k \in 1 .. Len(encoded) : encoded'[k] = encoded[k]
           /\ \A k \in 1 .. full : encoded'[Len(encoded) + k] = samples[k]
           /\ audio' = [audio EXCEPT !.buffer = Without(samples, full),
                                     !.start_ts = ts]
           /\ Len(samples) - full < framesize
<1> DEFINE n == Len(samples)
           full == (n \div framesize) * framesize
           sent == SubSeq(samples, 1, full)
<1>1. framesize \in Nat \ {0} /\ n \in Nat /\ \A i \in 1 .. n : samples[i] \in Nat
  BY SyncConstants, LenProperties, ElementOfSeq
<1>2. full \in 0 .. n /\ n - full < framesize /\ n \div framesize \in Nat
  <2> HIDE DEF n, full
  <2>1. /\ n \div framesize \in Nat /\ full \in Nat
        /\ full <= n /\ n < full + framesize
    BY <1>1, Division DEF full
  <2> QED
    BY <1>1, <2>1
<1>3. encoded' = encoded \o sent
      /\ audio' = [audio EXCEPT !.buffer = Without(samples, full), !.start_ts = ts]
  BY DEF SendAudioData
<1>4. Len(encoded) \in Nat
  BY LenProperties
<1>5. (Len(encoded) + full) % framesize = 0
  BY <1>1, <1>2, <1>4, WholeFrames DEF Framed
<1> HIDE DEF n, full
<1>6. sent \in Seq(Nat) /\ Len(sent) = full /\ \A k \in 1 .. full : sent[k] = samples[k]
  <2>1. \A i \in 1 .. full : samples[i] \in Nat
    BY <1>1, <1>2
  <2>2. /\ sent \in Seq(Nat)
        /\ Len(sent) = IF 1 <= full THEN full - 1 + 1 ELSE 0
        /\ \A i \in 1 .. full - 1 + 1 : sent[i] = samples[1 + i - 1]
    BY <1>2, <2>1, SubSeqProperties
  <2> QED
    BY <1>2, <2>2
<1> HIDE DEF sent
<1>7. /\ encoded' \in Seq(Nat) /\ Len(encoded') = Len(encoded) + full
      /\ \A i \in 1 .. Len(encoded) + full :
           encoded'[i] = IF i <= Len(encoded) THEN encoded[i] ELSE sent[i - Len(encoded)]
  <2>1. /\ encoded \o sent \in Seq(Nat) /\ Len(encoded \o sent) = Len(encoded) + Len(sent)
        /\ \A i \in 1 .. Len(encoded) + Len(sent) : (encoded \o sent)[i] =
             IF i <= Len(encoded) THEN encoded[i] ELSE sent[i - Len(encoded)]
    BY <1>6, ConcatProperties
  <2>2. encoded' = encoded \o sent /\ Len(sent) = full
    BY <1>3, <1>6
  <2> QED
    BY <2>1, <2>2
<1>8. \A k \in 1 .. Len(encoded) : encoded'[k] = encoded[k]
  <2> SUFFICES ASSUME NEW k \in 1 .. Len(encoded) PROVE encoded'[k] = encoded[k]
    OBVIOUS
  <2>1. k \in 1 .. Len(encoded) + full /\ k <= Len(encoded)
    BY <1>2, <1>4
  <2> QED
    BY <1>7, <2>1
<1>9. \A k \in 1 .. full : encoded'[Len(encoded) + k] = samples[k]
  <2> SUFFICES ASSUME NEW k \in 1 .. full PROVE encoded'[Len(encoded) + k] = samples[k]
    OBVIOUS
  <2>1. /\ Len(encoded) + k \in 1 .. Len(encoded) + full
        /\ ~(Len(encoded) + k <= Len(encoded)) /\ (Len(encoded) + k) - Len(encoded) = k
    BY <1>2, <1>4
  <2> QED
    BY <1>6, <1>7, <2>1
<1>10. Framed(encoded')
  BY <1>5, <1>7 DEF Framed
<1> QED
  BY <1>2, <1>3, <1>7, <1>8, <1>9, <1>10 DEF n

-----------------------------------------------------------------------------
(* The inductive invariant.                                                *)

AudioType == [first_received : BOOLEAN, first_raw_ts : Nat, start_ts : Nat,
              paired : BOOLEAN, buffer : Seq(Nat)]

SyncTyped ==
  /\ audio \in AudioType
  /\ video \in Nat /\ audioPc \in {"idle", "buffer"}
  /\ sample \in Nat \ {0} /\ frame \in Nat \ {0}
  /\ encoded \in Seq(Nat) /\ dropped \in Seq(Nat)
  /\ audio.start_ts # 0 => Len(audio.buffer) < framesize
  /\ Framed(encoded)

\* These samples are those from the one whose time is ts to the one before s.
Consecutive(samples, ts, s) ==
  /\ Len(samples) <= s
  /\ ts = TimeOf(s - Len(samples))
  /\ \A k \in 1 .. Len(samples) : samples[k] = s - Len(samples) + k - 1

\* Before audio starts what is buffered are the samples from the one whose time
\* is first_raw_ts to the one before the next chunk.
Buffered ==
  audio.start_ts = 0 =>
    /\ encoded = <<>> /\ dropped = <<>>
    /\ ~(audio.first_received /\ audio.paired) => audio.buffer = <<>>
    /\ audio.first_received /\ audio.paired =>
         Consecutive(audio.buffer, audio.first_raw_ts, sample)

\* A sample s that is to be the k-th of a stream that starts at start is heard in
\* time, when the chunk d was not pushed.
OnTime(s, k, start, d) ==
  LET gap == IF d # <<>> /\ s > Last(d) THEN Chunk * Period ELSE 0
      due == start + (k - 1) * Period + gap
  IN  TimeOf(s) <= due /\ due < TimeOf(s) + Period

\* Once audio has started, what is encoded, what waits for a whole frame and what
\* comes next are in time.
Running ==
  audio.start_ts # 0 =>
    /\ audio.first_received
    /\ \A k \in 1 .. Len(encoded) : OnTime(encoded[k], k, audio.start_ts, dropped)
    /\ \A k \in 1 .. Len(audio.buffer) :
         OnTime(audio.buffer[k], Len(encoded) + k, audio.start_ts, dropped)
    /\ OnTime(sample, Len(encoded) + Len(audio.buffer) + 1, audio.start_ts, dropped)
    /\ dropped # <<>> => Last(dropped) < sample

\* Video starts behind the first sample, and audio where video did.
Paired ==
  /\ audioPc = "buffer" => audio.first_received
  /\ audio.paired => /\ video # 0 => /\ audio.first_received
                                     /\ audio.first_raw_ts <= video
                     /\ audio.start_ts # 0 => audio.start_ts = video

SyncInv == SyncTyped /\ Buffered /\ Running /\ Paired

-----------------------------------------------------------------------------
(* Steps.                                                                  *)

\* Samples that follow one in time are in time.
LEMMA NextOnTime ==
  ASSUME NEW s \in Nat, NEW k \in Nat \ {0},
         NEW start \in Nat, NEW d \in Seq(Nat), NEW n \in Nat,
         OnTime(s, k, start, d), d # <<>> => Last(d) < s
  PROVE  OnTime(s + n, k + n, start, d)
<1>1. Period \in Nat \ {0} /\ Chunk \in Nat \ {0}
  BY SyncConstants
<1>2. d # <<>> => Last(d) \in Nat
  <2>1. d # <<>> => Len(d) \in 1 .. Len(d)
    BY EmptySeq, LenProperties
  <2> QED
    BY <2>1, ElementOfSeq DEF Last
<1> DEFINE gap(x) == IF d # <<>> /\ x > Last(d) THEN Chunk * Period ELSE 0
<1>3. gap(s + n) = gap(s)
  BY <1>2
<1>4. gap(s) \in Nat
  BY <1>1
<1>5. /\ TimeOf(s + n) = TimeOf(s) + n * Period
      /\ TimeOf(s) \in Nat /\ n * Period \in Nat
  BY <1>1 DEF TimeOf
<1>6. (k + n - 1) * Period = (k - 1) * Period + n * Period /\ (k - 1) * Period \in Nat
  BY <1>1
<1>7. /\ TimeOf(s) <= start + (k - 1) * Period + gap(s)
      /\ start + (k - 1) * Period + gap(s) < TimeOf(s) + Period
  BY DEF OnTime
<1> HIDE DEF gap
<1>8. /\ TimeOf(s + n) <= start + (k + n - 1) * Period + gap(s + n)
      /\ start + (k + n - 1) * Period + gap(s + n) < TimeOf(s + n) + Period
  BY <1>1, <1>3, <1>4, <1>5, <1>6, <1>7
<1> QED
  BY <1>8 DEF OnTime, gap

\* The same for the first sample of a stream from which nothing was dropped.
LEMMA FirstOnTime ==
  ASSUME NEW s \in Nat, NEW start \in Nat, OnTime(s, 1, start, <<>>)
  PROVE  \A n \in Nat : OnTime(s + n, 1 + n, start, <<>>)
<1>1. <<>> \in Seq(Nat)
  BY EmptySeq
<1> SUFFICES ASSUME NEW n \in Nat PROVE OnTime(s + n, 1 + n, start, <<>>)
  OBVIOUS
<1>2. 1 \in Nat \ {0} /\ (<<>> # <<>> => Last(<<>>) < s)
  OBVIOUS
<1> DEFINE d == <<>>
<1> HIDE DEF d
<1>3. d = <<>>
  BY DEF d
<1> QED
  BY <1>1, <1>2, <1>3, NextOnTime

\* A chunk that is not pushed leaves what is before it, and what follows takes its
\* place.
LEMMA ChunkDropped ==
  ASSUME NEW s \in Nat, NEW k \in Nat \ {0},
         NEW start \in Nat, NEW d, d # <<>>, Last(d) \in Nat, OnTime(s, k, start, <<>>)
  PROVE  /\ s <= Last(d) => OnTime(s, k, start, d)
         /\ Last(d) < s + Chunk => OnTime(s + Chunk, k, start, d)
<1>1. /\ Period \in Nat \ {0} /\ TimeOf(s) \in Nat /\ Chunk * Period \in Nat
      /\ TimeOf(s + Chunk) = TimeOf(s) + Chunk * Period
      /\ (k - 1) * Period \in Nat
  BY SyncConstants DEF TimeOf
<1> DEFINE due == start + (k - 1) * Period
<1>2. TimeOf(s) <= due + 0 /\ due + 0 < TimeOf(s) + Period /\ due \in Nat
  BY <1>1 DEF OnTime
<1>3. ASSUME s <= Last(d) PROVE OnTime(s, k, start, d)
  <2>1. ~(s > Last(d))
    BY <1>3
  <2> QED
    BY <1>2, <2>1 DEF OnTime
<1>4. ASSUME Last(d) < s + Chunk PROVE OnTime(s + Chunk, k, start, d)
  <2>1. s + Chunk > Last(d)
    BY <1>4, SyncConstants
  <2> HIDE DEF due
  <2>2. /\ TimeOf(s + Chunk) <= due + Chunk * Period
        /\ due + Chunk * Period < TimeOf(s + Chunk) + Period
    BY <1>1, <1>2
  <2> QED
    BY <2>1, <2>2 DEF OnTime, due
<1> QED
  BY <1>3, <1>4

\* How far v is behind a, in samples.
LEMMA OffsetIs ==
  ASSUME NEW v \in Nat, NEW s \in Nat, TimeOf(s) <= v
  PROVE  /\ Offset(v, TimeOf(s)) \in Nat
         /\ OnTime(s + Offset(v, TimeOf(s)), 1, v, <<>>)
         /\ \A n \in Nat : v < TimeOf(s + n) => Offset(v, TimeOf(s)) < n
<1> DEFINE q == Offset(v, TimeOf(s))
<1>1. Period \in Nat \ {0} /\ TimeOf(s) \in Nat /\ v - TimeOf(s) \in Nat
  BY SyncConstants DEF TimeOf
<1>2. /\ q \in Nat /\ q * Period \in Nat
      /\ q * Period <= v - TimeOf(s) /\ v - TimeOf(s) < q * Period + Period
  BY <1>1, Division DEF Offset
<1> HIDE DEF q
<1>3. TimeOf(s + q) = TimeOf(s) + q * Period
  BY <1>1, <1>2 DEF TimeOf
<1>4. OnTime(s + q, 1, v, <<>>)
  <2>1. v + (1 - 1) * Period + 0 = v
    BY <1>1
  <2>2. TimeOf(s + q) <= v /\ v < TimeOf(s + q) + Period
    BY <1>1, <1>2, <1>3
  <2> QED
    BY <2>1, <2>2 DEF OnTime
<1>5. ASSUME NEW n \in Nat, v < TimeOf(s + n) PROVE q < n
  <2>1. TimeOf(s + n) = TimeOf(s) + n * Period /\ n * Period \in Nat
    BY <1>1 DEF TimeOf
  <2>2. q * Period < n * Period
    BY <1>1, <1>2, <1>5, <2>1
  <2> QED
    BY <1>1, <1>2, <2>2
<1> QED
  BY <1>2, <1>4, <1>5 DEF q

\* Samples that are sent and leave the rest on time.
LEMMA Playing ==
  ASSUME SyncInv, NEW samples \in Seq(Nat),
         NEW ts \in Nat \ {0}, NEW d \in Seq(Nat),
         EndAudio, SendAudioData(samples, ts), dropped' = d,
         audio.paired => ts = video,
         \A k \in 1 .. Len(encoded) : OnTime(encoded[k], k, ts, d),
         \A k \in 1 .. Len(samples) : OnTime(samples[k], Len(encoded) + k, ts, d),
         OnTime(sample + Chunk, Len(encoded) + Len(samples) + 1, ts, d),
         d # <<>> => Last(d) < sample + Chunk
  PROVE  SyncInv'
<1>1. PICK full \in 0 .. Len(samples) :
        /\ encoded' \in Seq(Nat) /\ Len(encoded') = Len(encoded) + full
        /\ Framed(encoded')
        /\ \A k \in 1 .. Len(encoded) : encoded'[k] = encoded[k]
        /\ \A k \in 1 .. full : encoded'[Len(encoded) + k] = samples[k]
        /\ audio' = [audio EXCEPT !.buffer = Without(samples, full),
                                  !.start_ts = ts]
        /\ Len(samples) - full < framesize
  BY Sent DEF SyncInv, SyncTyped
<1>2. Len(encoded) \in Nat /\ Len(samples) \in Nat /\ full \in Nat
  BY LenProperties DEF SyncInv, SyncTyped
<1>20. Len(encoded') = Len(encoded) + full /\ full <= Len(samples)
  BY <1>1, <1>2
<1> DEFINE rest == Without(samples, full)
<1>3. /\ rest \in Seq(Nat) /\ Len(rest) = Len(samples) - full
      /\ \A k \in 1 .. Len(samples) - full : rest[k] = samples[full + k]
  BY WithoutIs
<1> HIDE DEF rest
<1>4. /\ audio' \in AudioType
      /\ audio'.buffer = rest /\ audio'.start_ts = ts /\ audio'.paired = audio.paired
      /\ audio'.first_received = audio.first_received
      /\ audio'.first_raw_ts = audio.first_raw_ts
  <2>1. audio' = [audio EXCEPT !.buffer = rest, !.start_ts = ts]
    BY <1>1 DEF rest
  <2>2. audio' = [[audio EXCEPT !.buffer = rest] EXCEPT !.start_ts = ts]
    BY <2>1
  <2> QED
    BY <1>3, <2>2 DEF SyncInv, SyncTyped, AudioType
<1>5. /\ audioPc = "buffer" /\ audioPc' = "idle" /\ sample' = sample + Chunk
      /\ UNCHANGED <<video, frame>>
  BY DEF EndAudio
<1>6. SyncTyped'
  <2>1. sample' \in Nat \ {0} /\ Len(audio'.buffer) < framesize
    <3>1. sample \in Nat \ {0} /\ Chunk \in Nat \ {0}
      BY SyncConstants DEF SyncInv, SyncTyped
    <3>2. Len(audio'.buffer) = Len(samples) - full
      BY <1>3, <1>4
    <3> QED
      BY <1>1, <1>5, <3>1, <3>2
  <2>2. encoded' \in Seq(Nat) /\ Framed(encoded')
    BY <1>1
  <2> QED
    BY <1>4, <1>5, <2>1, <2>2 DEF SyncInv, SyncTyped
<1>7. \A k \in 1 .. Len(encoded') : OnTime(encoded'[k], k, ts, d)
  <2>1. SUFFICES ASSUME NEW k \in 1 .. Len(encoded') PROVE OnTime(encoded'[k], k, ts, d)
    OBVIOUS
  <2>2. CASE k <= Len(encoded)
    BY <1>1, <1>2, <2>2
  <2>3. CASE k > Len(encoded)
    <3> DEFINE j == k - Len(encoded)
    <3>1. j \in 1 .. full /\ j \in 1 .. Len(samples) /\ Len(encoded) + j = k
      BY <1>2, <1>20, <2>3
    <3> HIDE DEF j
    <3> QED
      BY <1>1, <3>1
  <2> QED
    BY <1>2, <2>2, <2>3
<1>8. \A k \in 1 .. Len(rest) : OnTime(rest[k], Len(encoded') + k, ts, d)
  <2>1. SUFFICES ASSUME NEW k \in 1 .. Len(rest)
                 PROVE  OnTime(rest[k], Len(encoded') + k, ts, d)
    OBVIOUS
  <2>2. /\ k \in 1 .. Len(samples) - full /\ full + k \in 1 .. Len(samples)
        /\ Len(encoded) + (full + k) = Len(encoded') + k
    BY <1>2, <1>3, <1>20
  <2> QED
    BY <1>3, <2>2
<1>9. Len(encoded') + Len(rest) + 1 = Len(encoded) + Len(samples) + 1
  BY <1>2, <1>3, <1>20
<1>10. audio.first_received
  BY <1>5 DEF SyncInv, Paired
<1>11. Running'
  BY <1>4, <1>5, <1>7, <1>8, <1>9, <1>10 DEF Running
<1>12. Buffered' /\ Paired'
  BY <1>4, <1>5, <1>10 DEF SyncInv, Buffered, Paired
<1> QED
  BY <1>6, <1>11, <1>12 DEF SyncInv

\* Video starts with a frame that is not older than the first sample.
LEMMA ReceiveVideoKeeps ==
  ASSUME SyncInv, ReceiveVideo
  PROVE  SyncInv'
<1>1. /\ video = 0 /\ video' = IF audio.paired => AudioIsThere THEN frame ELSE 0
      /\ frame' = frame + FrameInterval
      /\ UNCHANGED <<audio, audioPc, sample, encoded, dropped>>
  BY DEF ReceiveVideo
<1>2. SyncTyped'
  BY <1>1, SyncConstants DEF SyncInv, SyncTyped
<1>3. Buffered' /\ Running'
  BY <1>1 DEF SyncInv, Buffered, Running
<1>4. Paired'
  BY <1>1 DEF SyncInv, SyncTyped, Paired, AudioIsThere
<1> QED
  BY <1>2, <1>3, <1>4 DEF SyncInv

\* The first chunk sets first_raw_ts and empties the buffer.
LEMMA BeginAudioKeeps ==
  ASSUME SyncInv, BeginAudio
  PROVE  SyncInv'
<1>1. /\ audioPc' = "buffer" /\ UNCHANGED <<video, sample, frame, encoded, dropped>>
  BY DEF BeginAudio, media
<1>2. CASE audio.first_received
  <2>1. UNCHANGED audio
    BY <1>2 DEF BeginAudio
  <2>2. SyncTyped'
    BY <1>1, <2>1 DEF SyncInv, SyncTyped
  <2>3. Buffered' /\ Running' /\ Paired'
    BY <1>1, <1>2, <2>1 DEF SyncInv, Buffered, Running, Paired
  <2> QED
    BY <2>2, <2>3 DEF SyncInv
<1>3. CASE ~audio.first_received
  <2>1. audio' = [[[audio EXCEPT !.first_raw_ts = Timestamp]
                     EXCEPT !.first_received = TRUE] EXCEPT !.buffer = <<>>]
    BY <1>3 DEF BeginAudio
  <2>2. audio.start_ts = 0 /\ (audio.paired => video = 0)
    BY <1>3 DEF SyncInv, Running, Paired
  <2>3. Timestamp \in Nat /\ <<>> \in Seq(Nat) /\ Len(<<>>) = 0
    BY SyncConstants, EmptySeq DEF Timestamp, TimeOf, SyncInv, SyncTyped
  <2>4. /\ audio' \in AudioType
        /\ audio'.start_ts = 0 /\ audio'.paired = audio.paired
        /\ audio'.first_received /\ audio'.buffer = <<>>
        /\ audio'.first_raw_ts = Timestamp
    BY <2>1, <2>2, <2>3 DEF SyncInv, SyncTyped, AudioType
  <2>5. SyncTyped'
    BY <1>1, <2>3, <2>4 DEF SyncInv, SyncTyped
  <2>6. Consecutive(<<>>, Timestamp, sample)
    BY <2>3 DEF SyncInv, SyncTyped, Timestamp, Consecutive
  <2>7. Buffered'
    <3>1. encoded = <<>> /\ dropped = <<>>
      BY <2>2 DEF SyncInv, Buffered
    <3> QED
      BY <1>1, <2>4, <2>6, <3>1 DEF Buffered
  <2>8. Running' /\ Paired'
    BY <1>1, <2>2, <2>4 DEF Running, Paired
  <2> QED
    BY <2>5, <2>7, <2>8 DEF SyncInv
<1> QED
  BY <1>2, <1>3

\* A chunk that is too early joins the buffer: its samples are the next ones.
LEMMA TooEarlyKeeps ==
  ASSUME SyncInv, TooEarly
  PROVE  SyncInv'
<1>1. /\ audio.start_ts = 0 /\ audio.paired
      /\ audio' = [audio EXCEPT !.buffer = @ \o Data]
      /\ audioPc = "buffer" /\ audioPc' = "idle" /\ sample' = sample + Chunk
      /\ UNCHANGED <<video, frame, encoded, dropped>>
  BY DEF TooEarly, Waits, EndAudio
<1> DEFINE b == audio.buffer \o Data
           n == Len(audio.buffer)
<1>2. audio.buffer \in Seq(Nat) /\ n \in Nat /\ sample \in Nat /\ Chunk \in Nat \ {0}
  BY LenProperties, SyncConstants DEF SyncInv, SyncTyped, AudioType
<1>3. /\ Data \in Seq(Nat) /\ Len(Data) = Chunk
      /\ \A k \in 1 .. Chunk : Data[k] = sample + k - 1
  BY <1>2, DataIs
<1>4. /\ b \in Seq(Nat) /\ Len(b) = n + Chunk
      /\ \A k \in 1 .. n + Chunk :
           b[k] = IF k <= n THEN audio.buffer[k] ELSE Data[k - n]
  <2>1. /\ b \in Seq(Nat) /\ Len(b) = n + Len(Data)
        /\ \A k \in 1 .. n + Len(Data) :
             b[k] = IF k <= n THEN audio.buffer[k] ELSE Data[k - n]
    BY <1>2, <1>3, ConcatProperties
  <2> QED
    BY <1>3, <2>1
<1>5. audio.first_received /\ encoded = <<>> /\ dropped = <<>>
      /\ n <= sample /\ audio.first_raw_ts = TimeOf(sample - n)
      /\ \A k \in 1 .. n : audio.buffer[k] = sample - n + k - 1
  BY <1>1 DEF SyncInv, Buffered, Paired, Consecutive
<1> HIDE DEF b, n
<1>6. /\ audio' \in AudioType
      /\ audio'.start_ts = 0 /\ audio'.paired = audio.paired
      /\ audio'.first_received = audio.first_received
      /\ audio'.buffer = b /\ audio'.first_raw_ts = audio.first_raw_ts
  <2>1. audio' = [audio EXCEPT !.buffer = b]
    BY <1>1 DEF b
  <2> QED
    BY <1>1, <1>4, <2>1 DEF SyncInv, SyncTyped, AudioType
<1>7. SyncTyped'
  BY <1>1, <1>2, <1>6 DEF SyncInv, SyncTyped
<1>8. /\ Len(b) <= sample + Chunk /\ sample + Chunk - Len(b) = sample - n
      /\ \A k \in 1 .. Len(b) : b[k] = sample + Chunk - Len(b) + k - 1
  <2>1. Len(b) <= sample + Chunk /\ sample + Chunk - Len(b) = sample - n
    BY <1>2, <1>4, <1>5
  <2>2. ASSUME NEW k \in 1 .. Len(b) PROVE b[k] = sample - n + k - 1
    <3>1. k \in 1 .. n + Chunk /\ n <= sample
      BY <1>4, <1>5
    <3>2. CASE k <= n
      <4>1. k \in 1 .. n
        BY <1>2, <3>1, <3>2
      <4> QED
        BY <1>4, <1>5, <3>1, <3>2, <4>1
    <3>3. CASE ~(k <= n)
      <4>1. k - n \in 1 .. Chunk /\ sample + (k - n) - 1 = sample - n + k - 1
        BY <1>2, <3>1, <3>3
      <4> QED
        BY <1>3, <1>4, <3>1, <3>3, <4>1
    <3> QED
      BY <3>2, <3>3
  <2> QED
    BY <2>1, <2>2
<1>9. Buffered'
  <2>1. encoded' = <<>> /\ dropped' = <<>> /\ audio'.first_received /\ audio'.paired
    BY <1>1, <1>5, <1>6
  <2>2. Consecutive(b, audio.first_raw_ts, sample + Chunk)
    <3>1. audio.first_raw_ts = TimeOf(sample + Chunk - Len(b))
      BY <1>5, <1>8, Zenon
    <3>2. Len(b) \in Nat
      BY <1>2, <1>4
    <3> QED
      BY <1>2, <1>8, <3>1, <3>2 DEF Consecutive
  <2>3. Consecutive(audio'.buffer, audio'.first_raw_ts, sample')
    BY <1>1, <1>6, <2>2, Zenon
  <2> QED
    BY <2>1, <2>3 DEF Buffered
<1>10. Running' /\ Paired'
  BY <1>1, <1>6 DEF SyncInv, Running, Paired
<1> QED
  BY <1>7, <1>9, <1>10 DEF SyncInv

\* What the steps that send audio for the first time start from.
LEMMA Fresh ==
  ASSUME SyncInv, audio.start_ts = 0
  PROVE  /\ encoded = <<>> /\ Len(encoded) = 0 /\ dropped = <<>>
         /\ dropped \in Seq(Nat) /\ sample \in Nat \ {0} /\ Chunk \in Nat \ {0}
         /\ Data \in Seq(Nat) /\ Len(Data) = Chunk
         /\ \A k \in 1 .. Chunk : Data[k] = sample + k - 1
BY DataIs, SyncConstants, EmptySeq DEF SyncInv, SyncTyped, Buffered

\* Audio starts within the chunk: the buffer is left out, and so is the chunk up to
\* the start of video.
LEMMA StartInChunkKeeps ==
  ASSUME SyncInv, StartInChunk
  PROVE  SyncInv'
<1>1. /\ audio.start_ts = 0 /\ audio.paired /\ video # 0
      /\ TimeOf(sample) <= video /\ video < TimeOf(sample + Chunk)
      /\ EndAudio /\ dropped' = dropped
      /\ SendAudioData(
           Without(Data, Offset(video, TimeOf(sample))), video)
  BY DEF StartInChunk, Waits, Timestamp, EndTs
<1>2. /\ encoded = <<>> /\ Len(encoded) = 0 /\ dropped = <<>>
      /\ dropped \in Seq(Nat) /\ sample \in Nat \ {0} /\ Chunk \in Nat \ {0}
      /\ Data \in Seq(Nat) /\ Len(Data) = Chunk
      /\ \A k \in 1 .. Chunk : Data[k] = sample + k - 1
  BY <1>1, Fresh
<1>3. video \in Nat \ {0}
  BY <1>1 DEF SyncInv, SyncTyped
<1> DEFINE q == Offset(video, TimeOf(sample))
           samples == Without(Data, q)
<1>4. q \in Nat /\ q < Chunk /\ OnTime(sample + q, 1, video, <<>>)
  BY <1>1, <1>2, <1>3, OffsetIs
<1> HIDE DEF q
<1>5. /\ samples \in Seq(Nat) /\ Len(samples) = Chunk - q
      /\ \A k \in 1 .. Chunk - q : samples[k] = sample + q + k - 1
  <2>1. q \in 0 .. Len(Data)
    BY <1>2, <1>4
  <2>2. /\ samples \in Seq(Nat) /\ Len(samples) = Len(Data) - q
        /\ \A k \in 1 .. Len(Data) - q : samples[k] = Data[q + k]
    <3>1. Data \in Seq(Nat)
      BY <1>2
    <3> QED
      BY <2>1, <3>1, WithoutIs
  <2>3. \A k \in 1 .. Chunk - q : q + k \in 1 .. Chunk
    BY <1>2, <1>4
  <2> QED
    BY <1>2, <1>4, <2>2, <2>3
<1> HIDE DEF samples
<1>6. \A n \in Nat : OnTime(sample + q + n, 1 + n, video, <<>>)
  <2>1. sample + q \in Nat /\ video \in Nat
    BY <1>2, <1>3, <1>4
  <2> QED
    BY <1>4, <2>1, FirstOnTime
<1>7. \A k \in 1 .. Len(samples) : OnTime(samples[k], Len(encoded) + k, video, dropped)
  <2>1. SUFFICES ASSUME NEW k \in 1 .. Chunk - q PROVE OnTime(samples[k], k, video, <<>>)
    BY <1>2, <1>4, <1>5
  <2>2. k - 1 \in Nat /\ sample + q + (k - 1) = sample + q + k - 1 /\ 1 + (k - 1) = k
    BY <1>2, <1>4
  <2> QED
    BY <1>5, <1>6, <2>2
<1>8. OnTime(sample + Chunk, Len(encoded) + Len(samples) + 1, video, dropped)
  <2>1. /\ Chunk - q \in Nat /\ sample + q + (Chunk - q) = sample + Chunk
        /\ 1 + (Chunk - q) = Len(encoded) + Len(samples) + 1
    BY <1>2, <1>4, <1>5
  <2> QED
    BY <1>2, <1>6, <2>1
<1>9. \A k \in 1 .. Len(encoded) : OnTime(encoded[k], k, video, dropped)
  BY <1>2
<1>10. SendAudioData(samples, video)
  BY <1>1 DEF samples, q
<1> QED
  BY <1>1, <1>2, <1>3, <1>5, <1>7, <1>8, <1>9, <1>10, Playing

\* Without video the first chunk is the start.
LEMMA StartAloneKeeps ==
  ASSUME SyncInv, StartAlone
  PROVE  SyncInv'
<1>1. /\ audio.start_ts = 0 /\ ~audio.paired
      /\ EndAudio /\ dropped' = dropped
      /\ SendAudioData(audio.buffer \o Data, TimeOf(sample))
  BY DEF StartAlone, Timestamp
<1>2. /\ encoded = <<>> /\ Len(encoded) = 0 /\ dropped = <<>>
      /\ dropped \in Seq(Nat) /\ sample \in Nat \ {0} /\ Chunk \in Nat \ {0}
      /\ Data \in Seq(Nat) /\ Len(Data) = Chunk
      /\ \A k \in 1 .. Chunk : Data[k] = sample + k - 1
  BY <1>1, Fresh
<1>3. audio.buffer \o Data = Data
  <2>1. audio.buffer = <<>>
    BY <1>1 DEF SyncInv, Buffered
  <2> QED
    BY <1>2, <2>1, ConcatEmptySeq
<1>4. SendAudioData(Data, TimeOf(sample))
  BY <1>1, <1>3
<1>5. TimeOf(sample) \in Nat \ {0}
  BY <1>2, SyncConstants DEF TimeOf
<1>6. OnTime(sample, 1, TimeOf(sample), <<>>)
  <2>1. /\ Period \in Nat \ {0}
        /\ TimeOf(sample) + (1 - 1) * Period + 0 = TimeOf(sample)
    BY <1>5, SyncConstants
  <2> QED
    BY <1>5, <2>1 DEF OnTime
<1>7. \A n \in Nat : OnTime(sample + n, 1 + n, TimeOf(sample), <<>>)
  BY <1>2, <1>5, <1>6, FirstOnTime
<1>8. \A k \in 1 .. Len(Data) :
        OnTime(Data[k], Len(encoded) + k, TimeOf(sample), dropped)
  <2>1. SUFFICES ASSUME NEW k \in 1 .. Chunk
                 PROVE  OnTime(Data[k], k, TimeOf(sample), <<>>)
    BY <1>2
  <2>2. k - 1 \in Nat /\ sample + (k - 1) = sample + k - 1 /\ 1 + (k - 1) = k
    BY <1>2
  <2> QED
    BY <1>2, <1>7, <2>2
<1>9. OnTime(sample + Chunk, Len(encoded) + Len(Data) + 1, TimeOf(sample),
             dropped)
  <2>1. 1 + Chunk = Len(encoded) + Len(Data) + 1
    BY <1>2
  <2> QED
    BY <1>2, <1>7, <2>1
<1>10. \A k \in 1 .. Len(encoded) : OnTime(encoded[k], k, TimeOf(sample), dropped)
  BY <1>2
<1> QED
  BY <1>1, <1>2, <1>4, <1>5, <1>8, <1>9, <1>10, Playing

\* A later chunk follows what is encoded and what stays.
LEMMA ContinueKeeps ==
  ASSUME SyncInv, Continue
  PROVE  SyncInv'
<1> DEFINE ts == audio.start_ts
           samples == audio.buffer \o Data
           n == Len(audio.buffer)
           m == Len(encoded)
<1>1. EndAudio /\ dropped' = dropped /\ ts # 0 /\ SendAudioData(samples, ts)
  BY DEF Continue
<1>2. /\ ts \in Nat \ {0} /\ audio.buffer \in Seq(Nat) /\ n \in Nat /\ m \in Nat
      /\ sample \in Nat /\ dropped \in Seq(Nat) /\ Chunk \in Nat \ {0}
      /\ Data \in Seq(Nat) /\ Len(Data) = Chunk
      /\ \A k \in 1 .. Chunk : Data[k] = sample + k - 1
  BY <1>1, LenProperties, DataIs, SyncConstants DEF SyncInv, SyncTyped, AudioType
<1>3. /\ samples \in Seq(Nat) /\ Len(samples) = n + Chunk
      /\ \A k \in 1 .. n + Chunk :
           samples[k] = IF k <= n THEN audio.buffer[k] ELSE Data[k - n]
  <2>1. /\ samples \in Seq(Nat) /\ Len(samples) = n + Len(Data)
        /\ \A k \in 1 .. n + Len(Data) :
             samples[k] = IF k <= n THEN audio.buffer[k] ELSE Data[k - n]
    BY <1>2, ConcatProperties
  <2> QED
    BY <1>2, <2>1
<1>4. /\ \A k \in 1 .. m : OnTime(encoded[k], k, ts, dropped)
      /\ \A k \in 1 .. n : OnTime(audio.buffer[k], m + k, ts, dropped)
      /\ OnTime(sample, m + n + 1, ts, dropped)
      /\ dropped # <<>> => Last(dropped) < sample
      /\ audio.paired => ts = video
  BY <1>1 DEF SyncInv, Running, Paired
<1> HIDE DEF ts, samples, n, m
<1>5. \A j \in Nat : OnTime(sample + j, m + n + 1 + j, ts, dropped)
  <2>1. m + n + 1 \in Nat \ {0} /\ ts \in Nat
    BY <1>2
  <2> QED
    BY <1>2, <1>4, <2>1, NextOnTime
<1>6. \A k \in 1 .. Len(samples) : OnTime(samples[k], m + k, ts, dropped)
  <2>1. SUFFICES ASSUME NEW k \in 1 .. n + Chunk
                 PROVE  OnTime(samples[k], m + k, ts, dropped)
    BY <1>3
  <2>2. CASE k <= n
    <3>1. k \in 1 .. n
      BY <1>2, <2>2
    <3> QED
      BY <1>3, <1>4, <2>2, <3>1
  <2>3. CASE ~(k <= n)
    <3>1. /\ k - n - 1 \in Nat /\ k - n \in 1 .. Chunk
          /\ sample + (k - n) - 1 = sample + (k - n - 1)
          /\ m + n + 1 + (k - n - 1) = m + k
      BY <1>2, <2>3
    <3> QED
      BY <1>2, <1>3, <1>5, <2>3, <3>1
  <2> QED
    BY <2>2, <2>3
<1>7. OnTime(sample + Chunk, m + Len(samples) + 1, ts, dropped)
  <2>1. m + n + 1 + Chunk = m + Len(samples) + 1
    BY <1>2, <1>3
  <2> QED
    BY <1>2, <1>5, <2>1
<1>8. dropped # <<>> => Last(dropped) < sample + Chunk
  <2>1. dropped # <<>> => Last(dropped) \in Nat
    <3>1. dropped # <<>> => Len(dropped) \in 1 .. Len(dropped)
      BY <1>2, EmptySeq, LenProperties
    <3> QED
      BY <1>2, <3>1, ElementOfSeq DEF Last
  <2> QED
    BY <1>2, <1>4, <2>1
<1> QED
  BY <1>1, <1>2, <1>3, <1>4, <1>6, <1>7, <1>8, Playing DEF m

\* Audio starts within the buffer and the chunk is lost: what comes next is one
\* chunk too soon.
LEMMA StartFromBufferKeeps ==
  ASSUME SyncInv, StartFromBuffer
  PROVE  SyncInv'
<1> DEFINE n == Len(audio.buffer)
           first == sample - n
<1>1. /\ audio.start_ts = 0 /\ audio.paired /\ video # 0 /\ video < TimeOf(sample)
      /\ EndAudio /\ dropped' = Data /\ SendAudioData(BufferFrom, video)
  BY DEF StartFromBuffer, Waits, Timestamp
<1>2. /\ encoded = <<>> /\ Len(encoded) = 0
      /\ sample \in Nat \ {0} /\ Chunk \in Nat \ {0}
      /\ Data \in Seq(Nat) /\ Len(Data) = Chunk
      /\ \A k \in 1 .. Chunk : Data[k] = sample + k - 1
  BY <1>1, Fresh
<1>3. /\ video \in Nat \ {0} /\ audio.buffer \in Seq(Nat) /\ n \in Nat
  BY <1>1, LenProperties DEF SyncInv, SyncTyped, AudioType
<1>4. /\ first \in Nat /\ n <= sample /\ audio.first_raw_ts = TimeOf(first)
      /\ TimeOf(first) <= video
      /\ \A k \in 1 .. n : audio.buffer[k] = first + k - 1
  <2>1. /\ audio.first_received /\ audio.first_raw_ts <= video
        /\ n <= sample /\ audio.first_raw_ts = TimeOf(first)
        /\ \A k \in 1 .. n : audio.buffer[k] = first + k - 1
    <3>1. audio.first_received /\ audio.first_raw_ts <= video
      BY <1>1 DEF SyncInv, Paired
    <3>2. /\ n <= sample /\ audio.first_raw_ts = TimeOf(first)
          /\ \A k \in 1 .. n : audio.buffer[k] = first + k - 1
      BY <1>1, <3>1 DEF SyncInv, Buffered, Consecutive
    <3> QED
      BY <3>1, <3>2
  <2> HIDE DEF n
  <2>2. first \in Nat
    BY <1>2, <1>3, <2>1
  <2> HIDE DEF first
  <2> QED
    BY <2>1, <2>2
<1>5. first + n = sample
  BY <1>2, <1>3
<1> HIDE DEF n, first
<1>6. \E q \in 0 .. n : /\ OnTime(first + q, 1, video, <<>>)
                        /\ BufferFrom = Without(audio.buffer, q)
  <2>1. CASE audio.first_raw_ts < video
    <3> DEFINE q == Offset(video, TimeOf(first))
    <3>1. q \in Nat /\ q < n /\ OnTime(first + q, 1, video, <<>>)
      BY <1>1, <1>3, <1>4, <1>5, OffsetIs
    <3>2. BufferFrom = Without(audio.buffer, q)
      BY <1>4, <2>1 DEF BufferFrom
    <3> HIDE DEF q
    <3>3. q \in 0 .. n
      BY <1>3, <3>1
    <3> QED
      BY <3>1, <3>2, <3>3
  <2>2. CASE ~(audio.first_raw_ts < video)
    <3>1. TimeOf(first) \in Nat
      BY <1>4, SyncConstants DEF TimeOf
    <3>2. TimeOf(first) = video
      BY <1>3, <1>4, <2>2, <3>1
    <3>3. OnTime(first + 0, 1, video, <<>>)
      <4>1. /\ Period \in Nat \ {0} /\ video + (1 - 1) * Period + 0 = video
            /\ first + 0 = first
        BY <1>3, <1>4, SyncConstants
      <4> QED
        BY <1>3, <3>2, <4>1 DEF OnTime
    <3>4. BufferFrom = Without(audio.buffer, 0)
      <4>1. BufferFrom = audio.buffer
        BY <2>2 DEF BufferFrom
      <4>2. 0 + 1 = 1 /\ SubSeq(audio.buffer, 1, Len(audio.buffer)) = audio.buffer
        BY <1>3, SubSeqFull
      <4> QED
        BY <4>1, <4>2 DEF Without
    <3> QED
      BY <1>3, <3>3, <3>4
  <2> QED
    BY <2>1, <2>2
<1>7. PICK q \in 0 .. n : /\ OnTime(first + q, 1, video, <<>>)
                          /\ BufferFrom = Without(audio.buffer, q)
  BY <1>6
<1> DEFINE samples == BufferFrom
<1>8. /\ samples \in Seq(Nat) /\ Len(samples) = n - q
      /\ \A k \in 1 .. n - q : samples[k] = first + q + k - 1
  <2>1. /\ samples \in Seq(Nat) /\ Len(samples) = n - q
        /\ \A k \in 1 .. n - q : samples[k] = audio.buffer[q + k]
    BY <1>3, <1>7, WithoutIs DEF n
  <2>2. \A k \in 1 .. n - q : /\ q + k \in 1 .. n
                              /\ first + (q + k) - 1 = first + q + k - 1
    BY <1>3, <1>4
  <2> QED
    BY <1>4, <2>1, <2>2
<1> HIDE DEF samples
<1>9. \A j \in Nat : OnTime(first + q + j, 1 + j, video, <<>>)
  <2>1. first + q \in Nat /\ video \in Nat
    BY <1>3, <1>4
  <2> QED
    BY <1>7, <2>1, FirstOnTime
<1>10. Data # <<>> /\ Last(Data) = sample + Chunk - 1
  <2>1. Chunk \in 1 .. Chunk
    BY <1>2
  <2>2. Data # <<>>
    BY <1>2, EmptySeq
  <2> QED
    BY <1>2, <2>1, <2>2 DEF Last
<1>11. \A k \in 1 .. Len(samples) : OnTime(samples[k], Len(encoded) + k, video, Data)
  <2>1. SUFFICES ASSUME NEW k \in 1 .. n - q PROVE OnTime(samples[k], k, video, Data)
    BY <1>2, <1>3, <1>8
  <2>2. k - 1 \in Nat /\ first + q + (k - 1) = first + q + k - 1 /\ 1 + (k - 1) = k
    BY <1>3, <1>4
  <2>3. OnTime(samples[k], k, video, <<>>)
    BY <1>8, <1>9, <2>2
  <2>4. /\ samples[k] \in Nat /\ samples[k] <= Last(Data)
        /\ Last(Data) \in Nat
    <3>1. samples[k] = first + q + k - 1
      BY <1>8
    <3>2. q + k <= n
      BY <1>3
    <3> QED
      BY <1>2, <1>3, <1>4, <1>5, <1>10, <3>1, <3>2
  <2>5. k \in Nat \ {0}
    BY <1>3
  <2> QED
    BY <1>3, <1>10, <2>3, <2>4, <2>5, ChunkDropped
<1>12. OnTime(sample + Chunk, Len(encoded) + Len(samples) + 1, video, Data)
  <2>1. n - q \in Nat /\ first + q + (n - q) = sample /\ 1 + (n - q) = n - q + 1
    BY <1>2, <1>3, <1>4, <1>5
  <2>2. OnTime(sample, n - q + 1, video, <<>>)
    BY <1>9, <2>1
  <2>3. Last(Data) \in Nat /\ Last(Data) < sample + Chunk
    BY <1>2, <1>10
  <2>4. n - q + 1 \in Nat \ {0}
    BY <2>1
  <2>7. OnTime(sample + Chunk, n - q + 1, video, Data)
    BY <1>2, <1>3, <1>10, <2>2, <2>3, <2>4, ChunkDropped
  <2>8. Len(encoded) + Len(samples) + 1 = n - q + 1
    BY <1>2, <1>8, <2>1
  <2> QED
    BY <2>7, <2>8
<1>13. \A k \in 1 .. Len(encoded) : OnTime(encoded[k], k, video, Data)
  BY <1>2
<1>14. Last(Data) < sample + Chunk
  BY <1>2, <1>10
<1> QED
  BY <1>1, <1>2, <1>3, <1>8, <1>11, <1>12, <1>13, <1>14, Playing DEF samples

\* Nothing of a session is left for the next one.
LEMMA RestartKeeps ==
  ASSUME SyncInv, Restart
  PROVE  SyncInv'
<1>1. PICK paired \in BOOLEAN :
        audio' = [Shut(audio) EXCEPT !.paired = paired, !.buffer = <<>>]
  BY DEF Restart
<1>2. /\ audioPc = "idle" /\ video' = 0 /\ encoded' = <<>> /\ dropped' = <<>>
      /\ UNCHANGED <<audioPc, sample, frame>>
  BY DEF Restart, media
<1>3. <<>> \in Seq(Nat) /\ Len(<<>>) = 0 /\ Framed(<<>>)
  <2>1. 0 % framesize = 0
    BY SyncConstants
  <2> QED
    BY <2>1, EmptySeq DEF Framed
<1>4. /\ audio' \in AudioType
      /\ ~audio'.first_received /\ audio'.start_ts = 0 /\ audio'.buffer = <<>>
  <2>1. audio' = [[[[audio EXCEPT !.first_received = FALSE] EXCEPT !.start_ts = 0]
                     EXCEPT !.paired = paired] EXCEPT !.buffer = <<>>]
    BY <1>1 DEF Shut
  <2> QED
    BY <1>3, <2>1 DEF SyncInv, SyncTyped, AudioType
<1>5. SyncTyped'
  BY <1>2, <1>3, <1>4 DEF SyncInv, SyncTyped
<1>6. Buffered' /\ Running' /\ Paired'
  BY <1>2, <1>4 DEF Buffered, Running, Paired
<1> QED
  BY <1>5, <1>6 DEF SyncInv

\* A new audio encoder, paired or not.
LEMMA NewAudio ==
  ASSUME NEW p \in BOOLEAN, NEW e \in Seq(Nat)
  PROVE  [first_received |-> FALSE, first_raw_ts |-> 0, start_ts |-> 0, paired |-> p,
          buffer |-> e] \in AudioType
BY DEF AudioType

\* Nothing has arrived.
LEMMA InitSync ==
  ASSUME SyncInit
  PROVE  SyncInv
<1>1. <<>> \in Seq(Nat) /\ Len(<<>>) = 0 /\ Framed(<<>>)
  <2>1. 0 % framesize = 0
    BY SyncConstants
  <2> QED
    BY <2>1, EmptySeq DEF Framed
<1>2. /\ audio \in AudioType
      /\ ~audio.first_received /\ audio.start_ts = 0 /\ audio.buffer = <<>>
  <2>1. audio \in [first_received : {FALSE}, first_raw_ts : {0}, start_ts : {0},
                     paired : BOOLEAN, buffer : {<<>>}]
    BY DEF SyncInit
  <2>2. /\ ~audio.first_received /\ audio.start_ts = 0 /\ audio.buffer = <<>>
    BY <2>1
  <2> DEFINE e == <<>>
  <2>3. e \in Seq(Nat) /\ audio \in [first_received : {FALSE}, first_raw_ts : {0},
                                     start_ts : {0}, paired : BOOLEAN, buffer : {e}]
    BY <1>1, <2>1
  <2> HIDE DEF e
  <2>4. audio = [first_received |-> FALSE, first_raw_ts |-> 0, start_ts |-> 0,
                 paired |-> audio.paired, buffer |-> e] /\ audio.paired \in BOOLEAN
    BY <2>3
  <2>5. audio \in AudioType
    BY <2>3, <2>4, NewAudio
  <2> QED
    BY <2>2, <2>5
<1>3. /\ video = 0 /\ audioPc = "idle" /\ sample = 1 /\ frame \in Starts
      /\ encoded = <<>> /\ dropped = <<>>
  BY DEF SyncInit
<1>4. SyncTyped
  BY <1>1, <1>2, <1>3, SyncConstants DEF SyncTyped
<1> QED
  BY <1>2, <1>3, <1>4 DEF SyncInv, Buffered, Running, Paired

\* One case per action.
LEMMA NextSync ==
  ASSUME SyncInv, [SyncNext]_syncVars
  PROVE  SyncInv'
<1>1. CASE UNCHANGED syncVars
  <2>1. UNCHANGED <<audio, video, audioPc, sample, frame, encoded, dropped>>
    BY <1>1 DEF syncVars, media
  <2> QED
    BY <2>1 DEF SyncInv, SyncTyped, Buffered, Running, Paired
<1>2. CASE ReceiveVideo \/ BeginAudio \/ Restart
  BY <1>2, ReceiveVideoKeeps, BeginAudioKeeps, RestartKeeps
<1>3. CASE TooEarly \/ StartInChunk \/ StartFromBuffer
  BY <1>3, TooEarlyKeeps, StartInChunkKeeps, StartFromBufferKeeps
<1>4. CASE StartAlone \/ Continue
  BY <1>4, StartAloneKeeps, ContinueKeeps
<1> QED
  BY <1>1, <1>2, <1>3, <1>4 DEF SyncNext

\* buffer_audio and receive_video keep audio and video together: the inductive
\* invariant.
THEOREM SyncConsistent == SyncSpec => []SyncInv
<1>1. SyncInit => SyncInv
  BY InitSync
<1>2. SyncInv /\ [SyncNext]_syncVars => SyncInv'
  BY NextSync
<1> QED
  BY <1>1, <1>2, PTL DEF SyncSpec

\* Every variable stays within its type, and less than a frame of audio waits.
THEOREM SyncTypeCorrect == SyncSpec => []SyncTypeOK
<1>1. SyncInv => SyncTypeOK
  BY DEF SyncInv, SyncTyped, AudioType, Framed, SyncTypeOK
<1> QED
  BY <1>1, SyncConsistent, PTL

\* Every sample is heard when it was taken, to less than a sample, but for the chunk
\* that buffer_audio does not push: for any rates, chunks and starts.
THEOREM InSyncHolds == SyncSpec => []InSyncButForAChunk
<1>1. SyncInv => InSyncButForAChunk
  <2> SUFFICES ASSUME SyncInv, NEW k \in DOMAIN encoded
               PROVE  /\ -Period < Late(k) - Shift(encoded[k])
                      /\ Late(k) - Shift(encoded[k]) <= 0
    BY DEF InSyncButForAChunk
  <2>1. /\ DOMAIN encoded = 1 .. Len(encoded) /\ Len(encoded) \in Nat
        /\ encoded[k] \in Nat
    BY LenProperties, ElementOfSeq DEF SyncInv, SyncTyped
  <2>2. audio.start_ts # 0
    <3>1. CASE audio.start_ts = 0
      BY <2>1, <3>1, Fresh
    <3> QED
      BY <3>1
  <2>3. OnTime(encoded[k], k, audio.start_ts, dropped)
    BY <2>1, <2>2 DEF SyncInv, Running
  <2> DEFINE due == audio.start_ts + (k - 1) * Period
  <2>4. /\ TimeOf(encoded[k]) <= due + Shift(encoded[k])
        /\ due + Shift(encoded[k]) < TimeOf(encoded[k]) + Period
    BY <2>3 DEF OnTime, Shift
  <2>5. /\ Period \in Nat \ {0} /\ TimeOf(encoded[k]) \in Nat
        /\ due \in Int /\ Shift(encoded[k]) \in Int
    BY <2>1, SyncConstants DEF TimeOf, Shift, SyncInv, SyncTyped, AudioType
  <2>6. Late(k) = TimeOf(encoded[k]) - due
    BY DEF Late
  <2> HIDE DEF due
  <2> QED
    BY <2>4, <2>5, <2>6
<1> QED
  BY <1>1, SyncConsistent, PTL

\* Paired encoders count time from the same instant, in every session.
THEOREM SameZeroHolds == SyncSpec => []SameZero
<1>1. SyncInv => SameZero
  BY DEF SyncInv, Buffered, Paired, SameZero
<1> QED
  BY <1>1, SyncConsistent, PTL

-----------------------------------------------------------------------------
(* OutputDelay.  The inductive invariant: what holds always (DelayShaped),  *)
(* and what holds while no thread has gone astray (DelayTyped and Calm).    *)

Item == [msg : {"packet", "start", "stop"}, age : 0 .. MaxAge, on : BOOLEAN,
         cross : BOOLEAN]

PoppedItem == [msg : {"packet", "nothing"}, age : 0 .. MaxAge, on : BOOLEAN,
               cross : BOOLEAN]

OutputFields ==
  [delay_active : BOOLEAN, delay_capturing : BOOLEAN, active : BOOLEAN,
   active_delay_ns : 0 .. MaxAge, preserve : BOOLEAN,
   delay_restart_refs : 0 .. MaxEvents + 1, reconnecting : BOOLEAN]

StopPlaces == {"stop", "decide", "detachVideo", "detachAudio", "cleanup", "signal"}
EncoderPlaces == StopPlaces \cup {"idle", "pop", "packet", "start"}
UserPlaces == StopPlaces \cup {"idle", "push", "begin"}
NetPlaces == {"idle", "detachVideo", "detachAudio", "cleanup", "signal"}

\* Nothing in q was encoded after what follows it.
InOrderOfTime(q) == \A i, j \in 1 .. Len(q) : j <= i => q[j].age >= q[i].age

AtTyped ==
  /\ at \in [DelayThreads -> EncoderPlaces \cup UserPlaces]
  /\ at["video"] \in EncoderPlaces /\ at["audio"] \in EncoderPlaces
  /\ at["user"] \in UserPlaces /\ at["net"] \in NetPlaces

\* What is sent was asked for, or another thread was in the middle of something.
SentAsked ==
  \A e \in Encoders :
    at[e] = "packet" /\ output.delay_capturing => dd[e].on \/ dd[e].cross

DelayTyped ==
  /\ delay_data \in Seq(Item) /\ InOrderOfTime(delay_data)
  /\ output \in OutputFields /\ (output.delay_active => output.active)
  /\ attached \subseteq Encoders
  /\ stream \in {"idle", "connecting", "failing", "live", "waiting"}
  /\ lag \in [Encoders -> 0 .. MaxAge]
  /\ dd \in [Encoders -> PoppedItem]
  /\ asked \in BOOLEAN /\ stolen \in BOOLEAN /\ astray \in BOOLEAN
  /\ force \in BOOLEAN
  /\ AtTyped /\ SentAsked

OutputShape ==
  [delay_active : BOOLEAN, delay_capturing : BOOLEAN, active : BOOLEAN,
   active_delay_ns : 0 .. MaxAge, preserve : BOOLEAN,
   delay_restart_refs : Nat, reconnecting : BOOLEAN]

\* What is left of this when two events have been processed at once.
DelayShaped ==
  /\ delay_data \in Seq(Item) /\ InOrderOfTime(delay_data)
  /\ output \in OutputShape
  /\ attached \subseteq Encoders
  /\ stream \in {"idle", "connecting", "failing", "live", "waiting"}
  /\ lag \in [Encoders -> 0 .. MaxAge] /\ asked \in BOOLEAN
  /\ AtTyped

\* x has stopped the stream and has not come back yet; of this, it closes the capture.
Finishing(x) == at[x] \in StopPlaces \ {"stop"}
Closing(x)   == at[x] \in {"detachVideo", "detachAudio", "cleanup"}

\* A start was popped that no stop has followed yet.
Underway ==
  \/ stream \in {"connecting", "live", "waiting"}
  \/ at["video"] = "start" \/ at["audio"] = "start"

\* Who may be in a start or a stop while another thread is: two encoders never are,
\* a start is processed alone, nobody finishes while the stream runs, and a thread
\* that has detached an encoder has waited until that encoder's thread was through.
Turns ==
  /\ ~(Processing("video") /\ Processing("audio"))
  /\ \A e \in Encoders : at[e] = "start" => ~Processing("user") /\ ~Processing("net")
  /\ \A x \in DelayThreads \ {"net"} : Finishing(x) => stream = "idle"
  /\ Finishing("net") <=> stream = "failing"
  /\ \A x \in DelayThreads \ {"video"} :
       at[x] \in {"detachAudio", "cleanup"} => ~Processing("video")
  /\ \A x \in DelayThreads \ {"audio"} : at[x] = "cleanup" => ~Processing("audio")
  /\ at["net"] = "signal" => ~Processing("video") /\ ~Processing("audio")
  /\ ~output.active => \A e \in Encoders : Processing(e) => at[e] = "signal"

\* The capture is active without a delay exactly while one thread closes it; and what
\* is underway has the delay, the encoders and a delay that is not shorter than asked.
Closes ==
  /\ (\E x \in DelayThreads : Closing(x)) <=> output.active /\ ~output.delay_active
  /\ \A x, y \in DelayThreads : Closing(x) /\ Closing(y) => x = y
  /\ Underway => output.delay_active
  /\ output.delay_active => attached = Encoders /\ output.active_delay_ns >= delay_sec
  /\ ~output.active => output.active_delay_ns = 0
  /\ output.active_delay_ns = 0 => output.delay_restart_refs = 0
  /\ Closing("net") => at["user"] \notin {"push", "begin"}
  /\ output.delay_capturing => stream \in {"live", "connecting"}
  /\ output.reconnecting => stream \in {"waiting", "connecting"}
  /\ \A e \in Encoders :
       output.reconnecting /\ at[e] \in {"pop", "packet", "start"} => lag[e] = 0
  /\ at["user"] \in {"stop", "decide"} /\ output.delay_active => force
  /\ at["user"] = "signal" => ~output.delay_active

\* Kinds of queues: of packets, of events, of packets and starts of this moment, and
\* with such a start.
Packets(q) == \A i \in 1 .. Len(q) : q[i].msg = "packet"
NoPackets(q) == \A i \in 1 .. Len(q) : q[i].msg # "packet"
FreshEvents(q) == \A i \in 1 .. Len(q) : q[i].msg # "packet" =>
                     q[i].msg = "start" /\ q[i].age = 0
FreshStart(q) == \E i \in 1 .. Len(q) : q[i].msg = "start" /\ q[i].age = 0

\* What a capture leaves in the queue: packets, and no event but the start of a user
\* who has not begun the next capture yet.
Leftover ==
  /\ output.active /\ output.active_delay_ns = 0 =>
       /\ Packets(delay_data) /\ at["user"] \notin {"push", "begin"}
       /\ ~Closing("net") /\ ~Closing("user")
  /\ ~output.active => FreshEvents(delay_data) /\ StartsWaiting <= 1
  /\ ~output.active /\ at["user"] # "begin" => Packets(delay_data)
  /\ output.active_delay_ns = 0 /\ attached = {} => NoPackets(delay_data)

\* In every tick there was a packet.
NoGap(q) == \A i \in 1 .. Len(q) - 1 : q[i].age <= q[i + 1].age + 1
LastAge(q) == q[Len(q)].age

\* While the delay is active the queue goes from packets older than the delay to the
\* present, so what is due next is never younger than the delay.
Dense ==
  /\ output.delay_active \/ output.active_delay_ns = 0 =>
       /\ NoGap(delay_data)
       /\ delay_data # <<>> => LastAge(delay_data) <= 1
  /\ \A e \in Encoders : lag[e] = 0 /\ delay_data # <<>> => LastAge(delay_data) = 0
  /\ Underway => delay_data # <<>> /\ delay_data[1].age >= output.active_delay_ns
  /\ \A e \in Encoders :
       at[e] = "packet" /\ output.delay_capturing => dd[e].age > delay_sec

\* The packets behind place i and in front of the next event, or of what is encoded
\* next, were asked for.
AskedBehind(q, a, i) ==
  \A j \in i + 1 .. Len(q) + 1 :
    (\A k \in i + 1 .. j - 1 : q[k].msg = "packet") =>
      IF j > Len(q) THEN a ELSE q[j].msg = "packet" => q[j].on

AskedBehindStarts(q, a) ==
  \A i \in 1 .. Len(q) : q[i].msg = "start" => AskedBehind(q, a, i)

\* What will be due next was asked for, and so was what follows each start.
Wanted ==
  /\ (output.delay_active \/ ~output.active) /\ ~Processing("user") =>
       AskedBehindStarts(delay_data, asked)
  /\ Underway => \/ Processing("user") \/ at["video"] = "stop" \/ at["audio"] = "stop"
                \/ AskedBehind(delay_data, asked, 0)

\* Starts that have been popped, and a start whose reference is not counted yet.
Popped == IF at["video"] = "start" \/ at["audio"] = "start" THEN 1 ELSE 0
Uncounted == IF at["user"] = "begin" THEN 1 ELSE 0
Owed == StartsWaiting + Popped - Uncounted

\* The first event of q is a start.
StartFirst(q) ==
  \E i \in 1 .. Len(q) : q[i].msg = "start" /\ \A j \in 1 .. i - 1 : q[j].msg = "packet"

\* There are as many restart references as starts that are owed; or one less, from the
\* start that began the capture until it is processed.
Counted ==
  /\ EventsWaiting <= MaxEvents
  /\ at["user"] = "push" => EventsWaiting < MaxEvents
  /\ output.delay_active =>
       /\ output.delay_restart_refs <= Owed
       /\ at["user"] = "begin" => FreshStart(delay_data)
       /\ ~stolen =>
            \/ output.delay_restart_refs = Owed
            \/ /\ output.delay_restart_refs + 1 = Owed
               /\ \A e \in Encoders : at[e] \notin {"stop", "decide"}
               /\ \/ at["video"] = "start" \/ at["audio"] = "start"
                  \/ StartFirst(delay_data)

Calm == Turns /\ Closes /\ Leftover /\ Dense /\ Wanted /\ Counted

Orderly == DelayTyped /\ Calm

DelayConsistent == DelayShaped /\ (~astray => Orderly)

-----------------------------------------------------------------------------
(* The queue: an item is appended, the oldest is taken out, all grow older. *)

\* The numbers of the items that belong to M.
At(q, M) == {i \in DOMAIN q : q[i].msg \in M}

\* The places of a queue can be counted.
LEMMA PlacesFinite ==
  ASSUME NEW q \in Seq(Item), NEW M
  PROVE  /\ At(q, M) \subseteq 1 .. Len(q)
         /\ IsFiniteSet(At(q, M)) /\ Cardinality(At(q, M)) \in Nat
         /\ Cardinality(At(q, M)) = 0 <=> At(q, M) = {}
<1>1. At(q, M) \subseteq 1 .. Len(q)
  BY LenProperties DEF At
<1>2. IsFiniteSet(1 .. Len(q))
  BY FS_Interval, LenProperties
<1>3. IsFiniteSet(At(q, M))
  BY <1>1, <1>2, FS_Subset
<1> QED
  BY <1>1, <1>3, FS_CardinalityType, FS_EmptySet

\* One more item of a kind, or none.
LEMMA CountAppended ==
  ASSUME NEW q \in Seq(Item), NEW x \in Item, NEW M
  PROVE  Cardinality(At(Append(q, x), M)) =
           Cardinality(At(q, M)) + IF x.msg \in M THEN 1 ELSE 0
<1> DEFINE r == Append(q, x)
           n == Len(q) + 1
<1>1. /\ Len(q) \in Nat /\ DOMAIN q = 1 .. Len(q) /\ DOMAIN r = 1 .. n
      /\ r[n] = x /\ \A i \in 1 .. Len(q) : r[i] = q[i]
  BY AppendProperties, LenProperties
<1>2. IsFiniteSet(At(q, M)) /\ Cardinality(At(q, M)) \in Nat /\ n \notin At(q, M)
  BY <1>1, PlacesFinite
<1>3. At(r, M) = IF x.msg \in M THEN At(q, M) \cup {n} ELSE At(q, M)
  <2> HIDE DEF r
  <2> QED
    BY <1>1 DEF At
<1>4. Cardinality(At(q, M) \cup {n}) = Cardinality(At(q, M)) + 1
  BY <1>2, FS_AddElement
<1> QED
  BY <1>2, <1>3, <1>4

\* One item less, if the oldest is of the kind.
LEMMA CountTail ==
  ASSUME NEW q \in Seq(Item), q # <<>>, NEW M
  PROVE  Cardinality(At(q, M)) =
           Cardinality(At(Tail(q), M)) + IF q[1].msg \in M THEN 1 ELSE 0
<1> DEFINE t == Tail(q)
           f == [i \in At(t, M) |-> i + 1]
           R == At(q, M) \ {1}
<1>1. /\ Len(q) \in Nat \ {0} /\ DOMAIN q = 1 .. Len(q)
      /\ t \in Seq(Item) /\ Len(t) = Len(q) - 1 /\ DOMAIN t = 1 .. Len(q) - 1
      /\ \A i \in 1 .. Len(q) - 1 : t[i] = q[i + 1]
  BY HeadTailProperties, LenProperties, EmptySeq
<1> HIDE DEF t
<1>2. IsFiniteSet(At(t, M)) /\ IsFiniteSet(At(q, M)) /\ Cardinality(At(t, M)) \in Nat
  BY <1>1, PlacesFinite
<1>3. f \in Bijection(At(t, M), R)
  <2>1. f \in [At(t, M) -> R]
    BY <1>1 DEF At
  <2>2. \A i, j \in At(t, M) : f[i] = f[j] => i = j
    BY <1>1 DEF At
  <2>3. \A j \in R : \E i \in At(t, M) : f[i] = j
    <3> TAKE j \in R
    <3>1. j \in 2 .. Len(q) /\ j - 1 \in At(t, M)
      BY <1>1 DEF At
    <3> QED
      BY <3>1
  <2> QED
    BY <2>1, <2>2, <2>3 DEF Bijection, Injection, Surjection, IsInjective
<1>4. Cardinality(R) = Cardinality(At(t, M))
  BY <1>2, <1>3, FS_Bijection DEF ExistsBijection
<1>5. Cardinality(R) = IF 1 \in At(q, M) THEN Cardinality(At(q, M)) - 1
                       ELSE Cardinality(At(q, M))
  BY <1>2, FS_RemoveElement
<1>6. 1 \in At(q, M) <=> q[1].msg \in M
  BY <1>1 DEF At
<1>7. Cardinality(At(q, M)) \in Nat
  BY PlacesFinite
<1> QED
  BY <1>2, <1>4, <1>5, <1>6, <1>7 DEF t

\* What an item without age changes at the end of a queue.
LEMMA AppendedQueue ==
  ASSUME NEW q \in Seq(Item), NEW x \in Item, x.age = 0, NEW r, r = Append(q, x)
  PROVE  /\ r \in Seq(Item) /\ r # <<>> /\ LastAge(r) = 0
         /\ q # <<>> => r[1] = q[1]
         /\ InOrderOfTime(q) => InOrderOfTime(r)
         /\ NoGap(q) /\ (q # <<>> => LastAge(q) <= 1) => NoGap(r)
         /\ Packets(r) <=> Packets(q) /\ x.msg = "packet"
         /\ FreshEvents(q) /\ x.msg # "stop" => FreshEvents(r)
         /\ FreshStart(q) \/ x.msg = "start" => FreshStart(r)
         /\ StartFirst(q) \/ (Packets(q) /\ x.msg = "start") => StartFirst(r)
         /\ NoPackets(r) <=> NoPackets(q) /\ x.msg # "packet"
<1> DEFINE n == Len(q) + 1
<1>1. /\ r \in Seq(Item) /\ r # <<>> /\ Len(q) \in Nat /\ Len(r) = n /\ r[n] = x
      /\ \A i \in 1 .. Len(q) : r[i] = q[i]
      /\ q # <<>> => Len(q) > 0
  BY AppendProperties, LenProperties, EmptySeq
<1>2. \A i \in 1 .. Len(q) : q[i] \in Item
  BY ElementOfSeq
<1> HIDE DEF n
<1>3. n = Len(q) + 1
  BY DEF n
<1>4. LastAge(r) = 0 /\ (q # <<>> => r[1] = q[1])
  BY <1>1, <1>3 DEF LastAge
<1>5. InOrderOfTime(q) => InOrderOfTime(r)
  BY <1>1, <1>2, <1>3 DEF InOrderOfTime, Item
<1>6. NoGap(q) /\ (q # <<>> => LastAge(q) <= 1) => NoGap(r)
  <2> SUFFICES ASSUME NoGap(q), q # <<>> => LastAge(q) <= 1, NEW i \in 1 .. Len(r) - 1
               PROVE  r[i].age <= r[i + 1].age + 1
    BY DEF NoGap
  <2>1. CASE i < Len(q)
    BY <2>1, <1>1, <1>3 DEF NoGap
  <2>2. CASE i = Len(q)
    <3>1. q # <<>> /\ r[i] = q[Len(q)] /\ r[i + 1] = x
      BY <2>2, <1>1, <1>3, EmptySeq
    <3> QED
      BY <3>1 DEF LastAge
  <2> QED
    BY <2>1, <2>2, <1>1, <1>3
<1>7. Packets(r) <=> Packets(q) /\ x.msg = "packet"
  BY <1>1, <1>3 DEF Packets
<1>8. FreshEvents(q) /\ x.msg # "stop" => FreshEvents(r)
  BY <1>1, <1>3 DEF FreshEvents, Item
<1>9. FreshStart(q) \/ x.msg = "start" => FreshStart(r)
  BY <1>1, <1>3 DEF FreshStart
<1>10. StartFirst(q) \/ (Packets(q) /\ x.msg = "start") => StartFirst(r)
  <2>1. ASSUME StartFirst(q) PROVE StartFirst(r)
    <3>1. PICK i \in 1 .. Len(q) :
                 q[i].msg = "start" /\ \A j \in 1 .. i - 1 : q[j].msg = "packet"
      BY <2>1 DEF StartFirst
    <3>2. i \in 1 .. Len(r) /\ r[i].msg = "start"
          /\ \A j \in 1 .. i - 1 : r[j].msg = "packet"
      BY <3>1, <1>1, <1>3
    <3> QED
      BY <3>2 DEF StartFirst
  <2>2. ASSUME Packets(q), x.msg = "start" PROVE StartFirst(r)
    <3>1. n \in 1 .. Len(r) /\ r[n].msg = "start"
          /\ \A j \in 1 .. n - 1 : r[j].msg = "packet"
      BY <2>2, <1>1, <1>3 DEF Packets
    <3> QED
      BY <3>1 DEF StartFirst
  <2> QED
    BY <2>1, <2>2
<1>11. NoPackets(r) <=> NoPackets(q) /\ x.msg # "packet"
  BY <1>1, <1>3 DEF NoPackets
<1> QED
  BY <1>1, <1>4, <1>5, <1>6, <1>7, <1>8, <1>9, <1>10, <1>11

\* A packet is asked for if the user's last event is a start; behind an event nothing
\* is changed.
LEMMA AskedAppended ==
  ASSUME NEW q \in Seq(Item), NEW x \in Item, NEW r, r = Append(q, x),
         NEW a, NEW b,
         x.msg = "packet" => (a => x.on /\ b)
  PROVE  /\ \A i \in 0 .. Len(q) : AskedBehind(q, a, i) => AskedBehind(r, b, i)
         /\ b => AskedBehind(r, b, Len(r))
         /\ AskedBehindStarts(q, a) /\ (x.msg = "start" => b)
              => AskedBehindStarts(r, b)
<1> DEFINE n == Len(q) + 1
<1>1. /\ r \in Seq(Item) /\ Len(q) \in Nat /\ Len(r) = n /\ r[n] = x
      /\ \A i \in 1 .. Len(q) : r[i] = q[i]
  BY AppendProperties, LenProperties
<1> HIDE DEF n
<1>2. n = Len(q) + 1
  BY DEF n
<1>3. ASSUME NEW i \in 0 .. Len(q), AskedBehind(q, a, i)
      PROVE  AskedBehind(r, b, i)
  <2> SUFFICES ASSUME NEW j \in i + 1 .. Len(r) + 1,
                      \A k \in i + 1 .. j - 1 : r[k].msg = "packet"
               PROVE  IF j > Len(r) THEN b ELSE r[j].msg = "packet" => r[j].on
    BY DEF AskedBehind
  <2>1. CASE j <= Len(q)
    <3>1. j \in i + 1 .. Len(q) + 1 /\ \A k \in i + 1 .. j - 1 : q[k].msg = "packet"
      BY <2>1, <1>1, <1>2
    <3>2. q[j].msg = "packet" => q[j].on
      BY <2>1, <3>1, <1>3, <1>1 DEF AskedBehind
    <3> QED
      BY <2>1, <3>2, <1>1, <1>2
  <2>2. CASE j > Len(q)
    <3>1. n \in i + 1 .. Len(q) + 1 /\ \A k \in i + 1 .. n - 1 : q[k].msg = "packet"
      BY <2>2, <1>1, <1>2
    <3>2. a
      BY <3>1, <1>3, <1>1, <1>2 DEF AskedBehind
    <3>3. j = n \/ j = n + 1
      BY <2>2, <1>1, <1>2
    <3>4. CASE j = n
      <4>1. x.msg = "packet" => x.on
        BY <3>2, Zenon
      <4>2. r[j] = x /\ ~(j > Len(r))
        BY <3>4, <1>1, <1>2
      <4> QED
        BY <4>1, <4>2
    <3>5. CASE j = n + 1
      <4>1. x.msg = "packet"
        BY <3>5, <1>1, <1>2
      <4> QED
        BY <4>1, <3>2, <3>5, <1>1, <1>2
    <3> QED
      BY <3>3, <3>4, <3>5
  <2> QED
    BY <2>1, <2>2, <1>1
<1>4. ASSUME b PROVE AskedBehind(r, b, Len(r))
  BY <1>4, <1>1, <1>2 DEF AskedBehind
<1>5. ASSUME AskedBehindStarts(q, a), x.msg = "start" => b
      PROVE  AskedBehindStarts(r, b)
  <2> SUFFICES ASSUME NEW i \in 1 .. Len(r), r[i].msg = "start"
               PROVE  AskedBehind(r, b, i)
    BY DEF AskedBehindStarts
  <2>1. CASE i \in 1 .. Len(q)
    <3>1. AskedBehind(q, a, i)
      BY <2>1, <1>5, <1>1 DEF AskedBehindStarts
    <3> QED
      BY <2>1, <3>1, <1>3, <1>1
  <2>2. CASE i = Len(r)
    BY <2>2, <1>1, <1>4, <1>5
  <2> QED
    BY <2>1, <2>2, <1>1, <1>2
<1> QED
  BY <1>3, <1>4, <1>5

\* What is left when the oldest item is taken out.
LEMMA TailOfQueue ==
  ASSUME NEW q \in Seq(Item), q # <<>>, NEW r, r = Tail(q)
  PROVE  /\ r \in Seq(Item) /\ q[1] \in Item /\ Head(q) = q[1]
         /\ r = <<>> => q[1].age = LastAge(q)
         /\ r # <<>> => LastAge(r) = LastAge(q)
         /\ InOrderOfTime(q) => InOrderOfTime(r)
         /\ NoGap(q) => NoGap(r) /\ (r # <<>> => r[1].age >= q[1].age - 1)
         /\ Packets(q) => Packets(r) /\ q[1].msg = "packet"
         /\ FreshEvents(q) => FreshEvents(r)
         /\ FreshStart(q) => FreshStart(r) \/ (q[1].msg = "start" /\ q[1].age = 0)
         /\ StartFirst(q) => q[1].msg = "start" \/ (q[1].msg = "packet" /\ StartFirst(r))
         /\ NoPackets(q) => NoPackets(r)
<1>1. /\ r \in Seq(Item) /\ Len(q) \in Nat \ {0} /\ Len(r) = Len(q) - 1
      /\ \A i \in 1 .. Len(q) - 1 : r[i] = q[i + 1]
      /\ \A s \in Seq(Item) : s = <<>> <=> Len(s) = 0
      /\ Head(q) = q[1]
  BY HeadTailProperties, LenProperties, EmptySeq
<1>2. \A i \in 1 .. Len(q) : q[i] \in Item
  BY ElementOfSeq
<1>3. q[1] \in Item
  BY <1>1, <1>2
<1>4. /\ r = <<>> => q[1].age = LastAge(q)
      /\ r # <<>> => LastAge(r) = LastAge(q)
  <2>1. ASSUME r = <<>> PROVE Len(q) = 1
    <3>1. Len(r) = 0
      BY <2>1, EmptySeq
    <3>2. Len(r) = Len(q) - 1 /\ Len(q) \in Nat
      BY <1>1
    <3> QED
      BY <3>1, <3>2
  <2>2. r # <<>> => Len(q) - 1 \in 1 .. Len(q) - 1
    BY <1>1
  <2> QED
    BY <2>1, <2>2, <1>1 DEF LastAge
<1>5. InOrderOfTime(q) => InOrderOfTime(r)
  BY <1>1 DEF InOrderOfTime
<1>6. NoGap(q) => NoGap(r)
  BY <1>1 DEF NoGap
<1>7. NoGap(q) => (r # <<>> => r[1].age >= q[1].age - 1)
  <2> SUFFICES ASSUME NoGap(q), r # <<>> PROVE r[1].age >= q[1].age - 1
    OBVIOUS
  <2>1. 1 \in 1 .. Len(q) - 1
    BY <1>1
  <2>2. q[1].age <= q[2].age + 1 /\ r[1] = q[2] /\ q[2] \in Item
    BY <2>1, <1>1, <1>2 DEF NoGap
  <2>3. q[1].age \in Nat /\ q[2].age \in Nat
    BY <2>2, <1>3, DelayAssumption DEF Item
  <2> QED
    BY <2>2, <2>3
<1>8. Packets(q) => Packets(r) /\ q[1].msg = "packet"
  BY <1>1 DEF Packets
<1>9. FreshEvents(q) => FreshEvents(r)
  BY <1>1 DEF FreshEvents
<1>10. NoPackets(q) => NoPackets(r)
  BY <1>1 DEF NoPackets
<1>11. FreshStart(q) => FreshStart(r) \/ (q[1].msg = "start" /\ q[1].age = 0)
  <2> SUFFICES ASSUME FreshStart(q), ~(q[1].msg = "start" /\ q[1].age = 0)
               PROVE  FreshStart(r)
    OBVIOUS
  <2>1. PICK i \in 1 .. Len(q) : q[i].msg = "start" /\ q[i].age = 0
    BY DEF FreshStart
  <2>2. i - 1 \in 1 .. Len(q) - 1 /\ r[i - 1] = q[i]
    BY <2>1, <1>1
  <2> QED
    BY <2>1, <2>2, <1>1 DEF FreshStart
<1>12. StartFirst(q) => q[1].msg = "start" \/ (q[1].msg = "packet" /\ StartFirst(r))
  <2> SUFFICES ASSUME StartFirst(q), q[1].msg # "start"
               PROVE  q[1].msg = "packet" /\ StartFirst(r)
    OBVIOUS
  <2>1. PICK i \in 1 .. Len(q) :
               q[i].msg = "start" /\ \A j \in 1 .. i - 1 : q[j].msg = "packet"
    BY DEF StartFirst
  <2>2. i - 1 \in 1 .. Len(q) - 1 /\ r[i - 1] = q[i] /\ 1 \in 1 .. i - 1
    BY <2>1, <1>1
  <2>3. \A j \in 1 .. (i - 1) - 1 : r[j].msg = "packet"
    <3> TAKE j \in 1 .. (i - 1) - 1
    <3>1. j + 1 \in 1 .. i - 1 /\ j \in 1 .. Len(q) - 1
      BY <2>1, <1>1
    <3> QED
      BY <3>1, <2>1, <1>1
  <2> QED
    BY <2>1, <2>2, <2>3, <1>1 DEF StartFirst
<1> QED
  BY <1>1, <1>3, <1>4, <1>5, <1>6, <1>7, <1>8, <1>9, <1>10, <1>11, <1>12

\* What was asked for stays asked for when the queue moves on.
LEMMA AskedTail ==
  ASSUME NEW q \in Seq(Item), q # <<>>, NEW r, r = Tail(q), NEW a
  PROVE  /\ AskedBehind(q, a, 1) => AskedBehind(r, a, 0)
         /\ AskedBehind(q, a, 0) /\ q[1].msg = "packet"
              => q[1].on /\ AskedBehind(r, a, 0)
         /\ AskedBehindStarts(q, a) => AskedBehindStarts(r, a)
         /\ AskedBehindStarts(q, a) /\ q[1].msg = "start" => AskedBehind(r, a, 0)
<1>1. /\ r \in Seq(Item) /\ Len(q) \in Nat \ {0} /\ Len(r) = Len(q) - 1
      /\ \A i \in 1 .. Len(q) - 1 : r[i] = q[i + 1]
  BY HeadTailProperties, LenProperties, EmptySeq
<1>2. ASSUME NEW i \in 0 .. Len(r), AskedBehind(q, a, i + 1)
      PROVE  AskedBehind(r, a, i)
  <2> SUFFICES ASSUME NEW j \in i + 1 .. Len(r) + 1,
                      \A k \in i + 1 .. j - 1 : r[k].msg = "packet"
               PROVE  IF j > Len(r) THEN a ELSE r[j].msg = "packet" => r[j].on
    BY DEF AskedBehind
  <2>1. \A k \in i + 2 .. j : q[k].msg = "packet"
    <3> TAKE k \in i + 2 .. j
    <3>1. k - 1 \in i + 1 .. j - 1 /\ k - 1 \in 1 .. Len(q) - 1
      BY <1>1
    <3>2. r[k - 1] = q[(k - 1) + 1]
      BY <3>1, <1>1
    <3> QED
      BY <3>1, <3>2
  <2>2. j + 1 \in (i + 1) + 1 .. Len(q) + 1
        /\ \A k \in (i + 1) + 1 .. (j + 1) - 1 : q[k].msg = "packet"
    BY <2>1, <1>1
  <2>3. IF j + 1 > Len(q) THEN a ELSE q[j + 1].msg = "packet" => q[j + 1].on
    BY <2>2, <1>2 DEF AskedBehind
  <2> QED
    BY <2>3, <1>1
<1>3. AskedBehind(q, a, 1) => AskedBehind(r, a, 0)
  <2>1. 0 \in 0 .. Len(r) /\ 0 + 1 = 1
    BY <1>1
  <2> QED
    BY <2>1, <1>2
<1>4. ASSUME AskedBehind(q, a, 0), q[1].msg = "packet"
      PROVE  q[1].on /\ AskedBehind(q, a, 1)
  <2>1. q[1].on
    BY <1>4, <1>1 DEF AskedBehind
  <2>2. ASSUME NEW j \in 1 + 1 .. Len(q) + 1,
               \A k \in 1 + 1 .. j - 1 : q[k].msg = "packet"
        PROVE  IF j > Len(q) THEN a ELSE q[j].msg = "packet" => q[j].on
    <3>1. j \in 0 + 1 .. Len(q) + 1 /\ \A k \in 0 + 1 .. j - 1 : q[k].msg = "packet"
      BY <2>2, <1>4, <1>1
    <3> QED
      BY <3>1, <1>4 DEF AskedBehind
  <2> QED
    BY <2>1, <2>2 DEF AskedBehind
<1>5. ASSUME AskedBehindStarts(q, a) PROVE AskedBehindStarts(r, a)
  <2> SUFFICES ASSUME NEW i \in 1 .. Len(r), r[i].msg = "start"
               PROVE  AskedBehind(r, a, i)
    BY DEF AskedBehindStarts
  <2>1. i + 1 \in 1 .. Len(q) /\ q[i + 1].msg = "start"
    BY <1>1
  <2>2. AskedBehind(q, a, i + 1)
    BY <2>1, <1>5 DEF AskedBehindStarts
  <2> QED
    BY <2>2, <1>2, <1>1
<1>6. AskedBehindStarts(q, a) /\ q[1].msg = "start" => AskedBehind(q, a, 1)
  BY <1>1 DEF AskedBehindStarts
<1> QED
  BY <1>3, <1>4, <1>5, <1>6

\* Time passes.
LEMMA AgedQueue ==
  ASSUME NEW q \in Seq(Item), \A i \in DOMAIN q : q[i].age < MaxAge, NEW r,
         r = [i \in DOMAIN q |-> [q[i] EXCEPT !.age = @ + 1]]
  PROVE  /\ r \in Seq(Item) /\ (r = <<>> <=> q = <<>>)
         /\ q # <<>> => r[1].age = q[1].age + 1 /\ LastAge(r) = LastAge(q) + 1
         /\ InOrderOfTime(q) => InOrderOfTime(r)
         /\ NoGap(q) => NoGap(r)
         /\ Packets(q) => Packets(r)
         /\ StartFirst(q) => StartFirst(r)
         /\ NoPackets(q) => NoPackets(r)
         /\ \A M : At(r, M) = At(q, M)
         /\ \A a : \A i \in Nat : AskedBehind(q, a, i) => AskedBehind(r, a, i)
         /\ \A a : AskedBehindStarts(q, a) => AskedBehindStarts(r, a)
<1>1. Len(q) \in Nat /\ DOMAIN q = 1 .. Len(q) /\ \A i \in 1 .. Len(q) : q[i] \in Item
  BY LenProperties, ElementOfSeq
<1>2. \A i \in 1 .. Len(q) :
        [q[i] EXCEPT !.age = @ + 1] \in Item /\ q[i].age \in Nat
  <2>1. ASSUME NEW y \in Item, y.age < MaxAge
        PROVE  [y EXCEPT !.age = @ + 1] \in Item /\ y.age \in Nat
    <3>1. y.age \in 0 .. MaxAge /\ MaxAge \in Nat
      BY DelayAssumption DEF Item
    <3>2. y.age + 1 \in 0 .. MaxAge /\ y.age \in Nat
      BY <3>1, <2>1
    <3> QED
      BY <3>2 DEF Item
  <2> QED
    BY <2>1, <1>1
<1>3. r \in Seq(Item) /\ Len(r) = Len(q)
  <2>1. r \in [1 .. Len(q) -> Item]
    BY <1>1, <1>2
  <2>2. r \in Seq(Item)
    BY <2>1, <1>1, SeqDef
  <2> QED
    BY <2>1, <2>2, <1>1, LenProperties
<1>4. \A i \in 1 .. Len(q) :
        r[i].msg = q[i].msg /\ r[i].on = q[i].on /\ r[i].age = q[i].age + 1
  BY <1>1 DEF Item
<1>5. DOMAIN r = DOMAIN q
  OBVIOUS
<1>6. /\ q # <<>> <=> Len(q) > 0
      /\ r # <<>> <=> Len(q) > 0
  BY <1>1, <1>3, EmptySeq
<1>7. q # <<>> => r[1].age = q[1].age + 1 /\ LastAge(r) = LastAge(q) + 1
  BY <1>1, <1>3, <1>4, <1>6 DEF LastAge
<1>8. InOrderOfTime(q) => InOrderOfTime(r)
  BY <1>1, <1>2, <1>3, <1>4 DEF InOrderOfTime
<1>9. NoGap(q) => NoGap(r)
  <2> SUFFICES ASSUME NoGap(q), NEW i \in 1 .. Len(q) - 1
               PROVE  r[i].age <= r[i + 1].age + 1
    BY <1>3 DEF NoGap
  <2>1. i \in 1 .. Len(q) /\ i + 1 \in 1 .. Len(q)
    BY <1>1
  <2>2. q[i].age <= q[i + 1].age + 1
    BY DEF NoGap
  <2> DEFINE x == q[i].age  y == q[i + 1].age
  <2>3. x \in Nat /\ y \in Nat /\ r[i].age = x + 1 /\ r[i + 1].age = y + 1 /\ x <= y + 1
    BY <2>1, <2>2, <1>2, <1>4
  <2> HIDE DEF x, y
  <2> QED
    BY <2>3
<1>10. (Packets(q) => Packets(r)) /\ (NoPackets(q) => NoPackets(r))
  BY <1>3, <1>4 DEF Packets, NoPackets
<1>11. ASSUME StartFirst(q) PROVE StartFirst(r)
  <2>1. PICK i \in 1 .. Len(q) :
               q[i].msg = "start" /\ \A j \in 1 .. i - 1 : q[j].msg = "packet"
    BY <1>11 DEF StartFirst
  <2>2. i \in 1 .. Len(r) /\ r[i].msg = "start"
        /\ \A j \in 1 .. i - 1 : r[j].msg = "packet"
    <3>1. i \in 1 .. Len(r) /\ \A j \in 1 .. i - 1 : j \in 1 .. Len(q)
      BY <1>1, <1>3
    <3>2. r[i].msg = q[i].msg /\ \A j \in 1 .. i - 1 : r[j].msg = q[j].msg
      BY <3>1, <1>4
    <3> QED
      BY <2>1, <3>1, <3>2
  <2> QED
    BY <2>2 DEF StartFirst
<1>12. \A M : At(r, M) = At(q, M)
  BY <1>1, <1>4, <1>5 DEF At
<1>13. ASSUME NEW a, NEW i \in Nat, AskedBehind(q, a, i) PROVE AskedBehind(r, a, i)
  <2> SUFFICES ASSUME NEW j \in i + 1 .. Len(r) + 1,
                      \A k \in i + 1 .. j - 1 : r[k].msg = "packet"
               PROVE  IF j > Len(r) THEN a ELSE r[j].msg = "packet" => r[j].on
    BY DEF AskedBehind
  <2>1. j \in i + 1 .. Len(q) + 1 /\ \A k \in i + 1 .. j - 1 : q[k].msg = "packet"
    <3>1. \A k \in i + 1 .. j - 1 : k \in 1 .. Len(q)
      BY <1>1, <1>3
    <3> QED
      BY <3>1, <1>1, <1>3, <1>4
  <2>2. IF j > Len(q) THEN a ELSE q[j].msg = "packet" => q[j].on
    BY <2>1, <1>13 DEF AskedBehind
  <2>3. j <= Len(q) => r[j].msg = q[j].msg /\ r[j].on = q[j].on
    BY <1>1, <1>4
  <2>4. Len(r) = Len(q) /\ (j > Len(q) \/ j <= Len(q))
    BY <1>1, <1>3
  <2>5. CASE j > Len(q)
    BY <2>2, <2>4, <2>5
  <2>6. CASE ~(j > Len(q))
    BY <2>2, <2>3, <2>4, <2>6, Zenon
  <2> QED
    BY <2>5, <2>6
<1>14. ASSUME NEW a, AskedBehindStarts(q, a) PROVE AskedBehindStarts(r, a)
  <2> SUFFICES ASSUME NEW i \in 1 .. Len(r), r[i].msg = "start"
               PROVE  AskedBehind(r, a, i)
    BY DEF AskedBehindStarts
  <2>1. i \in 1 .. Len(q) /\ q[i].msg = "start" /\ i \in Nat
    <3>1. i \in 1 .. Len(q) /\ i \in Nat
      BY <1>1, <1>3
    <3>2. r[i].msg = q[i].msg
      BY <3>1, <1>4
    <3> QED
      BY <3>1, <3>2
  <2> QED
    BY <2>1, <1>13, <1>14 DEF AskedBehindStarts
<1> QED
  BY <1>3, <1>6, <1>7, <1>8, <1>9, <1>10, <1>11, <1>12, <1>13, <1>14

\* The starts and the events that wait are counted.
LEMMA Counts ==
  ASSUME delay_data \in Seq(Item)
  PROVE  /\ StartsWaiting \in Nat /\ EventsWaiting \in Nat
         /\ StartsWaiting <= EventsWaiting
         /\ Packets(delay_data) => StartsWaiting = 0 /\ EventsWaiting = 0
         /\ FreshStart(delay_data) \/ StartFirst(delay_data) => StartsWaiting > 0
         /\ FreshEvents(delay_data) /\ StartsWaiting = 1 => StartFirst(delay_data)
<1> DEFINE q == delay_data
           S == At(q, {"start"})
           E == At(q, {"start", "stop"})
<1>1. StartsWaiting = Cardinality(S) /\ EventsWaiting = Cardinality(E)
  BY DEF StartsWaiting, EventsWaiting, Queued, At
<1>2. /\ S \subseteq E /\ DOMAIN q = 1 .. Len(q)
      /\ S = {i \in 1 .. Len(q) : q[i].msg = "start"}
      /\ E = {i \in 1 .. Len(q) : q[i].msg \in {"start", "stop"}}
  BY LenProperties DEF At
<1>3. /\ IsFiniteSet(S) /\ Cardinality(S) \in Nat /\ (Cardinality(S) = 0 <=> S = {})
      /\ IsFiniteSet(E) /\ Cardinality(E) \in Nat /\ (Cardinality(E) = 0 <=> E = {})
  BY PlacesFinite
<1>4. Cardinality(S) <= Cardinality(E)
  BY <1>2, <1>3, FS_Subset
<1>5. Packets(q) => S = {} /\ E = {}
  BY <1>2 DEF Packets
<1>6. FreshStart(q) \/ StartFirst(q) => S # {}
  BY <1>2 DEF FreshStart, StartFirst
<1>7. ASSUME FreshEvents(q), Cardinality(S) = 1 PROVE StartFirst(q)
  <2>1. PICK i : S = {i}
    BY <1>3, <1>7, FS_Singleton
  <2>2. i \in 1 .. Len(q) /\ q[i].msg = "start"
    BY <2>1, <1>2
  <2>3. \A j \in 1 .. i - 1 : q[j].msg = "packet"
    <3> TAKE j \in 1 .. i - 1
    <3>1. j \in 1 .. Len(q) /\ j # i
      BY <2>2, LenProperties
    <3>2. j \notin S
      BY <3>1, <2>1
    <3>3. q[j].msg # "start"
      BY <3>1, <3>2, <1>2
    <3> QED
      BY <3>1, <3>3, <1>7 DEF FreshEvents
  <2> QED
    BY <2>2, <2>3 DEF StartFirst
<1> QED
  BY <1>1, <1>3, <1>4, <1>5, <1>6, <1>7

\* How the numbers change with the queue.
LEMMA CountsChange ==
  ASSUME delay_data \in Seq(Item)
  PROVE  /\ \A x \in Item : delay_data' = Append(delay_data, x) =>
              /\ StartsWaiting' = StartsWaiting + IF x.msg = "start" THEN 1 ELSE 0
              /\ EventsWaiting' = EventsWaiting + IF x.msg = "packet" THEN 0 ELSE 1
         /\ delay_data # <<>> /\ delay_data' = Tail(delay_data) =>
              /\ StartsWaiting = StartsWaiting'
                                 + IF delay_data[1].msg = "start" THEN 1 ELSE 0
              /\ EventsWaiting = EventsWaiting'
                                 + IF delay_data[1].msg = "packet" THEN 0 ELSE 1
<1>1. /\ StartsWaiting = Cardinality(At(delay_data, {"start"}))
      /\ EventsWaiting = Cardinality(At(delay_data, {"start", "stop"}))
      /\ StartsWaiting' = Cardinality(At(delay_data', {"start"}))
      /\ EventsWaiting' = Cardinality(At(delay_data', {"start", "stop"}))
  BY DEF StartsWaiting, EventsWaiting, Queued, At
<1>2. \A x \in Item : x.msg \in {"start", "stop"} <=> x.msg # "packet"
  BY DEF Item
<1>3. ASSUME NEW x \in Item, delay_data' = Append(delay_data, x)
      PROVE  /\ StartsWaiting' = StartsWaiting + IF x.msg = "start" THEN 1 ELSE 0
             /\ EventsWaiting' = EventsWaiting + IF x.msg = "packet" THEN 0 ELSE 1
  <2>1. \A M : Cardinality(At(delay_data', M)) =
                 Cardinality(At(delay_data, M)) + IF x.msg \in M THEN 1 ELSE 0
    BY <1>3, CountAppended
  <2> QED
    BY <2>1, <1>1, <1>2
<1>4. ASSUME delay_data # <<>>, delay_data' = Tail(delay_data)
      PROVE  /\ StartsWaiting = StartsWaiting'
                                + IF delay_data[1].msg = "start" THEN 1 ELSE 0
             /\ EventsWaiting = EventsWaiting'
                                + IF delay_data[1].msg = "packet" THEN 0 ELSE 1
  <2>1. \A M : Cardinality(At(delay_data, M)) =
                 Cardinality(At(delay_data', M))
                 + IF delay_data[1].msg \in M THEN 1 ELSE 0
    BY <1>4, CountTail
  <2>2. delay_data[1] \in Item
    BY <1>4, TailOfQueue
  <2> QED
    BY <2>1, <2>2, <1>1, <1>2
<1> QED
  BY <1>3, <1>4

-----------------------------------------------------------------------------
(* Every step keeps the invariant.                                          *)

\* A packet leaves its thread.
LEMMA ProcessPacketKept ==
  ASSUME DelayTyped, ~astray, Calm, NEW e \in Encoders, ProcessPacket(e)
  PROVE  Orderly'
<1>1. /\ at[e] = "packet" /\ at' = [at EXCEPT ![e] = "pop"]
      /\ dd' = [dd EXCEPT ![e] = Nothing]
      /\ UNCHANGED <<delay_data, output, attached, stream, lag, button, force,
                     asked, stolen, astray>>
  BY DEF ProcessPacket, Goto, past
<1>2. DelayTyped'
  <2>1. dd' \in [Encoders -> PoppedItem]
    <3>1. Nothing \in PoppedItem
      <4>1. 0 \in 0 .. MaxAge
        BY DelayAssumption
      <4> QED
        BY <4>1 DEF Nothing, Packet, PoppedItem
    <3> QED
      BY <1>1, <3>1 DEF DelayTyped
  <2>2. AtTyped'
    BY <1>1 DEF DelayTyped, AtTyped, EncoderPlaces, UserPlaces, NetPlaces,
        StopPlaces, Encoders, DelayThreads
  <2>3. SentAsked'
    BY <1>1 DEF DelayTyped, AtTyped, SentAsked, Encoders, DelayThreads
  <2> QED
    BY <1>1, <2>1, <2>2, <2>3 DEF DelayTyped
<1>3. Turns'
  BY <1>1 DEF Turns, Calm, DelayTyped, AtTyped, Encoders, DelayThreads, Processing,
      Finishing, StopPlaces
<1>4. Closes'
  BY <1>1 DEF Closes, Calm, DelayTyped, AtTyped, Encoders, DelayThreads, Closing,
      Underway, EncoderPlaces, UserPlaces, NetPlaces, StopPlaces
<1>5. Leftover'
  BY <1>1 DEF Leftover, Calm, DelayTyped, AtTyped, Encoders, DelayThreads, Closing,
      StartsWaiting, Queued
<1>6. Dense'
  BY <1>1 DEF Dense, Calm, DelayTyped, AtTyped, Encoders, DelayThreads, Underway
<1>7. Wanted'
  BY <1>1 DEF Wanted, Calm, DelayTyped, AtTyped, Encoders, DelayThreads, Underway,
      Processing
<1>8. Counted'
  BY <1>1 DEF Counted, Calm, DelayTyped, AtTyped, Encoders, DelayThreads, Popped,
      Uncounted, Owed, EventsWaiting, StartsWaiting, Queued
<1> QED
  BY <1>2, <1>3, <1>4, <1>5, <1>6, <1>7, <1>8 DEF Orderly, Calm

\* Nothing is due: the thread has done its round.
LEMMA NothingDueKept ==
  ASSUME DelayTyped, ~astray, Calm, NEW e \in Encoders, NothingDue(e)
  PROVE  Orderly'
<1>1. /\ at[e] = "pop" /\ at' = [at EXCEPT ![e] = "idle"]
      /\ UNCHANGED <<delay_data, output, attached, stream, dd, lag, button, force,
                     asked, stolen, astray>>
  BY DEF NothingDue, Goto, past
<1>2. DelayTyped'
  <2>1. AtTyped'
    BY <1>1 DEF DelayTyped, AtTyped, EncoderPlaces, UserPlaces, NetPlaces,
        StopPlaces, Encoders, DelayThreads
  <2>2. SentAsked'
    BY <1>1 DEF DelayTyped, AtTyped, SentAsked, Encoders, DelayThreads
  <2> QED
    BY <1>1, <2>1, <2>2 DEF DelayTyped
<1>3. Turns'
  BY <1>1 DEF Turns, Calm, DelayTyped, AtTyped, Encoders, DelayThreads, Processing,
      Finishing, StopPlaces
<1>4. Closes'
  BY <1>1 DEF Closes, Calm, DelayTyped, AtTyped, Encoders, DelayThreads, Closing,
      Underway, EncoderPlaces, UserPlaces, NetPlaces, StopPlaces
<1>5. Leftover'
  BY <1>1 DEF Leftover, Calm, DelayTyped, AtTyped, Encoders, DelayThreads, Closing,
      StartsWaiting, Queued
<1>6. Dense'
  BY <1>1 DEF Dense, Calm, DelayTyped, AtTyped, Encoders, DelayThreads, Underway
<1>7. Wanted'
  BY <1>1 DEF Wanted, Calm, DelayTyped, AtTyped, Encoders, DelayThreads, Underway,
      Processing
<1>8. Counted'
  BY <1>1 DEF Counted, Calm, DelayTyped, AtTyped, Encoders, DelayThreads, Popped,
      Uncounted, Owed, EventsWaiting, StartsWaiting, Queued
<1> QED
  BY <1>2, <1>3, <1>4, <1>5, <1>6, <1>7, <1>8 DEF Orderly, Calm

\* The encoder of video is detached; its thread then is in nobody else's start or stop.
LEMMA DetachVideoKept ==
  ASSUME DelayTyped, ~astray, Calm, NEW x \in DelayThreads, DetachVideo(x)
  PROVE  Orderly'
<1>1. /\ at[x] = "detachVideo" /\ at' = [at EXCEPT ![x] = "detachAudio"]
      /\ x # "video" => at["video"] = "idle"
      /\ attached' = attached \ {f \in {"video"} : output.active_delay_ns > 0}
      /\ UNCHANGED <<delay_data, output, stream, dd, lag, button, force,
                     asked, stolen, astray>>
  BY DEF DetachVideo, Detach, Quiet, Goto, past
<1>2. DelayTyped'
  <2>1. AtTyped'
    BY <1>1 DEF DelayTyped, AtTyped, EncoderPlaces, UserPlaces, NetPlaces,
        StopPlaces, Encoders, DelayThreads
  <2>2. SentAsked'
    BY <1>1 DEF DelayTyped, AtTyped, SentAsked, Encoders, DelayThreads
  <2> QED
    BY <1>1, <2>1, <2>2 DEF DelayTyped
<1>3. Turns'
  BY <1>1 DEF Turns, Calm, DelayTyped, AtTyped, Encoders, DelayThreads, Processing,
      Finishing, StopPlaces
<1>4. Closes'
  BY <1>1 DEF Closes, Calm, DelayTyped, AtTyped, Encoders, DelayThreads, Closing,
      Underway, EncoderPlaces, UserPlaces, NetPlaces, StopPlaces
<1>5. Leftover'
  BY <1>1 DEF Leftover, Calm, DelayTyped, AtTyped, Encoders, DelayThreads, Closing,
      StartsWaiting, Queued
<1>6. Dense'
  BY <1>1 DEF Dense, Calm, DelayTyped, AtTyped, Encoders, DelayThreads, Underway
<1>7. Wanted'
  BY <1>1 DEF Wanted, Calm, DelayTyped, AtTyped, Encoders, DelayThreads, Underway,
      Processing
<1>8. Counted'
  BY <1>1 DEF Counted, Calm, DelayTyped, AtTyped, Encoders, DelayThreads, Popped,
      Uncounted, Owed, EventsWaiting, StartsWaiting, Queued
<1> QED
  BY <1>2, <1>3, <1>4, <1>5, <1>6, <1>7, <1>8 DEF Orderly, Calm

\* The encoder of audio is detached, and the queue gets no more packets.
LEMMA DetachAudioKept ==
  ASSUME DelayTyped, ~astray, Calm, NEW x \in DelayThreads, DetachAudio(x)
  PROVE  Orderly'
<1>1. /\ at[x] = "detachAudio" /\ at' = [at EXCEPT ![x] = "cleanup"]
      /\ x # "audio" => at["audio"] = "idle"
      /\ attached' = attached \ {f \in {"audio"} : output.active_delay_ns > 0}
      /\ UNCHANGED <<delay_data, output, stream, dd, lag, button, force,
                     asked, stolen, astray>>
  BY DEF DetachAudio, Detach, Quiet, Goto, past
<1>2. DelayTyped'
  <2>1. AtTyped'
    BY <1>1 DEF DelayTyped, AtTyped, EncoderPlaces, UserPlaces, NetPlaces,
        StopPlaces, Encoders, DelayThreads
  <2>2. SentAsked'
    BY <1>1 DEF DelayTyped, AtTyped, SentAsked, Encoders, DelayThreads
  <2> QED
    BY <1>1, <2>1, <2>2 DEF DelayTyped
<1>3. Turns'
  BY <1>1 DEF Turns, Calm, DelayTyped, AtTyped, Encoders, DelayThreads, Processing,
      Finishing, StopPlaces
<1>4. Closes'
  BY <1>1 DEF Closes, Calm, DelayTyped, AtTyped, Encoders, DelayThreads, Closing,
      Underway, EncoderPlaces, UserPlaces, NetPlaces, StopPlaces
<1>5. Leftover'
  BY <1>1 DEF Leftover, Calm, DelayTyped, AtTyped, Encoders, DelayThreads, Closing,
      StartsWaiting, Queued
<1>6. Dense'
  BY <1>1 DEF Dense, Calm, DelayTyped, AtTyped, Encoders, DelayThreads, Underway
<1>7. Wanted'
  BY <1>1 DEF Wanted, Calm, DelayTyped, AtTyped, Encoders, DelayThreads, Underway,
      Processing
<1>8. Counted'
  BY <1>1 DEF Counted, Calm, DelayTyped, AtTyped, Encoders, DelayThreads, Popped,
      Uncounted, Owed, EventsWaiting, StartsWaiting, Queued
<1> QED
  BY <1>2, <1>3, <1>4, <1>5, <1>6, <1>7, <1>8 DEF Orderly, Calm

\* The last thing of a stop; what is left over of it says that the output is closed.
LEMMA SignalStopKept ==
  ASSUME DelayTyped, ~astray, Calm, NEW x \in DelayThreads, SignalStop(x)
  PROVE  Orderly'
<1>1. /\ at[x] = "signal"
      /\ at' = [at EXCEPT ![x] = IF x \in Encoders THEN "pop" ELSE "idle"]
      /\ stream' = IF x = "net" THEN "idle" ELSE stream
      /\ force' = (force /\ x # "user")
      /\ UNCHANGED <<delay_data, output, attached, dd, lag, asked, stolen, astray>>
  BY DEF SignalStop, Goto, Back, past
<1>0. /\ Finishing(x)
      /\ x = "user" => ~output.delay_active /\ (~output.active => Packets(delay_data))
      /\ Packets(delay_data) => AskedBehindStarts(delay_data, asked)
      /\ output.reconnecting => stream # "idle" /\ x # "net"
      /\ x = "user" => ~Underway
      /\ x = "net" => stream = "failing"
      /\ x # "net" => stream = "idle"
  BY <1>1 DEF DelayTyped, AtTyped, Calm, Turns, Closes, Leftover, Finishing,
      StopPlaces,
              DelayThreads, Packets, AskedBehindStarts
<1>2. DelayTyped'
  <2>1. AtTyped'
    BY <1>1 DEF DelayTyped, AtTyped, EncoderPlaces, UserPlaces, NetPlaces,
        StopPlaces, Encoders, DelayThreads
  <2>2. SentAsked'
    BY <1>1 DEF DelayTyped, AtTyped, SentAsked, Encoders, DelayThreads
  <2> QED
    BY <1>1, <2>1, <2>2 DEF DelayTyped
<1>3. Turns'
  BY <1>1 DEF Turns, Calm, DelayTyped, AtTyped, Encoders, DelayThreads, Processing,
      Finishing, StopPlaces
<1>4. Closes'
  <2>1. CASE x \in Encoders
    BY <1>1, <1>0, <2>1, SMTT(30) DEF Closes, Calm, DelayTyped, AtTyped, Encoders,
        DelayThreads, Closing, Underway, EncoderPlaces, UserPlaces, NetPlaces,
        StopPlaces
  <2>2. CASE x = "user"
    BY <1>1, <1>0, <2>2, SMTT(30) DEF Closes, Calm, DelayTyped, AtTyped, Encoders,
        DelayThreads, Closing, Underway, EncoderPlaces, UserPlaces, NetPlaces,
        StopPlaces
  <2>3. CASE x = "net"
    BY <1>1, <1>0, <2>3, SMTT(30) DEF Closes, Calm, DelayTyped, AtTyped, Encoders,
        DelayThreads, Closing, Underway, EncoderPlaces, UserPlaces, NetPlaces,
        StopPlaces
  <2> QED
    BY <2>1, <2>2, <2>3 DEF DelayThreads
<1>5. Leftover'
  BY <1>1 DEF Leftover, Calm, DelayTyped, AtTyped, Encoders, DelayThreads, Closing,
      StartsWaiting, Queued
<1>6. Dense'
  BY <1>1 DEF Dense, Calm, DelayTyped, AtTyped, Encoders, DelayThreads, Underway
<1>7. Wanted'
  <2>1. CASE x \in Encoders
    BY <1>1, <1>0, <2>1, SMTT(30) DEF Wanted, Calm, DelayTyped, AtTyped, Encoders,
        DelayThreads, Underway, Processing
  <2>2. CASE x = "user"
    BY <1>1, <1>0, <2>2, SMTT(30) DEF Wanted, Calm, DelayTyped, AtTyped, Encoders,
        DelayThreads, Underway, Processing
  <2>3. CASE x = "net"
    BY <1>1, <1>0, <2>3, SMTT(30) DEF Wanted, Calm, DelayTyped, AtTyped, Encoders,
        DelayThreads, Underway, Processing
  <2> QED
    BY <2>1, <2>2, <2>3 DEF DelayThreads
<1>8. Counted'
  BY <1>1 DEF Counted, Calm, DelayTyped, AtTyped, Encoders, DelayThreads, Popped,
      Uncounted, Owed, EventsWaiting, StartsWaiting, Queued
<1> QED
  BY <1>2, <1>3, <1>4, <1>5, <1>6, <1>7, <1>8 DEF Orderly, Calm

\* The delay grows to the age of the oldest packet, so nothing becomes due by it.
LEMMA PreserveKept ==
  ASSUME DelayTyped, ~astray, Calm, NEW e \in Encoders, Preserve(e)
  PROVE  Orderly'
<1>1. /\ at[e] = "pop" /\ at' = [at EXCEPT ![e] = "idle"]
      /\ delay_data # <<>> /\ output.reconnecting
      /\ output' = [output EXCEPT !.active_delay_ns = Elapsed(e)]
      /\ UNCHANGED <<delay_data, attached, stream, dd, lag, button, force,
                     asked, stolen, astray>>
  BY DEF Preserve, Preserving, Goto, past
<1> DEFINE age == delay_data[1].age
<1>0. /\ age \in 0 .. MaxAge /\ Elapsed(e) = age
      /\ output.active_delay_ns <= age /\ output.active_delay_ns >= delay_sec
      /\ delay_sec > 0 /\ delay_sec \in Nat /\ output.active_delay_ns \in Nat
      /\ output.delay_active /\ Underway
  <2>1. Underway /\ lag[e] = 0
    BY <1>1 DEF Calm, Closes, Underway
  <2>2. output.delay_active /\ output.active_delay_ns >= delay_sec
        /\ output.active_delay_ns <= age
    BY <2>1 DEF Calm, Closes, Dense
  <2>3. age \in 0 .. MaxAge /\ Oldest.age = age
    BY <1>1, TailOfQueue DEF DelayTyped, Item, Oldest
  <2>4. MaxAge \in Nat /\ delay_sec \in Nat \ {0}
    BY DelayAssumption
  <2>5. Elapsed(e) = age
    BY <2>1, <2>3, <2>4 DEF Elapsed
  <2> QED
    BY <2>1, <2>2, <2>3, <2>4, <2>5 DEF DelayTyped, OutputFields
<1>a. /\ output' \in OutputFields
      /\ output'.delay_active = output.delay_active
      /\ output'.delay_capturing = output.delay_capturing
      /\ output'.active = output.active
      /\ output'.active_delay_ns = age
      /\ output'.preserve = output.preserve
      /\ output'.delay_restart_refs = output.delay_restart_refs
      /\ output'.reconnecting = output.reconnecting
  BY <1>0, <1>1 DEF DelayTyped, OutputFields
<1>b. age = delay_data[1].age /\ age <= age
  BY <1>0
<1> HIDE DEF age
<1>2. DelayTyped'
  <2>1. output' \in OutputFields /\ (output'.delay_active => output'.active)
    BY <1>a DEF DelayTyped
  <2>2. SentAsked'
    BY <1>1, <1>a DEF DelayTyped, AtTyped, SentAsked, Encoders, DelayThreads
  <2>3. AtTyped'
    BY <1>1 DEF DelayTyped, AtTyped, EncoderPlaces, UserPlaces, NetPlaces,
        StopPlaces, Encoders, DelayThreads
  <2> QED
    BY <1>1, <2>1, <2>2, <2>3 DEF DelayTyped
<1>3. Turns'
  BY <1>1, <1>a, <1>0 DEF Turns, Calm, DelayTyped, AtTyped, Encoders, DelayThreads,
      Processing, Finishing, StopPlaces
<1>4. Closes'
  BY <1>1, <1>a, <1>0 DEF Closes, Calm, DelayTyped, AtTyped, Encoders,
      DelayThreads, Closing, Underway, EncoderPlaces, UserPlaces, NetPlaces,
      StopPlaces
<1>5. Leftover'
  BY <1>1, <1>a, <1>0 DEF Leftover, Calm, DelayTyped, AtTyped, Encoders,
      DelayThreads, Closing, StartsWaiting, Queued
<1>6. Dense'
  BY <1>1, <1>a, <1>0, <1>b DEF Dense, Calm, DelayTyped, AtTyped, Encoders,
      DelayThreads, Underway
<1>7. Wanted'
  BY <1>1, <1>a, <1>0 DEF Wanted, Calm, DelayTyped, AtTyped, Encoders,
      DelayThreads, Underway, Processing
<1>8. Counted'
  BY <1>1, <1>a, <1>0 DEF Counted, Calm, DelayTyped, AtTyped, Encoders,
      DelayThreads, Popped, Uncounted, Owed, EventsWaiting, StartsWaiting, Queued
<1> QED
  BY <1>2, <1>3, <1>4, <1>5, <1>6, <1>7, <1>8 DEF Orderly, Calm

\* A connection begins to capture: what is due next was asked for.
LEMMA ConnectedKept ==
  ASSUME DelayTyped, ~astray, Calm, Connected
  PROVE  Orderly'
<1>c. output.delay_active
  <2>1. stream = "connecting"
    BY DEF Connected
  <2> QED
    BY <2>1 DEF Calm, Closes, Underway
<1>1. /\ Settled /\ stream = "connecting" /\ output.delay_active /\ stream' = "live"
      /\ output' = [output EXCEPT !.delay_capturing = TRUE,
                                  !.reconnecting = FALSE, !.preserve = FALSE]
      /\ UNCHANGED <<delay_data, attached, at, dd, lag, force, asked, stolen, astray>>
  BY <1>c DEF Connected, past
<1>0. /\ \A e \in Encoders : at[e] \notin {"packet", "start", "pop", "decide", "cleanup", "signal"}
      /\ at["user"] \notin {"push", "begin", "decide", "cleanup", "signal"}
      /\ at["net"] \notin {"cleanup", "signal"}
  BY <1>1 DEF Settled, Blocked, Encoders, DelayThreads
<1>a. /\ output' \in OutputFields
      /\ output'.delay_active = output.delay_active
      /\ output'.delay_capturing = TRUE
      /\ output'.active = output.active
      /\ output'.active_delay_ns = output.active_delay_ns
      /\ output'.preserve = FALSE
      /\ output'.delay_restart_refs = output.delay_restart_refs
      /\ output'.reconnecting = FALSE
  BY <1>1 DEF DelayTyped, OutputFields
<1>2. DelayTyped'
  <2>1. output' \in OutputFields /\ (output'.delay_active => output'.active)
    BY <1>a DEF DelayTyped
  <2>2. SentAsked'
    BY <1>1, <1>0, <1>a DEF DelayTyped, AtTyped, SentAsked, Encoders, DelayThreads
  <2>3. AtTyped'
    BY <1>1 DEF DelayTyped, AtTyped
  <2> QED
    BY <1>1, <2>1, <2>2, <2>3 DEF DelayTyped
<1>3. Turns'
  BY <1>1, <1>0, <1>a DEF Turns, Calm, DelayTyped, AtTyped, Encoders, DelayThreads,
      Processing, Finishing, StopPlaces
<1>4. Closes'
  BY <1>1, <1>0, <1>a DEF Closes, Calm, DelayTyped, AtTyped, Encoders,
      DelayThreads, Closing, Underway, EncoderPlaces, UserPlaces, NetPlaces,
      StopPlaces
<1>5. Leftover'
  BY <1>1, <1>0, <1>a DEF Leftover, Calm, DelayTyped, AtTyped, Encoders,
      DelayThreads, Closing, StartsWaiting, Queued
<1>6. Dense'
  BY <1>1, <1>0, <1>a DEF Dense, Calm, DelayTyped, AtTyped, Encoders, DelayThreads,
      Underway
<1>7. Wanted'
  BY <1>1, <1>0, <1>a DEF Wanted, Calm, DelayTyped, AtTyped, Encoders,
      DelayThreads, Underway, Processing
<1>8. Counted'
  BY <1>1, <1>0, <1>a DEF Counted, Calm, DelayTyped, AtTyped, Encoders,
      DelayThreads, Popped, Uncounted, Owed, EventsWaiting, StartsWaiting, Queued
<1> QED
  BY <1>2, <1>3, <1>4, <1>5, <1>6, <1>7, <1>8 DEF Orderly, Calm

\* A connection is lost: nothing captures until it is restored.
LEMMA LoseKept ==
  ASSUME DelayTyped, ~astray, Calm, Lose
  PROVE  Orderly'
<1>1. /\ Settled /\ stream = "live" /\ output.delay_active /\ stream' = "waiting"
      /\ UNCHANGED <<delay_data, attached, at, dd, lag, button, force,
                     asked, stolen, astray>>
  BY DEF Lose, past
<1>0. /\ \A e \in Encoders : at[e] \notin {"packet", "start", "pop", "decide", "cleanup", "signal"}
      /\ at["user"] \notin {"push", "begin", "decide", "cleanup", "signal"}
      /\ at["net"] \notin {"cleanup", "signal"}
  BY <1>1 DEF Settled, Blocked, Encoders, DelayThreads
<1>2a. PICK preserve \in BOOLEAN :
         output' = [output EXCEPT !.delay_capturing = FALSE, !.reconnecting = TRUE,
                                  !.preserve = preserve]
  BY DEF Lose
<1>a. /\ output' \in OutputFields
      /\ output'.delay_active = output.delay_active
      /\ output'.delay_capturing = FALSE
      /\ output'.active = output.active
      /\ output'.active_delay_ns = output.active_delay_ns
      /\ output'.preserve = preserve
      /\ output'.delay_restart_refs = output.delay_restart_refs
      /\ output'.reconnecting = TRUE
  BY <1>2a DEF DelayTyped, OutputFields
<1>2. DelayTyped'
  <2>1. output' \in OutputFields /\ (output'.delay_active => output'.active)
    BY <1>a DEF DelayTyped
  <2>2. SentAsked'
    BY <1>1, <1>0, <1>a DEF DelayTyped, AtTyped, SentAsked, Encoders, DelayThreads
  <2>3. AtTyped'
    BY <1>1 DEF DelayTyped, AtTyped
  <2> QED
    BY <1>1, <2>1, <2>2, <2>3 DEF DelayTyped
<1>3. Turns'
  BY <1>1, <1>0, <1>a DEF Turns, Calm, DelayTyped, AtTyped, Encoders, DelayThreads,
      Processing, Finishing, StopPlaces
<1>4. Closes'
  BY <1>1, <1>0, <1>a DEF Closes, Calm, DelayTyped, AtTyped, Encoders,
      DelayThreads, Closing, Underway, EncoderPlaces, UserPlaces, NetPlaces,
      StopPlaces
<1>5. Leftover'
  BY <1>1, <1>0, <1>a DEF Leftover, Calm, DelayTyped, AtTyped, Encoders,
      DelayThreads, Closing, StartsWaiting, Queued
<1>6. Dense'
  BY <1>1, <1>0, <1>a DEF Dense, Calm, DelayTyped, AtTyped, Encoders, DelayThreads,
      Underway
<1>7. Wanted'
  BY <1>1, <1>0, <1>a DEF Wanted, Calm, DelayTyped, AtTyped, Encoders,
      DelayThreads, Underway, Processing
<1>8. Counted'
  BY <1>1, <1>0, <1>a DEF Counted, Calm, DelayTyped, AtTyped, Encoders,
      DelayThreads, Popped, Uncounted, Owed, EventsWaiting, StartsWaiting, Queued
<1> QED
  BY <1>2, <1>3, <1>4, <1>5, <1>6, <1>7, <1>8 DEF Orderly, Calm

\* An attempt fails and another one will follow.
LEMMA RetryLaterKept ==
  ASSUME DelayTyped, ~astray, Calm, RetryLater
  PROVE  Orderly'
<1>1. /\ Settled /\ stream = "connecting" /\ output.reconnecting /\ stream' = "waiting"
      /\ output' = [output EXCEPT !.delay_capturing = FALSE]
      /\ UNCHANGED <<delay_data, attached, at, dd, lag, button, force,
                     asked, stolen, astray>>
  BY DEF RetryLater, past
<1>0. /\ \A e \in Encoders : at[e] \notin {"packet", "start", "pop", "decide", "cleanup", "signal"}
      /\ at["user"] \notin {"push", "begin", "decide", "cleanup", "signal"}
      /\ at["net"] \notin {"cleanup", "signal"}
  BY <1>1 DEF Settled, Blocked, Encoders, DelayThreads
<1>a. /\ output' \in OutputFields
      /\ output'.delay_active = output.delay_active
      /\ output'.delay_capturing = FALSE
      /\ output'.active = output.active
      /\ output'.active_delay_ns = output.active_delay_ns
      /\ output'.preserve = output.preserve
      /\ output'.delay_restart_refs = output.delay_restart_refs
      /\ output'.reconnecting = output.reconnecting
  BY <1>1 DEF DelayTyped, OutputFields
<1>2. DelayTyped'
  <2>1. output' \in OutputFields /\ (output'.delay_active => output'.active)
    BY <1>a DEF DelayTyped
  <2>2. SentAsked'
    BY <1>1, <1>0, <1>a DEF DelayTyped, AtTyped, SentAsked, Encoders, DelayThreads
  <2>3. AtTyped'
    BY <1>1 DEF DelayTyped, AtTyped
  <2> QED
    BY <1>1, <2>1, <2>2, <2>3 DEF DelayTyped
<1>3. Turns'
  BY <1>1, <1>0, <1>a DEF Turns, Calm, DelayTyped, AtTyped, Encoders, DelayThreads,
      Processing, Finishing, StopPlaces
<1>4. Closes'
  BY <1>1, <1>0, <1>a DEF Closes, Calm, DelayTyped, AtTyped, Encoders,
      DelayThreads, Closing, Underway, EncoderPlaces, UserPlaces, NetPlaces,
      StopPlaces
<1>5. Leftover'
  BY <1>1, <1>0, <1>a DEF Leftover, Calm, DelayTyped, AtTyped, Encoders,
      DelayThreads, Closing, StartsWaiting, Queued
<1>6. Dense'
  BY <1>1, <1>0, <1>a DEF Dense, Calm, DelayTyped, AtTyped, Encoders, DelayThreads,
      Underway
<1>7. Wanted'
  BY <1>1, <1>0, <1>a DEF Wanted, Calm, DelayTyped, AtTyped, Encoders,
      DelayThreads, Underway, Processing
<1>8. Counted'
  BY <1>1, <1>0, <1>a DEF Counted, Calm, DelayTyped, AtTyped, Encoders,
      DelayThreads, Popped, Uncounted, Owed, EventsWaiting, StartsWaiting, Queued
<1> QED
  BY <1>2, <1>3, <1>4, <1>5, <1>6, <1>7, <1>8 DEF Orderly, Calm

\* A connection fails: from here its thread closes the capture.
LEMMA ConnectFailsKept ==
  ASSUME DelayTyped, ~astray, Calm, ConnectFails
  PROVE  Orderly'
<1>1. /\ Settled /\ stream = "connecting" /\ stream' = "failing"
      /\ at["net"] = "idle" /\ output.delay_active /\ output.active
      /\ at' = [at EXCEPT !["net"] = "detachVideo"]
      /\ output' = [output EXCEPT !.delay_capturing = FALSE, !.delay_active = FALSE,
                                  !.reconnecting = FALSE, !.preserve = FALSE]
      /\ UNCHANGED <<delay_data, attached, dd, lag, button, force,
                     asked, stolen, astray>>
  BY DEF ConnectFails, Goto, past, DelayTyped, Calm, Closes, Underway
<1>0. /\ \A e \in Encoders : at[e] \notin {"packet", "start", "pop", "decide", "cleanup", "signal"}
      /\ at["user"] \notin {"push", "begin", "decide", "cleanup", "signal"}
      /\ at["net"] \notin {"cleanup", "signal"}
  BY <1>1 DEF Settled, Blocked, Encoders, DelayThreads
<1>d. output.delay_active => output.active_delay_ns > 0
  BY DelayAssumption DEF Calm, Closes, DelayTyped, OutputFields
<1>a. /\ output' \in OutputFields
      /\ output'.delay_active = FALSE
      /\ output'.delay_capturing = FALSE
      /\ output'.active = output.active
      /\ output'.active_delay_ns = output.active_delay_ns
      /\ output'.preserve = FALSE
      /\ output'.delay_restart_refs = output.delay_restart_refs
      /\ output'.reconnecting = FALSE
  BY <1>1 DEF DelayTyped, OutputFields
<1>2. DelayTyped'
  <2>1. output' \in OutputFields /\ (output'.delay_active => output'.active)
    BY <1>a DEF DelayTyped
  <2>2. SentAsked'
    BY <1>1, <1>0, <1>a DEF DelayTyped, AtTyped, SentAsked, Encoders, DelayThreads
  <2>3. AtTyped'
    BY <1>1 DEF DelayTyped, AtTyped, EncoderPlaces, UserPlaces, NetPlaces,
        StopPlaces, Encoders, DelayThreads
  <2> QED
    BY <1>1, <2>1, <2>2, <2>3 DEF DelayTyped
<1>3. Turns'
  BY <1>1, <1>0, <1>a, <1>d DEF Turns, Calm, DelayTyped, AtTyped, Encoders,
      DelayThreads, Processing, Finishing, StopPlaces
<1>4. Closes'
  BY <1>1, <1>0, <1>a, <1>d DEF Closes, Calm, DelayTyped, AtTyped, Encoders,
      DelayThreads, Closing, Underway, EncoderPlaces, UserPlaces, NetPlaces,
      StopPlaces
<1>5. Leftover'
  BY <1>1, <1>0, <1>a, <1>d DEF Leftover, Calm, DelayTyped, AtTyped, Encoders,
      DelayThreads, Closing, StartsWaiting, Queued
<1>6. Dense'
  BY <1>1, <1>0, <1>a, <1>d DEF Dense, Calm, DelayTyped, AtTyped, Encoders,
      DelayThreads, Underway
<1>7. Wanted'
  BY <1>1, <1>0, <1>a, <1>d DEF Wanted, Calm, DelayTyped, AtTyped, Encoders,
      DelayThreads, Underway, Processing
<1>8. Counted'
  BY <1>1, <1>0, <1>a, <1>d DEF Counted, Calm, DelayTyped, AtTyped, Encoders,
      DelayThreads, Popped, Uncounted, Owed, EventsWaiting, StartsWaiting, Queued
<1> QED
  BY <1>2, <1>3, <1>4, <1>5, <1>6, <1>7, <1>8 DEF Orderly, Calm

\* A start that was popped takes a reference, its own or another one's.
LEMMA ProcessStartKept ==
  ASSUME DelayTyped, ~astray, Calm, NEW e \in Encoders, ProcessStart(e)
  PROVE  Orderly'
<1>1. /\ at[e] = "start" /\ at' = [at EXCEPT ![e] = "pop"]
      /\ stream' = IF CanBegin THEN "connecting" ELSE stream
      /\ output' = [output EXCEPT !.delay_restart_refs = RefsAfterStart]
      /\ stolen' = (stolen \/ RefsAfterStart < StartsWaiting)
      /\ UNCHANGED <<delay_data, attached, dd, lag, button, force, asked, astray>>
  BY DEF ProcessStart, ActualStart, Goto, past
<1>n. /\ StartsWaiting \in Nat /\ EventsWaiting \in Nat
      /\ output.delay_restart_refs \in Nat
      /\ FreshStart(delay_data) => StartsWaiting > 0
  BY DelayAssumption, Counts DEF DelayTyped, OutputFields
<1>0. /\ RefsAfterStart \in 0 .. MaxEvents + 1 /\ RefsAfterStart \in Nat
      /\ output.delay_restart_refs > 0 => RefsAfterStart = output.delay_restart_refs - 1
      /\ output.delay_restart_refs = 0 => RefsAfterStart = 0
  BY <1>n, DelayAssumption DEF RefsAfterStart, DelayTyped, OutputFields
<1>b. /\ Underway /\ output.delay_active /\ stream' = "connecting" /\ output.active
      /\ ~Processing("user")
      /\ \A x \in Encoders : at[x] = "stop" \/ at[x] = "start" \/ at[x] = "decide" => x = e
      /\ Underway'
      /\ Popped = 1 /\ Popped' = 0 /\ StartsWaiting' = StartsWaiting /\ EventsWaiting' = EventsWaiting
      /\ \A x \in DelayThreads : ~Finishing(x)
      /\ output.reconnecting => lag[e] = 0
  BY <1>1 DEF Underway, CanBegin, Calm, Closes, Turns, Processing, Encoders,
      DelayThreads,
             DelayTyped, AtTyped, Popped, Finishing, StopPlaces, StartsWaiting, EventsWaiting,
             Queued
<1>a. /\ output' \in OutputFields
      /\ output'.delay_active = output.delay_active
      /\ output'.delay_capturing = output.delay_capturing
      /\ output'.active = output.active
      /\ output'.active_delay_ns = output.active_delay_ns
      /\ output'.preserve = output.preserve
      /\ output'.delay_restart_refs = RefsAfterStart
      /\ output'.reconnecting = output.reconnecting
  BY <1>1, <1>0, <1>b DEF DelayTyped, OutputFields
<1>2. DelayTyped'
  <2>1. output' \in OutputFields /\ (output'.delay_active => output'.active)
    BY <1>a, <1>1, <1>0, <1>b DEF DelayTyped
  <2>2. SentAsked'
    BY <1>1, <1>a, <1>0, <1>b DEF DelayTyped, AtTyped, SentAsked, Encoders,
        DelayThreads
  <2>3. AtTyped'
    BY <1>1 DEF DelayTyped, AtTyped, EncoderPlaces, UserPlaces, NetPlaces,
        StopPlaces, Encoders, DelayThreads
  <2> QED
    BY <1>1, <2>1, <2>2, <2>3 DEF DelayTyped
<1>3. Turns'
  BY <1>1, <1>a, <1>0, <1>b DEF Turns, Calm, DelayTyped, AtTyped, Encoders,
      DelayThreads, Processing, Finishing, StopPlaces
<1>4. Closes'
  BY <1>1, <1>a, <1>0, <1>b DEF Closes, Calm, DelayTyped, AtTyped, Encoders,
      DelayThreads, Closing, Underway, EncoderPlaces, UserPlaces, NetPlaces,
      StopPlaces
<1>5. Leftover'
  BY <1>1, <1>a, <1>0, <1>b DEF Leftover, Calm, DelayTyped, AtTyped, Encoders,
      DelayThreads, Closing, StartsWaiting, Queued
<1>6. Dense'
  BY <1>1, <1>a, <1>0, <1>b DEF Dense, Calm, DelayTyped, AtTyped, Encoders,
      DelayThreads, Underway
<1>7. Wanted'
  BY <1>1, <1>a, <1>0, <1>b DEF Wanted, Calm, DelayTyped, AtTyped, Encoders,
      DelayThreads, Underway, Processing
<1>8. Counted'
  <2> DEFINE s == StartsWaiting  r == output.delay_restart_refs  u == Uncounted
             p == 1  t == RefsAfterStart
  <2>1. /\ u \in {0, 1} /\ Uncounted' = u /\ (u = 1 => s > 0)
        /\ s \in Nat /\ r \in Nat /\ t \in Nat
        /\ r > 0 => t = r - 1
        /\ r = 0 => t = 0
        /\ Owed = s + p - u /\ Owed' = s - u
        /\ r <= Owed
        /\ stolen' = (stolen \/ t < s)
        /\ ~stolen => r = Owed \/ r + 1 = Owed
    BY <1>n, <1>1, <1>0, <1>b DEF Uncounted, Owed, Calm, Counted, Encoders,
        DelayThreads,
              DelayTyped, AtTyped
  <2>2. t <= s - u /\ (~stolen' => t = s - u)
    <3> HIDE DEF s, r, u, t
    <3>1. ~stolen' => ~(t < s)
      BY <2>1, Zenon
    <3>2. /\ u \in {0, 1} /\ (u = 1 => s > 0)
          /\ s \in Nat /\ r \in Nat /\ t \in Nat
          /\ r > 0 => t = r - 1
          /\ r = 0 => t = 0
          /\ r <= s + p - u
      BY <2>1
    <3> QED
      BY <3>1, <3>2
  <2>3. output'.delay_restart_refs <= Owed'
        /\ (~stolen' => output'.delay_restart_refs = Owed')
    BY <2>1, <2>2, <1>a
  <2> HIDE DEF s, r, u, t
  <2> QED
    BY <2>3, <1>1, <1>a, <1>b DEF Counted, Calm, Encoders, DelayThreads,
        DelayTyped, AtTyped
<1> QED
  BY <1>2, <1>3, <1>4, <1>5, <1>6, <1>7, <1>8 DEF Orderly, Calm

\* An attempt to connect again takes a reference as well, if there is one.
LEMMA AttemptKept ==
  ASSUME DelayTyped, ~astray, Calm, Attempt
  PROVE  Orderly'
<1>1. /\ Settled /\ stream = "waiting"
      /\ stream' = IF CanBegin THEN "connecting" ELSE stream
      /\ output' = [output EXCEPT !.delay_restart_refs = RefsAfterStart]
      /\ stolen' = (stolen \/ RefsAfterStart < StartsWaiting)
      /\ UNCHANGED <<delay_data, attached, at, dd, lag, button, force, asked, astray>>
  BY DEF Attempt, ActualStart, past
<1>n. /\ StartsWaiting \in Nat /\ EventsWaiting \in Nat
      /\ output.delay_restart_refs \in Nat
      /\ FreshStart(delay_data) => StartsWaiting > 0
  BY DelayAssumption, Counts DEF DelayTyped, OutputFields
<1>0. /\ \A e \in Encoders : at[e] \notin {"packet", "start", "pop", "decide", "cleanup", "signal"}
      /\ at["user"] \notin {"push", "begin", "decide", "cleanup", "signal"}
      /\ at["net"] \notin {"cleanup", "signal"}
  BY <1>1 DEF Settled, Blocked, Encoders, DelayThreads
<1>c. /\ RefsAfterStart \in 0 .. MaxEvents + 1 /\ RefsAfterStart \in Nat
      /\ output.delay_restart_refs > 0 => RefsAfterStart = output.delay_restart_refs - 1
      /\ output.delay_restart_refs = 0 => RefsAfterStart = 0
  BY <1>n, DelayAssumption DEF RefsAfterStart, DelayTyped, OutputFields
<1>b. /\ Underway /\ output.delay_active /\ stream' = "connecting" /\ output.active
      /\ Popped = 0 /\ Popped' = 0 /\ StartsWaiting' = StartsWaiting /\ EventsWaiting' = EventsWaiting
      /\ \A x \in DelayThreads : ~Finishing(x)
  BY <1>0, <1>1 DEF Underway, CanBegin, Calm, Closes, Turns, Encoders, DelayThreads,
             DelayTyped, AtTyped, Popped, Finishing, StopPlaces, StartsWaiting, EventsWaiting,
             Queued
<1>a. /\ output' \in OutputFields
      /\ output'.delay_active = output.delay_active
      /\ output'.delay_capturing = output.delay_capturing
      /\ output'.active = output.active
      /\ output'.active_delay_ns = output.active_delay_ns
      /\ output'.preserve = output.preserve
      /\ output'.delay_restart_refs = RefsAfterStart
      /\ output'.reconnecting = output.reconnecting
  BY <1>1, <1>0, <1>b, <1>c DEF DelayTyped, OutputFields
<1>2. DelayTyped'
  <2>1. output' \in OutputFields /\ (output'.delay_active => output'.active)
    BY <1>a, <1>1, <1>0, <1>b, <1>c DEF DelayTyped
  <2>2. SentAsked'
    BY <1>1, <1>a, <1>0, <1>b, <1>c DEF DelayTyped, AtTyped, SentAsked, Encoders,
        DelayThreads
  <2>3. AtTyped'
    BY <1>1 DEF DelayTyped, AtTyped
  <2> QED
    BY <1>1, <2>1, <2>2, <2>3 DEF DelayTyped
<1>3. Turns'
  BY <1>1, <1>a, <1>0, <1>b, <1>c DEF Turns, Calm, DelayTyped, AtTyped, Encoders,
      DelayThreads, Processing, Finishing, StopPlaces
<1>4. Closes'
  BY <1>1, <1>a, <1>0, <1>b, <1>c DEF Closes, Calm, DelayTyped, AtTyped, Encoders,
      DelayThreads, Closing, Underway, EncoderPlaces, UserPlaces, NetPlaces,
      StopPlaces
<1>5. Leftover'
  BY <1>1, <1>a, <1>0, <1>b, <1>c DEF Leftover, Calm, DelayTyped, AtTyped,
      Encoders, DelayThreads, Closing, StartsWaiting, Queued
<1>6. Dense'
  BY <1>1, <1>a, <1>0, <1>b, <1>c DEF Dense, Calm, DelayTyped, AtTyped, Encoders,
      DelayThreads, Underway
<1>7. Wanted'
  BY <1>1, <1>a, <1>0, <1>b, <1>c DEF Wanted, Calm, DelayTyped, AtTyped, Encoders,
      DelayThreads, Underway, Processing
<1>8. Counted'
  <2> DEFINE s == StartsWaiting  r == output.delay_restart_refs  u == Uncounted
             p == 0  t == RefsAfterStart
  <2>1. /\ u \in {0, 1} /\ Uncounted' = u /\ (u = 1 => s > 0)
        /\ s \in Nat /\ r \in Nat /\ t \in Nat
        /\ r > 0 => t = r - 1
        /\ r = 0 => t = 0
        /\ Owed = s + p - u /\ Owed' = s - u
        /\ r <= Owed
        /\ stolen' = (stolen \/ t < s)
        /\ ~stolen => r = Owed \/ r + 1 = Owed
    BY <1>n, <1>1, <1>0, <1>b, <1>c DEF Uncounted, Owed, Calm, Counted, Encoders,
        DelayThreads,
              DelayTyped, AtTyped
  <2>2. t <= s - u /\ (~stolen' => t = s - u)
    <3> HIDE DEF s, r, u, t
    <3>1. ~stolen' => ~(t < s)
      BY <2>1, Zenon
    <3>2. /\ u \in {0, 1} /\ (u = 1 => s > 0)
          /\ s \in Nat /\ r \in Nat /\ t \in Nat
          /\ r > 0 => t = r - 1
          /\ r = 0 => t = 0
          /\ r <= s + p - u
      BY <2>1
    <3> QED
      BY <3>1, <3>2
  <2>3. output'.delay_restart_refs <= Owed'
        /\ (~stolen' => output'.delay_restart_refs = Owed')
    BY <2>1, <2>2, <1>a
  <2> HIDE DEF s, r, u, t
  <2> QED
    BY <2>3, <1>0, <1>1, <1>a, <1>b DEF Counted, Calm, Encoders, DelayThreads,
        DelayTyped, AtTyped
<1> QED
  BY <1>2, <1>3, <1>4, <1>5, <1>6, <1>7, <1>8 DEF Orderly, Calm

\* A stop has stopped the stream and no start is being processed.
LEMMA StopKept ==
  ASSUME DelayTyped, ~astray, Calm, NEW x \in DelayThreads, Stop(x)
  PROVE  Orderly'
<1>1. /\ at[x] = "stop" /\ stream' = "idle"
      /\ stream \in {"idle", "live", "waiting"}
      /\ at' = [at EXCEPT ![x] = IF output.delay_active THEN "decide" ELSE "signal"]
      /\ output' = [output EXCEPT !.delay_capturing = FALSE,
                                  !.reconnecting = FALSE, !.preserve = FALSE]
      /\ UNCHANGED <<delay_data, attached, dd, lag, button, force,
                     asked, stolen, astray>>
  BY DEF Stop, Goto, past, CapturingAfterStop, DelayTyped, OutputFields, Calm,
      Closes, Underway
<1>0. /\ Processing(x) /\ x # "net" /\ (x \in Encoders => output.active)
      /\ \A e \in Encoders : at[e] # "start"
      /\ ~Underway'
  BY <1>1 DEF Processing, Calm, Turns, Encoders, DelayThreads, DelayTyped, AtTyped,
             NetPlaces, Underway, Processing
<1>a. /\ output' \in OutputFields
      /\ output'.delay_active = output.delay_active
      /\ output'.delay_capturing = FALSE
      /\ output'.active = output.active
      /\ output'.active_delay_ns = output.active_delay_ns
      /\ output'.preserve = FALSE
      /\ output'.delay_restart_refs = output.delay_restart_refs
      /\ output'.reconnecting = FALSE
  BY <1>1, <1>0 DEF DelayTyped, OutputFields
<1>2. DelayTyped'
  <2>1. output' \in OutputFields /\ (output'.delay_active => output'.active)
    BY <1>a, <1>1, <1>0 DEF DelayTyped
  <2>2. SentAsked'
    BY <1>1, <1>a, <1>0 DEF DelayTyped, AtTyped, SentAsked, Encoders, DelayThreads
  <2>3. AtTyped'
    BY <1>1 DEF DelayTyped, AtTyped, EncoderPlaces, UserPlaces, NetPlaces,
        StopPlaces, Encoders, DelayThreads
  <2> QED
    BY <1>1, <2>1, <2>2, <2>3 DEF DelayTyped
<1>3. Turns'
  BY <1>1, <1>a, <1>0 DEF Turns, Calm, DelayTyped, AtTyped, Encoders, DelayThreads,
      Processing, Finishing, StopPlaces
<1>4. Closes'
  BY <1>1, <1>a, <1>0 DEF Closes, Calm, DelayTyped, AtTyped, Encoders,
      DelayThreads, Closing, Underway, EncoderPlaces, UserPlaces, NetPlaces,
      StopPlaces
<1>5. Leftover'
  BY <1>1, <1>a, <1>0 DEF Leftover, Calm, DelayTyped, AtTyped, Encoders,
      DelayThreads, Closing, StartsWaiting, Queued
<1>6. Dense'
  BY <1>1, <1>a, <1>0 DEF Dense, Calm, DelayTyped, AtTyped, Encoders, DelayThreads,
      Underway
<1>7. Wanted'
  BY <1>1, <1>a, <1>0 DEF Wanted, Calm, DelayTyped, AtTyped, Encoders,
      DelayThreads, Underway, Processing
<1>8. Counted'
  BY <1>1, <1>a, <1>0 DEF Counted, Calm, DelayTyped, AtTyped, Encoders,
      DelayThreads, Popped, Uncounted, Owed, EventsWaiting, StartsWaiting, Queued
<1> QED
  BY <1>2, <1>3, <1>4, <1>5, <1>6, <1>7, <1>8 DEF Orderly, Calm

\* A stop that is the last one closes the capture; another one leaves it alone.
LEMMA DecideKept ==
  ASSUME DelayTyped, ~astray, Calm, NEW x \in DelayThreads, Decide(x)
  PROVE  Orderly'
<1>1. /\ at[x] = "decide" /\ (output.delay_active => output.active)
      /\ at' = [at EXCEPT ![x] =
           IF LastStop(x) THEN "detachVideo"
           ELSE IF output.delay_active THEN "pop" ELSE "signal"]
      /\ output' = [output EXCEPT !.delay_active = @ /\ ~LastStop(x)]
      /\ LastStop(x) => output.delay_active
      /\ output.delay_active /\ ~LastStop(x) => x \in Encoders
      /\ UNCHANGED <<delay_data, attached, stream, dd, lag, button, force,
                     asked, stolen, astray>>
  BY DEF Decide, Goto, past, LastStop, Forced, Back, DelayTyped, AtTyped,
      NetPlaces, Calm, Closes, DelayThreads, Encoders
<1>0. /\ Processing(x) /\ x # "net" /\ stream = "idle" /\ ~output.reconnecting
      /\ \A e \in Encoders : at[e] # "start"
      /\ ~Underway /\ ~Underway'
      /\ x \in Encoders => output.active
      /\ output.delay_active => output.active_delay_ns > 0
  BY <1>1, DelayAssumption DEF Processing, Calm, Turns, Closes, Encoders,
      DelayThreads, DelayTyped, AtTyped,
             NetPlaces, Underway, Finishing, StopPlaces, OutputFields, EncoderPlaces, UserPlaces
<1>a. /\ output' \in OutputFields
      /\ output'.delay_active = (output.delay_active /\ ~LastStop(x))
      /\ output'.delay_capturing = output.delay_capturing
      /\ output'.active = output.active
      /\ output'.active_delay_ns = output.active_delay_ns
      /\ output'.preserve = output.preserve
      /\ output'.delay_restart_refs = output.delay_restart_refs
      /\ output'.reconnecting = output.reconnecting
  BY <1>1, <1>0 DEF DelayTyped, OutputFields
<1>2. DelayTyped'
  <2>1. output' \in OutputFields /\ (output'.delay_active => output'.active)
    BY <1>a, <1>1, <1>0 DEF DelayTyped
  <2>2. SentAsked'
    BY <1>1, <1>a, <1>0 DEF DelayTyped, AtTyped, SentAsked, Encoders, DelayThreads
  <2>3. AtTyped'
    BY <1>1 DEF DelayTyped, AtTyped, EncoderPlaces, UserPlaces, NetPlaces,
        StopPlaces, Encoders, DelayThreads
  <2> QED
    BY <1>1, <2>1, <2>2, <2>3 DEF DelayTyped
<1>3. Turns'
  BY <1>1, <1>a, <1>0 DEF Turns, Calm, DelayTyped, AtTyped, Encoders, DelayThreads,
      Processing, Finishing, StopPlaces
<1>4. Closes'
  BY <1>1, <1>a, <1>0 DEF Closes, Calm, DelayTyped, AtTyped, Encoders,
      DelayThreads, Closing, Underway, EncoderPlaces, UserPlaces, NetPlaces,
      StopPlaces
<1>5. Leftover'
  BY <1>1, <1>a, <1>0 DEF Leftover, Calm, DelayTyped, AtTyped, Encoders,
      DelayThreads, Closing, StartsWaiting, Queued
<1>6. Dense'
  BY <1>1, <1>a, <1>0 DEF Dense, Calm, DelayTyped, AtTyped, Encoders, DelayThreads,
      Underway
<1>7. Wanted'
  BY <1>1, <1>a, <1>0 DEF Wanted, Calm, DelayTyped, AtTyped, Encoders,
      DelayThreads, Underway, Processing
<1>8. Counted'
  BY <1>1, <1>a, <1>0 DEF Counted, Calm, DelayTyped, AtTyped, Encoders,
      DelayThreads, Popped, Uncounted, Owed, EventsWaiting, StartsWaiting, Queued
<1> QED
  BY <1>2, <1>3, <1>4, <1>5, <1>6, <1>7, <1>8 DEF Orderly, Calm

\* The queue is emptied with all it owes.
LEMMA CleanupKept ==
  ASSUME DelayTyped, ~astray, Calm, NEW x \in DelayThreads, Cleanup(x)
  PROVE  Orderly'
<1>1. /\ at[x] = "cleanup" /\ at' = [at EXCEPT ![x] = "signal"]
      /\ delay_data' = IF output.active_delay_ns > 0 THEN <<>> ELSE delay_data
      /\ output' = [output EXCEPT
           !.active = FALSE, !.active_delay_ns = 0,
           !.delay_restart_refs = IF output.active_delay_ns > 0 THEN 0 ELSE @]
      /\ UNCHANGED <<attached, stream, dd, lag, button, force, asked, stolen, astray>>
  BY DEF Cleanup, Goto, past
<1>e. /\ <<>> \in Seq(Item) /\ Len(<<>>) = 0
      /\ InOrderOfTime(<<>>) /\ Packets(<<>>) /\ NoPackets(<<>>) /\ NoGap(<<>>)
      /\ FreshEvents(<<>>)
      /\ \A a : AskedBehindStarts(<<>>, a)
      /\ \A q : Packets(q) => \A a : AskedBehindStarts(q, a)
      /\ \A q : Packets(q) => FreshEvents(q)
  BY EmptySeq DEF InOrderOfTime, Packets, NoPackets, NoGap, FreshEvents,
      AskedBehindStarts
<1>c. /\ Closing(x) /\ output.active /\ ~output.delay_active /\ ~Underway /\ ~Underway'
      /\ output.delay_restart_refs \in 0 .. MaxEvents + 1
      /\ output.active_delay_ns = 0 => Packets(delay_data) /\ output.delay_restart_refs = 0
      /\ output.active_delay_ns \in Nat
      /\ stream = IF x = "net" THEN "failing" ELSE "idle"
      /\ ~output.reconnecting
  BY <1>1, DelayAssumption DEF Closing, Calm, Turns, Closes, Leftover, Underway,
      Encoders, DelayThreads,
             DelayTyped, OutputFields, AtTyped, Finishing, StopPlaces
<1>a. /\ output' \in OutputFields
      /\ output'.delay_active = FALSE
      /\ output'.delay_capturing = output.delay_capturing
      /\ output'.active = FALSE
      /\ output'.active_delay_ns = 0
      /\ output'.delay_restart_refs = 0
      /\ output'.reconnecting = FALSE
  <2>1. 0 \in 0 .. MaxAge /\ 0 \in 0 .. MaxEvents + 1
    BY DelayAssumption
  <2>2. output' = [output EXCEPT !.active = FALSE, !.active_delay_ns = 0,
                                 !.delay_restart_refs = 0]
    <3>1. (IF output.active_delay_ns > 0 THEN 0 ELSE output.delay_restart_refs) = 0
      BY <1>c
    <3>2. output' = [output EXCEPT !.active = FALSE, !.active_delay_ns = 0,
             !.delay_restart_refs =
               IF output.active_delay_ns > 0 THEN 0 ELSE output.delay_restart_refs]
      BY <1>1
    <3> QED
      BY <3>1, <3>2
  <2> QED
    BY <1>c, <2>1, <2>2 DEF DelayTyped, OutputFields
<1>b. /\ delay_data' \in Seq(Item) /\ InOrderOfTime(delay_data') /\ Packets(delay_data')
      /\ FreshEvents(delay_data') /\ AskedBehindStarts(delay_data', asked)
      /\ NoGap(delay_data')
      /\ delay_data' # <<>> => delay_data' = delay_data /\ output.active_delay_ns = 0
      /\ NoPackets(delay_data) => NoPackets(delay_data')
      /\ output.delay_capturing = FALSE
  BY <1>1, <1>c, <1>e DEF DelayTyped, Calm, Dense, Closes
<1>d. StartsWaiting' = 0 /\ EventsWaiting' = 0 /\ 0 <= MaxEvents
      /\ (at["user"] = "push" => 0 < MaxEvents)
  <2>1. DOMAIN delay_data' = 1 .. Len(delay_data')
    BY <1>b, LenProperties
  <2>2. /\ {i \in DOMAIN delay_data' : delay_data'[i].msg \in {"start"}} = {}
        /\ {i \in DOMAIN delay_data' : delay_data'[i].msg \in {"start", "stop"}} = {}
    BY <1>b, <2>1 DEF Packets
  <2>3. StartsWaiting' = 0 /\ EventsWaiting' = 0
    BY <2>2, FS_EmptySet DEF StartsWaiting, EventsWaiting, Queued
  <2> QED
    BY <2>3, DelayAssumption
<1>2. DelayTyped'
  <2>1. output' \in OutputFields /\ (output'.delay_active => output'.active)
    BY <1>a
  <2>2. SentAsked'
    BY <1>1, <1>a, <1>b DEF DelayTyped, AtTyped, SentAsked, Encoders, DelayThreads
  <2>3. delay_data' \in Seq(Item) /\ InOrderOfTime(delay_data')
    BY <1>b
  <2>4. AtTyped'
    BY <1>1 DEF DelayTyped, AtTyped, EncoderPlaces, UserPlaces, NetPlaces,
        StopPlaces, Encoders, DelayThreads
  <2> QED
    BY <1>1, <2>1, <2>2, <2>3, <2>4 DEF DelayTyped
<1>3. Turns'
  BY <1>1, <1>a, <1>b, <1>c, <1>d DEF Turns, Calm, DelayTyped, AtTyped, Encoders,
      DelayThreads, Processing, Finishing, StopPlaces
<1>4. Closes'
  BY <1>1, <1>a, <1>b, <1>c, <1>d DEF Closes, Calm, DelayTyped, AtTyped, Encoders,
      DelayThreads, Closing, Underway, EncoderPlaces, UserPlaces, NetPlaces,
      StopPlaces
<1>5. Leftover'
  <2>1. output'.active_delay_ns = 0 /\ attached' = {} => NoPackets(delay_data')
    BY <1>1, <1>a, <1>b, <1>e DEF Calm, Leftover
  <2> QED
    BY <1>1, <1>a, <1>b, <1>d, <2>1 DEF Leftover
<1>6. Dense'
  BY <1>1, <1>a, <1>b, <1>c, <1>d DEF Dense, Calm, DelayTyped, AtTyped, Encoders,
      DelayThreads, Underway
<1>7. Wanted'
  BY <1>1, <1>a, <1>b, <1>c, <1>d DEF Wanted, Calm, DelayTyped, AtTyped, Encoders,
      DelayThreads, Underway, Processing
<1>8. Counted'
  BY <1>1, <1>a, <1>b, <1>c, <1>d DEF Counted, Calm, DelayTyped, AtTyped, Encoders,
      DelayThreads, Popped, Uncounted, Owed, EventsWaiting, StartsWaiting, Queued
<1> QED
  BY <1>2, <1>3, <1>4, <1>5, <1>6, <1>7, <1>8 DEF Orderly, Calm

\* The user begins to start; there is room for one more event.
LEMMA PressStartKept ==
  ASSUME DelayTyped, ~astray, Calm, PressStart
  PROVE  Orderly'
<1>1. /\ at["user"] = "idle" /\ at' = [at EXCEPT !["user"] = "push"]
      /\ Settled /\ EventsWaiting < MaxEvents /\ (output.delay_active \/ ~output.active)
      /\ (output.delay_active => output.active)
      /\ stolen' = (stolen /\ ~FreshCapture)
      /\ FreshCapture => ~output.active
      /\ UNCHANGED <<delay_data, output, attached, stream, dd, lag, button, force,
                     asked, astray>>
  BY DEF PressStart, Goto, past, CanBegin, FreshCapture, DelayTyped
<1>d. output.delay_active => output.active_delay_ns > 0
  BY DelayAssumption DEF Calm, Closes, DelayTyped, OutputFields
<1>c. stolen' \in BOOLEAN /\ (output.delay_active => stolen' = stolen)
      /\ EventsWaiting' = EventsWaiting /\ StartsWaiting' = StartsWaiting
  BY <1>1 DEF DelayTyped, EventsWaiting, StartsWaiting, Queued
<1>2. DelayTyped'
  <2>1. stolen' \in BOOLEAN
    BY <1>c
  <2>2. AtTyped'
    BY <1>1 DEF DelayTyped, AtTyped, EncoderPlaces, UserPlaces, NetPlaces,
        StopPlaces, Encoders, DelayThreads
  <2>3. SentAsked'
    BY <1>1 DEF DelayTyped, AtTyped, SentAsked, Encoders, DelayThreads
  <2> QED
    BY <1>1, <2>1, <2>2, <2>3 DEF DelayTyped
<1>3. Turns'
  BY <1>1, <1>c, <1>d DEF Turns, Calm, DelayTyped, AtTyped, Encoders, DelayThreads,
      Processing, Finishing, StopPlaces
<1>4. Closes'
  BY <1>1, <1>c, <1>d DEF Closes, Calm, DelayTyped, AtTyped, Encoders,
      DelayThreads, Closing, Underway, EncoderPlaces, UserPlaces, NetPlaces,
      StopPlaces
<1>5. Leftover'
  BY <1>1, <1>c, <1>d DEF Leftover, Calm, DelayTyped, AtTyped, Encoders,
      DelayThreads, Closing, StartsWaiting, Queued
<1>6. Dense'
  BY <1>1, <1>c, <1>d DEF Dense, Calm, DelayTyped, AtTyped, Encoders, DelayThreads,
      Underway
<1>7. Wanted'
  BY <1>1, <1>c, <1>d DEF Wanted, Calm, DelayTyped, AtTyped, Encoders,
      DelayThreads, Underway, Processing
<1>8. Counted'
  BY <1>1, <1>c, <1>d DEF Counted, Calm, DelayTyped, AtTyped, Encoders,
      DelayThreads, Popped, Uncounted, Owed, EventsWaiting, StartsWaiting, Queued
<1> QED
  BY <1>2, <1>3, <1>4, <1>5, <1>6, <1>7, <1>8 DEF Orderly, Calm

\* A start waits, and its reference is not counted yet.
LEMMA PushStartKept ==
  ASSUME DelayTyped, ~astray, Calm, PushStart
  PROVE  Orderly'
<1>1. /\ at["user"] = "push" /\ at' = [at EXCEPT !["user"] = "begin"]
      /\ delay_data' = Append(delay_data, Event("start"))
      /\ asked' = TRUE
      /\ UNCHANGED <<output, attached, stream, dd, lag, button, force, stolen, astray>>
  BY DEF PushStart, Goto
<1> DEFINE x == Event("start")
<1>x. x \in Item /\ x.msg = "start" /\ x.age = 0
  <2>1. 0 \in 0 .. MaxAge
    BY DelayAssumption
  <2> QED
    BY <2>1 DEF Event, Item
<1> HIDE DEF x
<1>y. delay_data' = Append(delay_data, x) /\ delay_data \in Seq(Item)
  BY <1>1 DEF x, DelayTyped
<1>b. /\ delay_data' \in Seq(Item) /\ delay_data' # <<>> /\ LastAge(delay_data') = 0
      /\ delay_data # <<>> => delay_data'[1] = delay_data[1]
      /\ InOrderOfTime(delay_data) => InOrderOfTime(delay_data')
      /\ NoGap(delay_data) /\ (delay_data # <<>> => LastAge(delay_data) <= 1)
           => NoGap(delay_data')
      /\ FreshEvents(delay_data) => FreshEvents(delay_data')
      /\ FreshStart(delay_data')
      /\ StartFirst(delay_data) => StartFirst(delay_data')
      /\ NoPackets(delay_data) => NoPackets(delay_data')
  BY <1>x, <1>y, AppendedQueue
<1>w. /\ AskedBehind(delay_data, asked, 0) => AskedBehind(delay_data', TRUE, 0)
      /\ AskedBehindStarts(delay_data, asked) => AskedBehindStarts(delay_data', TRUE)
  <2>1. asked \in BOOLEAN /\ TRUE \in BOOLEAN /\ 0 \in 0 .. Len(delay_data)
    BY <1>y, LenProperties DEF DelayTyped
  <2> QED
    BY <1>x, <1>y, <2>1, AskedAppended
<1>n. /\ StartsWaiting' = StartsWaiting + 1 /\ EventsWaiting' = EventsWaiting + 1
      /\ StartsWaiting \in Nat /\ EventsWaiting \in Nat
      /\ Packets(delay_data) => StartsWaiting = 0
  BY <1>x, <1>y, Counts, CountsChange
<1>2. DelayTyped'
  <2>1. delay_data' \in Seq(Item) /\ InOrderOfTime(delay_data')
    BY <1>b DEF DelayTyped
  <2>2. asked' \in BOOLEAN
    BY <1>1
  <2>3. AtTyped'
    BY <1>1 DEF DelayTyped, AtTyped, EncoderPlaces, UserPlaces, NetPlaces,
        StopPlaces, Encoders, DelayThreads
  <2>4. SentAsked'
    BY <1>1 DEF DelayTyped, AtTyped, SentAsked, Encoders, DelayThreads
  <2> QED
    BY <1>1, <2>1, <2>2, <2>3, <2>4 DEF DelayTyped
<1>3. Turns'
  BY <1>1, <1>b DEF Turns, Calm, DelayTyped, AtTyped, Encoders, DelayThreads,
      Processing, Finishing, StopPlaces
<1>4. Closes'
  BY <1>1, <1>b DEF Closes, Calm, DelayTyped, AtTyped, Encoders, DelayThreads,
      Closing, Underway, EncoderPlaces, UserPlaces, NetPlaces, StopPlaces
<1>5. Leftover'
  BY <1>1, <1>b, <1>n DEF Leftover, Calm, DelayTyped, AtTyped, Encoders,
      DelayThreads, Closing
<1>6. Dense'
  BY <1>1, <1>b DEF Dense, Calm, DelayTyped, AtTyped, Encoders, DelayThreads,
      Underway
<1>7. Wanted'
  BY <1>1, <1>b, <1>w DEF Wanted, Calm, DelayTyped, AtTyped, Encoders,
      DelayThreads, Underway, Processing
<1>8. Counted'
  <2> DEFINE s == StartsWaiting  r == output.delay_restart_refs  p == Popped
  <2>1. /\ Popped' = p /\ p \in Nat /\ Owed = s + p - 0 /\ Owed' = (s + 1) + p - 1
        /\ s \in Nat
    BY <1>1, <1>n DEF Popped, Owed, Uncounted, DelayTyped, AtTyped, DelayThreads,
        Encoders
  <2>2. Owed' = Owed
    <3> HIDE DEF s, p
    <3> QED
      BY <2>1
  <2>3. EventsWaiting' <= MaxEvents
    BY <1>1, <1>n, DelayAssumption DEF Calm, Counted
  <2> QED
    BY <1>1, <1>b, <2>2, <2>3 DEF Counted, Calm, DelayTyped, AtTyped, Encoders,
        DelayThreads
<1> QED
  BY <1>2, <1>3, <1>4, <1>5, <1>6, <1>7, <1>8 DEF Orderly, Calm

\* The reference of the start that waits is counted.
LEMMA BeginCountedKept ==
  ASSUME DelayTyped, ~astray, Calm, Begin, output.delay_active
  PROVE  Orderly'
<1>1. /\ at["user"] = "begin" /\ at' = [at EXCEPT !["user"] = "idle"]
      /\ output' = [output EXCEPT !.delay_restart_refs = @ + 1]
      /\ output.delay_active
      /\ UNCHANGED <<delay_data, attached, stream, dd, lag, force, asked, stolen, astray>>
  BY DEF Begin, Goto, past
<1>n. /\ StartsWaiting \in Nat /\ EventsWaiting \in Nat
      /\ StartsWaiting' = StartsWaiting /\ EventsWaiting' = EventsWaiting
      /\ StartsWaiting <= EventsWaiting
  BY <1>1, Counts DEF DelayTyped, StartsWaiting, EventsWaiting, Queued
<1> DEFINE r == output.delay_restart_refs  s == StartsWaiting  p == Popped
<1>2a. /\ Owed = s + p - 1 /\ Owed' = s + p - 0 /\ p \in {0, 1}
      /\ s \in Nat /\ r \in Nat /\ r <= Owed
      /\ s <= MaxEvents /\ MaxEvents \in Nat
  <2>1. s <= MaxEvents /\ MaxEvents \in Nat
    BY <1>n, DelayAssumption DEF Calm, Counted
  <2>2. /\ Popped' = p /\ p \in {0, 1}
        /\ Uncounted = 1 /\ Uncounted' = 0
    BY <1>1 DEF Popped, Uncounted, DelayTyped, AtTyped, Encoders, DelayThreads
  <2>3. r \in Nat /\ r <= Owed
    BY <1>1, DelayAssumption DEF DelayTyped, OutputFields, Calm, Counted
  <2> QED
    BY <1>n, <2>1, <2>2, <2>3 DEF Owed
<1>c. /\ r + 1 \in 0 .. MaxEvents + 1 /\ Owed' = Owed + 1 /\ r \in Nat /\ Owed \in Int
      /\ r + 1 <= Owed' /\ (r = Owed => r + 1 = Owed') /\ (r + 1 = Owed => (r + 1) + 1 = Owed')
  <2> HIDE DEF r, s, p
  <2>1. r + 1 \in 0 .. MaxEvents + 1 /\ Owed' = Owed + 1 /\ Owed \in Int
    BY <1>2a
  <2> QED
    BY <1>2a, <2>1
<1> HIDE DEF r, s, p
<1>a. /\ output' \in OutputFields
      /\ output'.delay_active = output.delay_active
      /\ output'.delay_capturing = output.delay_capturing
      /\ output'.active = output.active
      /\ output'.active_delay_ns = output.active_delay_ns
      /\ output'.preserve = output.preserve
      /\ output'.delay_restart_refs = r + 1
      /\ output'.reconnecting = output.reconnecting
  BY <1>1, <1>c DEF DelayTyped, OutputFields, r
<1>d. output.active_delay_ns > 0 /\ output.active_delay_ns # 0
  BY <1>1, DelayAssumption DEF Calm, Closes, DelayTyped, OutputFields
<1>2. DelayTyped'
  <2>1. output' \in OutputFields /\ (output'.delay_active => output'.active)
    BY <1>a DEF DelayTyped
  <2>2. SentAsked'
    BY <1>1, <1>a DEF DelayTyped, AtTyped, SentAsked, Encoders, DelayThreads
  <2>3. AtTyped'
    BY <1>1 DEF DelayTyped, AtTyped, EncoderPlaces, UserPlaces, NetPlaces,
        StopPlaces, Encoders, DelayThreads
  <2> QED
    BY <1>1, <2>1, <2>2, <2>3 DEF DelayTyped
<1>3. Turns'
  BY <1>1, <1>a, <1>c, <1>d, <1>n DEF Turns, Calm, DelayTyped, AtTyped, Encoders,
      DelayThreads, Processing, Finishing, StopPlaces
<1>4. Closes'
  BY <1>1, <1>a, <1>c, <1>d, <1>n DEF Closes, Calm, DelayTyped, AtTyped, Encoders,
      DelayThreads, Closing, Underway, EncoderPlaces, UserPlaces, NetPlaces,
      StopPlaces
<1>5. Leftover'
  BY <1>1, <1>a, <1>c, <1>d, <1>n DEF Leftover, Calm, DelayTyped, AtTyped,
      Encoders, DelayThreads, Closing, StartsWaiting, Queued
<1>6. Dense'
  BY <1>1, <1>a, <1>c, <1>d, <1>n DEF Dense, Calm, DelayTyped, AtTyped, Encoders,
      DelayThreads, Underway
<1>7. Wanted'
  BY <1>1, <1>a, <1>c, <1>d, <1>n DEF Wanted, Calm, DelayTyped, AtTyped, Encoders,
      DelayThreads, Underway, Processing
<1>8. Counted'
  <2>1. /\ output.delay_restart_refs = r /\ output'.delay_restart_refs = r + 1
        /\ StartFirst(delay_data') <=> StartFirst(delay_data)
        /\ \A e \in Encoders : at'[e] = at[e]
        /\ at'["user"] = "idle"
    BY <1>1, <1>a DEF r, DelayTyped, AtTyped, Encoders, DelayThreads
  <2> QED
    BY <1>1, <1>a, <1>c, <1>n, <2>1 DEF Counted, Calm, Encoders
<1> QED
  BY <1>2, <1>3, <1>4, <1>5, <1>6, <1>7, <1>8 DEF Orderly, Calm

\* A capture begins; the start that waits has no reference.
LEMMA BeginHookKept ==
  ASSUME DelayTyped, ~astray, Calm, Begin, ~output.delay_active, ~output.active
  PROVE  Orderly'
<1>1. /\ at["user"] = "begin" /\ at' = [at EXCEPT !["user"] = "idle"]
      /\ ~output.delay_active /\ ~output.active /\ attached' = Encoders
      /\ output' = [output EXCEPT !.active_delay_ns = delay_sec, !.delay_active = TRUE,
                       !.active = TRUE, !.reconnecting = FALSE, !.preserve = FALSE]
      /\ UNCHANGED <<delay_data, stream, dd, lag, force, asked, stolen, astray>>
  BY DEF Begin, Goto, past, Hook
<1>n. /\ StartsWaiting \in Nat /\ EventsWaiting \in Nat
      /\ output.delay_restart_refs \in Nat
      /\ FreshStart(delay_data) => StartsWaiting > 0
  BY DelayAssumption, Counts DEF DelayTyped, OutputFields
<1>m. /\ delay_sec \in 0 .. MaxAge /\ delay_sec >= delay_sec /\ delay_sec > 0 /\ delay_sec # 0
  BY DelayAssumption
<1>a. /\ output' \in OutputFields
      /\ output'.delay_active = TRUE
      /\ output'.delay_capturing = output.delay_capturing
      /\ output'.active = TRUE
      /\ output'.active_delay_ns = delay_sec
      /\ output'.preserve = FALSE
      /\ output'.delay_restart_refs = output.delay_restart_refs
      /\ output'.reconnecting = FALSE
  BY <1>1, <1>m DEF DelayTyped, OutputFields
<1>b. /\ ~Underway /\ ~Underway' /\ Popped' = 0 /\ Uncounted' = 0
      /\ output.active_delay_ns = 0 /\ output.delay_restart_refs = 0
      /\ \A e \in Encoders : at[e] \notin {"stop", "decide", "start"}
      /\ \A x \in DelayThreads : ~Closing(x)
      /\ ~output.delay_capturing
      /\ FreshEvents(delay_data) /\ StartsWaiting <= 1
      /\ StartsWaiting = 1 => StartFirst(delay_data)
      /\ StartsWaiting' = StartsWaiting /\ EventsWaiting' = EventsWaiting
  <2>1. FreshEvents(delay_data) /\ StartsWaiting <= 1
    BY <1>1 DEF Calm, Leftover
  <2>2. StartsWaiting = 1 => StartFirst(delay_data)
    BY <2>1, Counts DEF DelayTyped
  <2>3. StartsWaiting' = StartsWaiting /\ EventsWaiting' = EventsWaiting
    BY <1>1 DEF StartsWaiting, EventsWaiting, Queued
  <2>4. ~Underway /\ output.active_delay_ns = 0 /\ output.delay_restart_refs = 0
        /\ (\A x \in DelayThreads : ~Closing(x)) /\ ~output.delay_capturing
    BY <1>1 DEF Calm, Closes, Underway
  <2>5. ~Underway' /\ Popped' = 0 /\ Uncounted' = 0
    BY <1>1, <2>4 DEF Underway, Popped, Uncounted, DelayTyped, AtTyped,
        DelayThreads, Encoders
  <2>6. \A e \in Encoders : at[e] \notin {"stop", "decide", "start"}
    BY <1>1 DEF Calm, Turns, Processing, DelayTyped, AtTyped
  <2> QED
    BY <2>1, <2>2, <2>3, <2>4, <2>5, <2>6
<1>2. DelayTyped'
  <2>1. output' \in OutputFields /\ (output'.delay_active => output'.active)
    BY <1>a DEF DelayTyped
  <2>2. SentAsked'
    BY <1>1, <1>a DEF DelayTyped, AtTyped, SentAsked, Encoders, DelayThreads
  <2>3. AtTyped'
    BY <1>1 DEF DelayTyped, AtTyped, EncoderPlaces, UserPlaces, NetPlaces,
        StopPlaces, Encoders, DelayThreads
  <2> QED
    BY <1>1, <2>1, <2>2, <2>3 DEF DelayTyped
<1>3. Turns'
  BY <1>1, <1>a, <1>b, <1>m DEF Turns, Calm, DelayTyped, AtTyped, Encoders,
      DelayThreads, Processing, Finishing, StopPlaces
<1>4. Closes'
  BY <1>1, <1>a, <1>b, <1>m DEF Closes, Calm, DelayTyped, AtTyped, Encoders,
      DelayThreads, Closing, Underway, EncoderPlaces, UserPlaces, NetPlaces,
      StopPlaces
<1>5. Leftover'
  BY <1>1, <1>a, <1>b, <1>m DEF Leftover, Calm, DelayTyped, AtTyped, Encoders,
      DelayThreads, Closing, StartsWaiting, Queued
<1>6. Dense'
  BY <1>1, <1>a, <1>b, <1>m DEF Dense, Calm, DelayTyped, AtTyped, Encoders,
      DelayThreads, Underway
<1>7. Wanted'
  BY <1>1, <1>a, <1>b, <1>m DEF Wanted, Calm, DelayTyped, AtTyped, Encoders,
      DelayThreads, Underway, Processing
<1>8. Counted'
  <2>1. /\ Owed' = StartsWaiting + 0 - 0 /\ StartsWaiting \in Nat
        /\ output'.delay_restart_refs = 0
        /\ at'["user"] = "idle" /\ \A e \in Encoders : at'[e] \notin {"stop", "decide"}
        /\ StartsWaiting = 1 => StartFirst(delay_data')
    BY <1>1, <1>a, <1>b, <1>n DEF Owed, DelayTyped, AtTyped, DelayThreads, Encoders
  <2> QED
    BY <1>b, <1>n, <2>1 DEF Counted, Calm
<1> QED
  BY <1>2, <1>3, <1>4, <1>5, <1>6, <1>7, <1>8 DEF Orderly, Calm

\* What was active is being closed meanwhile: the start is thrown away.
LEMMA BeginFailsKept ==
  ASSUME DelayTyped, ~astray, Calm, Begin, ~output.delay_active, output.active
  PROVE  Orderly'
<1>1. /\ at["user"] = "begin" /\ at' = [at EXCEPT !["user"] = "idle"]
      /\ ~output.delay_active /\ output.active
      /\ delay_data' = <<>>
      /\ output' = [output EXCEPT !.active_delay_ns = 0, !.delay_restart_refs = 0]
      /\ UNCHANGED <<attached, stream, dd, lag, force, asked, stolen, astray>>
  BY DEF Begin, Goto, past
<1>e. /\ <<>> \in Seq(Item) /\ Len(<<>>) = 0
      /\ InOrderOfTime(<<>>) /\ Packets(<<>>) /\ NoPackets(<<>>) /\ NoGap(<<>>)
      /\ FreshEvents(<<>>)
      /\ \A a : AskedBehindStarts(<<>>, a)
      /\ \A q : Packets(q) => \A a : AskedBehindStarts(q, a)
      /\ \A q : Packets(q) => FreshEvents(q)
  BY EmptySeq DEF InOrderOfTime, Packets, NoPackets, NoGap, FreshEvents,
      AskedBehindStarts
<1>m. 0 \in 0 .. MaxAge /\ 0 \in 0 .. MaxEvents + 1 /\ 0 <= MaxEvents
  BY DelayAssumption
<1>a. /\ output' \in OutputFields
      /\ output'.delay_active = output.delay_active
      /\ output'.delay_capturing = output.delay_capturing
      /\ output'.active = output.active
      /\ output'.active_delay_ns = 0
      /\ output'.preserve = output.preserve
      /\ output'.delay_restart_refs = 0
      /\ output'.reconnecting = output.reconnecting
  BY <1>1, <1>m DEF DelayTyped, OutputFields
<1>b. /\ ~Underway /\ ~Underway' /\ ~Closing("net") /\ ~Closing("user")
      /\ EventsWaiting' = 0
  <2>1. ~Underway /\ ~Closing("net") /\ ~Closing("user")
    BY <1>1 DEF Calm, Closes, Underway, Closing
  <2>2. ~Underway'
    BY <1>1, <2>1 DEF Underway, DelayTyped, AtTyped, DelayThreads
  <2>3. {i \in DOMAIN delay_data' : delay_data'[i].msg \in {"start", "stop"}} = {}
    BY <1>1
  <2>4. EventsWaiting' = 0
    BY <2>3, FS_EmptySet DEF EventsWaiting, Queued
  <2> QED
    BY <2>1, <2>2, <2>4
<1>2. DelayTyped'
  <2>1. output' \in OutputFields /\ (output'.delay_active => output'.active)
    BY <1>a, <1>1 DEF DelayTyped
  <2>2. SentAsked'
    BY <1>1, <1>a DEF DelayTyped, AtTyped, SentAsked, Encoders, DelayThreads
  <2>3. delay_data' \in Seq(Item) /\ InOrderOfTime(delay_data')
    BY <1>1, <1>e
  <2>4. AtTyped'
    BY <1>1 DEF DelayTyped, AtTyped, EncoderPlaces, UserPlaces, NetPlaces,
        StopPlaces, Encoders, DelayThreads
  <2> QED
    BY <1>1, <2>1, <2>2, <2>3, <2>4 DEF DelayTyped
<1>3. Turns'
  BY <1>1, <1>a, <1>b, <1>m, <1>e DEF Turns, Calm, DelayTyped, AtTyped, Encoders,
      DelayThreads, Processing, Finishing, StopPlaces
<1>4. Closes'
  BY <1>1, <1>a, <1>b, <1>m, <1>e DEF Closes, Calm, DelayTyped, AtTyped, Encoders,
      DelayThreads, Closing, Underway, EncoderPlaces, UserPlaces, NetPlaces,
      StopPlaces
<1>5. Leftover'
  BY <1>1, <1>a, <1>b, <1>m, <1>e DEF Leftover, Calm, DelayTyped, AtTyped,
      Encoders, DelayThreads, Closing, StartsWaiting, Queued
<1>6. Dense'
  BY <1>1, <1>a, <1>b, <1>m, <1>e DEF Dense, Calm, DelayTyped, AtTyped, Encoders,
      DelayThreads, Underway
<1>7. Wanted'
  BY <1>1, <1>a, <1>b, <1>m, <1>e DEF Wanted, Calm, DelayTyped, AtTyped, Encoders,
      DelayThreads, Underway, Processing
<1>8. Counted'
  BY <1>1, <1>a, <1>b, <1>m, <1>e DEF Counted, Calm, DelayTyped, AtTyped, Encoders,
      DelayThreads, Popped, Uncounted, Owed, EventsWaiting, StartsWaiting, Queued
<1> QED
  BY <1>2, <1>3, <1>4, <1>5, <1>6, <1>7, <1>8 DEF Orderly, Calm

\* A stop waits.
LEMMA PressStopKept ==
  ASSUME DelayTyped, ~astray, Calm, PressStop
  PROVE  Orderly'
<1>1. /\ Settled /\ at["user"] = "idle" /\ EventsWaiting < MaxEvents
      /\ output.active /\ output.active_delay_ns > 0
      /\ delay_data' = Append(delay_data, Event("stop"))
      /\ asked' = FALSE
      /\ UNCHANGED <<output, attached, stream, at, dd, lag, force, stolen, astray>>
  BY DEF PressStop, StreamingActive, Calm, Closes, DelayTyped, Underway
<1> DEFINE x == Event("stop")
<1>x. x \in Item /\ x.msg = "stop" /\ x.age = 0
  <2>1. 0 \in 0 .. MaxAge
    BY DelayAssumption
  <2> QED
    BY <2>1 DEF Event, Item
<1> HIDE DEF x
<1>y. delay_data' = Append(delay_data, x) /\ delay_data \in Seq(Item)
  BY <1>1 DEF x, DelayTyped
<1>b. /\ delay_data' \in Seq(Item) /\ delay_data' # <<>> /\ LastAge(delay_data') = 0
      /\ delay_data # <<>> => delay_data'[1] = delay_data[1]
      /\ InOrderOfTime(delay_data) => InOrderOfTime(delay_data')
      /\ NoGap(delay_data) /\ (delay_data # <<>> => LastAge(delay_data) <= 1)
           => NoGap(delay_data')
      /\ StartFirst(delay_data) => StartFirst(delay_data')
  BY <1>x, <1>y, AppendedQueue
<1>d. output.active_delay_ns # 0
  BY <1>1
<1>w. /\ AskedBehind(delay_data, asked, 0) => AskedBehind(delay_data', asked', 0)
      /\ AskedBehindStarts(delay_data, asked) => AskedBehindStarts(delay_data', asked')
  <2>1. asked \in BOOLEAN /\ 0 \in 0 .. Len(delay_data)
    BY <1>y, LenProperties DEF DelayTyped
  <2>2. x.msg # "packet" /\ x.msg # "start"
    BY <1>x
  <2>3. ASSUME NEW c \in BOOLEAN
        PROVE  /\ AskedBehind(delay_data, asked, 0) => AskedBehind(delay_data', c, 0)
               /\ AskedBehindStarts(delay_data, asked) => AskedBehindStarts(delay_data', c)
    <3>1. x.msg = "packet" => (asked => x.on /\ c)
      BY <2>2
    <3>2. x.msg = "start" => c
      BY <2>2
    <3>3. /\ \A i \in 0 .. Len(delay_data) :
               AskedBehind(delay_data, asked, i) => AskedBehind(delay_data', c, i)
          /\ AskedBehindStarts(delay_data, asked) /\ (x.msg = "start" => c)
               => AskedBehindStarts(delay_data', c)
      BY <1>x, <1>y, <2>1, <3>1, AskedAppended
    <3> QED
      BY <2>1, <3>2, <3>3
  <2>4. asked' \in BOOLEAN
    BY <1>1
  <2> QED
    BY <2>3, <2>4
<1>n. /\ StartsWaiting' = StartsWaiting /\ EventsWaiting' = EventsWaiting + 1
      /\ StartsWaiting \in Nat /\ EventsWaiting \in Nat /\ MaxEvents \in Nat
  BY <1>x, <1>y, Counts, CountsChange, DelayAssumption
<1>2. DelayTyped'
  <2>1. delay_data' \in Seq(Item) /\ InOrderOfTime(delay_data')
    BY <1>b DEF DelayTyped
  <2>2. asked' \in BOOLEAN
    BY <1>1
  <2>3. AtTyped'
    BY <1>1 DEF DelayTyped, AtTyped
  <2>4. SentAsked'
    BY <1>1 DEF DelayTyped, AtTyped, SentAsked, Encoders, DelayThreads
  <2> QED
    BY <1>1, <2>1, <2>2, <2>3, <2>4 DEF DelayTyped
<1>3. Turns'
  BY <1>1, <1>b, <1>d DEF Turns, Calm, DelayTyped, AtTyped, Encoders, DelayThreads,
      Processing, Finishing, StopPlaces
<1>4. Closes'
  BY <1>1, <1>b, <1>d DEF Closes, Calm, DelayTyped, AtTyped, Encoders,
      DelayThreads, Closing, Underway, EncoderPlaces, UserPlaces, NetPlaces,
      StopPlaces
<1>5. Leftover'
  BY <1>1, <1>b, <1>d DEF Leftover, Calm, DelayTyped, AtTyped, Encoders,
      DelayThreads, Closing, StartsWaiting, Queued
<1>6. Dense'
  BY <1>1, <1>b, <1>d DEF Dense, Calm, DelayTyped, AtTyped, Encoders, DelayThreads,
      Underway
<1>7. Wanted'
  BY <1>1, <1>b, <1>w DEF Wanted, Calm, DelayTyped, AtTyped, Encoders,
      DelayThreads, Underway, Processing
<1>8. Counted'
  <2>1. EventsWaiting' <= MaxEvents /\ Owed' = Owed
    BY <1>1, <1>n DEF Owed, Popped, Uncounted
  <2> QED
    BY <1>1, <1>b, <1>n, <2>1 DEF Counted, Calm, DelayTyped, AtTyped, Encoders,
        DelayThreads
<1> QED
  BY <1>2, <1>3, <1>4, <1>5, <1>6, <1>7, <1>8 DEF Orderly, Calm

\* The user stops without waiting.
LEMMA StopNowKept ==
  ASSUME DelayTyped, ~astray, Calm, StopNow
  PROVE  Orderly'
<1>1. /\ Settled /\ at["user"] = "idle" /\ at' = [at EXCEPT !["user"] = "stop"]
      /\ output.active /\ force' \in BOOLEAN /\ (~force' => output.active_delay_ns = 0)
      /\ asked' = FALSE
      /\ UNCHANGED <<delay_data, output, attached, stream, dd, lag, button, stolen, astray>>
  BY DEF StopNow, Goto, StreamingActive, Calm, Closes, DelayTyped, Underway
<1>d. output.delay_active => output.active_delay_ns > 0
  BY DelayAssumption DEF Calm, Closes, DelayTyped, OutputFields
<1>0. /\ \A e \in Encoders : at[e] \notin {"packet", "start", "pop", "decide", "cleanup", "signal"}
      /\ at["user"] \notin {"push", "begin", "decide", "cleanup", "signal"}
      /\ at["net"] \notin {"cleanup", "signal"}
  BY <1>1 DEF Settled, Blocked, Encoders, DelayThreads
<1>b. ~output.delay_active => ~Underway
  BY DEF Calm, Closes
<1>2. DelayTyped'
  <2>1. asked' \in BOOLEAN
    BY <1>1
  <2>2. AtTyped'
    BY <1>1 DEF DelayTyped, AtTyped, EncoderPlaces, UserPlaces, NetPlaces,
        StopPlaces, Encoders, DelayThreads
  <2>3. SentAsked'
    BY <1>1 DEF DelayTyped, AtTyped, SentAsked, Encoders, DelayThreads
  <2> QED
    BY <1>1, <2>1, <2>2, <2>3 DEF DelayTyped
<1>3. Turns'
  BY <1>1, <1>0, <1>d, <1>b DEF Turns, Calm, DelayTyped, AtTyped, Encoders,
      DelayThreads, Processing, Finishing, StopPlaces
<1>4. Closes'
  BY <1>1, <1>0, <1>d, <1>b DEF Closes, Calm, DelayTyped, AtTyped, Encoders,
      DelayThreads, Closing, Underway, EncoderPlaces, UserPlaces, NetPlaces,
      StopPlaces
<1>5. Leftover'
  BY <1>1, <1>0, <1>d, <1>b DEF Leftover, Calm, DelayTyped, AtTyped, Encoders,
      DelayThreads, Closing, StartsWaiting, Queued
<1>6. Dense'
  BY <1>1, <1>0, <1>d, <1>b DEF Dense, Calm, DelayTyped, AtTyped, Encoders,
      DelayThreads, Underway
<1>7. Wanted'
  BY <1>1, <1>0, <1>d, <1>b DEF Wanted, Calm, DelayTyped, AtTyped, Encoders,
      DelayThreads, Underway, Processing
<1>8. Counted'
  BY <1>1, <1>0, <1>d, <1>b DEF Counted, Calm, DelayTyped, AtTyped, Encoders,
      DelayThreads, Popped, Uncounted, Owed, EventsWaiting, StartsWaiting, Queued
<1> QED
  BY <1>2, <1>3, <1>4, <1>5, <1>6, <1>7, <1>8 DEF Orderly, Calm

\* Everything grows older by one, the delay of no packet is skipped.
LEMMA TickKept ==
  ASSUME DelayTyped, ~astray, Calm, Tick
  PROVE  Orderly'
<1>1. /\ Settled
      /\ \A e \in attached : at[e] = "idle" => lag[e] = 0
      /\ \A i \in DOMAIN delay_data : delay_data[i].age < MaxAge
      /\ \A e \in Encoders : at[e] # "idle" => lag[e] < MaxAge
      /\ delay_data' = [i \in DOMAIN delay_data |->
                          [delay_data[i] EXCEPT !.age = @ + 1]]
      /\ lag' = [e \in Encoders |-> IF at[e] = "idle" THEN 1 ELSE lag[e] + 1]
      /\ UNCHANGED <<output, attached, stream, at, dd, button, force, asked, stolen, astray>>
  BY DEF Tick, past
<1>0. /\ \A e \in Encoders : at[e] \notin {"packet", "start", "pop", "decide", "cleanup", "signal"}
      /\ at["user"] \notin {"push", "begin", "decide", "cleanup", "signal"}
      /\ at["net"] \notin {"cleanup", "signal"}
  BY <1>1 DEF Settled, Blocked, Encoders, DelayThreads
<1>d. output.delay_active => output.active_delay_ns > 0
  BY DelayAssumption DEF Calm, Closes, DelayTyped, OutputFields
<1>b. /\ delay_data \in Seq(Item)
      /\ delay_data' \in Seq(Item) /\ (delay_data' = <<>> <=> delay_data = <<>>)
      /\ delay_data # <<>> => /\ delay_data'[1].age = delay_data[1].age + 1
                              /\ LastAge(delay_data') = LastAge(delay_data) + 1
      /\ InOrderOfTime(delay_data) => InOrderOfTime(delay_data')
      /\ NoGap(delay_data) => NoGap(delay_data')
      /\ Packets(delay_data) => Packets(delay_data')
      /\ StartFirst(delay_data) => StartFirst(delay_data')
      /\ NoPackets(delay_data) => NoPackets(delay_data')
      /\ \A M : At(delay_data', M) = At(delay_data, M)
      /\ \A a : \A i \in Nat : AskedBehind(delay_data, a, i) => AskedBehind(delay_data', a, i)
      /\ \A a : AskedBehindStarts(delay_data, a) => AskedBehindStarts(delay_data', a)
  BY <1>1, AgedQueue DEF DelayTyped
<1>n. StartsWaiting' = StartsWaiting /\ EventsWaiting' = EventsWaiting
  <2>1. /\ At(delay_data', {"start"}) = At(delay_data, {"start"})
        /\ At(delay_data', {"start", "stop"}) = At(delay_data, {"start", "stop"})
    BY <1>b
  <2> QED
    BY <2>1 DEF StartsWaiting, EventsWaiting, Queued, At
<1>c. lag' \in [Encoders -> 0 .. MaxAge] /\ \A e \in Encoders : lag'[e] # 0
  <2>1. 1 \in 0 .. MaxAge /\ MaxAge \in Nat
    BY DelayAssumption
  <2>2. \A e \in Encoders : lag[e] \in 0 .. MaxAge
    BY DEF DelayTyped
  <2>3. \A e \in Encoders : at[e] # "idle" => lag[e] + 1 \in 0 .. MaxAge /\ lag[e] + 1 # 0
    BY <1>1, <2>1, <2>2
  <2> QED
    BY <1>1, <2>1, <2>3
\* An encoder that does not wait has just pushed a packet.
<1>f. ASSUME output.delay_active \/ output.active_delay_ns = 0, delay_data # <<>>
      PROVE  \E e \in Encoders : lag[e] = 0
  <2>1. \A e \in Encoders : at[e] = "idle" \/ Blocked(e)
    BY <1>1 DEF Settled, DelayThreads
  <2>2. \A e \in Encoders : Blocked(e) => Processing(e)
    BY DEF Blocked, Processing
  <2>3. at["video"] = "idle" \/ at["audio"] = "idle"
    BY <2>1, <2>2 DEF Calm, Turns, Encoders
  <2>4. CASE output.delay_active
    BY <2>3, <2>4, <1>1 DEF Calm, Closes, Encoders
  <2>5. CASE ~output.delay_active
    <3>1. output.active_delay_ns = 0
      BY <1>f, <2>5
    <3>2. Packets(delay_data)
      BY <3>1, <1>0 DEF Calm, Leftover
    <3>3. attached # {}
      <4>1. 1 \in 1 .. Len(delay_data)
        BY <1>b, <1>f, EmptySeq
      <4>2. ~NoPackets(delay_data)
        BY <4>1, <3>2 DEF Packets, NoPackets
      <4> QED
        BY <4>2, <3>1 DEF Calm, Leftover
    <3>4. PICK e \in attached : TRUE
      BY <3>3
    <3>5. e \in Encoders
      BY DEF DelayTyped
    <3>6. ~Blocked(e)
      <4>1. ~(stream \in {"connecting", "failing"} /\ at[e] = "stop")
        <5> SUFFICES ASSUME stream \in {"connecting", "failing"}, at[e] = "stop"
                     PROVE  FALSE
          OBVIOUS
        <5>1. stream = "failing" /\ Finishing("net")
          BY <2>5 DEF Calm, Closes, Turns, Underway
        <5>2. at["net"] # "signal"
          BY <1>0
        <5>3. Closing("net")
          BY <5>1, <5>2 DEF Finishing, Closing, StopPlaces, DelayTyped, AtTyped,
              NetPlaces
        <5>4. output.active
          BY <3>5 DEF Calm, Turns, Processing
        <5> QED
          BY <3>1, <5>3, <5>4 DEF Calm, Leftover
      <4>2. ~(at[e] = "detachVideo" /\ ~Quiet(e, "video"))
        BY <2>3, <3>5 DEF Quiet, Encoders
      <4>3. ~(at[e] = "detachAudio" /\ ~Quiet(e, "audio"))
        BY <2>3, <3>5 DEF Quiet, Encoders
      <4> QED
        BY <4>1, <4>2, <4>3 DEF Blocked
    <3> QED
      BY <2>1, <3>4, <3>5, <3>6, <1>1
  <2> QED
    BY <2>4, <2>5
<1>g. /\ output.delay_active \/ output.active_delay_ns = 0 =>
           NoGap(delay_data') /\ (delay_data' # <<>> => LastAge(delay_data') <= 1)
      /\ delay_data' # <<>> /\ delay_data[1].age >= output.active_delay_ns
           => delay_data'[1].age >= output.active_delay_ns
  <2>1. ASSUME output.delay_active \/ output.active_delay_ns = 0, delay_data # <<>>
        PROVE  LastAge(delay_data') = 1
    <3>1. LastAge(delay_data) = 0
      BY <1>f, <2>1 DEF Calm, Dense
    <3> QED
      BY <3>1, <2>1, <1>b
  <2>2. delay_data # <<>> => delay_data[1].age \in Nat
    <3>1. delay_data # <<>> => delay_data[1] \in Item
      BY <1>b, TailOfQueue
    <3> QED
      BY <3>1, DelayAssumption DEF Item
  <2>3. output.active_delay_ns \in Nat
    BY DelayAssumption DEF DelayTyped, OutputFields
  <2> DEFINE o == delay_data[1].age  d == output.active_delay_ns
  <2>4. delay_data # <<>> /\ o >= d => o + 1 >= d
    <3> HIDE DEF o, d
    <3>1. delay_data # <<>> => o \in Nat
      BY <2>2 DEF o
    <3>2. d \in Nat
      BY <2>3 DEF d
    <3> QED
      BY <3>1, <3>2
  <2> QED
    BY <1>b, <2>1, <2>4 DEF Calm, Dense
<1>h. ~output.active => Packets(delay_data) /\ FreshEvents(delay_data')
  BY <1>0, <1>b DEF Calm, Leftover, Packets, FreshEvents
<1>2. DelayTyped'
  <2>1. delay_data' \in Seq(Item) /\ InOrderOfTime(delay_data')
    BY <1>b DEF DelayTyped
  <2>2. lag' \in [Encoders -> 0 .. MaxAge]
    BY <1>c
  <2>3. AtTyped'
    BY <1>1 DEF DelayTyped, AtTyped
  <2>4. SentAsked'
    BY <1>1 DEF DelayTyped, AtTyped, SentAsked, Encoders, DelayThreads
  <2> QED
    BY <1>1, <2>1, <2>2, <2>3, <2>4 DEF DelayTyped
<1>3. Turns'
  BY <1>1, <1>0, <1>d, <1>b, <1>c, <1>g DEF Turns, Calm, DelayTyped, AtTyped,
      Encoders, DelayThreads, Processing, Finishing, StopPlaces
<1>4. Closes'
  BY <1>1, <1>0, <1>d, <1>b, <1>c, <1>g DEF Closes, Calm, DelayTyped, AtTyped,
      Encoders, DelayThreads, Closing, Underway, EncoderPlaces, UserPlaces,
      NetPlaces, StopPlaces
<1>5. Leftover'
  BY <1>1, <1>0, <1>b, <1>n, <1>h DEF Leftover, Calm, Closing
<1>6. Dense'
  BY <1>1, <1>0, <1>d, <1>b, <1>c, <1>g DEF Dense, Calm, DelayTyped, AtTyped,
      Encoders, DelayThreads, Underway
<1>7. Wanted'
  BY <1>1, <1>0, <1>d, <1>b, <1>c, <1>g DEF Wanted, Calm, DelayTyped, AtTyped,
      Encoders, DelayThreads, Underway, Processing
<1>8. Counted'
  <2>1. Owed' = Owed
    BY <1>1, <1>n DEF Owed, Popped, Uncounted
  <2> QED
    BY <1>0, <1>1, <1>b, <1>n, <2>1 DEF Counted, Calm
<1> QED
  BY <1>2, <1>3, <1>4, <1>5, <1>6, <1>7, <1>8 DEF Orderly, Calm

\* A packet that the user wants now, or does not, is put in.
LEMMA PushPacketKept ==
  ASSUME DelayTyped, ~astray, Calm, NEW e \in Encoders, PushPacket(e)
  PROVE  Orderly'
<1>1. /\ at[e] = "idle" /\ at' = [at EXCEPT ![e] = "pop"] /\ e \in attached
      /\ lag' = [lag EXCEPT ![e] = 0]
      /\ delay_data' = Pushed
      /\ UNCHANGED <<output, attached, stream, dd, button, force, asked, stolen, astray>>
  BY DEF PushPacket, Goto, past
<1> DEFINE x == Packet(asked, FALSE)
<1>x. x \in Item /\ x.msg = "packet" /\ x.age = 0 /\ (asked => x.on)
  <2>1. 0 \in 0 .. MaxAge /\ asked \in BOOLEAN
    BY DelayAssumption DEF DelayTyped
  <2> QED
    BY <2>1 DEF Packet, Item
<1>y. /\ delay_data \in Seq(Item)
      /\ \/ delay_data' = Append(delay_data, x)
         \/ delay_data' = delay_data /\ delay_data # <<>> /\ delay_data[Len(delay_data)] = x
  BY <1>1 DEF Pushed, DelayTyped
<1> HIDE DEF x
<1>b. /\ delay_data' \in Seq(Item) /\ delay_data' # <<>> /\ LastAge(delay_data') = 0
      /\ delay_data # <<>> => delay_data'[1] = delay_data[1]
      /\ InOrderOfTime(delay_data) => InOrderOfTime(delay_data')
      /\ NoGap(delay_data) /\ (delay_data # <<>> => LastAge(delay_data) <= 1)
           => NoGap(delay_data')
      /\ Packets(delay_data) => Packets(delay_data')
      /\ FreshEvents(delay_data) => FreshEvents(delay_data')
      /\ FreshStart(delay_data) => FreshStart(delay_data')
      /\ StartFirst(delay_data) => StartFirst(delay_data')
  <2>1. CASE delay_data' = Append(delay_data, x)
    BY <1>x, <1>y, <2>1, AppendedQueue
  <2>2. CASE delay_data' = delay_data /\ delay_data # <<>> /\ delay_data[Len(delay_data)] = x
    BY <1>x, <1>y, <2>2 DEF LastAge
  <2> QED
    BY <1>y, <2>1, <2>2
<1>w. /\ AskedBehind(delay_data, asked, 0) => AskedBehind(delay_data', asked, 0)
      /\ AskedBehindStarts(delay_data, asked) => AskedBehindStarts(delay_data', asked)
  <2>1. CASE delay_data' = Append(delay_data, x)
    <3>1. 0 \in 0 .. Len(delay_data)
      BY <1>y, LenProperties
    <3>2. x.msg = "packet" => (asked => x.on /\ asked)
      BY <1>x
    <3> QED
      BY <1>x, <1>y, <2>1, <3>1, <3>2, AskedAppended
  <2> QED
    BY <1>y, <2>1
<1>n. StartsWaiting' = StartsWaiting /\ EventsWaiting' = EventsWaiting
  <2>1. CASE delay_data' = Append(delay_data, x)
    <3>1. StartsWaiting \in Nat /\ EventsWaiting \in Nat
      BY <1>y, Counts
    <3> QED
      BY <1>x, <1>y, <2>1, <3>1, CountsChange
  <2>2. CASE delay_data' = delay_data
    BY <2>2 DEF StartsWaiting, EventsWaiting, Queued
  <2> QED
    BY <1>y, <2>1, <2>2
<1>c. lag' \in [Encoders -> 0 .. MaxAge]
  <2>1. 0 \in 0 .. MaxAge
    BY DelayAssumption
  <2> QED
    BY <1>1, <2>1 DEF DelayTyped
<1>2. DelayTyped'
  <2>1. delay_data' \in Seq(Item) /\ InOrderOfTime(delay_data')
    BY <1>b DEF DelayTyped
  <2>2. lag' \in [Encoders -> 0 .. MaxAge]
    BY <1>c
  <2>3. AtTyped'
    BY <1>1 DEF DelayTyped, AtTyped, EncoderPlaces, UserPlaces, NetPlaces,
        StopPlaces, Encoders, DelayThreads
  <2>4. SentAsked'
    BY <1>1 DEF DelayTyped, AtTyped, SentAsked, Encoders, DelayThreads
  <2> QED
    BY <1>1, <2>1, <2>2, <2>3, <2>4 DEF DelayTyped
<1>3. Turns'
  BY <1>1, <1>b DEF Turns, Calm, DelayTyped, AtTyped, Encoders, DelayThreads,
      Processing, Finishing, StopPlaces
<1>4. Closes'
  <2>1. \A f \in Encoders : lag'[f] = IF f = e THEN 0 ELSE lag[f]
    BY <1>1 DEF DelayTyped
  <2> QED
    BY <1>1, <2>1 DEF Closes, Calm, DelayTyped, AtTyped, Encoders, DelayThreads,
        Closing, Underway, EncoderPlaces, UserPlaces, NetPlaces, StopPlaces
<1>5. Leftover'
  BY <1>1, <1>b, <1>n DEF Leftover, Calm, DelayTyped, AtTyped, Encoders,
      DelayThreads, Closing
<1>6. Dense'
  BY <1>1, <1>b DEF Dense, Calm, DelayTyped, AtTyped, Encoders, DelayThreads,
      Underway
<1>7. Wanted'
  BY <1>1, <1>b, <1>w DEF Wanted, Calm, DelayTyped, AtTyped, Encoders,
      DelayThreads, Underway, Processing
<1>8. Counted'
  <2>1. Owed' = Owed
    BY <1>1, <1>n DEF Owed, Popped, Uncounted, DelayTyped, AtTyped, DelayThreads,
        Encoders
  <2> QED
    BY <1>1, <1>b, <1>n, <2>1 DEF Counted, Calm, DelayTyped, AtTyped, Encoders,
        DelayThreads
<1> QED
  BY <1>2, <1>3, <1>4, <1>5, <1>6, <1>7, <1>8 DEF Orderly, Calm

\* The oldest item is taken out. It is older than the delay, so an event among
\* them is not one that is left over, and the item behind it has the delay as well.
LEMMA PopPacketKept ==
  ASSUME DelayTyped, ~astray, Calm, NEW e \in Encoders, PopPacket(e)
  PROVE  ~astray' => Orderly'
<1> DEFINE q == delay_data
           h == delay_data[1]
           d == output.active_delay_ns
           cross == \E x \in DelayThreads \ {e} : Processing(x)
<1>1. /\ q # <<>> /\ q \in Seq(Item) /\ h \in Item /\ Oldest = h
      /\ at[e] = "pop" /\ at' = [at EXCEPT ![e] = h.msg] /\ q' = Tail(q)
      /\ dd' = IF h.msg = "packet" THEN [dd EXCEPT ![e] = [h EXCEPT !.cross = cross]]
                                   ELSE dd
      /\ astray' = (astray \/ h.age < lag[e] \/ (h.msg # "packet" /\ cross))
      /\ Due(e)
      /\ UNCHANGED <<output, attached, stream, lag, button, force, asked, stolen>>
  <2>1. q # <<>> /\ q \in Seq(Item)
    BY DEF PopPacket, DelayTyped
  <2>2. h \in Item /\ Oldest = h
    BY <2>1, TailOfQueue DEF Oldest
  <2> QED
    BY <2>1, <2>2 DEF PopPacket, Goto
<1>b. /\ q' \in Seq(Item)
      /\ q' = <<>> => h.age = LastAge(q)
      /\ q' # <<>> => LastAge(q') = LastAge(q)
      /\ InOrderOfTime(q) => InOrderOfTime(q')
      /\ NoGap(q) => NoGap(q') /\ (q' # <<>> => q'[1].age >= h.age - 1)
      /\ Packets(q) => Packets(q') /\ h.msg = "packet"
      /\ FreshEvents(q) => FreshEvents(q')
      /\ FreshStart(q) => FreshStart(q') \/ (h.msg = "start" /\ h.age = 0)
      /\ StartFirst(q) => h.msg = "start" \/ (h.msg = "packet" /\ StartFirst(q'))
      /\ NoPackets(q) => NoPackets(q')
  BY <1>1, TailOfQueue
<1>w. /\ AskedBehind(q, asked, 0) /\ h.msg = "packet" => h.on /\ AskedBehind(q', asked, 0)
      /\ AskedBehindStarts(q, asked) => AskedBehindStarts(q', asked)
      /\ AskedBehindStarts(q, asked) /\ h.msg = "start" => AskedBehind(q', asked, 0)
  BY <1>1, AskedTail
<1>n. /\ StartsWaiting = StartsWaiting' + IF h.msg = "start" THEN 1 ELSE 0
      /\ EventsWaiting = EventsWaiting' + IF h.msg = "packet" THEN 0 ELSE 1
      /\ StartsWaiting' \in Nat /\ EventsWaiting' \in Nat
      /\ StartsWaiting \in Nat /\ EventsWaiting \in Nat
  <2>1. /\ StartsWaiting = StartsWaiting' + IF h.msg = "start" THEN 1 ELSE 0
        /\ EventsWaiting = EventsWaiting' + IF h.msg = "packet" THEN 0 ELSE 1
    BY <1>1, CountsChange
  <2>2. StartsWaiting \in Nat /\ EventsWaiting \in Nat
    BY <1>1, Counts
  <2>3. Cardinality(At(q', {"start"})) \in Nat /\ Cardinality(At(q', {"start", "stop"})) \in Nat
    BY <1>b, PlacesFinite
  <2>4. StartsWaiting' \in Nat /\ EventsWaiting' \in Nat
    BY <2>3 DEF StartsWaiting, EventsWaiting, Queued, At
  <2> QED
    BY <2>1, <2>2, <2>4
<1>m. /\ h.msg \in {"packet", "start", "stop"} /\ h.age \in Nat /\ h.age \in 0 .. MaxAge
      /\ lag[e] \in Nat /\ d \in Nat /\ cross \in BOOLEAN
      /\ delay_sec \in Nat /\ delay_sec > 0
  BY <1>1, DelayAssumption DEF DelayTyped, Item, OutputFields
<1>x. \A x \in DelayThreads : x # e /\ Processing(x) => cross
  OBVIOUS
<1>s. /\ output.delay_capturing => Underway
      /\ Underway => output.delay_active
  BY DEF Calm, Closes, Underway
<1>t. dd' \in [Encoders -> PoppedItem]
      /\ (h.msg = "packet" => dd'[e].on = h.on /\ dd'[e].cross = cross /\ dd'[e].age = h.age)
      /\ \A f \in Encoders \ {e} : dd'[f] = dd[f]
  <2> DEFINE p == [h EXCEPT !.cross = cross]
  <2>1. h.msg = "packet" => /\ p \in PoppedItem
                           /\ p.on = h.on /\ p.cross = cross /\ p.age = h.age
    <3> HIDE DEF cross
    <3> QED
      BY <1>1, <1>m DEF Item, PoppedItem
  <2>2. dd' = IF h.msg = "packet" THEN [dd EXCEPT ![e] = p] ELSE dd
    BY <1>1
  <2>3. dd \in [Encoders -> PoppedItem]
    BY DEF DelayTyped
  <2> HIDE DEF p, h, cross
  <2> QED
    BY <2>1, <2>2, <2>3
<1> HIDE DEF cross
<1>2. DelayTyped'
  <2>1. AtTyped'
    BY <1>1, <1>m DEF DelayTyped, AtTyped, EncoderPlaces, UserPlaces, NetPlaces,
        StopPlaces, Encoders, DelayThreads
  <2>2. SentAsked'
    <3>1. ASSUME h.msg = "packet", output.delay_capturing PROVE h.on \/ cross
      <4>1. Processing("user") => cross
        BY <1>x DEF DelayThreads, Encoders
      <4>2. at["video"] = "stop" \/ at["audio"] = "stop" => cross
        BY <1>x, <1>1 DEF Processing, DelayThreads, Encoders
      <4>3. AskedBehind(q, asked, 0) => h.on
        BY <1>w, <3>1
      <4> QED
        BY <3>1, <4>1, <4>2, <4>3, <1>s DEF Calm, Wanted
    <3>2. \A f \in Encoders \ {e} : at'[f] = at[f] /\ dd'[f] = dd[f]
      BY <1>1, <1>t DEF DelayTyped, AtTyped, DelayThreads
    <3>3. at'[e] = h.msg
      BY <1>1 DEF DelayTyped, AtTyped, DelayThreads
    <3>4. ASSUME NEW f \in Encoders, at'[f] = "packet", output'.delay_capturing
          PROVE  dd'[f].on \/ dd'[f].cross
      <4>1. output.delay_capturing
        BY <1>1, <3>4
      <4>2. CASE f = e
        <5>1. h.on \/ cross
          BY <3>1, <3>3, <3>4, <4>1, <4>2
        <5>2. dd'[e].on = h.on /\ dd'[e].cross = cross
          BY <1>t, <3>3, <3>4, <4>2
        <5> QED
          BY <5>1, <5>2, <4>2, Zenon
      <4>3. CASE f # e
        BY <3>2, <3>4, <4>1, <4>3 DEF DelayTyped, SentAsked
      <4> QED
        BY <4>2, <4>3
    <3> QED
      BY <3>4 DEF SentAsked
  <2>3. astray' \in BOOLEAN
    BY <1>1
  <2> QED
    BY <1>1, <1>b, <1>t, <2>1, <2>2, <2>3 DEF DelayTyped
<1>3. SUFFICES ASSUME ~astray' PROVE Calm'
  BY <1>2 DEF Orderly
<1>c. /\ h.age >= lag[e] /\ (h.msg # "packet" => ~cross)
      /\ h.age > d /\ h.age - 1 >= d /\ h.age # 0
  <2>1. ~(h.age < lag[e]) /\ (h.msg # "packet" => ~cross)
    BY <1>1, <1>3
  <2>2. h.age - lag[e] > d
    BY <1>1, <2>1 DEF Due
  <2> DEFINE a == h.age  l == lag[e]
  <2>3. a \in Nat /\ l \in Nat /\ d \in Nat /\ ~(a < l) /\ a - l > d
    BY <1>m, <2>1, <2>2
  <2>4. a >= l /\ a > d /\ a - 1 >= d /\ a # 0
    <3> HIDE DEF a, l, d
    <3> QED
      BY <2>3
  <2> QED
    BY <2>1, <2>4
<1>d. h.msg # "packet" => output.delay_active /\ output.active
  <2> SUFFICES ASSUME h.msg # "packet" PROVE output.delay_active
    BY DEF DelayTyped
  <2>1. output.active
    <3>1. ~FreshEvents(q)
      <4>1. 1 \in 1 .. Len(q)
        BY <1>1, EmptySeq
      <4> QED
        BY <4>1, <1>c DEF FreshEvents
    <3> QED
      BY <3>1 DEF Calm, Leftover
  <2>2. ~\E x \in DelayThreads : Closing(x)
    BY <1>1, <1>c, <1>x DEF Closing, Processing
  <2> QED
    BY <2>1, <2>2 DEF Calm, Closes
<1>o. /\ h.msg # "packet" => \A x \in DelayThreads \ {e} : ~Processing(x)
      /\ at'[e] = h.msg /\ \A x \in DelayThreads \ {e} : at'[x] = at[x]
  BY <1>1, <1>c, <1>x DEF DelayTyped, AtTyped, DelayThreads
<1>4. Turns'
  BY <1>1, <1>m, <1>o, <1>d DEF Turns, Calm, DelayTyped, AtTyped, Encoders,
      DelayThreads, Processing, Finishing, StopPlaces
<1>5. Closes'
  BY <1>1, <1>m, <1>o, <1>d DEF Closes, Calm, DelayTyped, AtTyped, Encoders,
      DelayThreads, Closing, Underway, EncoderPlaces, UserPlaces, NetPlaces,
      StopPlaces
<1>6. Leftover'
  <2> DEFINE s == StartsWaiting  t == StartsWaiting'
  <2>1. s \in Nat /\ t \in Nat /\ (s = t + 1 \/ s = t + 0)
    BY <1>n
  <2>2. s <= 1 => t <= 1
    <3> HIDE DEF s, t
    <3> QED
      BY <2>1
  <2> QED
    BY <1>1, <1>b, <1>m, <1>o, <2>2 DEF Leftover, Calm, DelayTyped, AtTyped,
        Encoders, DelayThreads, Closing
<1>7. Dense'
  <2>1. Underway' => output.delay_active
    BY <1>1, <1>d, <1>o, <1>s DEF Underway, Encoders, DelayThreads
  <2>2. ASSUME output.delay_active PROVE q' # <<>> /\ q'[1].age >= d
    <3>1. NoGap(q) /\ LastAge(q) <= 1 /\ d >= delay_sec
      BY <1>1, <2>2 DEF Calm, Dense, Closes
    <3>2. q' # <<>>
      <4> SUFFICES ASSUME q' = <<>> PROVE FALSE
        OBVIOUS
      <4>1. h.age <= 1 /\ h.age > d
        BY <1>b, <1>c, <3>1
      <4> DEFINE a == h.age
      <4>2. a \in Nat /\ d \in Nat /\ a <= 1 /\ a > d /\ d >= delay_sec
        BY <4>1, <3>1, <1>m
      <4> HIDE DEF a, d
      <4> QED
        BY <4>2, <1>m
    <3>3. q'[1].age >= h.age - 1
      BY <1>b, <3>1, <3>2
    <3>4. q'[1] \in Item
      BY <1>b, <3>2, TailOfQueue
    <3> DEFINE a == h.age  b == q'[1].age
    <3>5. a \in Nat /\ b \in Nat /\ d \in Nat /\ b >= a - 1 /\ a - 1 >= d
      BY <1>c, <1>m, <3>3, <3>4, DelayAssumption DEF Item
    <3>6. b >= d
      <4> HIDE DEF a, b, d
      <4> QED
        BY <3>5
    <3> QED
      BY <3>2, <3>6
  <2>3. h.msg = "packet" /\ output.delay_capturing => dd'[e].age > delay_sec
    <3>1. output.delay_capturing => d >= delay_sec
      BY <1>s DEF Calm, Closes
    <3>2. d >= delay_sec => h.age > delay_sec
      BY <1>c, <1>m
    <3> QED
      BY <1>t, <3>1, <3>2
  <2>4. \A f \in Encoders : at'[f] = "packet" /\ output'.delay_capturing => dd'[f].age > delay_sec
    BY <1>1, <1>o, <1>t, <2>3 DEF Calm, Dense, Encoders, DelayThreads
  <2> QED
    BY <1>1, <1>b, <2>1, <2>2, <2>4 DEF Dense, Calm
<1>8. Wanted'
  <2>1. Processing("user")' <=> Processing("user")
    BY <1>o DEF Processing, Encoders, DelayThreads
  <2>2. ASSUME Underway' PROVE \/ Processing("user") \/ at'["video"] = "stop" \/ at'["audio"] = "stop"
                             \/ AskedBehind(q', asked, 0)
    <3>1. CASE h.msg = "stop"
      BY <3>1, <1>o DEF Encoders
    <3>2. CASE h.msg = "packet"
      <4>1. Underway
        BY <2>2, <3>2, <1>1, <1>o DEF Underway, Encoders, DelayThreads
      <4>2. \/ Processing("user") \/ at["video"] = "stop" \/ at["audio"] = "stop"
            \/ AskedBehind(q, asked, 0)
        BY <4>1 DEF Calm, Wanted
      <4>3. \A f \in Encoders : at[f] = "stop" => at'[f] = "stop"
        BY <1>1, <1>o DEF Encoders, DelayThreads
      <4> QED
        BY <4>2, <4>3, <3>2, <1>w DEF Encoders
    <3>3. CASE h.msg = "start"
      <4>1. output.delay_active /\ ~Processing("user")
        BY <3>3, <1>d, <1>o DEF Encoders, DelayThreads
      <4>2. AskedBehindStarts(q, asked)
        BY <4>1 DEF Calm, Wanted
      <4> QED
        BY <4>2, <3>3, <1>w
    <3> QED
      BY <3>1, <3>2, <3>3, <1>m
  <2>3. (output.delay_active \/ ~output.active) /\ ~Processing("user")
          => AskedBehindStarts(q', asked)
    BY <1>w DEF Calm, Wanted
  <2> QED
    BY <1>1, <2>1, <2>2, <2>3 DEF Wanted
<1>9. Counted'
  <2>1. /\ h.msg = "start" => Popped = 0 /\ Popped' = 1
        /\ h.msg # "start" => Popped' = Popped
        /\ Popped \in {0, 1} /\ Uncounted' = Uncounted /\ Uncounted \in {0, 1}
    BY <1>1, <1>m, <1>o DEF Popped, Uncounted, Processing, Encoders, DelayThreads
  <2>2. Owed' = Owed
    <3> DEFINE s == StartsWaiting  t == StartsWaiting'  p == Popped  r == Popped'
               u == Uncounted
    <3>1. /\ Owed = s + p - u /\ Owed' = t + r - u /\ s \in Nat /\ t \in Nat
          /\ u \in {0, 1} /\ p \in {0, 1}
          /\ \/ s = t + 1 /\ p = 0 /\ r = 1
             \/ s = t + 0 /\ r = p
      BY <2>1, <1>n DEF Owed
    <3> HIDE DEF s, t, p, r, u
    <3> QED
      BY <3>1
  <2>3. /\ EventsWaiting' <= EventsWaiting
        /\ EventsWaiting <= MaxEvents => EventsWaiting' <= MaxEvents
        /\ EventsWaiting < MaxEvents => EventsWaiting' < MaxEvents
    <3> DEFINE s == EventsWaiting  t == EventsWaiting'
    <3>1. s \in Nat /\ t \in Nat /\ (s = t + 0 \/ s = t + 1) /\ MaxEvents \in Nat
      BY <1>n, DelayAssumption
    <3> HIDE DEF s, t
    <3>2. t <= s /\ (s <= MaxEvents => t <= MaxEvents) /\ (s < MaxEvents => t < MaxEvents)
      BY <3>1
    <3> QED
      BY <3>2 DEF s, t
  <2>4. FreshStart(q) => FreshStart(q')
    BY <1>b, <1>c
  <2>5. ASSUME \A f \in Encoders : at[f] \notin {"stop", "decide"},
               at["video"] = "start" \/ at["audio"] = "start" \/ StartFirst(q)
        PROVE  /\ \A f \in Encoders : at'[f] \notin {"stop", "decide"}
               /\ at'["video"] = "start" \/ at'["audio"] = "start" \/ StartFirst(q')
    <3>1. h.msg # "stop"
      <4> SUFFICES ASSUME h.msg = "stop" PROVE FALSE
        OBVIOUS
      <4>1. at["video"] # "start" /\ at["audio"] # "start"
        BY <1>1, <1>o DEF Processing, Encoders, DelayThreads
      <4> QED
        BY <4>1, <2>5, <1>b
    <3>2. \A f \in Encoders : at'[f] \notin {"stop", "decide"}
      BY <3>1, <2>5, <1>m, <1>o DEF Encoders, DelayThreads
    <3>3. CASE h.msg = "start"
      BY <3>2, <3>3, <1>o DEF Encoders
    <3>4. CASE h.msg = "packet"
      <4>1. \A f \in Encoders : at[f] = "start" => at'[f] = "start"
        BY <1>1, <1>o DEF Encoders, DelayThreads
      <4> QED
        BY <3>2, <3>4, <4>1, <2>5, <1>b DEF Encoders
    <3> QED
      BY <3>1, <3>3, <3>4, <1>m
  <2>6. at'["user"] = at["user"]
    BY <1>o DEF Encoders, DelayThreads
  <2> QED
    BY <1>1, <2>2, <2>3, <2>4, <2>5, <2>6 DEF Counted, Calm
<1> QED
  BY <1>4, <1>5, <1>6, <1>7, <1>8, <1>9 DEF Calm

\* The output as obs_output_create leaves it.
LEMMA InitiallyConsistent == DelayInit => DelayConsistent
<1> SUFFICES ASSUME DelayInit PROVE DelayConsistent
  OBVIOUS
<1>1. /\ delay_data = <<>> /\ delay_data \in Seq(Item) /\ Len(delay_data) = 0
      /\ output \in [delay_active : {FALSE}, delay_capturing : {FALSE},
                     active : {FALSE}, active_delay_ns : {0}, preserve : {FALSE},
                     delay_restart_refs : {0}, reconnecting : {FALSE}]
      /\ attached = {} /\ stream = "idle" /\ ~asked /\ ~stolen /\ ~astray /\ ~force
      /\ asked \in BOOLEAN /\ stolen \in BOOLEAN /\ astray \in BOOLEAN /\ force \in BOOLEAN
      /\ at = [x \in DelayThreads |-> "idle"]
      /\ lag = [e \in Encoders |-> 1] /\ dd = [e \in Encoders |-> Nothing]
  <2>1. delay_data \in Seq(Item) /\ Len(delay_data) = 0
    BY DEF DelayInit
  <2>2. /\ asked = FALSE /\ stolen = FALSE /\ astray = FALSE /\ force = FALSE
    BY Zenon DEF DelayInit
  <2> QED
    BY <2>1, <2>2, Zenon DEF DelayInit
<1>2. /\ 0 \in 0 .. MaxAge /\ 1 \in 0 .. MaxAge /\ 0 \in 0 .. MaxEvents + 1
      /\ MaxEvents \in Nat /\ MaxEvents > 0
  BY DelayAssumption
<1>3. /\ ~output.delay_active /\ ~output.active /\ ~output.delay_capturing
      /\ output.active_delay_ns = 0 /\ output.delay_restart_refs = 0
      /\ ~output.reconnecting
  BY <1>1
<1>4. \A x \in DelayThreads : at[x] = "idle"
  BY <1>1
<1>5. output \in OutputFields
  <2>1. [delay_active : {FALSE}, delay_capturing : {FALSE},
         active : {FALSE}, active_delay_ns : {0}, preserve : {FALSE},
         delay_restart_refs : {0}, reconnecting : {FALSE}] \subseteq OutputFields
    BY <1>2 DEF OutputFields
  <2> QED
    BY <1>1, <2>1
<1>6. dd \in [Encoders -> PoppedItem]
  <2>1. Nothing \in PoppedItem
    BY <1>2 DEF Nothing, Packet, PoppedItem
  <2> QED
    BY <1>1, <2>1
<1>7. /\ InOrderOfTime(delay_data) /\ Packets(delay_data) /\ NoPackets(delay_data)
      /\ FreshEvents(delay_data) /\ NoGap(delay_data)
      /\ AskedBehindStarts(delay_data, asked)
  BY <1>1 DEF InOrderOfTime, Packets, NoPackets, FreshEvents, NoGap,
      AskedBehindStarts
<1>8. StartsWaiting = 0 /\ EventsWaiting = 0
  BY <1>1, <1>7, Counts
<1>9. DelayTyped
  <2>1. AtTyped
    BY <1>1 DEF AtTyped, EncoderPlaces, UserPlaces, NetPlaces, Encoders,
        DelayThreads
  <2>2. SentAsked
    BY <1>3 DEF SentAsked
  <2>3. lag \in [Encoders -> 0 .. MaxAge]
    BY <1>1, <1>2
  <2> QED
    BY <1>1, <1>3, <1>5, <1>6, <1>7, <2>1, <2>2, <2>3 DEF DelayTyped
<1>10. Turns
  BY <1>1, <1>4 DEF Turns, Processing, Finishing, StopPlaces, Encoders, DelayThreads
<1>11. Closes
  BY <1>1, <1>3, <1>4 DEF Closes, Closing, Underway, Encoders, DelayThreads
<1>12. Leftover
  BY <1>1, <1>3, <1>4, <1>7, <1>8 DEF Leftover, Closing, Encoders, DelayThreads
<1>13. Dense
  BY <1>1, <1>3, <1>4, <1>7 DEF Dense, Underway, Encoders, DelayThreads
<1>14. Wanted
  BY <1>1, <1>3, <1>4, <1>7 DEF Wanted, Underway, Encoders, DelayThreads
<1>15. Counted
  BY <1>2, <1>3, <1>4, <1>8 DEF Counted, Encoders, DelayThreads
<1>16. DelayShaped
  <2>1. OutputFields \subseteq OutputShape
    BY <1>2 DEF OutputFields, OutputShape
  <2> QED
    BY <1>9, <2>1 DEF DelayTyped, DelayShaped
<1> QED
  BY <1>9, <1>10, <1>11, <1>12, <1>13, <1>14, <1>15, <1>16
     DEF DelayConsistent, Orderly, Calm

\* A thread that goes from a place to one of its own places stays among its places.
LEMMA GoesOn ==
  ASSUME AtTyped, NEW x \in DelayThreads, NEW from, NEW to, Goto(x, from, to),
         x \in Encoders => to \in EncoderPlaces,
         x = "user" => to \in UserPlaces, x = "net" => to \in NetPlaces
  PROVE  AtTyped'
<1>1. at' = [at EXCEPT ![x] = to] /\ x \in Encoders \cup {"user", "net"}
  BY DEF Goto, DelayThreads
<1>2. to \in EncoderPlaces \cup UserPlaces
  BY <1>1 DEF NetPlaces, UserPlaces, StopPlaces
<1> QED
  BY <1>1, <1>2 DEF AtTyped, DelayThreads, Encoders

\* Nothing is in the order of time; a start and a hook keep the fields of the output.
LEMMA NoQueue == <<>> \in Seq(Item) /\ InOrderOfTime(<<>>)
  BY DEF InOrderOfTime

LEMMA StartShaped ==
  ASSUME output \in OutputShape, ActualStart
  PROVE  output' \in OutputShape /\ stream' \in {stream, "connecting"}
<1>1. RefsAfterStart \in Nat
  BY DEF RefsAfterStart, OutputShape
<1> QED
  BY <1>1 DEF ActualStart, OutputShape

LEMMA HookShaped ==
  ASSUME output \in OutputShape, Hook
  PROVE  output' \in OutputShape /\ attached' \subseteq Encoders
<1>1. delay_sec \in 0 .. MaxAge
  BY DelayAssumption
<1> QED
  BY <1>1 DEF Hook, OutputShape

\* Whatever happens at once, the queue stays in the order of time and every thread
\* where it can be.
LEMMA EncoderShapedKept ==
  ASSUME DelayShaped, NEW e \in Encoders, EncoderStep(e)
  PROVE  DelayShaped'
<1> USE DelayAssumption
<1>0. /\ e \in DelayThreads /\ e # "user" /\ e # "net"
      /\ AtTyped /\ lag[e] \in 0 .. MaxAge
  BY DEF DelayThreads, Encoders, DelayShaped
<1>1. CASE PushPacket(e)
  <2>1. delay_data' \in Seq(Item) /\ InOrderOfTime(delay_data')
    <3>1. CASE delay_data' = delay_data
      BY <3>1 DEF DelayShaped
    <3>2. CASE delay_data' = Append(delay_data, Packet(asked, FALSE))
      <4>1. Packet(asked, FALSE) \in Item /\ Packet(asked, FALSE).age = 0
        BY DEF Packet, Item, DelayShaped
      <4> QED
        BY <3>2, <4>1, AppendedQueue DEF DelayShaped
    <3> QED
      BY <1>1, <3>1, <3>2 DEF PushPacket, Pushed
  <2>2. AtTyped'
    BY <1>0, <1>1, GoesOn DEF PushPacket, EncoderPlaces
  <2>3. lag' \in [Encoders -> 0 .. MaxAge]
    BY <1>1 DEF PushPacket, DelayShaped
  <2> QED
    BY <1>1, <2>1, <2>2, <2>3 DEF PushPacket, DelayShaped, past
<1>2. CASE Preserve(e)
  <2>1. Elapsed(e) \in 0 .. MaxAge
    <3>1. Oldest.age \in 0 .. MaxAge
      BY <1>2, TailOfQueue DEF Preserve, DelayShaped, Oldest, Item
    <3> QED
      BY <1>0, <3>1 DEF Elapsed
  <2>2. output' \in OutputShape
    BY <1>2, <2>1 DEF Preserve, DelayShaped, OutputShape
  <2>3. AtTyped'
    BY <1>0, <1>2, GoesOn DEF Preserve, EncoderPlaces
  <2> QED
    BY <1>2, <2>2, <2>3 DEF Preserve, DelayShaped, past
<1>3. CASE NothingDue(e)
  <2>1. AtTyped'
    BY <1>0, <1>3, GoesOn DEF NothingDue, EncoderPlaces
  <2> QED
    BY <1>3, <2>1 DEF NothingDue, DelayShaped, past
<1>4. CASE PopPacket(e)
  <2>0. /\ delay_data \in Seq(Item) /\ delay_data # <<>> /\ InOrderOfTime(delay_data)
        /\ delay_data' = Tail(delay_data) /\ Oldest = Head(delay_data)
    BY <1>4 DEF PopPacket, DelayShaped, Oldest
  <2>1. /\ delay_data' \in Seq(Item) /\ delay_data[1] \in Item
        /\ Head(delay_data) = delay_data[1]
        /\ InOrderOfTime(delay_data) => InOrderOfTime(delay_data')
    BY <2>0, TailOfQueue
  <2>2. AtTyped'
    <3>1. Oldest.msg \in EncoderPlaces
      BY <2>0, <2>1 DEF Item, EncoderPlaces, StopPlaces
    <3> QED
      BY <1>0, <1>4, <3>1, GoesOn DEF PopPacket
  <2> QED
    BY <1>4, <2>0, <2>1, <2>2 DEF PopPacket, DelayShaped
<1>5. CASE ProcessPacket(e)
  <2>1. AtTyped'
    BY <1>0, <1>5, GoesOn DEF ProcessPacket, EncoderPlaces
  <2> QED
    BY <1>5, <2>1 DEF ProcessPacket, DelayShaped, past
<1>6. CASE ProcessStart(e)
  <2>1. AtTyped'
    BY <1>0, <1>6, GoesOn DEF ProcessStart, EncoderPlaces
  <2>2. output' \in OutputShape /\ stream' \in {stream, "connecting"}
    BY <1>6, StartShaped DEF ProcessStart, DelayShaped
  <2> QED
    BY <1>6, <2>1, <2>2 DEF ProcessStart, DelayShaped
<1> QED
  BY <1>1, <1>2, <1>3, <1>4, <1>5, <1>6 DEF EncoderStep

LEMMA StopShapedKept ==
  ASSUME DelayShaped, NEW x \in DelayThreads, StopStep(x)
  PROVE  DelayShaped'
<1>0. /\ AtTyped /\ output \in OutputShape
      /\ at[x] = "stop" => x # "net"
      /\ at[x] = "decide" => x # "net"
      /\ x = "user" \/ x = "net" => x \notin Encoders
  BY DEF DelayShaped, AtTyped, NetPlaces, Encoders
<1>b. Back(x) \in {"pop", "idle"} /\ (x = "user" \/ x = "net" => Back(x) = "idle")
  BY <1>0 DEF Back
<1>p. \A p \in {"detachAudio", "cleanup", "signal"} :
        p \in EncoderPlaces /\ p \in UserPlaces /\ p \in NetPlaces
  BY DEF EncoderPlaces, UserPlaces, NetPlaces, StopPlaces
<1>1. CASE Stop(x)
  <2>1. AtTyped'
    <3> DEFINE to == IF output.delay_active THEN "decide"
                     ELSE IF stream = "live" /\ output.active THEN "detachVideo"
                     ELSE "signal"
    <3>1. Goto(x, "stop", to)
      BY <1>1 DEF Stop
    <3>2. to \in EncoderPlaces /\ to \in UserPlaces
      BY DEF EncoderPlaces, UserPlaces, StopPlaces
    <3> HIDE DEF to
    <3>3. x # "net"
      BY <1>0, <3>1 DEF Goto
    <3> QED
      BY <1>0, <3>1, <3>2, <3>3, GoesOn
  <2>2. output' \in OutputShape
    <3> DEFINE c == CapturingAfterStop
    <3>1. output' = [output EXCEPT !.delay_capturing = c, !.reconnecting = FALSE,
                                   !.preserve = FALSE]
      BY <1>1 DEF Stop
    <3>2. c \in BOOLEAN
      BY <1>0, Zenon DEF CapturingAfterStop
    <3> HIDE DEF c
    <3> QED
      BY <1>0, <3>1, <3>2 DEF OutputShape
  <2> QED
    BY <1>1, <2>1, <2>2 DEF Stop, DelayShaped, past
<1>2. CASE Decide(x)
  <2>1. AtTyped'
    <3> DEFINE to == IF LastStop(x) THEN IF output.active THEN "detachVideo" ELSE "signal"
                     ELSE IF Forced(x) \/ ~output.delay_active THEN "signal" ELSE Back(x)
    <3>1. Goto(x, "decide", to)
      BY <1>2 DEF Decide
    <3>2. to \in {"detachVideo", "signal", Back(x)}
      OBVIOUS
    <3> HIDE DEF to
    <3>3. x # "net" /\ (x \in Encoders => to \in EncoderPlaces)
      BY <1>0, <1>b, <3>1, <3>2 DEF Goto, EncoderPlaces, StopPlaces
    <3>4. x = "user" => to \in UserPlaces
      BY <1>b, <3>2 DEF UserPlaces, StopPlaces
    <3> QED
      BY <1>0, <3>1, <3>3, <3>4, GoesOn
  <2>2. output' \in OutputShape
    <3> DEFINE a == output.delay_active /\ ~LastStop(x)
    <3>1. output' = [output EXCEPT !.delay_active = a]
      BY <1>2 DEF Decide
    <3>2. a \in BOOLEAN
      BY Zenon
    <3> HIDE DEF a
    <3> QED
      BY <1>0, <3>1, <3>2 DEF OutputShape
  <2> QED
    BY <1>2, <2>1, <2>2 DEF Decide, DelayShaped, past
<1>3. CASE DetachVideo(x)
  <2>1. AtTyped'
    BY <1>0, <1>p, <1>3, GoesOn DEF DetachVideo
  <2> QED
    BY <1>3, <2>1 DEF DetachVideo, Detach, DelayShaped, past
<1>4. CASE DetachAudio(x)
  <2>1. AtTyped'
    BY <1>0, <1>p, <1>4, GoesOn DEF DetachAudio
  <2> QED
    BY <1>4, <2>1 DEF DetachAudio, Detach, DelayShaped, past
<1>5. CASE Cleanup(x)
  <2>1. AtTyped'
    BY <1>0, <1>p, <1>5, GoesOn DEF Cleanup
  <2>2. output' \in OutputShape
    <3> DEFINE r == IF output.active_delay_ns > 0 THEN 0 ELSE output.delay_restart_refs
    <3>1. output' = [output EXCEPT !.active = FALSE, !.active_delay_ns = 0,
                                   !.delay_restart_refs = r]
      BY <1>5 DEF Cleanup
    <3>2. r \in Nat /\ 0 \in 0 .. MaxAge
      BY <1>0, DelayAssumption DEF OutputShape
    <3> HIDE DEF r
    <3> QED
      BY <1>0, <3>1, <3>2 DEF OutputShape
  <2>3. delay_data' \in Seq(Item) /\ InOrderOfTime(delay_data')
    BY <1>5, NoQueue DEF Cleanup, DelayShaped
  <2> QED
    BY <1>5, <2>1, <2>2, <2>3 DEF Cleanup, DelayShaped, past
<1>6. CASE SignalStop(x)
  <2>1. AtTyped'
    <3> DEFINE to == Back(x)
    <3>1. Goto(x, "signal", to) /\ to \in {"pop", "idle"}
      BY <1>b, <1>6 DEF SignalStop
    <3>2. x = "user" \/ x = "net" => to = "idle"
      BY <1>b
    <3> HIDE DEF to
    <3>3. (x \in Encoders => to \in EncoderPlaces) /\ (x = "user" => to \in UserPlaces)
          /\ (x = "net" => to \in NetPlaces)
      BY <3>1, <3>2 DEF EncoderPlaces, UserPlaces, NetPlaces
    <3> QED
      BY <1>0, <3>1, <3>3, GoesOn
  <2> QED
    BY <1>6, <2>1 DEF SignalStop, DelayShaped, past
<1> QED
  BY <1>1, <1>2, <1>3, <1>4, <1>5, <1>6 DEF StopStep

LEMMA LoseShaped ==
  ASSUME DelayShaped, Lose
  PROVE  DelayShaped'
<1>1. PICK preserve \in BOOLEAN :
        output' = [output EXCEPT !.delay_capturing = FALSE, !.reconnecting = TRUE,
                                 !.preserve = preserve]
  BY DEF Lose
<1>2. output' \in OutputShape
  BY <1>1 DEF OutputShape, DelayShaped
<1>3. stream' = "waiting" /\ UNCHANGED <<delay_data, attached, at, lag, asked>>
  BY DEF Lose, past
<1> QED
  BY <1>2, <1>3 DEF DelayShaped, AtTyped

LEMMA StreamShapedKept ==
  ASSUME DelayShaped, Attempt \/ Connected \/ ConnectFails \/ RetryLater \/ Lose
  PROVE  DelayShaped'
<1>0. output \in OutputShape
  BY DEF DelayShaped
<1>1. CASE Attempt
  <2>1. output' \in OutputShape /\ stream' \in {stream, "connecting"}
    BY <1>0, <1>1, StartShaped DEF Attempt
  <2> QED
    BY <1>1, <2>1 DEF Attempt, DelayShaped, AtTyped
<1>2. CASE Connected
  <2>1. output' \in OutputShape /\ attached' \subseteq Encoders
    BY <1>0, <1>2, HookShaped DEF Connected, DelayShaped, OutputShape
  <2> QED
    BY <1>2, <2>1 DEF Connected, DelayShaped, AtTyped, past
<1>3. CASE ConnectFails
  <2>1. output' \in OutputShape
    BY <1>0, <1>3 DEF ConnectFails, OutputShape
  <2>2. AtTyped'
    <3> DEFINE to == IF output.active THEN "detachVideo" ELSE "signal"
    <3>1. Goto("net", "idle", to) /\ to \in {"detachVideo", "signal"}
      BY <1>3 DEF ConnectFails, Goto
    <3> HIDE DEF to
    <3> QED
      BY <3>1, GoesOn DEF DelayThreads, Encoders, NetPlaces, DelayShaped
  <2> QED
    BY <1>3, <2>1, <2>2 DEF ConnectFails, DelayShaped, past
<1>4. CASE RetryLater
  <2>1. output' \in OutputShape
    BY <1>0, <1>4 DEF RetryLater, OutputShape
  <2> QED
    BY <1>4, <2>1 DEF RetryLater, DelayShaped, AtTyped, past
<1> QED
  BY <1>1, <1>2, <1>3, <1>4, LoseShaped

LEMMA UserShapedKept ==
  ASSUME DelayShaped, PressStart \/ PushStart \/ Begin \/ PressStop \/ StopNow
  PROVE  DelayShaped'
<1>0. /\ AtTyped /\ output \in OutputShape /\ "user" \in DelayThreads
      /\ "user" \notin Encoders
  BY DEF DelayShaped, DelayThreads, Encoders
<1>1. \A m \in {"start", "stop"} : Event(m) \in Item /\ Event(m).age = 0
  BY DelayAssumption DEF Event, Item
<1>2. CASE PressStart
  <2>1. AtTyped'
    BY <1>0, <1>2, GoesOn DEF PressStart, UserPlaces
  <2> QED
    BY <1>2, <2>1 DEF PressStart, DelayShaped
<1>3. CASE PushStart
  <2>1. AtTyped'
    BY <1>0, <1>3, GoesOn DEF PushStart, UserPlaces
  <2>2. delay_data' \in Seq(Item) /\ InOrderOfTime(delay_data')
    BY <1>1, <1>3, AppendedQueue DEF PushStart, DelayShaped
  <2> QED
    BY <1>3, <2>1, <2>2 DEF PushStart, DelayShaped
<1>4. CASE Begin
  <2>1. AtTyped'
    BY <1>0, <1>4, GoesOn DEF Begin, UserPlaces
  <2>2. /\ output' \in OutputShape /\ attached' \subseteq Encoders
        /\ delay_data' = delay_data \/ delay_data' = <<>>
    <3>1. CASE output.delay_active
      <4>1. output' = [output EXCEPT !.delay_restart_refs = @ + 1]
            /\ UNCHANGED <<delay_data, attached>>
        BY <1>4, <3>1 DEF Begin
      <4> QED
        BY <1>0, <4>1 DEF OutputShape, DelayShaped
    <3>2. CASE ~output.delay_active /\ ~output.active
      BY <1>0, <1>4, <3>2, HookShaped DEF Begin
    <3>3. CASE ~output.delay_active /\ output.active
      <4>1. /\ output' = [output EXCEPT !.active_delay_ns = 0, !.delay_restart_refs = 0]
            /\ delay_data' = <<>> /\ UNCHANGED attached /\ 0 \in 0 .. MaxAge
        BY <1>4, <3>3, DelayAssumption DEF Begin
      <4> QED
        BY <1>0, <4>1 DEF OutputShape, DelayShaped
    <3> QED
      BY <3>1, <3>2, <3>3
  <2>3. delay_data' \in Seq(Item) /\ InOrderOfTime(delay_data')
    BY <2>2, NoQueue DEF DelayShaped
  <2> QED
    BY <1>4, <2>1, <2>2, <2>3 DEF Begin, DelayShaped, past
<1>5. CASE PressStop
  <2>1. delay_data' \in Seq(Item) /\ InOrderOfTime(delay_data')
    BY <1>1, <1>5, AppendedQueue DEF PressStop, DelayShaped
  <2> QED
    BY <1>5, <2>1 DEF PressStop, DelayShaped, AtTyped
<1>6. CASE StopNow
  <2>1. AtTyped'
    BY <1>0, <1>6, GoesOn DEF StopNow, UserPlaces, StopPlaces
  <2> QED
    BY <1>6, <2>1 DEF StopNow, DelayShaped
<1> QED
  BY <1>2, <1>3, <1>4, <1>5, <1>6

LEMMA TickShapedKept ==
  ASSUME DelayShaped, Tick
  PROVE  DelayShaped'
<1>1. delay_data' \in Seq(Item) /\ InOrderOfTime(delay_data')
  BY AgedQueue DEF Tick, DelayShaped
<1>2. lag' \in [Encoders -> 0 .. MaxAge]
  <2>1. \A e \in Encoders :
          (IF at[e] = "idle" THEN 1 ELSE lag[e] + 1) \in 0 .. MaxAge
    BY DelayAssumption DEF Tick, DelayShaped
  <2> QED
    BY <2>1 DEF Tick
<1> QED
  BY <1>1, <1>2 DEF Tick, DelayShaped, AtTyped, past

LEMMA ShapedKept == DelayShaped /\ DelayNext => DelayShaped'
  BY EncoderShapedKept, StopShapedKept, StreamShapedKept, UserShapedKept,
     TickShapedKept DEF DelayNext

\* No step of any thread breaks the invariant.
LEMMA StepConsistent ==
  DelayConsistent /\ [DelayNext]_delayVars => DelayConsistent'
<1> SUFFICES ASSUME DelayConsistent, [DelayNext]_delayVars PROVE DelayConsistent'
  OBVIOUS
<1>1. CASE DelayNext
  <2>1. DelayShaped'
    BY <1>1, ShapedKept DEF DelayConsistent
  <2> SUFFICES ASSUME ~astray' PROVE Orderly'
    BY <2>1 DEF DelayConsistent
  <2>2. ~astray
    <3>1. \A e \in Encoders : EncoderStep(e) => (astray => astray')
      BY DEF EncoderStep, PushPacket, Preserve, NothingDue, PopPacket, ProcessPacket,
             ProcessStart, past
    <3>2. \A x \in DelayThreads : StopStep(x) => UNCHANGED astray
      BY DEF StopStep, Stop, Decide, DetachVideo, DetachAudio, Detach, Cleanup,
             SignalStop, past
    <3>3. Attempt \/ Connected \/ ConnectFails \/ RetryLater \/ Lose => UNCHANGED astray
      <4>1. Attempt \/ ConnectFails => UNCHANGED astray
        BY DEF Attempt, ConnectFails, past
      <4>2. Connected \/ RetryLater => UNCHANGED astray
        BY DEF Connected, RetryLater, past
      <4>3. Lose => UNCHANGED astray
        BY DEF Lose, past
      <4> QED
        BY <4>1, <4>2, <4>3
    <3>4. \/ PressStart \/ PushStart \/ Begin \/ PressStop \/ StopNow \/ Tick
          => UNCHANGED astray
      BY DEF PressStart, PushStart, Begin, PressStop, StopNow, Tick, past
    <3> QED
      BY <1>1, <3>1, <3>2, <3>3, <3>4 DEF DelayNext
  <2>a. DelayTyped /\ Calm
    BY <2>2 DEF DelayConsistent, Orderly
  <2>3. ASSUME NEW e \in Encoders, EncoderStep(e) PROVE Orderly'
    BY <2>2, <2>a, <2>3, PushPacketKept, PreserveKept, NothingDueKept,
       PopPacketKept, ProcessPacketKept, ProcessStartKept DEF EncoderStep
  <2>4. ASSUME NEW x \in DelayThreads, StopStep(x) PROVE Orderly'
    BY <2>2, <2>a, <2>4, StopKept, DecideKept, DetachVideoKept, DetachAudioKept,
       CleanupKept, SignalStopKept DEF StopStep
  <2>5. CASE Attempt \/ Connected \/ ConnectFails \/ RetryLater \/ Lose
    BY <2>2, <2>a, <2>5, AttemptKept, ConnectedKept, ConnectFailsKept,
       RetryLaterKept, LoseKept
  <2>6. CASE PressStart \/ PushStart \/ PressStop \/ StopNow
    BY <2>2, <2>a, <2>6, PressStartKept, PushStartKept, PressStopKept, StopNowKept
  <2>7. CASE Begin
    BY <2>2, <2>a, <2>7, BeginCountedKept, BeginHookKept, BeginFailsKept
  <2>8. CASE Tick
    BY <2>2, <2>a, <2>8, TickKept
  <2> QED
    BY <1>1, <2>3, <2>4, <2>5, <2>6, <2>7, <2>8 DEF DelayNext
<1>2. CASE UNCHANGED delayVars
  <2>1. /\ UNCHANGED <<delay_data, output, attached, stream, at, dd, lag>>
        /\ UNCHANGED <<button, force, asked, stolen, astray>>
    BY <1>2 DEF delayVars, past
  <2>2. DelayTyped' = DelayTyped /\ DelayShaped' = DelayShaped
    BY <2>1 DEF DelayTyped, DelayShaped, AtTyped, SentAsked
  <2>3. /\ \A x : Processing(x)' = Processing(x)
        /\ \A x : Finishing(x)' = Finishing(x) /\ Closing(x)' = Closing(x)
        /\ Underway' = Underway /\ Owed' = Owed
        /\ StartsWaiting' = StartsWaiting /\ EventsWaiting' = EventsWaiting
    BY <2>1 DEF Processing, Finishing, Closing, Underway, Owed, StartsWaiting,
      EventsWaiting, Queued, Popped, Uncounted
  <2>4. Calm => Calm'
    <3> SUFFICES ASSUME Calm PROVE Calm'
      OBVIOUS
    <3>1. Turns' /\ Closes'
      BY <2>1, <2>3 DEF Calm, Turns, Closes
    <3>2. Leftover' /\ Dense'
      BY <2>1, <2>3 DEF Calm, Leftover, Dense
    <3>3. Wanted' /\ Counted'
      BY <2>1, <2>3 DEF Calm, Wanted, Counted
    <3> QED
      BY <3>1, <3>2, <3>3 DEF Calm
  <2> QED
    BY <2>1, <2>2, <2>4 DEF DelayConsistent, Orderly
<1> QED
  BY <1>1, <1>2

\* The invariant holds for every delay, however long connections take and however
\* many starts and stops wait.
THEOREM DelayConsistency == DelaySpec => []DelayConsistent
  BY InitiallyConsistent, StepConsistent, PTL DEF DelaySpec

\* The queue is in the order of time, whatever is processed at once; and until that
\* happens no start has two references and nothing connects unless the delay is active.
THEOREM DelayTypeCorrect == DelaySpec => []DelayTypeOK
<1>1. DelayConsistent => DelayTypeOK
  <2> SUFFICES ASSUME DelayConsistent PROVE DelayTypeOK
    OBVIOUS
  <2>1. DelayShaped /\ (~astray => DelayTyped /\ Calm)
    BY DEF DelayConsistent, Orderly
  <2>2. \A i \in DOMAIN delay_data : \A j \in 1 .. i :
           delay_data[j].age >= delay_data[i].age
    <3>1. Len(delay_data) \in Nat /\ DOMAIN delay_data = 1 .. Len(delay_data)
      BY <2>1, LenProperties DEF DelayShaped
    <3> QED
      BY <2>1, <3>1 DEF DelayShaped, InOrderOfTime
  <2>3. ASSUME ~astray
        PROVE  /\ output.delay_restart_refs \in 0 .. MaxEvents + 1
               /\ output.delay_active =>
                    output.active /\ output.delay_restart_refs <= StartsWaiting + 1
               /\ stream = "connecting" => output.delay_active
    <3>1. stream = "connecting" => output.delay_active
      BY <2>1, <2>3 DEF Calm, Closes, Underway
    <3>2. output.delay_active => output.delay_restart_refs <= Owed
      BY <2>1, <2>3 DEF Calm, Counted
    <3>3. StartsWaiting \in Nat /\ Popped \in {0, 1} /\ Uncounted \in {0, 1}
      BY <2>1, <2>3, Counts DEF DelayTyped, Popped, Uncounted
    <3>4. output.delay_restart_refs \in 0 .. MaxEvents + 1
      BY <2>1, <2>3 DEF DelayTyped, OutputFields
    <3>5. ASSUME output.delay_active
          PROVE  output.delay_restart_refs <= StartsWaiting + 1
      <4> DEFINE s == StartsWaiting  p == Popped  u == Uncounted
                 r == output.delay_restart_refs
      <4>1. r <= s + p - u
        BY <3>2, <3>5 DEF Owed
      <4>2. s \in Nat /\ p \in {0, 1} /\ u \in {0, 1} /\ r \in Int
        BY <3>3, <3>4, DelayAssumption
      <4> HIDE DEF s, p, u, r
      <4>3. r <= s + 1
        BY <4>1, <4>2
      <4> QED
        BY <4>3 DEF r, s
    <3> QED
      BY <2>1, <2>3, <3>1, <3>4, <3>5 DEF DelayTyped
  <2> QED
    BY <2>1, <2>2, <2>3 DEF DelayTypeOK, DelayShaped, OutputShape
<1> QED
  BY <1>1, DelayConsistency, PTL

\* What leaves the queue of a delayed output is what the user asked for, and not before
\* the delay has passed.
THEOREM SentAsAskedHolds == DelaySpec => []SentAsAsked
<1>1. DelayConsistent => SentAsAsked
  <2>1. DelayConsistent => NothingUnasked
    BY DEF DelayConsistent, Orderly, DelayTyped, SentAsked, NothingUnasked, Delivers
  <2>2. DelayConsistent => DelayKept
    BY DEF DelayConsistent, Orderly, Calm, Dense, DelayKept, Delivers
  <2> QED
    BY <2>1, <2>2 DEF SentAsAsked
<1> QED
  BY <1>1, DelayConsistency, PTL

\* A stop ends the capture if and only if no start waits behind it, unless that start
\* is just being counted or another start has taken its reference.
THEOREM RestartKeptHolds == DelaySpec => []RestartKept
<1>1. DelayConsistent => RestartKept
  <2> SUFFICES ASSUME DelayConsistent, NEW x \in Encoders,
                      at[x] = "decide", output.delay_active,
                      ~astray, ~stolen, at["user"] # "begin"
               PROVE  LastStop(x) <=> StartsWaiting = 0
    BY DEF RestartKept
  <2>1. Popped = 0 /\ Uncounted = 0
    BY DEF DelayConsistent, Orderly, Calm, Turns, Processing, Popped, Uncounted,
           Encoders
  <2>2. StartsWaiting \in Nat
    BY Counts DEF DelayConsistent, Orderly, DelayTyped
  <2>3. output.delay_restart_refs = Owed
    BY DEF DelayConsistent, Orderly, Calm, Counted
  <2>4. output.delay_restart_refs = StartsWaiting
    <3> DEFINE s == StartsWaiting
    <3>1. output.delay_restart_refs = s + 0 - 0 /\ s \in Nat
      BY <2>1, <2>2, <2>3 DEF Owed
    <3> HIDE DEF s
    <3>2. output.delay_restart_refs = s
      BY <3>1
    <3> QED
      BY <3>2 DEF s
  <2> QED
    BY <2>4 DEF LastStop, Forced, Encoders
<1> QED
  BY <1>1, DelayConsistency, PTL
=============================================================================
