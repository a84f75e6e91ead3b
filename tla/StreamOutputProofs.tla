------------------------- MODULE StreamOutputProofs -------------------------
(***************************************************************************)
(* Proofs about StreamOutput, for any numbers of threads and attempts and  *)
(* any failures.  What they say of the threads holds until somebody acts   *)
(* in one of the moments for which the flags make no provision (races).    *)
(***************************************************************************)
EXTENDS StreamOutput, FilteringProofs, FiniteSetTheorems

-----------------------------------------------------------------------------
(* Where threads are.                                                      *)

\* A connect thread that connects, retries or is about to end.
Opening  == {"setStreaming", "beginCapture", "activate", "signalStart"}
Retrying == {"countRetry", "setReconnecting", "retry"}
Early    == {"initConnect", "joinSend", "awaitSend", "connect", "signalFailure"}
              \cup Retrying
Trying   == Early \cup Opening
Ending   == {"detach", "clearConnecting"}

\* A send thread after the loss of its connection.
Losing   == {"signalLost", "countRetrySend", "setReconnectingSend", "retrySend"}

\* A reconnect thread before it starts the stream, and after it.
Pausing  == {"enter", "wait", "restart"}
Leaving  == {"leave", "exit"}

ConnectPlaces   == Trying \cup Ending
SendPlaces      == {"send", "close", "resetStop", "clearStreaming"} \cup Losing
ReconnectPlaces == Pausing \cup Leaving
ThreadPlaces == {"ended"} \cup ConnectPlaces \cup SendPlaces
                          \cup ReconnectPlaces

UserPlaces == {"idle", "readReconnect", "joinReconnect", "awaitReconnect",
               "readStop", "joinConnect", "awaitConnect", "setStop",
               "endCapture", "signal"}

\* Where the thread of a handle is.
Place(h) == IF h = NoThread THEN "ended" ELSE pc[h]

Con == Place(stream.connect_thread)
Snd == Place(stream.send_thread)
Rcn == Place(output.reconnect_thread)

\* A thread that is about to end when its handle is already used for the next one.
SendLeft(t)      == t # stream.send_thread /\ pc[t] = "clearStreaming"
ReconnectLeft(t) == t # output.reconnect_thread /\ pc[t] \in Leaving
Left(t)          == SendLeft(t) \/ ReconnectLeft(t)

SendLeftBehind      == \E t \in Threads : SendLeft(t)
ReconnectLeftBehind == \E t \in Threads : ReconnectLeft(t)

-----------------------------------------------------------------------------
(* The inductive invariant.                                                *)

OutputType == [active : BOOLEAN, capturing : BOOLEAN, stopped : BOOLEAN,
               reconnecting : BOOLEAN, reconnect_retries : Nat,
               reconnect_stop_event : BOOLEAN,
               reconnect_thread : Threads \cup {NoThread},
               reconnect_thread_active : BOOLEAN]
StreamType == [connecting : BOOLEAN, active : BOOLEAN, stop_event : BOOLEAN,
               posted : BOOLEAN, connect_thread : Threads \cup {NoThread},
               send_thread : Threads \cup {NoThread}]

Typed ==
  /\ output \in OutputType
  /\ stream \in StreamType
  /\ pc \in [Threads -> ThreadPlaces]
  /\ user \in UserPlaces
  /\ button \in {"idle", "starting", "live"}
  /\ joinable \subseteq Threads
  /\ joining \in [Threads \cup {UI} -> Threads \cup {NoThread}]
  /\ bad_join \in BOOLEAN /\ lost \in BOOLEAN /\ undone \in BOOLEAN

\* A thread that has more to do than to end is the one of its handle; no two
\* handles are of one thread.
Handled ==
  /\ Con \in {"ended"} \cup ConnectPlaces
  /\ Snd \in {"ended"} \cup SendPlaces
  /\ Rcn \in {"ended"} \cup ReconnectPlaces
  /\ \A t \in Threads :
       /\ pc[t] \in ConnectPlaces => t = stream.connect_thread
       /\ pc[t] \in SendPlaces \ {"clearStreaming"} => t = stream.send_thread
       /\ pc[t] \in Pausing => t = output.reconnect_thread
  /\ \A t \in Threads :
       /\ t = stream.connect_thread => t # stream.send_thread
       /\ t = stream.connect_thread => t # output.reconnect_thread
       /\ t = stream.send_thread => t # output.reconnect_thread

\* Of the threads only a connect thread waits for another, the last send thread.
Joined ==
  \A t \in Threads : joining[t] # NoThread => /\ joining[t] = stream.send_thread
                                              /\ pc[t] = "awaitSend"

\* Never are two threads left behind.
OneLeft == \A t, u \in Threads : Left(t) /\ Left(u) => t = u

Placed == Handled /\ Joined /\ OneLeft

\* No thread is left behind where another could be.
LeftAlone ==
  /\ SendLeftBehind => /\ Snd = "send" /\ Rcn = "ended"
                       /\ ~stream.stop_event /\ user = "idle"
  /\ ReconnectLeftBehind => /\ Snd = "ended" /\ Rcn \in {"enter", "wait"}
                            /\ ~output.reconnect_stop_event

\* A connect thread has an attempt for itself: there is a reason for it, nobody
\* waits for another, and the last session is over or about to be.
Alone ==
  /\ Con \in Trying =>
       /\ Rcn \notin Pausing
       /\ output.reconnecting \/ button = "starting"
       /\ Rcn = "ended" \/ ~output.reconnect_stop_event
       /\ output.active => Con = "signalStart"
       /\ \/ Snd = "ended" \/ Con = "awaitSend"
          \/ stream.send_thread \in joinable
  /\ Con \in {"connect", "signalFailure"} => Snd \in {"ended", "clearStreaming"}
  /\ Con = "awaitSend" /\ joining[stream.connect_thread] # stream.send_thread
       => Snd = "ended"
  /\ Con = "ended" => ~stream.connecting

\* A stream that the user interface shows as starting is at its first attempt.
Starting ==
  /\ button = "starting" =>
       /\ user = "idle" /\ Rcn = "ended" /\ ~output.reconnecting
       /\ Con \in Trying \ Retrying
  /\ Con \in Early /\ stream.active => button = "starting"

\* A reconnect thread waits if the output reconnects, and no stop event waits
\* for it that was meant for another.
Waits ==
  /\ Rcn \in Pausing => output.reconnecting
  /\ Rcn \in Pausing /\ stream.active => Snd \in {"resetStop", "clearStreaming"}
  /\ Rcn = "restart" => ~output.reconnect_stop_event
  /\ Rcn = "restart" /\ user \in {"readReconnect", "joinReconnect", "endCapture",
                                  "signal"}
       => stream.stop_event
  /\ Rcn = "ended" => ~output.reconnect_thread_active
  /\ output.reconnect_stop_event => \/ Snd = "ended"
                                    \/ Rcn = "ended" /\ Snd # "retrySend"

\* The encoders deliver while the output is active, and then there is a send thread
\* to be joined, or one that is about to end the capture.
Captures ==
  /\ output.capturing <=> output.active \/ Con = "activate"
  /\ output.capturing => stream.send_thread \in joinable \/ Snd = "signalLost"
  /\ Snd \in {"send", "close", "signalLost"} =>
       \/ output.capturing \/ stream.stop_event
       \/ Con \in {"setStreaming", "beginCapture"}

\* A send thread that lost its connection is the only thread, and it is detached.
Losses ==
  /\ Snd \in Losing => /\ Con = "ended" /\ Rcn = "ended"
                       /\ stream.send_thread \notin joinable
  /\ Snd = "retrySend" => output.reconnecting
  /\ Snd \in {"close", "resetStop"} /\ Con # "ended" => stream.stop_event
  /\ Snd = "resetStop" /\ stream.send_thread \in joinable => stream.stop_event
  /\ Con \in {"setStreaming", "beginCapture"} /\ Snd = "send" /\ stream.posted
       => stream.stop_event
  /\ Snd = "close" /\ Rcn # "ended" => stream.stop_event
  /\ Snd \in {"send", "close"} => \/ stream.send_thread \in joinable
                                  \/ Con = "awaitSend"
  /\ Con \in Opening => stream.send_thread \in joinable

\* An output that reconnects has a thread that does so.
Reconnects ==
  output.reconnecting =>
    /\ stream.send_thread \in joinable => Con \in Opening
    /\ \/ Con \in Opening \/ Snd \in {"ended", "retrySend"}
       \/ Rcn \in {"enter", "wait"}
    /\ Con \in Ending => \/ Rcn \in {"enter", "wait"}
                         \/ Rcn = "leave" /\ output.reconnect_stop_event
    /\ Rcn \in {"ended", "exit"} => stream.connecting \/ Snd = "retrySend"
    /\ Rcn \in Leaving => output.stopped \/ stream.connecting
    /\ output.reconnect_stop_event => output.stopped

\* The last attempt is not passed.
Counted ==
  /\ output.reconnect_retries <= reconnect_retry_max
  /\ Con = "setReconnecting" \/ Snd = "setReconnectingSend"
       => output.reconnect_retries < reconnect_retry_max

\* A stream that the user interface shows is there: something goes on, or will.
Shows ==
  /\ button = "live" =>
       /\ Snd \in {"clearStreaming", "send", "close", "resetStop"} =>
            stream.send_thread \in joinable \/ Rcn \in {"enter", "wait"}
       /\ /\ user = "idle" /\ Con = "ended" /\ Rcn = "ended"
          /\ Snd \in {"ended", "send", "close"}
          => OutputActive
  /\ button # "idle" =>
       /\ user = "idle" /\ Con \in Ending =>
            stream.send_thread \in joinable \/ Rcn \in {"enter", "wait"}
       /\ Rcn # "ended" => \/ stream.send_thread \in joinable
                           \/ output.reconnecting \/ output.reconnect_stop_event
       /\ /\ user # "signal"
          /\ stream.send_thread \in joinable /\ ~output.capturing
          => Con \in {"initConnect", "joinSend", "connect", "setStreaming",
                      "beginCapture", "signalFailure"}

\* What an event that is signalled says of those it was signalled for.
Signalled ==
  /\ user \in {"endCapture", "signal"} =>
       /\ Snd \in {"ended", "clearStreaming"} \/ stream.stop_event
       /\ Con \in Early => stream.stop_event
  /\ stream.stop_event /\ user \notin {"endCapture", "signal"} =>
       /\ button # "idle" => Rcn = "ended" /\ ~output.reconnecting
       /\ button # "idle" \/ user # "idle" =>
            Snd \in {"ended", "send", "close", "resetStop"}
       /\ user # "idle" => output.reconnect_stop_event
  /\ user \in {"idle", "endCapture", "signal"} /\ output.reconnect_stop_event =>
       /\ Rcn # "ended" => stream.stop_event
       /\ output.reconnecting => stream.stop_event \/ Con \in Opening

\* Before a connection was lost only the user stops a stream, and what he joins is
\* there to be joined.
Unbroken ==
  /\ ~bad_join
  /\ ~lost =>
       /\ ~output.reconnecting /\ Snd \notin Losing
       /\ user \notin {"joinReconnect", "awaitReconnect", "joinConnect",
                       "awaitConnect"}
       /\ user # "idle" => Con = "ended"
       /\ user \notin {"idle", "signal"} => output.active
       /\ user = "signal" \/ button = "idle" => ~(stream.active /\ output.active)
       /\ button = "live" => Snd = "send" \/ user \in {"endCapture", "signal"}
       /\ Con \in Opening => Snd = "send"
       /\ Con = "joinSend" => stream.send_thread \in joinable
       /\ Snd \in {"close", "resetStop"} => stream.stop_event
       /\ stream.stop_event =>
            /\ Con \in {"ended", "initConnect", "joinSend", "awaitSend"}
            /\ output.active \/ Snd \in {"send", "close", "resetStop"}
            /\ button = "idle" \/ Snd \in {"send", "close", "resetStop"}
            /\ button # "live" \/ user \in {"endCapture", "signal"}

\* A stop goes on to hold unless it is undone.
Lasting ==
  /\ ~undone =>
       /\ button = "idle" => ~output.active /\ Con \notin Trying
       /\ output.stopped => output.reconnect_stop_event
       /\ user # "idle" => output.stopped
       /\ Rcn \in Pausing => stream.stop_event \/ button = "live"
       /\ Rcn # "ended" /\ stream.stop_event => output.reconnect_stop_event
       /\ Snd \in Losing => output.stopped \/ button = "live"
       /\ Con \in Trying => user \notin {"joinReconnect", "awaitReconnect",
                                         "setStop", "endCapture", "signal"}
       /\ output.active => user \notin {"joinReconnect", "awaitReconnect",
                                        "signal"}
  /\ user \in {"readReconnect", "joinReconnect"} => output.stopped
  /\ output.stopped =>
       /\ Rcn # "ended" => stream.send_thread \notin joinable
       /\ Rcn \in Leaving => output.reconnect_stop_event

\* The threads that the user waits for.
Awaited ==
  /\ user \notin {"awaitReconnect", "awaitConnect"} => joining[UI] = NoThread
  /\ user = "awaitConnect" /\ output.reconnect_stop_event
       => stream.connect_thread \notin joinable
  /\ Con \notin {"ended", "clearConnecting"}
       => stream.connect_thread \in joinable \cup {joining[UI]}
  /\ Snd \notin {"ended", "clearStreaming"} /\ stream.connect_thread \in joinable
       => stream.stop_event \/ Con \in Opening \cup {"detach"}

Agreed == /\ LeftAlone /\ Alone /\ Starting /\ Waits /\ Captures /\ Losses
          /\ Reconnects /\ Counted /\ Shows /\ Signalled /\ Unbroken
          /\ Lasting /\ Awaited

\* Flags, handles and places agree.
Sound == Typed /\ Placed /\ Agreed

\* An attempt to reconnect could not begin: only that reconnect thread is left, and
\* nobody will reset `reconnecting`.
GivenUp ==
  /\ output.reconnecting /\ ~output.active /\ ~output.capturing
  /\ output.reconnect_retries <= reconnect_retry_max
  /\ button # "starting" /\ lost /\ ~bad_join
  /\ \A t \in Threads :
       /\ joining[t] = NoThread
       /\ pc[t] # "ended" => pc[t] \in Leaving /\ t = output.reconnect_thread
       /\ pc[t] = "leave" => ~output.reconnect_stop_event

\* Until somebody acts in a moment for which the flags make no provision all agree,
\* or an attempt could not begin.
IInv ==
  /\ Typed
  /\ races \in 0 .. MaxRaces /\ abandoned \in BOOLEAN
  /\ races = 0 => \/ ~abandoned /\ Placed /\ Agreed
                  \/ abandoned /\ GivenUp

-----------------------------------------------------------------------------
(* What a step does to the places of the threads.                          *)

LEMMA NoThreadIsNone == NoThread \notin Threads /\ UI \notin Threads /\ UI = NoThread
BY StreamOutputAssumption DEF NoThread, UI

\* What Typed says of places and handles.
LEMMA PlacesTyped ==
  ASSUME Typed
  PROVE  /\ pc \in [Threads -> ThreadPlaces]
         /\ stream.connect_thread \in Threads \cup {NoThread}
         /\ stream.send_thread \in Threads \cup {NoThread}
         /\ output.reconnect_thread \in Threads \cup {NoThread}
BY DEF Typed, OutputType, StreamType

HandlesKept ==
  /\ stream'.connect_thread = stream.connect_thread
  /\ stream'.send_thread = stream.send_thread
  /\ output'.reconnect_thread = output.reconnect_thread

LeftBefore ==
  /\ SendLeftBehind' => SendLeftBehind
  /\ ReconnectLeftBehind' => ReconnectLeftBehind

JoinsKept == \A u \in Threads : joining'[u] = joining[u]

\* A place says whose thread it is of.
LEMMA PlacesApart ==
  ASSUME NEW p
  PROVE  /\ p \in ConnectPlaces => p \notin SendPlaces \cup ReconnectPlaces
                                                   \cup {"ended"}
         /\ p \in SendPlaces => p \notin ReconnectPlaces \cup {"ended"}
         /\ p \in ReconnectPlaces => p # "ended"
         /\ p \in Trying => p \in ConnectPlaces
         /\ p \in Pausing => p \in ReconnectPlaces /\ p \notin Leaving
         /\ p \in Leaving => p \in ReconnectPlaces
BY DEF ConnectPlaces, SendPlaces, ReconnectPlaces, Trying, Early, Retrying, Opening,
       Ending, Losing, Pausing, Leaving

\* Of the threads only t may begin or end to wait, and it does so for the send thread.
JoinsBut(t) ==
  /\ \A u \in Threads \ {t} : joining'[u] = joining[u]
  /\ joining'[t] # NoThread => /\ joining'[t] = stream.send_thread
                               /\ pc'[t] = "awaitSend"

\* A connect thread goes on; it may begin to wait for the send thread, or end that.
LEMMA ConnectMoves ==
  ASSUME Typed, Placed, NEW t \in Threads, NEW b \in ConnectPlaces \cup {"ended"},
         pc[t] \in ConnectPlaces, pc' = [pc EXCEPT ![t] = b], HandlesKept,
         JoinsBut(t)
  PROVE  /\ t = stream.connect_thread /\ Con = pc[t]
         /\ Con' = b /\ Snd' = Snd /\ Rcn' = Rcn
         /\ LeftBefore
         /\ Placed'
<1>1. t = stream.connect_thread /\ t # NoThread
  BY NoThreadIsNone DEF Placed, Handled
<1>2. t # stream.send_thread /\ t # output.reconnect_thread
  BY <1>1 DEF Placed, Handled
<1>3. pc'[t] = b /\ \A u \in Threads \ {t} : pc'[u] = pc[u]
  BY PlacesTyped
<1>4. Con = pc[t] /\ Con' = b /\ Snd' = Snd /\ Rcn' = Rcn
  BY <1>1, <1>2, <1>3, PlacesTyped DEF Con, Snd, Rcn, Place, HandlesKept
<1>5. \A u \in Threads : /\ SendLeft(u)' => SendLeft(u)
                         /\ ReconnectLeft(u)' => ReconnectLeft(u)
  BY <1>3, PlacesApart DEF SendLeft, ReconnectLeft, HandlesKept, SendPlaces
<1>6. Handled'
  BY <1>1, <1>3, <1>4, PlacesApart DEF Placed, Handled, HandlesKept
<1>7. Joined'
  BY <1>1, <1>3
     DEF Placed, Joined, HandlesKept, JoinsBut, Handled, ConnectPlaces, Trying, Early
<1>8. OneLeft'
  BY <1>5 DEF Placed, OneLeft, Left
<1> QED
  BY <1>1, <1>4, <1>5, <1>6, <1>7, <1>8
     DEF Placed, LeftBefore, SendLeftBehind, ReconnectLeftBehind

\* A send thread goes on.
LEMMA SendMoves ==
  ASSUME Typed, Placed, NEW t \in Threads, NEW b \in SendPlaces,
         pc[t] \in SendPlaces \ {"clearStreaming"}, pc' = [pc EXCEPT ![t] = b],
         HandlesKept, JoinsKept
  PROVE  /\ t = stream.send_thread /\ Snd = pc[t]
         /\ Con' = Con /\ Snd' = b /\ Rcn' = Rcn
         /\ LeftBefore
         /\ Placed'
<1>1. t = stream.send_thread /\ t # NoThread
  BY NoThreadIsNone DEF Placed, Handled
<1>2. t # stream.connect_thread /\ t # output.reconnect_thread
  BY <1>1 DEF Placed, Handled
<1>3. pc'[t] = b /\ \A u \in Threads \ {t} : pc'[u] = pc[u]
  BY PlacesTyped
<1>4. Snd = pc[t] /\ Con' = Con /\ Snd' = b /\ Rcn' = Rcn
  BY <1>1, <1>2, <1>3, PlacesTyped DEF Con, Snd, Rcn, Place, HandlesKept
<1>5. \A u \in Threads : /\ SendLeft(u)' => SendLeft(u)
                         /\ ReconnectLeft(u)' => ReconnectLeft(u)
  BY <1>1, <1>3, PlacesApart DEF SendLeft, ReconnectLeft, HandlesKept
<1>6. Handled'
  BY <1>1, <1>3, <1>4, PlacesApart DEF Placed, Handled, HandlesKept
<1>7. Joined'
  <2>1. pc[t] # "awaitSend"
    BY PlacesApart DEF ConnectPlaces, Trying, Early
  <2> QED
    BY <1>3, <2>1 DEF Placed, Joined, HandlesKept, JoinsKept
<1>8. OneLeft'
  BY <1>5 DEF Placed, OneLeft, Left
<1> QED
  BY <1>1, <1>4, <1>5, <1>6, <1>7, <1>8
     DEF Placed, LeftBefore, SendLeftBehind, ReconnectLeftBehind

\* A reconnect thread goes on.
LEMMA ReconnectMoves ==
  ASSUME Typed, Placed, NEW t \in Threads, NEW b \in ReconnectPlaces,
         pc[t] \in Pausing, pc' = [pc EXCEPT ![t] = b], HandlesKept, JoinsKept
  PROVE  /\ t = output.reconnect_thread /\ Rcn = pc[t]
         /\ Con' = Con /\ Snd' = Snd /\ Rcn' = b
         /\ LeftBefore
         /\ Placed'
<1>1. t = output.reconnect_thread /\ t # NoThread
  BY NoThreadIsNone DEF Placed, Handled
<1>2. t # stream.connect_thread /\ t # stream.send_thread
  BY <1>1 DEF Placed, Handled
<1>3. pc'[t] = b /\ \A u \in Threads \ {t} : pc'[u] = pc[u]
  BY PlacesTyped
<1>4. Rcn = pc[t] /\ Con' = Con /\ Snd' = Snd /\ Rcn' = b
  BY <1>1, <1>2, <1>3, PlacesTyped DEF Con, Snd, Rcn, Place, HandlesKept
<1>5. \A u \in Threads : /\ SendLeft(u)' => SendLeft(u)
                         /\ ReconnectLeft(u)' => ReconnectLeft(u)
  BY <1>1, <1>3, PlacesApart DEF SendLeft, ReconnectLeft, HandlesKept, SendPlaces
<1>6. Handled'
  BY <1>1, <1>3, <1>4, PlacesApart DEF Placed, Handled, HandlesKept
<1>7. Joined'
  <2>1. pc[t] # "awaitSend"
    BY PlacesApart DEF ConnectPlaces, Trying, Early
  <2> QED
    BY <1>3, <2>1 DEF Placed, Joined, HandlesKept, JoinsKept
<1>8. OneLeft'
  BY <1>5 DEF Placed, OneLeft, Left
<1> QED
  BY <1>1, <1>4, <1>5, <1>6, <1>7, <1>8
     DEF Placed, LeftBefore, SendLeftBehind, ReconnectLeftBehind

\* A send thread ends, the one of the handle or one that was left behind.
LEMMA SendEnds ==
  ASSUME Typed, Placed, NEW t \in Threads,
         pc[t] = "clearStreaming", pc' = [pc EXCEPT ![t] = "ended"],
         HandlesKept, JoinsKept
  PROVE  /\ Con' = Con /\ Rcn' = Rcn
         /\ \/ Snd' = Snd
            \/ Snd = "clearStreaming" /\ Snd' = "ended"
         /\ LeftBefore
         /\ Placed'
<1>1. pc[t] \in SendPlaces /\ t # NoThread
  BY NoThreadIsNone DEF SendPlaces
<1>2. t # stream.connect_thread /\ t # output.reconnect_thread
  BY <1>1, PlacesApart DEF Placed, Handled, Con, Rcn, Place
<1>3. pc'[t] = "ended" /\ \A u \in Threads \ {t} : pc'[u] = pc[u]
  BY PlacesTyped
<1>4. /\ Con' = Con /\ Rcn' = Rcn
      /\ \/ Snd' = Snd
         \/ Snd = "clearStreaming" /\ Snd' = "ended"
  BY <1>1, <1>2, <1>3, PlacesTyped DEF Con, Snd, Rcn, Place, HandlesKept
<1>5. \A u \in Threads : /\ SendLeft(u)' => SendLeft(u)
                         /\ ReconnectLeft(u)' => ReconnectLeft(u)
  BY <1>3, PlacesApart DEF SendLeft, ReconnectLeft, HandlesKept
<1>6. Handled'
  BY <1>3, <1>4, PlacesApart DEF Placed, Handled, HandlesKept
<1>7. Joined'
  BY <1>3 DEF Placed, Joined, HandlesKept, JoinsKept
<1>8. OneLeft'
  BY <1>5 DEF Placed, OneLeft, Left
<1> QED
  BY <1>4, <1>5, <1>6, <1>7, <1>8
     DEF Placed, LeftBefore, SendLeftBehind, ReconnectLeftBehind

\* A reconnect thread leaves, the one of the handle or one that was left behind.
LEMMA ReconnectLeaves ==
  ASSUME Typed, Placed, NEW t \in Threads, NEW b \in {"exit", "ended"},
         pc[t] \in Leaving, pc' = [pc EXCEPT ![t] = b], HandlesKept, JoinsKept
  PROVE  /\ Con' = Con /\ Snd' = Snd
         /\ \/ Rcn' = Rcn /\ ReconnectLeftBehind
            \/ Rcn = pc[t] /\ Rcn' = b
         /\ LeftBefore
         /\ Placed'
<1>1. pc[t] \in ReconnectPlaces /\ t # NoThread
  BY NoThreadIsNone, PlacesApart
<1>2. t # stream.connect_thread /\ t # stream.send_thread
  BY <1>1, PlacesApart DEF Placed, Handled, Con, Snd, Place
<1>3. pc'[t] = b /\ \A u \in Threads \ {t} : pc'[u] = pc[u]
  BY PlacesTyped
<1>4. /\ Con' = Con /\ Snd' = Snd
      /\ \/ Rcn' = Rcn /\ ReconnectLeftBehind
         \/ Rcn = pc[t] /\ Rcn' = b
  BY <1>1, <1>2, <1>3, PlacesTyped
     DEF Con, Snd, Rcn, Place, HandlesKept, ReconnectLeftBehind, ReconnectLeft
<1>5. \A u \in Threads : /\ SendLeft(u)' => SendLeft(u)
                         /\ ReconnectLeft(u)' => ReconnectLeft(u)
  BY <1>3, PlacesApart DEF SendLeft, ReconnectLeft, HandlesKept
<1>6. Handled'
  <2>1. b \in {"ended"} \cup ReconnectPlaces
    BY DEF ReconnectPlaces, Leaving
  <2>2. b \notin ConnectPlaces \cup SendPlaces \cup Pausing
    BY <2>1, PlacesApart DEF Pausing
  <2> QED
    BY <1>3, <1>4, <2>1, <2>2 DEF Placed, Handled, HandlesKept
<1>7. Joined'
  BY <1>3 DEF Placed, Joined, HandlesKept, JoinsKept, Leaving
<1>8. OneLeft'
  BY <1>5 DEF Placed, OneLeft, Left
<1> QED
  BY <1>4, <1>5, <1>6, <1>7, <1>8
     DEF Placed, LeftBefore, SendLeftBehind, ReconnectLeftBehind

\* No thread goes on but the user interface.
LEMMA UserMoves ==
  ASSUME Placed, pc' = pc, HandlesKept, JoinsKept
  PROVE  /\ Con' = Con /\ Snd' = Snd /\ Rcn' = Rcn
         /\ LeftBefore
         /\ Placed'
<1>1. Con' = Con /\ Snd' = Snd /\ Rcn' = Rcn
  BY DEF Con, Snd, Rcn, Place, HandlesKept
<1>2. \A u \in Threads : /\ SendLeft(u)' => SendLeft(u)
                         /\ ReconnectLeft(u)' => ReconnectLeft(u)
  BY DEF SendLeft, ReconnectLeft, HandlesKept
<1>3. Handled'
  BY <1>1 DEF Placed, Handled, HandlesKept
<1>4. Joined'
  BY DEF Placed, Joined, HandlesKept, JoinsKept
<1>5. OneLeft'
  BY <1>2 DEF Placed, OneLeft, Left
<1> QED
  BY <1>1, <1>2, <1>3, <1>4, <1>5
     DEF Placed, LeftBefore, SendLeftBehind, ReconnectLeftBehind

-----------------------------------------------------------------------------
(* What the creation of a thread does to them.                             *)

IsNew(n) == /\ n \in Threads \ Handles
            /\ \A u \in Threads \cup {UI} : joining[u] # n
            /\ pc[n] = "ended"

\* pthread_create finds a thread that nobody refers to, if there is one.
LEMMA NewIsNew ==
  ASSUME Typed, Free # {}
  PROVE  New \in Free /\ IsNew(New)
<1>1. Free \subseteq Nat
  BY StreamOutputAssumption DEF Free
<1>2. \E n \in Free : \A m \in Free : n <= m
  BY <1>1, LeastNumber
<1>3. New \in Free
  BY <1>2 DEF New, Min
<1>4. DOMAIN joining = Threads \cup {UI}
  BY DEF Typed, OutputType, StreamType
<1> QED
  BY <1>3, <1>4 DEF Free, IsNew, Range

\* The user interface creates a connect thread.
LEMMA ConnectBegins ==
  ASSUME Typed, Placed, Con = "ended", NEW n, IsNew(n),
         pc' = [pc EXCEPT ![n] = "initConnect"], stream'.connect_thread = n,
         stream'.send_thread = stream.send_thread,
         output'.reconnect_thread = output.reconnect_thread, JoinsKept
  PROVE  /\ Con' = "initConnect" /\ Snd' = Snd /\ Rcn' = Rcn
         /\ LeftBefore
         /\ Placed'
<1>1. n \in Threads /\ n # NoThread /\ n \notin Handles
  BY NoThreadIsNone DEF IsNew
<1>2. pc'[n] = "initConnect" /\ \A u \in Threads \ {n} : pc'[u] = pc[u]
  BY <1>1, PlacesTyped
<1>3. Con' = "initConnect" /\ Snd' = Snd /\ Rcn' = Rcn
  BY <1>1, <1>2, PlacesTyped DEF Con, Snd, Rcn, Place, Handles
<1>4. "initConnect" \in ConnectPlaces
  BY DEF ConnectPlaces, Trying, Early
<1>5. \A u \in Threads : /\ SendLeft(u)' => SendLeft(u)
                         /\ ReconnectLeft(u)' => ReconnectLeft(u)
  BY <1>2, <1>4, PlacesApart DEF SendLeft, ReconnectLeft, SendPlaces
<1>6. Handled'
  <2>1. \A t \in Threads : pc[t] \notin ConnectPlaces
    BY NoThreadIsNone, PlacesApart DEF Placed, Handled, Con, Place
  <2>2. /\ Con' \in {"ended"} \cup ConnectPlaces
        /\ Snd' \in {"ended"} \cup SendPlaces
        /\ Rcn' \in {"ended"} \cup ReconnectPlaces
    BY <1>3, <1>4 DEF Placed, Handled
  <2>3. \A t \in Threads :
          /\ pc'[t] \in ConnectPlaces => t = stream'.connect_thread
          /\ pc'[t] \in SendPlaces \ {"clearStreaming"} => t = stream'.send_thread
          /\ pc'[t] \in Pausing => t = output'.reconnect_thread
    BY <1>2, <1>4, <2>1, PlacesApart DEF Placed, Handled
  <2>4. \A t \in Threads :
          /\ t = stream'.connect_thread => t # stream'.send_thread
          /\ t = stream'.connect_thread => t # output'.reconnect_thread
          /\ t = stream'.send_thread => t # output'.reconnect_thread
    BY <1>1 DEF Placed, Handled, Handles
  <2> QED
    BY <2>2, <2>3, <2>4 DEF Handled
<1>7. Joined'
  BY <1>2 DEF Placed, Joined, JoinsKept, IsNew
<1>8. OneLeft'
  BY <1>5 DEF Placed, OneLeft, Left
<1> QED
  BY <1>3, <1>5, <1>6, <1>7, <1>8
     DEF Placed, LeftBefore, SendLeftBehind, ReconnectLeftBehind

\* A reconnect thread creates a connect thread and leaves.
LEMMA ConnectBeginsAgain ==
  ASSUME Typed, Placed, Con = "ended", NEW t \in Threads, pc[t] = "restart",
         NEW n, IsNew(n), pc' = [pc EXCEPT ![t] = "leave", ![n] = "initConnect"],
         stream'.connect_thread = n,
         stream'.send_thread = stream.send_thread,
         output'.reconnect_thread = output.reconnect_thread, JoinsKept
  PROVE  /\ t = output.reconnect_thread /\ Rcn = "restart"
         /\ Con' = "initConnect" /\ Snd' = Snd /\ Rcn' = "leave"
         /\ LeftBefore
         /\ Placed'
<1>1. n \in Threads /\ n # NoThread /\ n \notin Handles /\ n # t
  BY NoThreadIsNone DEF IsNew
<1>2. t = output.reconnect_thread /\ t # NoThread
  BY NoThreadIsNone DEF Placed, Handled, Pausing
<1>3. t # stream.connect_thread /\ t # stream.send_thread
  BY <1>2 DEF Placed, Handled
<1>4. /\ pc'[n] = "initConnect" /\ pc'[t] = "leave"
      /\ \A u \in Threads \ {n, t} : pc'[u] = pc[u]
  BY <1>1, PlacesTyped
<1>5. Rcn = "restart" /\ Con' = "initConnect" /\ Snd' = Snd /\ Rcn' = "leave"
  BY <1>1, <1>2, <1>3, <1>4, PlacesTyped DEF Con, Snd, Rcn, Place, Handles
<1>6. /\ "initConnect" \in ConnectPlaces /\ "leave" \in ReconnectPlaces
      /\ "initConnect" \notin SendPlaces \cup Pausing
      /\ "leave" \notin ConnectPlaces \cup SendPlaces \cup Pausing
  <2>1. "initConnect" \in ConnectPlaces /\ "leave" \in Leaving
    BY DEF ConnectPlaces, Trying, Early, Leaving
  <2> QED
    BY <2>1, PlacesApart
<1>7. \A u \in Threads : /\ SendLeft(u)' => SendLeft(u)
                         /\ ReconnectLeft(u)' => ReconnectLeft(u)
  BY <1>2, <1>4, <1>6, PlacesApart DEF SendLeft, ReconnectLeft, SendPlaces
<1>8. Handled'
  <2>1. \A u \in Threads : pc[u] \notin ConnectPlaces
    BY NoThreadIsNone, PlacesApart DEF Placed, Handled, Con, Place
  <2>2. /\ Con' \in {"ended"} \cup ConnectPlaces
        /\ Snd' \in {"ended"} \cup SendPlaces
        /\ Rcn' \in {"ended"} \cup ReconnectPlaces
    BY <1>5, <1>6 DEF Placed, Handled
  <2>3. \A u \in Threads :
          /\ pc'[u] \in ConnectPlaces => u = stream'.connect_thread
          /\ pc'[u] \in SendPlaces \ {"clearStreaming"} => u = stream'.send_thread
          /\ pc'[u] \in Pausing => u = output'.reconnect_thread
    <3>1. TAKE u \in Threads
    <3>2. CASE u \in {n, t}
      BY <1>4, <1>6, <3>2
    <3>3. CASE u \notin {n, t}
      BY <1>4, <2>1, <3>3, PlacesApart DEF Placed, Handled
    <3> QED
      BY <3>2, <3>3
  <2>4. \A u \in Threads :
          /\ u = stream'.connect_thread => u # stream'.send_thread
          /\ u = stream'.connect_thread => u # output'.reconnect_thread
          /\ u = stream'.send_thread => u # output'.reconnect_thread
    BY <1>1 DEF Placed, Handled, Handles
  <2> QED
    BY <2>2, <2>3, <2>4 DEF Handled
<1>9. Joined'
  BY <1>1, <1>4 DEF Placed, Joined, JoinsKept, IsNew
<1>10. OneLeft'
  BY <1>7 DEF Placed, OneLeft, Left
<1> QED
  BY <1>2, <1>5, <1>7, <1>8, <1>9, <1>10
     DEF Placed, LeftBefore, SendLeftBehind, ReconnectLeftBehind

\* A connect thread creates a send thread; the last one is left behind if it has not
\* ended.
LEMMA SendBegins ==
  ASSUME Typed, Placed, NEW t \in Threads, pc[t] = "connect",
         Snd \in {"ended", "clearStreaming"},
         Snd = "ended" \/ ~(SendLeftBehind \/ ReconnectLeftBehind),
         NEW n, IsNew(n), pc' = [pc EXCEPT ![t] = "setStreaming", ![n] = "send"],
         stream'.connect_thread = stream.connect_thread,
         stream'.send_thread = n,
         output'.reconnect_thread = output.reconnect_thread, JoinsKept
  PROVE  /\ t = stream.connect_thread /\ Con = "connect"
         /\ Con' = "setStreaming" /\ Snd' = "send" /\ Rcn' = Rcn
         /\ SendLeftBehind' => SendLeftBehind \/ Snd = "clearStreaming"
         /\ ReconnectLeftBehind' => ReconnectLeftBehind
         /\ Placed'
<1>1. n \in Threads /\ n # NoThread /\ n \notin Handles /\ n # t
  BY NoThreadIsNone DEF IsNew
<1>2. /\ "connect" \in ConnectPlaces /\ "setStreaming" \in ConnectPlaces
      /\ "send" \in SendPlaces
      /\ "setStreaming" \notin SendPlaces \cup Pausing
      /\ "send" \notin ConnectPlaces \cup Pausing
  <2>1. /\ "connect" \in ConnectPlaces /\ "setStreaming" \in ConnectPlaces
        /\ "send" \in SendPlaces
    BY DEF ConnectPlaces, Trying, Early, Opening, SendPlaces
  <2> QED
    BY <2>1, PlacesApart
<1>3. t = stream.connect_thread /\ t # NoThread
  BY <1>2, NoThreadIsNone DEF Placed, Handled
<1>4. t # output.reconnect_thread /\ t # stream.send_thread
  BY <1>3 DEF Placed, Handled
<1>5. /\ pc'[n] = "send" /\ pc'[t] = "setStreaming"
      /\ \A u \in Threads \ {n, t} : pc'[u] = pc[u]
  BY <1>1, PlacesTyped
<1>6. Con = "connect" /\ Con' = "setStreaming" /\ Snd' = "send" /\ Rcn' = Rcn
  BY <1>1, <1>3, <1>4, <1>5, PlacesTyped DEF Con, Snd, Rcn, Place, Handles
<1>7. /\ \A u \in Threads : SendLeft(u)' =>
             SendLeft(u) \/ (u = stream.send_thread /\ Snd = "clearStreaming")
      /\ \A u \in Threads : ReconnectLeft(u)' => ReconnectLeft(u)
  BY <1>2, <1>5, PlacesApart, NoThreadIsNone
     DEF SendLeft, ReconnectLeft, SendPlaces, Snd, Place
<1>8. Handled'
  <2>1. \A u \in Threads : pc[u] \notin SendPlaces \ {"clearStreaming"}
    BY NoThreadIsNone, PlacesApart DEF Placed, Handled, Snd, Place
  <2>2. /\ Con' \in {"ended"} \cup ConnectPlaces
        /\ Snd' \in {"ended"} \cup SendPlaces
        /\ Rcn' \in {"ended"} \cup ReconnectPlaces
    BY <1>2, <1>6 DEF Placed, Handled
  <2>3. \A u \in Threads :
          /\ pc'[u] \in ConnectPlaces => u = stream'.connect_thread
          /\ pc'[u] \in SendPlaces \ {"clearStreaming"} => u = stream'.send_thread
          /\ pc'[u] \in Pausing => u = output'.reconnect_thread
    <3>1. TAKE u \in Threads
    <3>2. CASE u \in {n, t}
      BY <1>2, <1>3, <1>5, <3>2
    <3>3. CASE u \notin {n, t}
      BY <1>5, <2>1, <3>3, PlacesApart DEF Placed, Handled
    <3> QED
      BY <3>2, <3>3
  <2>4. \A u \in Threads :
          /\ u = stream'.connect_thread => u # stream'.send_thread
          /\ u = stream'.connect_thread => u # output'.reconnect_thread
          /\ u = stream'.send_thread => u # output'.reconnect_thread
    BY <1>1 DEF Placed, Handled, Handles
  <2> QED
    BY <2>2, <2>3, <2>4 DEF Handled
<1>9. Joined'
  <2>1. \A u \in Threads : joining[u] = NoThread
    <3>1. SUFFICES ASSUME NEW u \in Threads, joining[u] # NoThread PROVE FALSE
      OBVIOUS
    <3>2. pc[u] = "awaitSend"
      BY <3>1 DEF Placed, Joined
    <3>3. u = t
      BY <1>3, <3>2 DEF Placed, Handled, ConnectPlaces, Trying, Early
    <3> QED
      BY <3>2, <3>3
  <2> QED
    BY <2>1 DEF Joined, JoinsKept
<1>10. OneLeft'
  <2>1. CASE Snd = "ended"
    BY <1>7, <2>1 DEF Placed, OneLeft, Left
  <2>2. CASE ~(SendLeftBehind \/ ReconnectLeftBehind)
    BY <1>7, <2>2 DEF OneLeft, Left, SendLeftBehind, ReconnectLeftBehind
  <2> QED
    BY <2>1, <2>2
<1> QED
  BY <1>3, <1>6, <1>7, <1>8, <1>9, <1>10
     DEF Placed, LeftBefore, SendLeftBehind, ReconnectLeftBehind

\* A connect thread or a send thread creates a reconnect thread; the last one is left
\* behind if it has not ended.
LEMMA ReconnectBegins ==
  ASSUME Typed, Placed, NEW t \in Threads,
         Rcn \in {"ended"} \cup Leaving,
         Rcn = "ended" \/ ~(SendLeftBehind \/ ReconnectLeftBehind),
         NEW a, NEW b, pc[t] = a,
         \/ a \in ConnectPlaces \ {"awaitSend"} /\ b \in ConnectPlaces
         \/ a \in SendPlaces \ {"clearStreaming"} /\ b \in SendPlaces,
         NEW n, IsNew(n), pc' = [pc EXCEPT ![t] = b, ![n] = "enter"],
         stream'.connect_thread = stream.connect_thread,
         stream'.send_thread = stream.send_thread,
         output'.reconnect_thread = n, JoinsKept
  PROVE  /\ Rcn' = "enter"
         /\ a \in ConnectPlaces => /\ t = stream.connect_thread /\ Con = a
                                   /\ Con' = b /\ Snd' = Snd
         /\ a \in SendPlaces => /\ t = stream.send_thread /\ Snd = a
                                /\ Con' = Con /\ Snd' = b
         /\ SendLeftBehind' => SendLeftBehind
         /\ ReconnectLeftBehind' => ReconnectLeftBehind \/ Rcn \in Leaving
         /\ Placed'
<1>1. n \in Threads /\ n # NoThread /\ n \notin Handles
  BY NoThreadIsNone DEF IsNew
<1>2. a # "ended" /\ n # t
  BY PlacesApart DEF IsNew
<1>3. "enter" \in Pausing /\ "enter" \in ReconnectPlaces
      /\ "enter" \notin ConnectPlaces \cup SendPlaces \cup Leaving
  <2>1. "enter" \in Pausing
    BY DEF Pausing
  <2> QED
    BY <2>1, PlacesApart
<1>4. /\ pc'[n] = "enter" /\ pc'[t] = b
      /\ \A u \in Threads \ {n, t} : pc'[u] = pc[u]
  BY <1>1, <1>2, PlacesTyped
<1>5. /\ a \in ConnectPlaces => t = stream.connect_thread
      /\ a \in SendPlaces => t = stream.send_thread
      /\ t \in Handles /\ t # NoThread
  BY NoThreadIsNone, PlacesApart DEF Placed, Handled, Handles
<1>6. t # output.reconnect_thread
  BY <1>5, PlacesApart DEF Placed, Handled
<1>7. /\ Rcn' = "enter"
      /\ a \in ConnectPlaces => Con = a /\ Con' = b /\ Snd' = Snd
      /\ a \in SendPlaces => Snd = a /\ Con' = Con /\ Snd' = b
  <2>1. Rcn' = "enter"
    BY <1>1, <1>4 DEF Rcn, Place
  <2>2. CASE a \in ConnectPlaces
    <3>1. t = stream.connect_thread /\ t # stream.send_thread
      BY <1>5, <2>2 DEF Placed, Handled
    <3>2. Con = a /\ Con' = b /\ Snd' = Snd
      BY <1>1, <1>4, <1>5, <3>1, PlacesTyped DEF Con, Snd, Place, Handles
    <3> QED
      BY <2>1, <2>2, <3>2, PlacesApart
  <2>3. CASE a \in SendPlaces
    <3>1. t = stream.send_thread /\ t # stream.connect_thread
      BY <1>5, <2>3 DEF Placed, Handled
    <3>2. Snd = a /\ Con' = Con /\ Snd' = b
      BY <1>1, <1>4, <1>5, <3>1, PlacesTyped DEF Con, Snd, Place, Handles
    <3> QED
      BY <2>1, <2>3, <3>2, PlacesApart
  <2> QED
    BY <2>2, <2>3
<1>8. /\ \A u \in Threads : SendLeft(u)' => SendLeft(u)
      /\ \A u \in Threads : ReconnectLeft(u)' =>
             ReconnectLeft(u) \/ (u = output.reconnect_thread /\ Rcn \in Leaving)
  <2>1. b \notin Leaving
    BY PlacesApart
  <2>2. SendLeft(t)' => FALSE
    BY <1>4, <1>5, PlacesApart DEF SendLeft, SendPlaces
  <2>3. SendLeft(n)' => FALSE
    BY <1>3, <1>4 DEF SendLeft, SendPlaces
  <2> QED
    BY <1>3, <1>4, <2>1, <2>2, <2>3, NoThreadIsNone
       DEF SendLeft, ReconnectLeft, Rcn, Place
<1>9. Handled'
  <2>1. \A u \in Threads : pc[u] \notin Pausing
    BY NoThreadIsNone, PlacesApart DEF Placed, Handled, Rcn, Place, Pausing
  <2>2. /\ Con' \in {"ended"} \cup ConnectPlaces
        /\ Snd' \in {"ended"} \cup SendPlaces
        /\ Rcn' \in {"ended"} \cup ReconnectPlaces
    BY <1>3, <1>7 DEF Placed, Handled
  <2>3. \A u \in Threads :
          /\ pc'[u] \in ConnectPlaces => u = stream'.connect_thread
          /\ pc'[u] \in SendPlaces \ {"clearStreaming"} => u = stream'.send_thread
          /\ pc'[u] \in Pausing => u = output'.reconnect_thread
    <3>1. TAKE u \in Threads
    <3>2. CASE u = n
      BY <1>3, <1>4, <3>2
    <3>3. CASE u = t
      BY <1>4, <1>5, <3>3, PlacesApart
    <3>4. CASE u \notin {n, t}
      BY <1>4, <2>1, <3>4 DEF Placed, Handled
    <3> QED
      BY <3>2, <3>3, <3>4
  <2>4. \A u \in Threads :
          /\ u = stream'.connect_thread => u # stream'.send_thread
          /\ u = stream'.connect_thread => u # output'.reconnect_thread
          /\ u = stream'.send_thread => u # output'.reconnect_thread
    BY <1>1 DEF Placed, Handled, Handles
  <2> QED
    BY <2>2, <2>3, <2>4 DEF Handled
<1>10. Joined'
  <2>1. SUFFICES ASSUME NEW u \in Threads, joining[u] # NoThread
                 PROVE  joining[u] = stream.send_thread /\ pc'[u] = "awaitSend"
    BY DEF Joined, JoinsKept
  <2>2. joining[u] = stream.send_thread /\ pc[u] = "awaitSend"
    BY <2>1 DEF Placed, Joined
  <2>3. u # t
    <3>1. a # "awaitSend"
      BY PlacesApart DEF ConnectPlaces, Trying, Early
    <3> QED
      BY <2>2, <3>1
  <2>4. u # n
    BY <2>2 DEF IsNew
  <2> QED
    BY <1>4, <2>2, <2>3, <2>4
<1>11. OneLeft'
  <2>1. CASE Rcn = "ended"
    BY <1>8, <2>1 DEF Placed, OneLeft, Left, Leaving
  <2>2. CASE ~(SendLeftBehind \/ ReconnectLeftBehind)
    BY <1>8, <2>2 DEF OneLeft, Left, SendLeftBehind, ReconnectLeftBehind
  <2> QED
    BY <2>1, <2>2
<1> QED
  BY <1>5, <1>7, <1>8, <1>9, <1>10, <1>11
     DEF Placed, SendLeftBehind, ReconnectLeftBehind

-----------------------------------------------------------------------------
(* What is used of it in every step.                                       *)

\* A connect thread that does not wait for the send thread goes on.
LEMMA ConnectGoesOn ==
  ASSUME Typed, Placed, NEW t \in Threads, NEW b \in ConnectPlaces \cup {"ended"},
         pc[t] \in ConnectPlaces \ {"awaitSend"}, pc' = [pc EXCEPT ![t] = b],
         HandlesKept, JoinsKept
  PROVE  /\ t = stream.connect_thread /\ Con = pc[t]
         /\ Con' = b /\ Snd' = Snd /\ Rcn' = Rcn
         /\ LeftBefore
         /\ Placed'
<1>1. joining[t] = NoThread
  BY DEF Placed, Joined
<1>2. JoinsBut(t)
  BY <1>1 DEF JoinsBut, JoinsKept
<1> QED
  BY <1>2, ConnectMoves

\* Which places there are, what is shown, and that handles are of different threads.
LEMMA PlacesKnown ==
  ASSUME Placed, Typed
  PROVE  /\ Con \in {"ended"} \cup ConnectPlaces
         /\ Snd \in {"ended"} \cup SendPlaces
         /\ Rcn \in {"ended"} \cup ReconnectPlaces
         /\ Con # "ended" => stream.connect_thread \in Threads \ {NoThread}
         /\ Snd # "ended" => stream.send_thread \in Threads \ {NoThread}
         /\ Rcn # "ended" => output.reconnect_thread \in Threads \ {NoThread}
         /\ stream.connect_thread = stream.send_thread
              => stream.connect_thread = NoThread
         /\ stream.connect_thread = output.reconnect_thread
              => stream.connect_thread = NoThread
         /\ stream.send_thread = output.reconnect_thread
              => stream.send_thread = NoThread
         /\ NoThread \notin joinable
         /\ button \in {"idle", "starting", "live"}
BY PlacesTyped, NoThreadIsNone
   DEF Placed, Handled, Con, Snd, Rcn, Place, Typed, OutputType, StreamType

\* When every thread waits, nobody is in the middle of something.
LEMMA QuietPlaces ==
  ASSUME Quiet, Typed, Placed
  PROVE  /\ Con \in {"ended", "connect", "awaitSend"}
         /\ Snd \in {"ended", "send", "close"}
         /\ Rcn \in {"ended", "wait"}
         /\ user \in {"idle", "awaitReconnect", "awaitConnect"}
         /\ ~SendLeftBehind /\ ~ReconnectLeftBehind
<1>1. ~SendLeftBehind /\ ~ReconnectLeftBehind
  BY DEF Quiet, SendLeftBehind, ReconnectLeftBehind, SendLeft, ReconnectLeft, Leaving
<1> DEFINE At3 == {"ended", "wait", "connect", "send", "close", "awaitSend"}
<1>2. Con \in At3 /\ Snd \in At3 /\ Rcn \in At3
  BY PlacesTyped DEF Quiet, Con, Snd, Rcn, Place
<1>3. /\ Con \in {"ended"} \cup ConnectPlaces /\ Snd \in {"ended"} \cup SendPlaces
      /\ Rcn \in {"ended"} \cup ReconnectPlaces
  BY DEF Placed, Handled
<1>4. Con \in {"ended", "connect", "awaitSend"}
  BY <1>2, <1>3 DEF ConnectPlaces, Trying, Early, Retrying, Opening, Ending
<1>5. Snd \in {"ended", "send", "close"}
  BY <1>2, <1>3 DEF SendPlaces, Losing
<1>6. Rcn \in {"ended", "wait"}
  BY <1>2, <1>3 DEF ReconnectPlaces, Pausing, Leaving
<1> QED
  BY <1>1, <1>4, <1>5, <1>6 DEF Quiet

\* Where no thread is the threads of the handles are not.
LEMMA NobodyAt ==
  ASSUME Typed, NEW P, "ended" \notin P, NEW Q, P \subseteq Q, At(Q) = {}
  PROVE  Con \notin P /\ Snd \notin P /\ Rcn \notin P
<1>1. \A t \in Threads : pc[t] \notin P
  BY DEF At
<1> QED
  BY <1>1, PlacesTyped DEF Con, Snd, Rcn, Place

\* When no thread is about to end none is left behind.
LEMMA NoneDeparts ==
  ASSUME Typed, Departing = {}
  PROVE  /\ Con \notin Ending /\ Snd # "clearStreaming" /\ Rcn \notin Leaving
         /\ ~SendLeftBehind /\ ~ReconnectLeftBehind
<1> DEFINE P == {"detach", "clearConnecting", "clearStreaming", "leave", "exit"}
<1>1. At(P) = {}
  BY DEF Departing
<1>2. ~SendLeftBehind /\ ~ReconnectLeftBehind
  BY <1>1 DEF At, SendLeftBehind, ReconnectLeftBehind, SendLeft, ReconnectLeft, Leaving
<1>3. Con \notin P /\ Snd \notin P /\ Rcn \notin P
  BY <1>1, NobodyAt
<1> QED
  BY <1>2, <1>3 DEF Ending, Leaving

\* A stream is started.
LEMMA NoneAtStart ==
  ASSUME Sound, ~StartRaces, ~output.reconnecting
  PROVE  /\ Con \notin Ending /\ Snd \notin Losing \cup {"clearStreaming"}
         /\ Snd = "resetStop" => stream.send_thread \in joinable
         /\ Rcn = "ended"
         /\ ~SendLeftBehind /\ ~ReconnectLeftBehind
<1> DEFINE P == {"signalLost", "countRetrySend", "setReconnectingSend"}
<1>1. /\ Departing = {} /\ At(P) = {}
      /\ At({"resetStop"}) # {} => stream.send_thread \in joinable
  BY DEF StartRaces, BetweenStreams
<1>2. Snd \notin P
  BY <1>1, NobodyAt DEF Sound
<1>3. Snd # "retrySend"
  BY DEF Sound, Agreed, Losses
<1>4. Snd = "resetStop" => stream.send_thread \in joinable
  BY <1>1, NobodyAt DEF Sound
<1>5. Rcn = "ended"
  BY <1>1, NoneDeparts, PlacesKnown DEF Sound, Agreed, Waits, ReconnectPlaces
<1> QED
  BY <1>1, <1>2, <1>3, <1>4, <1>5, NoneDeparts DEF Sound, Losing

\* A thread waits for the next attempt: the others have ended or are about to.
LEMMA WaitsAlone ==
  ASSUME Sound, Rcn = "wait", Con \notin Ending,
         Snd \notin {"resetStop", "clearStreaming"}
  PROVE  Con = "ended" /\ Snd = "ended" /\ stream.send_thread \notin joinable
<1>1. Con \notin Trying /\ output.reconnecting
  BY DEF Sound, Agreed, Alone, Waits, Pausing
<1>2. Con = "ended"
  BY <1>1, PlacesKnown DEF Sound, ConnectPlaces
<1>3. stream.send_thread \notin joinable
  BY <1>1, <1>2 DEF Sound, Agreed, Reconnects, Opening
<1>4. Snd \notin Losing /\ Snd \notin {"send", "close"}
  BY <1>2, <1>3 DEF Sound, Agreed, Losses
<1> QED
  BY <1>2, <1>3, <1>4, PlacesKnown DEF Sound, SendPlaces

\* A handle stays joinable when a thread is created.
LEMMA StillJoinable ==
  ASSUME Typed, Free # {}, joinable' = (joinable \ Free) \cup {New}, NEW h \in Handles
  PROVE  h \in joinable' <=> h \in joinable
BY NewIsNew DEF IsNew, Free

-----------------------------------------------------------------------------
(* Every step keeps the types.                                             *)

\* What a connect thread does.
LEMMA ConnectTyped ==
  ASSUME Typed, NEW t \in Threads, Connect(t)
  PROVE  Typed'
<1>1. ASSUME InitConnect(t)
      PROVE  Typed'
  BY <1>1 DEF Typed, ThreadPlaces, ConnectPlaces, Trying, Early, Retrying, Opening,
         Ending, InitConnect, Step, Move, joins
<1>2. ASSUME JoinSend(t)
      PROVE  Typed'
  BY <1>2 DEF Typed, ThreadPlaces, ConnectPlaces, Trying, Early, Retrying, Opening,
         Ending, JoinSend, BeginJoin, Step, Move
<1>3. ASSUME AwaitSend(t)
      PROVE  Typed'
  BY <1>3 DEF Typed, ThreadPlaces, ConnectPlaces, Trying, Early, Retrying, Opening,
         Ending, AwaitSend, EndJoin, Step, Move
<1>4. ASSUME ConnectFails(t)
      PROVE  Typed'
  BY <1>4 DEF Typed, ThreadPlaces, ConnectPlaces, Trying, Early, Retrying, Opening,
         Ending, ConnectFails, Step, Move, joins
<1>5. ASSUME Connected(t)
      PROVE  Typed'
  <2>1. New \in Threads
    BY <1>5, NewIsNew DEF IsNew, Connected, StepAndCreate
  <2>2. stream' \in StreamType
    BY <1>5, <2>1 DEF Typed, StreamType, Connected, StepAndCreate
  <2>3. pc' \in [Threads -> ThreadPlaces]
    BY <1>5, <2>1
       DEF Typed, ThreadPlaces, ConnectPlaces, Trying, Early, Retrying,
           Opening, Ending, SendPlaces, Losing, ReconnectPlaces, Pausing, Leaving,
           Connected, StepAndCreate
  <2> QED
    BY <1>5, <2>1, <2>2, <2>3 DEF Typed, joins, Connected, StepAndCreate
<1>6. ASSUME SetStreaming(t)
      PROVE  Typed'
  BY <1>6 DEF Typed, StreamType, ThreadPlaces, ConnectPlaces, Trying, Early,
         Retrying, Opening, Ending, SetStreaming, Step, Move, joins
<1>7. ASSUME BeginCapture(t)
      PROVE  Typed'
  <2>1. output' \in OutputType
    BY <1>7 DEF Typed, OutputType, BeginCapture, Step, Move, joins
  <2> QED
    BY <1>7, <2>1
       DEF Typed, ThreadPlaces, ConnectPlaces, Trying, Early, Retrying,
           Opening, Ending, BeginCapture, Step, Move, joins
<1>8. ASSUME Activate(t)
      PROVE  Typed'
  BY <1>8 DEF Typed, OutputType, ThreadPlaces, ConnectPlaces, Trying, Early,
         Retrying, Opening, Ending, Activate, Step, Move, joins
<1>9. ASSUME SignalStart(t)
      PROVE  Typed'
  BY <1>9 DEF Typed, OutputType, ThreadPlaces, ConnectPlaces, Trying, Early,
         Retrying, Opening, Ending, SignalStart, Step, Move, joins
<1>10. ASSUME SignalFailure(t)
      PROVE  Typed'
  <2>1. output' \in OutputType
    BY <1>10
       DEF Typed, OutputType, SignalFailure, EndDataCapture, SignalStop, Step, Move,
           joins
  <2> QED
    BY <1>10, <2>1
       DEF Typed, ThreadPlaces, ConnectPlaces, Trying, Early, Retrying,
           Opening, Ending, SignalFailure, EndDataCapture, SignalStop, Step, Move, joins
<1>11. ASSUME DetachConnect(t)
      PROVE  Typed'
  BY <1>11 DEF Typed, ThreadPlaces, ConnectPlaces, Trying, Early, Retrying, Opening,
         Ending, DetachConnect, Detach, Step, Move, joins
<1>12. ASSUME ClearConnecting(t)
      PROVE  Typed'
  BY <1>12 DEF Typed, StreamType, ThreadPlaces, ConnectPlaces, Trying, Early,
         Retrying, Opening, Ending, ClearConnecting, Step, Move, joins
<1> QED
  BY <1>1, <1>2, <1>3, <1>4, <1>5, <1>6, <1>7, <1>8, <1>9, <1>10, <1>11, <1>12
     DEF Connect

\* What a send thread does.
LEMMA SendTyped ==
  ASSUME Typed, NEW t \in Threads, Send(t)
  PROVE  Typed'
<1>1. ASSUME SendStops(t)
      PROVE  Typed'
  BY <1>1 DEF Typed, ThreadPlaces, SendPlaces, Losing, SendStops, Step, Move, joins
<1>2. ASSUME SendPacket(t)
      PROVE  Typed'
  BY <1>2 DEF Typed, StreamType, ThreadPlaces, SendPlaces, Losing, SendPacket,
         Step, Move, joins
<1>3. ASSUME CloseSend(t)
      PROVE  Typed'
  BY <1>3 DEF Typed, ThreadPlaces, SendPlaces, Losing, CloseSend, Detach, Step, Move,
         joins
<1>4. ASSUME SignalLost(t)
      PROVE  Typed'
  <2>1. output' \in OutputType
    BY <1>4 DEF Typed, OutputType, SignalLost, EndDataCapture, Step, Move, joins
  <2> QED
    BY <1>4, <2>1
       DEF Typed, ThreadPlaces, SendPlaces, Losing, SignalLost,
           EndDataCapture, Step, Move, joins
<1>5. ASSUME ResetStop(t)
      PROVE  Typed'
  BY <1>5
     DEF Typed, StreamType, ThreadPlaces, SendPlaces, Losing, ResetStop, Step, Move,
         joins
<1>6. ASSUME ClearStreaming(t)
      PROVE  Typed'
  BY <1>6 DEF Typed, StreamType, ThreadPlaces, SendPlaces, Losing, ClearStreaming,
         Step, Move, joins
<1> QED
  BY <1>1, <1>2, <1>3, <1>4, <1>5, <1>6 DEF Send

\* output_reconnect in a connect thread.
LEMMA ConnectRetriesTyped ==
  ASSUME Typed, NEW t \in Threads,
         OutputReconnect(t, "countRetry", "setReconnecting", "retry", "detach")
  PROVE  Typed'
<1>1. ASSUME GiveUp(t, "countRetry", "detach")
      PROVE  Typed'
  <2>1. output' \in OutputType
    BY <1>1, StreamOutputAssumption
       DEF Typed, OutputType, Made, NoneLeft, GiveUp, SignalStop, Step, Move, joins
  <2> QED
    BY <1>1, <2>1
       DEF Typed, ThreadPlaces, ConnectPlaces, Trying, Early, Retrying,
           Opening, Ending, GiveUp, SignalStop, Step, Move, joins
<1>2. ASSUME OneMore(t, "countRetry", "setReconnecting")
      PROVE  Typed'
  <2>1. output' \in OutputType
    <3>1. output.reconnect_retries \in Nat
      BY <1>2 DEF Typed, OutputType
    <3>2. Made \in Nat
      BY <1>2, <3>1 DEF Made
    <3> QED
      BY <1>2, <3>2 DEF Typed, OutputType, OneMore
  <2> QED
    BY <1>2, <2>1
       DEF Typed, ThreadPlaces, ConnectPlaces, Trying, Early, Retrying,
           Opening, Ending, OneMore, Step, Move, joins
<1>3. ASSUME SetReconnecting(t, "setReconnecting", "retry")
      PROVE  Typed'
  <2>1. output' \in OutputType
    <3>1. output.reconnect_retries \in Nat
      BY <1>3 DEF Typed, OutputType
    <3>2. /\ output.reconnect_retries + 1 \in Nat
          /\ (output.reconnect_stop_event /\ output.reconnecting) \in BOOLEAN
      BY <1>3, <3>1
    <3> QED
      BY <1>3, <3>2 DEF Typed, OutputType, SetReconnecting
  <2> QED
    BY <1>3, <2>1
       DEF Typed, ThreadPlaces, ConnectPlaces, Trying, Early, Retrying,
           Opening, Ending, SetReconnecting, Step, Move, joins
<1>4. ASSUME CreateReconnect(t, "retry", "detach")
      PROVE  Typed'
  <2>1. New \in Threads
    BY <1>4, NewIsNew DEF IsNew, CreateReconnect, StepAndCreate
  <2>2. output' \in OutputType
    BY <1>4, <2>1 DEF Typed, OutputType, CreateReconnect, StepAndCreate
  <2>3. pc' \in [Threads -> ThreadPlaces]
    BY <1>4, <2>1
       DEF Typed, ThreadPlaces, ConnectPlaces, Trying, Early, Retrying,
           Opening, Ending, SendPlaces, Losing, ReconnectPlaces, Pausing, Leaving,
           CreateReconnect, StepAndCreate
  <2> QED
    BY <1>4, <2>1, <2>2, <2>3 DEF Typed, joins, CreateReconnect, StepAndCreate
<1> QED
  BY <1>1, <1>2, <1>3, <1>4 DEF OutputReconnect

\* output_reconnect in a send thread.
LEMMA SendRetriesTyped ==
  ASSUME Typed, NEW t \in Threads,
         OutputReconnect(t, "countRetrySend", "setReconnectingSend", "retrySend",
                         "resetStop")
  PROVE  Typed'
<1>1. ASSUME GiveUp(t, "countRetrySend", "resetStop")
      PROVE  Typed'
  <2>1. output' \in OutputType
    BY <1>1, StreamOutputAssumption
       DEF Typed, OutputType, Made, NoneLeft, GiveUp, SignalStop, Step, Move, joins
  <2> QED
    BY <1>1, <2>1
       DEF Typed, ThreadPlaces, SendPlaces, Losing, GiveUp, SignalStop, Step, Move,
           joins
<1>2. ASSUME OneMore(t, "countRetrySend", "setReconnectingSend")
      PROVE  Typed'
  <2>1. output' \in OutputType
    <3>1. output.reconnect_retries \in Nat
      BY <1>2 DEF Typed, OutputType
    <3>2. Made \in Nat
      BY <1>2, <3>1 DEF Made
    <3> QED
      BY <1>2, <3>2 DEF Typed, OutputType, OneMore
  <2> QED
    BY <1>2, <2>1
       DEF Typed, ThreadPlaces, SendPlaces, Losing, OneMore, Step, Move, joins
<1>3. ASSUME SetReconnecting(t, "setReconnectingSend", "retrySend")
      PROVE  Typed'
  <2>1. output' \in OutputType
    <3>1. output.reconnect_retries \in Nat
      BY <1>3 DEF Typed, OutputType
    <3>2. /\ output.reconnect_retries + 1 \in Nat
          /\ (output.reconnect_stop_event /\ output.reconnecting) \in BOOLEAN
      BY <1>3, <3>1
    <3> QED
      BY <1>3, <3>2 DEF Typed, OutputType, SetReconnecting
  <2> QED
    BY <1>3, <2>1
       DEF Typed, ThreadPlaces, SendPlaces, Losing, SetReconnecting, Step, Move,
           joins
<1>4. ASSUME CreateReconnect(t, "retrySend", "resetStop")
      PROVE  Typed'
  <2>1. New \in Threads
    BY <1>4, NewIsNew DEF IsNew, CreateReconnect, StepAndCreate
  <2>2. output' \in OutputType
    BY <1>4, <2>1 DEF Typed, OutputType, CreateReconnect, StepAndCreate
  <2>3. pc' \in [Threads -> ThreadPlaces]
    BY <1>4, <2>1
       DEF Typed, ThreadPlaces, ConnectPlaces, Trying, Early, Retrying,
           Opening, Ending, SendPlaces, Losing, ReconnectPlaces, Pausing, Leaving,
           CreateReconnect, StepAndCreate
  <2> QED
    BY <1>4, <2>1, <2>2, <2>3 DEF Typed, joins, CreateReconnect, StepAndCreate
<1> QED
  BY <1>1, <1>2, <1>3, <1>4 DEF OutputReconnect

\* An attempt begins, or cannot.
LEMMA RestartTyped ==
  ASSUME Typed, NEW t \in Threads, Restart(t)
  PROVE  Typed'
<1>1. output' \in OutputType
  BY DEF Typed, OutputType, Restart, ActualStart
<1>2. CASE StepAndCreate(t, "restart", "leave", "initConnect") /\ StartConnect
  <2>1. New \in Threads
    BY <1>2, NewIsNew DEF IsNew, StepAndCreate
  <2>2. stream' \in StreamType
    BY <1>2, <2>1 DEF Typed, StreamType, StartConnect
  <2>3. pc' \in [Threads -> ThreadPlaces]
    BY <1>2, <2>1
       DEF Typed, ThreadPlaces, ConnectPlaces, Trying, Early, Retrying, Opening,
           Ending, SendPlaces, Losing, ReconnectPlaces, Pausing, Leaving,
           StepAndCreate
  <2> QED
    BY <1>1, <1>2, <2>1, <2>2, <2>3 DEF Typed, Restart, StepAndCreate
<1>3. CASE Move(t, "restart", "leave") /\ UNCHANGED <<stream, joins>>
  BY <1>1, <1>3
     DEF Typed, ThreadPlaces, Pausing, ReconnectPlaces, Leaving, Restart, Move, joins
<1> QED
  BY <1>2, <1>3 DEF Restart

\* What a reconnect thread does.
LEMMA ReconnectTyped ==
  ASSUME Typed, NEW t \in Threads, Reconnect(t)
  PROVE  Typed'
<1>1. ASSUME EnterReconnect(t)
      PROVE  Typed'
  BY <1>1 DEF Typed, OutputType, ThreadPlaces, Pausing, ReconnectPlaces, Leaving,
         EnterReconnect, Step, Move, joins
<1>2. ASSUME WaitStopped(t)
      PROVE  Typed'
  BY <1>2 DEF Typed, ThreadPlaces, Pausing, ReconnectPlaces, Leaving, WaitStopped,
         Step, Move, joins
<1>3. ASSUME WaitTimedOut(t)
      PROVE  Typed'
  BY <1>3 DEF Typed, ThreadPlaces, Pausing, ReconnectPlaces, Leaving, WaitTimedOut,
         Step, Move, joins
<1>4. ASSUME LeaveReconnect(t)
      PROVE  Typed'
  <2>1. output' \in OutputType
    BY <1>4 DEF Typed, OutputType, LeaveReconnect, Detach, Step, Move, joins
  <2> QED
    BY <1>4, <2>1
       DEF Typed, ThreadPlaces, Pausing, ReconnectPlaces, Leaving,
           LeaveReconnect, Detach, Step, Move, joins
<1>5. ASSUME ExitReconnect(t)
      PROVE  Typed'
  BY <1>5 DEF Typed, OutputType, ThreadPlaces, Pausing, ReconnectPlaces, Leaving,
         ExitReconnect, Step, Move, joins
<1> QED
  BY <1>1, <1>2, <1>3, <1>4, <1>5, RestartTyped DEF Reconnect

\* obs_output_stop.
LEMMA StoppingTyped ==
  ASSUME Typed, Stopping
  PROVE  Typed'
<1>1. ASSUME ReadReconnect
      PROVE  Typed'
  BY <1>1 DEF Typed, ThreadPlaces, UserPlaces, ReadReconnect, UserStep, UserMove, joins
<1>2. ASSUME JoinReconnect
      PROVE  Typed'
  BY <1>2
     DEF Typed, ThreadPlaces, UserPlaces, JoinReconnect, BeginJoin, UserStep,
         UserMove, joins
<1>3. ASSUME AwaitReconnect
      PROVE  Typed'
  BY <1>3
     DEF Typed, ThreadPlaces, UserPlaces, AwaitReconnect, EndJoin, UserStep,
         UserMove, joins
<1>4. ASSUME ReadStop
      PROVE  Typed'
  BY <1>4 DEF Typed, ThreadPlaces, UserPlaces, ReadStop, UserStep, UserMove, joins
<1>5. ASSUME JoinConnect
      PROVE  Typed'
  BY <1>5
     DEF Typed, ThreadPlaces, UserPlaces, JoinConnect, BeginJoin, UserStep, UserMove,
         joins
<1>6. ASSUME AwaitConnect
      PROVE  Typed'
  BY <1>6
     DEF Typed, ThreadPlaces, UserPlaces, AwaitConnect, EndJoin, UserStep, UserMove,
         joins
<1>7. ASSUME SetStop
      PROVE  Typed'
  BY <1>7
     DEF Typed, StreamType, ThreadPlaces, UserPlaces, SetStop, UserStep, UserMove,
         joins
<1>8. ASSUME UserEndCapture
      PROVE  Typed'
  <2>1. output' \in OutputType
    BY <1>8 DEF Typed, OutputType, UserEndCapture, PostSendSem, EndDataCapture,
           UserStep, UserMove, joins
  <2>2. stream' \in StreamType
    BY <1>8 DEF Typed, StreamType, UserEndCapture, PostSendSem, EndDataCapture,
           UserStep, UserMove, joins
  <2> QED
    BY <1>8, <2>1, <2>2
       DEF Typed, ThreadPlaces, UserPlaces, UserEndCapture, PostSendSem,
           EndDataCapture, UserStep, UserMove, joins
<1>9. ASSUME UserSignal
      PROVE  Typed'
  BY <1>9
     DEF Typed, ThreadPlaces, UserPlaces, UserSignal, SignalStop, UserStep, UserMove,
         joins
<1> QED
  BY <1>1, <1>2, <1>3, <1>4, <1>5, <1>6, <1>7, <1>8, <1>9 DEF Stopping

\* obs_output_start.
LEMMA UserStartTyped ==
  ASSUME Typed, UserStart
  PROVE  Typed'
<1>1. output' \in OutputType
  BY DEF Typed, OutputType, UserStart, ActualStart
<1>2. CASE Free # {} /\ button' = "starting"
  <2>1. New \in Threads
    BY <1>2, NewIsNew DEF IsNew
  <2>2. stream' \in StreamType
    BY <1>2, <2>1 DEF Typed, StreamType, UserStart, StartConnect
  <2>3. pc' \in [Threads -> ThreadPlaces]
    BY <1>2, <2>1
       DEF Typed, ThreadPlaces, ConnectPlaces, Trying, Early, Retrying, Opening,
           Ending, SendPlaces, Losing, ReconnectPlaces, Pausing, Leaving, UserStart
  <2>4. joinable' \subseteq Threads /\ undone' = FALSE
    BY <1>2, <2>1 DEF Typed, UserStart
  <2> QED
    BY <1>1, <1>2, <2>2, <2>3, <2>4 DEF Typed, UserStart
<1>3. CASE UNCHANGED <<stream, pc, joinable, undone>> /\ button' = "idle"
  BY <1>1, <1>3 DEF Typed, UserStart
<1> QED
  BY <1>2, <1>3 DEF UserStart

\* Whatever is done, at whatever moment.
LEMMA TypesKept ==
  ASSUME Typed, [Next]_vars
  PROVE  Typed'
<1>1. CASE UserStart
  BY <1>1, UserStartTyped
<1>2. CASE UserStop
  <2>1. output' \in OutputType
    BY <1>2 DEF Typed, OutputType, UserStop, Acts, UserStep, UserMove, joins
  <2> QED
    BY <1>2, <2>1
       DEF Typed, ThreadPlaces, UserPlaces, UserStop, Acts, UserStep, UserMove, joins
<1>3. CASE Stopping
  BY <1>3, StoppingTyped
<1>4. CASE Deliver
  <2>1. stream' \in StreamType
    BY <1>4 DEF Typed, StreamType, Deliver
  <2> QED
    BY <1>4, <2>1 DEF Typed, Deliver, joins
<1>5. ASSUME NEW t \in Threads, Run(t)
      PROVE  Typed'
  BY <1>5, ConnectTyped, SendTyped, ReconnectTyped, ConnectRetriesTyped,
     SendRetriesTyped DEF Run
<1>6. ASSUME NEW t \in Threads, SendFails(t)
      PROVE  Typed'
  BY <1>6
     DEF Typed, ThreadPlaces, SendPlaces, Losing, SendFails, Acts, Step, Move, joins
<1>7. CASE UNCHANGED vars
  BY <1>7 DEF Typed, vars, joins
<1> QED
  BY <1>1, <1>2, <1>3, <1>4, <1>5, <1>6, <1>7 DEF Next

-----------------------------------------------------------------------------
(* Every step keeps the invariant.                                         *)

\* A connect thread begins.
LEMMA InitConnectKeeps ==
  ASSUME Sound, NEW t \in Threads, InitConnect(t)
  PROVE  Placed' /\ Agreed'
<1>1. /\ Con = "initConnect"
      /\ Con' = (IF stream.stop_event THEN "joinSend" ELSE "connect")
      /\ Snd' = Snd /\ Rcn' = Rcn
      /\ LeftBefore /\ Placed'
  <2>1. /\ pc[t] = "initConnect"
        /\ pc' = [pc EXCEPT ![t] = (IF stream.stop_event THEN "joinSend"
                                                            ELSE "connect")]
        /\ HandlesKept /\ JoinsKept
    BY DEF Sound, Typed, HandlesKept, JoinsKept, InitConnect, Step, Move, joins
  <2>2. /\ "initConnect" \in ConnectPlaces \ {"awaitSend"}
        /\ (IF stream.stop_event THEN "joinSend" ELSE "connect")
             \in ConnectPlaces \cup {"ended"}
    BY DEF ConnectPlaces, Trying, Early, Retrying, Opening, Ending
  <2> QED
    BY <2>1, <2>2, ConnectGoesOn DEF Sound
<1>2. UNCHANGED <<output, stream, user, button, joinable, joining, bad_join, lost,
                  undone>>
  BY DEF Sound, Typed, InitConnect, Step, Move, joins
<1>3. LeftAlone'
  BY <1>1, <1>2 DEF Sound, Agreed, LeftAlone, LeftBefore
<1>4. Alone'
  BY <1>1, <1>2, PlacesKnown
     DEF Sound, Agreed, Alone, Captures, Losses, Early, Trying, SendPlaces
<1>5. Starting'
  BY <1>1, <1>2 DEF Sound, Agreed, Starting, Opening, Retrying, Early, Trying
<1>6. Waits'
  BY <1>1, <1>2 DEF Sound, Agreed, Waits
<1>7. Captures'
  BY <1>1, <1>2 DEF Sound, Agreed, Captures
<1>8. Losses'
  BY <1>1, <1>2 DEF Sound, Agreed, Losses, Opening, Losing
<1>9. Reconnects'
  BY <1>1, <1>2 DEF Sound, Agreed, Reconnects, Opening, Ending, Leaving
<1>10. Counted'
  BY <1>1, <1>2 DEF Sound, Agreed, Counted
<1>11. Shows'
  BY <1>1, <1>2 DEF Sound, Agreed, Shows, Ending
<1>12. Signalled'
  BY <1>1, <1>2 DEF Sound, Agreed, Signalled, Opening, Retrying, Early
<1>13. Unbroken'
  BY <1>1, <1>2 DEF Sound, Agreed, Alone, Unbroken, Opening, Early, Trying
<1>14. Lasting'
  BY <1>1, <1>2
     DEF Sound, Agreed, Lasting, Opening, Retrying, Early, Trying, Losing, Pausing,
         Leaving
<1>15. Awaited'
  BY <1>1, <1>2 DEF Sound, Agreed, Awaited, Opening
<1>16. Agreed'
  BY <1>3, <1>4, <1>5, <1>6, <1>7, <1>8, <1>9, <1>10, <1>11, <1>12, <1>13, <1>14,
     <1>15 DEF Agreed
<1> QED
  BY <1>1, <1>16

\* It does not reach the server.
LEMMA ConnectFailsKeeps ==
  ASSUME Sound, NEW t \in Threads, ConnectFails(t)
  PROVE  Placed' /\ Agreed'
<1>1. /\ Con = "connect" /\ Con' = "signalFailure" /\ Snd' = Snd /\ Rcn' = Rcn
      /\ LeftBefore /\ Placed'
  <2>1. /\ pc[t] = "connect" /\ pc' = [pc EXCEPT ![t] = "signalFailure"]
        /\ HandlesKept /\ JoinsKept
    BY DEF Sound, Typed, HandlesKept, JoinsKept, ConnectFails, Step, Move, joins
  <2>2. /\ "connect" \in ConnectPlaces \ {"awaitSend"}
        /\ "signalFailure" \in ConnectPlaces \cup {"ended"}
    BY DEF ConnectPlaces, Trying, Early, Retrying, Opening, Ending
  <2> QED
    BY <2>1, <2>2, ConnectGoesOn DEF Sound
<1>2. UNCHANGED <<output, stream, user, button, joinable, joining, bad_join, lost,
                  undone>>
  BY DEF Sound, Typed, ConnectFails, Step, Move, joins
<1>3. LeftAlone'
  BY <1>1, <1>2 DEF Sound, Agreed, LeftAlone, LeftBefore
<1>4. Alone'
  BY <1>1, <1>2 DEF Sound, Agreed, Alone, Opening, Retrying, Early, Trying, Pausing
<1>5. Starting'
  BY <1>1, <1>2 DEF Sound, Agreed, Starting, Opening, Retrying, Early, Trying
<1>6. Waits'
  BY <1>1, <1>2 DEF Sound, Agreed, Waits
<1>7. Captures'
  BY <1>1, <1>2 DEF Sound, Agreed, Captures
<1>8. Losses'
  BY <1>1, <1>2 DEF Sound, Agreed, Losses, Opening, Losing
<1>9. Reconnects'
  BY <1>1, <1>2 DEF Sound, Agreed, Reconnects, Opening, Ending, Leaving
<1>10. Counted'
  BY <1>1, <1>2 DEF Sound, Agreed, Counted
<1>11. Shows'
  BY <1>1, <1>2 DEF Sound, Agreed, Shows, Ending
<1>12. Signalled'
  BY <1>1, <1>2 DEF Sound, Agreed, Signalled, Opening, Retrying, Early
<1>13. Unbroken'
  BY <1>1, <1>2 DEF Sound, Agreed, Unbroken, Opening, Losing
<1>14. Lasting'
  BY <1>1, <1>2
     DEF Sound, Agreed, Lasting, Opening, Retrying, Early, Trying, Losing, Pausing,
         Leaving
<1>15. Awaited'
  BY <1>1, <1>2 DEF Sound, Agreed, Awaited, Opening
<1>16. Agreed'
  BY <1>3, <1>4, <1>5, <1>6, <1>7, <1>8, <1>9, <1>10, <1>11, <1>12, <1>13, <1>14,
     <1>15 DEF Agreed
<1> QED
  BY <1>1, <1>16

\* It sets `active` of the stream.
LEMMA SetStreamingKeeps ==
  ASSUME Sound, NEW t \in Threads, SetStreaming(t)
  PROVE  Placed' /\ Agreed'
<1>1. /\ Con = "setStreaming" /\ Con' = "beginCapture" /\ Snd' = Snd /\ Rcn' = Rcn
      /\ LeftBefore /\ Placed'
  <2>1. /\ pc[t] = "setStreaming" /\ pc' = [pc EXCEPT ![t] = "beginCapture"]
        /\ HandlesKept /\ JoinsKept
    BY DEF Sound, Typed, StreamType, HandlesKept, JoinsKept, SetStreaming, Step, Move,
           joins
  <2>2. /\ "setStreaming" \in ConnectPlaces \ {"awaitSend"}
        /\ "beginCapture" \in ConnectPlaces \cup {"ended"}
    BY DEF ConnectPlaces, Trying, Early, Retrying, Opening, Ending
  <2> QED
    BY <2>1, <2>2, ConnectGoesOn DEF Sound
<1>2. /\ UNCHANGED <<output, user, button, joinable, joining, bad_join, lost, undone>>
      /\ stream'.connecting = stream.connecting
      /\ stream'.active
      /\ stream'.stop_event = stream.stop_event
      /\ stream'.posted = stream.posted
      /\ stream'.connect_thread = stream.connect_thread
      /\ stream'.send_thread = stream.send_thread
  BY DEF Sound, Typed, StreamType, SetStreaming, Step, Move, joins
<1>3. LeftAlone'
  BY <1>1, <1>2 DEF Sound, Agreed, LeftAlone, LeftBefore
<1>4. Alone'
  BY <1>1, <1>2 DEF Sound, Agreed, Alone, Opening, Retrying, Early, Trying, Pausing
<1>5. Starting'
  BY <1>1, <1>2 DEF Sound, Agreed, Starting, Opening, Retrying, Early, Trying
<1>6. Waits'
  BY <1>1, <1>2 DEF Sound, Agreed, Alone, Waits, Opening, Trying
<1>7. Captures'
  BY <1>1, <1>2 DEF Sound, Agreed, Captures
<1>8. Losses'
  BY <1>1, <1>2 DEF Sound, Agreed, Losses, Opening, Losing
<1>9. Reconnects'
  BY <1>1, <1>2 DEF Sound, Agreed, Reconnects, Opening, Ending, Leaving
<1>10. Counted'
  BY <1>1, <1>2 DEF Sound, Agreed, Counted
<1>11. Shows'
  BY <1>1, <1>2 DEF Sound, Agreed, Shows, Ending
<1>12. Signalled'
  BY <1>1, <1>2 DEF Sound, Agreed, Signalled, Opening, Retrying, Early
<1>13. Unbroken'
  BY <1>1, <1>2 DEF Sound, Agreed, Alone, Unbroken, Opening, Trying
<1>14. Lasting'
  BY <1>1, <1>2
     DEF Sound, Agreed, Lasting, Opening, Retrying, Early, Trying, Losing, Pausing,
         Leaving
<1>15. Awaited'
  BY <1>1, <1>2 DEF Sound, Agreed, Awaited, Opening
<1>16. Agreed'
  BY <1>3, <1>4, <1>5, <1>6, <1>7, <1>8, <1>9, <1>10, <1>11, <1>12, <1>13, <1>14,
     <1>15 DEF Agreed
<1> QED
  BY <1>1, <1>16

\* It hooks the encoders.
LEMMA BeginCaptureKeeps ==
  ASSUME Sound, NEW t \in Threads, BeginCapture(t)
  PROVE  Placed' /\ Agreed'
<1>1. /\ Con = "beginCapture" /\ Con' = (IF output.active THEN "detach" ELSE "activate")
      /\ Snd' = Snd /\ Rcn' = Rcn
      /\ LeftBefore /\ Placed'
  <2>1. /\ pc[t] = "beginCapture"
        /\ pc' = [pc EXCEPT ![t] = (IF output.active THEN "detach"
                                                            ELSE "activate")]
        /\ HandlesKept /\ JoinsKept
    BY DEF Sound, Typed, OutputType, HandlesKept, JoinsKept, BeginCapture, Step, Move,
           joins
  <2>2. /\ "beginCapture" \in ConnectPlaces \ {"awaitSend"}
        /\ (IF output.active THEN "detach" ELSE "activate")
             \in ConnectPlaces \cup {"ended"}
    BY DEF ConnectPlaces, Trying, Early, Retrying, Opening, Ending
  <2> QED
    BY <2>1, <2>2, ConnectGoesOn DEF Sound
<1>2. /\ UNCHANGED <<stream, user, button, joinable, joining, bad_join, lost, undone>>
      /\ output'.active = output.active
      /\ output'.capturing <=> output.capturing \/ ~output.active
      /\ output'.stopped = output.stopped
      /\ output'.reconnecting = output.reconnecting
      /\ output'.reconnect_retries = output.reconnect_retries
      /\ output'.reconnect_stop_event = output.reconnect_stop_event
      /\ output'.reconnect_thread_active = output.reconnect_thread_active
  BY DEF Sound, Typed, OutputType, BeginCapture, Step, Move, joins
<1>3. LeftAlone'
  BY <1>1, <1>2 DEF Sound, Agreed, LeftAlone, LeftBefore
<1>4. Alone'
  BY <1>1, <1>2 DEF Sound, Agreed, Alone, Opening, Retrying, Early, Trying, Pausing
<1>5. Starting'
  BY <1>1, <1>2 DEF Sound, Agreed, Alone, Starting, Opening, Retrying, Early, Trying
<1>6. Waits'
  BY <1>1, <1>2 DEF Sound, Agreed, Waits
<1>7. Captures'
  BY <1>1, <1>2 DEF Sound, Agreed, Captures, Losses, Opening
<1>8. Losses'
  BY <1>1, <1>2 DEF Sound, Agreed, Losses, Opening, Losing
<1>9. Reconnects'
  BY <1>1, <1>2 DEF Sound, Agreed, Alone, Reconnects, Opening, Trying, Ending
<1>10. Counted'
  BY <1>1, <1>2 DEF Sound, Agreed, Counted
<1>11. Shows'
  BY <1>1, <1>2 DEF Sound, Agreed, Captures, Losses, Shows, Opening
<1>12. Signalled'
  BY <1>1, <1>2 DEF Sound, Agreed, Alone, Signalled, Opening, Retrying, Early, Trying
<1>13. Unbroken'
  BY <1>1, <1>2 DEF Sound, Agreed, Unbroken, Opening, Losing
<1>14. Lasting'
  BY <1>1, <1>2
     DEF Sound, Agreed, Lasting, Opening, Retrying, Early, Trying, Losing, Pausing,
         Leaving
<1>15. Awaited'
  BY <1>1, <1>2 DEF Sound, Agreed, Awaited, Opening
<1>16. Agreed'
  BY <1>3, <1>4, <1>5, <1>6, <1>7, <1>8, <1>9, <1>10, <1>11, <1>12, <1>13, <1>14,
     <1>15 DEF Agreed
<1> QED
  BY <1>1, <1>16

\* It sets `active` of the output.
LEMMA ActivateKeeps ==
  ASSUME Sound, NEW t \in Threads, Activate(t)
  PROVE  Placed' /\ Agreed'
<1>1. /\ Con = "activate" /\ Con' = "signalStart" /\ Snd' = Snd /\ Rcn' = Rcn
      /\ LeftBefore /\ Placed'
  <2>1. /\ pc[t] = "activate" /\ pc' = [pc EXCEPT ![t] = "signalStart"]
        /\ HandlesKept /\ JoinsKept
    BY DEF Sound, Typed, OutputType, HandlesKept, JoinsKept, Activate, Step, Move, joins
  <2>2. /\ "activate" \in ConnectPlaces \ {"awaitSend"}
        /\ "signalStart" \in ConnectPlaces \cup {"ended"}
    BY DEF ConnectPlaces, Trying, Early, Retrying, Opening, Ending
  <2> QED
    BY <2>1, <2>2, ConnectGoesOn DEF Sound
<1>2. /\ UNCHANGED <<stream, user, button, joinable, joining, bad_join, lost, undone>>
      /\ output'.active
      /\ output'.capturing = output.capturing
      /\ output'.stopped = output.stopped
      /\ output'.reconnecting = output.reconnecting
      /\ output'.reconnect_retries = output.reconnect_retries
      /\ output'.reconnect_stop_event = output.reconnect_stop_event
      /\ output'.reconnect_thread_active = output.reconnect_thread_active
  BY DEF Sound, Typed, OutputType, Activate, Step, Move, joins
<1>3. LeftAlone'
  BY <1>1, <1>2 DEF Sound, Agreed, LeftAlone, LeftBefore
<1>4. Alone'
  BY <1>1, <1>2 DEF Sound, Agreed, Alone, Opening, Retrying, Early, Trying, Pausing
<1>5. Starting'
  BY <1>1, <1>2 DEF Sound, Agreed, Starting, Opening, Retrying, Early, Trying
<1>6. Waits'
  BY <1>1, <1>2 DEF Sound, Agreed, Waits
<1>7. Captures'
  BY <1>1, <1>2 DEF Sound, Agreed, Captures
<1>8. Losses'
  BY <1>1, <1>2 DEF Sound, Agreed, Losses, Opening, Losing
<1>9. Reconnects'
  BY <1>1, <1>2 DEF Sound, Agreed, Reconnects, Opening, Ending, Leaving
<1>10. Counted'
  BY <1>1, <1>2 DEF Sound, Agreed, Counted
<1>11. Shows'
  BY <1>1, <1>2 DEF Sound, Agreed, Shows, Ending
<1>12. Signalled'
  BY <1>1, <1>2 DEF Sound, Agreed, Signalled, Opening, Retrying, Early
<1>13. Unbroken'
  BY <1>1, <1>2 DEF Sound, Agreed, Alone, Unbroken, Opening, Trying
<1>14. Lasting'
  BY <1>1, <1>2
     DEF Sound, Agreed, Lasting, Opening, Retrying, Early, Trying, Losing, Pausing,
         Leaving
<1>15. Awaited'
  BY <1>1, <1>2 DEF Sound, Agreed, Awaited, Opening
<1>16. Agreed'
  BY <1>3, <1>4, <1>5, <1>6, <1>7, <1>8, <1>9, <1>10, <1>11, <1>12, <1>13, <1>14,
     <1>15 DEF Agreed
<1> QED
  BY <1>1, <1>16

\* It signals the start.
LEMMA SignalStartKeeps ==
  ASSUME Sound, NEW t \in Threads, SignalStart(t)
  PROVE  Placed' /\ Agreed'
<1>1. /\ Con = "signalStart" /\ Con' = "detach" /\ Snd' = Snd /\ Rcn' = Rcn
      /\ LeftBefore /\ Placed'
  <2>1. /\ pc[t] = "signalStart" /\ pc' = [pc EXCEPT ![t] = "detach"]
        /\ HandlesKept /\ JoinsKept
    BY DEF Sound, Typed, OutputType, HandlesKept, JoinsKept, SignalStart, Step, Move,
           joins
  <2>2. /\ "signalStart" \in ConnectPlaces \ {"awaitSend"}
        /\ "detach" \in ConnectPlaces \cup {"ended"}
    BY DEF ConnectPlaces, Trying, Early, Retrying, Opening, Ending
  <2> QED
    BY <2>1, <2>2, ConnectGoesOn DEF Sound
<1>2. /\ UNCHANGED <<stream, user, joinable, joining, bad_join, lost, undone>>
      /\ output'.active = output.active
      /\ output'.capturing = output.capturing
      /\ output'.stopped = output.stopped
      /\ ~output'.reconnecting
      /\ output'.reconnect_retries = output.reconnect_retries
      /\ output'.reconnect_stop_event = output.reconnect_stop_event
      /\ output'.reconnect_thread_active = output.reconnect_thread_active
      /\ button' = IF output.reconnecting THEN button ELSE "live"
  BY DEF Sound, Typed, OutputType, SignalStart, Step, Move, joins
<1>3. LeftAlone'
  BY <1>1, <1>2 DEF Sound, Agreed, LeftAlone, LeftBefore
<1>4. Alone'
  BY <1>1, <1>2 DEF Sound, Agreed, Alone, Opening, Retrying, Early, Trying, Pausing
<1>5. Starting'
  BY <1>1, <1>2 DEF Sound, Agreed, Starting, Opening, Retrying, Early, Trying
<1>6. Waits'
  BY <1>1, <1>2 DEF Sound, Agreed, Alone, Waits, Opening, Trying
<1>7. Captures'
  BY <1>1, <1>2 DEF Sound, Agreed, Captures
<1>8. Losses'
  BY <1>1, <1>2 DEF Sound, Agreed, Losses, Opening, Losing
<1>9. Reconnects'
  BY <1>1, <1>2 DEF Sound, Agreed, Reconnects
<1>10. Counted'
  BY <1>1, <1>2 DEF Sound, Agreed, Counted
<1>11. Shows'
  BY <1>1, <1>2 DEF Sound, Agreed, Alone, Losses, Shows, Opening, Trying
<1>12. Signalled'
  BY <1>1, <1>2 DEF Sound, Agreed, Alone, Signalled, Opening, Retrying, Early, Trying
<1>13. Unbroken'
  BY <1>1, <1>2 DEF Sound, Agreed, Unbroken, Opening, Losing
<1>14. Lasting'
  BY <1>1, <1>2
     DEF Sound, Agreed, Lasting, Opening, Retrying, Early, Trying, Losing, Pausing,
         Leaving
<1>15. Awaited'
  BY <1>1, <1>2 DEF Sound, Agreed, Awaited
<1>16. Agreed'
  BY <1>3, <1>4, <1>5, <1>6, <1>7, <1>8, <1>9, <1>10, <1>11, <1>12, <1>13, <1>14,
     <1>15 DEF Agreed
<1> QED
  BY <1>1, <1>16

\* It signals that the connection failed.
LEMMA SignalFailureKeeps ==
  ASSUME Sound, NEW t \in Threads, SignalFailure(t)
  PROVE  Placed' /\ Agreed'
<1>1. /\ Con = "signalFailure"
      /\ Con' = (IF output.reconnecting THEN "countRetry" ELSE "detach")
      /\ Snd' = Snd /\ Rcn' = Rcn
      /\ LeftBefore /\ Placed'
  <2>1. /\ pc[t] = "signalFailure"
        /\ pc' = [pc EXCEPT ![t] = (IF output.reconnecting THEN "countRetry"
                                                            ELSE "detach")]
        /\ HandlesKept /\ JoinsKept
    BY DEF Sound, Typed, OutputType, HandlesKept, JoinsKept, SignalFailure,
           EndDataCapture, SignalStop, Step, Move, joins
  <2>2. /\ "signalFailure" \in ConnectPlaces \ {"awaitSend"}
        /\ (IF output.reconnecting THEN "countRetry" ELSE "detach")
             \in ConnectPlaces \cup {"ended"}
    BY DEF ConnectPlaces, Trying, Early, Retrying, Opening, Ending
  <2> QED
    BY <2>1, <2>2, ConnectGoesOn DEF Sound
<1>2. /\ UNCHANGED <<stream, user, joinable, joining, bad_join, lost, undone>>
      /\ ~output'.active
      /\ output'.capturing <=> output.capturing /\ ~output.active
      /\ output'.stopped = output.stopped
      /\ output'.reconnecting = output.reconnecting
      /\ output'.reconnect_retries = output.reconnect_retries
      /\ output'.reconnect_stop_event = output.reconnect_stop_event
      /\ output'.reconnect_thread_active = output.reconnect_thread_active
      /\ button' = IF output.reconnecting THEN button ELSE "idle"
  BY DEF Sound, Typed, OutputType, SignalFailure, EndDataCapture, SignalStop, Step,
         Move, joins
<1>3. LeftAlone'
  BY <1>1, <1>2 DEF Sound, Agreed, LeftAlone, LeftBefore
<1>4. Alone'
  BY <1>1, <1>2 DEF Sound, Agreed, Alone, Opening, Retrying, Early, Trying, Pausing
<1>5. Starting'
  BY <1>1, <1>2 DEF Sound, Agreed, Starting, Opening, Retrying, Early, Trying
<1>6. Waits'
  BY <1>1, <1>2 DEF Sound, Agreed, Waits
<1>7. Captures'
  BY <1>1, <1>2 DEF Sound, Agreed, Alone, Captures
<1>8. Losses'
  BY <1>1, <1>2 DEF Sound, Agreed, Losses, Opening, Losing
<1>9. Reconnects'
  BY <1>1, <1>2 DEF Sound, Agreed, Reconnects, Opening, Ending, Leaving
<1>10. Counted'
  BY <1>1, <1>2 DEF Sound, Agreed, Counted
<1>11. Shows'
  BY <1>1, <1>2 DEF Sound, Agreed, Reconnects, Shows, Opening, Ending
<1>12. Signalled'
  BY <1>1, <1>2 DEF Sound, Agreed, Signalled, Opening, Retrying, Early
<1>13. Unbroken'
  BY <1>1, <1>2 DEF Sound, Agreed, Unbroken, Opening, Losing
<1>14. Lasting'
  BY <1>1, <1>2
     DEF Sound, Agreed, Waits, Losses, Lasting, Opening, Retrying, Early, Trying
<1>15. Awaited'
  BY <1>1, <1>2 DEF Sound, Agreed, Awaited, Opening
<1>16. Agreed'
  BY <1>3, <1>4, <1>5, <1>6, <1>7, <1>8, <1>9, <1>10, <1>11, <1>12, <1>13, <1>14,
     <1>15 DEF Agreed
<1> QED
  BY <1>1, <1>16

\* It detaches itself unless the stream stops.
LEMMA DetachConnectKeeps ==
  ASSUME Sound, NEW t \in Threads, DetachConnect(t)
  PROVE  Placed' /\ Agreed'
<1>1. /\ Con = "detach" /\ Con' = "clearConnecting" /\ Snd' = Snd /\ Rcn' = Rcn
      /\ LeftBefore /\ Placed'
  <2>1. /\ pc[t] = "detach" /\ pc' = [pc EXCEPT ![t] = "clearConnecting"]
        /\ HandlesKept /\ JoinsKept
    BY DEF Sound, Typed, HandlesKept, JoinsKept, DetachConnect, Detach, Step, Move,
           joins
  <2>2. /\ "detach" \in ConnectPlaces \ {"awaitSend"}
        /\ "clearConnecting" \in ConnectPlaces \cup {"ended"}
    BY DEF ConnectPlaces, Trying, Early, Retrying, Opening, Ending
  <2> QED
    BY <2>1, <2>2, ConnectGoesOn DEF Sound
<1>2. /\ UNCHANGED <<output, stream, user, button, joining, bad_join, lost, undone>>
      /\ stream.send_thread \in joinable' <=> stream.send_thread \in joinable
      /\ stream.connect_thread \in joinable'
           <=> stream.connect_thread \in joinable /\ stream.stop_event
  BY <1>1, PlacesKnown DEF Sound, Typed, DetachConnect, Detach, Step, Move, joins
<1>3. LeftAlone'
  BY <1>1, <1>2 DEF Sound, Agreed, LeftAlone, LeftBefore
<1>4. Alone'
  BY <1>1, <1>2 DEF Sound, Agreed, Alone, Opening, Retrying, Early, Trying, Pausing
<1>5. Starting'
  BY <1>1, <1>2 DEF Sound, Agreed, Starting, Opening, Retrying, Early, Trying
<1>6. Waits'
  BY <1>1, <1>2 DEF Sound, Agreed, Waits
<1>7. Captures'
  BY <1>1, <1>2 DEF Sound, Agreed, Captures
<1>8. Losses'
  BY <1>1, <1>2 DEF Sound, Agreed, Losses, Opening, Losing
<1>9. Reconnects'
  BY <1>1, <1>2 DEF Sound, Agreed, Reconnects, Opening, Ending, Leaving
<1>10. Counted'
  BY <1>1, <1>2 DEF Sound, Agreed, Counted
<1>11. Shows'
  BY <1>1, <1>2 DEF Sound, Agreed, Shows, Ending
<1>12. Signalled'
  BY <1>1, <1>2 DEF Sound, Agreed, Signalled, Opening, Retrying, Early
<1>13. Unbroken'
  BY <1>1, <1>2 DEF Sound, Agreed, Unbroken, Opening, Losing
<1>14. Lasting'
  BY <1>1, <1>2
     DEF Sound, Agreed, Lasting, Opening, Retrying, Early, Trying, Losing, Pausing,
         Leaving
<1>15. Awaited'
  BY <1>1, <1>2 DEF Sound, Agreed, Awaited
<1>16. Agreed'
  BY <1>3, <1>4, <1>5, <1>6, <1>7, <1>8, <1>9, <1>10, <1>11, <1>12, <1>13, <1>14,
     <1>15 DEF Agreed
<1> QED
  BY <1>1, <1>16

\* It ends.
LEMMA ClearConnectingKeeps ==
  ASSUME Sound, NEW t \in Threads, ClearConnecting(t)
  PROVE  Placed' /\ Agreed'
<1>1. /\ Con = "clearConnecting" /\ Con' = "ended" /\ Snd' = Snd /\ Rcn' = Rcn
      /\ LeftBefore /\ Placed'
  <2>1. /\ pc[t] = "clearConnecting" /\ pc' = [pc EXCEPT ![t] = "ended"]
        /\ HandlesKept /\ JoinsKept
    BY DEF Sound, Typed, StreamType, HandlesKept, JoinsKept, ClearConnecting, Step,
           Move, joins
  <2>2. /\ "clearConnecting" \in ConnectPlaces \ {"awaitSend"}
        /\ "ended" \in ConnectPlaces \cup {"ended"}
    BY DEF ConnectPlaces, Trying, Early, Retrying, Opening, Ending
  <2> QED
    BY <2>1, <2>2, ConnectGoesOn DEF Sound
<1>2. /\ UNCHANGED <<output, user, button, joinable, joining, bad_join, lost, undone>>
      /\ ~stream'.connecting
      /\ stream'.active = stream.active
      /\ stream'.stop_event = stream.stop_event
      /\ stream'.posted = stream.posted
      /\ stream'.connect_thread = stream.connect_thread
      /\ stream'.send_thread = stream.send_thread
  BY DEF Sound, Typed, StreamType, ClearConnecting, Step, Move, joins
<1>3. LeftAlone'
  BY <1>1, <1>2 DEF Sound, Agreed, LeftAlone, LeftBefore
<1>4. Alone'
  BY <1>1, <1>2 DEF Sound, Agreed, Alone, Opening, Retrying, Early, Trying, Pausing
<1>5. Starting'
  BY <1>1, <1>2 DEF Sound, Agreed, Starting, Opening, Retrying, Early, Trying
<1>6. Waits'
  BY <1>1, <1>2 DEF Sound, Agreed, Waits
<1>7. Captures'
  BY <1>1, <1>2 DEF Sound, Agreed, Captures
<1>8. Losses'
  BY <1>1, <1>2 DEF Sound, Agreed, Losses, Opening, Losing
<1>9. Reconnects'
  BY <1>1, <1>2 DEF Sound, Agreed, Reconnects, Opening, Ending, Leaving
<1>10. Counted'
  BY <1>1, <1>2 DEF Sound, Agreed, Counted
<1>11. Shows'
  BY <1>1, <1>2 DEF Sound, Agreed, Captures, Shows, Ending, OutputActive
<1>12. Signalled'
  BY <1>1, <1>2 DEF Sound, Agreed, Signalled, Opening, Retrying, Early
<1>13. Unbroken'
  BY <1>1, <1>2 DEF Sound, Agreed, Unbroken, Opening, Losing
<1>14. Lasting'
  BY <1>1, <1>2
     DEF Sound, Agreed, Lasting, Opening, Retrying, Early, Trying, Losing, Pausing,
         Leaving
<1>15. Awaited'
  BY <1>1, <1>2 DEF Sound, Agreed, Awaited, Opening
<1>16. Agreed'
  BY <1>3, <1>4, <1>5, <1>6, <1>7, <1>8, <1>9, <1>10, <1>11, <1>12, <1>13, <1>14,
     <1>15 DEF Agreed
<1> QED
  BY <1>1, <1>16

\* A send thread is to stop.
LEMMA SendStopsKeeps ==
  ASSUME Sound, NEW t \in Threads, SendStops(t)
  PROVE  Placed' /\ Agreed'
<1>1. /\ Snd = "send" /\ Snd' = "close" /\ Con' = Con /\ Rcn' = Rcn
      /\ LeftBefore /\ Placed'
  <2>1. /\ pc[t] = "send" /\ pc' = [pc EXCEPT ![t] = "close"]
        /\ HandlesKept /\ JoinsKept
    BY DEF Sound, Typed, HandlesKept, JoinsKept, SendStops, Step, Move, joins
  <2>2. /\ "send" \in SendPlaces \ {"clearStreaming"}
        /\ "close" \in SendPlaces
    BY DEF SendPlaces, Losing
  <2> QED
    BY <2>1, <2>2, SendMoves DEF Sound
<1>2. UNCHANGED <<output, stream, user, button, joinable, joining, bad_join, lost,
                  undone>>
      /\ stream.stop_event
  BY DEF Sound, Typed, SendStops, Step, Move, joins
<1>3. LeftAlone'
  BY <1>1, <1>2 DEF Sound, Agreed, LeftAlone, LeftBefore
<1>4. Alone'
  BY <1>1, <1>2 DEF Sound, Agreed, Alone
<1>5. Starting'
  BY <1>1, <1>2 DEF Sound, Agreed, Starting
<1>6. Waits'
  BY <1>1, <1>2 DEF Sound, Agreed, Waits
<1>7. Captures'
  BY <1>1, <1>2 DEF Sound, Agreed, Captures
<1>8. Losses'
  BY <1>1, <1>2 DEF Sound, Agreed, Losses, Opening, Losing
<1>9. Reconnects'
  BY <1>1, <1>2 DEF Sound, Agreed, Reconnects
<1>10. Counted'
  BY <1>1, <1>2 DEF Sound, Agreed, Counted
<1>11. Shows'
  BY <1>1, <1>2 DEF Sound, Agreed, Shows, OutputActive
<1>12. Signalled'
  BY <1>1, <1>2 DEF Sound, Agreed, Signalled
<1>13. Unbroken'
  BY <1>1, <1>2 DEF Sound, Agreed, Unbroken, Opening, Losing
<1>14. Lasting'
  BY <1>1, <1>2
     DEF Sound, Agreed, Lasting, Opening, Retrying, Early, Trying, Losing, Pausing,
         Leaving
<1>15. Awaited'
  BY <1>1, <1>2 DEF Sound, Agreed, Awaited
<1>16. Agreed'
  BY <1>3, <1>4, <1>5, <1>6, <1>7, <1>8, <1>9, <1>10, <1>11, <1>12, <1>13, <1>14,
     <1>15 DEF Agreed
<1> QED
  BY <1>1, <1>16

\* It sends a packet.
LEMMA SendPacketKeeps ==
  ASSUME Sound, NEW t \in Threads, SendPacket(t)
  PROVE  Placed' /\ Agreed'
<1>1. /\ Snd = "send" /\ Snd' = "send" /\ Con' = Con /\ Rcn' = Rcn
      /\ LeftBefore /\ Placed'
  <2>1. /\ pc[t] = "send" /\ pc' = [pc EXCEPT ![t] = "send"]
        /\ HandlesKept /\ JoinsKept
    BY DEF Sound, Typed, StreamType, HandlesKept, JoinsKept, SendPacket, Step, Move,
           joins
  <2>2. /\ "send" \in SendPlaces \ {"clearStreaming"}
        /\ "send" \in SendPlaces
    BY DEF SendPlaces, Losing
  <2> QED
    BY <2>1, <2>2, SendMoves DEF Sound
<1>2. /\ UNCHANGED <<output, user, button, joinable, joining, bad_join, lost, undone>>
      /\ stream'.connecting = stream.connecting
      /\ stream'.active = stream.active
      /\ stream'.stop_event = stream.stop_event
      /\ stream.posted
      /\ stream'.connect_thread = stream.connect_thread
      /\ stream'.send_thread = stream.send_thread
  BY DEF Sound, Typed, StreamType, SendPacket, Step, Move, joins
<1>3. LeftAlone'
  BY <1>1, <1>2 DEF Sound, Agreed, LeftAlone, LeftBefore
<1>4. Alone'
  BY <1>1, <1>2 DEF Sound, Agreed, Alone
<1>5. Starting'
  BY <1>1, <1>2 DEF Sound, Agreed, Starting
<1>6. Waits'
  BY <1>1, <1>2 DEF Sound, Agreed, Waits
<1>7. Captures'
  BY <1>1, <1>2 DEF Sound, Agreed, Captures
<1>8. Losses'
  BY <1>1, <1>2 DEF Sound, Agreed, Losses
<1>9. Reconnects'
  BY <1>1, <1>2 DEF Sound, Agreed, Reconnects
<1>10. Counted'
  BY <1>1, <1>2 DEF Sound, Agreed, Counted
<1>11. Shows'
  BY <1>1, <1>2 DEF Sound, Agreed, Shows, OutputActive
<1>12. Signalled'
  BY <1>1, <1>2 DEF Sound, Agreed, Signalled
<1>13. Unbroken'
  BY <1>1, <1>2 DEF Sound, Agreed, Unbroken
<1>14. Lasting'
  BY <1>1, <1>2 DEF Sound, Agreed, Lasting
<1>15. Awaited'
  BY <1>1, <1>2 DEF Sound, Agreed, Awaited
<1>16. Agreed'
  BY <1>3, <1>4, <1>5, <1>6, <1>7, <1>8, <1>9, <1>10, <1>11, <1>12, <1>13, <1>14,
     <1>15 DEF Agreed
<1> QED
  BY <1>1, <1>16

\* It loses the connection.
LEMMA SendFailsKeeps ==
  ASSUME Sound, NEW t \in Threads, SendFails(t), ~LossRaces
  PROVE  Placed' /\ Agreed'
<1>1. /\ Snd = "send" /\ Snd' = "close" /\ Con' = Con /\ Rcn' = Rcn
      /\ LeftBefore /\ Placed'
  <2>1. /\ pc[t] = "send" /\ pc' = [pc EXCEPT ![t] = "close"]
        /\ HandlesKept /\ JoinsKept
    BY DEF Sound, Typed, HandlesKept, JoinsKept, SendFails, Acts, Step, Move, joins
  <2>2. /\ "send" \in SendPlaces \ {"clearStreaming"}
        /\ "close" \in SendPlaces
    BY DEF SendPlaces, Losing
  <2> QED
    BY <2>1, <2>2, SendMoves DEF Sound
<1>2. /\ UNCHANGED <<output, stream, user, button, joinable, joining, bad_join, undone>>
      /\ lost'
      /\ ~stream.stop_event /\ stream.posted
  BY DEF Sound, Typed, SendFails, Acts, Step, Move, joins
<1>3. /\ Con \notin Ending \cup {"activate", "signalStart"}
      /\ Rcn \notin Leaving
      /\ ~SendLeftBehind /\ ~ReconnectLeftBehind
  <2>1. Departing = {} /\ At({"activate", "signalStart"}) = {}
    BY DEF LossRaces
  <2>2. Con \notin {"activate", "signalStart"}
    BY <2>1, NobodyAt DEF Sound
  <2> QED
    BY <2>1, <2>2, NoneDeparts DEF Sound
<1>4. LeftAlone'
  BY <1>1, <1>2, <1>3 DEF Sound, Agreed, LeftAlone, LeftBefore
<1>5. Alone'
  BY <1>1, <1>2 DEF Sound, Agreed, Alone
<1>6. Starting'
  BY <1>1, <1>2 DEF Sound, Agreed, Starting
<1>7. Waits'
  BY <1>1, <1>2 DEF Sound, Agreed, Waits
<1>8. Captures'
  BY <1>1, <1>2 DEF Sound, Agreed, Captures
<1>9. Losses'
  <2>1. Con \notin {"setStreaming", "beginCapture"}
    BY <1>1, <1>2 DEF Sound, Agreed, Losses
  <2>2. output.active
    BY <1>1, <1>2, <1>3, <2>1 DEF Sound, Agreed, Captures
  <2>3. Con \notin Trying
    BY <1>3, <2>2 DEF Sound, Agreed, Alone
  <2>4. Con = "ended"
    BY <1>3, <2>3, PlacesKnown DEF Sound, ConnectPlaces, Trying, Ending, Early, Opening
  <2>5. stream.send_thread \in joinable
    BY <1>1, <2>4 DEF Sound, Agreed, Losses
  <2>6. ~output.reconnecting
    BY <2>4, <2>5 DEF Sound, Agreed, Reconnects, Opening
  <2>7. Rcn = "ended"
    BY <1>3, <2>6, PlacesKnown
       DEF Sound, Agreed, Waits, ReconnectPlaces, Pausing, Leaving
  <2> QED
    BY <1>1, <1>2, <2>4, <2>5, <2>7 DEF Losses, Losing, Opening
<1>10. Reconnects'
  BY <1>1, <1>2 DEF Sound, Agreed, Reconnects
<1>11. Counted'
  BY <1>1, <1>2 DEF Sound, Agreed, Counted
<1>12. Shows'
  BY <1>1, <1>2 DEF Sound, Agreed, Shows, OutputActive
<1>13. Signalled'
  BY <1>1, <1>2 DEF Sound, Agreed, Signalled
<1>14. Unbroken'
  BY <1>1, <1>2 DEF Sound, Agreed, Unbroken
<1>15. Lasting'
  BY <1>1, <1>2
     DEF Sound, Agreed, Lasting, Opening, Retrying, Early, Trying, Losing, Pausing,
         Leaving
<1>16. Awaited'
  BY <1>1, <1>2 DEF Sound, Agreed, Awaited
<1>17. Agreed'
  BY <1>4, <1>5, <1>6, <1>7, <1>8, <1>9, <1>10, <1>11, <1>12, <1>13, <1>14, <1>15,
     <1>16 DEF Agreed
<1> QED
  BY <1>1, <1>17

\* It closes the connection, and detaches itself unless the stream stops.
LEMMA CloseSendKeeps ==
  ASSUME Sound, NEW t \in Threads, CloseSend(t)
  PROVE  Placed' /\ Agreed'
<1>1. /\ Snd = "close"
      /\ Snd' = (IF stream.stop_event THEN "resetStop" ELSE "signalLost")
      /\ Con' = Con /\ Rcn' = Rcn
      /\ LeftBefore /\ Placed'
  <2>1. /\ pc[t] = "close"
        /\ pc' = [pc EXCEPT ![t] = (IF stream.stop_event THEN "resetStop"
                                                            ELSE "signalLost")]
        /\ HandlesKept /\ JoinsKept
    BY DEF Sound, Typed, HandlesKept, JoinsKept, CloseSend, Detach, Step, Move, joins
  <2>2. /\ "close" \in SendPlaces \ {"clearStreaming"}
        /\ (IF stream.stop_event THEN "resetStop" ELSE "signalLost") \in SendPlaces
    BY DEF SendPlaces, Losing
  <2> QED
    BY <2>1, <2>2, SendMoves DEF Sound
<1>2. /\ UNCHANGED <<output, stream, user, button, joining, bad_join, lost, undone>>
      /\ stream.connect_thread \in joinable' <=> stream.connect_thread \in joinable
      /\ stream.send_thread \in joinable'
           <=> stream.send_thread \in joinable /\ stream.stop_event
  BY <1>1, PlacesKnown DEF Sound, Typed, CloseSend, Detach, Step, Move, joins
<1>3. LeftAlone'
  BY <1>1, <1>2 DEF Sound, Agreed, LeftAlone, LeftBefore
<1>4. Alone'
  BY <1>1, <1>2 DEF Sound, Agreed, Alone, Losses, Opening, Retrying, Early, Trying
<1>5. Starting'
  BY <1>1, <1>2 DEF Sound, Agreed, Starting
<1>6. Waits'
  BY <1>1, <1>2 DEF Sound, Agreed, Waits
<1>7. Captures'
  BY <1>1, <1>2 DEF Sound, Agreed, Captures
<1>8. Losses'
  BY <1>1, <1>2 DEF Sound, Agreed, Losses, Opening, Losing
<1>9. Reconnects'
  BY <1>1, <1>2 DEF Sound, Agreed, Reconnects
<1>10. Counted'
  BY <1>1, <1>2 DEF Sound, Agreed, Counted
<1>11. Shows'
  BY <1>1, <1>2 DEF Sound, Agreed, Losses, Shows, Ending
<1>12. Signalled'
  BY <1>1, <1>2 DEF Sound, Agreed, Signalled
<1>13. Unbroken'
  BY <1>1, <1>2 DEF Sound, Agreed, Unbroken, Opening, Losing
<1>14. Lasting'
  BY <1>1, <1>2, PlacesKnown
     DEF Sound, Agreed, Starting, Captures, Losses, Lasting, Opening, Early, Trying,
         Losing
<1>15. Awaited'
  BY <1>1, <1>2 DEF Sound, Agreed, Awaited
<1>16. Agreed'
  BY <1>3, <1>4, <1>5, <1>6, <1>7, <1>8, <1>9, <1>10, <1>11, <1>12, <1>13, <1>14,
     <1>15 DEF Agreed
<1> QED
  BY <1>1, <1>16

\* It signals that the connection is lost.
LEMMA SignalLostKeeps ==
  ASSUME Sound, NEW t \in Threads, SignalLost(t)
  PROVE  Placed' /\ Agreed'
<1>1. /\ Snd = "signalLost" /\ Snd' = "countRetrySend" /\ Con' = Con /\ Rcn' = Rcn
      /\ LeftBefore /\ Placed'
  <2>1. /\ pc[t] = "signalLost" /\ pc' = [pc EXCEPT ![t] = "countRetrySend"]
        /\ HandlesKept /\ JoinsKept
    BY DEF Sound, Typed, OutputType, HandlesKept, JoinsKept, SignalLost,
           EndDataCapture, Step, Move, joins
  <2>2. /\ "signalLost" \in SendPlaces \ {"clearStreaming"}
        /\ "countRetrySend" \in SendPlaces
    BY DEF SendPlaces, Losing
  <2> QED
    BY <2>1, <2>2, SendMoves DEF Sound
<1>2. /\ UNCHANGED <<stream, user, button, joinable, joining, bad_join, lost, undone>>
      /\ ~output'.active
      /\ output'.capturing <=> output.capturing /\ ~output.active
      /\ output'.stopped = output.stopped
      /\ output'.reconnecting = output.reconnecting
      /\ output'.reconnect_retries = output.reconnect_retries
      /\ output'.reconnect_stop_event = output.reconnect_stop_event
      /\ output'.reconnect_thread_active = output.reconnect_thread_active
  BY DEF Sound, Typed, OutputType, SignalLost, EndDataCapture, Step, Move, joins
<1>3. LeftAlone'
  BY <1>1, <1>2 DEF Sound, Agreed, LeftAlone, LeftBefore
<1>4. Alone'
  BY <1>1, <1>2 DEF Sound, Agreed, Alone
<1>5. Starting'
  BY <1>1, <1>2 DEF Sound, Agreed, Starting
<1>6. Waits'
  BY <1>1, <1>2 DEF Sound, Agreed, Waits
<1>7. Captures'
  BY <1>1, <1>2 DEF Sound, Agreed, Captures, Losses, Losing
<1>8. Losses'
  BY <1>1, <1>2 DEF Sound, Agreed, Losses, Opening, Losing
<1>9. Reconnects'
  BY <1>1, <1>2 DEF Sound, Agreed, Reconnects
<1>10. Counted'
  BY <1>1, <1>2 DEF Sound, Agreed, Counted
<1>11. Shows'
  BY <1>1, <1>2 DEF Sound, Agreed, Losses, Shows, Losing
<1>12. Signalled'
  BY <1>1, <1>2 DEF Sound, Agreed, Signalled
<1>13. Unbroken'
  BY <1>1, <1>2 DEF Sound, Agreed, Unbroken, Opening, Losing
<1>14. Lasting'
  BY <1>1, <1>2
     DEF Sound, Agreed, Lasting, Opening, Retrying, Early, Trying, Losing, Pausing,
         Leaving
<1>15. Awaited'
  BY <1>1, <1>2 DEF Sound, Agreed, Awaited
<1>16. Agreed'
  BY <1>3, <1>4, <1>5, <1>6, <1>7, <1>8, <1>9, <1>10, <1>11, <1>12, <1>13, <1>14,
     <1>15 DEF Agreed
<1> QED
  BY <1>1, <1>16

\* It resets the stop event.
LEMMA ResetStopKeeps ==
  ASSUME Sound, NEW t \in Threads, ResetStop(t)
  PROVE  Placed' /\ Agreed'
<1>1. /\ Snd = "resetStop" /\ Snd' = "clearStreaming" /\ Con' = Con /\ Rcn' = Rcn
      /\ LeftBefore /\ Placed'
  <2>1. /\ pc[t] = "resetStop" /\ pc' = [pc EXCEPT ![t] = "clearStreaming"]
        /\ HandlesKept /\ JoinsKept
    BY DEF Sound, Typed, StreamType, HandlesKept, JoinsKept, ResetStop, Step, Move,
           joins
  <2>2. /\ "resetStop" \in SendPlaces \ {"clearStreaming"}
        /\ "clearStreaming" \in SendPlaces
    BY DEF SendPlaces, Losing
  <2> QED
    BY <2>1, <2>2, SendMoves DEF Sound
<1>2. /\ UNCHANGED <<output, user, button, joinable, joining, bad_join, lost, undone>>
      /\ stream'.connecting = stream.connecting
      /\ stream'.active = stream.active
      /\ ~stream'.stop_event
      /\ stream'.posted = stream.posted
      /\ stream'.connect_thread = stream.connect_thread
      /\ stream'.send_thread = stream.send_thread
  BY DEF Sound, Typed, StreamType, ResetStop, Step, Move, joins
<1>3. LeftAlone'
  BY <1>1, <1>2 DEF Sound, Agreed, LeftAlone, LeftBefore
<1>4. Alone'
  BY <1>1, <1>2 DEF Sound, Agreed, Alone
<1>5. Starting'
  BY <1>1, <1>2 DEF Sound, Agreed, Starting
<1>6. Waits'
  BY <1>1, <1>2 DEF Sound, Agreed, Alone, Waits, Reconnects, Trying, Pausing
<1>7. Captures'
  BY <1>1, <1>2 DEF Sound, Agreed, Captures
<1>8. Losses'
  BY <1>1, <1>2 DEF Sound, Agreed, Losses, Opening, Losing
<1>9. Reconnects'
  BY <1>1, <1>2 DEF Sound, Agreed, Reconnects
<1>10. Counted'
  BY <1>1, <1>2 DEF Sound, Agreed, Counted
<1>11. Shows'
  BY <1>1, <1>2 DEF Sound, Agreed, Shows
<1>12. Signalled'
  BY <1>1, <1>2
     DEF Sound, Agreed, Alone, Starting, Waits, Reconnects, Signalled, Opening,
         Retrying, Early, Trying, Pausing
<1>13. Unbroken'
  BY <1>1, <1>2 DEF Sound, Agreed, Unbroken, Opening, Losing
<1>14. Lasting'
  BY <1>1, <1>2 DEF Sound, Agreed, Waits, Lasting, Losing, Pausing
<1>15. Awaited'
  BY <1>1, <1>2 DEF Sound, Agreed, Awaited
<1>16. Agreed'
  BY <1>3, <1>4, <1>5, <1>6, <1>7, <1>8, <1>9, <1>10, <1>11, <1>12, <1>13, <1>14,
     <1>15 DEF Agreed
<1> QED
  BY <1>1, <1>16

\* A connect thread finds that the last attempt was made.
LEMMA ConnectGivesUpKeeps ==
  ASSUME Sound, NEW t \in Threads, GiveUp(t, "countRetry", "detach")
  PROVE  Placed' /\ Agreed'
<1>1. /\ Con = "countRetry" /\ Con' = "detach" /\ Snd' = Snd /\ Rcn' = Rcn
      /\ LeftBefore /\ Placed'
  <2>1. /\ pc[t] = "countRetry" /\ pc' = [pc EXCEPT ![t] = "detach"]
        /\ HandlesKept /\ JoinsKept
    BY DEF Sound, Typed, OutputType, HandlesKept, JoinsKept, GiveUp, SignalStop,
           Step, Move, joins
  <2>2. /\ "countRetry" \in ConnectPlaces \ {"awaitSend"}
        /\ "detach" \in ConnectPlaces \cup {"ended"}
    BY DEF ConnectPlaces, Trying, Early, Retrying, Opening, Ending
  <2> QED
    BY <2>1, <2>2, ConnectGoesOn DEF Sound
<1>2. /\ UNCHANGED <<stream, user, joinable, joining, bad_join, lost, undone>>
      /\ output'.active = output.active
      /\ output'.capturing = output.capturing
      /\ output'.stopped = output.stopped
      /\ ~output'.reconnecting
      /\ output'.reconnect_retries = Made
      /\ output'.reconnect_stop_event = output.reconnect_stop_event
      /\ output'.reconnect_thread_active = output.reconnect_thread_active
      /\ button' = "idle"
      /\ Made \in Nat /\ Made >= reconnect_retry_max
      /\ Made = IF output.reconnecting THEN output.reconnect_retries ELSE 0
      /\ reconnect_retry_max \in Nat
  BY StreamOutputAssumption
     DEF Sound, Typed, OutputType, Made, NoneLeft, GiveUp, SignalStop, Step, Move, joins
<1>3. LeftAlone'
  BY <1>1, <1>2 DEF Sound, Agreed, LeftAlone, LeftBefore
<1>4. Alone'
  BY <1>1, <1>2 DEF Sound, Agreed, Alone, Opening, Retrying, Early, Trying, Pausing
<1>5. Starting'
  BY <1>1, <1>2 DEF Sound, Agreed, Starting, Opening, Retrying, Early, Trying
<1>6. Waits'
  BY <1>1, <1>2 DEF Sound, Agreed, Alone, Waits, Retrying, Early, Trying
<1>7. Captures'
  BY <1>1, <1>2 DEF Sound, Agreed, Captures
<1>8. Losses'
  BY <1>1, <1>2 DEF Sound, Agreed, Losses, Opening, Losing
<1>9. Reconnects'
  BY <1>1, <1>2 DEF Sound, Agreed, Reconnects
<1>10. Counted'
  BY <1>1, <1>2 DEF Sound, Agreed, Losses, Counted, Losing
<1>11. Shows'
  BY <1>1, <1>2 DEF Sound, Agreed, Shows
<1>12. Signalled'
  BY <1>1, <1>2 DEF Sound, Agreed, Signalled, Opening, Retrying, Early
<1>13. Unbroken'
  BY <1>1, <1>2 DEF Sound, Agreed, Starting, Unbroken, Opening, Retrying, Early
<1>14. Lasting'
  BY <1>1, <1>2
     DEF Sound, Agreed, Alone, Reconnects, Lasting, Opening, Retrying, Early, Trying,
         Losing
<1>15. Awaited'
  BY <1>1, <1>2 DEF Sound, Agreed, Awaited
<1>16. Agreed'
  BY <1>3, <1>4, <1>5, <1>6, <1>7, <1>8, <1>9, <1>10, <1>11, <1>12, <1>13, <1>14,
     <1>15 DEF Agreed
<1> QED
  BY <1>1, <1>16

\* A connect thread finds that there is an attempt left.
LEMMA ConnectGoesOnKeeps ==
  ASSUME Sound, NEW t \in Threads, OneMore(t, "countRetry", "setReconnecting")
  PROVE  Placed' /\ Agreed'
<1>1. /\ Con = "countRetry" /\ Con' = "setReconnecting" /\ Snd' = Snd /\ Rcn' = Rcn
      /\ LeftBefore /\ Placed'
  <2>1. /\ pc[t] = "countRetry" /\ pc' = [pc EXCEPT ![t] = "setReconnecting"]
        /\ HandlesKept /\ JoinsKept
    BY DEF Sound, Typed, OutputType, HandlesKept, JoinsKept, OneMore, Step, Move, joins
  <2>2. /\ "countRetry" \in ConnectPlaces \ {"awaitSend"}
        /\ "setReconnecting" \in ConnectPlaces \cup {"ended"}
    BY DEF ConnectPlaces, Trying, Early, Retrying, Opening, Ending
  <2> QED
    BY <2>1, <2>2, ConnectGoesOn DEF Sound
<1>2. /\ UNCHANGED <<stream, user, button, joinable, joining, bad_join, lost, undone>>
      /\ output'.active = output.active
      /\ output'.capturing = output.capturing
      /\ output'.stopped = output.stopped
      /\ output'.reconnecting = output.reconnecting
      /\ output'.reconnect_retries = Made
      /\ output'.reconnect_stop_event = output.reconnect_stop_event
      /\ output'.reconnect_thread_active = output.reconnect_thread_active
      /\ Made \in Nat /\ Made < reconnect_retry_max
      /\ reconnect_retry_max \in Nat
  BY StreamOutputAssumption
     DEF Sound, Typed, OutputType, Made, NoneLeft, OneMore, Step, Move, joins
<1>3. LeftAlone'
  BY <1>1, <1>2 DEF Sound, Agreed, LeftAlone, LeftBefore
<1>4. Alone'
  BY <1>1, <1>2 DEF Sound, Agreed, Alone, Opening, Retrying, Early, Trying, Pausing
<1>5. Starting'
  BY <1>1, <1>2 DEF Sound, Agreed, Starting, Opening, Retrying, Early, Trying
<1>6. Waits'
  BY <1>1, <1>2 DEF Sound, Agreed, Waits
<1>7. Captures'
  BY <1>1, <1>2 DEF Sound, Agreed, Captures
<1>8. Losses'
  BY <1>1, <1>2 DEF Sound, Agreed, Losses, Opening, Losing
<1>9. Reconnects'
  BY <1>1, <1>2 DEF Sound, Agreed, Reconnects, Opening, Ending, Leaving
<1>10. Counted'
  BY <1>1, <1>2 DEF Sound, Agreed, Counted
<1>11. Shows'
  BY <1>1, <1>2 DEF Sound, Agreed, Shows, Ending
<1>12. Signalled'
  BY <1>1, <1>2 DEF Sound, Agreed, Signalled, Opening, Retrying, Early
<1>13. Unbroken'
  BY <1>1, <1>2 DEF Sound, Agreed, Unbroken, Opening, Losing
<1>14. Lasting'
  BY <1>1, <1>2
     DEF Sound, Agreed, Lasting, Opening, Retrying, Early, Trying, Losing, Pausing,
         Leaving
<1>15. Awaited'
  BY <1>1, <1>2 DEF Sound, Agreed, Awaited, Opening
<1>16. Agreed'
  BY <1>3, <1>4, <1>5, <1>6, <1>7, <1>8, <1>9, <1>10, <1>11, <1>12, <1>13, <1>14,
     <1>15 DEF Agreed
<1> QED
  BY <1>1, <1>16

\* A connect thread makes one attempt more.
LEMMA ConnectSetsReconnectingKeeps ==
  ASSUME Sound, NEW t \in Threads, SetReconnecting(t, "setReconnecting", "retry")
  PROVE  Placed' /\ Agreed'
<1>1. /\ Con = "setReconnecting" /\ Con' = "retry" /\ Snd' = Snd /\ Rcn' = Rcn
      /\ LeftBefore /\ Placed'
  <2>1. /\ pc[t] = "setReconnecting" /\ pc' = [pc EXCEPT ![t] = "retry"]
        /\ HandlesKept /\ JoinsKept
    BY DEF Sound, Typed, OutputType, HandlesKept, JoinsKept, SetReconnecting, Step,
           Move, joins
  <2>2. /\ "setReconnecting" \in ConnectPlaces \ {"awaitSend"}
        /\ "retry" \in ConnectPlaces \cup {"ended"}
    BY DEF ConnectPlaces, Trying, Early, Retrying, Opening, Ending
  <2> QED
    BY <2>1, <2>2, ConnectGoesOn DEF Sound
<1>2. /\ UNCHANGED <<stream, user, button, joinable, joining, bad_join, lost>>
      /\ output'.active = output.active
      /\ output'.capturing = output.capturing
      /\ output'.stopped = output.stopped
      /\ output'.reconnecting
      /\ output'.reconnect_retries = output.reconnect_retries + 1
      /\ output'.reconnect_stop_event <=>
           output.reconnect_stop_event /\ output.reconnecting
      /\ output'.reconnect_thread_active = output.reconnect_thread_active
      /\ undone' <=> undone \/ (output.stopped /\ ~output.reconnecting)
      /\ output.reconnect_retries \in Nat /\ reconnect_retry_max \in Nat
  BY StreamOutputAssumption
     DEF Sound, Typed, OutputType, SetReconnecting, Step, Move, joins
<1>3. LeftAlone'
  BY <1>1, <1>2 DEF Sound, Agreed, LeftAlone, LeftBefore
<1>4. Alone'
  BY <1>1, <1>2 DEF Sound, Agreed, Alone, Opening, Retrying, Early, Trying, Pausing
<1>5. Starting'
  BY <1>1, <1>2 DEF Sound, Agreed, Starting, Opening, Retrying, Early, Trying
<1>6. Waits'
  BY <1>1, <1>2 DEF Sound, Agreed, Waits
<1>7. Captures'
  BY <1>1, <1>2 DEF Sound, Agreed, Captures
<1>8. Losses'
  BY <1>1, <1>2 DEF Sound, Agreed, Losses, Opening, Losing
<1>9. Reconnects'
  BY <1>1, <1>2
     DEF Sound, Agreed, Alone, Starting, Reconnects, Opening, Retrying, Early,
         Trying, Ending
<1>10. Counted'
  BY <1>1, <1>2 DEF Sound, Agreed, Losses, Counted, Losing
<1>11. Shows'
  BY <1>1, <1>2 DEF Sound, Agreed, Shows, Ending
<1>12. Signalled'
  BY <1>1, <1>2
     DEF Sound, Agreed, Alone, Starting, Signalled, Opening, Retrying, Early, Trying
<1>13. Unbroken'
  BY <1>1, <1>2 DEF Sound, Agreed, Alone, Starting, Unbroken, Retrying, Early, Trying
<1>14. Lasting'
  BY <1>1, <1>2 DEF Sound, Agreed, Alone, Lasting, Retrying, Early, Trying, Leaving
<1>15. Awaited'
  BY <1>1, <1>2 DEF Sound, Agreed, Awaited, Opening
<1>16. Agreed'
  BY <1>3, <1>4, <1>5, <1>6, <1>7, <1>8, <1>9, <1>10, <1>11, <1>12, <1>13, <1>14,
     <1>15 DEF Agreed
<1> QED
  BY <1>1, <1>16

\* A send thread finds that the last attempt was made.
LEMMA SendGivesUpKeeps ==
  ASSUME Sound, NEW t \in Threads, GiveUp(t, "countRetrySend", "resetStop")
  PROVE  Placed' /\ Agreed'
<1>1. /\ Snd = "countRetrySend" /\ Snd' = "resetStop" /\ Con' = Con /\ Rcn' = Rcn
      /\ LeftBefore /\ Placed'
  <2>1. /\ pc[t] = "countRetrySend" /\ pc' = [pc EXCEPT ![t] = "resetStop"]
        /\ HandlesKept /\ JoinsKept
    BY DEF Sound, Typed, OutputType, HandlesKept, JoinsKept, GiveUp, SignalStop,
           Step, Move, joins
  <2>2. /\ "countRetrySend" \in SendPlaces \ {"clearStreaming"}
        /\ "resetStop" \in SendPlaces
    BY DEF SendPlaces, Losing
  <2> QED
    BY <2>1, <2>2, SendMoves DEF Sound
<1>2. /\ UNCHANGED <<stream, user, joinable, joining, bad_join, lost, undone>>
      /\ output'.active = output.active
      /\ output'.capturing = output.capturing
      /\ output'.stopped = output.stopped
      /\ ~output'.reconnecting
      /\ output'.reconnect_retries = Made
      /\ output'.reconnect_stop_event = output.reconnect_stop_event
      /\ output'.reconnect_thread_active = output.reconnect_thread_active
      /\ button' = "idle"
      /\ Made \in Nat /\ Made >= reconnect_retry_max
      /\ Made = IF output.reconnecting THEN output.reconnect_retries ELSE 0
      /\ reconnect_retry_max \in Nat
  BY StreamOutputAssumption
     DEF Sound, Typed, OutputType, Made, NoneLeft, GiveUp, SignalStop, Step, Move, joins
<1>3. LeftAlone'
  BY <1>1, <1>2 DEF Sound, Agreed, LeftAlone, LeftBefore
<1>4. Alone'
  BY <1>1, <1>2 DEF Sound, Agreed, Alone, Losses, Losing
<1>5. Starting'
  BY <1>1, <1>2 DEF Sound, Agreed, Starting, Losses, Early, Losing
<1>6. Waits'
  BY <1>1, <1>2 DEF Sound, Agreed, Waits, Losses, Losing, Pausing
<1>7. Captures'
  BY <1>1, <1>2 DEF Sound, Agreed, Captures
<1>8. Losses'
  BY <1>1, <1>2 DEF Sound, Agreed, Losses, Opening, Losing
<1>9. Reconnects'
  BY <1>1, <1>2 DEF Sound, Agreed, Reconnects
<1>10. Counted'
  BY <1>1, <1>2 DEF Sound, Agreed, Losses, Counted, Losing
<1>11. Shows'
  BY <1>1, <1>2 DEF Sound, Agreed, Shows
<1>12. Signalled'
  BY <1>1, <1>2 DEF Sound, Agreed, Signalled
<1>13. Unbroken'
  BY <1>1, <1>2 DEF Sound, Agreed, Unbroken, Opening, Losing
<1>14. Lasting'
  BY <1>1, <1>2
     DEF Sound, Agreed, Captures, Losses, Lasting, Retrying, Early, Trying, Losing,
         Pausing
<1>15. Awaited'
  BY <1>1, <1>2 DEF Sound, Agreed, Awaited
<1>16. Agreed'
  BY <1>3, <1>4, <1>5, <1>6, <1>7, <1>8, <1>9, <1>10, <1>11, <1>12, <1>13, <1>14,
     <1>15 DEF Agreed
<1> QED
  BY <1>1, <1>16

\* A send thread finds that there is an attempt left.
LEMMA SendGoesOnKeeps ==
  ASSUME Sound, NEW t \in Threads, OneMore(t, "countRetrySend", "setReconnectingSend")
  PROVE  Placed' /\ Agreed'
<1>1. /\ Snd = "countRetrySend" /\ Snd' = "setReconnectingSend"
      /\ Con' = Con /\ Rcn' = Rcn
      /\ LeftBefore /\ Placed'
  <2>1. /\ pc[t] = "countRetrySend" /\ pc' = [pc EXCEPT ![t] = "setReconnectingSend"]
        /\ HandlesKept /\ JoinsKept
    BY DEF Sound, Typed, OutputType, HandlesKept, JoinsKept, OneMore, Step, Move, joins
  <2>2. /\ "countRetrySend" \in SendPlaces \ {"clearStreaming"}
        /\ "setReconnectingSend" \in SendPlaces
    BY DEF SendPlaces, Losing
  <2> QED
    BY <2>1, <2>2, SendMoves DEF Sound
<1>2. /\ UNCHANGED <<stream, user, button, joinable, joining, bad_join, lost, undone>>
      /\ output'.active = output.active
      /\ output'.capturing = output.capturing
      /\ output'.stopped = output.stopped
      /\ output'.reconnecting = output.reconnecting
      /\ output'.reconnect_retries = Made
      /\ output'.reconnect_stop_event = output.reconnect_stop_event
      /\ output'.reconnect_thread_active = output.reconnect_thread_active
      /\ Made \in Nat /\ Made < reconnect_retry_max
      /\ reconnect_retry_max \in Nat
  BY StreamOutputAssumption
     DEF Sound, Typed, OutputType, Made, NoneLeft, OneMore, Step, Move, joins
<1>3. LeftAlone'
  BY <1>1, <1>2 DEF Sound, Agreed, LeftAlone, LeftBefore
<1>4. Alone'
  BY <1>1, <1>2 DEF Sound, Agreed, Alone
<1>5. Starting'
  BY <1>1, <1>2 DEF Sound, Agreed, Starting
<1>6. Waits'
  BY <1>1, <1>2 DEF Sound, Agreed, Waits
<1>7. Captures'
  BY <1>1, <1>2 DEF Sound, Agreed, Captures
<1>8. Losses'
  BY <1>1, <1>2 DEF Sound, Agreed, Losses, Opening, Losing
<1>9. Reconnects'
  BY <1>1, <1>2 DEF Sound, Agreed, Reconnects
<1>10. Counted'
  BY <1>1, <1>2 DEF Sound, Agreed, Counted
<1>11. Shows'
  BY <1>1, <1>2 DEF Sound, Agreed, Shows
<1>12. Signalled'
  BY <1>1, <1>2 DEF Sound, Agreed, Signalled
<1>13. Unbroken'
  BY <1>1, <1>2 DEF Sound, Agreed, Unbroken, Opening, Losing
<1>14. Lasting'
  BY <1>1, <1>2
     DEF Sound, Agreed, Lasting, Opening, Retrying, Early, Trying, Losing, Pausing,
         Leaving
<1>15. Awaited'
  BY <1>1, <1>2 DEF Sound, Agreed, Awaited
<1>16. Agreed'
  BY <1>3, <1>4, <1>5, <1>6, <1>7, <1>8, <1>9, <1>10, <1>11, <1>12, <1>13, <1>14,
     <1>15 DEF Agreed
<1> QED
  BY <1>1, <1>16

\* A send thread makes one attempt more.
LEMMA SendSetsReconnectingKeeps ==
  ASSUME Sound, NEW t \in Threads,
         SetReconnecting(t, "setReconnectingSend", "retrySend")
  PROVE  Placed' /\ Agreed'
<1>1. /\ Snd = "setReconnectingSend" /\ Snd' = "retrySend" /\ Con' = Con /\ Rcn' = Rcn
      /\ LeftBefore /\ Placed'
  <2>1. /\ pc[t] = "setReconnectingSend" /\ pc' = [pc EXCEPT ![t] = "retrySend"]
        /\ HandlesKept /\ JoinsKept
    BY DEF Sound, Typed, OutputType, HandlesKept, JoinsKept, SetReconnecting, Step,
           Move, joins
  <2>2. /\ "setReconnectingSend" \in SendPlaces \ {"clearStreaming"}
        /\ "retrySend" \in SendPlaces
    BY DEF SendPlaces, Losing
  <2> QED
    BY <2>1, <2>2, SendMoves DEF Sound
<1>2. /\ UNCHANGED <<stream, user, button, joinable, joining, bad_join, lost>>
      /\ output'.active = output.active
      /\ output'.capturing = output.capturing
      /\ output'.stopped = output.stopped
      /\ output'.reconnecting
      /\ output'.reconnect_retries = output.reconnect_retries + 1
      /\ output'.reconnect_stop_event <=>
           output.reconnect_stop_event /\ output.reconnecting
      /\ output'.reconnect_thread_active = output.reconnect_thread_active
      /\ undone' <=> undone \/ (output.stopped /\ ~output.reconnecting)
      /\ output.reconnect_retries \in Nat /\ reconnect_retry_max \in Nat
  BY StreamOutputAssumption
     DEF Sound, Typed, OutputType, SetReconnecting, Step, Move, joins
<1>3. LeftAlone'
  BY <1>1, <1>2 DEF Sound, Agreed, LeftAlone, LeftBefore
<1>4. Alone'
  BY <1>1, <1>2 DEF Sound, Agreed, Alone
<1>5. Starting'
  BY <1>1, <1>2 DEF Sound, Agreed, Starting, Losses, Early, Trying, Losing
<1>6. Waits'
  BY <1>1, <1>2 DEF Sound, Agreed, Waits, Losses, Reconnects, Losing
<1>7. Captures'
  BY <1>1, <1>2 DEF Sound, Agreed, Captures
<1>8. Losses'
  BY <1>1, <1>2 DEF Sound, Agreed, Losses, Opening, Losing
<1>9. Reconnects'
  BY <1>1, <1>2 DEF Sound, Agreed, Losses, Reconnects, Ending, Losing, Leaving
<1>10. Counted'
  BY <1>1, <1>2 DEF Sound, Agreed, Losses, Counted, Losing
<1>11. Shows'
  BY <1>1, <1>2 DEF Sound, Agreed, Shows
<1>12. Signalled'
  BY <1>1, <1>2 DEF Sound, Agreed, Signalled
<1>13. Unbroken'
  BY <1>1, <1>2 DEF Sound, Agreed, Unbroken, Opening, Losing
<1>14. Lasting'
  BY <1>1, <1>2 DEF Sound, Agreed, Losses, Lasting, Losing, Leaving
<1>15. Awaited'
  BY <1>1, <1>2 DEF Sound, Agreed, Awaited
<1>16. Agreed'
  BY <1>3, <1>4, <1>5, <1>6, <1>7, <1>8, <1>9, <1>10, <1>11, <1>12, <1>13, <1>14,
     <1>15 DEF Agreed
<1> QED
  BY <1>1, <1>16

\* A reconnect thread begins.
LEMMA EnterReconnectKeeps ==
  ASSUME Sound, NEW t \in Threads, EnterReconnect(t)
  PROVE  Placed' /\ Agreed'
<1>1. /\ Rcn = "enter" /\ Rcn' = "wait" /\ Con' = Con /\ Snd' = Snd
      /\ LeftBefore /\ Placed'
  <2>1. /\ pc[t] = "enter" /\ pc' = [pc EXCEPT ![t] = "wait"]
        /\ HandlesKept /\ JoinsKept
    BY DEF Sound, Typed, OutputType, HandlesKept, JoinsKept, EnterReconnect, Step, Move,
           joins
  <2>2. /\ "enter" \in Pausing
        /\ "wait" \in ReconnectPlaces
    BY DEF Pausing, ReconnectPlaces, Leaving
  <2> QED
    BY <2>1, <2>2, ReconnectMoves DEF Sound
<1>2. /\ UNCHANGED <<stream, user, button, joinable, joining, bad_join, lost, undone>>
      /\ output'.active = output.active
      /\ output'.capturing = output.capturing
      /\ output'.stopped = output.stopped
      /\ output'.reconnecting = output.reconnecting
      /\ output'.reconnect_retries = output.reconnect_retries
      /\ output'.reconnect_stop_event = output.reconnect_stop_event
      /\ output'.reconnect_thread_active
  BY DEF Sound, Typed, OutputType, EnterReconnect, Step, Move, joins
<1>3. LeftAlone'
  BY <1>1, <1>2 DEF Sound, Agreed, LeftAlone, LeftBefore
<1>4. Alone'
  BY <1>1, <1>2 DEF Sound, Agreed, Alone, Opening, Retrying, Early, Trying, Pausing
<1>5. Starting'
  BY <1>1, <1>2 DEF Sound, Agreed, Starting
<1>6. Waits'
  BY <1>1, <1>2 DEF Sound, Agreed, Waits, Pausing
<1>7. Captures'
  BY <1>1, <1>2 DEF Sound, Agreed, Captures
<1>8. Losses'
  BY <1>1, <1>2 DEF Sound, Agreed, Losses
<1>9. Reconnects'
  BY <1>1, <1>2 DEF Sound, Agreed, Reconnects, Opening, Ending, Leaving
<1>10. Counted'
  BY <1>1, <1>2 DEF Sound, Agreed, Counted
<1>11. Shows'
  BY <1>1, <1>2 DEF Sound, Agreed, Shows
<1>12. Signalled'
  BY <1>1, <1>2 DEF Sound, Agreed, Signalled
<1>13. Unbroken'
  BY <1>1, <1>2 DEF Sound, Agreed, Unbroken
<1>14. Lasting'
  BY <1>1, <1>2
     DEF Sound, Agreed, Lasting, Opening, Retrying, Early, Trying, Losing, Pausing,
         Leaving
<1>15. Awaited'
  BY <1>1, <1>2 DEF Sound, Agreed, Awaited
<1>16. Agreed'
  BY <1>3, <1>4, <1>5, <1>6, <1>7, <1>8, <1>9, <1>10, <1>11, <1>12, <1>13, <1>14,
     <1>15 DEF Agreed
<1> QED
  BY <1>1, <1>16

\* The stop event wakes it.
LEMMA WaitStoppedKeeps ==
  ASSUME Sound, NEW t \in Threads, WaitStopped(t)
  PROVE  Placed' /\ Agreed'
<1>1. /\ Rcn = "wait" /\ Rcn' = "leave" /\ Con' = Con /\ Snd' = Snd
      /\ LeftBefore /\ Placed'
  <2>1. /\ pc[t] = "wait" /\ pc' = [pc EXCEPT ![t] = "leave"]
        /\ HandlesKept /\ JoinsKept
    BY DEF Sound, Typed, HandlesKept, JoinsKept, WaitStopped, Step, Move, joins
  <2>2. /\ "wait" \in Pausing
        /\ "leave" \in ReconnectPlaces
    BY DEF Pausing, ReconnectPlaces, Leaving
  <2> QED
    BY <2>1, <2>2, ReconnectMoves DEF Sound
<1>2. UNCHANGED <<output, stream, user, button, joinable, joining, bad_join, lost,
                  undone>>
      /\ output.reconnect_stop_event
  BY DEF Sound, Typed, WaitStopped, Step, Move, joins
<1>3. LeftAlone'
  BY <1>1, <1>2 DEF Sound, Agreed, LeftAlone, LeftBefore
<1>4. Alone'
  BY <1>1, <1>2 DEF Sound, Agreed, Alone
<1>5. Starting'
  BY <1>1, <1>2 DEF Sound, Agreed, Starting
<1>6. Waits'
  BY <1>1, <1>2 DEF Sound, Agreed, Waits, Pausing
<1>7. Captures'
  BY <1>1, <1>2 DEF Sound, Agreed, Captures
<1>8. Losses'
  BY <1>1, <1>2 DEF Sound, Agreed, Losses
<1>9. Reconnects'
  BY <1>1, <1>2 DEF Sound, Agreed, Waits, Reconnects
<1>10. Counted'
  BY <1>1, <1>2 DEF Sound, Agreed, Counted
<1>11. Shows'
  BY <1>1, <1>2 DEF Sound, Agreed, Waits, Shows, Signalled
<1>12. Signalled'
  BY <1>1, <1>2 DEF Sound, Agreed, Signalled
<1>13. Unbroken'
  BY <1>1, <1>2 DEF Sound, Agreed, Unbroken
<1>14. Lasting'
  BY <1>1, <1>2
     DEF Sound, Agreed, Lasting, Opening, Retrying, Early, Trying, Losing, Pausing,
         Leaving
<1>15. Awaited'
  BY <1>1, <1>2 DEF Sound, Agreed, Awaited
<1>16. Agreed'
  BY <1>3, <1>4, <1>5, <1>6, <1>7, <1>8, <1>9, <1>10, <1>11, <1>12, <1>13, <1>14,
     <1>15 DEF Agreed
<1> QED
  BY <1>1, <1>16

\* The next attempt is due.
LEMMA WaitTimedOutKeeps ==
  ASSUME Sound, NEW t \in Threads, WaitTimedOut(t), ~RetryRaces
  PROVE  Placed' /\ Agreed'
<1>1. /\ Rcn = "wait" /\ Rcn' = "restart" /\ Con' = Con /\ Snd' = Snd
      /\ LeftBefore /\ Placed'
  <2>1. /\ pc[t] = "wait" /\ pc' = [pc EXCEPT ![t] = "restart"]
        /\ HandlesKept /\ JoinsKept
    BY DEF Sound, Typed, HandlesKept, JoinsKept, WaitTimedOut, Acts, Step, Move, joins
  <2>2. /\ "wait" \in Pausing
        /\ "restart" \in ReconnectPlaces
    BY DEF Pausing, ReconnectPlaces, Leaving
  <2> QED
    BY <2>1, <2>2, ReconnectMoves DEF Sound
<1>2. UNCHANGED <<output, stream, user, button, joinable, joining, bad_join, lost,
                  undone>>
      /\ ~output.reconnect_stop_event
  BY DEF Sound, Typed, WaitTimedOut, Acts, Step, Move, joins
<1>3. /\ Con = "ended" /\ Snd = "ended"
      /\ user \notin {"readReconnect", "joinReconnect", "endCapture", "signal"}
      /\ ~SendLeftBehind /\ ~ReconnectLeftBehind
  <2>1. Departing = {} /\ At({"resetStop"}) = {}
    BY DEF RetryRaces
  <2>2. Snd # "resetStop"
    BY <2>1, NobodyAt DEF Sound
  <2>3. Con = "ended" /\ Snd = "ended"
    BY <1>1, <2>1, <2>2, NoneDeparts, WaitsAlone DEF Sound
  <2> QED
    BY <2>1, <2>3, NoneDeparts DEF Sound, RetryRaces
<1>4. LeftAlone'
  BY <1>1, <1>2, <1>3 DEF Sound, Agreed, LeftAlone, LeftBefore
<1>5. Alone'
  BY <1>1, <1>2 DEF Sound, Agreed, Alone, Opening, Retrying, Early, Trying, Pausing
<1>6. Starting'
  BY <1>1, <1>2 DEF Sound, Agreed, Starting
<1>7. Waits'
  BY <1>1, <1>2, <1>3 DEF Sound, Agreed, Waits, Pausing
<1>8. Captures'
  BY <1>1, <1>2 DEF Sound, Agreed, Captures
<1>9. Losses'
  BY <1>1, <1>2 DEF Sound, Agreed, Losses
<1>10. Reconnects'
  BY <1>1, <1>2, <1>3
     DEF Sound, Agreed, Alone, Losses, Reconnects, Early, Trying, Ending, Pausing,
         Leaving
<1>11. Counted'
  BY <1>1, <1>2 DEF Sound, Agreed, Counted
<1>12. Shows'
  BY <1>1, <1>2, <1>3 DEF Sound, Agreed, Captures, Shows, Signalled, Ending
<1>13. Signalled'
  BY <1>1, <1>2 DEF Sound, Agreed, Signalled
<1>14. Unbroken'
  BY <1>1, <1>2 DEF Sound, Agreed, Unbroken
<1>15. Lasting'
  BY <1>1, <1>2
     DEF Sound, Agreed, Lasting, Opening, Retrying, Early, Trying, Losing, Pausing,
         Leaving
<1>16. Awaited'
  BY <1>1, <1>2 DEF Sound, Agreed, Awaited
<1>17. Agreed'
  BY <1>4, <1>5, <1>6, <1>7, <1>8, <1>9, <1>10, <1>11, <1>12, <1>13, <1>14, <1>15,
     <1>16 DEF Agreed
<1> QED
  BY <1>1, <1>17

\* A send thread ends.
LEMMA ClearStreamingKeeps ==
  ASSUME Sound, NEW t \in Threads, ClearStreaming(t)
  PROVE  Placed' /\ Agreed'
<1>1. /\ Con' = Con /\ Rcn' = Rcn
      /\ \/ Snd' = Snd
         \/ Snd = "clearStreaming" /\ Snd' = "ended"
      /\ LeftBefore /\ Placed'
  <2>1. /\ pc[t] = "clearStreaming" /\ pc' = [pc EXCEPT ![t] = "ended"]
        /\ HandlesKept /\ JoinsKept
    BY DEF Sound, Typed, StreamType, HandlesKept, JoinsKept, ClearStreaming, Step, Move,
           joins
  <2> QED
    BY <2>1, SendEnds DEF Sound
<1>2. /\ UNCHANGED <<output, user, button, joinable, joining, bad_join, lost, undone>>
      /\ stream'.connecting = stream.connecting
      /\ ~stream'.active
      /\ stream'.stop_event = stream.stop_event
      /\ stream'.posted = stream.posted
      /\ stream'.connect_thread = stream.connect_thread
      /\ stream'.send_thread = stream.send_thread
  BY DEF Sound, Typed, StreamType, ClearStreaming, Step, Move, joins
<1>3. LeftAlone'
  BY <1>1, <1>2 DEF Sound, Agreed, LeftAlone, LeftBefore
<1>4. Alone'
  BY <1>1, <1>2 DEF Sound, Agreed, Alone
<1>5. Starting'
  BY <1>1, <1>2 DEF Sound, Agreed, Starting
<1>6. Waits'
  BY <1>1, <1>2 DEF Sound, Agreed, Waits
<1>7. Captures'
  BY <1>1, <1>2 DEF Sound, Agreed, Captures
<1>8. Losses'
  BY <1>1, <1>2 DEF Sound, Agreed, Losses, Opening, Losing
<1>9. Reconnects'
  BY <1>1, <1>2 DEF Sound, Agreed, Reconnects
<1>10. Counted'
  BY <1>1, <1>2 DEF Sound, Agreed, Counted
<1>11. Shows'
  BY <1>1, <1>2 DEF Sound, Agreed, Captures, Shows, OutputActive
<1>12. Signalled'
  BY <1>1, <1>2 DEF Sound, Agreed, Signalled
<1>13. Unbroken'
  BY <1>1, <1>2 DEF Sound, Agreed, Unbroken, Opening, Losing
<1>14. Lasting'
  BY <1>1, <1>2
     DEF Sound, Agreed, Lasting, Opening, Retrying, Early, Trying, Losing, Pausing,
         Leaving
<1>15. Awaited'
  BY <1>1, <1>2 DEF Sound, Agreed, Awaited
<1>16. Agreed'
  BY <1>3, <1>4, <1>5, <1>6, <1>7, <1>8, <1>9, <1>10, <1>11, <1>12, <1>13, <1>14,
     <1>15 DEF Agreed
<1> QED
  BY <1>1, <1>16

\* A reconnect thread leaves.
LEMMA LeaveReconnectKeeps ==
  ASSUME Sound, NEW t \in Threads, LeaveReconnect(t)
  PROVE  Placed' /\ Agreed'
<1>1. /\ Con' = Con /\ Snd' = Snd
      /\ \/ Rcn' = Rcn /\ ReconnectLeftBehind
         \/ Rcn = "leave" /\ Rcn' = "exit"
      /\ LeftBefore /\ Placed'
  <2>1. /\ pc[t] = "leave" /\ pc' = [pc EXCEPT ![t] = "exit"]
        /\ HandlesKept /\ JoinsKept
    BY DEF Sound, Typed, OutputType, HandlesKept, JoinsKept, LeaveReconnect, Detach,
           Step, Move, joins
  <2>2. "leave" \in Leaving /\ "exit" \in {"exit", "ended"}
    BY DEF Leaving
  <2> QED
    BY <2>1, <2>2, ReconnectLeaves DEF Sound
<1>2. /\ UNCHANGED <<stream, user, button, joining, bad_join, lost, undone>>
      /\ output'.active = output.active
      /\ output'.capturing = output.capturing
      /\ output'.stopped = output.stopped
      /\ output'.reconnecting <=> output.reconnecting /\ ~output.reconnect_stop_event
      /\ output'.reconnect_retries = output.reconnect_retries
      /\ output'.reconnect_stop_event = output.reconnect_stop_event
      /\ output'.reconnect_thread_active = output.reconnect_thread_active
      /\ stream.send_thread \in joinable' <=> stream.send_thread \in joinable
      /\ stream.connect_thread \in joinable' <=> stream.connect_thread \in joinable
  BY <1>1, PlacesKnown
     DEF Sound, Typed, OutputType, LeaveReconnect, Detach, Step, Move, joins
<1>3. LeftAlone'
  BY <1>1, <1>2 DEF Sound, Agreed, LeftAlone, LeftBefore
<1>4. Alone'
  BY <1>1, <1>2 DEF Sound, Agreed, LeftAlone, Alone, Pausing
<1>5. Starting'
  BY <1>1, <1>2 DEF Sound, Agreed, Starting
<1>6. Waits'
  BY <1>1, <1>2 DEF Sound, Agreed, LeftAlone, Waits, Pausing
<1>7. Captures'
  BY <1>1, <1>2 DEF Sound, Agreed, Captures
<1>8. Losses'
  BY <1>1, <1>2 DEF Sound, Agreed, Waits, Losses
<1>9. Reconnects'
  BY <1>1, <1>2 DEF Sound, Agreed, Reconnects, Lasting, Leaving
<1>10. Counted'
  BY <1>1, <1>2 DEF Sound, Agreed, Counted
<1>11. Shows'
  BY <1>1, <1>2 DEF Sound, Agreed, LeftAlone, Shows
<1>12. Signalled'
  BY <1>1, <1>2 DEF Sound, Agreed, Signalled
<1>13. Unbroken'
  BY <1>1, <1>2 DEF Sound, Agreed, Unbroken
<1>14. Lasting'
  BY <1>1, <1>2
     DEF Sound, Agreed, Lasting, Opening, Retrying, Early, Trying, Losing, Pausing,
         Leaving
<1>15. Awaited'
  BY <1>1, <1>2 DEF Sound, Agreed, Awaited
<1>16. Agreed'
  BY <1>3, <1>4, <1>5, <1>6, <1>7, <1>8, <1>9, <1>10, <1>11, <1>12, <1>13, <1>14,
     <1>15 DEF Agreed
<1> QED
  BY <1>1, <1>16

\* A reconnect thread ends.
LEMMA ExitReconnectKeeps ==
  ASSUME Sound, NEW t \in Threads, ExitReconnect(t)
  PROVE  Placed' /\ Agreed'
<1>1. /\ Con' = Con /\ Snd' = Snd
      /\ \/ Rcn' = Rcn /\ ReconnectLeftBehind
         \/ Rcn = "exit" /\ Rcn' = "ended"
      /\ LeftBefore /\ Placed'
  <2>1. /\ pc[t] = "exit" /\ pc' = [pc EXCEPT ![t] = "ended"]
        /\ HandlesKept /\ JoinsKept
    BY DEF Sound, Typed, OutputType, HandlesKept, JoinsKept, ExitReconnect, Step, Move,
           joins
  <2>2. pc[t] \in Leaving /\ "ended" \in {"exit", "ended"}
    BY <2>1 DEF Leaving
  <2>3. /\ Con' = Con /\ Snd' = Snd
        /\ \/ Rcn' = Rcn /\ ReconnectLeftBehind
           \/ Rcn = pc[t] /\ Rcn' = "ended"
        /\ LeftBefore /\ Placed'
    BY <2>1, <2>2, ReconnectLeaves DEF Sound
  <2> QED
    BY <2>1, <2>3
<1>2. /\ UNCHANGED <<stream, user, button, joinable, joining, bad_join, lost, undone>>
      /\ output'.active = output.active
      /\ output'.capturing = output.capturing
      /\ output'.stopped = output.stopped
      /\ output'.reconnecting = output.reconnecting
      /\ output'.reconnect_retries = output.reconnect_retries
      /\ output'.reconnect_stop_event = output.reconnect_stop_event
      /\ ~output'.reconnect_thread_active
  BY DEF Sound, Typed, OutputType, ExitReconnect, Step, Move, joins
<1>3. LeftAlone'
  BY <1>1, <1>2 DEF Sound, Agreed, LeftAlone, LeftBefore
<1>4. Alone'
  BY <1>1, <1>2 DEF Sound, Agreed, Alone, Opening, Retrying, Early, Trying, Pausing
<1>5. Starting'
  BY <1>1, <1>2 DEF Sound, Agreed, Starting
<1>6. Waits'
  BY <1>1, <1>2 DEF Sound, Agreed, Waits, Pausing
<1>7. Captures'
  BY <1>1, <1>2 DEF Sound, Agreed, Captures
<1>8. Losses'
  BY <1>1, <1>2 DEF Sound, Agreed, Losses
<1>9. Reconnects'
  BY <1>1, <1>2 DEF Sound, Agreed, Reconnects, Opening, Ending, Leaving
<1>10. Counted'
  BY <1>1, <1>2 DEF Sound, Agreed, Counted
<1>11. Shows'
  BY <1>1, <1>2 DEF Sound, Agreed, Captures, Shows, Signalled, OutputActive
<1>12. Signalled'
  BY <1>1, <1>2 DEF Sound, Agreed, Signalled
<1>13. Unbroken'
  BY <1>1, <1>2 DEF Sound, Agreed, Unbroken
<1>14. Lasting'
  BY <1>1, <1>2
     DEF Sound, Agreed, Lasting, Opening, Retrying, Early, Trying, Losing, Pausing,
         Leaving
<1>15. Awaited'
  BY <1>1, <1>2 DEF Sound, Agreed, Awaited
<1>16. Agreed'
  BY <1>3, <1>4, <1>5, <1>6, <1>7, <1>8, <1>9, <1>10, <1>11, <1>12, <1>13, <1>14,
     <1>15 DEF Agreed
<1> QED
  BY <1>1, <1>16

\* The user stops the stream.
LEMMA UserStopKeeps ==
  ASSUME Sound, UserStop, ~StopRaces
  PROVE  Placed' /\ Agreed'
<1>1. /\ Con' = Con /\ Snd' = Snd /\ Rcn' = Rcn
      /\ LeftBefore /\ Placed'
  <2>1. pc' = pc /\ HandlesKept /\ JoinsKept
    BY DEF Sound, Typed, OutputType, HandlesKept, JoinsKept, UserStop, Acts,
           UserStep, UserMove, joins
  <2> QED
    BY <2>1, UserMoves DEF Sound
<1>2. /\ UNCHANGED <<stream, button, joinable, joining, bad_join, lost, undone>>
      /\ output'.active = output.active
      /\ output'.capturing = output.capturing
      /\ output'.stopped
      /\ output'.reconnecting = output.reconnecting
      /\ output'.reconnect_retries = output.reconnect_retries
      /\ output'.reconnect_stop_event
      /\ output'.reconnect_thread_active = output.reconnect_thread_active
      /\ user = "idle"
      /\ user' = "readReconnect"
      /\ OutputActive
  BY DEF Sound, Typed, OutputType, UserStop, Acts, UserStep, UserMove, joins
<1>3. /\ Con \notin Ending \cup {"signalStart"}
      /\ Snd \in {"ended", "send", "close"}
      /\ Rcn \in {"ended", "wait"}
      /\ Rcn = "wait" => /\ Con = "ended" /\ Snd = "ended"
                         /\ stream.send_thread \notin joinable
      /\ output.active => Con = "ended"
      /\ ~SendLeftBehind /\ ~ReconnectLeftBehind
  <2> DEFINE P == {"signalLost", "countRetrySend", "setReconnectingSend"}
             Q == {"retrySend", "resetStop", "enter", "restart", "signalStart"}
  <2>1. Departing = {} /\ At(P) = {} /\ At(Q) = {}
    BY DEF StopRaces, BetweenStreams
  <2>2. Snd \notin P
    BY <2>1, NobodyAt DEF Sound
  <2>3. Con \notin Q /\ Snd \notin Q /\ Rcn \notin Q
    BY <2>1, NobodyAt DEF Sound
  <2>4. /\ Con \notin Ending /\ Snd # "clearStreaming" /\ Rcn \notin Leaving
        /\ ~SendLeftBehind /\ ~ReconnectLeftBehind
    BY <2>1, NoneDeparts DEF Sound
  <2>5. Rcn \in {"ended", "wait"}
    BY <2>3, <2>4, PlacesKnown DEF Sound, ReconnectPlaces, Pausing
  <2>6. Snd \in {"ended", "send", "close"}
    BY <2>2, <2>3, <2>4, PlacesKnown DEF Sound, SendPlaces, Losing
  <2>7. output.active => Con = "ended"
    BY <2>3, <2>4, PlacesKnown DEF Sound, Agreed, Alone, ConnectPlaces
  <2>8. Rcn = "wait" => /\ Con = "ended" /\ Snd = "ended"
                        /\ stream.send_thread \notin joinable
    BY <2>4, <2>6, WaitsAlone
  <2> QED
    BY <2>3, <2>4, <2>5, <2>6, <2>7, <2>8
<1>4. LeftAlone'
  BY <1>1, <1>2, <1>3 DEF Sound, Agreed, LeftAlone, LeftBefore
<1>5. Alone'
  BY <1>1, <1>2, <1>3 DEF Sound, Agreed, Alone, Pausing
<1>6. Starting'
  BY <1>1, <1>2, <1>3 DEF Sound, Agreed, Alone, Starting, OutputActive
<1>7. Waits'
  BY <1>1, <1>2, <1>3
     DEF Sound, Agreed, Alone, Waits, Losses, Reconnects, Early, Trying, Pausing
<1>8. Captures'
  BY <1>1, <1>2 DEF Sound, Agreed, Captures
<1>9. Losses'
  BY <1>1, <1>2 DEF Sound, Agreed, Losses
<1>10. Reconnects'
  BY <1>1, <1>2 DEF Sound, Agreed, Reconnects
<1>11. Counted'
  BY <1>1, <1>2 DEF Sound, Agreed, Counted
<1>12. Shows'
  BY <1>1, <1>2 DEF Sound, Agreed, Shows
<1>13. Signalled'
  BY <1>1, <1>2, <1>3 DEF Sound, Agreed, Signalled
<1>14. Unbroken'
  BY <1>1, <1>2, <1>3 DEF Sound, Agreed, Alone, Unbroken, Early, Trying, OutputActive
<1>15. Lasting'
  BY <1>1, <1>2, <1>3 DEF Sound, Agreed, Waits, Reconnects, Lasting, Opening, Pausing
<1>16. Awaited'
  BY <1>1, <1>2 DEF Sound, Agreed, Awaited
<1>17. Agreed'
  BY <1>4, <1>5, <1>6, <1>7, <1>8, <1>9, <1>10, <1>11, <1>12, <1>13, <1>14, <1>15,
     <1>16 DEF Agreed
<1> QED
  BY <1>1, <1>17

\* obs_output_actual_stop asks whether there is a thread to join.
LEMMA ReadReconnectKeeps ==
  ASSUME Sound, ReadReconnect
  PROVE  Placed' /\ Agreed'
<1>1. /\ Con' = Con /\ Snd' = Snd /\ Rcn' = Rcn
      /\ LeftBefore /\ Placed'
  <2>1. pc' = pc /\ HandlesKept /\ JoinsKept
    BY DEF Sound, Typed, HandlesKept, JoinsKept, ReadReconnect, UserStep, UserMove,
           joins
  <2> QED
    BY <2>1, UserMoves DEF Sound
<1>2. /\ UNCHANGED <<output, stream, button, joinable, joining, bad_join, lost, undone>>
      /\ user = "readReconnect"
      /\ user' = IF output.reconnect_thread_active THEN "joinReconnect" ELSE "readStop"
  BY DEF Sound, Typed, ReadReconnect, UserStep, UserMove, joins
<1>3. LeftAlone'
  BY <1>1, <1>2 DEF Sound, Agreed, LeftAlone, LeftBefore
<1>4. Alone'
  BY <1>1, <1>2 DEF Sound, Agreed, Alone
<1>5. Starting'
  BY <1>1, <1>2 DEF Sound, Agreed, Starting
<1>6. Waits'
  BY <1>1, <1>2 DEF Sound, Agreed, Waits
<1>7. Captures'
  BY <1>1, <1>2 DEF Sound, Agreed, Captures
<1>8. Losses'
  BY <1>1, <1>2 DEF Sound, Agreed, Losses
<1>9. Reconnects'
  BY <1>1, <1>2 DEF Sound, Agreed, Reconnects
<1>10. Counted'
  BY <1>1, <1>2 DEF Sound, Agreed, Counted
<1>11. Shows'
  BY <1>1, <1>2 DEF Sound, Agreed, Shows
<1>12. Signalled'
  BY <1>1, <1>2 DEF Sound, Agreed, Signalled
<1>13. Unbroken'
  BY <1>1, <1>2 DEF Sound, Agreed, Waits, Captures, Unbroken, Lasting, Losing
<1>14. Lasting'
  BY <1>1, <1>2 DEF Sound, Agreed, Alone, Waits, Captures, Lasting
<1>15. Awaited'
  BY <1>1, <1>2 DEF Sound, Agreed, Awaited
<1>16. Agreed'
  BY <1>3, <1>4, <1>5, <1>6, <1>7, <1>8, <1>9, <1>10, <1>11, <1>12, <1>13, <1>14,
     <1>15 DEF Agreed
<1> QED
  BY <1>1, <1>16

\* rtmp_stream_stop asks whether it was called, and whether there is one.
LEMMA ReadStopKeeps ==
  ASSUME Sound, ReadStop
  PROVE  Placed' /\ Agreed'
<1>1. /\ Con' = Con /\ Snd' = Snd /\ Rcn' = Rcn
      /\ LeftBefore /\ Placed'
  <2>1. pc' = pc /\ HandlesKept /\ JoinsKept
    BY DEF Sound, Typed, HandlesKept, JoinsKept, ReadStop, UserStep, UserMove, joins
  <2> QED
    BY <2>1, UserMoves DEF Sound
<1>2. /\ UNCHANGED <<output, stream, button, joinable, joining, bad_join, lost>>
      /\ user = "readStop"
      /\ user' = IF stream.stop_event THEN "signal"
                 ELSE IF stream.connecting THEN "joinConnect" ELSE "setStop"
      /\ undone' <=> undone \/ stream.stop_event
  BY DEF Sound, Typed, ReadStop, UserStep, UserMove, joins
<1>3. LeftAlone'
  BY <1>1, <1>2 DEF Sound, Agreed, LeftAlone, LeftBefore
<1>4. Alone'
  BY <1>1, <1>2 DEF Sound, Agreed, Alone
<1>5. Starting'
  BY <1>1, <1>2 DEF Sound, Agreed, Starting
<1>6. Waits'
  BY <1>1, <1>2 DEF Sound, Agreed, Waits
<1>7. Captures'
  BY <1>1, <1>2 DEF Sound, Agreed, Captures
<1>8. Losses'
  BY <1>1, <1>2 DEF Sound, Agreed, Losses
<1>9. Reconnects'
  BY <1>1, <1>2 DEF Sound, Agreed, Reconnects
<1>10. Counted'
  BY <1>1, <1>2 DEF Sound, Agreed, Counted
<1>11. Shows'
  BY <1>1, <1>2 DEF Sound, Agreed, Shows
<1>12. Signalled'
  BY <1>1, <1>2 DEF Sound, Agreed, Signalled
<1>13. Unbroken'
  BY <1>1, <1>2, PlacesKnown DEF Sound, Agreed, Alone, Starting, Unbroken
<1>14. Lasting'
  BY <1>1, <1>2
     DEF Sound, Agreed, Alone, Starting, Losses, Reconnects, Lasting, Losing
<1>15. Awaited'
  BY <1>1, <1>2 DEF Sound, Agreed, Awaited
<1>16. Agreed'
  BY <1>3, <1>4, <1>5, <1>6, <1>7, <1>8, <1>9, <1>10, <1>11, <1>12, <1>13, <1>14,
     <1>15 DEF Agreed
<1> QED
  BY <1>1, <1>16

\* It signals the stop event.
LEMMA SetStopKeeps ==
  ASSUME Sound, SetStop
  PROVE  Placed' /\ Agreed'
<1>1. /\ Con' = Con /\ Snd' = Snd /\ Rcn' = Rcn
      /\ LeftBefore /\ Placed'
  <2>1. pc' = pc /\ HandlesKept /\ JoinsKept
    BY DEF Sound, Typed, StreamType, HandlesKept, JoinsKept, SetStop, UserStep,
           UserMove, joins
  <2> QED
    BY <2>1, UserMoves DEF Sound
<1>2. /\ UNCHANGED <<output, button, joinable, joining, bad_join, lost, undone>>
      /\ stream'.connecting = stream.connecting
      /\ stream'.active = stream.active
      /\ stream'.stop_event
      /\ stream'.posted = stream.posted
      /\ stream'.connect_thread = stream.connect_thread
      /\ stream'.send_thread = stream.send_thread
      /\ user = "setStop"
      /\ user' = "endCapture"
  BY DEF Sound, Typed, StreamType, SetStop, UserStep, UserMove, joins
<1>3. LeftAlone'
  BY <1>1, <1>2 DEF Sound, Agreed, LeftAlone, LeftBefore
<1>4. Alone'
  BY <1>1, <1>2 DEF Sound, Agreed, Alone
<1>5. Starting'
  BY <1>1, <1>2 DEF Sound, Agreed, Starting
<1>6. Waits'
  BY <1>1, <1>2 DEF Sound, Agreed, Waits
<1>7. Captures'
  BY <1>1, <1>2 DEF Sound, Agreed, Captures
<1>8. Losses'
  BY <1>1, <1>2 DEF Sound, Agreed, Losses
<1>9. Reconnects'
  BY <1>1, <1>2 DEF Sound, Agreed, Reconnects
<1>10. Counted'
  BY <1>1, <1>2 DEF Sound, Agreed, Counted
<1>11. Shows'
  BY <1>1, <1>2 DEF Sound, Agreed, Shows
<1>12. Signalled'
  BY <1>1, <1>2 DEF Sound, Agreed, Signalled
<1>13. Unbroken'
  BY <1>1, <1>2, PlacesKnown DEF Sound, Agreed, Starting, Unbroken
<1>14. Lasting'
  BY <1>1, <1>2 DEF Sound, Agreed, Lasting
<1>15. Awaited'
  BY <1>1, <1>2 DEF Sound, Agreed, Awaited
<1>16. Agreed'
  BY <1>3, <1>4, <1>5, <1>6, <1>7, <1>8, <1>9, <1>10, <1>11, <1>12, <1>13, <1>14,
     <1>15 DEF Agreed
<1> QED
  BY <1>1, <1>16

\* It wakes the send thread and ends the capture.
LEMMA UserEndCaptureKeeps ==
  ASSUME Sound, UserEndCapture
  PROVE  Placed' /\ Agreed'
<1>1. /\ Con' = Con /\ Snd' = Snd /\ Rcn' = Rcn
      /\ LeftBefore /\ Placed'
  <2>1. pc' = pc /\ HandlesKept /\ JoinsKept
    BY DEF Sound, Typed, OutputType, StreamType, HandlesKept, JoinsKept,
           UserEndCapture, PostSendSem, EndDataCapture, UserStep, UserMove, joins
  <2> QED
    BY <2>1, UserMoves DEF Sound
<1>2. /\ UNCHANGED <<button, joinable, joining, bad_join, lost>>
      /\ output'.active <=> output.active /\ ~stream.active
      /\ output'.capturing <=> output.capturing /\ ~(stream.active /\ output.active)
      /\ output'.stopped = output.stopped
      /\ output'.reconnecting = output.reconnecting
      /\ output'.reconnect_retries = output.reconnect_retries
      /\ output'.reconnect_stop_event = output.reconnect_stop_event
      /\ output'.reconnect_thread_active = output.reconnect_thread_active
      /\ stream'.connecting = stream.connecting
      /\ stream'.active = stream.active
      /\ stream'.stop_event = stream.stop_event
      /\ stream'.connect_thread = stream.connect_thread
      /\ stream'.send_thread = stream.send_thread
      /\ user = "endCapture"
      /\ user' = "signal"
      /\ undone' <=> undone \/ (~stream.active /\ output.active)
  BY DEF Sound, Typed, OutputType, StreamType, UserEndCapture, PostSendSem,
         EndDataCapture, UserStep, UserMove, joins
<1>3. LeftAlone'
  BY <1>1, <1>2 DEF Sound, Agreed, LeftAlone, LeftBefore
<1>4. Alone'
  BY <1>1, <1>2 DEF Sound, Agreed, Alone
<1>5. Starting'
  BY <1>1, <1>2 DEF Sound, Agreed, Starting
<1>6. Waits'
  BY <1>1, <1>2 DEF Sound, Agreed, Waits
<1>7. Captures'
  BY <1>1, <1>2 DEF Sound, Agreed, Alone, Captures, Signalled, Opening, Trying
<1>8. Losses'
  BY <1>1, <1>2 DEF Sound, Agreed, Losses, Signalled
<1>9. Reconnects'
  BY <1>1, <1>2 DEF Sound, Agreed, Reconnects
<1>10. Counted'
  BY <1>1, <1>2 DEF Sound, Agreed, Counted
<1>11. Shows'
  BY <1>1, <1>2 DEF Sound, Agreed, Shows
<1>12. Signalled'
  BY <1>1, <1>2 DEF Sound, Agreed, Signalled
<1>13. Unbroken'
  BY <1>1, <1>2 DEF Sound, Agreed, Unbroken
<1>14. Lasting'
  BY <1>1, <1>2 DEF Sound, Agreed, Lasting
<1>15. Awaited'
  BY <1>1, <1>2 DEF Sound, Agreed, Awaited
<1>16. Agreed'
  BY <1>3, <1>4, <1>5, <1>6, <1>7, <1>8, <1>9, <1>10, <1>11, <1>12, <1>13, <1>14,
     <1>15 DEF Agreed
<1> QED
  BY <1>1, <1>16

\* obs_output_stop returns.
LEMMA UserSignalKeeps ==
  ASSUME Sound, UserSignal
  PROVE  Placed' /\ Agreed'
<1>1. /\ Con' = Con /\ Snd' = Snd /\ Rcn' = Rcn
      /\ LeftBefore /\ Placed'
  <2>1. pc' = pc /\ HandlesKept /\ JoinsKept
    BY DEF Sound, Typed, HandlesKept, JoinsKept, UserSignal, SignalStop, UserStep,
           UserMove, joins
  <2> QED
    BY <2>1, UserMoves DEF Sound
<1>2. /\ UNCHANGED <<output, stream, joinable, joining, bad_join, lost, undone>>
      /\ user = "signal"
      /\ user' = "idle"
      /\ button' = "idle"
  BY DEF Sound, Typed, UserSignal, SignalStop, UserStep, UserMove, joins
<1>3. LeftAlone'
  BY <1>1, <1>2 DEF Sound, Agreed, LeftAlone, LeftBefore
<1>4. Alone'
  BY <1>1, <1>2 DEF Sound, Agreed, Alone, Starting
<1>5. Starting'
  BY <1>1, <1>2 DEF Sound, Agreed, Starting
<1>6. Waits'
  BY <1>1, <1>2 DEF Sound, Agreed, Waits
<1>7. Captures'
  BY <1>1, <1>2 DEF Sound, Agreed, Captures
<1>8. Losses'
  BY <1>1, <1>2 DEF Sound, Agreed, Losses
<1>9. Reconnects'
  BY <1>1, <1>2 DEF Sound, Agreed, Reconnects
<1>10. Counted'
  BY <1>1, <1>2 DEF Sound, Agreed, Counted
<1>11. Shows'
  BY <1>1, <1>2 DEF Sound, Agreed, Shows
<1>12. Signalled'
  BY <1>1, <1>2 DEF Sound, Agreed, Signalled
<1>13. Unbroken'
  BY <1>1, <1>2 DEF Sound, Agreed, Unbroken
<1>14. Lasting'
  BY <1>1, <1>2 DEF Sound, Agreed, Signalled, Lasting, Pausing
<1>15. Awaited'
  BY <1>1, <1>2 DEF Sound, Agreed, Awaited
<1>16. Agreed'
  BY <1>3, <1>4, <1>5, <1>6, <1>7, <1>8, <1>9, <1>10, <1>11, <1>12, <1>13, <1>14,
     <1>15 DEF Agreed
<1> QED
  BY <1>1, <1>16

\* It joins the reconnect thread.
LEMMA JoinReconnectKeeps ==
  ASSUME Sound, JoinReconnect
  PROVE  Placed' /\ Agreed'
<1>1. /\ Con' = Con /\ Snd' = Snd /\ Rcn' = Rcn
      /\ LeftBefore /\ Placed'
  <2>1. pc' = pc /\ HandlesKept /\ JoinsKept
    BY NoThreadIsNone
       DEF Sound, Typed, HandlesKept, JoinsKept, JoinReconnect, BeginJoin, UserStep,
           UserMove, joins
  <2> QED
    BY <2>1, UserMoves DEF Sound
<1>2. /\ UNCHANGED <<output, stream, button, lost, undone>>
      /\ user = "joinReconnect"
      /\ user' = "awaitReconnect"
      /\ stream.send_thread \in joinable' <=> stream.send_thread \in joinable
      /\ stream.connect_thread \in joinable' <=> stream.connect_thread \in joinable
      /\ \A u \in Threads : joining'[u] = joining[u]
      /\ bad_join' => bad_join \/ ~lost
  BY PlacesKnown, NoThreadIsNone
     DEF Sound, Typed, JoinReconnect, BeginJoin, UserStep, UserMove, joins
<1>3. LeftAlone'
  BY <1>1, <1>2 DEF Sound, Agreed, LeftAlone, LeftBefore
<1>4. Alone'
  BY <1>1, <1>2
     DEF Sound, Agreed, Alone, Starting, Losses, Reconnects, Opening, Early, Trying,
         Losing, Pausing
<1>5. Starting'
  BY <1>1, <1>2 DEF Sound, Agreed, Starting
<1>6. Waits'
  BY <1>1, <1>2 DEF Sound, Agreed, Waits
<1>7. Captures'
  BY <1>1, <1>2 DEF Sound, Agreed, Captures
<1>8. Losses'
  BY <1>1, <1>2 DEF Sound, Agreed, Losses
<1>9. Reconnects'
  BY <1>1, <1>2 DEF Sound, Agreed, Reconnects
<1>10. Counted'
  BY <1>1, <1>2 DEF Sound, Agreed, Counted
<1>11. Shows'
  BY <1>1, <1>2 DEF Sound, Agreed, Shows
<1>12. Signalled'
  BY <1>1, <1>2 DEF Sound, Agreed, Signalled
<1>13. Unbroken'
  BY <1>1, <1>2 DEF Sound, Agreed, Unbroken
<1>14. Lasting'
  BY <1>1, <1>2 DEF Sound, Agreed, Lasting
<1>15. Awaited'
  BY <1>1, <1>2, PlacesKnown DEF Sound, Agreed, Awaited
<1>16. Agreed'
  BY <1>3, <1>4, <1>5, <1>6, <1>7, <1>8, <1>9, <1>10, <1>11, <1>12, <1>13, <1>14,
     <1>15 DEF Agreed
<1> QED
  BY <1>1, <1>16

\* It has joined the reconnect thread.
LEMMA AwaitReconnectKeeps ==
  ASSUME Sound, AwaitReconnect
  PROVE  Placed' /\ Agreed'
<1>1. /\ Con' = Con /\ Snd' = Snd /\ Rcn' = Rcn
      /\ LeftBefore /\ Placed'
  <2>1. pc' = pc /\ HandlesKept /\ JoinsKept
    BY NoThreadIsNone
       DEF Sound, Typed, HandlesKept, JoinsKept, AwaitReconnect, EndJoin, UserStep,
           UserMove, joins
  <2> QED
    BY <2>1, UserMoves DEF Sound
<1>2. /\ UNCHANGED <<output, stream, button, joinable, bad_join, lost, undone>>
      /\ user = "awaitReconnect"
      /\ user' = "readStop"
      /\ joining'[UI] = NoThread
      /\ \A u \in Threads : joining'[u] = joining[u]
      /\ stream.connect_thread = joining[UI] => Con = "ended"
  BY PlacesKnown, NoThreadIsNone
     DEF Sound, Typed, Con, Place, AwaitReconnect, EndJoin, UserStep, UserMove, joins
<1>3. LeftAlone'
  BY <1>1, <1>2 DEF Sound, Agreed, LeftAlone, LeftBefore
<1>4. Alone'
  BY <1>1, <1>2
     DEF Sound, Agreed, Alone, Starting, Reconnects, Signalled, Awaited, Opening,
         Early, Trying, Pausing
<1>5. Starting'
  BY <1>1, <1>2 DEF Sound, Agreed, Starting
<1>6. Waits'
  BY <1>1, <1>2 DEF Sound, Agreed, Waits
<1>7. Captures'
  BY <1>1, <1>2 DEF Sound, Agreed, Captures
<1>8. Losses'
  BY <1>1, <1>2 DEF Sound, Agreed, Losses
<1>9. Reconnects'
  BY <1>1, <1>2 DEF Sound, Agreed, Reconnects
<1>10. Counted'
  BY <1>1, <1>2 DEF Sound, Agreed, Counted
<1>11. Shows'
  BY <1>1, <1>2 DEF Sound, Agreed, Shows
<1>12. Signalled'
  BY <1>1, <1>2 DEF Sound, Agreed, Signalled
<1>13. Unbroken'
  BY <1>1, <1>2 DEF Sound, Agreed, Unbroken
<1>14. Lasting'
  BY <1>1, <1>2 DEF Sound, Agreed, Lasting
<1>15. Awaited'
  BY <1>1, <1>2 DEF Sound, Agreed, Awaited
<1>16. Agreed'
  BY <1>3, <1>4, <1>5, <1>6, <1>7, <1>8, <1>9, <1>10, <1>11, <1>12, <1>13, <1>14,
     <1>15 DEF Agreed
<1> QED
  BY <1>1, <1>16

\* It joins the connect thread.
LEMMA JoinConnectKeeps ==
  ASSUME Sound, JoinConnect
  PROVE  Placed' /\ Agreed'
<1>1. /\ Con' = Con /\ Snd' = Snd /\ Rcn' = Rcn
      /\ LeftBefore /\ Placed'
  <2>1. pc' = pc /\ HandlesKept /\ JoinsKept
    BY NoThreadIsNone
       DEF Sound, Typed, HandlesKept, JoinsKept, JoinConnect, BeginJoin, UserStep,
           UserMove, joins
  <2> QED
    BY <2>1, UserMoves DEF Sound
<1>2. /\ UNCHANGED <<output, stream, button, lost, undone>>
      /\ user = "joinConnect"
      /\ user' = "awaitConnect"
      /\ stream.send_thread \in joinable' <=> stream.send_thread \in joinable
      /\ stream.connect_thread \notin joinable'
      /\ stream.connect_thread \in joinable => joining'[UI] = stream.connect_thread
      /\ \A u \in Threads : joining'[u] = joining[u]
      /\ bad_join' => bad_join \/ ~lost
  BY PlacesKnown, NoThreadIsNone
     DEF Sound, Typed, JoinConnect, BeginJoin, UserStep, UserMove, joins
<1>3. LeftAlone'
  BY <1>1, <1>2 DEF Sound, Agreed, LeftAlone, LeftBefore
<1>4. Alone'
  BY <1>1, <1>2
     DEF Sound, Agreed, Alone, Starting, Losses, Reconnects, Opening, Early, Trying,
         Losing, Pausing
<1>5. Starting'
  BY <1>1, <1>2 DEF Sound, Agreed, Starting
<1>6. Waits'
  BY <1>1, <1>2 DEF Sound, Agreed, Waits
<1>7. Captures'
  BY <1>1, <1>2 DEF Sound, Agreed, Captures
<1>8. Losses'
  BY <1>1, <1>2 DEF Sound, Agreed, Losses
<1>9. Reconnects'
  BY <1>1, <1>2 DEF Sound, Agreed, Reconnects
<1>10. Counted'
  BY <1>1, <1>2 DEF Sound, Agreed, Counted
<1>11. Shows'
  BY <1>1, <1>2 DEF Sound, Agreed, Shows
<1>12. Signalled'
  BY <1>1, <1>2 DEF Sound, Agreed, Signalled
<1>13. Unbroken'
  BY <1>1, <1>2 DEF Sound, Agreed, Unbroken
<1>14. Lasting'
  BY <1>1, <1>2 DEF Sound, Agreed, Lasting
<1>15. Awaited'
  BY <1>1, <1>2, PlacesKnown DEF Sound, Agreed, Awaited
<1>16. Agreed'
  BY <1>3, <1>4, <1>5, <1>6, <1>7, <1>8, <1>9, <1>10, <1>11, <1>12, <1>13, <1>14,
     <1>15 DEF Agreed
<1> QED
  BY <1>1, <1>16

\* It has joined the connect thread.
LEMMA AwaitConnectKeeps ==
  ASSUME Sound, AwaitConnect
  PROVE  Placed' /\ Agreed'
<1>1. /\ Con' = Con /\ Snd' = Snd /\ Rcn' = Rcn
      /\ LeftBefore /\ Placed'
  <2>1. pc' = pc /\ HandlesKept /\ JoinsKept
    BY NoThreadIsNone
       DEF Sound, Typed, HandlesKept, JoinsKept, AwaitConnect, EndJoin, UserStep,
           UserMove, joins
  <2> QED
    BY <2>1, UserMoves DEF Sound
<1>2. /\ UNCHANGED <<output, stream, button, joinable, bad_join, lost, undone>>
      /\ user = "awaitConnect"
      /\ user' = "setStop"
      /\ joining'[UI] = NoThread
      /\ \A u \in Threads : joining'[u] = joining[u]
      /\ stream.connect_thread = joining[UI] => Con = "ended"
  BY PlacesKnown, NoThreadIsNone
     DEF Sound, Typed, Con, Place, AwaitConnect, EndJoin, UserStep, UserMove, joins
<1>3. LeftAlone'
  BY <1>1, <1>2 DEF Sound, Agreed, LeftAlone, LeftBefore
<1>4. Alone'
  BY <1>1, <1>2
     DEF Sound, Agreed, Alone, Starting, Reconnects, Signalled, Awaited, Opening,
         Early, Trying, Pausing
<1>5. Starting'
  BY <1>1, <1>2 DEF Sound, Agreed, Starting
<1>6. Waits'
  BY <1>1, <1>2 DEF Sound, Agreed, Waits
<1>7. Captures'
  BY <1>1, <1>2 DEF Sound, Agreed, Captures
<1>8. Losses'
  BY <1>1, <1>2 DEF Sound, Agreed, Losses
<1>9. Reconnects'
  BY <1>1, <1>2 DEF Sound, Agreed, Reconnects
<1>10. Counted'
  BY <1>1, <1>2 DEF Sound, Agreed, Counted
<1>11. Shows'
  BY <1>1, <1>2 DEF Sound, Agreed, Shows
<1>12. Signalled'
  BY <1>1, <1>2 DEF Sound, Agreed, Signalled
<1>13. Unbroken'
  BY <1>1, <1>2 DEF Sound, Agreed, Unbroken
<1>14. Lasting'
  BY <1>1, <1>2 DEF Sound, Agreed, Lasting, Awaited, Opening, Retrying, Early, Trying
<1>15. Awaited'
  BY <1>1, <1>2 DEF Sound, Agreed, Awaited
<1>16. Agreed'
  BY <1>3, <1>4, <1>5, <1>6, <1>7, <1>8, <1>9, <1>10, <1>11, <1>12, <1>13, <1>14,
     <1>15 DEF Agreed
<1> QED
  BY <1>1, <1>16

\* A connect thread joins the last send thread.
LEMMA JoinSendKeeps ==
  ASSUME Sound, NEW t \in Threads, JoinSend(t)
  PROVE  Placed' /\ Agreed'
<1>1. /\ Con = "joinSend" /\ Con' = "awaitSend" /\ Snd' = Snd /\ Rcn' = Rcn
      /\ LeftBefore /\ Placed'
  <2>1. /\ pc[t] = "joinSend" /\ pc' = [pc EXCEPT ![t] = "awaitSend"]
        /\ HandlesKept /\ JoinsBut(t)
    BY DEF Sound, Typed, HandlesKept, JoinsBut, JoinSend, BeginJoin, Step, Move
  <2>2. /\ pc[t] \in ConnectPlaces
        /\ "awaitSend" \in ConnectPlaces \cup {"ended"}
    BY <2>1 DEF ConnectPlaces, Trying, Early
  <2>3. /\ Con = pc[t] /\ Con' = "awaitSend" /\ Snd' = Snd /\ Rcn' = Rcn
        /\ LeftBefore /\ Placed'
    BY <2>1, <2>2, ConnectMoves DEF Sound
  <2> QED
    BY <2>1, <2>3
<1>2. /\ UNCHANGED <<output, stream, user, button, lost, undone>>
      /\ stream.connect_thread \in joinable' <=> stream.connect_thread \in joinable
      /\ stream.send_thread \in joinable
           => joining'[stream.connect_thread] = stream.send_thread
      /\ stream.send_thread \notin joinable'
      /\ joining'[UI] = joining[UI]
      /\ bad_join'
           => bad_join \/ (~lost /\ stream.send_thread \notin joinable)
  <2>1. t = stream.connect_thread
    BY DEF Sound, Placed, Handled, JoinSend, Step, Move, ConnectPlaces, Trying, Early
  <2> QED
    BY <1>1, <2>1, PlacesKnown, NoThreadIsNone DEF Sound, Typed, JoinSend,
                                                   BeginJoin, Step, Move
<1>3. LeftAlone'
  BY <1>1, <1>2 DEF Sound, Agreed, LeftAlone, LeftBefore
<1>4. Alone'
  BY <1>1, <1>2 DEF Sound, Agreed, Alone, Opening, Retrying, Early, Trying, Pausing
<1>5. Starting'
  BY <1>1, <1>2 DEF Sound, Agreed, Starting, Opening, Retrying, Early, Trying
<1>6. Waits'
  BY <1>1, <1>2 DEF Sound, Agreed, Waits
<1>7. Captures'
  BY <1>1, <1>2 DEF Sound, Agreed, Alone, Captures, Early, Trying
<1>8. Losses'
  BY <1>1, <1>2 DEF Sound, Agreed, Losses, Opening, Losing
<1>9. Reconnects'
  BY <1>1, <1>2 DEF Sound, Agreed, Reconnects, Opening, Ending, Leaving
<1>10. Counted'
  BY <1>1, <1>2 DEF Sound, Agreed, Counted
<1>11. Shows'
  BY <1>1, <1>2
     DEF Sound, Agreed, Alone, Starting, Reconnects, Shows, Opening, Early, Trying,
         Ending
<1>12. Signalled'
  BY <1>1, <1>2 DEF Sound, Agreed, Signalled, Opening, Retrying, Early
<1>13. Unbroken'
  BY <1>1, <1>2 DEF Sound, Agreed, Unbroken, Opening, Losing
<1>14. Lasting'
  BY <1>1, <1>2
     DEF Sound, Agreed, Lasting, Opening, Retrying, Early, Trying, Losing, Pausing,
         Leaving
<1>15. Awaited'
  BY <1>1, <1>2 DEF Sound, Agreed, Awaited, Opening
<1>16. Agreed'
  BY <1>3, <1>4, <1>5, <1>6, <1>7, <1>8, <1>9, <1>10, <1>11, <1>12, <1>13, <1>14,
     <1>15 DEF Agreed
<1> QED
  BY <1>1, <1>16

\* It has joined it.
LEMMA AwaitSendKeeps ==
  ASSUME Sound, NEW t \in Threads, AwaitSend(t)
  PROVE  Placed' /\ Agreed'
<1>1. /\ Con = "awaitSend" /\ Con' = "connect" /\ Snd' = Snd /\ Rcn' = Rcn
      /\ LeftBefore /\ Placed'
  <2>1. /\ pc[t] = "awaitSend" /\ pc' = [pc EXCEPT ![t] = "connect"]
        /\ HandlesKept /\ JoinsBut(t)
    BY DEF Sound, Typed, HandlesKept, JoinsBut, AwaitSend, EndJoin, Step, Move
  <2>2. /\ pc[t] \in ConnectPlaces
        /\ "connect" \in ConnectPlaces \cup {"ended"}
    BY <2>1 DEF ConnectPlaces, Trying, Early
  <2>3. /\ Con = pc[t] /\ Con' = "connect" /\ Snd' = Snd /\ Rcn' = Rcn
        /\ LeftBefore /\ Placed'
    BY <2>1, <2>2, ConnectMoves DEF Sound
  <2> QED
    BY <2>1, <2>3
<1>2. /\ UNCHANGED <<output, stream, user, button, joinable, bad_join, lost, undone>>
      /\ joining[stream.connect_thread] = stream.send_thread => Snd = "ended"
      /\ joining'[UI] = joining[UI]
  <2>1. t = stream.connect_thread
    BY DEF Sound, Placed, Handled, AwaitSend, Step, Move, ConnectPlaces, Trying, Early
  <2> QED
    BY <2>1, PlacesKnown, NoThreadIsNone
       DEF Sound, Typed, AwaitSend, EndJoin, Step, Move, Snd, Place
<1>3. LeftAlone'
  BY <1>1, <1>2 DEF Sound, Agreed, LeftAlone, LeftBefore
<1>4. Alone'
  BY <1>1, <1>2 DEF Sound, Agreed, Alone, Opening, Retrying, Early, Trying, Pausing
<1>5. Starting'
  BY <1>1, <1>2 DEF Sound, Agreed, Starting, Opening, Retrying, Early, Trying
<1>6. Waits'
  BY <1>1, <1>2 DEF Sound, Agreed, Waits
<1>7. Captures'
  BY <1>1, <1>2 DEF Sound, Agreed, Captures
<1>8. Losses'
  BY <1>1, <1>2 DEF Sound, Agreed, Alone, Losses, Opening
<1>9. Reconnects'
  BY <1>1, <1>2 DEF Sound, Agreed, Reconnects, Opening, Ending, Leaving
<1>10. Counted'
  BY <1>1, <1>2 DEF Sound, Agreed, Counted
<1>11. Shows'
  BY <1>1, <1>2 DEF Sound, Agreed, Shows, Ending
<1>12. Signalled'
  BY <1>1, <1>2 DEF Sound, Agreed, Signalled, Opening, Retrying, Early
<1>13. Unbroken'
  BY <1>1, <1>2 DEF Sound, Agreed, Alone, Unbroken, Opening, Early, Trying
<1>14. Lasting'
  BY <1>1, <1>2
     DEF Sound, Agreed, Lasting, Opening, Retrying, Early, Trying, Losing, Pausing,
         Leaving
<1>15. Awaited'
  BY <1>1, <1>2 DEF Sound, Agreed, Awaited, Opening
<1>16. Agreed'
  BY <1>3, <1>4, <1>5, <1>6, <1>7, <1>8, <1>9, <1>10, <1>11, <1>12, <1>13, <1>14,
     <1>15 DEF Agreed
<1> QED
  BY <1>1, <1>16

\* A connect thread has reached the server and creates a send thread.
LEMMA ConnectedKeeps ==
  ASSUME Sound, NEW t \in Threads, Connected(t)
  PROVE  Placed' /\ Agreed'
<1>1. /\ Con = "connect" /\ Con' = "setStreaming"
      /\ Snd \in {"ended", "clearStreaming"} /\ Snd' = "send" /\ Rcn' = Rcn
      /\ SendLeftBehind' => SendLeftBehind \/ Snd = "clearStreaming"
      /\ ReconnectLeftBehind' => ReconnectLeftBehind
      /\ Placed'
  <2>1. /\ pc[t] = "connect"
        /\ pc' = [pc EXCEPT ![t] = "setStreaming", ![New] = "send"]
        /\ stream'.connect_thread = stream.connect_thread
        /\ stream'.send_thread = New
        /\ output'.reconnect_thread = output.reconnect_thread
        /\ Free # {} /\ JoinsKept
    BY DEF Sound, Typed, StreamType, JoinsKept, Connected, StepAndCreate, joins
  <2>2. IsNew(New)
    BY <2>1, NewIsNew DEF Sound
  <2>3. Con = "connect"
    BY <2>1, NoThreadIsNone
       DEF Sound, Placed, Handled, Con, Place, ConnectPlaces, Trying, Early
  <2>4. /\ Snd \in {"ended", "clearStreaming"}
        /\ Snd = "ended" \/ ~(SendLeftBehind \/ ReconnectLeftBehind)
    BY <2>3 DEF Sound, Agreed, Alone, LeftAlone
  <2> QED
    BY <2>1, <2>2, <2>3, <2>4, SendBegins DEF Sound
<1>2. /\ UNCHANGED <<output, user, button, joining, bad_join, lost, undone>>
      /\ stream'.connecting = stream.connecting
      /\ stream'.active = stream.active
      /\ stream'.stop_event = stream.stop_event
      /\ ~stream'.posted
      /\ stream'.connect_thread = stream.connect_thread
      /\ stream'.send_thread = New
      /\ stream'.send_thread \in joinable'
      /\ stream.connect_thread \in joinable' <=> stream.connect_thread \in joinable
  <2>1. /\ Free # {} /\ joinable' = (joinable \ Free) \cup {New}
        /\ IsNew(New)
    BY NewIsNew DEF Sound, Connected, StepAndCreate
  <2>2. \A h \in Handles : h \in joinable' <=> h \in joinable
    BY <2>1, StillJoinable DEF Sound
  <2> QED
    BY <2>1, <2>2
       DEF Sound, Typed, StreamType, Handles, IsNew, Connected, StepAndCreate, joins
<1>3. LeftAlone'
  BY <1>1, <1>2
     DEF Sound, Agreed, LeftAlone, Alone, Starting, Reconnects, Signalled, Opening,
         Early, Trying, Pausing
<1>4. Alone'
  BY <1>1, <1>2 DEF Sound, Agreed, Alone, Opening, Retrying, Early, Trying, Pausing
<1>5. Starting'
  BY <1>1, <1>2 DEF Sound, Agreed, Starting, Opening, Retrying, Early, Trying
<1>6. Waits'
  BY <1>1, <1>2 DEF Sound, Agreed, Alone, Waits, Early, Trying
<1>7. Captures'
  BY <1>1, <1>2 DEF Sound, Agreed, Captures
<1>8. Losses'
  BY <1>1, <1>2 DEF Sound, Agreed, Losses, Opening, Losing
<1>9. Reconnects'
  BY <1>1, <1>2 DEF Sound, Agreed, Reconnects, Opening, Ending, Leaving
<1>10. Counted'
  BY <1>1, <1>2 DEF Sound, Agreed, Counted
<1>11. Shows'
  BY <1>1, <1>2 DEF Sound, Agreed, Shows
<1>12. Signalled'
  BY <1>1, <1>2 DEF Sound, Agreed, Signalled, Opening, Retrying, Early
<1>13. Unbroken'
  BY <1>1, <1>2 DEF Sound, Agreed, Unbroken, Opening, Losing
<1>14. Lasting'
  BY <1>1, <1>2, PlacesKnown
     DEF Sound, Agreed, Alone, Lasting, Early, Trying, Losing, ReconnectPlaces
<1>15. Awaited'
  BY <1>1, <1>2 DEF Sound, Agreed, Awaited, Opening
<1>16. Agreed'
  BY <1>3, <1>4, <1>5, <1>6, <1>7, <1>8, <1>9, <1>10, <1>11, <1>12, <1>13, <1>14,
     <1>15 DEF Agreed
<1> QED
  BY <1>1, <1>16

\* A connect thread creates a reconnect thread.
LEMMA ConnectCreatesReconnectKeeps ==
  ASSUME Sound, NEW t \in Threads, CreateReconnect(t, "retry", "detach")
  PROVE  Placed' /\ Agreed'
<1>1. /\ Con = "retry" /\ Con' = "detach" /\ Snd' = Snd
      /\ Rcn \in {"ended"} \cup Leaving /\ Rcn' = "enter"
      /\ SendLeftBehind' => SendLeftBehind
      /\ ReconnectLeftBehind' => ReconnectLeftBehind \/ Rcn \in Leaving
      /\ Placed'
  <2>1. /\ pc[t] = "retry"
        /\ pc' = [pc EXCEPT ![t] = "detach", ![New] = "enter"]
        /\ stream'.connect_thread = stream.connect_thread
        /\ stream'.send_thread = stream.send_thread
        /\ output'.reconnect_thread = New
        /\ Free # {} /\ JoinsKept
    BY DEF Sound, Typed, OutputType, JoinsKept, CreateReconnect, StepAndCreate, joins
  <2>2. IsNew(New)
    BY <2>1, NewIsNew DEF Sound
  <2>3. Con = "retry"
    BY <2>1, NoThreadIsNone
       DEF Sound, Placed, Handled, Con, Place, ConnectPlaces, Trying, Early, Retrying
  <2>4. Rcn \in {"ended"} \cup Leaving
    BY <2>3 DEF Sound, Agreed, Alone, Losses, Placed, Handled, ReconnectPlaces,
                Trying, Early, Retrying, Losing
  <2>5. Rcn = "ended" \/ ~(SendLeftBehind \/ ReconnectLeftBehind)
    BY <2>4 DEF Sound, Agreed, LeftAlone, Leaving
  <2>6. /\ "retry" \in ConnectPlaces
        /\ "detach" \in ConnectPlaces
        /\ "retry" \notin {"awaitSend", "clearStreaming"}
    BY DEF ConnectPlaces, Trying, Early, Retrying, Ending
  <2> QED
    BY <2>1, <2>2, <2>3, <2>4, <2>5, <2>6, ReconnectBegins, PlacesApart DEF Sound
<1>2. /\ UNCHANGED <<stream, user, button, joining, bad_join, lost, undone>>
      /\ output'.active = output.active
      /\ output'.capturing = output.capturing
      /\ output'.stopped = output.stopped
      /\ output'.reconnecting = output.reconnecting
      /\ output'.reconnect_retries = output.reconnect_retries
      /\ output'.reconnect_stop_event = output.reconnect_stop_event
      /\ output'.reconnect_thread_active = output.reconnect_thread_active
      /\ stream.send_thread \in joinable' <=> stream.send_thread \in joinable
      /\ stream.connect_thread \in joinable' <=> stream.connect_thread \in joinable
  <2>1. /\ Free # {} /\ joinable' = (joinable \ Free) \cup {New}
        /\ IsNew(New)
    BY NewIsNew DEF Sound, CreateReconnect, StepAndCreate
  <2>2. \A h \in Handles : h \in joinable' <=> h \in joinable
    BY <2>1, StillJoinable DEF Sound
  <2> QED
    BY <2>1, <2>2
       DEF Sound, Typed, OutputType, Handles, IsNew, CreateReconnect, StepAndCreate,
           joins
<1>3. LeftAlone'
  BY <1>1, <1>2
     DEF Sound, Agreed, LeftAlone, Alone, Starting, Reconnects, Opening, Retrying,
         Early, Trying, Leaving
<1>4. Alone'
  BY <1>1, <1>2 DEF Sound, Agreed, Alone, Opening, Retrying, Early, Trying, Pausing
<1>5. Starting'
  BY <1>1, <1>2 DEF Sound, Agreed, Starting, Opening, Retrying, Early, Trying
<1>6. Waits'
  BY <1>1, <1>2
     DEF Sound, Agreed, Alone, Starting, Waits, Reconnects, Opening, Retrying, Early,
         Trying
<1>7. Captures'
  BY <1>1, <1>2 DEF Sound, Agreed, Captures
<1>8. Losses'
  BY <1>1, <1>2 DEF Sound, Agreed, Losses, Opening, Losing
<1>9. Reconnects'
  BY <1>1, <1>2 DEF Sound, Agreed, Reconnects, Opening, Ending, Leaving
<1>10. Counted'
  BY <1>1, <1>2 DEF Sound, Agreed, Counted
<1>11. Shows'
  BY <1>1, <1>2 DEF Sound, Agreed, Alone, Starting, Shows, Retrying, Early, Trying
<1>12. Signalled'
  BY <1>1, <1>2
     DEF Sound, Agreed, Alone, Starting, Signalled, Opening, Retrying, Early, Trying
<1>13. Unbroken'
  BY <1>1, <1>2 DEF Sound, Agreed, Unbroken, Opening, Losing
<1>14. Lasting'
  BY <1>1, <1>2, PlacesKnown
     DEF Sound, Agreed, Alone, Starting, Reconnects, Signalled, Lasting, Opening,
         Retrying, Early, Trying, Leaving
<1>15. Awaited'
  BY <1>1, <1>2 DEF Sound, Agreed, Awaited
<1>16. Agreed'
  BY <1>3, <1>4, <1>5, <1>6, <1>7, <1>8, <1>9, <1>10, <1>11, <1>12, <1>13, <1>14,
     <1>15 DEF Agreed
<1> QED
  BY <1>1, <1>16

\* A send thread creates a reconnect thread.
LEMMA SendCreatesReconnectKeeps ==
  ASSUME Sound, NEW t \in Threads, CreateReconnect(t, "retrySend", "resetStop")
  PROVE  Placed' /\ Agreed'
<1>1. /\ Snd = "retrySend" /\ Snd' = "resetStop" /\ Con' = Con
      /\ Rcn \in {"ended"} \cup Leaving /\ Rcn' = "enter"
      /\ SendLeftBehind' => SendLeftBehind
      /\ ReconnectLeftBehind' => ReconnectLeftBehind \/ Rcn \in Leaving
      /\ Placed'
  <2>1. /\ pc[t] = "retrySend"
        /\ pc' = [pc EXCEPT ![t] = "resetStop", ![New] = "enter"]
        /\ stream'.connect_thread = stream.connect_thread
        /\ stream'.send_thread = stream.send_thread
        /\ output'.reconnect_thread = New
        /\ Free # {} /\ JoinsKept
    BY DEF Sound, Typed, OutputType, JoinsKept, CreateReconnect, StepAndCreate, joins
  <2>2. IsNew(New)
    BY <2>1, NewIsNew DEF Sound
  <2>3. Snd = "retrySend"
    BY <2>1, NoThreadIsNone
       DEF Sound, Placed, Handled, Snd, Place, SendPlaces, Losing
  <2>4. Rcn \in {"ended"} \cup Leaving
    BY <2>3 DEF Sound, Agreed, Alone, Losses, Placed, Handled, ReconnectPlaces,
                Trying, Early, Retrying, Losing
  <2>5. Rcn = "ended" \/ ~(SendLeftBehind \/ ReconnectLeftBehind)
    BY <2>4 DEF Sound, Agreed, LeftAlone, Leaving
  <2>6. /\ "retrySend" \in SendPlaces
        /\ "resetStop" \in SendPlaces
        /\ "retrySend" \notin {"awaitSend", "clearStreaming"}
    BY DEF SendPlaces, Losing
  <2> QED
    BY <2>1, <2>2, <2>3, <2>4, <2>5, <2>6, ReconnectBegins, PlacesApart DEF Sound
<1>2. /\ UNCHANGED <<stream, user, button, joining, bad_join, lost, undone>>
      /\ output'.active = output.active
      /\ output'.capturing = output.capturing
      /\ output'.stopped = output.stopped
      /\ output'.reconnecting = output.reconnecting
      /\ output'.reconnect_retries = output.reconnect_retries
      /\ output'.reconnect_stop_event = output.reconnect_stop_event
      /\ output'.reconnect_thread_active = output.reconnect_thread_active
      /\ stream.send_thread \in joinable' <=> stream.send_thread \in joinable
      /\ stream.connect_thread \in joinable' <=> stream.connect_thread \in joinable
  <2>1. /\ Free # {} /\ joinable' = (joinable \ Free) \cup {New}
        /\ IsNew(New)
    BY NewIsNew DEF Sound, CreateReconnect, StepAndCreate
  <2>2. \A h \in Handles : h \in joinable' <=> h \in joinable
    BY <2>1, StillJoinable DEF Sound
  <2> QED
    BY <2>1, <2>2
       DEF Sound, Typed, OutputType, Handles, IsNew, CreateReconnect, StepAndCreate,
           joins
<1>3. LeftAlone'
  BY <1>1, <1>2 DEF Sound, Agreed, LeftAlone, Losses, Lasting, Losing, Leaving
<1>4. Alone'
  BY <1>1, <1>2 DEF Sound, Agreed, Alone, Losses, Losing
<1>5. Starting'
  BY <1>1, <1>2 DEF Sound, Agreed, Starting, Losses
<1>6. Waits'
  BY <1>1, <1>2 DEF Sound, Agreed, Waits, Losses
<1>7. Captures'
  BY <1>1, <1>2 DEF Sound, Agreed, Captures
<1>8. Losses'
  BY <1>1, <1>2 DEF Sound, Agreed, Losses, Opening, Losing
<1>9. Reconnects'
  BY <1>1, <1>2 DEF Sound, Agreed, Reconnects, Opening, Ending, Leaving
<1>10. Counted'
  BY <1>1, <1>2 DEF Sound, Agreed, Counted
<1>11. Shows'
  BY <1>1, <1>2 DEF Sound, Agreed, Losses, Shows
<1>12. Signalled'
  BY <1>1, <1>2 DEF Sound, Agreed, Losses, Signalled, Losing
<1>13. Unbroken'
  BY <1>1, <1>2 DEF Sound, Agreed, Unbroken, Opening, Losing
<1>14. Lasting'
  BY <1>1, <1>2 DEF Sound, Agreed, Waits, Losses, Signalled, Lasting, Losing, Leaving
<1>15. Awaited'
  BY <1>1, <1>2 DEF Sound, Agreed, Awaited
<1>16. Agreed'
  BY <1>3, <1>4, <1>5, <1>6, <1>7, <1>8, <1>9, <1>10, <1>11, <1>12, <1>13, <1>14,
     <1>15 DEF Agreed
<1> QED
  BY <1>1, <1>16

\* The user starts the stream.
LEMMA UserStartsKeeps ==
  ASSUME Sound, UserStart, ~StartRaces, button' = "starting"
  PROVE  Placed' /\ Agreed'
<1>1. /\ Con = "ended" /\ Con' = "initConnect" /\ Snd' = Snd /\ Rcn' = Rcn
      /\ Snd \notin Losing \cup {"clearStreaming"} /\ Rcn = "ended"
      /\ Snd = "resetStop" => stream.send_thread \in joinable
      /\ ~SendLeftBehind /\ ~ReconnectLeftBehind
      /\ LeftBefore /\ Placed'
  <2>1. /\ pc' = [pc EXCEPT ![New] = "initConnect"]
        /\ stream'.connect_thread = New
        /\ stream'.send_thread = stream.send_thread
        /\ output'.reconnect_thread = output.reconnect_thread
        /\ Free # {} /\ JoinsKept
    BY DEF Sound, Typed, OutputType, StreamType, JoinsKept, UserStart, ActualStart,
           StartConnect, Acts, joins
  <2>2. IsNew(New)
    BY <2>1, NewIsNew DEF Sound
  <2>3. /\ Con \notin Ending /\ Snd \notin Losing \cup {"clearStreaming"}
        /\ Snd = "resetStop" => stream.send_thread \in joinable
        /\ Rcn = "ended"
        /\ ~SendLeftBehind /\ ~ReconnectLeftBehind
    BY NoneAtStart DEF Sound, UserStart, OutputActive
  <2>4. Con = "ended"
    BY <2>3, PlacesKnown
       DEF Sound, Agreed, Alone, UserStart, OutputActive, ConnectPlaces
  <2> QED
    BY <2>1, <2>2, <2>3, <2>4, ConnectBegins DEF Sound
<1>2. /\ UNCHANGED <<user, joining, bad_join, lost>>
      /\ output'.active = output.active
      /\ output'.capturing = output.capturing
      /\ ~output'.stopped
      /\ output'.reconnecting = output.reconnecting
      /\ output'.reconnect_retries = output.reconnect_retries
      /\ output'.reconnect_stop_event = output.reconnect_stop_event
      /\ output'.reconnect_thread_active = output.reconnect_thread_active
      /\ stream'.connecting
      /\ stream'.active = stream.active
      /\ stream'.stop_event = stream.stop_event
      /\ stream'.posted = stream.posted
      /\ stream'.connect_thread = New
      /\ stream'.send_thread = stream.send_thread
      /\ user = "idle" /\ button # "starting" /\ button' = "starting"
      /\ ~output.active /\ ~output.reconnecting
      /\ ~undone'
      /\ stream'.connect_thread \in joinable'
      /\ stream.send_thread \in joinable' <=> stream.send_thread \in joinable
  <2>1. /\ Free # {} /\ joinable' = (joinable \ Free) \cup {New}
        /\ IsNew(New)
    BY NewIsNew DEF Sound, UserStart, ActualStart, StartConnect, Acts
  <2>2. \A h \in Handles : h \in joinable' <=> h \in joinable
    BY <2>1, StillJoinable DEF Sound
  <2>3. /\ output'.active = output.active
        /\ output'.capturing = output.capturing
        /\ ~output'.stopped
        /\ output'.reconnecting = output.reconnecting
        /\ output'.reconnect_retries = output.reconnect_retries
        /\ output'.reconnect_stop_event = output.reconnect_stop_event
        /\ output'.reconnect_thread_active = output.reconnect_thread_active
    BY DEF Sound, Typed, OutputType, UserStart, ActualStart, StartConnect, Acts
  <2>4. /\ stream'.connecting
        /\ stream'.active = stream.active
        /\ stream'.stop_event = stream.stop_event
        /\ stream'.posted = stream.posted
        /\ stream'.connect_thread = New
        /\ stream'.send_thread = stream.send_thread
    BY DEF Sound, Typed, StreamType, UserStart, ActualStart, StartConnect, Acts
  <2>5. /\ UNCHANGED <<user, joining, bad_join, lost>>
        /\ user = "idle" /\ button # "starting" /\ button' = "starting"
        /\ ~output.active /\ ~output.reconnecting
        /\ ~undone'
    BY DEF UserStart, ActualStart, StartConnect, Acts, OutputActive, joins
  <2>6. /\ stream'.connect_thread \in joinable'
        /\ stream.send_thread \in joinable' <=> stream.send_thread \in joinable
    BY <2>1, <2>2
       DEF Sound, Typed, StreamType, Handles, IsNew, UserStart, ActualStart,
           StartConnect, Acts
  <2> QED
    BY <2>3, <2>4, <2>5, <2>6
<1>3. LeftAlone'
  BY <1>1, <1>2 DEF Sound, Agreed, LeftAlone, LeftBefore
<1>4. Alone'
  BY <1>1, <1>2, PlacesKnown
     DEF Sound, Agreed, Alone, Waits, Losses, Pausing, SendPlaces, Losing
<1>5. Starting'
  BY <1>1, <1>2 DEF Sound, Agreed, Starting, Waits, Retrying, Early, Trying, Pausing
<1>6. Waits'
  BY <1>1, <1>2 DEF Sound, Agreed, Waits
<1>7. Captures'
  BY <1>1, <1>2 DEF Sound, Agreed, Captures
<1>8. Losses'
  BY <1>1, <1>2 DEF Sound, Agreed, Captures, Losses, Opening, Losing
<1>9. Reconnects'
  BY <1>1, <1>2 DEF Sound, Agreed, Reconnects
<1>10. Counted'
  BY <1>1, <1>2 DEF Sound, Agreed, Counted
<1>11. Shows'
  BY <1>1, <1>2 DEF Sound, Agreed, Waits, Shows, Ending, Pausing
<1>12. Signalled'
  BY <1>1, <1>2, PlacesKnown
     DEF Sound, Agreed, Waits, Signalled, Pausing, SendPlaces, Losing
<1>13. Unbroken'
  BY <1>1, <1>2 DEF Sound, Agreed, Unbroken, Opening, Losing
<1>14. Lasting'
  BY <1>1, <1>2 DEF Sound, Agreed, Waits, Lasting, Losing, Pausing
<1>15. Awaited'
  BY <1>1, <1>2, PlacesKnown
     DEF Sound, Agreed, Captures, Losses, Awaited, SendPlaces, Losing
<1>16. Agreed'
  BY <1>3, <1>4, <1>5, <1>6, <1>7, <1>8, <1>9, <1>10, <1>11, <1>12, <1>13, <1>14,
     <1>15 DEF Agreed
<1> QED
  BY <1>1, <1>16

\* An encoder cannot be opened: the stream does not start.
LEMMA UserStartFailsKeeps ==
  ASSUME Sound, UserStart, ~StartRaces, button' # "starting"
  PROVE  Placed' /\ Agreed'
<1>1. /\ UNCHANGED <<stream, user, joinable, joining, bad_join, lost, undone, pc>>
      /\ output'.active = output.active
      /\ output'.capturing = output.capturing
      /\ ~output'.stopped
      /\ output'.reconnecting = output.reconnecting
      /\ output'.reconnect_retries = output.reconnect_retries
      /\ output'.reconnect_stop_event = output.reconnect_stop_event
      /\ output'.reconnect_thread_active = output.reconnect_thread_active
      /\ output'.reconnect_thread = output.reconnect_thread
      /\ button' = "idle" /\ button # "starting" /\ user = "idle"
      /\ ~output.active /\ ~output.reconnecting
  BY DEF Sound, Typed, OutputType, UserStart, ActualStart, OutputActive
<1>2. /\ Con' = Con /\ Snd' = Snd /\ Rcn' = Rcn
      /\ LeftBefore /\ Placed'
  <2>1. pc' = pc /\ HandlesKept /\ JoinsKept
    BY <1>1 DEF HandlesKept, JoinsKept
  <2> QED
    BY <2>1, UserMoves DEF Sound
<1>3. /\ Con = "ended" /\ Rcn = "ended"
      /\ Snd \notin Losing \cup {"clearStreaming"}
  <2>1. /\ Con \notin Ending /\ Rcn = "ended"
        /\ Snd \notin Losing \cup {"clearStreaming"}
    BY <1>1, NoneAtStart
  <2>2. Con = "ended"
    BY <1>1, <2>1, PlacesKnown DEF Sound, Agreed, Alone, ConnectPlaces
  <2> QED
    BY <2>1, <2>2
<1>4. LeftAlone' /\ Starting' /\ Waits' /\ Losses'
  BY <1>1, <1>2, <1>3
     DEF Sound, Agreed, LeftAlone, LeftBefore, Starting, Waits, Losses
<1>5. Alone'
  BY <1>1, <1>2, <1>3 DEF Sound, Agreed, Alone, Early, Trying, Opening, Retrying
<1>6. Captures' /\ Reconnects' /\ Counted'
  BY <1>1, <1>2 DEF Sound, Agreed, Captures, Reconnects, Counted
<1>7. Shows' /\ Signalled' /\ Awaited'
  BY <1>1, <1>2, <1>3 DEF Sound, Agreed, Shows, Signalled, Awaited
<1>8. Unbroken'
  BY <1>1, <1>2, <1>3 DEF Sound, Agreed, Unbroken
<1>9. Lasting'
  BY <1>1, <1>2, <1>3
     DEF Sound, Agreed, Lasting, Opening, Retrying, Early, Trying, Pausing, Leaving
<1> QED
  BY <1>2, <1>4, <1>5, <1>6, <1>7, <1>8, <1>9 DEF Agreed

\* It creates a connect thread and leaves.
LEMMA RestartStartsKeeps ==
  ASSUME Sound, NEW t \in Threads, ActualStart, UNCHANGED button,
         StepAndCreate(t, "restart", "leave", "initConnect"), StartConnect
  PROVE  Placed' /\ Agreed'
<1>1. /\ Con = "ended" /\ Con' = "initConnect" /\ Snd' = Snd
      /\ Rcn = "restart" /\ Rcn' = "leave"
      /\ LeftBefore /\ Placed'
  <2>1. /\ pc[t] = "restart"
        /\ pc' = [pc EXCEPT ![t] = "leave", ![New] = "initConnect"]
        /\ stream'.connect_thread = New
        /\ stream'.send_thread = stream.send_thread
        /\ output'.reconnect_thread = output.reconnect_thread
        /\ Free # {} /\ JoinsKept
    BY DEF Sound, Typed, OutputType, StreamType, JoinsKept, Restart, ActualStart,
           StartConnect, StepAndCreate, joins
  <2>2. IsNew(New)
    BY <2>1, NewIsNew DEF Sound
  <2>3. Rcn = "restart"
    BY <2>1, NoThreadIsNone DEF Sound, Placed, Handled, Rcn, Place, Pausing
  <2>4. Con = "ended"
    BY <2>3, PlacesKnown
       DEF Sound, Agreed, Alone, Waits, Reconnects, ConnectPlaces, Pausing
  <2> QED
    BY <2>1, <2>2, <2>3, <2>4, ConnectBeginsAgain DEF Sound
<1>2. /\ UNCHANGED <<user, button, joining, bad_join, lost, undone>>
      /\ output'.active = output.active
      /\ output'.capturing = output.capturing
      /\ ~output'.stopped
      /\ output'.reconnecting = output.reconnecting
      /\ output'.reconnect_retries = output.reconnect_retries
      /\ output'.reconnect_stop_event = output.reconnect_stop_event
      /\ output'.reconnect_thread_active = output.reconnect_thread_active
      /\ stream'.connecting
      /\ stream'.active = stream.active
      /\ stream'.stop_event = stream.stop_event
      /\ stream'.posted = stream.posted
      /\ stream'.connect_thread = New
      /\ stream'.send_thread = stream.send_thread
      /\ ~output.active
      /\ stream'.connect_thread \in joinable'
      /\ stream.send_thread \in joinable' <=> stream.send_thread \in joinable
  <2>1. /\ Free # {} /\ joinable' = (joinable \ Free) \cup {New}
        /\ IsNew(New)
    BY NewIsNew DEF Sound, ActualStart, StartConnect, StepAndCreate
  <2>2. \A h \in Handles : h \in joinable' <=> h \in joinable
    BY <2>1, StillJoinable DEF Sound
  <2>3. /\ output'.active = output.active
        /\ output'.capturing = output.capturing
        /\ ~output'.stopped
        /\ output'.reconnecting = output.reconnecting
        /\ output'.reconnect_retries = output.reconnect_retries
        /\ output'.reconnect_stop_event = output.reconnect_stop_event
        /\ output'.reconnect_thread_active = output.reconnect_thread_active
    BY DEF Sound, Typed, OutputType, ActualStart, StartConnect, StepAndCreate
  <2>4. /\ stream'.connecting
        /\ stream'.active = stream.active
        /\ stream'.stop_event = stream.stop_event
        /\ stream'.posted = stream.posted
        /\ stream'.connect_thread = New
        /\ stream'.send_thread = stream.send_thread
    BY DEF Sound, Typed, StreamType, ActualStart, StartConnect, StepAndCreate
  <2>5. /\ UNCHANGED <<user, button, joining, bad_join, lost, undone>>
        /\ ~output.active
    BY DEF ActualStart, StartConnect, StepAndCreate, OutputActive, joins
  <2>6. /\ stream'.connect_thread \in joinable'
        /\ stream.send_thread \in joinable' <=> stream.send_thread \in joinable
    BY <2>1, <2>2
       DEF Sound, Typed, StreamType, Handles, IsNew, ActualStart, StartConnect,
           StepAndCreate
  <2> QED
    BY <2>3, <2>4, <2>5, <2>6
<1>3. LeftAlone'
  BY <1>1, <1>2 DEF Sound, Agreed, LeftAlone, LeftBefore
<1>4. Alone'
  BY <1>1, <1>2 DEF Sound, Agreed, Alone, Waits, Losses, Reconnects, Losing, Pausing
<1>5. Starting'
  BY <1>1, <1>2 DEF Sound, Agreed, Starting, Waits, Reconnects, Opening, Pausing
<1>6. Waits'
  BY <1>1, <1>2 DEF Sound, Agreed, Waits, Pausing
<1>7. Captures'
  BY <1>1, <1>2 DEF Sound, Agreed, Captures
<1>8. Losses'
  BY <1>1, <1>2 DEF Sound, Agreed, Waits, Losses, Reconnects, Opening, Pausing
<1>9. Reconnects'
  BY <1>1, <1>2 DEF Sound, Agreed, Waits, Reconnects, Opening, Ending
<1>10. Counted'
  BY <1>1, <1>2 DEF Sound, Agreed, Counted
<1>11. Shows'
  BY <1>1, <1>2 DEF Sound, Agreed, Shows, Ending
<1>12. Signalled'
  BY <1>1, <1>2 DEF Sound, Agreed, Waits, Signalled
<1>13. Unbroken'
  BY <1>1, <1>2 DEF Sound, Agreed, Waits, Unbroken, Pausing
<1>14. Lasting'
  BY <1>1, <1>2 DEF Sound, Agreed, Waits, Signalled, Lasting, Pausing
<1>15. Awaited'
  BY <1>1, <1>2
     DEF Sound, Agreed, Waits, Losses, Reconnects, Awaited, Opening, Losing, Pausing
<1>16. Agreed'
  BY <1>3, <1>4, <1>5, <1>6, <1>7, <1>8, <1>9, <1>10, <1>11, <1>12, <1>13, <1>14,
     <1>15 DEF Agreed
<1> QED
  BY <1>1, <1>16

\* Nothing that the invariant is about changes.
LEMMA NothingKeeps ==
  ASSUME Sound, pc' = pc, HandlesKept, JoinsKept,
         UNCHANGED <<output, user, button, joinable, joining, bad_join, lost, undone>>,
         stream'.connecting = stream.connecting, stream'.active = stream.active,
         stream'.stop_event = stream.stop_event,
         stream'.posted => stream.posted \/ output.capturing
  PROVE  Placed' /\ Agreed'
<1>1. /\ Con' = Con /\ Snd' = Snd /\ Rcn' = Rcn
      /\ LeftBefore /\ Placed'
  BY UserMoves DEF Sound
<1>2. /\ stream'.connect_thread = stream.connect_thread
      /\ stream'.send_thread = stream.send_thread
  BY DEF HandlesKept
<1>3. LeftAlone' /\ Alone' /\ Starting' /\ Waits'
  BY <1>1, <1>2 DEF Sound, Agreed, LeftAlone, Alone, Starting, Waits, LeftBefore
<1>4. Captures' /\ Losses' /\ Reconnects' /\ Counted'
  BY <1>1, <1>2 DEF Sound, Agreed, Alone, Captures, Losses, Reconnects, Counted, Trying,
                    Opening
<1>5. Shows' /\ Signalled' /\ Unbroken'
  BY <1>1, <1>2 DEF Sound, Agreed, Shows, Signalled, Unbroken, OutputActive
<1>6. Lasting' /\ Awaited'
  BY <1>1, <1>2 DEF Sound, Agreed, Lasting, Awaited
<1> QED
  BY <1>1, <1>3, <1>4, <1>5, <1>6 DEF Agreed

\* A packet is queued.
LEMMA DeliverKeeps ==
  ASSUME Sound, Deliver
  PROVE  Placed' /\ Agreed'
<1>1. /\ pc' = pc /\ HandlesKept /\ JoinsKept
      /\ UNCHANGED <<output, user, button, joinable, joining, bad_join, lost, undone>>
      /\ stream'.connecting = stream.connecting /\ stream'.active = stream.active
      /\ stream'.stop_event = stream.stop_event
      /\ stream'.posted => stream.posted \/ output.capturing
  BY DEF Sound, Typed, StreamType, HandlesKept, JoinsKept, Deliver, joins
<1> QED
  BY <1>1, NothingKeeps

LEMMA StutterKeeps ==
  ASSUME Sound, UNCHANGED vars
  PROVE  Placed' /\ Agreed'
<1>1. /\ pc' = pc /\ HandlesKept /\ JoinsKept
      /\ UNCHANGED <<output, user, button, joinable, joining, bad_join, lost, undone>>
      /\ stream'.connecting = stream.connecting /\ stream'.active = stream.active
      /\ stream'.stop_event = stream.stop_event
      /\ stream'.posted => stream.posted \/ output.capturing
  BY DEF HandlesKept, JoinsKept, vars, joins
<1> QED
  BY <1>1, NothingKeeps

-----------------------------------------------------------------------------
(* The invariant holds always.                                             *)

LEMMA InitIInv ==
  ASSUME Init
  PROVE  IInv
<1>1. Typed
  <2>1. output \in OutputType
    BY DEF Init, OutputType
  <2>2. stream \in StreamType
    BY DEF Init, StreamType
  <2>3. pc \in [Threads -> ThreadPlaces] /\ user \in UserPlaces
    BY DEF Init, ThreadPlaces, UserPlaces
  <2> QED
    BY <2>1, <2>2, <2>3 DEF Init, Typed
<1>2. Con = "ended" /\ Snd = "ended" /\ Rcn = "ended"
  BY DEF Init, Con, Snd, Rcn, Place
<1>3. \A t \in Threads : pc[t] = "ended" /\ joining[t] = NoThread
  BY DEF Init
<1>4. ~SendLeftBehind /\ ~ReconnectLeftBehind /\ OneLeft
  BY <1>3
     DEF SendLeftBehind, ReconnectLeftBehind, OneLeft, Left, SendLeft, ReconnectLeft,
         Leaving
<1>5. Handled
  <2>1. /\ "ended" \notin ConnectPlaces /\ "ended" \notin SendPlaces
        /\ "ended" \notin Pausing
    BY PlacesApart
  <2> QED
    BY <1>2, <1>3, <2>1, NoThreadIsNone DEF Init, Handled
<1>6. Joined
  BY <1>3 DEF Joined
<1>7. LeftAlone /\ Alone /\ Starting /\ Waits /\ Captures /\ Losses
  BY <1>2, <1>4
     DEF Init, LeftAlone, Alone, Starting, Waits, Captures, Losses, Opening, Retrying,
         Early, Trying, Losing, Pausing
<1>8. Counted
  BY <1>2, StreamOutputAssumption DEF Init, Counted
<1>9. Reconnects /\ Shows /\ Signalled /\ Unbroken /\ Lasting /\ Awaited
  BY <1>2
     DEF Init, Reconnects, Shows, Signalled, Unbroken, Lasting, Awaited, OutputActive,
         Opening, Retrying, Early, Trying, Ending, Losing, Pausing, Leaving
<1>10. races = 0 /\ 0 \in 0 .. MaxRaces /\ abandoned = FALSE
  BY StreamOutputAssumption DEF Init
<1> QED
  BY <1>1, <1>4, <1>5, <1>6, <1>7, <1>8, <1>9, <1>10 DEF IInv, Placed, Agreed

\* Whatever the user interface does in obs_output_stop.
LEMMA StoppingKeeps ==
  ASSUME Sound, Stopping
  PROVE  Placed' /\ Agreed'
BY ReadReconnectKeeps, JoinReconnectKeeps, AwaitReconnectKeeps, ReadStopKeeps,
   JoinConnectKeeps, AwaitConnectKeeps, SetStopKeeps, UserEndCaptureKeeps,
   UserSignalKeeps
   DEF Stopping

\* Whatever a thread does by itself, save that a reconnect thread begins an attempt.
LEMMA RunKeeps ==
  ASSUME Sound, NEW t \in Threads, Run(t), ~Restart(t),
         WaitTimedOut(t) => ~RetryRaces
  PROVE  Placed' /\ Agreed'
<1>1. CASE Connect(t)
  BY <1>1, InitConnectKeeps, JoinSendKeeps, AwaitSendKeeps, ConnectFailsKeeps,
     ConnectedKeeps, SetStreamingKeeps, BeginCaptureKeeps, ActivateKeeps,
     SignalStartKeeps, SignalFailureKeeps, DetachConnectKeeps, ClearConnectingKeeps
     DEF Connect
<1>2. CASE Send(t)
  BY <1>2, SendStopsKeeps, SendPacketKeeps, CloseSendKeeps, SignalLostKeeps,
     ResetStopKeeps, ClearStreamingKeeps
     DEF Send
<1>3. CASE Reconnect(t)
  BY <1>3, EnterReconnectKeeps, WaitStoppedKeeps, WaitTimedOutKeeps,
     LeaveReconnectKeeps, ExitReconnectKeeps
     DEF Reconnect
<1>4. CASE OutputReconnect(t, "countRetry", "setReconnecting", "retry", "detach")
  BY <1>4, ConnectGivesUpKeeps, ConnectGoesOnKeeps, ConnectSetsReconnectingKeeps,
     ConnectCreatesReconnectKeeps
     DEF OutputReconnect
<1>5. CASE OutputReconnect(t, "countRetrySend", "setReconnectingSend", "retrySend",
                           "resetStop")
  BY <1>5, SendGivesUpKeeps, SendGoesOnKeeps, SendSetsReconnectingKeeps,
     SendCreatesReconnectKeeps
     DEF OutputReconnect
<1> QED
  BY <1>1, <1>2, <1>3, <1>4, <1>5 DEF Run

\* An attempt that cannot begin is the last thing that happens.
LEMMA RestartFails ==
  ASSUME Sound, NEW t \in Threads, Move(t, "restart", "leave"), ActualStart,
         UNCHANGED <<stream, button, joins>>
  PROVE  GivenUp' /\ output.reconnecting
<1>1. /\ pc[t] = "restart" /\ t = output.reconnect_thread
      /\ pc' = [pc EXCEPT ![t] = "leave"]
  BY DEF Sound, Placed, Handled, Pausing, Move
<1>2. Rcn = "restart"
  BY <1>1, NoThreadIsNone DEF Rcn, Place
<1>3. /\ Con \notin Trying /\ output.reconnecting
      /\ ~output.reconnect_stop_event
  BY <1>2 DEF Sound, Agreed, Alone, Waits, Pausing
<1>4. Con = "ended"
  BY <1>2, <1>3, PlacesKnown DEF Sound, Agreed, Reconnects, ConnectPlaces
<1>5. Snd = "ended"
  BY <1>2, <1>3, <1>4 DEF Sound, Agreed, Reconnects, Losses, Losing, Opening
<1>6. \A u \in Threads : pc[u] # "ended" => u = t
  <2> SUFFICES ASSUME NEW u \in Threads, pc[u] # "ended", u # t
               PROVE  FALSE
    OBVIOUS
  <2>1. pc[u] \notin ConnectPlaces
    BY <1>4, NoThreadIsNone, PlacesApart DEF Sound, Placed, Handled, Con, Place
  <2>2. pc[u] \notin SendPlaces \ {"clearStreaming"}
    BY <1>5, NoThreadIsNone DEF Sound, Placed, Handled, Snd, Place
  <2>3. pc[u] # "clearStreaming"
    <3>1. ~SendLeftBehind
      BY <1>5 DEF Sound, Agreed, LeftAlone
    <3>2. u = stream.send_thread => Snd = pc[u]
      BY NoThreadIsNone DEF Snd, Place
    <3> QED
      BY <1>5, <3>1, <3>2 DEF SendLeftBehind, SendLeft
  <2>4. pc[u] \notin Pausing
    BY <1>1 DEF Sound, Placed, Handled
  <2>5. pc[u] \notin Leaving
    BY <1>1, <1>2 DEF Sound, Agreed, LeftAlone, ReconnectLeftBehind, ReconnectLeft
  <2>6. pc[u] \in ThreadPlaces
    BY DEF Sound, Typed
  <2> QED
    BY <2>1, <2>2, <2>3, <2>4, <2>5, <2>6 DEF ThreadPlaces, ReconnectPlaces
<1>7. \A u \in Threads : joining[u] = NoThread
  BY <1>1, <1>6 DEF Sound, Placed, Joined
<1>8. ~output.active /\ ~output.capturing
  BY <1>2, <1>3, <1>4, <1>5
     DEF Sound, Agreed, Captures, Losses, Reconnects, Opening, Pausing
<1>9. button # "starting" /\ lost /\ ~bad_join
  BY <1>2, <1>3 DEF Sound, Agreed, Starting, Unbroken
<1>10. output' = [output EXCEPT !.stopped = FALSE]
  BY DEF ActualStart
<1>11. /\ output'.reconnecting /\ ~output'.active /\ ~output'.capturing
       /\ output'.reconnect_retries = output.reconnect_retries
       /\ output'.reconnect_thread = output.reconnect_thread
       /\ ~output'.reconnect_stop_event
  BY <1>3, <1>8, <1>10 DEF Sound, Typed, OutputType
<1>12. \A u \in Threads :
         pc'[u] # "ended" => pc'[u] \in Leaving /\ u = output'.reconnect_thread
  BY <1>1, <1>6, <1>11 DEF Sound, Typed, Leaving
<1>13. output'.reconnect_retries <= reconnect_retry_max
  BY <1>11 DEF Sound, Agreed, Counted
<1> QED
  BY <1>3, <1>7, <1>9, <1>11, <1>12, <1>13 DEF GivenUp, joins

\* Then nothing starts or stops any more.
LEMMA GivenUpKeeps ==
  ASSUME Typed, GivenUp, [Next]_vars, races = 0, races' = 0
  PROVE  GivenUp'
<1>1. \A t \in Threads : /\ pc[t] \in {"ended", "leave", "exit"}
                         /\ joining[t] = NoThread
  BY DEF GivenUp, Leaving
<1>2. ~UserStart
  BY DEF GivenUp, UserStart, OutputActive
<1>3. CASE UserStop
  <2>1. \A t \in Threads : pc[t] = "ended"
    BY <1>1, <1>3 DEF UserStop, Acts, StopRaces, Departing, At
  <2>2. /\ output'.reconnecting = output.reconnecting
        /\ output'.active = output.active /\ output'.capturing = output.capturing
        /\ output'.reconnect_retries = output.reconnect_retries
    BY <1>3 DEF Typed, OutputType, UserStop
  <2> QED
    BY <1>3, <2>1, <2>2 DEF GivenUp, UserStop, UserMove, joins
<1>4. CASE Stopping
  <2>1. /\ output'.reconnecting = output.reconnecting
        /\ ~output'.active /\ ~output'.capturing
        /\ output'.reconnect_retries = output.reconnect_retries
        /\ output'.reconnect_thread = output.reconnect_thread
        /\ output'.reconnect_stop_event = output.reconnect_stop_event
    BY <1>4
       DEF Typed, OutputType, GivenUp, Stopping, ReadReconnect, JoinReconnect,
           AwaitReconnect, ReadStop, JoinConnect, AwaitConnect, SetStop,
           UserEndCapture, UserSignal, EndDataCapture, BeginJoin, EndJoin
  <2>2. /\ pc' = pc /\ lost' = lost
        /\ button' = button \/ button' = "idle"
    BY <1>4
       DEF Stopping, ReadReconnect, JoinReconnect, AwaitReconnect, ReadStop,
           JoinConnect, AwaitConnect, SetStop, UserEndCapture, UserSignal,
           SignalStop, BeginJoin, EndJoin, UserStep, UserMove, joins
  <2>3. bad_join' = bad_join
    BY <1>4
       DEF Typed, GivenUp, Stopping, ReadReconnect, JoinReconnect, AwaitReconnect,
           ReadStop, JoinConnect, AwaitConnect, SetStop, UserEndCapture, UserSignal,
           BeginJoin, EndJoin, joins
  <2>4. \A t \in Threads : joining'[t] = joining[t]
    BY <1>4, NoThreadIsNone
       DEF Typed, Stopping, ReadReconnect, JoinReconnect, AwaitReconnect, ReadStop,
           JoinConnect, AwaitConnect, SetStop, UserEndCapture, UserSignal,
           BeginJoin, EndJoin, joins
  <2> QED
    BY <2>1, <2>2, <2>3, <2>4 DEF GivenUp
<1>5. ~Deliver
  BY DEF GivenUp, Deliver
<1>6. ASSUME NEW t \in Threads, Run(t)
      PROVE  GivenUp'
  <2>1. LeaveReconnect(t) \/ ExitReconnect(t)
    <3>1. ~Connect(t)
      BY <1>1
         DEF Connect, InitConnect, JoinSend, AwaitSend, ConnectFails, Connected,
             SetStreaming, BeginCapture, Activate, SignalStart, SignalFailure,
             DetachConnect, ClearConnecting, StepAndCreate, Step, Move
    <3>2. ~Send(t)
      BY <1>1
         DEF Send, SendStops, SendPacket, CloseSend, SignalLost, ResetStop,
             ClearStreaming, Step, Move
    <3>3. /\ ~OutputReconnect(t, "countRetry", "setReconnecting", "retry", "detach")
          /\ ~OutputReconnect(t, "countRetrySend", "setReconnectingSend",
                              "retrySend", "resetStop")
      BY <1>1
         DEF OutputReconnect, GiveUp, OneMore, SetReconnecting, CreateReconnect,
             StepAndCreate, Step, Move
    <3>4. ~EnterReconnect(t) /\ ~WaitStopped(t) /\ ~WaitTimedOut(t) /\ ~Restart(t)
      BY <1>1
         DEF EnterReconnect, WaitStopped, WaitTimedOut, Restart, StepAndCreate, Step,
             Move
    <3> QED
      BY <1>6, <3>1, <3>2, <3>3, <3>4 DEF Run, Reconnect
  <2>2. CASE LeaveReconnect(t)
    <3>1. pc[t] = "leave" /\ pc' = [pc EXCEPT ![t] = "exit"]
      BY <2>2 DEF LeaveReconnect, Step, Move
    <3>2. ~output.reconnect_stop_event
      BY <3>1 DEF GivenUp
    <3>3. UNCHANGED <<output, button, joining, bad_join, lost>>
      BY <2>2, <3>2 DEF LeaveReconnect, Detach
    <3>4. \A u \in Threads : /\ pc'[u] = "exit" => pc[u] # "ended"
                             /\ pc'[u] # "exit" => pc'[u] = pc[u]
      BY <3>1 DEF Typed
    <3> QED
      BY <1>1, <3>3, <3>4 DEF GivenUp, Leaving
  <2>3. CASE ExitReconnect(t)
    <3>1. pc[t] = "exit" /\ pc' = [pc EXCEPT ![t] = "ended"]
      BY <2>3 DEF ExitReconnect, Step, Move
    <3>2. /\ UNCHANGED <<button, joining, bad_join, lost>>
          /\ output' = [output EXCEPT !.reconnect_thread_active = FALSE]
      BY <2>3 DEF ExitReconnect, joins
    <3>3. /\ output'.reconnecting = output.reconnecting
          /\ output'.active = output.active /\ output'.capturing = output.capturing
          /\ output'.reconnect_retries = output.reconnect_retries
          /\ output'.reconnect_thread = output.reconnect_thread
          /\ output'.reconnect_stop_event = output.reconnect_stop_event
      BY <3>2 DEF Typed, OutputType
    <3>4. \A u \in Threads : pc'[u] = pc[u] \/ pc'[u] = "ended"
      BY <3>1 DEF Typed
    <3> QED
      BY <3>2, <3>3, <3>4 DEF GivenUp
  <2> QED
    BY <2>1, <2>2, <2>3
<1>7. ASSUME NEW t \in Threads, SendFails(t)
      PROVE  FALSE
  BY <1>1, <1>7 DEF SendFails, Move
<1>8. CASE UNCHANGED vars
  BY <1>8 DEF GivenUp, vars, joins
<1> QED
  BY <1>2, <1>3, <1>4, <1>5, <1>6, <1>7, <1>8 DEF Next

\* What is done at such a moment is counted.
LEMMA ActsCounted ==
  ASSUME races \in 0 .. MaxRaces, NEW racing \in BOOLEAN, Acts(racing)
  PROVE  /\ races' \in 0 .. MaxRaces /\ races' >= races
         /\ abandoned' = abandoned
         /\ races' = races => ~racing
BY StreamOutputAssumption DEF Acts

LEMMA NotRacing ==
  ASSUME races \in 0 .. MaxRaces, races' = races
  PROVE  /\ UserStart => ~StartRaces
         /\ UserStop => ~StopRaces
         /\ \A t \in Threads : /\ SendFails(t) => ~LossRaces
                               /\ WaitTimedOut(t) => ~RetryRaces
<1>1. /\ StartRaces \in BOOLEAN /\ StopRaces \in BOOLEAN
      /\ LossRaces \in BOOLEAN /\ RetryRaces \in BOOLEAN
  BY DEF StartRaces, StopRaces, LossRaces, RetryRaces
<1>2. UserStart => ~StartRaces
  BY <1>1, ActsCounted DEF UserStart
<1>3. UserStop => ~StopRaces
  BY <1>1, ActsCounted DEF UserStop
<1>4. \A t \in Threads : SendFails(t) => ~LossRaces
  BY <1>1, ActsCounted DEF SendFails
<1>5. \A t \in Threads : WaitTimedOut(t) => ~RetryRaces
  BY <1>1, ActsCounted DEF WaitTimedOut
<1> QED
  BY <1>2, <1>3, <1>4, <1>5

\* A thread by itself only begins an attempt, or waits for it until it is due.
LEMMA RunFate ==
  ASSUME races \in 0 .. MaxRaces, NEW t \in Threads, Run(t)
  PROVE  \/ fate' = fate
         \/ races' \in 0 .. MaxRaces /\ races' >= races /\ abandoned' = abandoned
         \/ /\ Restart(t) /\ races' = races
            /\ abandoned' \in {abandoned, abandoned \/ output.reconnecting}
<1>1. CASE Connect(t)
  BY <1>1
     DEF Connect, InitConnect, JoinSend, AwaitSend, ConnectFails, Connected,
         SetStreaming, BeginCapture, Activate, SignalStart, SignalFailure,
         DetachConnect, ClearConnecting, StepAndCreate, Step
<1>2. CASE Send(t)
  BY <1>2
     DEF Send, SendStops, SendPacket, CloseSend, SignalLost, ResetStop,
         ClearStreaming, Step
<1>3. CASE OutputReconnect(t, "countRetry", "setReconnecting", "retry", "detach")
  BY <1>3
     DEF OutputReconnect, GiveUp, OneMore, SetReconnecting, CreateReconnect,
         StepAndCreate, Step
<1>4. CASE OutputReconnect(t, "countRetrySend", "setReconnectingSend", "retrySend",
                           "resetStop")
  BY <1>4
     DEF OutputReconnect, GiveUp, OneMore, SetReconnecting, CreateReconnect,
         StepAndCreate, Step
<1>5. CASE Reconnect(t)
  <2>1. CASE EnterReconnect(t) \/ WaitStopped(t) \/ LeaveReconnect(t)
               \/ ExitReconnect(t)
    BY <2>1 DEF EnterReconnect, WaitStopped, LeaveReconnect, ExitReconnect, Step
  <2>2. CASE WaitTimedOut(t)
    <3>1. RetryRaces \in BOOLEAN
      BY DEF RetryRaces
    <3> QED
      BY <2>2, <3>1, ActsCounted DEF WaitTimedOut
  <2>3. CASE Restart(t)
    <3>1. CASE StepAndCreate(t, "restart", "leave", "initConnect")
      BY <3>1 DEF StepAndCreate
    <3>2. CASE /\ abandoned' = (abandoned \/ output.reconnecting)
               /\ UNCHANGED races
      <4>1. abandoned' \in {abandoned, abandoned \/ output.reconnecting}
        BY <3>2
      <4> QED
        BY <2>3, <3>2, <4>1
    <3> QED
      BY <2>3, <3>1, <3>2 DEF Restart
  <2> QED
    BY <1>5, <2>1, <2>2, <2>3 DEF Reconnect
<1> QED
  BY <1>1, <1>2, <1>3, <1>4, <1>5 DEF Run

LEMMA FateKept ==
  ASSUME [Next]_vars, races \in 0 .. MaxRaces, abandoned \in BOOLEAN
  PROVE  /\ races' \in 0 .. MaxRaces /\ races' >= races
         /\ abandoned' \in BOOLEAN /\ (abandoned => abandoned')
         /\ (\A t \in Threads : ~Restart(t)) => abandoned' = abandoned
<1>1. MaxRaces \in Nat
  BY StreamOutputAssumption
<1>2. ASSUME fate' = fate
      PROVE  races' = races /\ abandoned' = abandoned
  BY <1>2 DEF fate
<1>3. CASE UserStart
  <2>1. StartRaces \in BOOLEAN
    BY DEF StartRaces
  <2> QED
    BY <1>3, <2>1, ActsCounted DEF UserStart
<1>4. CASE UserStop
  <2>1. StopRaces \in BOOLEAN
    BY DEF StopRaces
  <2> QED
    BY <1>4, <2>1, ActsCounted DEF UserStop
<1>5. CASE Stopping
  <2>1. fate' = fate
    BY <1>5
       DEF Stopping, ReadReconnect, JoinReconnect, AwaitReconnect, ReadStop,
           JoinConnect, AwaitConnect, SetStop, UserEndCapture, UserSignal, UserStep
  <2> QED
    BY <1>1, <1>2, <2>1
<1>6. CASE Deliver
  BY <1>1, <1>2, <1>6 DEF Deliver, fate
<1>7. ASSUME NEW t \in Threads, Run(t)
      PROVE  /\ races' \in 0 .. MaxRaces /\ races' >= races
             /\ abandoned' \in BOOLEAN /\ (abandoned => abandoned')
             /\ ~Restart(t) => abandoned' = abandoned
  <2>1. CASE fate' = fate
    BY <1>1, <1>2, <2>1
  <2>2. CASE races' \in 0 .. MaxRaces /\ races' >= races /\ abandoned' = abandoned
    BY <2>2
  <2>3. CASE /\ Restart(t) /\ races' = races
             /\ abandoned' \in {abandoned, abandoned \/ output.reconnecting}
    <3>1. abandoned' \in BOOLEAN /\ (abandoned => abandoned')
      BY <2>3
    <3> QED
      BY <1>1, <2>3, <3>1
  <2> QED
    BY <1>7, <2>1, <2>2, <2>3, RunFate
<1>8. ASSUME NEW t \in Threads, SendFails(t)
      PROVE  races' \in 0 .. MaxRaces /\ races' >= races /\ abandoned' = abandoned
  <2>1. LossRaces \in BOOLEAN
    BY DEF LossRaces
  <2> QED
    BY <1>8, <2>1, ActsCounted DEF SendFails
<1>9. CASE UNCHANGED vars
  BY <1>1, <1>2, <1>9 DEF vars
<1> QED
  BY <1>3, <1>4, <1>5, <1>6, <1>7, <1>8, <1>9 DEF Next

\* A step at no such moment.
LEMMA SoundKept ==
  ASSUME Sound, ~abandoned, abandoned \in BOOLEAN,
         races \in 0 .. MaxRaces, races' = races, [Next]_vars
  PROVE  \/ Placed' /\ Agreed' /\ abandoned' = abandoned
         \/ GivenUp' /\ abandoned'
<1>1. (\A t \in Threads : ~Restart(t)) => abandoned' = abandoned
  BY FateKept
<1>2. CASE UserStart
  <2>1. ~StartRaces /\ abandoned' = abandoned
    BY <1>2, NotRacing DEF UserStart, Acts
  <2> QED
    BY <1>2, <2>1, UserStartsKeeps, UserStartFailsKeeps
<1>3. CASE UserStop
  <2>1. ~StopRaces /\ abandoned' = abandoned
    BY <1>3, NotRacing DEF UserStop, Acts
  <2> QED
    BY <1>3, <2>1, UserStopKeeps
<1>4. CASE Stopping
  <2>1. abandoned' = abandoned
    BY <1>4
       DEF Stopping, ReadReconnect, JoinReconnect, AwaitReconnect, ReadStop,
           JoinConnect, AwaitConnect, SetStop, UserEndCapture, UserSignal, UserStep,
           fate
  <2> QED
    BY <1>4, <2>1, StoppingKeeps
<1>5. CASE Deliver
  BY <1>5, DeliverKeeps DEF Deliver, fate
<1>6. ASSUME NEW t \in Threads, Run(t), ~Restart(t)
      PROVE  Placed' /\ Agreed' /\ abandoned' = abandoned
  <2>1. Placed' /\ Agreed'
    BY <1>6, NotRacing, RunKeeps
  <2>2. abandoned' = abandoned
    BY <1>6, RunFate DEF fate
  <2> QED
    BY <2>1, <2>2
<1>7. ASSUME NEW t \in Threads, Restart(t)
      PROVE  \/ Placed' /\ Agreed' /\ abandoned' = abandoned
             \/ GivenUp' /\ abandoned'
  <2>1. CASE StepAndCreate(t, "restart", "leave", "initConnect") /\ StartConnect
    <3>1. Placed' /\ Agreed'
      BY <1>7, <2>1, RestartStartsKeeps DEF Restart
    <3> QED
      BY <2>1, <3>1 DEF StepAndCreate, fate
  <2>2. CASE /\ Move(t, "restart", "leave") /\ UNCHANGED <<stream, joins, races>>
             /\ abandoned' = (abandoned \/ output.reconnecting)
    <3>1. ActualStart /\ UNCHANGED <<stream, button, joins>>
      BY <1>7, <2>2 DEF Restart
    <3>2. GivenUp' /\ output.reconnecting
      BY <2>2, <3>1, RestartFails
    <3> QED
      BY <2>2, <3>2
  <2> QED
    BY <1>7, <2>1, <2>2 DEF Restart
<1>8. ASSUME NEW t \in Threads, SendFails(t)
      PROVE  Placed' /\ Agreed' /\ abandoned' = abandoned
  <2>1. ~LossRaces /\ abandoned' = abandoned
    BY <1>8, NotRacing DEF SendFails, Acts
  <2> QED
    BY <1>8, <2>1, SendFailsKeeps
<1>9. CASE UNCHANGED vars
  BY <1>9, StutterKeeps DEF vars, fate
<1> QED
  BY <1>2, <1>3, <1>4, <1>5, <1>6, <1>7, <1>8, <1>9 DEF Next

LEMMA NextKeeps ==
  ASSUME IInv, [Next]_vars
  PROVE  IInv'
<1>1. Typed'
  BY TypesKept DEF IInv
<1>2. /\ races' \in 0 .. MaxRaces /\ races' >= races
      /\ abandoned' \in BOOLEAN /\ (abandoned => abandoned')
  BY FateKept DEF IInv
<1>3. ASSUME races' = 0
      PROVE  \/ ~abandoned' /\ Placed' /\ Agreed'
             \/ abandoned' /\ GivenUp'
  <2>1. races = 0
    BY <1>2, <1>3 DEF IInv
  <2>2. CASE abandoned
    BY <1>2, <1>3, <2>1, <2>2, GivenUpKeeps DEF IInv
  <2>3. CASE ~abandoned
    BY <1>3, <2>1, <2>3, SoundKept DEF IInv, Sound
  <2> QED
    BY <2>2, <2>3
<1> QED
  BY <1>1, <1>2, <1>3 DEF IInv

\* However the handlers of the output and of the stream take turns with their
\* threads, until somebody acts in one of the moments that StartRaces, StopRaces,
\* LossRaces and RetryRaces name: the flags, the handles and the places of the
\* threads agree, or an attempt to reconnect could not begin and nothing is left but
\* the flag (IInv).
THEOREM Consistent == Spec => []IInv
<1>1. Init => IInv
  BY InitIInv
<1>2. IInv /\ [Next]_vars => IInv'
  BY NextKeeps
<1> QED
  BY <1>1, <1>2, PTL DEF Spec

-----------------------------------------------------------------------------
(* What it says of the properties.                                         *)

\* At most one thread at a place of a kind.
LEMMA OneThread ==
  ASSUME NEW P, NEW h, \A t \in Threads : pc[t] \in P => t = h
  PROVE  Cardinality(At(P)) <= 1
<1>1. At(P) \in SUBSET {h}
  BY DEF At
<1>2. IsFiniteSet({h}) /\ Cardinality({h}) = 1
  BY FS_Singleton
<1>3. Cardinality(At(P)) <= Cardinality({h})
  BY <1>1, <1>2, FS_Subset
<1> QED
  BY <1>2, <1>3

LEMMA OneOfEachHolds ==
  ASSUME Sound
  PROVE  OneOfEach
<1>1. \A t \in Threads :
        pc[t] \in {"initConnect", "joinSend", "awaitSend", "connect", "setStreaming",
                   "beginCapture", "activate", "signalStart"}
          => t = stream.connect_thread
  BY DEF Sound, Placed, Handled, ConnectPlaces, Trying, Early, Opening
<1>2. \A t \in Threads : pc[t] \in {"send", "close"} => t = stream.send_thread
  BY DEF Sound, Placed, Handled, SendPlaces
<1>3. \A t \in Threads :
        pc[t] \in {"enter", "wait", "restart"} => t = output.reconnect_thread
  BY DEF Sound, Placed, Handled, Pausing
<1>4. Cardinality(Connecting) <= 1
  BY <1>1, OneThread DEF Connecting
<1>5. Cardinality(Sending) <= 1
  BY <1>2, OneThread DEF Sending
<1>6. Cardinality(Waiting) <= 1
  BY <1>3, OneThread DEF Waiting
<1> QED
  BY <1>4, <1>5, <1>6 DEF OneOfEach

LEMMA CaptureFollows ==
  ASSUME Sound
  PROVE  CaptureFollowsOutput
<1>1. Con = "activate" => At({"activate"}) # {}
  <2>1. Con = "activate" => /\ stream.connect_thread \in Threads
                            /\ pc[stream.connect_thread] = "activate"
    BY PlacesTyped DEF Sound, Con, Place
  <2> QED
    BY <2>1 DEF At
<1>2. output.capturing \in BOOLEAN /\ output.active \in BOOLEAN
  BY DEF Sound, Typed, OutputType
<1>3. (output.capturing <=> output.active) => output.capturing = output.active
  BY <1>2
<1> QED
  BY <1>1, <1>3 DEF Sound, Agreed, Captures, CaptureFollowsOutput

\* When every thread waits, these are the connect thread and the reconnect thread.
LEMMA QuietThreads ==
  ASSUME Sound, Quiet
  PROVE  /\ Con # "ended" => Connecting # {}
         /\ Connecting # {} => Con \in {"connect", "awaitSend"}
         /\ Rcn = "wait" => At({"wait"}) # {}
<1>1. Con \in {"ended", "connect", "awaitSend"}
  BY QuietPlaces DEF Sound
<1>2. Con # "ended" => /\ stream.connect_thread \in Threads
                       /\ pc[stream.connect_thread] = Con
  BY PlacesTyped DEF Sound, Con, Place
<1>3. Con # "ended" => Connecting # {}
  BY <1>1, <1>2 DEF Connecting, At
<1>4. Rcn = "wait" => /\ output.reconnect_thread \in Threads
                      /\ pc[output.reconnect_thread] = "wait"
  BY PlacesTyped DEF Sound, Rcn, Place
<1>5. Rcn = "wait" => At({"wait"}) # {}
  BY <1>4 DEF At
<1>6. ASSUME Connecting # {}
      PROVE  Con # "ended"
  <2>1. PICK t \in Threads :
          pc[t] \in {"initConnect", "joinSend", "awaitSend", "connect",
                     "setStreaming", "beginCapture", "activate", "signalStart"}
    BY <1>6 DEF Connecting, At
  <2>2. t = stream.connect_thread
    BY <2>1 DEF Sound, Placed, Handled, ConnectPlaces, Trying, Early, Opening
  <2> QED
    BY <2>1, <2>2, NoThreadIsNone DEF Con, Place
<1> QED
  BY <1>1, <1>3, <1>5, <1>6

LEMMA ShowsTheTruthHolds ==
  ASSUME Sound
  PROVE  ShowsTheTruth
<1> SUFFICES ASSUME Quiet, user = "idle"
             PROVE  /\ button = "live" => OutputActive
                    /\ button = "starting" => Connecting # {}
  BY DEF ShowsTheTruth
<1>1. /\ Con \in {"ended", "connect", "awaitSend"}
      /\ Snd \in {"ended", "send", "close"} /\ Rcn \in {"ended", "wait"}
  BY QuietPlaces DEF Sound
<1>2. ASSUME button = "live"
      PROVE  OutputActive
  BY <1>1, <1>2
     DEF Sound, Agreed, Shows, Alone, Waits, OutputActive, Trying, Early, Pausing
<1>3. ASSUME button = "starting"
      PROVE  Connecting # {}
  <2>1. Con # "ended"
    BY <1>3 DEF Sound, Agreed, Starting, Trying, Early, Retrying, Opening
  <2> QED
    BY <2>1, QuietThreads
<1> QED
  BY <1>2, <1>3

LEMMA StopLastsHolds ==
  ASSUME Sound
  PROVE  StopLasts
<1> SUFFICES ASSUME Quiet, user = "idle", button = "idle", ~undone,
                    At({"wait"}) # {} => ~output.reconnect_stop_event
             PROVE  ~OutputActive /\ Connecting = {}
  BY DEF StopLasts, OutputActive
<1>1. /\ Con \in {"ended", "connect", "awaitSend"}
      /\ Snd \in {"ended", "send", "close"} /\ Rcn \in {"ended", "wait"}
  BY QuietPlaces DEF Sound
<1>2. ~output.active /\ Con = "ended"
  BY <1>1 DEF Sound, Agreed, Lasting, Trying, Early
<1>3. Rcn = "wait" => ~output.reconnect_stop_event
  BY QuietThreads
<1>4. Rcn # "wait"
  BY <1>3 DEF Sound, Agreed, Lasting, Pausing
<1>5. ~output.reconnecting
  BY <1>1, <1>2, <1>4 DEF Sound, Agreed, Reconnects, Alone, Opening
<1> QED
  BY <1>2, <1>5, QuietThreads DEF OutputActive

\* When an attempt could not begin no thread connects, sends or waits.
LEMMA NobodyLeft ==
  ASSUME GivenUp
  PROVE  /\ Connecting = {} /\ Sending = {} /\ Waiting = {}
         /\ At({"activate"}) = {} /\ At({"wait"}) = {}
<1>1. \A t \in Threads : pc[t] \in {"ended", "leave", "exit"}
  BY DEF GivenUp, Leaving
<1> QED
  BY <1>1 DEF Connecting, Sending, Waiting, At

\* However starts, stops, losses and attempts follow one another, until somebody acts
\* in one of the moments that are named: at most one thread connects, at most one
\* sends, at most one waits to connect again, and before a connection was lost only
\* such a thread is joined as may be (connect_thread, send_thread and
\* reconnect_thread).
THEOREM ThreadsInOrderHolds == Spec => []ThreadsInOrder
<1>1. ASSUME IInv, races = 0
      PROVE  OneOfEach /\ NoBadJoin
  <2>1. CASE Placed /\ Agreed
    BY <1>1, <2>1, OneOfEachHolds DEF NoBadJoin, IInv, Sound, Agreed, Unbroken
  <2>2. CASE GivenUp
    <3>1. OneOfEach
      BY <2>2, NobodyLeft, FS_EmptySet DEF OneOfEach
    <3> QED
      BY <2>2, <3>1 DEF GivenUp, NoBadJoin
  <2> QED
    BY <1>1, <2>1, <2>2 DEF IInv
<1>2. IInv => ThreadsInOrder
  BY <1>1 DEF ThreadsInOrder
<1> QED
  BY <1>2, Consistent, PTL

\* With the same exception the encoders deliver to an active output and no other, the
\* user interface shows what is so when the threads have come to rest, and a stop
\* lasts, save in the cases that `undone` names (obs_output_actual_stop,
\* rtmp_stream_stop); an output that says it reconnects though nobody does is one
\* whose attempt could not begin.
THEOREM InStepHolds == Spec => []InStep
<1>1. ASSUME IInv, races = 0
      PROVE  CaptureFollowsOutput /\ ShowsTheTruth /\ StopLasts
  <2>1. CASE Placed /\ Agreed
    BY <1>1, <2>1, CaptureFollows, ShowsTheTruthHolds, StopLastsHolds
       DEF IInv, Sound
  <2>2. CASE abandoned /\ GivenUp
    <3>1. CaptureFollowsOutput
      BY <1>1, <2>2, NobodyLeft
         DEF IInv, Typed, OutputType, GivenUp, CaptureFollowsOutput
    <3>2. ShowsTheTruth
      BY <2>2 DEF GivenUp, ShowsTheTruth, OutputActive
    <3>3. StopLasts
      BY <2>2, NobodyLeft DEF GivenUp, StopLasts
    <3> QED
      BY <3>1, <3>2, <3>3
  <2> QED
    BY <1>1, <2>1, <2>2 DEF IInv
<1>2. IInv => InStep
  BY <1>1 DEF InStep
<1> QED
  BY <1>2, Consistent, PTL

-----------------------------------------------------------------------------
(* There is always a number for a new thread.                              *)

\* The numbers that are not free are of the handles, of the thread that the user
\* waits for, and of one that is left behind.
LEMMA FewInUse ==
  ASSUME Sound
  PROVE  \E l : Threads \ Free \subseteq Handles \cup {joining[UI], l}
<1> DEFINE l == CHOOSE t \in Threads : Left(t)
<1> SUFFICES ASSUME NEW t \in Threads, t \notin Free
             PROVE  t \in Handles \cup {joining[UI], l}
  OBVIOUS
<1>1. CASE t \in Handles
  BY <1>1
<1>2. CASE t \in Range(joining)
  <2>1. PICK u \in Threads \cup {UI} : joining[u] = t
    BY <1>2 DEF Sound, Typed, Range
  <2>2. CASE u = UI
    BY <2>1, <2>2
  <2>3. CASE u \in Threads
    BY <2>1, <2>3, NoThreadIsNone DEF Sound, Placed, Joined, Handles
  <2> QED
    BY <2>2, <2>3
<1>3. CASE t \notin Handles /\ pc[t] # "ended"
  <2>1. pc[t] \in ThreadPlaces
    BY DEF Sound, Typed
  <2>2. pc[t] \in {"clearStreaming"} \cup Leaving
    BY <1>3, <2>1
       DEF Sound, Placed, Handled, Handles, ThreadPlaces, ReconnectPlaces
  <2>3. Left(t)
    BY <1>3, <2>2 DEF Left, SendLeft, ReconnectLeft, Handles
  <2>4. Left(l) /\ l \in Threads
    BY <2>3
  <2> HIDE DEF l
  <2> QED
    BY <2>3, <2>4 DEF Sound, Placed, OneLeft
<1> QED
  BY <1>1, <1>2, <1>3 DEF Free

\* There are six numbers of threads at least.
SixThreads == \E S \in SUBSET Threads : IsFiniteSet(S) /\ Cardinality(S) = 6

\* Five numbers are fewer.
LEMMA AtMostFive ==
  ASSUME NEW a, NEW b, NEW c, NEW d, NEW e
  PROVE  /\ IsFiniteSet({a, b, c} \cup {d, e})
         /\ Cardinality({a, b, c} \cup {d, e}) \in 0 .. 5
<1> DEFINE B == {a} \cup {b}
           C == B \cup {c}
           D == C \cup {d}
           E == D \cup {e}
<1>1. IsFiniteSet({a}) /\ Cardinality({a}) = 1
  BY FS_Singleton
<1>2. IsFiniteSet(B) /\ Cardinality(B) \in 0 .. 2
  BY <1>1, FS_AddElement
<1> HIDE DEF B
<1>3. IsFiniteSet(C) /\ Cardinality(C) \in 0 .. 3
  BY <1>2, FS_AddElement
<1> HIDE DEF C
<1>4. IsFiniteSet(D) /\ Cardinality(D) \in 0 .. 4
  BY <1>3, FS_AddElement
<1> HIDE DEF D
<1>5. IsFiniteSet(E) /\ Cardinality(E) \in 0 .. 5
  BY <1>4, FS_AddElement
<1>6. E = {a, b, c} \cup {d, e}
  BY DEF B, C, D
<1> HIDE DEF E
<1> QED
  BY <1>5, <1>6

\* More are not in use when an attempt could not begin either.
LEMMA FewLeft ==
  ASSUME Typed, GivenUp
  PROVE  Threads \ Free \subseteq Handles \cup {joining[UI], NoThread}
<1> SUFFICES ASSUME NEW t \in Threads, t \notin Free, t \notin Handles
             PROVE  t = joining[UI]
  OBVIOUS
<1>1. pc[t] = "ended"
  BY DEF GivenUp, Handles
<1>2. t \in Range(joining)
  BY <1>1 DEF Free
<1>3. PICK u \in Threads \cup {UI} : joining[u] = t
  BY <1>2 DEF Typed, Range
<1> QED
  BY <1>3, NoThreadIsNone DEF GivenUp

LEMMA TypeOKHolds ==
  ASSUME IInv, SixThreads
  PROVE  TypeOK
<1>1. Handles \subseteq Threads \cup {NoThread}
  BY DEF IInv, Typed, OutputType, StreamType, Handles
<1>2. races = 0 => output.reconnect_retries \in 0 .. reconnect_retry_max
  BY StreamOutputAssumption
     DEF IInv, Typed, OutputType, Agreed, Counted, GivenUp
<1>3. ASSUME races = 0, Free = {}
      PROVE  FALSE
  <2>1. PICK l : Threads \ Free \subseteq Handles \cup {joining[UI], l}
    <3>1. CASE Placed /\ Agreed
      BY <3>1, FewInUse DEF IInv, Sound
    <3>2. CASE GivenUp
      BY <3>2, FewLeft DEF IInv
    <3> QED
      BY <1>3, <3>1, <3>2 DEF IInv
  <2>2. PICK S \in SUBSET Threads : IsFiniteSet(S) /\ Cardinality(S) = 6
    BY DEF SixThreads
  <2> DEFINE U == Handles \cup {joining[UI], l}
  <2>3. IsFiniteSet(U) /\ Cardinality(U) \in 0 .. 5
    BY AtMostFive DEF Handles
  <2>4. S \in SUBSET U
    BY <1>3, <2>1
  <2> HIDE DEF U
  <2>5. Cardinality(S) <= Cardinality(U)
    BY <2>3, <2>4, FS_Subset
  <2> QED
    BY <2>2, <2>3, <2>5
<1> QED
  BY <1>1, <1>2, <1>3 DEF IInv, Typed, TypeOK

\* The state has its types, whatever is done at whatever moment; until somebody acts
\* in one of the moments that are named attempts are bounded by reconnect_retry_max
\* and pthread_create finds a number for a thread if there are six at least: the
\* model does not run out of them.
THEOREM TypeCorrect ==
  ASSUME SixThreads
  PROVE  Spec => []TypeOK
<1>1. IInv => TypeOK
  BY TypeOKHolds
<1> QED
  BY <1>1, Consistent, PTL

=============================================================================
