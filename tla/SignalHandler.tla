---------------------------- MODULE SignalHandler ----------------------------
(***************************************************************************)
(* libobs/callback/signal.c: one signal of a handler.  Its mutex is held   *)
(* while the callbacks run and is recursive: a callback may connect and    *)
(* disconnect callbacks, and raise the signal again, while the loop of the *)
(* signal that called it stands at an index of the array.                  *)
(***************************************************************************)
EXTENDS Naturals, Sequences, Filtering

CONSTANTS
  Callbacks,   (* pairs of a function and its data                          *)
  Threads,
  MaxDepth     (* bounds how deep signals are nested                        *)

None      == "none"
Connected == "connected"

ASSUME SignalAssumption ==
  /\ MaxDepth \in Nat \ {0}
  /\ {None, Connected} \cap Threads = {} /\ None \notin Callbacks

VARIABLES
  callbacks,   (* the array: which callback, and its flag `remove`          *)
  signalling,
  mutex,       (* the thread that holds it                                  *)
  stack,       (* the signals in progress, innermost first                  *)
  gone,        (* history: per callback, that it is connected, or the       *)
               (* thread that disconnected it                               *)
  lost         (* history: callbacks connected while they were to be        *)
               (* removed                                                   *)

vars == <<callbacks, signalling, mutex, stack, gone, lost>>

Init ==
  /\ callbacks = <<>>
  /\ signalling = FALSE
  /\ mutex = None
  /\ stack = <<>>
  /\ gone = [c \in Callbacks |-> None]
  /\ lost = {}

\* A thread has the signal to itself, or is called by it.
Lock(t) == \/ mutex = None
           \/ mutex = t /\ Head(stack).running # None

\* Mutant: disconnecting does not lock.
Unlocked(t) == mutex # None => Head(stack).running # None

\* signal_get_callback_idx.
Indices(c) == {i \in DOMAIN callbacks : callbacks[i].callback = c}

Erase(array, i) == SubSeq(array, 1, i - 1) \o SubSeq(array, i + 1, Len(array))

-----------------------------------------------------------------------------
(* Connecting and disconnecting.                                           *)

Push(c) == IF Indices(c) # {} THEN callbacks
           ELSE Append(callbacks, [callback |-> c, remove |-> FALSE])

\* signal_handler_connect.
Connect(t, c) ==
  /\ Lock(t)
  /\ callbacks' = Push(c)
  /\ gone' = [gone EXCEPT ![c] = Connected]
  /\ lost' = IF \E i \in Indices(c) : callbacks[i].remove THEN lost \cup {c}
             ELSE lost \ {c}
  /\ UNCHANGED <<signalling, mutex, stack>>

\* Mutant: the callback is erased also while a signal is in progress.
AlwaysErase == TRUE

MayErase == ~signalling

\* In the eyes of the signals in progress.
Forget(c) == [k \in DOMAIN stack |-> [stack[k] EXCEPT !.stable = @ \ {c}]]

DisconnectLock(t) == Lock(t)

\* signal_handler_disconnect.
Disconnect(t, c) ==
  /\ DisconnectLock(t)
  /\ gone[c] = Connected
  /\ callbacks' =
       IF Indices(c) = {} THEN callbacks
       ELSE LET i == CHOOSE i \in Indices(c) : TRUE
            IN IF MayErase THEN Erase(callbacks, i)
               ELSE [callbacks EXCEPT ![i].remove = TRUE]
  /\ gone' = [gone EXCEPT ![c] = t]
  /\ lost' = lost \ {c}
  /\ stack' = Forget(c)
  /\ UNCHANGED <<signalling, mutex>>

-----------------------------------------------------------------------------
(* signal_handler_signal.                                                  *)

\* A signal in progress.  `live`, `stable`, `called`, `again` and `nested` are
\* history: whether the callback that runs was connected when it was called; who is
\* connected all the time; who was called, and again; and whether another signal
\* was raised and ended inside.
Frame == [i |-> 1, running |-> None, live |-> TRUE, called |-> {}, again |-> {},
          stable |-> {c \in Callbacks : gone[c] = Connected} \ lost,
          nested |-> FALSE]

Signal(t) ==
  /\ Lock(t) /\ Len(stack) < MaxDepth
  /\ mutex' = t
  /\ signalling' = TRUE
  /\ stack' = <<Frame>> \o stack
  /\ UNCHANGED <<callbacks, gone, lost>>

Top == Head(stack)

InLoop(t) == mutex = t /\ Top.running = None /\ Top.i <= Len(callbacks)

\* Mutant: the flag is not looked at.
Anyone == FALSE

Removed == callbacks[Top.i].remove

Skip(t) ==
  /\ InLoop(t)
  /\ Removed
  /\ stack' = [stack EXCEPT ![1].i = @ + 1]
  /\ UNCHANGED <<callbacks, signalling, mutex, gone, lost>>

Call(t) ==
  /\ InLoop(t)
  /\ ~Removed
  /\ LET c == callbacks[Top.i].callback
     IN stack' = [stack EXCEPT
          ![1].running = c, ![1].live = gone[c] = Connected,
          ![1].called = @ \cup {c},
          ![1].again = IF c \in Top.called THEN @ \cup {c} ELSE @]
  /\ UNCHANGED <<callbacks, signalling, mutex, gone, lost>>

Return(t) ==
  /\ mutex = t /\ Top.running # None
  /\ stack' = [stack EXCEPT ![1].running = None, ![1].i = @ + 1]
  /\ UNCHANGED <<callbacks, signalling, mutex, gone, lost>>

LoopEnds(t) == mutex = t /\ Top.running = None /\ Top.i > Len(callbacks)

\* Mutant: what is to be removed stays until the next signal.
Sweep == callbacks

Remaining == Passing(callbacks, [callback : Callbacks, remove : {FALSE}])

End(t) ==
  /\ LoopEnds(t)
  /\ callbacks' = Remaining
  /\ signalling' = FALSE
  /\ stack' = [k \in 1 .. Len(stack) - 1 |-> [stack[k + 1] EXCEPT !.nested = TRUE]]
  /\ mutex' = IF Len(stack) = 1 THEN None ELSE t
  /\ UNCHANGED <<gone, lost>>

-----------------------------------------------------------------------------

Next == \E t \in Threads :
  \/ \E c \in Callbacks : Connect(t, c) \/ Disconnect(t, c)
  \/ Signal(t) \/ Skip(t) \/ Call(t) \/ Return(t) \/ End(t)

Spec == Init /\ [][Next]_vars

-----------------------------------------------------------------------------
(* Properties.                                                             *)

\* Types; the array holds nobody twice, and nobody is to be removed unless a signal
\* is in progress, nested or not, that will do it.
TypeOK ==
  /\ callbacks \in Seq([callback : Callbacks, remove : BOOLEAN])
  /\ \A c \in Callbacks : \A i, j \in Indices(c) : i = j
  /\ \A i \in DOMAIN callbacks : callbacks[i].remove => signalling
  /\ signalling => stack # <<>>
  /\ mutex = None <=> stack = <<>>
  /\ lost \subseteq Callbacks

\* Once a thread has disconnected a callback its data may go: no other thread is in
\* that callback, and nobody calls it again, however signals are nested.
SafeToFree ==
  \A k \in DOMAIN stack :
    LET c == stack[k].running
    IN c # None => stack[k].live /\ gone[c] \in {Connected, mutex}

\* Whoever is connected from the beginning to the end of a signal is called once,
\* although others come and go meanwhile; unless a signal inside this one has ended,
\* which erases callbacks under the index of this one.
EveryoneOnce ==
  \A t \in Threads :
    LoopEnds(t) /\ ~Top.nested =>
      Top.stable \subseteq Top.called /\ Top.stable \cap Top.again = {}

\* Who is connected is in the array, and nobody else; but a callback that was
\* disconnected in a signal and connected again in the same one is dropped when it
\* ends, because signal_handler_connect finds it and does not clear `remove`.
StaysConnected ==
  \A c \in Callbacks \ lost :
    gone[c] = Connected <=> \E i \in Indices(c) : ~callbacks[i].remove

\* Connected means called: once for each signal, by every signal.
ConnectedMeansCalled == EveryoneOnce /\ StaysConnected
=============================================================================
