------------------------ MODULE SignalHandlerProofs ------------------------
(***************************************************************************)
(* Safety of a signal for any callbacks, threads and depth of nesting.     *)
(* That a stable callback is called once says nothing of the middle of a   *)
(* signal; OnTheWay does: who has been called is told by the index, as     *)
(* long as nothing is erased under it.                                     *)
(***************************************************************************)
EXTENDS SignalHandler, FilteringProofs

\* Signals in progress and what they remember.
Frames == [i : Nat \ {0}, running : Callbacks \cup {None}, live : BOOLEAN,
           called : SUBSET Callbacks, again : SUBSET Callbacks,
           stable : SUBSET Callbacks, nested : BOOLEAN]

Types ==
  /\ stack \in Seq(Frames)
  /\ gone \in [Callbacks -> Threads \cup {None, Connected}]
  /\ mutex \in Threads \cup {None}
  /\ signalling \in BOOLEAN

\* A callback is connected exactly if its place in the array is not marked, apart
\* from those in lost, which are connected and have no such place.
Entries ==
  /\ \A c \in Callbacks \ lost :
       gone[c] = Connected =>
         \E i \in DOMAIN callbacks : callbacks[i].callback = c /\ ~callbacks[i].remove
  /\ \A i \in DOMAIN callbacks :
       ~callbacks[i].remove => /\ gone[callbacks[i].callback] = Connected
                               /\ callbacks[i].callback \notin lost

\* As long as no signal inside it has ended, a signal has called those of its stable
\* callbacks that stand before its index, and the one at its index if it runs.
OnTheWay(f) ==
  /\ signalling
  /\ \A c \in f.stable : gone[c] = Connected /\ c \notin lost
  /\ f.stable \cap f.again = {}
  /\ \A p \in DOMAIN callbacks :
       callbacks[p].callback \in f.stable =>
         (callbacks[p].callback \in f.called <=> p < f.i \/ (p = f.i /\ f.running # None))

Underway == \A k \in DOMAIN stack : ~stack[k].nested => OnTheWay(stack[k])

IInv == TypeOK /\ Types /\ Entries /\ SafeToFree /\ Underway

-----------------------------------------------------------------------------
(* Sequences.                                                              *)

LEMMA EraseIs ==
  ASSUME NEW S, NEW s \in Seq(S), NEW i \in 1 .. Len(s)
  PROVE  /\ Erase(s, i) \in Seq(S) /\ Len(Erase(s, i)) = Len(s) - 1
         /\ \A k \in 1 .. Len(s) - 1 :
              Erase(s, i)[k] = IF k < i THEN s[k] ELSE s[k + 1]
<1> DEFINE n == Len(s)
           a == SubSeq(s, 1, i - 1)
           b == SubSeq(s, i + 1, n)
<1>1. n \in Nat /\ i \in 1 .. n /\ \A k \in 1 .. n : s[k] \in S
  BY LenProperties, ElementOfSeq
<1>2. /\ a \in Seq(S) /\ Len(a) = i - 1
      /\ \A k \in 1 .. i - 1 : a[k] = s[k]
  BY <1>1, SubSeqProperties
<1>3. /\ b \in Seq(S) /\ Len(b) = n - i
      /\ \A k \in 1 .. n - i : b[k] = s[i + k]
  <2>1. \A k \in i + 1 .. n : s[k] \in S
    BY <1>1
  <2> QED
    BY <1>1, <2>1, SubSeqProperties
<1>4. Erase(s, i) = a \o b
  BY DEF Erase
<1> HIDE DEF n, a, b
<1>5. /\ a \o b \in Seq(S) /\ Len(a \o b) = Len(a) + Len(b)
      /\ \A k \in 1 .. Len(a) + Len(b) :
           (a \o b)[k] = IF k <= Len(a) THEN a[k] ELSE b[k - Len(a)]
  BY <1>2, <1>3, ConcatProperties
<1>6. Len(a) + Len(b) = n - 1
  BY <1>1, <1>2, <1>3
<1>7. ASSUME NEW k \in 1 .. n - 1
      PROVE  (a \o b)[k] = IF k < i THEN s[k] ELSE s[k + 1]
  <2>1. CASE k < i
    <3>1. k \in 1 .. i - 1 /\ k <= Len(a)
      BY <1>1, <1>2, <2>1
    <3> QED
      BY <1>2, <1>5, <1>6, <2>1, <3>1
  <2>2. CASE ~(k < i)
    <3>1. k - (i - 1) \in 1 .. n - i /\ ~(k <= Len(a)) /\ i + (k - (i - 1)) = k + 1
      BY <1>1, <1>2, <2>2
    <3>2. (a \o b)[k] = b[k - (i - 1)]
      BY <1>2, <1>5, <1>6, <3>1
    <3> QED
      BY <1>3, <2>2, <3>1, <3>2
  <2> QED
    BY <2>1, <2>2
<1> QED
  BY <1>4, <1>5, <1>6, <1>7 DEF n

LEMMA Pushed ==
  ASSUME NEW S, NEW s \in Seq(S), NEW v \in S
  PROVE  /\ <<v>> \o s \in Seq(S) /\ Len(<<v>> \o s) = Len(s) + 1
         /\ \A k \in 1 .. Len(s) + 1 : (<<v>> \o s)[k] = IF k = 1 THEN v ELSE s[k - 1]
<1>1. <<v>> \in Seq(S) /\ Len(<<v>>) = 1 /\ <<v>>[1] = v /\ Len(s) \in Nat
  BY LenProperties
<1>2. /\ <<v>> \o s \in Seq(S) /\ Len(<<v>> \o s) = Len(<<v>>) + Len(s)
      /\ \A k \in 1 .. Len(<<v>>) + Len(s) :
           (<<v>> \o s)[k] = IF k <= Len(<<v>>) THEN <<v>>[k] ELSE s[k - Len(<<v>>)]
  BY <1>1, ConcatProperties
<1>3. \A k \in 1 .. Len(s) + 1 : k <= 1 <=> k = 1
  BY <1>1
<1> QED
  BY <1>1, <1>2, <1>3

-----------------------------------------------------------------------------
(* Steps of the loop.                                                      *)

Entry == [callback : Callbacks, remove : BOOLEAN]

LEMMA Facts ==
  ASSUME IInv
  PROVE  /\ callbacks \in Seq(Entry) /\ Len(callbacks) \in Nat
         /\ DOMAIN callbacks = 1 .. Len(callbacks)
         /\ \A i \in 1 .. Len(callbacks) : callbacks[i] \in Entry
         /\ Len(stack) \in Nat /\ DOMAIN stack = 1 .. Len(stack)
         /\ \A k \in 1 .. Len(stack) : stack[k] \in Frames
         /\ stack # <<>> => 1 \in 1 .. Len(stack) /\ Top = stack[1]
         /\ \A i, j \in 1 .. Len(callbacks) :
              callbacks[i].callback = callbacks[j].callback => i = j
<1>1. callbacks \in Seq(Entry) /\ stack \in Seq(Frames)
  BY DEF IInv, TypeOK, Types, Entry
<1>2. /\ Len(callbacks) \in Nat /\ DOMAIN callbacks = 1 .. Len(callbacks)
      /\ \A i \in 1 .. Len(callbacks) : callbacks[i] \in Entry
      /\ Len(stack) \in Nat /\ DOMAIN stack = 1 .. Len(stack)
      /\ \A k \in 1 .. Len(stack) : stack[k] \in Frames
  BY <1>1, LenProperties, ElementOfSeq
<1>3. stack # <<>> => 1 \in 1 .. Len(stack) /\ Head(stack) = stack[1]
  BY <1>1, <1>2, EmptySeq, HeadTailProperties
<1>4. ASSUME NEW i \in 1 .. Len(callbacks), NEW j \in 1 .. Len(callbacks),
             callbacks[i].callback = callbacks[j].callback
      PROVE  i = j
  <2>1. callbacks[i].callback \in Callbacks
    BY <1>2 DEF Entry
  <2>2. {i, j} \subseteq Indices(callbacks[i].callback)
    BY <1>2, <1>4 DEF Indices
  <2> QED
    BY <2>1, <2>2 DEF IInv, TypeOK
<1> QED
  BY <1>1, <1>2, <1>3, <1>4 DEF Top

\* The innermost signal goes on; what it is now is on the way.
LEMMA TopStep ==
  ASSUME IInv, stack # <<>>, NEW v \in Frames, stack' = [stack EXCEPT ![1] = v],
         UNCHANGED <<callbacks, signalling, mutex, gone, lost>>,
         v.running # None => v.live /\ gone[v.running] \in {Connected, mutex},
         ~v.nested => OnTheWay(v)
  PROVE  IInv'
<1>1. /\ stack' \in Seq(Frames) /\ Len(stack') = Len(stack) /\ stack' # <<>>
      /\ DOMAIN stack' = 1 .. Len(stack)
      /\ \A k \in 1 .. Len(stack) : stack'[k] = IF k = 1 THEN v ELSE stack[k]
  <2>1. /\ stack' \in Seq(Frames) /\ Len(stack') = Len(stack)
        /\ \A k \in 1 .. Len(stack) : stack'[k] = IF k = 1 THEN v ELSE stack[k]
    BY ExceptSeq, Facts DEF IInv, Types
  <2>2. Len(stack) \in Nat /\ Len(stack) # 0
    BY Facts
  <2> QED
    BY <2>1, <2>2, EmptySeq, LenProperties
<1>2. TypeOK'
  BY <1>1 DEF IInv, TypeOK, Indices
<1>3. Types' /\ Entries'
  BY <1>1 DEF IInv, Types, Entries
<1>4. SafeToFree'
  BY <1>1, Facts DEF IInv, SafeToFree
<1>5. Underway'
  <2>1. SUFFICES ASSUME NEW k \in 1 .. Len(stack), ~stack'[k].nested
                 PROVE  OnTheWay(stack[k])'
    BY <1>1 DEF Underway
  <2>2. CASE k = 1
    BY <1>1, <2>1, <2>2 DEF OnTheWay
  <2>3. CASE k # 1
    <3>1. OnTheWay(stack[k]) /\ stack'[k] = stack[k]
      BY <1>1, <2>1, <2>3, Facts DEF IInv, Underway
    <3> QED
      BY <3>1 DEF OnTheWay
  <2> QED
    BY <2>2, <2>3
<1> QED
  BY <1>2, <1>3, <1>4, <1>5 DEF IInv

LEMMA InSignal ==
  ASSUME IInv, NEW t \in Threads, mutex = t
  PROVE  /\ stack # <<>> /\ Top = stack[1] /\ stack[1] \in Frames
         /\ stack[1].i \in Nat \ {0} /\ stack[1].running \in Callbacks \cup {None}
         /\ ~stack[1].nested => OnTheWay(stack[1])
<1>1. stack # <<>>
  BY SignalAssumption DEF IInv, TypeOK
<1> QED
  BY <1>1, Facts DEF IInv, Underway, Frames

LEMMA SkipIInv ==
  ASSUME IInv, NEW t \in Threads, Skip(t)
  PROVE  IInv'
<1> DEFINE f == stack[1]
           v == [f EXCEPT !.i = @ + 1]
<1>1. /\ stack # <<>> /\ f \in Frames /\ f.i \in Nat \ {0}
      /\ ~f.nested => OnTheWay(f)
      /\ f.running = None /\ f.i <= Len(callbacks) /\ callbacks[f.i].remove
      /\ stack' = [stack EXCEPT ![1] = v]
      /\ UNCHANGED <<callbacks, signalling, mutex, gone, lost>>
  <2>1. mutex = t
    BY DEF Skip, InLoop
  <2> QED
    BY <2>1, InSignal DEF Skip, InLoop, Removed
<1> HIDE DEF f
<1>2. /\ v \in Frames /\ v.i = f.i + 1 /\ v.running = None /\ v.nested = f.nested
      /\ v.stable = f.stable /\ v.called = f.called /\ v.again = f.again
  BY <1>1 DEF Frames
<1>3. ASSUME ~v.nested PROVE OnTheWay(v)
  <2>1. OnTheWay(f)
    BY <1>1, <1>2, <1>3
  <2>2. ASSUME NEW p \in DOMAIN callbacks, callbacks[p].callback \in v.stable
        PROVE  callbacks[p].callback \in v.called <=> p < v.i \/ (p = v.i /\ v.running # None)
    <3>1. p \in Nat /\ f.i \in 1 .. Len(callbacks)
      BY <1>1, Facts
    <3>2. p # f.i
      <4>1. PICK q \in DOMAIN callbacks :
              callbacks[q].callback = callbacks[p].callback /\ ~callbacks[q].remove
        <5>1. callbacks[p].callback \in Callbacks \ lost /\ gone[callbacks[p].callback] = Connected
          BY <1>2, <2>1, <2>2, Facts DEF OnTheWay, Entry
        <5> QED
          BY <5>1 DEF IInv, Entries
      <4>2. q = p
        BY <2>2, <4>1, Facts
      <4> QED
        BY <1>1, <4>1, <4>2
    <3>3. callbacks[p].callback \in f.called <=> p < f.i
      BY <1>1, <1>2, <2>1, <2>2, <3>2 DEF OnTheWay
    <3>4. p < f.i <=> p < f.i + 1
      BY <1>1, <3>1, <3>2
    <3> QED
      BY <1>2, <3>3, <3>4
  <2> HIDE DEF v
  <2> QED
    BY <1>2, <2>1, <2>2 DEF OnTheWay
<1> HIDE DEF v
<1> QED
  BY <1>1, <1>2, <1>3, TopStep

LEMMA CallIInv ==
  ASSUME IInv, NEW t \in Threads, Call(t)
  PROVE  IInv'
<1> DEFINE f == stack[1]
           c == callbacks[f.i].callback
           v == [f EXCEPT !.running = c, !.live = gone[c] = Connected,
                          !.called = @ \cup {c},
                          !.again = IF c \in f.called THEN @ \cup {c} ELSE @]
<1>1. /\ stack # <<>> /\ f \in Frames /\ f.i \in Nat \ {0}
      /\ ~f.nested => OnTheWay(f)
      /\ f.running = None /\ f.i <= Len(callbacks) /\ ~callbacks[f.i].remove
      /\ stack' = [stack EXCEPT ![1] = v]
      /\ UNCHANGED <<callbacks, signalling, mutex, gone, lost>>
  <2>1. mutex = t
    BY DEF Call, InLoop
  <2>2. /\ stack # <<>> /\ Top = f /\ f \in Frames /\ f.i \in Nat \ {0}
        /\ ~f.nested => OnTheWay(f)
    BY <2>1, InSignal
  <2>3. stack' = [stack EXCEPT ![1] = v]
    BY <2>2 DEF Call
  <2> QED
    BY <2>2, <2>3 DEF Call, InLoop, Removed
<1>2. f.i \in DOMAIN callbacks /\ c \in Callbacks /\ c # None
  BY <1>1, Facts, SignalAssumption DEF Entry
<1>3. gone[c] = Connected
  BY <1>1, <1>2 DEF IInv, Entries
<1> HIDE DEF f, c
<1>4. /\ v \in Frames /\ v.i = f.i /\ v.running = c /\ v.live = TRUE /\ v.nested = f.nested
      /\ v.stable = f.stable /\ v.called = f.called \cup {c}
      /\ v.again = IF c \in f.called THEN f.again \cup {c} ELSE f.again
  BY <1>1, <1>2, <1>3 DEF Frames
<1> HIDE DEF v
<1>5. ASSUME ~v.nested PROVE OnTheWay(v)
  <2>1. OnTheWay(f)
    BY <1>1, <1>4, <1>5
  <2>2. ASSUME NEW p \in DOMAIN callbacks, callbacks[p].callback \in v.stable
        PROVE  callbacks[p].callback \in v.called <=> p < v.i \/ (p = v.i /\ v.running # None)
    <3>1. p = f.i <=> callbacks[p].callback = c
      BY <1>2, <2>2, Facts DEF c
    <3>2. callbacks[p].callback \in f.called <=> p < f.i
      BY <1>1, <1>4, <2>1, <2>2 DEF OnTheWay
    <3> QED
      BY <1>2, <1>4, <3>1, <3>2
  <2>3. v.stable \cap v.again = {}
    <3>1. c \in f.stable => c \notin f.called
      <4>1. c \in f.stable => (c \in f.called <=> f.i < f.i)
        BY <1>1, <1>2, <2>1 DEF OnTheWay, c
      <4> QED
        BY <1>1, <4>1
    <3> QED
      BY <1>4, <2>1, <3>1 DEF OnTheWay
  <2> QED
    BY <1>4, <2>1, <2>2, <2>3 DEF OnTheWay
<1> QED
  <2>1. v \in Frames /\ (v.running # None => v.live /\ gone[v.running] \in {Connected, mutex})
    BY <1>3, <1>4
  <2> QED
    BY <1>1, <1>5, <2>1, TopStep

LEMMA Resumed ==
  ASSUME NEW f \in Frames, NEW n \in Nat \ {0}
  PROVE  LET v == [f EXCEPT !.running = None, !.i = n]
         IN  /\ v \in Frames /\ v.i = n /\ v.running = None /\ v.nested = f.nested
             /\ v.stable = f.stable /\ v.called = f.called /\ v.again = f.again
  BY DEF Frames

LEMMA ReturnIInv ==
  ASSUME IInv, NEW t \in Threads, Return(t)
  PROVE  IInv'
<1> DEFINE f == stack[1]
           v == [f EXCEPT !.running = None, !.i = @ + 1]
<1>1. /\ stack # <<>> /\ f \in Frames /\ f.i \in Nat \ {0}
      /\ ~f.nested => OnTheWay(f)
      /\ f.running # None
      /\ stack' = [stack EXCEPT ![1] = v]
      /\ UNCHANGED <<callbacks, signalling, mutex, gone, lost>>
  <2>1. mutex = t
    BY DEF Return
  <2> QED
    BY <2>1, InSignal DEF Return
<1> HIDE DEF f
<1>2. /\ v \in Frames /\ v.i = f.i + 1 /\ v.running = None /\ v.nested = f.nested
      /\ v.stable = f.stable /\ v.called = f.called /\ v.again = f.again
  <2>1. f.i + 1 \in Nat \ {0} /\ f \in Frames
    BY <1>1
  <2> QED
    BY <2>1, Resumed
<1> HIDE DEF v
<1>3. ASSUME ~v.nested PROVE OnTheWay(v)
  <2>1. OnTheWay(f)
    BY <1>1, <1>2, <1>3
  <2>2. ASSUME NEW p \in DOMAIN callbacks, callbacks[p].callback \in v.stable
        PROVE  callbacks[p].callback \in v.called <=> p < v.i \/ (p = v.i /\ v.running # None)
    <3>1. p \in Nat
      BY Facts
    <3>2. callbacks[p].callback \in f.called <=> p < f.i \/ p = f.i
      BY <1>1, <1>2, <2>1, <2>2 DEF OnTheWay
    <3>3. p < f.i \/ p = f.i <=> p < f.i + 1
      BY <1>1, <3>1
    <3> QED
      BY <1>2, <3>2, <3>3
  <2> QED
    BY <1>2, <2>1, <2>2 DEF OnTheWay
<1> QED
  BY <1>1, <1>2, <1>3, TopStep

-----------------------------------------------------------------------------
(* Steps that change the array.                                            *)

\* Nobody but the thread of a signal in progress gets past Lock.
LEMMA LockIs ==
  ASSUME IInv, NEW t \in Threads, Lock(t), stack # <<>>
  PROVE  mutex = t
  BY SignalAssumption DEF IInv, TypeOK, Lock

LEMMA ConnectIInv ==
  ASSUME IInv, NEW t \in Threads, NEW c \in Callbacks, Connect(t, c)
  PROVE  IInv'
<1> DEFINE n == Len(callbacks)
           new == [callback |-> c, remove |-> FALSE]
<1>1. /\ callbacks' = Push(c) /\ gone' = [gone EXCEPT ![c] = Connected]
      /\ lost' = IF \E i \in Indices(c) : callbacks[i].remove THEN lost \cup {c} ELSE lost \ {c}
      /\ UNCHANGED <<signalling, mutex, stack>>
  BY DEF Connect
<1>2. /\ callbacks \in Seq(Entry) /\ n \in Nat /\ DOMAIN callbacks = 1 .. n
      /\ \A i \in 1 .. n : callbacks[i] \in Entry
      /\ gone \in [Callbacks -> Threads \cup {None, Connected}] /\ lost \subseteq Callbacks
  BY Facts DEF IInv, Types, TypeOK
<1>3. /\ gone' \in [Callbacks -> Threads \cup {None, Connected}]
      /\ gone'[c] = Connected /\ \A d \in Callbacks \ {c} : gone'[d] = gone[d]
  BY <1>1, <1>2
<1>4. SafeToFree' /\ lost' \subseteq Callbacks
  <2>1. ASSUME NEW k \in DOMAIN stack, stack[k].running # None
        PROVE  stack[k].live /\ gone'[stack[k].running] \in {Connected, mutex}
    <3>1. stack[k].running \in Callbacks /\ stack[k].live
          /\ gone[stack[k].running] \in {Connected, mutex}
      BY <2>1, Facts DEF IInv, SafeToFree, Frames
    <3> QED
      BY <1>3, <3>1
  <2> QED
    BY <1>1, <1>2, <2>1 DEF SafeToFree
<1>5. CASE Indices(c) = {}
  <2>1. callbacks' = Append(callbacks, new) /\ lost' = lost \ {c}
    BY <1>1, <1>5 DEF Push
  <2>2. new \in Entry
    BY DEF Entry
  <2>3. /\ callbacks' \in Seq(Entry) /\ Len(callbacks') = n + 1 /\ callbacks'[n + 1] = new
        /\ \A i \in 1 .. n : callbacks'[i] = callbacks[i]
        /\ DOMAIN callbacks' = 1 .. n + 1
    BY <1>2, <2>1, <2>2, AppendProperties, LenProperties
  <2>4. \A i \in 1 .. n : callbacks[i].callback # c
    BY <1>2, <1>5 DEF Indices
  <2>5. /\ \A i \in 1 .. n + 1 : i = n + 1 \/ i \in 1 .. n
        /\ n + 1 \in 1 .. n + 1 /\ \A i \in 1 .. n : i \in 1 .. n + 1
    BY <1>2
  <2>6. TypeOK'
    <3>1. ASSUME NEW d \in Callbacks, NEW i \in Indices(d)', NEW j \in Indices(d)' PROVE i = j
      <4>1. /\ i \in 1 .. n + 1 /\ callbacks'[i].callback = d
            /\ j \in 1 .. n + 1 /\ callbacks'[j].callback = d
        BY <2>3 DEF Indices
      <4> QED
        BY <2>3, <2>4, <2>5, <4>1, Facts
    <3>2. \A i \in 1 .. n + 1 : callbacks'[i].remove => signalling
      BY <1>2, <2>3, <2>5 DEF IInv, TypeOK
    <3>3. /\ signalling => stack # <<>>
          /\ mutex = None <=> stack = <<>>
      BY DEF IInv, TypeOK
    <3> QED
      BY <1>1, <1>4, <2>3, <3>1, <3>2, <3>3 DEF TypeOK, Entry
  <2>7. Entries'
    <3>1. ASSUME NEW d \in Callbacks \ lost', gone'[d] = Connected
          PROVE  \E i \in 1 .. n + 1 : callbacks'[i].callback = d /\ ~callbacks'[i].remove
      <4>1. CASE d = c
        BY <2>3, <2>5, <4>1
      <4>2. CASE d # c
        BY <1>2, <1>3, <2>1, <2>3, <2>5, <3>1, <4>2 DEF IInv, Entries
      <4> QED
        BY <4>1, <4>2
    <3>2. ASSUME NEW i \in 1 .. n + 1, ~callbacks'[i].remove
          PROVE  gone'[callbacks'[i].callback] = Connected /\ callbacks'[i].callback \notin lost'
      <4>1. CASE i = n + 1
        BY <1>3, <2>1, <2>3, <4>1
      <4>2. CASE i \in 1 .. n
        <5>1. callbacks'[i] = callbacks[i] /\ callbacks[i].callback \in Callbacks \ {c}
          BY <1>2, <2>3, <2>4, <4>2 DEF Entry
        <5> QED
          BY <1>2, <1>3, <2>1, <3>2, <4>2, <5>1 DEF IInv, Entries
      <4> QED
        BY <2>5, <4>1, <4>2
    <3> QED
      BY <2>3, <3>1, <3>2 DEF Entries
  <2>8. Underway'
    <3>1. SUFFICES ASSUME NEW k \in DOMAIN stack, ~stack[k].nested PROVE OnTheWay(stack[k])'
      BY <1>1 DEF Underway
    <3>2. OnTheWay(stack[k]) /\ stack[k].stable \subseteq Callbacks
      BY <3>1, Facts DEF IInv, Underway, Frames
    <3>3. c \notin stack[k].stable
      BY <1>2, <2>4, <3>2 DEF OnTheWay, IInv, Entries
    <3>4. \A d \in stack[k].stable : gone'[d] = Connected /\ d \notin lost'
      BY <1>3, <2>1, <3>2, <3>3 DEF OnTheWay
    <3>5. ASSUME NEW p \in 1 .. n + 1, callbacks'[p].callback \in stack[k].stable
          PROVE  p \in 1 .. n /\ callbacks'[p] = callbacks[p]
      BY <2>3, <2>5, <3>3, <3>5
    <3> QED
      BY <1>1, <1>2, <2>3, <3>2, <3>4, <3>5 DEF OnTheWay
  <2> QED
    BY <1>1, <1>3, <1>4, <2>6, <2>7, <2>8 DEF IInv, Types
<1>6. CASE Indices(c) # {}
  <2>1. callbacks' = callbacks
    BY <1>1, <1>6 DEF Push
  <2>2. PICK q \in 1 .. n : callbacks[q].callback = c
    BY <1>2, <1>6 DEF Indices
  <2>3. \A i \in 1 .. n : callbacks[i].callback = c <=> i = q
    BY <2>2, Facts
  <2>4. lost' = IF callbacks[q].remove THEN lost \cup {c} ELSE lost \ {c}
    <3>1. Indices(c) = {q}
      BY <1>2, <2>2, <2>3 DEF Indices
    <3> QED
      BY <1>1, <3>1
  <2>5. TypeOK'
    BY <1>1, <1>4, <2>1 DEF IInv, TypeOK, Indices
  <2>6. Entries'
    <3>1. ASSUME NEW d \in Callbacks \ lost', gone'[d] = Connected
          PROVE  \E i \in 1 .. n : callbacks[i].callback = d /\ ~callbacks[i].remove
      <4>1. CASE d = c
        BY <2>2, <2>4, <3>1, <4>1
      <4>2. CASE d # c
        BY <1>2, <1>3, <2>4, <3>1, <4>2 DEF IInv, Entries
      <4> QED
        BY <4>1, <4>2
    <3>2. ASSUME NEW i \in 1 .. n, ~callbacks[i].remove
          PROVE  gone'[callbacks[i].callback] = Connected /\ callbacks[i].callback \notin lost'
      <4>1. gone[callbacks[i].callback] = Connected /\ callbacks[i].callback \notin lost
            /\ callbacks[i].callback \in Callbacks
        BY <1>2, <3>2 DEF IInv, Entries, Entry
      <4> QED
        BY <1>3, <2>3, <2>4, <3>2, <4>1
    <3> QED
      BY <1>2, <2>1, <3>1, <3>2 DEF Entries
  <2>7. Underway'
    <3>1. SUFFICES ASSUME NEW k \in DOMAIN stack, ~stack[k].nested PROVE OnTheWay(stack[k])'
      BY <1>1 DEF Underway
    <3>2. OnTheWay(stack[k]) /\ stack[k].stable \subseteq Callbacks
      BY <3>1, Facts DEF IInv, Underway, Frames
    <3>3. c \in stack[k].stable => ~callbacks[q].remove
      BY <1>2, <2>3, <3>2 DEF OnTheWay, IInv, Entries
    <3>4. \A d \in stack[k].stable : gone'[d] = Connected /\ d \notin lost'
      BY <1>3, <2>4, <3>2, <3>3 DEF OnTheWay
    <3> QED
      BY <1>1, <2>1, <3>2, <3>4 DEF OnTheWay
  <2> QED
    BY <1>1, <1>3, <1>4, <2>5, <2>6, <2>7 DEF IInv, Types
<1> QED
  BY <1>5, <1>6

\* A signal that is told that c has gone differs in `stable` only.
LEMMA Forgotten ==
  ASSUME IInv, NEW c \in Callbacks
  PROVE  /\ Forget(c) \in Seq(Frames) /\ DOMAIN Forget(c) = DOMAIN stack
         /\ Forget(c) = <<>> <=> stack = <<>>
         /\ \A k \in DOMAIN stack :
              /\ Forget(c)[k].i = stack[k].i /\ Forget(c)[k].running = stack[k].running
              /\ Forget(c)[k].live = stack[k].live /\ Forget(c)[k].called = stack[k].called
              /\ Forget(c)[k].again = stack[k].again
              /\ Forget(c)[k].nested = stack[k].nested
              /\ Forget(c)[k].stable = stack[k].stable \ {c}
<1> DEFINE n == Len(stack)
           F(k) == [stack[k] EXCEPT !.stable = @ \ {c}]
<1>1. /\ n \in Nat /\ DOMAIN stack = 1 .. n /\ stack \in Seq(Frames)
      /\ \A k \in 1 .. n : stack[k] \in Frames
  BY Facts DEF IInv, Types
<1>2. ASSUME NEW k \in 1 .. n
      PROVE  /\ F(k) \in Frames
             /\ F(k).i = stack[k].i /\ F(k).running = stack[k].running
             /\ F(k).live = stack[k].live /\ F(k).called = stack[k].called
             /\ F(k).again = stack[k].again /\ F(k).nested = stack[k].nested
             /\ F(k).stable = stack[k].stable \ {c}
  BY <1>1 DEF Frames
<1>3. Forget(c) = [k \in 1 .. n |-> F(k)]
  BY <1>1 DEF Forget
<1> HIDE DEF F, n
<1>4. Forget(c) \in Seq(Frames) /\ Len(Forget(c)) = n /\ DOMAIN Forget(c) = 1 .. n
  BY <1>1, <1>2, <1>3
<1>5. Forget(c) = <<>> <=> stack = <<>>
  BY <1>1, <1>4, EmptySeq DEF n
<1>6. \A k \in 1 .. n : Forget(c)[k] = F(k)
  BY <1>3
<1> QED
  BY <1>1, <1>2, <1>4, <1>5, <1>6

LEMMA Marked ==
  ASSUME NEW e \in Entry
  PROVE  LET v == [e EXCEPT !.remove = TRUE]
         IN  v \in Entry /\ v.callback = e.callback /\ v.remove = TRUE
  BY DEF Entry

LEMMA DisconnectIInv ==
  ASSUME IInv, NEW t \in Threads, NEW c \in Callbacks, Disconnect(t, c)
  PROVE  IInv'
<1> DEFINE n == Len(callbacks)
<1>1. /\ Lock(t) /\ gone[c] = Connected
      /\ gone' = [gone EXCEPT ![c] = t] /\ lost' = lost \ {c}
      /\ stack' = Forget(c) /\ UNCHANGED <<signalling, mutex>>
  BY DEF Disconnect, DisconnectLock
<1>2. /\ callbacks \in Seq(Entry) /\ n \in Nat /\ DOMAIN callbacks = 1 .. n
      /\ \A i \in 1 .. n : callbacks[i] \in Entry
      /\ gone \in [Callbacks -> Threads \cup {None, Connected}] /\ lost \subseteq Callbacks
      /\ t # Connected
  BY Facts, SignalAssumption DEF IInv, Types, TypeOK
<1>3. /\ gone' \in [Callbacks -> Threads \cup {None, Connected}]
      /\ gone'[c] = t /\ \A d \in Callbacks \ {c} : gone'[d] = gone[d]
  BY <1>1, <1>2
<1>4. /\ stack' \in Seq(Frames) /\ DOMAIN stack' = DOMAIN stack
      /\ stack' = <<>> <=> stack = <<>>
      /\ \A k \in DOMAIN stack :
           /\ stack'[k].i = stack[k].i /\ stack'[k].running = stack[k].running
           /\ stack'[k].live = stack[k].live /\ stack'[k].called = stack[k].called
           /\ stack'[k].again = stack[k].again /\ stack'[k].nested = stack[k].nested
           /\ stack'[k].stable = stack[k].stable \ {c}
  BY <1>1, Forgotten
<1>5. SafeToFree'
  <2>1. ASSUME NEW k \in DOMAIN stack, stack[k].running # None
        PROVE  stack[k].live /\ gone'[stack[k].running] \in {Connected, mutex}
    <3>1. stack[k].running \in Callbacks /\ stack[k].live
          /\ gone[stack[k].running] \in {Connected, mutex}
      BY <2>1, Facts DEF IInv, SafeToFree, Frames
    <3>2. mutex = t
      <4>1. stack # <<>>
        BY <2>1, Facts, EmptySeq
      <4> QED
        BY <1>1, <4>1, LockIs
    <3> QED
      BY <1>3, <3>1, <3>2
  <2> QED
    BY <1>1, <1>4, <2>1 DEF SafeToFree
<1>6. /\ signalling => stack' # <<>>
      /\ mutex = None <=> stack' = <<>>
      /\ lost' \subseteq Callbacks
  BY <1>1, <1>4 DEF IInv, TypeOK
<1>7. CASE Indices(c) = {}
  <2>1. callbacks' = callbacks
    BY <1>7 DEF Disconnect
  <2>2. \A i \in 1 .. n : callbacks[i].callback # c
    BY <1>2, <1>7 DEF Indices
  <2>3. TypeOK'
    BY <1>1, <1>6, <2>1 DEF IInv, TypeOK, Indices
  <2>4. Entries'
    BY <1>1, <1>2, <1>3, <2>1, <2>2 DEF IInv, Entries, Entry
  <2>5. Underway'
    <3>1. SUFFICES ASSUME NEW k \in DOMAIN stack, ~stack[k].nested PROVE OnTheWay(stack[k])'
      BY <1>4 DEF Underway
    <3>2. OnTheWay(stack[k]) /\ stack[k].stable \subseteq Callbacks
      BY <3>1, Facts DEF IInv, Underway, Frames
    <3> QED
      BY <1>1, <1>3, <1>4, <2>1, <3>1, <3>2 DEF OnTheWay
  <2> QED
    BY <1>1, <1>3, <1>4, <1>5, <2>3, <2>4, <2>5 DEF IInv, Types
<1>8. ASSUME NEW q \in 1 .. n, callbacks[q].callback = c, q = CHOOSE i \in Indices(c) : TRUE
      PROVE  IInv'
  <2>1. \A i \in 1 .. n : callbacks[i].callback = c <=> i = q
    BY <1>8, Facts
  <2>2. Indices(c) # {}
    BY <1>2, <1>8 DEF Indices
  <2>3. CASE ~signalling
    <3>1. callbacks' = Erase(callbacks, q)
      BY <1>8, <2>2, <2>3 DEF Disconnect, MayErase
    <3>2. /\ callbacks' \in Seq(Entry) /\ Len(callbacks') = n - 1
          /\ \A k \in 1 .. n - 1 :
               callbacks'[k] = IF k < q THEN callbacks[k] ELSE callbacks[k + 1]
          /\ DOMAIN callbacks' = 1 .. n - 1
      BY <1>2, <3>1, EraseIs, LenProperties
    <3>3. ASSUME NEW k \in 1 .. n - 1
          PROVE  \E i \in 1 .. n : i # q /\ callbacks'[k] = callbacks[i]
                                 /\ i = IF k < q THEN k ELSE k + 1
      <4>1. CASE k < q
        BY <1>2, <3>2, <4>1
      <4>2. CASE ~(k < q)
        <5>1. k + 1 \in 1 .. n /\ k + 1 # q
          BY <1>2, <4>2
        <5> QED
          BY <3>2, <4>2, <5>1
      <4> QED
        BY <4>1, <4>2
    <3>4. ASSUME NEW i \in 1 .. n, i # q
          PROVE  \E k \in 1 .. n - 1 : callbacks'[k] = callbacks[i]
      <4>1. CASE i < q
        <5>1. i \in 1 .. n - 1
          BY <1>2, <4>1
        <5> QED
          BY <3>2, <4>1, <5>1
      <4>2. CASE ~(i < q)
        <5>1. i - 1 \in 1 .. n - 1 /\ ~(i - 1 < q) /\ (i - 1) + 1 = i
          BY <1>2, <3>4, <4>2
        <5> QED
          BY <3>2, <5>1
      <4> QED
        BY <4>1, <4>2
    <3>5. TypeOK'
      <4>1. ASSUME NEW d \in Callbacks, NEW i \in Indices(d)', NEW j \in Indices(d)' PROVE i = j
        <5>1. /\ i \in 1 .. n - 1 /\ callbacks'[i].callback = d
              /\ j \in 1 .. n - 1 /\ callbacks'[j].callback = d
          BY <3>2 DEF Indices
        <5>2. PICK a \in 1 .. n : /\ a # q /\ callbacks'[i] = callbacks[a]
                                  /\ a = IF i < q THEN i ELSE i + 1
          BY <3>3, <5>1
        <5>3. PICK b \in 1 .. n : /\ b # q /\ callbacks'[j] = callbacks[b]
                                  /\ b = IF j < q THEN j ELSE j + 1
          BY <3>3, <5>1
        <5>4. a = b
          BY <5>1, <5>2, <5>3, Facts
        <5>5. i \in Int /\ j \in Int /\ q \in Int
          BY <1>2, <5>1
        <5> QED
          BY <5>2, <5>3, <5>4, <5>5
      <4>2. \A k \in 1 .. n - 1 : callbacks'[k].remove => signalling
        BY <1>2, <3>3 DEF IInv, TypeOK
      <4> QED
        BY <1>1, <1>6, <3>2, <4>1, <4>2 DEF TypeOK, Entry
    <3>6. Entries'
      <4>1. ASSUME NEW d \in Callbacks \ lost', gone'[d] = Connected
            PROVE  \E k \in 1 .. n - 1 : callbacks'[k].callback = d /\ ~callbacks'[k].remove
        <5>1. d # c /\ d \notin lost /\ gone[d] = Connected
          BY <1>1, <1>2, <1>3, <4>1
        <5>2. PICK i \in 1 .. n : callbacks[i].callback = d /\ ~callbacks[i].remove
          BY <1>2, <5>1 DEF IInv, Entries
        <5>3. i # q
          BY <1>8, <5>1, <5>2
        <5> QED
          BY <3>4, <5>2, <5>3
      <4>2. ASSUME NEW k \in 1 .. n - 1, ~callbacks'[k].remove
            PROVE  gone'[callbacks'[k].callback] = Connected /\ callbacks'[k].callback \notin lost'
        <5>1. PICK i \in 1 .. n : i # q /\ callbacks'[k] = callbacks[i]
          BY <3>3
        <5>2. callbacks[i].callback \in Callbacks \ {c}
          BY <1>2, <2>1, <5>1 DEF Entry
        <5> QED
          BY <1>1, <1>2, <1>3, <4>2, <5>1, <5>2 DEF IInv, Entries
      <4> QED
        BY <3>2, <4>1, <4>2 DEF Entries
    <3>7. Underway'
      BY <1>4, <2>3 DEF IInv, Underway, OnTheWay
    <3> QED
      BY <1>1, <1>3, <1>4, <1>5, <3>5, <3>6, <3>7 DEF IInv, Types
  <2>4. CASE signalling
    <3>1. callbacks' = [callbacks EXCEPT ![q].remove = TRUE]
      BY <1>8, <2>2, <2>4 DEF Disconnect, MayErase
    <3>2. /\ callbacks' \in Seq(Entry) /\ DOMAIN callbacks' = 1 .. n
          /\ \A i \in 1 .. n : /\ callbacks'[i].callback = callbacks[i].callback
                              /\ callbacks'[i].remove = (i = q \/ callbacks[i].remove)
      <4> DEFINE v == [callbacks[q] EXCEPT !.remove = TRUE]
      <4>1. callbacks' = [callbacks EXCEPT ![q] = v]
        BY <3>1
      <4>2. v \in Entry /\ v.callback = c /\ v.remove = TRUE
        BY <1>2, <1>8, Marked
      <4> HIDE DEF v
      <4>3. /\ callbacks' \in Seq(Entry) /\ Len(callbacks') = n
            /\ \A i \in 1 .. n : callbacks'[i] = IF i = q THEN v ELSE callbacks[i]
        BY <1>2, <4>1, <4>2, ExceptSeq
      <4>4. ASSUME NEW i \in 1 .. n
            PROVE  /\ callbacks'[i].callback = callbacks[i].callback
                   /\ callbacks'[i].remove = (i = q \/ callbacks[i].remove)
        <5>1. CASE i = q
          <6>1. callbacks'[i] = v
            BY <4>3, <5>1
          <6> QED
            BY <1>8, <4>2, <5>1, <6>1
        <5>2. CASE i # q
          <6>1. callbacks'[i] = callbacks[i] /\ callbacks[i].remove \in BOOLEAN
            BY <1>2, <4>3, <5>2 DEF Entry
          <6> QED
            BY <5>2, <6>1, Zenon
        <5> QED
          BY <5>1, <5>2
      <4> QED
        BY <4>3, <4>4, LenProperties
    <3>3. TypeOK'
      <4>1. \A d \in Callbacks : Indices(d)' = Indices(d)
        BY <1>2, <3>2 DEF Indices
      <4> QED
        BY <1>1, <1>6, <2>4, <3>2, <4>1 DEF IInv, TypeOK, Entry
    <3>4. Entries'
      <4>1. ASSUME NEW d \in Callbacks \ lost', gone'[d] = Connected
            PROVE  \E k \in 1 .. n : callbacks'[k].callback = d /\ ~callbacks'[k].remove
        <5>1. d # c /\ d \notin lost /\ gone[d] = Connected
          BY <1>1, <1>2, <1>3, <4>1
        <5>2. PICK i \in 1 .. n : callbacks[i].callback = d /\ ~callbacks[i].remove
          BY <1>2, <5>1 DEF IInv, Entries
        <5>3. i # q
          BY <1>8, <5>1, <5>2
        <5> QED
          BY <3>2, <5>2, <5>3
      <4>2. ASSUME NEW k \in 1 .. n, ~callbacks'[k].remove
            PROVE  gone'[callbacks'[k].callback] = Connected /\ callbacks'[k].callback \notin lost'
        <5>1. k # q /\ ~callbacks[k].remove /\ callbacks'[k].callback = callbacks[k].callback
          BY <3>2, <4>2
        <5>2. callbacks[k].callback \in Callbacks \ {c}
          BY <1>2, <2>1, <5>1 DEF Entry
        <5> QED
          BY <1>1, <1>2, <1>3, <5>1, <5>2 DEF IInv, Entries
      <4> QED
        BY <3>2, <4>1, <4>2 DEF Entries
    <3>5. Underway'
      <4>1. SUFFICES ASSUME NEW k \in DOMAIN stack, ~stack[k].nested PROVE OnTheWay(stack[k])'
        BY <1>4 DEF Underway
      <4>2. OnTheWay(stack[k]) /\ stack[k].stable \subseteq Callbacks
        BY <4>1, Facts DEF IInv, Underway, Frames
      <4> QED
        BY <1>1, <1>2, <1>3, <1>4, <3>2, <4>1, <4>2 DEF OnTheWay
    <3> QED
      BY <1>1, <1>3, <1>4, <1>5, <3>2, <3>3, <3>4, <3>5 DEF IInv, Types
  <2> QED
    BY <2>3, <2>4
<1>9. CASE Indices(c) # {}
  <2> DEFINE q == CHOOSE i \in Indices(c) : TRUE
  <2>1. q \in Indices(c)
    BY <1>9
  <2>2. q \in 1 .. n /\ callbacks[q].callback = c
    BY <1>2, <2>1 DEF Indices
  <2> QED
    BY <1>8, <2>2
<1> QED
  BY <1>7, <1>9

-----------------------------------------------------------------------------
(* A signal begins and ends.                                               *)

LEMMA SignalIInv ==
  ASSUME IInv, NEW t \in Threads, Signal(t)
  PROVE  IInv'
<1> DEFINE m == Len(stack)
<1>1. /\ Lock(t) /\ mutex' = t /\ signalling' = TRUE /\ stack' = <<Frame>> \o stack
      /\ UNCHANGED <<callbacks, gone, lost>>
  BY DEF Signal
<1>2. /\ m \in Nat /\ DOMAIN stack = 1 .. m /\ stack \in Seq(Frames)
      /\ DOMAIN callbacks = 1 .. Len(callbacks)
      /\ t # None
  BY Facts, SignalAssumption DEF IInv, Types
<1>3. Frame \in Frames
  BY DEF Frame, Frames
<1>4. /\ Frame.i = 1 /\ Frame.running = None /\ Frame.called = {} /\ Frame.again = {}
      /\ Frame.stable = {c \in Callbacks : gone[c] = Connected} \ lost
  BY DEF Frame
<1> DEFINE new == Frame
<1> HIDE DEF new
<1>5. /\ stack' \in Seq(Frames) /\ DOMAIN stack' = 1 .. m + 1 /\ stack' # <<>>
      /\ \A k \in 1 .. m + 1 : stack'[k] = IF k = 1 THEN new ELSE stack[k - 1]
  <2>1. /\ stack' \in Seq(Frames) /\ Len(stack') = m + 1
        /\ \A k \in 1 .. m + 1 : stack'[k] = IF k = 1 THEN new ELSE stack[k - 1]
    BY <1>1, <1>2, <1>3, Pushed DEF new
  <2>2. m + 1 # 0
    BY <1>2
  <2> QED
    BY <2>1, <2>2, EmptySeq, LenProperties
<1>6. TypeOK'
  BY <1>1, <1>2, <1>5 DEF IInv, TypeOK, Indices
<1>7. Types' /\ Entries'
  BY <1>1, <1>5 DEF IInv, Types, Entries
<1>8. \A k \in 2 .. m + 1 : k - 1 \in 1 .. m /\ stack'[k] = stack[k - 1]
  BY <1>2, <1>5
<1>9. \A k \in 1 .. m + 1 : k = 1 \/ k \in 2 .. m + 1
  BY <1>2
<1>10. SafeToFree'
  <2>1. ASSUME NEW k \in 1 .. m + 1, stack'[k].running # None
        PROVE  stack'[k].live /\ gone[stack'[k].running] \in {Connected, t}
    <3>1. k \in 2 .. m + 1
      BY <1>4, <1>5, <1>9, <2>1 DEF new
    <3>2. mutex = t
      <4>1. stack # <<>>
        BY <1>2, <1>8, <3>1, EmptySeq
      <4> QED
        BY <1>1, <4>1, LockIs
    <3> QED
      BY <1>2, <1>8, <2>1, <3>1, <3>2 DEF IInv, SafeToFree
  <2> QED
    BY <1>1, <1>5, <2>1 DEF SafeToFree
<1>11. Underway'
  <2>1. SUFFICES ASSUME NEW k \in 1 .. m + 1, ~stack'[k].nested
                 PROVE  OnTheWay(stack[k])'
    BY <1>5 DEF Underway
  <2>2. CASE k = 1
    <3>1. \A p \in DOMAIN callbacks : ~(p < new.i \/ (p = new.i /\ new.running # None))
      BY <1>2, <1>4, Facts DEF new
    <3>2. /\ \A c \in new.stable : gone[c] = Connected /\ c \notin lost
          /\ new.stable \cap new.again = {} /\ new.called = {}
      BY <1>4 DEF new
    <3>3. stack'[k] = new
      BY <1>5, <2>2
    <3> QED
      BY <1>1, <3>1, <3>2, <3>3 DEF OnTheWay
  <2>3. CASE k \in 2 .. m + 1
    <3>1. stack'[k] = stack[k - 1] /\ OnTheWay(stack[k - 1])
      BY <1>2, <1>8, <2>1, <2>3 DEF IInv, Underway
    <3> QED
      BY <1>1, <3>1 DEF OnTheWay
  <2> QED
    BY <1>9, <2>2, <2>3
<1> QED
  BY <1>6, <1>7, <1>10, <1>11 DEF IInv

\* A signal inside which another one has ended.
LEMMA Interrupted ==
  ASSUME NEW f \in Frames
  PROVE  LET v == [f EXCEPT !.nested = TRUE]
         IN  v \in Frames /\ v.running = f.running /\ v.live = f.live /\ v.nested = TRUE
  BY DEF Frames

LEMMA EndIInv ==
  ASSUME IInv, NEW t \in Threads, End(t)
  PROVE  IInv'
<1> DEFINE n == Len(callbacks)
           m == Len(stack)
           Kept == [callback : Callbacks, remove : {FALSE}]
<1>1. /\ mutex = t /\ callbacks' = Passing(callbacks, Kept) /\ signalling' = FALSE
      /\ stack' = [k \in 1 .. m - 1 |-> [stack[k + 1] EXCEPT !.nested = TRUE]]
      /\ mutex' = IF m = 1 THEN None ELSE t
      /\ UNCHANGED <<gone, lost>>
  BY DEF End, LoopEnds, Remaining
<1>2. /\ callbacks \in Seq(Entry) /\ n \in Nat /\ DOMAIN callbacks = 1 .. n
      /\ \A i \in 1 .. n : callbacks[i] \in Entry
      /\ m \in Nat \ {0} /\ DOMAIN stack = 1 .. m /\ \A k \in 1 .. m : stack[k] \in Frames
      /\ t # None /\ gone \in [Callbacks -> Threads \cup {None, Connected}]
  <2>1. stack # <<>>
    BY <1>1, InSignal
  <2> QED
    BY <2>1, Facts, EmptySeq, SignalAssumption DEF IInv, Types
<1>3. \A e \in Entry : e \in Kept <=> ~e.remove
  BY DEF Entry
<1> HIDE DEF Kept
<1> DEFINE q == Passing(callbacks, Kept)
<1>4. /\ q \in Seq(Entry) /\ \E g : Places(g, q, callbacks, Kept, n)
  BY <1>2, PassingPlaces
<1> HIDE DEF q
<1>5. PICK g : Places(g, q, callbacks, Kept, n)
  BY <1>4
<1>6. Len(q) \in Nat /\ DOMAIN q = 1 .. Len(q)
  BY <1>4, LenProperties
<1>7. ASSUME NEW k \in 1 .. Len(q)
      PROVE  g[k] \in 1 .. n /\ q[k] = callbacks[g[k]] /\ ~q[k].remove /\ q[k] \in Entry
  BY <1>2, <1>3, <1>5 DEF Places
<1>8. ASSUME NEW i \in 1 .. n, ~callbacks[i].remove
      PROVE  \E k \in 1 .. Len(q) : q[k] = callbacks[i]
  <2>1. callbacks[i] \in Kept
    BY <1>2, <1>3, <1>8
  <2> QED
    BY <1>5, <2>1 DEF Places
<1>9. ASSUME NEW j \in 1 .. Len(q), NEW k \in 1 .. Len(q), q[j].callback = q[k].callback
      PROVE  j = k
  <2>1. g[j] = g[k]
    BY <1>7, <1>9, Facts
  <2>2. /\ j < k => g[j] < g[k]
        /\ k < j => g[k] < g[j]
    BY <1>5 DEF Places
  <2>3. g[j] \in Int /\ g[k] \in Int /\ j \in Int /\ k \in Int
    BY <1>2, <1>7
  <2> QED
    BY <2>1, <2>2, <2>3
<1>10. callbacks' = q
  BY <1>1 DEF q
<1>11. ASSUME NEW k \in 1 .. m - 1
       PROVE  /\ k + 1 \in 1 .. m
              /\ stack'[k] \in Frames /\ stack'[k].running = stack[k + 1].running
              /\ stack'[k].live = stack[k + 1].live /\ stack'[k].nested = TRUE
  <2>1. k + 1 \in 1 .. m /\ stack[k + 1] \in Frames
    BY <1>2
  <2>2. stack'[k] = [stack[k + 1] EXCEPT !.nested = TRUE]
    BY <1>1
  <2> QED
    BY <2>1, <2>2, Interrupted
<1>12. /\ stack' \in Seq(Frames) /\ DOMAIN stack' = 1 .. m - 1
       /\ stack' = <<>> <=> m = 1
  <2>1. m - 1 \in Nat
    BY <1>2
  <2> DEFINE F(k) == [stack[k + 1] EXCEPT !.nested = TRUE]
  <2>2. stack' = [k \in 1 .. m - 1 |-> F(k)]
    BY <1>1
  <2>3. \A k \in 1 .. m - 1 : F(k) \in Frames
    BY <1>11, <2>2
  <2> HIDE DEF F
  <2>4. stack' \in Seq(Frames) /\ Len(stack') = m - 1 /\ DOMAIN stack' = 1 .. m - 1
    BY <2>1, <2>2, <2>3
  <2> QED
    BY <1>2, <2>4, EmptySeq
<1>13. TypeOK'
  <2>1. \A c \in Callbacks : \A i, j \in Indices(c)' : i = j
    BY <1>6, <1>9, <1>10 DEF Indices
  <2>2. \A i \in 1 .. Len(q) : ~q[i].remove
    BY <1>7
  <2>3. lost' \subseteq Callbacks /\ (mutex' = None <=> stack' = <<>>)
    BY <1>1, <1>2, <1>12 DEF IInv, TypeOK
  <2> QED
    BY <1>1, <1>4, <1>6, <1>10, <2>1, <2>2, <2>3 DEF TypeOK, Entry
<1>14. Types'
  BY <1>1, <1>2, <1>12 DEF Types
<1>15. Entries'
  <2>1. ASSUME NEW c \in Callbacks \ lost, gone[c] = Connected
        PROVE  \E k \in 1 .. Len(q) : q[k].callback = c /\ ~q[k].remove
    <3>1. PICK i \in 1 .. n : callbacks[i].callback = c /\ ~callbacks[i].remove
      BY <1>2, <2>1 DEF IInv, Entries
    <3> QED
      BY <1>8, <3>1
  <2>2. ASSUME NEW k \in 1 .. Len(q)
        PROVE  gone[q[k].callback] = Connected /\ q[k].callback \notin lost
    BY <1>2, <1>7 DEF IInv, Entries
  <2> QED
    BY <1>1, <1>6, <1>10, <2>1, <2>2 DEF Entries
<1>16. SafeToFree'
  <2>1. ASSUME NEW k \in 1 .. m - 1, stack'[k].running # None
        PROVE  stack'[k].live /\ gone[stack'[k].running] \in {Connected, mutex'}
    <3>1. k + 1 \in DOMAIN stack /\ stack[k + 1].running # None
      BY <1>2, <1>11, <2>1, Zenon
    <3>2. m # 1
      BY <1>2, <2>1
    <3>3. mutex' = mutex
      BY <1>1, <3>2
    <3> QED
      BY <1>11, <3>1, <3>3 DEF IInv, SafeToFree
  <2> QED
    BY <1>1, <1>12, <2>1 DEF SafeToFree
<1>17. Underway'
  BY <1>11, <1>12 DEF Underway
<1> QED
  BY <1>13, <1>14, <1>15, <1>16, <1>17 DEF IInv

-----------------------------------------------------------------------------

LEMMA InitIInv ==
  ASSUME Init
  PROVE  IInv
<1>1. /\ callbacks = <<>> /\ signalling = FALSE /\ mutex = None /\ stack = <<>>
      /\ gone = [c \in Callbacks |-> None] /\ lost = {} /\ None # Connected
  BY DEF Init, None, Connected
<1>2. /\ DOMAIN callbacks = {} /\ DOMAIN stack = {}
      /\ callbacks \in Seq([callback : Callbacks, remove : BOOLEAN])
      /\ stack \in Seq(Frames)
  BY <1>1
<1> QED
  BY <1>1, <1>2 DEF IInv, TypeOK, Types, Entries, SafeToFree, Underway, Indices

LEMMA NextIInv ==
  ASSUME IInv, [Next]_vars
  PROVE  IInv'
<1>1. CASE UNCHANGED vars
  BY <1>1 DEF vars, IInv, TypeOK, Types, Entries, SafeToFree, Underway, OnTheWay, Indices
<1>2. ASSUME NEW t \in Threads,
             \/ \E c \in Callbacks : Connect(t, c) \/ Disconnect(t, c)
             \/ Signal(t) \/ Skip(t) \/ Call(t) \/ Return(t) \/ End(t)
      PROVE  IInv'
  <2>1. CASE \E c \in Callbacks : Connect(t, c)
    BY <2>1, ConnectIInv
  <2>2. CASE \E c \in Callbacks : Disconnect(t, c)
    BY <2>2, DisconnectIInv
  <2>3. CASE Signal(t)
    BY <2>3, SignalIInv
  <2>4. CASE Skip(t)
    BY <2>4, SkipIInv
  <2>5. CASE Call(t)
    BY <2>5, CallIInv
  <2>6. CASE Return(t)
    BY <2>6, ReturnIInv
  <2>7. CASE End(t)
    BY <2>7, EndIInv
  <2> QED
    BY <1>2, <2>1, <2>2, <2>3, <2>4, <2>5, <2>6, <2>7
<1> QED
  BY <1>1, <1>2 DEF Next

\* The invariant of the proofs: the array agrees with who is connected, and every
\* signal in progress has called its stable callbacks up to its index.
THEOREM SignalConsistent == Spec => []IInv
<1>1. Init => IInv
  BY InitIInv
<1>2. IInv /\ [Next]_vars => IInv'
  BY NextIInv
<1> QED
  BY <1>1, <1>2, PTL DEF Spec

\* The array of signal.c holds nobody twice, and nobody to be removed outlives the
\* signal in progress.
THEOREM TypeCorrect == Spec => []TypeOK
<1>1. IInv => TypeOK
  BY DEF IInv
<1> QED
  BY <1>1, SignalConsistent, PTL

\* After signal_handler_disconnect returns, no other thread is in the callback and
\* none will call it.
THEOREM SafeToFreeHolds == Spec => []SafeToFree
<1>1. IInv => SafeToFree
  BY DEF IInv
<1> QED
  BY <1>1, SignalConsistent, PTL

\* A callback connected throughout a signal is called exactly once, unless a signal
\* inside it ended, and being connected means being in the array.
THEOREM ConnectedMeansCalledHolds == Spec => []ConnectedMeansCalled
<1>1. ASSUME IInv PROVE EveryoneOnce
  <2>1. SUFFICES ASSUME NEW t \in Threads, LoopEnds(t), ~Top.nested
                 PROVE  Top.stable \subseteq Top.called /\ Top.stable \cap Top.again = {}
    BY DEF EveryoneOnce
  <2>2. /\ Top = stack[1] /\ stack[1] \in Frames /\ OnTheWay(stack[1])
        /\ stack[1].i \in Nat /\ stack[1].i > Len(callbacks)
    BY <1>1, <2>1, InSignal DEF LoopEnds
  <2>3. ASSUME NEW c \in stack[1].stable PROVE c \in stack[1].called
    <3>1. c \in Callbacks \ lost /\ gone[c] = Connected
      BY <2>2 DEF OnTheWay, Frames
    <3>2. PICK p \in DOMAIN callbacks : callbacks[p].callback = c
      BY <1>1, <3>1 DEF IInv, Entries
    <3>3. p < stack[1].i
      BY <1>1, <2>2, Facts
    <3> QED
      BY <2>2, <3>2, <3>3 DEF OnTheWay
  <2> QED
    BY <2>2, <2>3 DEF OnTheWay
<1>2. ASSUME IInv PROVE StaysConnected
  <2>1. ASSUME NEW c \in Callbacks \ lost
        PROVE  gone[c] = Connected <=>
                 \E i \in DOMAIN callbacks : callbacks[i].callback = c /\ ~callbacks[i].remove
    BY <1>2 DEF IInv, Entries
  <2> QED
    BY <2>1 DEF StaysConnected, Indices
<1>3. IInv => ConnectedMeansCalled
  BY <1>1, <1>2 DEF ConnectedMeansCalled
<1> QED
  BY <1>3, SignalConsistent, PTL
=============================================================================
