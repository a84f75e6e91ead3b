---------------------------- MODULE PacketProofs ----------------------------
(***************************************************************************)
(* Safety of the way that packets take in an output: through               *)
(* interleave_packets and then through the send queue of the RTMP stream,  *)
(* for any origins, durations and leads of the encoders, packet kinds,     *)
(* drop threshold and number of packets and sessions.                      *)
(*                                                                         *)
(* The send queue comes first.  The order of what is sent is not inductive *)
(* by itself: a drop pass rebuilds the queue while a packet is in the      *)
(* sender's hand and another in the producer's.  IInv puts all three in    *)
(* one line.                                                               *)
(*                                                                         *)
(* Then the interleaver.  InterleaveInv says what the buffer holds: of     *)
(* each stream every packet from the one that is to be sent next to the    *)
(* one that is to be delivered next, in the order of time.                 *)
(***************************************************************************)
EXTENDS RtmpSendQueue, Interleave, FilteringProofs

\* A packet in the queue or in hand.
Packet == [dts : Nat, kind : Kinds]

\* Bounds of the histories, and what a session that has ended leaves.
Counts ==
  /\ session \in 1 .. Len(MaxPackets)
  /\ arrived \in 0 .. MaxPackets[session]
  /\ last_sent \in 0 .. arrived
  /\ passes \in Nat
  /\ ~capturing => ppc = "idle"

\* Packets in the order of their arrival.
Ascending(q) == \A i, k \in 1 .. Len(q) : k < i => q[k].dts < q[i].dts

\* What waits is younger than what was sent, older than what is to arrive, and
\* in order.
Line ==
  /\ packets \in Seq(Packet)
  /\ Ascending(packets)
  /\ \A i \in 1 .. Len(packets) :
       last_sent < packets[i].dts /\ packets[i].dts <= arrived
  /\ ppc = "checked" =>
       /\ incoming \in Packet
       /\ incoming.dts = arrived /\ last_sent < arrived
       /\ \A i \in 1 .. Len(packets) : packets[i].dts < arrived
  /\ spc \in {"send", "sendlast"} =>
       /\ outgoing \in Packet
       /\ last_sent < outgoing.dts /\ outgoing.dts <= arrived
       /\ ppc = "checked" => outgoing.dts < arrived
       /\ \A i \in 1 .. Len(packets) : outgoing.dts < packets[i].dts

\* min_priority remembers what was lost as long as one pass did the dropping.
Resume ==
  /\ passes = 0 => min_priority = 0 /\ owed = 0
  /\ passes = 1 => owed <= min_priority

IInv == TypeOK /\ Counts /\ Line /\ NothingStranded /\ Resume

-----------------------------------------------------------------------------
(* Highest priorities.                                                     *)

\* A bounded set of numbers has a maximum.
LEMMA MaxIs ==
  ASSUME NEW S, S \subseteq Nat, S # {}, NEW b \in Nat, \A x \in S : x <= b
  PROVE  Max(S) \in S /\ \A x \in S : x <= Max(S)
<1>1. PICK m \in S : \A x \in S : x <= m
  <2>1. \E m \in S : \A x \in S : x <= m
    BY GreatestNumber
  <2> QED
    BY <2>1
<1>2. \A x \in S : m >= x
  BY <1>1
<1>3. Max(S) \in S /\ \A x \in S : Max(S) >= x
  BY <1>2, Zenon DEF Max
<1> QED
  BY <1>3

LEMMA HighestIs ==
  ASSUME NEW S, S \subseteq 0 .. HIGHEST
  PROVE  /\ Highest(S) \in S \cup {0} /\ Highest(S) \in 0 .. HIGHEST
         /\ \A x \in S : x <= Highest(S)
<1> DEFINE U == {0} \cup S
<1>1. U \subseteq Nat /\ U # {} /\ \A x \in U : x <= 3
  BY DEF HIGHEST
<1>2. Max(U) \in U /\ \A x \in U : x <= Max(U)
  <2> HIDE DEF U
  <2> QED
    BY <1>1, MaxIs
<1>3. Highest(S) = Max(U)
  BY DEF Highest
<1>4. U = S \cup {0} /\ U \subseteq 0 .. HIGHEST
  BY DEF HIGHEST
<1> HIDE DEF U
<1>5. Highest(S) \in U /\ \A x \in U : x <= Highest(S)
  BY <1>2, <1>3
<1> QED
  BY <1>4, <1>5

\* No session is longer than the longest.
LEMMA LongestSession ==
  /\ Max(Range(MaxPackets)) \in Nat
  /\ \A i \in 1 .. Len(MaxPackets) :
       MaxPackets[i] \in Nat /\ MaxPackets[i] <= Max(Range(MaxPackets))
<1> DEFINE n == Len(MaxPackets)
           N == {m \in Nat : \E b \in Nat :
                   \A i \in 1 .. n : i <= m => MaxPackets[i] <= b}
<1>1. /\ n \in Nat /\ n # 0
      /\ DOMAIN MaxPackets = 1 .. n
      /\ \A i \in 1 .. n : MaxPackets[i] \in Nat
  BY SendQueueAssumption, LenProperties, ElementOfSeq, EmptySeq
<1> HIDE DEF n
<1>2. 0 \in N
  BY <1>1
<1>3. ASSUME NEW m \in Nat, m \in N PROVE m + 1 \in N
  <2>1. PICK b \in Nat : \A i \in 1 .. n : i <= m => MaxPackets[i] <= b
    BY <1>3
  <2>2. CASE m + 1 \in 1 .. n
    <3>1. \A i \in 1 .. n : i <= m + 1 => MaxPackets[i] <= b + MaxPackets[m + 1]
      BY <1>1, <2>1, <2>2
    <3>2. b + MaxPackets[m + 1] \in Nat
      BY <1>1, <2>2
    <3> QED
      BY <3>1, <3>2
  <2>3. CASE m + 1 \notin 1 .. n
    <3>1. \A i \in 1 .. n : i <= m + 1 => i <= m
      BY <1>1, <2>3
    <3> QED
      BY <2>1, <3>1
  <2> QED
    BY <2>2, <2>3
<1>4. n \in N
  <2> HIDE DEF N
  <2> QED
    BY <1>1, <1>2, <1>3, Induction
<1>5. PICK b \in Nat : \A i \in 1 .. n : MaxPackets[i] <= b
  BY <1>1, <1>4
<1>6. Range(MaxPackets) = {MaxPackets[i] : i \in 1 .. n}
  BY <1>1 DEF Range
<1>7. /\ Range(MaxPackets) \subseteq Nat /\ Range(MaxPackets) # {}
      /\ \A x \in Range(MaxPackets) : x <= b
  BY <1>1, <1>5, <1>6
<1>8. /\ Max(Range(MaxPackets)) \in Range(MaxPackets)
      /\ \A x \in Range(MaxPackets) : x <= Max(Range(MaxPackets))
  BY <1>7, MaxIs
<1>9. Max(Range(MaxPackets)) \in Nat
  BY <1>7, <1>8
<1> QED
  BY <1>1, <1>6, <1>8, <1>9 DEF n

-----------------------------------------------------------------------------
(* The drop pass.                                                          *)

\* q is taken out of the queue, in order.
TakenFromQueue(q) ==
  /\ q \in Seq(Packet)
  /\ Len(q) <= Len(packets)
  /\ Ascending(q)
  /\ \A k \in 1 .. Len(q) : \E i \in 1 .. Len(packets) : q[k] = packets[i]
  /\ \A i \in 1 .. Len(packets) :
       Essential(packets[i]) => \E k \in 1 .. Len(q) : q[k] = packets[i]

\* What the pass drops is not essential, and its kind is its drop priority.
LEMMA DroppedIs ==
  ASSUME NEW p \in Packet, ~Keep(p)
  PROVE  ~Essential(p) /\ DropPriority(p.kind) = p.kind /\ p.kind \in {0, LOW}
<1>1. p.kind \in -1 .. 3
  BY SendQueueAssumption DEF Packet
<1> QED
  BY <1>1 DEF Keep, Essential, IsVideo, DropPriority, Audio, DISPOSABLE, LOW, HIGH,
              HIGHEST

LEMMA KeptIs ==
  ASSUME IInv
  PROVE  TakenFromQueue(Kept)
<1> DEFINE T == {p \in Range(packets) : Keep(p)}
           n == Len(packets)
<1>1. /\ packets \in Seq(Packet) /\ Ascending(packets)
      /\ n \in Nat /\ DOMAIN packets = 1 .. n
      /\ \A i \in 1 .. n : packets[i] \in Packet
  BY LenProperties, ElementOfSeq DEF IInv, Line
<1>2. Kept = Passing(packets, T)
  BY DEF Kept
<1> HIDE DEF T
<1>3. /\ Kept \in Seq(Packet) /\ Len(Kept) <= n
      /\ \E g : Places(g, Kept, packets, T, n)
  BY <1>1, <1>2, PassingPlaces
<1>4. PICK g : Places(g, Kept, packets, T, n)
  BY <1>3
<1> HIDE DEF n
<1>5. \A k \in 1 .. Len(Kept) : g[k] \in 1 .. n /\ Kept[k] = packets[g[k]]
  BY <1>4 DEF Places
<1>6. Ascending(Kept)
  <2>1. SUFFICES ASSUME NEW i \in 1 .. Len(Kept), NEW k \in 1 .. Len(Kept), k < i
                 PROVE  Kept[k].dts < Kept[i].dts
    BY DEF Ascending
  <2>2. g[k] < g[i] /\ g[k] \in 1 .. n /\ g[i] \in 1 .. n
    BY <1>4, <1>5, <2>1 DEF Places
  <2>3. packets[g[k]].dts < packets[g[i]].dts
    BY <1>1, <2>2 DEF Ascending, n
  <2> QED
    BY <1>5, <2>3
<1>7. ASSUME NEW i \in 1 .. n, Essential(packets[i])
      PROVE  \E k \in 1 .. Len(Kept) : Kept[k] = packets[i]
  <2>1. Keep(packets[i])
    BY <1>1, <1>7, DroppedIs
  <2>2. packets[i] \in T
    BY <1>1, <2>1 DEF T, Range
  <2>3. PICK k \in 1 .. Len(Kept) : g[k] = i
    BY <1>4, <2>2 DEF Places
  <2> QED
    BY <1>5, <2>3
<1> QED
  BY <1>3, <1>5, <1>6, <1>7 DEF TakenFromQueue, n

\* What check_to_drop_frames leaves of the queue and of its memory.
LEMMA CheckedIs ==
  ASSUME IInv
  PROVE  /\ TakenFromQueue(Checked.packets)
         /\ Checked.priority \in 0 .. LOW /\ Checked.owed \in 0 .. LOW
         /\ Checked.dts \in 0 .. MaxPackets[session]
         /\ Congested /\ passes = 0 => Checked.owed <= Checked.priority
         /\ ~Congested => Checked.priority = min_priority /\ Checked.owed = owed
<1>1. /\ packets \in Seq(Packet) /\ Ascending(packets)
      /\ Len(packets) \in Nat /\ DOMAIN packets = 1 .. Len(packets)
      /\ \A i \in 1 .. Len(packets) : packets[i] \in Packet
  BY LenProperties, ElementOfSeq DEF IInv, Line
<1>2. CASE ~Congested
  <2>1. TakenFromQueue(packets)
    BY <1>1 DEF TakenFromQueue
  <2> QED
    BY <1>2, <2>1 DEF Checked, IInv, TypeOK
<1>3. CASE Congested
  <2> DEFINE lost == {DropPriority(packets[i].kind) :
                        i \in {j \in DOMAIN packets : ~Keep(packets[j])}}
             kept == \E i \in DOMAIN packets : IsVideo(packets[i]) /\ Keep(packets[i])
             seen == IF kept THEN {} ELSE {owed}
             tail == LostAtTail(packets) \cup seen
  <2>1. lost \subseteq {0, LOW}
    BY <1>1, DroppedIs
  <2>2. LostAtTail(packets) \subseteq lost
    BY DEF LostAtTail
  <2>3. owed \in 0 .. LOW /\ (passes = 0 => owed = 0)
    BY DEF IInv, TypeOK, Resume
  <2>4. seen \subseteq {owed}
    OBVIOUS
  <2>5. Checked = [packets |-> Kept, priority |-> Highest(lost),
                   dts |-> packets[Len(packets)].dts, owed |-> Highest(tail)]
    BY <1>3 DEF Checked, DropFrames, HighestLost, Last
  <2> HIDE DEF lost, kept, seen, tail
  <2>6. lost \subseteq 0 .. LOW /\ tail \subseteq 0 .. LOW
    <3>1. {0, LOW} \subseteq 0 .. LOW
      BY DEF LOW
    <3>2. {owed} \subseteq 0 .. LOW
      BY <2>3
    <3> QED
      BY <2>1, <2>2, <2>4, <3>1, <3>2, Zenon DEF tail
  <2>7. /\ Highest(lost) \in 0 .. LOW /\ Highest(tail) \in tail \cup {0}
        /\ Highest(tail) \in 0 .. LOW
        /\ \A x \in lost : x <= Highest(lost)
    <3>1. lost \subseteq 0 .. HIGHEST /\ tail \subseteq 0 .. HIGHEST
      BY <2>6 DEF LOW, HIGHEST
    <3>2. /\ Highest(lost) \in lost \cup {0} /\ Highest(tail) \in tail \cup {0}
          /\ \A x \in lost : x <= Highest(lost)
      BY <3>1, HighestIs
    <3>3. 0 \in 0 .. LOW
      BY DEF LOW
    <3> QED
      BY <2>6, <3>2, <3>3, Zenon
  <2>8. Len(packets) \in 1 .. Len(packets)
    BY <1>1, <1>3 DEF Congested, MinBuffered
  <2>9. packets[Len(packets)].dts \in 0 .. MaxPackets[session]
    <3>1. packets[Len(packets)].dts \in 1 .. MaxPackets[session]
      BY <1>1, <2>8 DEF IInv, TypeOK
    <3>2. MaxPackets[session] \in Nat
      BY LongestSession DEF IInv, Counts
    <3> QED
      BY <3>1, <3>2
  <2>10. passes = 0 => Highest(tail) <= Highest(lost)
    BY <2>2, <2>3, <2>4, <2>7 DEF tail, LOW
  <2> QED
    BY <1>3, <2>5, <2>7, <2>9, <2>10, KeptIs
<1> QED
  BY <1>2, <1>3

-----------------------------------------------------------------------------
(* Steps keep the line.                                                    *)

\* The variables of TypeOK other than the queue.
Scalars ==
  /\ send_sem \in Nat
  /\ min_priority \in 0 .. LOW /\ owed \in 0 .. LOW
  /\ last_dts \in 0 .. Max(Range(MaxPackets))
  /\ min_drop_dts \in 0 .. MaxPackets[session]
  /\ disconnected \in BOOLEAN /\ stop_event \in BOOLEAN /\ capturing \in BOOLEAN
  /\ ppc \in {"idle", "checked", "added"}
  /\ spc \in {"wait", "take", "send", "flush", "sendlast", "closing", "signal",
              "reset", "ended"}

LEMMA Assembled ==
  ASSUME Scalars', Counts', Line', NothingStranded', Resume'
  PROVE  IInv'
<1>1. DOMAIN packets' = 1 .. Len(packets')
  BY LenProperties DEF Line
<1>2. ASSUME NEW i \in 1 .. Len(packets')
      PROVE  packets'[i].dts \in 1 .. MaxPackets[session]' /\ packets'[i].kind \in Kinds
  <2>1. packets'[i] \in Packet
    BY ElementOfSeq DEF Line
  <2>2. last_sent' < packets'[i].dts /\ packets'[i].dts <= arrived'
    BY DEF Line
  <2>3. MaxPackets[session]' \in Nat
    BY LongestSession DEF Counts
  <2> QED
    BY <2>1, <2>2, <2>3 DEF Counts, Packet
<1>3. TypeOK'
  BY <1>1, <1>2, Zenon DEF TypeOK, Scalars
<1> QED
  BY <1>3 DEF IInv

\* Facts about the queue that the steps below share.
LEMMA QueueFacts ==
  ASSUME IInv
  PROVE  /\ packets \in Seq(Packet) /\ Len(packets) \in Nat
         /\ \A i \in 1 .. Len(packets) : packets[i] \in Packet /\ packets[i].dts \in Nat
         /\ arrived \in Nat /\ last_sent \in Nat /\ last_sent <= arrived
         /\ MaxPackets[session] \in Nat
         /\ arrived \in 0 .. MaxPackets[session]
         /\ arrived \in 0 .. Max(Range(MaxPackets))
         /\ Scalars
<1>1. packets \in Seq(Packet) /\ Len(packets) \in Nat
  BY LenProperties DEF IInv, Line
<1>2. \A i \in 1 .. Len(packets) : packets[i] \in Packet
  BY <1>1, ElementOfSeq
<1>3. MaxPackets[session] \in Nat /\ MaxPackets[session] <= Max(Range(MaxPackets))
  BY LongestSession DEF IInv, Counts
<1>4. arrived \in Nat /\ last_sent \in Nat /\ last_sent <= arrived
  BY <1>3 DEF IInv, Counts
<1>5. Scalars
  BY Zenon DEF IInv, TypeOK, Scalars
<1>6. arrived \in 0 .. MaxPackets[session] /\ arrived \in 0 .. Max(Range(MaxPackets))
  BY <1>3, LongestSession DEF IInv, Counts
<1> QED
  BY <1>1, <1>2, <1>3, <1>4, <1>5, <1>6 DEF Packet

\* Packets may leave the queue; what is in hand stays or goes.
LEMMA LineShorter ==
  ASSUME IInv, NEW q, packets' = q, UNCHANGED <<arrived, last_sent>>,
         q \in Seq(Packet), Ascending(q),
         \A k \in 1 .. Len(q) : \E i \in 1 .. Len(packets) : q[k] = packets[i],
         ppc' = "checked" => ppc = "checked" /\ incoming' = incoming,
         spc' \in {"send", "sendlast"} =>
           spc \in {"send", "sendlast"} /\ outgoing' = outgoing
  PROVE  Line'
<1>1. ASSUME NEW k \in 1 .. Len(q)
      PROVE  /\ last_sent < q[k].dts /\ q[k].dts <= arrived
             /\ ppc = "checked" => q[k].dts < arrived
             /\ spc \in {"send", "sendlast"} => outgoing.dts < q[k].dts
  <2>1. PICK i \in 1 .. Len(packets) : q[k] = packets[i]
    OBVIOUS
  <2> QED
    BY <2>1 DEF IInv, Line
<1>2. Ascending(packets)'
  BY DEF Ascending
<1>3. ppc' = "checked" => /\ incoming' \in Packet
                          /\ incoming'.dts = arrived' /\ last_sent' < arrived'
  BY DEF IInv, Line
<1>4. spc' \in {"send", "sendlast"} =>
        /\ outgoing' \in Packet
        /\ last_sent' < outgoing'.dts /\ outgoing'.dts <= arrived'
        /\ ppc' = "checked" => outgoing'.dts < arrived'
  BY DEF IInv, Line
<1> QED
  BY <1>1, <1>2, <1>3, <1>4 DEF Line

\* The same with the queue left alone.
LEMMA LineSame ==
  ASSUME IInv, UNCHANGED <<packets, arrived, last_sent>>,
         ppc' = "checked" => ppc = "checked" /\ incoming' = incoming,
         spc' \in {"send", "sendlast"} =>
           spc \in {"send", "sendlast"} /\ outgoing' = outgoing
  PROVE  Line'
<1>1. packets \in Seq(Packet) /\ Ascending(packets)
  BY DEF IInv, Line
<1> QED
  BY <1>1, LineShorter

\* The packet in the producer's hand joins what is left of the queue.
LEMMA LineLonger ==
  ASSUME IInv, NEW q, packets' = Append(q, incoming),
         UNCHANGED <<arrived, last_sent, spc, outgoing>>, ppc = "checked", ppc' # "checked",
         q \in Seq(Packet), Ascending(q),
         \A k \in 1 .. Len(q) : \E i \in 1 .. Len(packets) : q[k] = packets[i]
  PROVE  Line' /\ Len(packets') = Len(q) + 1
<1> DEFINE n == Len(q)
<1>1. n \in Nat /\ incoming \in Packet /\ incoming.dts = arrived /\ last_sent < arrived
      /\ arrived \in Nat
  BY LenProperties, QueueFacts DEF IInv, Line
<1>2. /\ packets' \in Seq(Packet) /\ Len(packets') = n + 1 /\ packets'[n + 1] = incoming
      /\ \A k \in 1 .. n : packets'[k] = q[k]
  BY <1>1, AppendProperties
<1>3. ASSUME NEW k \in 1 .. n
      PROVE  /\ last_sent < q[k].dts /\ q[k].dts < arrived /\ q[k].dts \in Nat
             /\ spc \in {"send", "sendlast"} => outgoing.dts < q[k].dts
  <2>1. PICK i \in 1 .. Len(packets) : q[k] = packets[i]
    OBVIOUS
  <2> QED
    BY <2>1, QueueFacts DEF IInv, Line
<1>4. \A k \in 1 .. n + 1 : k \in 1 .. n \/ k = n + 1
  BY <1>1
<1>5. ASSUME NEW k \in 1 .. n + 1
      PROVE  /\ last_sent < packets'[k].dts /\ packets'[k].dts <= arrived
             /\ spc \in {"send", "sendlast"} => outgoing.dts < packets'[k].dts
  <2>1. CASE k = n + 1
    BY <1>1, <1>2, <2>1 DEF IInv, Line
  <2>2. CASE k \in 1 .. n
    BY <1>1, <1>2, <1>3, <2>2
  <2> QED
    BY <1>4, <2>1, <2>2
<1>6. Ascending(packets)'
  <2>1. SUFFICES ASSUME NEW i \in 1 .. n + 1, NEW k \in 1 .. n + 1, k < i
                 PROVE  packets'[k].dts < packets'[i].dts
    BY <1>2 DEF Ascending
  <2>2. k \in 1 .. n
    BY <1>1, <2>1
  <2>3. CASE i = n + 1
    BY <1>1, <1>2, <1>3, <2>2, <2>3
  <2>4. CASE i \in 1 .. n
    BY <1>2, <2>1, <2>2, <2>4 DEF Ascending
  <2> QED
    BY <1>4, <2>3, <2>4
<1>7. spc' \in {"send", "sendlast"} =>
        outgoing' \in Packet /\ last_sent' < outgoing'.dts /\ outgoing'.dts <= arrived'
  BY DEF IInv, Line
<1> HIDE DEF n
<1> QED
  BY <1>2, <1>5, <1>6, <1>7 DEF Line, n

-----------------------------------------------------------------------------
(* The producer.                                                           *)

LEMMA ArriveIInv ==
  ASSUME IInv, NEW kind \in Kinds, Arrive(kind)
  PROVE  IInv'
<1>1. /\ arrived \in Nat /\ arrived' = arrived + 1 /\ arrived < MaxPackets[session]
      /\ last_sent \in Nat /\ last_sent <= arrived
      /\ UNCHANGED <<packets, last_sent, spc, outgoing, session>>
      /\ packets \in Seq(Packet) /\ MaxPackets[session] \in Nat
      /\ ppc = "idle" /\ capturing
  BY QueueFacts DEF Arrive, senderVars, controlVars
<1>2. ppc' \in {"idle", "checked"}
      /\ (ppc' = "checked" => incoming' = [dts |-> arrived + 1, kind |-> kind])
  BY DEF Arrive
<1>3. Line'
  <2>1. ppc' = "checked" => incoming' \in Packet /\ incoming'.dts = arrived + 1
    BY <1>1, <1>2 DEF Packet
  <2>2. Ascending(packets)'
    BY <1>1 DEF IInv, Line, Ascending
  <2>3. \A i \in 1 .. Len(packets) :
          /\ last_sent < packets[i].dts /\ packets[i].dts <= arrived + 1
          /\ packets[i].dts < arrived + 1
    BY <1>1, QueueFacts DEF IInv, Line
  <2>4. spc \in {"send", "sendlast"} =>
          /\ outgoing \in Packet /\ last_sent < outgoing.dts
          /\ outgoing.dts <= arrived + 1 /\ outgoing.dts < arrived + 1
          /\ \A i \in 1 .. Len(packets) : outgoing.dts < packets[i].dts
    BY <1>1 DEF IInv, Line, Packet
  <2>5. last_sent < arrived + 1
    BY <1>1
  <2> QED
    BY <1>1, <2>1, <2>2, <2>3, <2>4, <2>5 DEF Line
<1>4. Counts'
  <2>1. arrived + 1 \in 0 .. MaxPackets[session] /\ last_sent \in 0 .. arrived + 1
    BY <1>1
  <2> QED
    BY <1>1, <2>1 DEF IInv, Counts, Arrive, controlVars, dropVars
<1>5. Scalars'
  BY <1>2, QueueFacts DEF Scalars, Arrive, dropVars, senderVars, controlVars
<1>6. NothingStranded' /\ Resume'
  BY <1>1, <1>2 DEF IInv, NothingStranded, NoStrandedPacket, NoPacketAfterFree, Resume,
                    Arrive, dropVars, senderVars, controlVars
<1> QED
  BY <1>3, <1>4, <1>5, <1>6, Assembled

LEMMA AddAudioIInv ==
  ASSUME IInv, AddAudio
  PROVE  IInv'
<1>1. Line' /\ Len(packets') = Len(packets) + 1
  <2>1. packets \in Seq(Packet) /\ Ascending(packets)
    BY DEF IInv, Line
  <2> QED
    BY <2>1, LineLonger DEF AddAudio, senderVars
<1>2. last_dts' \in 0 .. Max(Range(MaxPackets))
  <2>1. incoming.dts = arrived
    BY DEF IInv, Line, AddAudio
  <2> QED
    BY <2>1, QueueFacts DEF AddAudio
<1>3. Scalars'
  BY <1>2, QueueFacts DEF Scalars, AddAudio, dropVars, senderVars, controlVars
<1>4. Counts' /\ Resume'
  BY DEF IInv, Counts, Resume, AddAudio, dropVars, senderVars, controlVars
<1>5. NothingStranded'
  <2>1. NoStrandedPacket'
    BY <1>1, QueueFacts DEF IInv, NothingStranded, NoStrandedPacket, Scalars,
                            AddAudio, senderVars
  <2>2. NoPacketAfterFree'
    BY DEF NoPacketAfterFree, AddAudio, StillConnected
  <2> QED
    BY <2>1, <2>2 DEF NothingStranded
<1> QED
  BY <1>1, <1>3, <1>4, <1>5, Assembled

LEMMA AddVideoIInv ==
  ASSUME IInv, AddVideo
  PROVE  IInv'
<1> DEFINE c == Checked
<1>1. /\ TakenFromQueue(c.packets)
      /\ c.priority \in 0 .. LOW /\ c.owed \in 0 .. LOW
      /\ c.dts \in 0 .. MaxPackets[session]
      /\ Congested /\ passes = 0 => c.owed <= c.priority
      /\ ~Congested => c.priority = min_priority /\ c.owed = owed
  BY CheckedIs
<1>2. /\ ppc = "checked" /\ ~disconnected
      /\ passes' = IF Congested THEN passes + 1 ELSE passes
      /\ min_drop_dts' = c.dts /\ incoming' = None
      /\ UNCHANGED <<send_sem, disconnected, arrived, senderVars, controlVars>>
  BY DEF AddVideo, StillConnected
<1>3. \/ /\ incoming.kind < c.priority
         /\ packets' = c.packets /\ min_priority' = c.priority
         /\ owed' = Highest({c.owed, DropPriority(incoming.kind)})
         /\ ppc' = "idle" /\ last_dts' = last_dts
      \/ /\ packets' = Append(c.packets, incoming)
         /\ min_priority' = 0 /\ owed' = 0
         /\ last_dts' = incoming.dts /\ ppc' = "added"
  BY DEF AddVideo
<1> HIDE DEF c
<1>4. /\ incoming \in Packet /\ incoming.kind \in 0 .. 3 /\ incoming.dts = arrived
      /\ passes \in Nat
  <2>1. incoming \in Packet /\ incoming.kind # Audio /\ incoming.dts = arrived
    BY <1>2 DEF IInv, Line, AddVideo, IsVideo
  <2>2. incoming.kind \in -1 .. 3 /\ incoming.kind # -1
    BY <2>1, SendQueueAssumption DEF Packet, Audio
  <2>3. passes \in Nat
    BY DEF IInv, Counts
  <2> QED
    BY <2>1, <2>2, <2>3
<1>5. /\ UNCHANGED <<arrived, last_sent, spc, outgoing, session, capturing, stop_event>>
      /\ c.packets \in Seq(Packet) /\ Len(c.packets) <= Len(packets)
      /\ Ascending(c.packets)
      /\ \A k \in 1 .. Len(c.packets) : \E i \in 1 .. Len(packets) : c.packets[k] = packets[i]
  BY <1>1, <1>2 DEF TakenFromQueue, senderVars, controlVars
<1>6. CASE /\ incoming.kind < c.priority
           /\ packets' = c.packets /\ min_priority' = c.priority
           /\ owed' = Highest({c.owed, DropPriority(incoming.kind)})
           /\ ppc' = "idle" /\ last_dts' = last_dts
  <2>1. incoming.kind = 0 /\ DropPriority(incoming.kind) = 0 /\ c.priority = 1
    BY <1>1, <1>4, <1>6 DEF LOW, DropPriority, DISPOSABLE
  <2>2. owed' \in 0 .. LOW /\ owed' \in {0, c.owed}
    <3>1. {c.owed, DropPriority(incoming.kind)} \subseteq 0 .. HIGHEST
      BY <1>1, <2>1 DEF LOW, HIGHEST
    <3>2. owed' \in {c.owed, DropPriority(incoming.kind)} \cup {0}
      BY <1>6, <3>1, HighestIs
    <3> QED
      BY <1>1, <2>1, <3>2 DEF LOW
  <2>3. Line'
    BY <1>5, <1>6, LineShorter
  <2>4. Scalars'
    BY <1>1, <1>2, <1>5, <1>6, <2>2, QueueFacts DEF Scalars
  <2>5. Counts'
    BY <1>2, <1>4, <1>5, <1>6 DEF IInv, Counts
  <2>6. Resume'
    <3>1. passes' = 0 => ~Congested /\ passes = 0
      BY <1>2, <1>4
    <3>2. passes' = 1 => c.owed <= c.priority
      BY <1>1, <1>2, <1>4 DEF IInv, Resume
    <3>3. passes' # 0
      BY <1>1, <2>1, <3>1 DEF IInv, Resume
    <3> QED
      BY <1>1, <1>6, <2>1, <2>2, <3>2, <3>3 DEF Resume
  <2>7. NothingStranded'
    <3>1. NoStrandedPacket'
      <4>1. Len(c.packets) \in Nat
        BY <1>5, LenProperties
      <4> QED
        BY <1>2, <1>5, <1>6, <4>1, QueueFacts DEF IInv, NothingStranded, NoStrandedPacket, Scalars
    <3>2. NoPacketAfterFree'
      BY <1>2 DEF NoPacketAfterFree
    <3> QED
      BY <3>1, <3>2 DEF NothingStranded
  <2> QED
    BY <2>3, <2>4, <2>5, <2>6, <2>7, Assembled
<1>7. CASE /\ packets' = Append(c.packets, incoming)
           /\ min_priority' = 0 /\ owed' = 0
           /\ last_dts' = incoming.dts /\ ppc' = "added"
  <2>1. Line' /\ Len(packets') = Len(c.packets) + 1
    BY <1>2, <1>5, <1>7, LineLonger
  <2>2. last_dts' \in 0 .. Max(Range(MaxPackets))
    BY <1>4, <1>7, QueueFacts
  <2>3. Scalars'
    <3>1. 0 \in 0 .. LOW
      BY DEF LOW
    <3> QED
      BY <1>1, <1>2, <1>5, <1>7, <2>2, <3>1, QueueFacts DEF Scalars
  <2>4. Counts' /\ Resume'
    BY <1>2, <1>4, <1>5, <1>7 DEF IInv, Counts, Resume
  <2>5. NothingStranded'
    <3>1. NoStrandedPacket'
      <4>1. Len(c.packets) \in Nat
        BY <1>5, LenProperties
      <4> QED
        BY <1>2, <1>5, <1>7, <2>1, <4>1, QueueFacts
           DEF IInv, NothingStranded, NoStrandedPacket, Scalars
    <3>2. NoPacketAfterFree'
      BY <1>2 DEF NoPacketAfterFree
    <3> QED
      BY <3>1, <3>2 DEF NothingStranded
  <2> QED
    BY <2>1, <2>3, <2>4, <2>5, Assembled
<1> QED
  BY <1>3, <1>6, <1>7

\* Steps that leave the queue alone and put no packet in anyone's hand.
LEMMA QuietIInv ==
  ASSUME IInv, AddNothing \/ Post \/ Wake \/ TakeNone \/ SendFails \/ Signalled
               \/ EndThread \/ Stop \/ EndCapture
  PROVE  IInv'
<1>1. /\ UNCHANGED <<packets, arrived, last_sent, session, passes, min_priority, owed,
                     min_drop_dts, last_dts>>
      /\ (ppc' = ppc /\ incoming' = incoming) \/ ppc' = "idle"
      /\ (spc' = spc /\ outgoing' = outgoing) \/ spc' \notin {"send", "sendlast"}
  BY DEF AddNothing, Post, Wake, TakeNone, SendFails, Signalled, EndThread, Stop,
         EndCapture, dropVars, producerVars, senderVars, controlVars
<1>2. Line'
  BY <1>1, LineSame
<1>3. Scalars'
  <2>1. Scalars
    BY QueueFacts
  <2>2. send_sem' \in Nat
    BY <2>1 DEF Scalars, AddNothing, Post, Posted, Wake, TakeNone, SendFails, Signalled,
       EndThread, Stop, EndCapture
  <2>3. /\ disconnected' \in {disconnected, TRUE} /\ stop_event' \in {stop_event, TRUE, FALSE}
        /\ capturing' \in {capturing, FALSE} /\ ppc' \in {ppc, "idle"}
        /\ spc' \in {spc, "flush", "take", "wait", "closing", "reset", "ended"}
    BY Zenon DEF AddNothing, Post, Wake, TakeNone, SendFails, Signalled, EndThread, Stop,
       EndCapture, producerVars, senderVars, controlVars
  <2> QED
    BY <1>1, <2>1, <2>2, <2>3 DEF Scalars
<1>4. Counts' /\ Resume'
  <2>1. ~capturing' => ppc' = "idle"
    BY DEF IInv, Counts, AddNothing, Post, Wake, TakeNone, SendFails, Signalled,
       EndThread, Stop, EndCapture, producerVars, controlVars
  <2> QED
    BY <1>1, <2>1 DEF IInv, Counts, Resume
<1>5. NoStrandedPacket'
  BY QueueFacts DEF IInv, NothingStranded, NoStrandedPacket, Scalars, AddNothing, Post,
     Posted, Wake, TakeNone, SendFails, Signalled, EndThread, Stop, EndCapture,
     producerVars, senderVars, controlVars
<1>6. NoPacketAfterFree'
  BY DEF IInv, NothingStranded, NoPacketAfterFree, AddNothing, Post, Wake, TakeNone,
     SendFails, Signalled, EndThread, Stop, EndCapture, producerVars, senderVars,
     controlVars
<1> QED
  BY <1>2, <1>3, <1>4, <1>5, <1>6, Assembled DEF NothingStranded

-----------------------------------------------------------------------------
(* The sender.                                                             *)

LEMMA TakePacketIInv ==
  ASSUME IInv, TakePacket
  PROVE  IInv'
<1> DEFINE n == Len(packets)
<1>1. /\ packets \in Seq(Packet) /\ n \in Nat /\ n > 0
      /\ packets' = Tail(packets) /\ outgoing' = packets[1]
      /\ Len(packets') = n - 1 /\ packets' \in Seq(Packet)
      /\ \A k \in 1 .. n - 1 : packets'[k] = packets[k + 1]
  <2>1. packets \in Seq(Packet) /\ packets # <<>>
    BY QueueFacts DEF TakePacket
  <2>2. n \in Nat /\ n # 0
    BY <2>1, EmptySeq, LenProperties
  <2>3. /\ Tail(packets) \in Seq(Packet) /\ Len(Tail(packets)) = n - 1
        /\ \A k \in 1 .. n - 1 : Tail(packets)[k] = packets[k + 1]
        /\ Head(packets) = packets[1]
    BY <2>1, HeadTailProperties
  <2> QED
    BY <2>1, <2>2, <2>3 DEF TakePacket
<1>2. UNCHANGED <<arrived, last_sent, ppc, incoming, session, capturing>>
  BY DEF TakePacket, producerVars, controlVars
<1>3. \A k \in 1 .. n - 1 : k + 1 \in 1 .. n /\ 1 < k + 1
  BY <1>1
<1>4. Line'
  <2>1. 1 \in 1 .. n /\ packets[1] \in Packet
    BY <1>1, QueueFacts
  <2>2. Ascending(packets)'
    <3>1. SUFFICES ASSUME NEW i \in 1 .. n - 1, NEW k \in 1 .. n - 1, k < i
                   PROVE  packets'[k].dts < packets'[i].dts
      BY <1>1 DEF Ascending
    <3>2. k + 1 < i + 1
      BY <1>1, <3>1
    <3> QED
      BY <1>1, <1>3, <3>2 DEF IInv, Line, Ascending
  <2>3. \A k \in 1 .. n - 1 : outgoing'.dts < packets'[k].dts
    BY <1>1, <1>3, <2>1 DEF IInv, Line, Ascending
  <2>4. \A k \in 1 .. n - 1 : last_sent < packets'[k].dts /\ packets'[k].dts <= arrived
    BY <1>1, <1>3 DEF IInv, Line
  <2>5. /\ outgoing' \in Packet /\ last_sent < outgoing'.dts
        /\ outgoing'.dts <= arrived
        /\ ppc = "checked" => outgoing'.dts < arrived
    BY <1>1, <2>1 DEF IInv, Line
  <2>6. ppc = "checked" => /\ incoming \in Packet
                           /\ incoming.dts = arrived /\ last_sent < arrived
                           /\ \A k \in 1 .. n - 1 : packets'[k].dts < arrived
    BY <1>1, <1>3 DEF IInv, Line
  <2> HIDE DEF n
  <2> QED
    BY <1>1, <1>2, <2>2, <2>3, <2>4, <2>5, <2>6 DEF Line
<1>5. Scalars'
  BY QueueFacts DEF Scalars, TakePacket, dropVars, producerVars, controlVars
<1>6. Counts' /\ Resume'
  BY <1>2 DEF IInv, Counts, Resume, TakePacket, dropVars
<1>7. NothingStranded'
  BY <1>1, QueueFacts DEF IInv, NothingStranded, NoStrandedPacket, NoPacketAfterFree,
     Scalars, TakePacket, producerVars
<1> QED
  BY <1>4, <1>5, <1>6, <1>7, Assembled

\* send_packet returns; the packet in hand is on the network.
LEMMA SentIInv ==
  ASSUME IInv, Send \/ ShutdownTooLong
  PROVE  IInv'
<1>1. /\ UNCHANGED <<packets, arrived, ppc, incoming, session, capturing>>
      /\ spc \in {"send", "sendlast"} /\ last_sent' = outgoing.dts
      /\ spc' \in {"wait", "flush", "closing"}
  BY DEF Send, ShutdownTooLong, producerVars, controlVars
<1>2. Line'
  <2>1. Ascending(packets)'
    BY <1>1 DEF IInv, Line, Ascending
  <2> QED
    BY <1>1, <2>1 DEF IInv, Line
<1>3. Counts'
  <2>1. last_sent' \in 0 .. arrived
    BY <1>1, QueueFacts DEF IInv, Line, Packet
  <2> QED
    BY <1>1, <2>1 DEF IInv, Counts, Send, ShutdownTooLong, dropVars
<1>4. Scalars'
  BY QueueFacts DEF Scalars, Send, ShutdownTooLong, dropVars, producerVars, controlVars
<1>5. Resume' /\ NothingStranded'
  BY <1>1 DEF IInv, Resume, NothingStranded, NoStrandedPacket, NoPacketAfterFree,
              Send, ShutdownTooLong, dropVars
<1> QED
  BY <1>2, <1>3, <1>4, <1>5, Assembled

LEMMA FreePacketsIInv ==
  ASSUME IInv, FreePackets
  PROVE  IInv'
<1>1. /\ UNCHANGED <<arrived, last_sent, ppc, incoming, outgoing, session, capturing,
                     passes, min_priority, owed, disconnected>>
      /\ packets' = packets \/ packets' = <<>>
      /\ disconnected => packets' = <<>>
      /\ spc' \in {"reset", "signal"}
  BY DEF FreePackets, dropVars, producerVars, senderVars, controlVars
<1>2. Line'
  <2>1. CASE packets' = packets
    BY <1>1, <2>1, LineSame
  <2>2. CASE packets' = <<>>
    <3>1. <<>> \in Seq(Packet) /\ Len(<<>>) = 0
      BY EmptySeq
    <3>2. 1 .. Len(<<>>) = {}
      BY <3>1
    <3>3. Ascending(<<>>)
      BY <3>2, Zenon DEF Ascending
    <3> QED
      BY <1>1, <2>2, <3>1, <3>2, <3>3, LineShorter
  <2> QED
    BY <1>1, <2>1, <2>2
<1>3. Scalars'
  BY QueueFacts DEF Scalars, FreePackets, dropVars, producerVars, controlVars
<1>4. Counts' /\ Resume'
  BY <1>1 DEF IInv, Counts, Resume
<1>5. NothingStranded'
  BY <1>1 DEF NothingStranded, NoStrandedPacket, NoPacketAfterFree
<1> QED
  BY <1>2, <1>3, <1>4, <1>5, Assembled

LEMMA ReconnectIInv ==
  ASSUME IInv, Reconnect
  PROVE  IInv'
<1>1. /\ session \in Nat \ {0} /\ session' = session + 1 /\ session < Len(MaxPackets)
      /\ ppc' = "idle" /\ packets' = <<>> /\ spc' = "wait"
      /\ Len(MaxPackets) \in Nat
  BY SendQueueAssumption, LenProperties DEF IInv, Counts, Reconnect
<1>2. session' \in 1 .. Len(MaxPackets) /\ MaxPackets[session'] \in Nat
  BY <1>1, LongestSession
<1>3. Line'
  <2>1. packets' \in Seq(Packet) /\ Len(packets') = 0
    BY <1>1, EmptySeq
  <2> QED
    BY <1>1, <2>1 DEF Line, Ascending
<1>4. Counts' /\ Resume'
  BY <1>1, <1>2 DEF Counts, Resume, Reconnect
<1>5. Scalars'
  <2>1. 0 \in 0 .. LOW /\ 0 \in 0 .. MaxPackets[session']
    BY <1>2 DEF LOW
  <2>2. Scalars
    BY QueueFacts
  <2> QED
    BY <1>1, <2>1, <2>2, Zenon DEF Scalars, Reconnect
<1>6. NothingStranded'
  <2>1. Len(packets') = 0
    BY <1>1, EmptySeq
  <2> QED
    BY <1>1, <2>1 DEF NothingStranded, NoStrandedPacket, NoPacketAfterFree, Reconnect
<1> QED
  BY <1>3, <1>4, <1>5, <1>6, Assembled

LEMMA InitIInv == Init => IInv
<1>1. SUFFICES ASSUME Init PROVE IInv
  OBVIOUS
<1>2. /\ packets \in Seq(Packet) /\ Len(packets) = 0 /\ DOMAIN packets = {}
  BY <1>1, EmptySeq DEF Init
<1>3. 1 \in 1 .. Len(MaxPackets)
  BY SendQueueAssumption, EmptySeq, LenProperties
<1>4. MaxPackets[1] \in Nat /\ Max(Range(MaxPackets)) \in Nat
  BY <1>3, LongestSession
<1>5. /\ 0 \in 0 .. LOW /\ 0 \in 0 .. MaxPackets[1] /\ 0 \in 0 .. Max(Range(MaxPackets))
      /\ 0 \in Nat /\ 0 \in 0 .. 0
  BY <1>4 DEF LOW
<1>6. TypeOK
  BY <1>1, <1>2, <1>5, Zenon DEF Init, TypeOK
<1>7. Counts /\ Resume
  BY <1>1, <1>3, <1>5 DEF Init, Counts, Resume
<1>8. Line
  BY <1>1, <1>2 DEF Init, Line, Ascending
<1>9. NothingStranded
  BY <1>1, <1>2 DEF Init, NothingStranded, NoStrandedPacket, NoPacketAfterFree
<1> QED
  BY <1>6, <1>7, <1>8, <1>9 DEF IInv

LEMMA NextIInv == IInv /\ [Next]_vars => IInv'
<1>1. SUFFICES ASSUME IInv, [Next]_vars PROVE IInv'
  OBVIOUS
<1>2. CASE UNCHANGED vars
  BY <1>1, <1>2 DEF vars, dropVars, producerVars, senderVars, controlVars, IInv, TypeOK,
     Counts, Line, Ascending, NothingStranded, NoStrandedPacket, NoPacketAfterFree, Resume
<1>3. CASE Next
  BY <1>1, <1>2, <1>3, ArriveIInv, AddAudioIInv, AddVideoIInv, QuietIInv,
     TakePacketIInv, SentIInv, FreePacketsIInv, ReconnectIInv
     DEF Next, Producer, Sender, Control, Ended
<1> QED
  BY <1>1, <1>2, <1>3

-----------------------------------------------------------------------------
(* Theorems.                                                               *)

\* The inductive invariant holds for any kinds, threshold and sessions.
THEOREM QueueConsistent == Spec => []IInv
  BY InitIInv, NextIInv, PTL DEF Spec

\* Every variable stays within its type.
THEOREM TypeCorrect == Spec => []TypeOK
<1>1. IInv => TypeOK
  BY DEF IInv
<1> QED
  BY <1>1, QueueConsistent, PTL

\* No packet waits for a post, and none is queued behind free_packets.
THEOREM NothingStrandedHolds == Spec => []NothingStranded
<1>1. IInv => NothingStranded
  BY DEF IInv
<1> QED
  BY <1>1, QueueConsistent, PTL

\* What the sender holds, the queue and what the producer holds, one behind the
\* other: the places of the three in the line of OrderKept.
LEMMA InOrder ==
  ASSUME IInv
  PROVE  OrderKept
<1> DEFINE before == IF spc \in {"send", "sendlast"} THEN <<outgoing>> ELSE <<>>
           behind == IF ppc = "checked" THEN <<incoming>> ELSE <<>>
           line   == before \o packets \o behind
           n == Len(packets)
           b == Len(before)
           t == Len(behind)
<1>1. /\ before \in Seq(Packet) /\ b \in 0 .. 1
      /\ b = 1 => spc \in {"send", "sendlast"} /\ before[1] = outgoing
  BY EmptySeq DEF IInv, Line
<1>2. /\ behind \in Seq(Packet) /\ t \in 0 .. 1
      /\ t = 1 => ppc = "checked" /\ behind[1] = incoming
  BY EmptySeq DEF IInv, Line
<1>3. packets \in Seq(Packet) /\ n \in Nat
  BY QueueFacts
<1> HIDE DEF before, behind
<1>4. /\ before \o packets \in Seq(Packet) /\ Len(before \o packets) = b + n
      /\ \A i \in 1 .. b + n : (before \o packets)[i] = IF i <= b THEN before[i]
                                                                    ELSE packets[i - b]
  BY <1>1, <1>3, ConcatProperties
<1>5. /\ line \in Seq(Packet) /\ Len(line) = b + n + t
      /\ \A i \in 1 .. b + n + t : line[i] = IF i <= b + n THEN (before \o packets)[i]
                                                       ELSE behind[i - (b + n)]
  BY <1>1, <1>2, <1>3, <1>4, ConcatProperties
<1>6. DOMAIN line = 1 .. b + n + t
  BY <1>5, LenProperties
<1> HIDE DEF line, n, b, t
<1>7. ASSUME NEW i \in 1 .. b + n + t
      PROVE  \/ i = 1 /\ b = 1 /\ line[i] = outgoing /\ spc \in {"send", "sendlast"}
             \/ i - b \in 1 .. n /\ line[i] = packets[i - b]
             \/ i = b + n + 1 /\ t = 1 /\ line[i] = incoming /\ ppc = "checked"
  <2>1. CASE i <= b
    BY <1>1, <1>2, <1>3, <1>4, <1>5, <2>1
  <2>2. CASE b < i /\ i <= b + n
    <3>1. i \in 1 .. b + n /\ ~(i <= b) /\ i - b \in 1 .. n
      <4>1. b \in Int /\ n \in Int /\ t \in Int
        BY <1>1, <1>2, <1>3
      <4>2. i \in Int /\ 1 <= i
        BY <4>1
      <4> QED
        BY <2>2, <4>1, <4>2
    <3>2. line[i] = (before \o packets)[i]
      BY <1>5, <2>2
    <3>3. (before \o packets)[i] = packets[i - b]
      BY <1>4, <3>1
    <3> QED
      BY <3>1, <3>2, <3>3
  <2>3. CASE b + n < i
    <3>1. i = b + n + 1 /\ t = 1 /\ i - (b + n) = 1 /\ ~(i <= b + n)
      BY <1>1, <1>2, <1>3, <2>3
    <3> QED
      BY <1>2, <1>5, <3>1
  <2> QED
    BY <1>1, <1>3, <2>1, <2>2, <2>3
<1>8. ASSUME NEW i \in 1 .. b + n + t PROVE last_sent < line[i].dts
  BY <1>7, <1>8, QueueFacts DEF IInv, Line, n
<1>9. ASSUME NEW i \in 1 .. b + n + t, NEW k \in 1 .. b + n + t, k < i
      PROVE  line[k].dts < line[i].dts
  <2>1. CASE i = 1 /\ b = 1
    BY <1>9, <2>1
  <2>2. CASE i - b \in 1 .. n /\ line[i] = packets[i - b]
    <3>1. CASE k = 1 /\ b = 1 /\ line[k] = outgoing /\ spc \in {"send", "sendlast"}
      BY <2>2, <3>1 DEF IInv, Line, n
    <3>2. CASE k - b \in 1 .. n /\ line[k] = packets[k - b]
      <4>1. k - b < i - b
        BY <1>1, <1>9 DEF b
      <4> QED
        BY <2>2, <3>2, <4>1 DEF IInv, Line, Ascending, n
    <3> QED
      BY <1>1, <1>3, <1>7, <1>9, <2>2, <3>1, <3>2
  <2>3. CASE i = b + n + 1 /\ t = 1 /\ line[i] = incoming /\ ppc = "checked"
    BY <1>1, <1>3, <1>7, <1>9, <2>3, QueueFacts DEF IInv, Line, n
  <2> QED
    BY <1>7, <1>9, <2>1, <2>2, <2>3
<1> HIDE DEF line
<1> QED
  BY <1>6, <1>8, <1>9 DEF OrderKept, line, before, behind

\* A drop pass is not the only way out of the queue: packets are taken, and
\* freed when the connection is lost.
LEMMA EssentialStays ==
  ASSUME IInv, [Next]_vars, ~disconnected, session' = session,
         NEW p \in Range(packets), Essential(p)
  PROVE  p \in Range(packets') \/ outgoing' = p \/ disconnected'
<1>1. PICK i \in 1 .. Len(packets) : p = packets[i]
  BY QueueFacts, LenProperties DEF Range
<1>2. CASE packets' = packets
  BY <1>2
<1>3. CASE AddAudio
  <2>1. incoming \in Packet
    BY <1>3 DEF IInv, Line, AddAudio
  <2>2. /\ packets' \in Seq(Packet) /\ Len(packets') = Len(packets) + 1
        /\ \A k \in 1 .. Len(packets) : packets'[k] = packets[k]
    BY <1>3, <2>1, QueueFacts, AppendProperties DEF AddAudio
  <2>3. i \in 1 .. Len(packets') /\ DOMAIN packets' = 1 .. Len(packets')
    BY <2>2, QueueFacts, LenProperties
  <2> QED
    BY <1>1, <2>2, <2>3 DEF Range
<1>4. CASE AddVideo
  <2> DEFINE q == Checked.packets
  <2>1. TakenFromQueue(q)
    BY CheckedIs
  <2>2. incoming \in Packet
    BY <1>4 DEF IInv, Line, AddVideo
  <2>3. packets' = q \/ packets' = Append(q, incoming)
    BY <1>4 DEF AddVideo
  <2> HIDE DEF q
  <2>4. q \in Seq(Packet) /\ Len(q) \in Nat
    BY <2>1, LenProperties DEF TakenFromQueue
  <2>5. PICK k \in 1 .. Len(q) : q[k] = p
    BY <1>1, <2>1 DEF TakenFromQueue
  <2>6. k \in DOMAIN packets' /\ packets'[k] = p
    <3>1. CASE packets' = q
      BY <2>4, <2>5, <3>1, LenProperties
    <3>2. CASE packets' = Append(q, incoming)
      <4>1. /\ packets' \in Seq(Packet) /\ Len(packets') = Len(q) + 1
            /\ \A j \in 1 .. Len(q) : packets'[j] = q[j]
        BY <2>2, <2>4, <3>2, AppendProperties
      <4>2. k \in 1 .. Len(packets') /\ DOMAIN packets' = 1 .. Len(packets')
        BY <2>4, <4>1, LenProperties
      <4> QED
        BY <2>5, <4>1, <4>2
    <3> QED
      BY <2>3, <3>1, <3>2
  <2> QED
    BY <2>6 DEF Range
<1>5. CASE TakePacket
  <2>1. /\ packets \in Seq(Packet) /\ packets # <<>> /\ Len(packets) \in Nat
        /\ packets' = Tail(packets) /\ outgoing' = Head(packets)
    BY <1>5, QueueFacts DEF TakePacket
  <2>2. /\ packets' \in Seq(Packet) /\ Len(packets') = Len(packets) - 1
        /\ \A k \in 1 .. Len(packets) - 1 : packets'[k] = packets[k + 1]
        /\ outgoing' = packets[1]
    BY <2>1, HeadTailProperties
  <2>3. CASE i = 1
    BY <1>1, <2>2, <2>3
  <2>4. CASE i # 1
    <3>1. i - 1 \in 1 .. Len(packets) - 1 /\ (i - 1) + 1 = i
      BY <2>1, <2>4
    <3>2. packets'[i - 1] = p
      BY <1>1, <2>2, <3>1
    <3>3. i - 1 \in DOMAIN packets'
      BY <2>2, <3>1, LenProperties
    <3> QED
      BY <3>2, <3>3 DEF Range
  <2> QED
    BY <2>3, <2>4
<1>6. packets' = packets \/ AddAudio \/ AddVideo \/ TakePacket
  <2>1. ~Reconnect
    <3>1. session \in Nat
      BY SendQueueAssumption, LenProperties DEF IInv, Counts
    <3> QED
      BY <3>1 DEF Reconnect
  <2> QED
    BY <2>1 DEF Next, Producer, Sender, Control, Arrive, AddNothing, Post, Wake, TakeNone,
       Send, SendFails, ShutdownTooLong, FreePackets, Signalled, EndThread, Stop,
       EndCapture, Ended, vars
<1> QED
  BY <1>2, <1>3, <1>4, <1>5, <1>6

\* A frame queued after one drop pass has the priority that what was lost before
\* it calls for.
LEMMA ResumesAt ==
  ASSUME IInv, AddVideo, ppc' = "added", passes' <= 1
  PROVE  incoming.kind >= Checked.owed
<1>1. /\ Checked.priority \in 0 .. LOW /\ Checked.owed \in 0 .. LOW
      /\ Congested /\ passes = 0 => Checked.owed <= Checked.priority
      /\ ~Congested => Checked.priority = min_priority /\ Checked.owed = owed
  BY CheckedIs
<1>2. incoming.kind \in Int /\ passes \in Nat
  <2>1. incoming \in Packet
    BY DEF IInv, Line, AddVideo
  <2>2. incoming.kind \in -1 .. 3
    BY <2>1, SendQueueAssumption DEF Packet
  <2> QED
    BY <2>2 DEF IInv, Counts
<1>3. ~(incoming.kind < Checked.priority)
  BY DEF AddVideo
<1>4. Checked.owed <= Checked.priority
  <2>1. passes' = IF Congested THEN passes + 1 ELSE passes
    BY DEF AddVideo
  <2> QED
    BY <1>1, <1>2, <2>1 DEF IInv, Resume
<1> QED
  BY <1>1, <1>2, <1>3, <1>4 DEF LOW

\* Dropping under congestion does no more than it may.
THEOREM DropsAreOrderlyHolds == Spec => DropsAreOrderly
<1>1. IInv => OrderKept
  BY InOrder
<1>2. IInv /\ [Next]_vars
        => [~disconnected /\ session' = session =>
              \A p \in Range(packets) :
                Essential(p) => p \in Range(packets') \/ outgoing' = p \/ disconnected']_vars
  BY EssentialStays
<1>3. IInv /\ [Next]_vars
        => [AddVideo /\ ppc' = "added" /\ passes' <= 1 =>
              incoming.kind >= Checked.owed]_vars
  BY ResumesAt
<1> QED
  BY <1>1, <1>2, <1>3, QueueConsistent, PTL
     DEF Spec, DropsAreOrderly, EssentialKept, ResumePriority

-----------------------------------------------------------------------------
(* The interleaver: the inductive invariant.                               *)

\* A packet in the buffer, and the packets of a buffer.
Buffered == [stream : Streams, dts : Nat, key : BOOLEAN, ts : Int]
Held(q)  == {q[i] : i \in 1 .. Len(q)}

\* In the order of time, and each stream in the order of its packets.
Sorted(q)  == \A i, j \in 1 .. Len(q) : i < j => q[i].ts <= q[j].ts
Ordered(q) ==
  \A i, j \in 1 .. Len(q) :
    i < j /\ q[i].stream = q[j].stream => q[i].dts < q[j].dts

\* No packet of a stream is missing between one of E and the next one that the
\* encoder delivers, whose number is n[s].
Complete(E, n) ==
  \A x \in E :
    /\ x.dts < n[x.stream]
    /\ \A d \in Nat : x.dts < d /\ d < n[x.stream] =>
         \E y \in E : y.stream = x.stream /\ y.dts = d

\* Packet 0 of stream s would have the time b[s].
TimeAt(b, s, d) == b[s] + d * Duration(s)
Timed(E, b)     == \A x \in E : x.ts = TimeAt(b, x.stream, x.dts)

Zeros == [s \in Streams |-> IF Started THEN -(offset[s] * Duration(s)) ELSE origin[s]]

Lacks(E, s) == \A x \in E : x.stream # s

\* The first packet of video is a keyframe.
KeyFirst(E) ==
  \A x \in E :
    /\ x.stream = Video
    /\ \A y \in E : y.stream = Video => x.dts <= y.dts
    => x.key

InterleaveTyped ==
  /\ interleaved_packets \in Seq(Buffered)
  /\ received_audio \in BOOLEAN /\ received_video \in BOOLEAN
  /\ highest_audio_ts \in Int /\ highest_video_ts \in Int
  /\ offset \in [Streams -> 0 .. MaxDts]
  /\ stopped \in BOOLEAN /\ late \in BOOLEAN
  /\ origin \in [Streams -> Nat] /\ next \in [Streams -> 0 .. MaxDts]
  /\ out \in [stream : Streams, dts : Int, key : BOOLEAN, ts : Int]
  /\ sent \in [Streams -> -1 .. MaxDts]

\* What is in the buffer.
Buffer ==
  /\ Sorted(interleaved_packets) /\ Ordered(interleaved_packets)
  /\ Complete(Held(interleaved_packets), next)
  /\ Timed(Held(interleaved_packets), Zeros)

\* Before the start.
Collecting ==
  ~Started =>
    /\ out = NoPacket /\ sent = [s \in Streams |-> -1]
    /\ ~received_video <=> Lacks(Held(interleaved_packets), Video)
    /\ NumTracks = 1 /\ ~received_audio => Lacks(Held(interleaved_packets), 0)
    /\ ~late => KeyFirst(Held(interleaved_packets))

\* The next packet of stream s to send.
ToSend(s, off, snt) == IF snt[s] = -1 THEN off[s] ELSE snt[s] + 1

\* What waits are the packets that are to be sent next, and those behind them.
Flows(E, n, off, snt, lt) ==
  /\ \A s \in Streams :
       /\ off[s] < n[s]
       /\ off[s] <= ToSend(s, off, snt) /\ ToSend(s, off, snt) <= n[s]
       /\ ToSend(s, off, snt) < n[s] =>
            \E x \in E : x.stream = s /\ x.dts = ToSend(s, off, snt)
  /\ \A x \in E : ToSend(x.stream, off, snt) <= x.dts
  /\ ~lt => \A x \in E : x.stream = Video /\ x.dts = off[Video] => x.key

\* Nothing that is still to be sent is earlier than what was sent last.
Passed(E, n, b, o) ==
  /\ \A x \in E : o.ts <= x.ts
  /\ \A s \in Streams : o.ts <= TimeAt(b, s, n[s])

Flowing ==
  Started /\ ~stopped =>
    /\ Flows(Held(interleaved_packets), next, offset, sent, late)
    /\ NumTracks = 1 => Passed(Held(interleaved_packets), next, Zeros, out)

\* The highest times are not ahead of the encoders.
Ahead(n, b, audio_ts, video_ts) ==
  /\ video_ts <= TimeAt(b, Video, n[Video])
  /\ NumTracks = 1 => audio_ts <= TimeAt(b, 0, n[0])

HighestTimes == Ahead(next, Zeros, highest_audio_ts, highest_video_ts)

\* An encoder is ahead of another by no more than MaxLead.
Together(n, b) ==
  \A s, t \in Streams :
    n[s] # 0 => TimeAt(b, s, n[s] - 1) <= TimeAt(b, t, n[t]) + MaxLead

Lead == Together(next, origin)

InterleaveInv ==
  /\ InterleaveTyped
  /\ Buffer /\ Collecting /\ Flowing /\ HighestTimes /\ Lead
  /\ NumTracks = 1 => InSync

-----------------------------------------------------------------------------
(* Times.                                                                  *)

\* The assumptions on the constants, and that a packet takes time.
LEMMA InterleaveConstants ==
  /\ NumTracks \in Nat \ {0} /\ MaxLead \in Nat /\ MaxDts \in Nat
  /\ Origins \subseteq [Streams -> Nat]
  /\ VideoDuration \in Nat \ {0} /\ AudioDuration \in Nat \ {0}
  /\ \A s : Duration(s) \in Nat \ {0}
BY InterleaveAssumption DEF InterleaveAssumption, Duration

\* Video and the first track are streams, and with one track the only ones.
LEMMA StreamsAre ==
  /\ Video \in Streams /\ 0 \in Streams /\ 0 # Video
  /\ NumTracks - 1 \in Streams /\ NumTracks - 1 # Video
  /\ NumTracks = 1 => \A s \in Streams : s = Video \/ s = 0
BY InterleaveConstants DEF Streams, Tracks, Video

\* A later packet of a stream has a later time, by its duration at least.
LEMMA Times ==
  ASSUME NEW b \in [Streams -> Int], NEW s \in Streams, NEW d \in Int, NEW e \in Int
  PROVE  /\ TimeAt(b, s, d) \in Int
         /\ TimeAt(b, s, d + 1) = TimeAt(b, s, d) + Duration(s)
         /\ d < e => TimeAt(b, s, d) + Duration(s) <= TimeAt(b, s, e)
         /\ TimeAt(b, s, d) < TimeAt(b, s, e) => d < e
         /\ Duration(s) \in Nat \ {0}
<1> DEFINE D == Duration(s)
<1>1. D \in Nat \ {0} /\ b[s] \in Int
  BY InterleaveConstants
<1> HIDE DEF D
<1>2. d * D \in Int /\ e * D \in Int
  BY <1>1
<1>3. (d + 1) * D = d * D + D
  BY <1>1
<1>4. ASSUME d < e PROVE d * D + D <= e * D
  <2>1. PICK k \in Nat : e = d + 1 + k
    <3>1. e - d - 1 \in Nat /\ e = d + 1 + (e - d - 1)
      BY <1>4
    <3> QED
      BY <3>1
  <2>2. e * D = d * D + D + k * D /\ k * D \in Nat
    BY <1>1, <2>1
  <2> QED
    BY <1>1, <1>2, <2>2
<1>5. ASSUME ~(d < e) PROVE e * D <= d * D
  <2>1. PICK k \in Nat : d = e + k
    <3>1. d - e \in Nat /\ d = e + (d - e)
      BY <1>5
    <3> QED
      BY <3>1
  <2>2. d * D = e * D + k * D /\ k * D \in Nat
    BY <1>1, <2>1
  <2> QED
    BY <1>1, <1>2, <2>2
<1> DEFINE x == d * D
           y == e * D
<1>6. TimeAt(b, s, d) = b[s] + x /\ TimeAt(b, s, e) = b[s] + y
      /\ TimeAt(b, s, d + 1) = b[s] + (x + D)
  BY <1>3 DEF TimeAt, D
<1>7. x \in Int /\ y \in Int /\ (d < e => x + D <= y) /\ (~(d < e) => y <= x)
  BY <1>2, <1>4, <1>5
<1> HIDE DEF x, y
<1> QED
  BY <1>1, <1>6, <1>7 DEF D

-----------------------------------------------------------------------------
(* Sequences.                                                              *)

\* A set of numbers has a minimum.
LEMMA MinIs ==
  ASSUME NEW S, S \subseteq Nat, S # {}
  PROVE  Min(S) \in S /\ \A x \in S : Min(S) <= x
<1>1. PICK m \in S : \A x \in S : m <= x
  <2>1. \E m \in S : \A x \in S : m <= x
    BY LeastNumber
  <2> QED
    BY <2>1
<1> QED
  BY <1>1, Zenon DEF Min

\* The elements of a buffer.
LEMMA ElementsAre ==
  ASSUME NEW q \in Seq(Buffered)
  PROVE  /\ Len(q) \in Nat /\ DOMAIN q = 1 .. Len(q)
         /\ \A i \in 1 .. Len(q) :
              /\ q[i] \in Buffered /\ q[i].stream \in Streams /\ q[i].dts \in Nat
              /\ q[i].ts \in Int /\ q[i].key \in BOOLEAN
<1>1. Len(q) \in Nat /\ DOMAIN q = 1 .. Len(q) /\ \A i \in 1 .. Len(q) : q[i] \in Buffered
  BY LenProperties, ElementOfSeq
<1> QED
  BY <1>1 DEF Buffered

\* r is q with p inserted at place at.
InsertedAt(r, q, p, at) ==
  /\ r \in Seq(Buffered) /\ Len(r) = Len(q) + 1
  /\ at \in 1 .. Len(q) + 1 /\ r[at] = p
  /\ \A i \in 1 .. Len(q) :
       /\ i < at => r[i] = q[i] /\ q[i].ts <= p.ts
       /\ at <= i => r[i + 1] = q[i] /\ p.ts < q[i].ts

\* insert_interleaved_packet puts the packet before the first later one.
LEMMA InsertIs ==
  ASSUME NEW q \in Seq(Buffered), Sorted(q), NEW p \in Buffered
  PROVE  \E at : InsertedAt(Insert(q, p), q, p, at)
<1> DEFINE later == {i \in 1 .. Len(q) : p.ts < q[i].ts}
           at    == Min(later \cup {Len(q) + 1})
           r     == Insert(q, p)
<1>1. /\ Len(q) \in Nat /\ DOMAIN q = 1 .. Len(q)
      /\ \A i \in 1 .. Len(q) : q[i] \in Buffered /\ q[i].ts \in Int
  BY ElementsAre
<1>2. p.ts \in Int
  BY DEF Buffered
<1>3. at \in later \cup {Len(q) + 1} /\ \A x \in later \cup {Len(q) + 1} : at <= x
  <2>1. later \cup {Len(q) + 1} \subseteq Nat /\ later \cup {Len(q) + 1} # {}
    BY <1>1
  <2> HIDE DEF later
  <2> QED
    BY <2>1, MinIs
<1>4. at \in 1 .. Len(q) + 1
  BY <1>1, <1>3
<1>5. r = SubSeq(q, 1, at - 1) \o <<p>> \o SubSeq(q, at, Len(q))
  BY <1>1 DEF Insert, InsertAt
<1> HIDE DEF at, r
<1> DEFINE a == SubSeq(q, 1, at - 1)
           c == SubSeq(q, at, Len(q))
<1>6. a \in Seq(Buffered) /\ Len(a) = at - 1 /\ \A i \in 1 .. at - 1 : a[i] = q[i]
  <2>1. /\ a \in Seq(Buffered)
        /\ Len(a) = IF 1 <= at - 1 THEN (at - 1) - 1 + 1 ELSE 0
        /\ \A i \in 1 .. (at - 1) - 1 + 1 : a[i] = q[1 + i - 1]
    <3>1. \A i \in 1 .. at - 1 : q[i] \in Buffered
      BY <1>1, <1>4
    <3> QED
      BY <1>1, <1>4, <3>1, SubSeqProperties
  <2> QED
    BY <1>4, <2>1
<1>7. /\ c \in Seq(Buffered) /\ Len(c) = Len(q) - at + 1
      /\ \A i \in 1 .. Len(q) - at + 1 : c[i] = q[at + i - 1]
  <2>1. /\ c \in Seq(Buffered)
        /\ Len(c) = IF at <= Len(q) THEN Len(q) - at + 1 ELSE 0
        /\ \A i \in 1 .. Len(q) - at + 1 : c[i] = q[at + i - 1]
    <3>1. \A i \in at .. Len(q) : q[i] \in Buffered
      BY <1>1, <1>4
    <3> QED
      BY <1>1, <1>4, <3>1, SubSeqProperties
  <2> QED
    BY <1>1, <1>4, <2>1
<1> HIDE DEF a, c
<1>8. <<p>> \in Seq(Buffered) /\ Len(<<p>>) = 1 /\ <<p>>[1] = p
  OBVIOUS
<1> DEFINE one == <<p>>
<1> HIDE DEF one
<1>9. /\ a \o one \in Seq(Buffered) /\ Len(a \o one) = at
      /\ \A i \in 1 .. at - 1 : (a \o one)[i] = q[i]
      /\ (a \o one)[at] = p
  <2>1. /\ a \o one \in Seq(Buffered) /\ Len(a \o one) = Len(a) + Len(one)
        /\ \A i \in 1 .. Len(a) + Len(one) : (a \o one)[i] =
             IF i <= Len(a) THEN a[i] ELSE one[i - Len(a)]
    BY <1>6, <1>8, ConcatProperties DEF one
  <2>2. Len(one) = 1 /\ one[1] = p
    BY <1>8 DEF one
  <2>3. Len(a) + Len(one) = at /\ at - (at - 1) = 1 /\ ~(at <= at - 1)
    BY <1>4, <1>6, <2>2
  <2>4. (a \o one)[at] = p
    <3>1. at \in 1 .. Len(a) + Len(one) /\ ~(at <= Len(a)) /\ at - Len(a) = 1
      BY <1>4, <1>6, <2>3
    <3> QED
      BY <2>1, <2>2, <3>1
  <2>5. ASSUME NEW i \in 1 .. at - 1 PROVE (a \o one)[i] = q[i]
    <3>1. i \in 1 .. Len(a) + Len(one) /\ i <= Len(a)
      BY <1>4, <1>6, <2>3
    <3> QED
      BY <1>6, <2>1, <3>1
  <2> QED
    BY <2>1, <2>3, <2>4, <2>5
<1> DEFINE ap == a \o one
<1>10. r = ap \o c
  BY <1>5 DEF a, c, one
<1> HIDE DEF ap
<1>16. ap \in Seq(Buffered)
  BY <1>9 DEF ap
<1>11. /\ r \in Seq(Buffered) /\ Len(r) = Len(q) + 1
       /\ \A i \in 1 .. Len(q) + 1 : r[i] = IF i <= at THEN ap[i] ELSE c[i - at]
  <2>1. /\ ap \o c \in Seq(Buffered) /\ Len(ap \o c) = Len(ap) + Len(c)
        /\ \A i \in 1 .. Len(ap) + Len(c) : (ap \o c)[i] =
             IF i <= Len(ap) THEN ap[i] ELSE c[i - Len(ap)]
    BY <1>7, <1>16, ConcatProperties
  <2>2. Len(ap) = at /\ Len(ap) + Len(c) = Len(q) + 1
    BY <1>1, <1>4, <1>7, <1>9 DEF ap
  <2> QED
    BY <1>10, <2>1, <2>2
<1>12. r[at] = p
  BY <1>1, <1>4, <1>9, <1>11 DEF ap
<1>13. ASSUME NEW i \in 1 .. Len(q), i < at PROVE r[i] = q[i] /\ q[i].ts <= p.ts
  <2>1. i \in 1 .. Len(q) + 1 /\ i <= at /\ i \in 1 .. at - 1
    BY <1>1, <1>4, <1>13
  <2>2. i \notin later
    BY <1>3, <1>4, <1>13
  <2>3. q[i].ts <= p.ts
    BY <1>1, <1>2, <2>2
  <2>4. r[i] = ap[i] /\ ap[i] = q[i]
    BY <1>9, <1>11, <2>1 DEF ap
  <2> QED
    BY <2>3, <2>4
<1>14. ASSUME NEW i \in 1 .. Len(q), at <= i PROVE r[i + 1] = q[i] /\ p.ts < q[i].ts
  <2>1. /\ i + 1 \in 1 .. Len(q) + 1 /\ ~(i + 1 <= at)
        /\ (i + 1) - at \in 1 .. Len(q) - at + 1
        /\ at + ((i + 1) - at) - 1 = i
    BY <1>1, <1>4, <1>14
  <2>2. r[i + 1] = q[i]
    BY <1>7, <1>11, <2>1
  <2>3. at \in 1 .. Len(q) /\ p.ts < q[at].ts
    BY <1>1, <1>3, <1>4, <1>14
  <2>4. q[at].ts <= q[i].ts
    BY <1>1, <1>14, <2>3 DEF Sorted
  <2> QED
    BY <1>1, <1>2, <2>2, <2>3, <2>4
<1>15. InsertedAt(r, q, p, at)
  BY <1>4, <1>11, <1>12, <1>13, <1>14 DEF InsertedAt
<1> QED
  BY <1>15 DEF r

\* The packets that a buffer holds.
LEMMA HeldAre ==
  ASSUME NEW q \in Seq(Buffered)
  PROVE  /\ \A x \in Held(q) : /\ x \in Buffered /\ x.stream \in Streams /\ x.dts \in Nat
                               /\ x.ts \in Int /\ x.key \in BOOLEAN
         /\ \A i \in 1 .. Len(q) : q[i] \in Held(q)
         /\ \A x \in Held(q) : \E i \in 1 .. Len(q) : x = q[i]
BY ElementsAre DEF Held

\* A packet that is younger than those of its stream goes behind them, and the buffer
\* stays in order.
LEMMA InsertSorts ==
  ASSUME NEW q \in Seq(Buffered), Sorted(q), Ordered(q),
         NEW b \in [Streams -> Int], Timed(Held(q), b),
         NEW p \in Buffered, p.ts = TimeAt(b, p.stream, p.dts),
         \A x \in Held(q) : x.stream = p.stream => x.dts < p.dts
  PROVE  /\ Insert(q, p) \in Seq(Buffered) /\ Len(Insert(q, p)) = Len(q) + 1
         /\ Sorted(Insert(q, p)) /\ Ordered(Insert(q, p))
         /\ Held(Insert(q, p)) = Held(q) \cup {p}
         /\ Timed(Held(Insert(q, p)), b)
<1> DEFINE r == Insert(q, p)
<1>1. PICK at : InsertedAt(r, q, p, at)
  <2>1. \E at : InsertedAt(r, q, p, at)
    BY InsertIs
  <2> QED
    BY <2>1
<1> HIDE DEF r
<1>2. /\ Len(q) \in Nat /\ \A i \in 1 .. Len(q) : q[i] \in Held(q) /\ q[i].ts \in Int
      /\ at \in 1 .. Len(q) + 1 /\ p.ts \in Int /\ r \in Seq(Buffered)
      /\ Len(r) = Len(q) + 1
  BY <1>1, ElementsAre, HeldAre DEF InsertedAt, Buffered
<1> DEFINE old(k) == IF k < at THEN k ELSE k - 1
<1>3. ASSUME NEW k \in 1 .. Len(r), k # at
      PROVE  /\ old(k) \in 1 .. Len(q) /\ r[k] = q[old(k)]
             /\ k < at => q[old(k)].ts <= p.ts
             /\ at < k => p.ts < q[old(k)].ts
  <2>1. CASE k < at
    <3>1. k \in 1 .. Len(q) /\ old(k) = k
      BY <1>2, <2>1
    <3> QED
      BY <1>1, <1>2, <2>1, <3>1 DEF InsertedAt
  <2>2. CASE ~(k < at)
    <3>1. k - 1 \in 1 .. Len(q) /\ old(k) = k - 1 /\ at <= k - 1 /\ (k - 1) + 1 = k
      BY <1>2, <1>3, <2>2
    <3> QED
      BY <1>1, <1>2, <2>2, <3>1 DEF InsertedAt
  <2> QED
    BY <2>1, <2>2
<1>4. ASSUME NEW j \in 1 .. Len(r), NEW k \in 1 .. Len(r), j < k, j # at, k # at
      PROVE  old(j) < old(k)
  BY <1>2, <1>4
<1>5. r[at] = p
  BY <1>1 DEF InsertedAt
<1> HIDE DEF old
<1>6. Sorted(r)
  <2> SUFFICES ASSUME NEW j \in 1 .. Len(r), NEW k \in 1 .. Len(r), j < k
               PROVE  r[j].ts <= r[k].ts
    BY DEF Sorted
  <2>1. CASE j = at
    BY <1>2, <1>3, <1>5, <2>1
  <2>2. CASE k = at
    BY <1>2, <1>3, <1>5, <2>2
  <2>3. CASE j # at /\ k # at
    BY <1>3, <1>4, <2>3 DEF Sorted
  <2> QED
    BY <2>1, <2>2, <2>3
<1>7. Ordered(r)
  <2> SUFFICES ASSUME NEW j \in 1 .. Len(r), NEW k \in 1 .. Len(r), j < k,
                      r[j].stream = r[k].stream
               PROVE  r[j].dts < r[k].dts
    BY DEF Ordered
  <2>1. CASE j = at
    <3> DEFINE x == q[old(k)]
    <3>1. x \in Held(q) /\ r[k] = x /\ x.stream = p.stream /\ p.ts < x.ts
      BY <1>2, <1>3, <1>5, <2>1
    <3> HIDE DEF x
    <3>2. x.dts < p.dts /\ x.ts = TimeAt(b, p.stream, x.dts)
      BY <3>1 DEF Timed
    <3>3. p.stream \in Streams /\ p.dts \in Int /\ x.dts \in Int
      <4>1. p.stream \in Streams /\ p.dts \in Nat
        BY DEF Buffered
      <4>2. x.dts \in Nat
        BY <3>1, HeldAre
      <4> QED
        BY <4>1, <4>2
    <3>4. /\ TimeAt(b, p.stream, x.dts) + Duration(p.stream) <= TimeAt(b, p.stream, p.dts)
          /\ Duration(p.stream) \in Nat /\ TimeAt(b, p.stream, x.dts) \in Int
          /\ TimeAt(b, p.stream, p.dts) \in Int
      BY <3>2, <3>3, Times
    <3>5. FALSE
      BY <3>1, <3>2, <3>4
    <3> QED
      BY <3>5
  <2>2. CASE k = at
    <3>1. j # at /\ old(j) \in 1 .. Len(q) /\ r[j] = q[old(j)]
      BY <1>2, <1>3, <2>2
    <3> QED
      BY <1>2, <1>5, <2>2, <3>1
  <2>3. CASE j # at /\ k # at
    <3>1. /\ old(j) \in 1 .. Len(q) /\ old(k) \in 1 .. Len(q) /\ old(j) < old(k)
          /\ r[j] = q[old(j)] /\ r[k] = q[old(k)]
      BY <1>3, <1>4, <2>3
    <3> QED
      BY <3>1 DEF Ordered
  <2> QED
    BY <2>1, <2>2, <2>3
<1>8. Held(r) = Held(q) \cup {p}
  <2>1. ASSUME NEW x \in Held(r) PROVE x \in Held(q) \cup {p}
    <3>1. PICK k \in 1 .. Len(r) : x = r[k]
      BY DEF Held
    <3> QED
      BY <1>2, <1>3, <1>5, <3>1
  <2>2. p \in Held(r)
    <3>1. at \in 1 .. Len(r)
      BY <1>2
    <3> QED
      BY <1>5, <3>1 DEF Held
  <2>3. ASSUME NEW x \in Held(q) PROVE x \in Held(r)
    <3>1. PICK i \in 1 .. Len(q) : x = q[i]
      BY DEF Held
    <3>2. i \in 1 .. Len(r) /\ i + 1 \in 1 .. Len(r)
      BY <1>2
    <3>3. r[i] = x \/ r[i + 1] = x
      <4>1. i < at \/ at <= i
        BY <1>2
      <4> QED
        BY <1>1, <3>1, <4>1 DEF InsertedAt
    <3> QED
      BY <3>2, <3>3 DEF Held
  <2> QED
    BY <2>1, <2>2, <2>3
<1>9. Timed(Held(r), b)
  BY <1>8 DEF Timed
<1> QED
  BY <1>2, <1>6, <1>7, <1>8, <1>9 DEF r

\* r is the buffer q from place k on.
SuffixFrom(r, q, k) ==
  /\ r \in Seq(Buffered) /\ Len(r) = Len(q) - k + 1
  /\ \A i \in 1 .. Len(r) : r[i] = q[k + i - 1] /\ k + i - 1 \in 1 .. Len(q)
  /\ \A i \in k .. Len(q) : q[i] \in Held(r)
  /\ \A x \in Held(r) : \E i \in k .. Len(q) : x = q[i]
  /\ Held(r) \subseteq Held(q)

\* SubSeq up to the end is what lies from a place on.
LEMMA SuffixIs ==
  ASSUME NEW q \in Seq(Buffered), NEW k \in 1 .. Len(q) + 1
  PROVE  SuffixFrom(SubSeq(q, k, Len(q)), q, k)
<1> DEFINE r == SubSeq(q, k, Len(q))
<1>1. Len(q) \in Nat /\ \A i \in 1 .. Len(q) : q[i] \in Buffered
  BY ElementsAre
<1>2. /\ r \in Seq(Buffered)
      /\ Len(r) = IF k <= Len(q) THEN Len(q) - k + 1 ELSE 0
      /\ \A i \in 1 .. Len(q) - k + 1 : r[i] = q[k + i - 1]
  <2>1. \A i \in k .. Len(q) : q[i] \in Buffered
    BY <1>1
  <2> QED
    BY <1>1, <2>1, SubSeqProperties
<1> HIDE DEF r
<1>3. Len(r) = Len(q) - k + 1
  BY <1>1, <1>2
<1>4. \A i \in 1 .. Len(r) : r[i] = q[k + i - 1] /\ k + i - 1 \in k .. Len(q)
                            /\ k + i - 1 \in 1 .. Len(q)
  <2>1. ASSUME NEW i \in 1 .. Len(q) - k + 1
        PROVE  k + i - 1 \in k .. Len(q) /\ k + i - 1 \in 1 .. Len(q)
    BY <1>1
  <2> QED
    BY <1>2, <1>3, <2>1
<1>5. ASSUME NEW i \in k .. Len(q) PROVE q[i] \in Held(r)
  <2>1. i - k + 1 \in 1 .. Len(r) /\ k + (i - k + 1) - 1 = i
    BY <1>1, <1>3
  <2> QED
    BY <1>4, <2>1 DEF Held
<1>6. ASSUME NEW x \in Held(r) PROVE \E i \in k .. Len(q) : x = q[i]
  BY <1>4 DEF Held
<1>7. Held(r) \subseteq Held(q)
  <2>1. \A i \in k .. Len(q) : i \in 1 .. Len(q)
    BY <1>1
  <2> QED
    BY <1>6, <2>1 DEF Held
<1> QED
  BY <1>2, <1>3, <1>4, <1>5, <1>6, <1>7 DEF SuffixFrom, r

\* What is in front goes without leaving a gap.
LEMMA SuffixKeeps ==
  ASSUME NEW q \in Seq(Buffered), NEW k \in 1 .. Len(q) + 1,
         NEW n \in [Streams -> Nat], NEW r, SuffixFrom(r, q, k),
         Ordered(q), Complete(Held(q), n)
  PROVE  /\ Sorted(q) => Sorted(r)
         /\ Ordered(r) /\ Complete(Held(r), n)
<1>1. /\ r \in Seq(Buffered) /\ Len(r) = Len(q) - k + 1
      /\ \A i \in 1 .. Len(r) : r[i] = q[k + i - 1] /\ k + i - 1 \in 1 .. Len(q)
      /\ \A i \in k .. Len(q) : q[i] \in Held(r)
      /\ \A x \in Held(r) : \E i \in k .. Len(q) : x = q[i]
      /\ Held(r) \subseteq Held(q)
  BY DEF SuffixFrom
<1>2. Len(q) \in Nat /\ \A i, j \in Nat : i < j => k + i - 1 < k + j - 1
  BY ElementsAre
<1>3. \A i, j \in 1 .. Len(r) : i < j => k + i - 1 < k + j - 1
  BY <1>1, <1>2
<1>4. Sorted(q) => Sorted(r)
  BY <1>1, <1>3 DEF Sorted
<1>5. Ordered(r)
  <2> SUFFICES ASSUME NEW i \in 1 .. Len(r), NEW j \in 1 .. Len(r), i < j,
                      r[i].stream = r[j].stream
               PROVE  r[i].dts < r[j].dts
    BY DEF Ordered
  <2> DEFINE ki == k + i - 1
             kj == k + j - 1
  <2>1. /\ ki \in 1 .. Len(q) /\ kj \in 1 .. Len(q) /\ ki < kj
        /\ r[i] = q[ki] /\ r[j] = q[kj]
    BY <1>1, <1>3
  <2> HIDE DEF ki, kj
  <2> QED
    BY <2>1 DEF Ordered
<1>6. Complete(Held(r), n)
  <2> SUFFICES ASSUME NEW x \in Held(r)
               PROVE  /\ x.dts < n[x.stream]
                      /\ \A d \in Nat : x.dts < d /\ d < n[x.stream] =>
                           \E y \in Held(r) : y.stream = x.stream /\ y.dts = d
    BY DEF Complete
  <2>1. x \in Held(q) /\ x.dts < n[x.stream]
    BY <1>1 DEF Complete
  <2>2. ASSUME NEW d \in Nat, x.dts < d, d < n[x.stream]
        PROVE  \E y \in Held(r) : y.stream = x.stream /\ y.dts = d
    <3>1. PICK y \in Held(q) : y.stream = x.stream /\ y.dts = d
      BY <2>1, <2>2 DEF Complete
    <3>2. PICK i \in k .. Len(q) : x = q[i]
      BY <1>1
    <3>3. PICK j \in 1 .. Len(q) : y = q[j]
      BY DEF Held
    <3>4. i \in 1 .. Len(q) /\ q[i].dts \in Nat /\ q[j].dts \in Nat
      BY <1>2, ElementsAre
    <3>5. ~(j < i)
      BY <2>2, <3>1, <3>2, <3>3, <3>4 DEF Ordered
    <3>6. j \in k .. Len(q)
      BY <1>2, <3>4, <3>5
    <3> QED
      BY <1>1, <3>1, <3>3, <3>6
  <2> QED
    BY <2>1, <2>2
<1> QED
  BY <1>4, <1>5, <1>6

\* What find_first_packet_type_idx finds.
LEMMA FirstIs ==
  ASSUME NEW q \in Seq(Buffered), NEW s \in Streams
  PROVE  /\ s \in Missing(q) <=> Lacks(Held(q), s)
         /\ s \notin Missing(q) =>
              /\ FirstIdx(q, s) \in 1 .. Len(q)
              /\ First(q, s) = q[FirstIdx(q, s)] /\ First(q, s) \in Held(q)
              /\ First(q, s).stream = s
              /\ \A i \in 1 .. Len(q) : q[i].stream = s => FirstIdx(q, s) <= i
<1> DEFINE I == {i \in 1 .. Len(q) : q[i].stream = s}
<1>1. FirstIdx(q, s) = IF I # {} THEN Min(I) ELSE 0
  BY DEF FirstIdx, SelectInSeq
<1>2. I # {} => Min(I) \in I /\ \A i \in I : Min(I) <= i
  <2>1. I \subseteq Nat
    OBVIOUS
  <2> HIDE DEF I
  <2> QED
    BY <2>1, MinIs
<1>3. I = {} <=> Lacks(Held(q), s)
  BY DEF Lacks, Held
<1>4. s \in Missing(q) <=> I = {}
  BY <1>1, <1>2 DEF Missing
<1> QED
  BY <1>1, <1>2, <1>3, <1>4 DEF First, Held

\* The first packet of a stream is its oldest.
LEMMA FirstIsOldest ==
  ASSUME NEW q \in Seq(Buffered), Ordered(q), NEW s \in Streams, s \notin Missing(q)
  PROVE  \A x \in Held(q) : x.stream = s => First(q, s).dts <= x.dts
<1> SUFFICES ASSUME NEW x \in Held(q), x.stream = s PROVE First(q, s).dts <= x.dts
  OBVIOUS
<1>1. PICK i \in 1 .. Len(q) : x = q[i]
  BY DEF Held
<1> DEFINE f == FirstIdx(q, s)
<1>2. f \in 1 .. Len(q) /\ First(q, s) = q[f] /\ q[f].stream = s /\ f <= i
  BY <1>1, FirstIs
<1> HIDE DEF f
<1>3. q[f].dts \in Nat /\ q[i].dts \in Nat
  BY <1>1, <1>2, ElementsAre
<1>4. f = i \/ f < i
  BY <1>2
<1> QED
  BY <1>1, <1>2, <1>3, <1>4 DEF Ordered

\* f[n] is what Resort has made of the first n packets.
Resorts(f, q) ==
  /\ f[0] = <<>>
  /\ \A n \in 1 .. Len(q) : f[n] = Insert(f[n - 1], q[n])
  /\ Resort(q) = f[Len(q)]

\* The recursive function of Resort exists, so it obeys its definition.
LEMMA ResortPrefixes ==
  ASSUME NEW q \in Seq(Buffered)
  PROVE  \E f : Resorts(f, q)
<1> DEFINE Rule(f, n) == IF n = 0 THEN <<>> ELSE Insert(f[n - 1], q[n])
           Solved == {m \in Nat : \E f : f = [n \in 0 .. m |-> Rule(f, n)]}
<1>1. 0 \in Solved
  <2> DEFINE f == [n \in 0 .. 0 |-> <<>>]
  <2>1. f = [n \in 0 .. 0 |-> Rule(f, n)]
    OBVIOUS
  <2> QED
    BY <2>1
<1>2. ASSUME NEW m \in Nat, m \in Solved PROVE m + 1 \in Solved
  <2>1. PICK f : f = [n \in 0 .. m |-> Rule(f, n)]
    BY <1>2
  <2> DEFINE h == [n \in 0 .. m + 1 |-> IF n = m + 1 THEN Rule(f, n) ELSE f[n]]
  <2>2. ASSUME NEW n \in 0 .. m + 1 PROVE h[n] = Rule(h, n)
    <3>1. CASE n = 0
      BY <2>1, <3>1
    <3>2. CASE n # 0
      <4>1. n - 1 \in 0 .. m /\ h[n - 1] = f[n - 1]
        BY <3>2
      <4>2. h[n] = Rule(f, n)
        <5>1. CASE n = m + 1
          BY <5>1
        <5>2. CASE n # m + 1
          <6>1. n \in 0 .. m
            BY <5>2
          <6>2. f[n] = Rule(f, n)
            BY <2>1, <6>1, Zenon
          <6> QED
            BY <5>2, <6>2
        <5> QED
          BY <5>1, <5>2
      <4> QED
        BY <3>2, <4>1, <4>2
    <3> QED
      BY <3>1, <3>2
  <2>3. h = [n \in 0 .. m + 1 |-> h[n]]
    OBVIOUS
  <2> HIDE DEF h
  <2>4. h = [n \in 0 .. m + 1 |-> Rule(h, n)]
    BY <2>2, <2>3
  <2> QED
    BY <2>4
<1>3. PICK g : g = [n \in 0 .. Len(q) |-> Rule(g, n)]
  <2> HIDE DEF Solved
  <2>1. Len(q) \in Nat
    BY ElementsAre
  <2>2. Len(q) \in Solved
    BY <1>1, <1>2, <2>1, Induction
  <2> QED
    BY <2>2 DEF Solved
<1> DEFINE f == CHOOSE f : f = [n \in 0 .. Len(q) |-> Rule(f, n)]
<1>4. f = [n \in 0 .. Len(q) |-> Rule(f, n)]
  BY <1>3, Zenon
<1>5. Resort(q) = f[Len(q)]
  BY DEF Resort
<1> HIDE DEF f
<1>6. Len(q) \in Nat
  BY ElementsAre
<1>7. f[0] = <<>>
  BY <1>4, <1>6
<1>8. ASSUME NEW n \in 1 .. Len(q) PROVE f[n] = Rule(f, n)
  <2>1. n \in 0 .. Len(q)
    BY <1>6
  <2> QED
    BY <1>4, <2>1, Zenon
<1>9. ASSUME NEW n \in 1 .. Len(q) PROVE f[n] = Insert(f[n - 1], q[n])
  <2>1. n # 0
    BY <1>6
  <2> QED
    BY <1>8, <2>1, Zenon
<1> QED
  BY <1>5, <1>7, <1>9 DEF Resorts

\* Resorting brings packets that were moved in time into the order of time, and keeps
\* them all, each stream in its order.
LEMMA ResortIs ==
  ASSUME NEW q \in Seq(Buffered), Ordered(q), NEW b \in [Streams -> Int],
         Timed(Held(q), b)
  PROVE  /\ Resort(q) \in Seq(Buffered) /\ Sorted(Resort(q)) /\ Ordered(Resort(q))
         /\ Held(Resort(q)) = Held(q)
<1>1. PICK f : Resorts(f, q)
  <2>1. \E f : Resorts(f, q)
    BY ResortPrefixes
  <2> QED
    BY <2>1
<1>2. Len(q) \in Nat
  BY ElementsAre
<1> DEFINE Done(n) ==
             /\ f[n] \in Seq(Buffered) /\ Sorted(f[n]) /\ Ordered(f[n])
             /\ Held(f[n]) = {q[i] : i \in 1 .. n} /\ Timed(Held(f[n]), b)
           N == {n \in Nat : n <= Len(q) => Done(n)}
<1>3. 0 \in N
  <2>1. <<>> \in Seq(Buffered) /\ Len(<<>>) = 0 /\ f[0] = <<>>
    BY <1>1, EmptySeq DEF Resorts
  <2>2. 1 .. 0 = {}
    OBVIOUS
  <2> DEFINE e == f[0]
  <2>3. Len(e) = 0 /\ e \in Seq(Buffered)
    BY <2>1
  <2> HIDE DEF e
  <2>4. Sorted(e) /\ Ordered(e) /\ Held(e) = {q[i] : i \in 1 .. 0} /\ Timed(Held(e), b)
    BY <2>2, <2>3 DEF Sorted, Ordered, Held, Timed
  <2> QED
    BY <2>3, <2>4 DEF e
<1>4. ASSUME NEW n \in Nat, n \in N PROVE n + 1 \in N
  <2>1. SUFFICES ASSUME n + 1 <= Len(q) PROVE Done(n + 1)
    OBVIOUS
  <2> DEFINE g == f[n]
             p == q[n + 1]
  <2>2. n + 1 \in 1 .. Len(q) /\ (n + 1) - 1 = n /\ n <= Len(q)
    BY <1>2, <2>1
  <2>3. /\ g \in Seq(Buffered) /\ Sorted(g) /\ Ordered(g)
        /\ Held(g) = {q[i] : i \in 1 .. n} /\ Timed(Held(g), b)
    BY <1>4, <2>2
  <2>4. f[n + 1] = Insert(g, p)
    BY <1>1, <2>2 DEF Resorts
  <2>5. p \in Buffered /\ p \in Held(q)
    BY <2>2, ElementsAre, HeldAre
  <2>6. p.ts = TimeAt(b, p.stream, p.dts)
    BY <2>5 DEF Timed
  <2>7. ASSUME NEW x \in Held(g), x.stream = p.stream PROVE x.dts < p.dts
    <3>1. PICK i \in 1 .. n : x = q[i]
      BY <2>3
    <3>2. i \in 1 .. Len(q) /\ i < n + 1
      BY <2>2
    <3> QED
      BY <2>2, <2>7, <3>1, <3>2 DEF Ordered
  <2>8. {q[i] : i \in 1 .. n} \cup {p} = {q[i] : i \in 1 .. n + 1}
    <3>1. \A i : i \in 1 .. n + 1 <=> i \in 1 .. n \/ i = n + 1
      OBVIOUS
    <3> QED
      BY <3>1
  <2> HIDE DEF g, p
  <2>9. /\ Insert(g, p) \in Seq(Buffered) /\ Sorted(Insert(g, p)) /\ Ordered(Insert(g, p))
        /\ Held(Insert(g, p)) = Held(g) \cup {p} /\ Timed(Held(Insert(g, p)), b)
    BY <2>3, <2>5, <2>6, <2>7, InsertSorts
  <2> QED
    BY <2>3, <2>4, <2>8, <2>9
<1>5. Len(q) \in N
  <2> HIDE DEF N
  <2> QED
    BY <1>2, <1>3, <1>4, Induction
<1>6. Done(Len(q))
  BY <1>2, <1>5
<1> QED
  BY <1>1, <1>6 DEF Resorts, Held

\* The next packet of a stream leaves no gap.
LEMMA NextIsComplete ==
  ASSUME NEW E, \A x \in E : x.stream \in Streams /\ x.dts \in Nat,
         NEW n \in [Streams -> Nat], Complete(E, n),
         NEW p \in Buffered, p.dts = n[p.stream]
  PROVE  Complete(E \cup {p}, [n EXCEPT ![p.stream] = @ + 1])
<1> DEFINE m == [n EXCEPT ![p.stream] = @ + 1]
<1>1. /\ p.stream \in Streams /\ p.dts \in Nat
      /\ \A s \in Streams : n[s] \in Nat /\ m[s] = IF s = p.stream THEN n[s] + 1 ELSE n[s]
  BY DEF Buffered
<1> HIDE DEF m
<1> SUFFICES ASSUME NEW x \in E \cup {p}
             PROVE  /\ x.dts < m[x.stream]
                    /\ \A d \in Nat : x.dts < d /\ d < m[x.stream] =>
                         \E y \in E \cup {p} : y.stream = x.stream /\ y.dts = d
  BY DEF Complete, m
<1>2. CASE x \in E
  <2>1. x.stream \in Streams /\ x.dts \in Nat /\ x.dts < n[x.stream]
    BY <1>2 DEF Complete
  <2>2. x.dts < m[x.stream]
    BY <1>1, <2>1
  <2>3. ASSUME NEW d \in Nat, x.dts < d, d < m[x.stream]
        PROVE  \E y \in E \cup {p} : y.stream = x.stream /\ y.dts = d
    <3>1. CASE d < n[x.stream]
      BY <1>2, <2>3, <3>1 DEF Complete
    <3>2. CASE ~(d < n[x.stream])
      <4>1. x.stream = p.stream /\ d = p.dts
        BY <1>1, <2>1, <2>3, <3>2
      <4> QED
        BY <4>1
    <3> QED
      BY <3>1, <3>2
  <2> QED
    BY <2>2, <2>3
<1>3. CASE x = p
  BY <1>1, <1>3
<1> QED
  BY <1>2, <1>3

\* The packet in front.
LEMMA FrontIs ==
  ASSUME NEW q \in Seq(Buffered), Held(q) # {}, Sorted(q), Ordered(q)
  PROVE  /\ q # <<>> /\ Head(q) \in Held(q) /\ Tail(q) \in Seq(Buffered)
         /\ SuffixFrom(Tail(q), q, 2) /\ 2 \in 1 .. Len(q) + 1
         /\ Held(Tail(q)) \subseteq Held(q)
         /\ Held(q) \subseteq {Head(q)} \cup Held(Tail(q))
         /\ \A x \in Held(Tail(q)) : /\ Head(q).ts <= x.ts
                                     /\ x.stream = Head(q).stream => Head(q).dts < x.dts
<1>1. Len(q) \in Nat /\ Len(q) # 0 /\ q # <<>>
  <2>1. Len(q) \in Nat /\ \E i : i \in 1 .. Len(q)
    BY ElementsAre DEF Held
  <2> QED
    BY <2>1
<1>2. 1 \in 1 .. Len(q) /\ 2 \in 1 .. Len(q) + 1
  BY <1>1
<1>3. Head(q) = q[1]
  BY <1>1
<1>4. Tail(q) = SubSeq(q, 2, Len(q))
  BY <1>1, TailIsSubSeq
<1> DEFINE r == Tail(q)
<1>9. SuffixFrom(r, q, 2)
  BY <1>2, <1>4, SuffixIs
<1>5. /\ r \in Seq(Buffered) /\ \A i \in 2 .. Len(q) : q[i] \in Held(r)
      /\ \A x \in Held(r) : \E i \in 2 .. Len(q) : x = q[i]
      /\ Held(r) \subseteq Held(q)
  BY <1>9 DEF SuffixFrom
<1> HIDE DEF r
<1>6. \A i \in 1 .. Len(q) : i = 1 \/ i \in 2 .. Len(q)
  BY <1>1
<1>7. Held(q) \subseteq {Head(q)} \cup Held(r)
  BY <1>3, <1>5, <1>6 DEF Held
<1>8. ASSUME NEW x \in Held(r)
      PROVE  /\ Head(q).ts <= x.ts
             /\ x.stream = Head(q).stream => Head(q).dts < x.dts
  <2>1. PICK i \in 2 .. Len(q) : x = q[i]
    BY <1>5
  <2>2. i \in 1 .. Len(q) /\ 1 < i
    BY <1>1
  <2> QED
    BY <1>2, <1>3, <2>1, <2>2 DEF Sorted, Ordered
<1> QED
  BY <1>1, <1>2, <1>3, <1>4, <1>5, <1>7, <1>8, <1>9 DEF r, Held

-----------------------------------------------------------------------------
(* send_interleaved.                                                       *)

\* A buffer that is in order, and complete up to what the encoders deliver next.
InLine(q, n, b) ==
  /\ q \in Seq(Buffered) /\ Sorted(q) /\ Ordered(q)
  /\ Complete(Held(q), n) /\ Timed(Held(q), b)

\* What is sent last of each stream, with h.
SentWith(h) == [sent EXCEPT ![h.stream] = h.dts]

\* h is handed on: the next packet of its stream.
Sends(h, q, n, off, lt) ==
  /\ h \in Held(q) /\ h.dts = ToSend(h.stream, off, sent)
  /\ out' = h /\ sent' = SentWith(h)

\* Without the packet in front the buffer is still in line.
LEMMA ShorterInLine ==
  ASSUME NEW q \in Seq(Buffered), NEW n \in [Streams -> Nat], NEW b,
         InLine(q, n, b), Held(q) # {}
  PROVE  InLine(Tail(q), n, b)
<1> DEFINE r == Tail(q)
<1>1. SuffixFrom(r, q, 2) /\ 2 \in 1 .. Len(q) + 1
  BY FrontIs DEF InLine
<1> HIDE DEF r
<1>2. Sorted(q) /\ Ordered(q) /\ Complete(Held(q), n) /\ Timed(Held(q), b)
  BY DEF InLine
<1>3. Sorted(r) /\ Ordered(r) /\ Complete(Held(r), n)
  BY <1>1, <1>2, SuffixKeeps
<1>4. r \in Seq(Buffered) /\ Held(r) \subseteq Held(q)
  BY <1>1 DEF SuffixFrom
<1>5. Timed(Held(r), b)
  BY <1>2, <1>4 DEF Timed
<1> QED
  BY <1>3, <1>4, <1>5 DEF InLine, r

\* Once the packet in front is sent the one behind it is next.
LEMMA FlowsOn ==
  ASSUME InterleaveTyped, NEW q \in Seq(Buffered), NEW n \in [Streams -> 0 .. MaxDts],
         Sorted(q), Ordered(q), Complete(Held(q), n),
         NEW off \in [Streams -> Nat], NEW lt \in BOOLEAN,
         Held(q) # {}, Flows(Held(q), n, off, sent, lt)
  PROVE  /\ Head(q).dts = ToSend(Head(q).stream, off, sent)
         /\ Flows(Held(Tail(q)), n, off, SentWith(Head(q)), lt)
         /\ SentWith(Head(q)) \in [Streams -> -1 .. MaxDts]
<1> DEFINE h == Head(q)
           s == h.stream
           snt == SentWith(Head(q))
           E == Held(q)
           F == Held(Tail(q))
<1>1. /\ h \in E /\ F \subseteq E /\ E \subseteq {h} \cup F
      /\ \A x \in F : x.stream = s => h.dts < x.dts
  BY FrontIs
<1>2. \A x \in E : x.stream \in Streams /\ x.dts \in Nat /\ x.dts < n[x.stream]
  BY HeldAre DEF Complete
<1>3. \A t \in Streams : /\ n[t] \in Nat /\ n[t] <= MaxDts /\ off[t] \in Nat
                         /\ sent[t] \in Int /\ -1 <= sent[t] /\ sent[t] <= MaxDts
                         /\ ToSend(t, off, sent) \in Int
  <2>1. MaxDts \in Nat
    BY InterleaveConstants
  <2> QED
    BY <2>1 DEF InterleaveTyped, ToSend
<1>4. snt = [sent EXCEPT ![s] = h.dts]
  BY DEF SentWith
<1> HIDE DEF h, E, F, snt
<1>5. h.dts \in Nat /\ s \in Streams /\ h.dts < n[s]
  BY <1>1, <1>2
<1>6. /\ \A t \in Streams :
           /\ off[t] < n[t]
           /\ off[t] <= ToSend(t, off, sent) /\ ToSend(t, off, sent) <= n[t]
           /\ ToSend(t, off, sent) < n[t] =>
                \E x \in E : x.stream = t /\ x.dts = ToSend(t, off, sent)
      /\ \A x \in E : ToSend(x.stream, off, sent) <= x.dts
      /\ ~lt => \A x \in E : x.stream = Video /\ x.dts = off[Video] => x.key
  BY DEF Flows, E
<1>7. h.dts = ToSend(s, off, sent)
  <2>1. ToSend(s, off, sent) <= h.dts
    BY <1>1, <1>6
  <2>4. ToSend(s, off, sent) < n[s]
    BY <1>3, <1>5, <2>1
  <2>2. PICK x \in E : x.stream = s /\ x.dts = ToSend(s, off, sent)
    BY <1>5, <1>6, <2>4
  <2>3. x = h \/ h.dts < x.dts
    BY <1>1, <2>2
  <2> QED
    BY <1>2, <1>3, <1>5, <2>1, <2>2, <2>3
<1> HIDE DEF s
<1>8. \A t \in Streams : snt[t] = IF t = s THEN h.dts ELSE sent[t]
  BY <1>4 DEF InterleaveTyped
<1>9. ToSend(s, off, snt) = h.dts + 1
  BY <1>5, <1>8 DEF ToSend
<1>10. \A t \in Streams : t # s => ToSend(t, off, snt) = ToSend(t, off, sent)
  BY <1>8 DEF ToSend
<1>11. snt \in [Streams -> -1 .. MaxDts]
  <2>1. h.dts \in -1 .. MaxDts
    <3>1. n[s] \in Nat /\ n[s] <= MaxDts /\ MaxDts \in Nat
      BY <1>3, <1>5, InterleaveConstants
    <3> QED
      BY <1>5, <3>1
  <2> QED
    BY <1>4, <2>1 DEF InterleaveTyped
<1>12. Flows(F, n, off, snt, lt)
  <2>1. ASSUME NEW t \in Streams
        PROVE  /\ off[t] < n[t]
               /\ off[t] <= ToSend(t, off, snt) /\ ToSend(t, off, snt) <= n[t]
               /\ ToSend(t, off, snt) < n[t] =>
                    \E x \in F : x.stream = t /\ x.dts = ToSend(t, off, snt)
    <3>1. CASE t = s
      <4>1. off[t] <= h.dts + 1 /\ h.dts + 1 <= n[t] /\ off[t] < n[t]
        BY <1>3, <1>5, <1>6, <1>7, <3>1
      <4>2. ASSUME h.dts + 1 < n[t] PROVE \E x \in F : x.stream = t /\ x.dts = h.dts + 1
        <5>1. h.dts + 1 \in Nat /\ h.dts < h.dts + 1
          BY <1>5
        <5>2. Complete(E, n)
          BY DEF E
        <5>3. \E y \in E : y.stream = h.stream /\ y.dts = h.dts + 1
          BY <1>1, <3>1, <4>2, <5>1, <5>2 DEF Complete, s
        <5>4. PICK y \in E : y.stream = s /\ y.dts = h.dts + 1
          BY <5>3 DEF s
        <5>5. y \in F
          BY <1>1, <1>5, <5>4
        <5> QED
          BY <3>1, <5>4, <5>5
      <4> QED
        BY <1>9, <3>1, <4>1, <4>2
    <3>2. CASE t # s
      <4>1. \A x \in E : x.stream = t => x \in F
        BY <1>1, <3>2 DEF s
      <4> QED
        BY <1>6, <1>10, <3>2, <4>1
    <3> QED
      BY <3>1, <3>2
  <2>2. ASSUME NEW x \in F PROVE ToSend(x.stream, off, snt) <= x.dts
    <3>1. x \in E /\ x.stream \in Streams /\ x.dts \in Nat
      BY <1>1, <1>2
    <3>2. CASE x.stream = s
      <4>1. h.dts < x.dts
        BY <1>1, <3>2 DEF s
      <4> QED
        BY <1>5, <1>9, <3>1, <3>2, <4>1
    <3>3. CASE x.stream # s
      BY <1>6, <1>10, <3>1, <3>3
    <3> QED
      BY <3>2, <3>3
  <2>3. ~lt => \A x \in F : x.stream = Video /\ x.dts = off[Video] => x.key
    BY <1>1, <1>6
  <2> QED
    BY <2>1, <2>2, <2>3 DEF Flows
<1> QED
  BY <1>7, <1>11, <1>12 DEF h, F, s, snt

\* A packet goes when the other kind is past it, so nothing earlier can follow: with
\* one track the other kind is one encoder.
LEMMA PassesOn ==
  ASSUME NumTracks = 1, NEW q \in Seq(Buffered), NEW n \in [Streams -> Nat],
         NEW b \in [Streams -> Int], InLine(q, n, b), Held(q) # {},
         NEW audio_ts \in Int, NEW video_ts \in Int, Ahead(n, b, audio_ts, video_ts),
         HasHigherOpposing(Head(q), audio_ts, video_ts)
  PROVE  Passed(Held(Tail(q)), n, b, Head(q))
<1> DEFINE h == Head(q)
<1>1. h \in Held(q) /\ \A x \in Held(Tail(q)) : h.ts <= x.ts
  BY FrontIs DEF InLine
<1>2. HasHigherOpposing(h, audio_ts, video_ts)
  OBVIOUS
<1> HIDE DEF h
<1>3. /\ h.stream \in Streams /\ h.dts \in Nat /\ h.ts \in Int
      /\ h.ts = TimeAt(b, h.stream, h.dts) /\ h.dts < n[h.stream]
  BY <1>1, HeldAre DEF InLine, Timed, Complete
<1>4. ASSUME NEW t \in Streams PROVE h.ts <= TimeAt(b, t, n[t])
  <2>1. n[t] \in Int /\ TimeAt(b, t, n[t]) \in Int
    <3>1. n[t] \in Int
      OBVIOUS
    <3> QED
      BY <3>1, Times
  <2>2. CASE t = h.stream
    <3>1. h.dts \in Int /\ h.dts < n[t]
      BY <1>3, <2>2
    <3>2. /\ TimeAt(b, t, h.dts) + Duration(t) <= TimeAt(b, t, n[t])
          /\ Duration(t) \in Nat /\ TimeAt(b, t, h.dts) \in Int
      BY <2>1, <3>1, Times
    <3> QED
      BY <1>3, <2>1, <2>2, <3>2
  <2>3. CASE t # h.stream
    <3>1. (t = Video /\ h.stream = 0) \/ (t = 0 /\ h.stream = Video)
      <4>1. \A s \in Streams : s = Video \/ s = 0
        BY StreamsAre
      <4>2. t = Video \/ t = 0
        BY <4>1
      <4>3. h.stream = Video \/ h.stream = 0
        BY <1>3, <4>1
      <4> QED
        BY <2>3, <4>2, <4>3
    <3>2. CASE t = Video
      <4>1. video_ts > h.ts /\ video_ts <= TimeAt(b, t, n[t])
        BY <1>2, <2>3, <3>2 DEF HasHigherOpposing, Ahead
      <4> QED
        BY <1>3, <2>1, <4>1
    <3>3. CASE t = 0 /\ h.stream = Video
      <4>1. audio_ts > h.ts /\ audio_ts <= TimeAt(b, t, n[t])
        BY <1>2, <3>3 DEF HasHigherOpposing, Ahead
      <4> QED
        BY <1>3, <2>1, <4>1
    <3> QED
      BY <3>1, <3>2, <3>3
  <2> QED
    BY <2>2, <2>3
<1> QED
  BY <1>1, <1>4 DEF Passed, h

\* send_interleaved keeps the buffer in line, and what it sends is next.
LEMMA SendKeeps ==
  ASSUME InterleaveTyped, NEW q \in Seq(Buffered), NEW n \in [Streams -> 0 .. MaxDts],
         NEW b \in [Streams -> Int], InLine(q, n, b), Held(q) # {},
         NEW off \in [Streams -> Nat], NEW lt \in BOOLEAN,
         Flows(Held(q), n, off, sent, lt) \/ stopped,
         NEW audio_ts \in Int, NEW video_ts \in Int, Ahead(n, b, audio_ts, video_ts),
         SendInterleaved(q, audio_ts, video_ts)
  PROVE  /\ InLine(interleaved_packets', n, b)
         /\ out' \in [stream : Streams, dts : Int, key : BOOLEAN, ts : Int]
         /\ sent' \in [Streams -> -1 .. MaxDts]
         /\ ~stopped => Flows(Held(interleaved_packets'), n, off, sent', lt)
         /\ NumTracks = 1 /\ Passed(Held(q), n, b, out) /\ ~stopped =>
              Passed(Held(interleaved_packets'), n, b, out')
         /\ out' = out \/ (~stopped /\ Sends(out', q, n, off, lt))
<1>1. n \in [Streams -> Nat]
  <2>1. MaxDts \in Nat
    BY InterleaveConstants
  <2> QED
    BY <2>1
<1>2. CASE ~HasHigherOpposing(Head(q), audio_ts, video_ts)
  <2>1. interleaved_packets' = q /\ out' = out /\ sent' = sent
    BY <1>2 DEF SendInterleaved
  <2> QED
    BY <2>1 DEF InterleaveTyped
<1>3. CASE HasHigherOpposing(Head(q), audio_ts, video_ts)
  <2>1. interleaved_packets' = Tail(q) /\ InLine(Tail(q), n, b)
    BY <1>1, <1>3, ShorterInLine DEF SendInterleaved
  <2>2. CASE stopped
    <3>1. out' = out /\ sent' = sent
      BY <1>3, <2>2 DEF SendInterleaved
    <3> QED
      BY <2>1, <2>2, <3>1 DEF InterleaveTyped
  <2>3. CASE ~stopped
    <3> DEFINE h == Head(q)
    <3>1. out' = h /\ sent' = SentWith(h)
      BY <1>3, <2>3 DEF SendInterleaved, SentWith
    <3>2. /\ h.dts = ToSend(h.stream, off, sent)
          /\ Flows(Held(Tail(q)), n, off, sent', lt)
          /\ sent' \in [Streams -> -1 .. MaxDts]
      <4>1. /\ Flows(Held(q), n, off, sent, lt)
            /\ Sorted(q) /\ Ordered(q) /\ Complete(Held(q), n)
        BY <2>3 DEF InLine
      <4>2. /\ h.dts = ToSend(h.stream, off, sent)
            /\ Flows(Held(Tail(q)), n, off, SentWith(h), lt)
            /\ SentWith(h) \in [Streams -> -1 .. MaxDts]
        BY <4>1, FlowsOn
      <4> QED
        BY <3>1, <4>2
    <3>3. NumTracks = 1 => Passed(Held(Tail(q)), n, b, h)
      BY <1>1, <1>3, PassesOn
    <3>4. h \in Held(q)
      BY FrontIs DEF InLine
    <3> HIDE DEF h
    <3>5. out' \in [stream : Streams, dts : Int, key : BOOLEAN, ts : Int]
      <4>1. h \in Buffered
        BY <3>4, HeldAre
      <4> QED
        BY <3>1, <4>1 DEF Buffered
    <3> QED
      BY <2>1, <2>3, <3>1, <3>2, <3>3, <3>4, <3>5 DEF Sends
  <2> QED
    BY <2>2, <2>3
<1> QED
  BY <1>2, <1>3

-----------------------------------------------------------------------------
(* A packet that arrives.                                                  *)

Incoming(s, key) ==
  [stream |-> s, dts |-> next[s], key |-> key, ts |-> SystemTime(s, next[s])]

NextWith(s) == [next EXCEPT ![s] = @ + 1]

\* An encoder delivers a packet.
Arrives(s, key) ==
  /\ s \in Streams /\ key \in BOOLEAN /\ next[s] < MaxDts
  /\ \A t \in Streams :
       TimeAt(origin, s, next[s]) <= TimeAt(origin, t, next[t]) + MaxLead
  /\ next' = NextWith(s)
  /\ stopped' = stopped /\ origin' = origin

\* The count of the encoder that delivers goes up, the others stay.
LEMMA NextIs ==
  ASSUME InterleaveTyped, NEW s, NEW key, Arrives(s, key)
  PROVE  /\ next \in [Streams -> Nat] /\ next' \in [Streams -> 0 .. MaxDts]
         /\ next' \in [Streams -> Nat]
         /\ next' = [next EXCEPT ![s] = @ + 1] /\ next[s] \in Nat
         /\ \A t \in Streams : /\ next[t] \in Nat /\ next[t] <= next'[t]
                               /\ next'[t] = IF t = s THEN next[s] + 1 ELSE next[t]
<1>1. MaxDts \in Nat
  BY InterleaveConstants
<1>2. s \in Streams /\ next[s] < MaxDts /\ next' = [next EXCEPT ![s] = @ + 1]
  BY DEF Arrives, NextWith
<1>3. next \in [Streams -> 0 .. MaxDts]
  BY DEF InterleaveTyped
<1>4. next[s] + 1 \in 0 .. MaxDts
  BY <1>1, <1>2, <1>3
<1>5. next' \in [Streams -> 0 .. MaxDts]
  BY <1>2, <1>3, <1>4
<1> QED
  BY <1>1, <1>2, <1>3, <1>5

\* The packet has the number and the time that the encoder gives it.
LEMMA IncomingIs ==
  ASSUME InterleaveTyped, NEW s, NEW key, Arrives(s, key)
  PROVE  LET p == Incoming(s, key)
         IN  /\ p \in Buffered /\ p.stream = s /\ p.dts = next[s] /\ p.key = key
             /\ p.ts = TimeAt(origin, s, next[s]) /\ p.ts \in Int
<1>1. s \in Streams /\ key \in BOOLEAN /\ next[s] \in Nat /\ origin \in [Streams -> Int]
  BY NextIs DEF Arrives, InterleaveTyped
<1>2. SystemTime(s, next[s]) = TimeAt(origin, s, next[s])
  BY DEF SystemTime, TimeAt
<1>3. TimeAt(origin, s, next[s]) \in Int
  <2>1. next[s] \in Int
    BY <1>1
  <2> QED
    BY <1>1, <2>1, Times
<1> DEFINE p == Incoming(s, key)
<1>4. /\ p.stream = s /\ p.dts = next[s] /\ p.key = key
      /\ p.ts = SystemTime(s, next[s]) /\ p \in Buffered
  BY <1>1, <1>2, <1>3 DEF Incoming, Buffered
<1> HIDE DEF p
<1> QED
  BY <1>2, <1>3, <1>4 DEF p

\* The encoders stay together.
LEMMA LeadKept ==
  ASSUME InterleaveTyped, Lead, NEW s, NEW key, Arrives(s, key)
  PROVE  Together(next', origin)
<1>1. /\ s \in Streams /\ MaxLead \in Nat /\ Together(next, origin)
      /\ origin \in [Streams -> Int]
  BY InterleaveConstants DEF Arrives, Lead, InterleaveTyped
<1> SUFFICES ASSUME NEW u \in Streams, NEW t \in Streams, next'[u] # 0
             PROVE  TimeAt(origin, u, next'[u] - 1)
                      <= TimeAt(origin, t, next'[t]) + MaxLead
  BY DEF Together
<1>2. /\ next[u] \in Nat /\ next'[u] \in Nat /\ next[t] \in Nat /\ next'[t] \in Nat
      /\ next[t] <= next'[t]
      /\ next'[u] = IF u = s THEN next[s] + 1 ELSE next[u]
  BY NextIs
<1>3. /\ TimeAt(origin, t, next[t]) <= TimeAt(origin, t, next'[t])
      /\ TimeAt(origin, t, next[t]) \in Int /\ TimeAt(origin, t, next'[t]) \in Int
  <2> DEFINE x == next[t]
             y == next'[t]
  <2>1. x \in Int /\ y \in Int /\ x <= y
    BY <1>2
  <2> HIDE DEF x, y
  <2>2. /\ TimeAt(origin, t, x) \in Int /\ TimeAt(origin, t, y) \in Int
        /\ x < y => TimeAt(origin, t, x) + Duration(t) <= TimeAt(origin, t, y)
        /\ Duration(t) \in Nat
    BY <1>1, <2>1, Times
  <2>3. x = y \/ x < y
    BY <2>1
  <2>4. TimeAt(origin, t, x) <= TimeAt(origin, t, y)
    BY <2>2, <2>3
  <2> QED
    BY <2>2, <2>4 DEF x, y
<1>4. TimeAt(origin, u, next'[u] - 1) <= TimeAt(origin, t, next[t]) + MaxLead
  <2>1. CASE u = s
    <3>1. next'[u] - 1 = next[s]
      BY <1>2, <2>1
    <3> QED
      BY <2>1, <3>1 DEF Arrives
  <2>2. CASE u # s
    <3>1. next'[u] = next[u] /\ next[u] # 0
      BY <1>2, <2>2
    <3> QED
      BY <1>1, <3>1 DEF Together
  <2> QED
    BY <2>1, <2>2
<1>5. TimeAt(origin, u, next'[u] - 1) \in Int
  <2>1. next'[u] - 1 \in Int
    BY <1>2
  <2> QED
    BY <1>1, <2>1, Times
<1> QED
  BY <1>1, <1>3, <1>4, <1>5

\* set_higher_ts keeps one of the two times.
LEMMA HigherIs ==
  ASSUME NEW x \in Int, NEW y \in Int
  PROVE  HigherTs(x, y) \in Int /\ HigherTs(x, y) \in {x, y}
<1>1. \E m \in {x, y} : \A z \in {x, y} : m >= z
  <2>1. x >= y \/ y >= x
    OBVIOUS
  <2>2. x >= x /\ y >= y
    OBVIOUS
  <2> QED
    BY <2>1, <2>2
<1>2. HigherTs(x, y) \in {x, y}
  BY <1>1, Zenon DEF HigherTs, Max
<1> QED
  BY <1>2

\* The highest times stay behind the encoders, with the packet that arrives and
\* without it.
LEMMA AheadKept ==
  ASSUME InterleaveTyped, NEW s, NEW key, Arrives(s, key),
         NEW b \in [Streams -> Int], NEW p \in Buffered,
         p.stream = s, p.ts = TimeAt(b, s, next[s]),
         Ahead(next, b, highest_audio_ts, highest_video_ts)
  PROVE  /\ Ahead(next', b, highest_audio_ts, highest_video_ts)
         /\ Ahead(next', b, AudioTs(p), VideoTs(p))
         /\ AudioTs(p) \in Int /\ VideoTs(p) \in Int
<1>1. /\ p.ts \in Int /\ highest_audio_ts \in Int /\ highest_video_ts \in Int
      /\ s \in Streams
  BY DEF Buffered, InterleaveTyped, Arrives
<1>2. ASSUME NEW t \in Streams
      PROVE  /\ TimeAt(b, t, next[t]) \in Int /\ TimeAt(b, t, next'[t]) \in Int
             /\ TimeAt(b, t, next[t]) <= TimeAt(b, t, next'[t])
  <2> DEFINE x == next[t]
             y == next'[t]
  <2>1. x \in Int /\ y \in Int /\ x <= y
    <3>1. next[t] \in Nat /\ next'[t] \in Nat /\ next[t] <= next'[t]
      BY NextIs
    <3> QED
      BY <3>1
  <2> HIDE DEF x, y
  <2>2. /\ TimeAt(b, t, x) \in Int /\ TimeAt(b, t, y) \in Int
        /\ x < y => TimeAt(b, t, x) + Duration(t) <= TimeAt(b, t, y)
        /\ Duration(t) \in Nat
    BY <2>1, Times
  <2>3. x = y \/ x < y
    BY <2>1
  <2>4. TimeAt(b, t, x) <= TimeAt(b, t, y)
    BY <2>2, <2>3
  <2> QED
    BY <2>2, <2>4 DEF x, y
<1>3. /\ Video \in Streams /\ 0 \in Streams
      /\ NumTracks = 1 => \A t \in Streams : t = Video \/ t = 0
  BY StreamsAre
<1>4. p.ts <= TimeAt(b, s, next'[s]) /\ TimeAt(b, s, next'[s]) \in Int
  BY <1>1, <1>2
<1>5. /\ TimeAt(b, Video, next'[Video]) \in Int /\ TimeAt(b, 0, next'[0]) \in Int
      /\ highest_video_ts <= TimeAt(b, Video, next'[Video])
      /\ NumTracks = 1 => highest_audio_ts <= TimeAt(b, 0, next'[0])
  BY <1>1, <1>2, <1>3 DEF Ahead
<1>6. /\ HigherTs(highest_audio_ts, p.ts) \in Int
      /\ HigherTs(highest_audio_ts, p.ts) \in {highest_audio_ts, p.ts}
      /\ HigherTs(highest_video_ts, p.ts) \in Int
      /\ HigherTs(highest_video_ts, p.ts) \in {highest_video_ts, p.ts}
  BY <1>1, HigherIs
<1>7. AudioTs(p) \in Int /\ VideoTs(p) \in Int
  BY <1>1, <1>6 DEF AudioTs, VideoTs
<1>8. VideoTs(p) <= TimeAt(b, Video, next'[Video])
  BY <1>4, <1>5, <1>6 DEF VideoTs
<1>9. NumTracks = 1 => AudioTs(p) <= TimeAt(b, 0, next'[0])
  <2> SUFFICES ASSUME NumTracks = 1 PROVE AudioTs(p) <= TimeAt(b, 0, next'[0])
    OBVIOUS
  <2>1. CASE s = Video
    BY <1>5, <2>1 DEF AudioTs
  <2>2. CASE s # Video
    <3>1. s = 0
      BY <1>1, <1>3, <2>2
    <3> QED
      BY <1>4, <1>5, <1>6, <2>2, <3>1 DEF AudioTs
  <2> QED
    BY <2>1, <2>2
<1> QED
  BY <1>5, <1>7, <1>8, <1>9 DEF Ahead

\* It is inserted, and the buffer is in line with what comes next.
LEMMA ArrivalInLine ==
  ASSUME InterleaveTyped, NEW s, NEW key, Arrives(s, key),
         NEW q, NEW b \in [Streams -> Int], InLine(q, next, b), NEW p \in Buffered,
         p.stream = s, p.dts = next[s], p.ts = TimeAt(b, s, next[s])
  PROVE  /\ InLine(Insert(q, p), next', b)
         /\ Held(Insert(q, p)) = Held(q) \cup {p}
<1>1. /\ q \in Seq(Buffered) /\ Sorted(q) /\ Ordered(q)
      /\ Complete(Held(q), next) /\ Timed(Held(q), b)
  BY DEF InLine
<1>2. \A x \in Held(q) : x.stream = p.stream => x.dts < p.dts
  BY <1>1 DEF Complete
<1>3. p.ts = TimeAt(b, p.stream, p.dts)
  OBVIOUS
<1>4. /\ Insert(q, p) \in Seq(Buffered) /\ Sorted(Insert(q, p)) /\ Ordered(Insert(q, p))
      /\ Held(Insert(q, p)) = Held(q) \cup {p} /\ Timed(Held(Insert(q, p)), b)
  BY <1>1, <1>2, <1>3, InsertSorts
<1>5. Complete(Held(q) \cup {p}, [next EXCEPT ![p.stream] = @ + 1])
  <2>1. \A x \in Held(q) : x.stream \in Streams /\ x.dts \in Nat
    BY <1>1, HeldAre
  <2>2. next \in [Streams -> Nat] /\ p.dts = next[p.stream]
    BY NextIs
  <2> QED
    BY <1>1, <2>1, <2>2, NextIsComplete
<1>6. next' = [next EXCEPT ![p.stream] = @ + 1]
  BY NextIs
<1> QED
  BY <1>4, <1>5, <1>6 DEF InLine

-----------------------------------------------------------------------------
(* What is pruned at the start.                                            *)

\* The distance of two times.
LEMMA DistanceIs ==
  ASSUME NEW t \in Int, NEW u \in Int
  PROVE  /\ Distance(t, u) \in Nat
         /\ t <= u => Distance(t, u) = u - t
         /\ u <= t => Distance(t, u) = t - u
BY DEF Distance

\* No audio packet is closer to the first video than the one chosen.
LEMMA ClosestIs ==
  ASSUME NEW q \in Seq(Buffered), Missing(q) = {}
  PROVE  /\ ClosestAudioIdx(q) \in 1 .. Len(q)
         /\ q[ClosestAudioIdx(q)].stream # Video
         /\ \A x \in Held(q) : x.stream # Video =>
              Distance(q[ClosestAudioIdx(q)].ts, First(q, Video).ts)
                <= Distance(x.ts, First(q, Video).ts)
<1> DEFINE audio == {i \in DOMAIN q : q[i].stream # Video}
           d(i) == Distance(q[i].ts, First(q, Video).ts)
           closest == {i \in audio : \A j \in audio : d(i) <= d(j)}
           N == {d(i) : i \in audio}
<1>1. /\ Len(q) \in Nat /\ DOMAIN q = 1 .. Len(q)
      /\ \A i \in 1 .. Len(q) : q[i].ts \in Int
  BY ElementsAre
<1>2. First(q, Video).ts \in Int /\ 0 \in Streams /\ 0 # Video
  BY StreamsAre, FirstIs, HeldAre
<1>3. FirstIdx(q, 0) \in audio
  <2>1. FirstIdx(q, 0) \in 1 .. Len(q) /\ q[FirstIdx(q, 0)].stream = 0
    BY <1>2, FirstIs
  <2> QED
    BY <1>1, <1>2, <2>1
<1>4. \A i \in audio : d(i) \in Nat
  BY <1>1, <1>2, DistanceIs
<1>5. audio \subseteq 1 .. Len(q)
  BY <1>1
<1> HIDE DEF d
<1>6. N \subseteq Nat /\ N # {}
  BY <1>3, <1>4
<1>7. \E n \in N : \A m \in N : n <= m
  <2> HIDE DEF N
  <2> QED
    BY <1>6, LeastNumber
<1>8. closest # {}
  BY <1>7
<1>9. closest \subseteq Nat
  BY <1>5
<1>10. Min(closest) \in closest
  <2> HIDE DEF closest
  <2> QED
    BY <1>8, <1>9, MinIs
<1>11. ClosestAudioIdx(q) = Min(closest)
  BY DEF ClosestAudioIdx, d
<1>12. ClosestAudioIdx(q) \in audio /\ \A j \in audio : d(ClosestAudioIdx(q)) <= d(j)
  BY <1>10, <1>11
<1>13. \A x \in Held(q) : x.stream # Video => \E j \in audio : x = q[j]
  BY <1>1, HeldAre
<1> QED
  BY <1>1, <1>12, <1>13 DEF d

\* Unless audio is too late the first video packet stays, and the audio that is
\* closest to it.
StartsAt(q, k) ==
  IF Premature(q)
  THEN \A s \in Streams : FirstIdx(q, s) < k
  ELSE /\ k <= FirstIdx(q, Video) /\ k <= ClosestAudioIdx(q)
       /\ k \in {FirstIdx(q, Video), ClosestAudioIdx(q)}

\* prune_interleaved_packets drops what is in front of the place of the start.
LEMMA PrunedIs ==
  ASSUME NEW q \in Seq(Buffered), Missing(q) = {}
  PROVE  \E k \in 1 .. Len(q) + 1 : SuffixFrom(Pruned(q), q, k) /\ StartsAt(q, k)
<1>1. /\ Len(q) \in Nat
      /\ \A s \in Streams : FirstIdx(q, s) \in 1 .. Len(q)
  BY ElementsAre, FirstIs
<1>2. ClosestAudioIdx(q) \in 1 .. Len(q) /\ Video \in Streams
  BY ClosestIs, StreamsAre
<1>3. CASE Premature(q)
  <2> DEFINE S == {FirstIdx(q, s) : s \in Streams}
             k == Max(S) + 1
  <2>1. S \subseteq Nat /\ S # {} /\ \A x \in S : x <= Len(q) /\ x \in 1 .. Len(q)
    BY <1>1, <1>2
  <2>2. Max(S) \in S /\ \A x \in S : x <= Max(S)
    <3> HIDE DEF S
    <3> QED
      BY <1>1, <2>1, MaxIs
  <2>3. Max(S) \in 1 .. Len(q)
    BY <2>1, <2>2
  <2>4. k \in 1 .. Len(q) + 1 /\ \A s \in Streams : FirstIdx(q, s) < k
    <3>1. k \in 1 .. Len(q) + 1
      BY <1>1, <2>3
    <3>2. ASSUME NEW s \in Streams PROVE FirstIdx(q, s) < k
      <4>1. FirstIdx(q, s) \in S
        OBVIOUS
      <4>2. FirstIdx(q, s) <= Max(S)
        BY <2>2, <4>1
      <4> QED
        BY <1>1, <2>3, <4>2
    <3> QED
      BY <3>1, <3>2
  <2>5. Pruned(q) = SubSeq(q, k, Len(q))
    BY <1>3 DEF Pruned
  <2> HIDE DEF k
  <2> QED
    BY <1>3, <2>4, <2>5, SuffixIs DEF StartsAt
<1>4. CASE ~Premature(q)
  <2> DEFINE S == {FirstIdx(q, Video), ClosestAudioIdx(q)}
             k == Min(S)
  <2>1. S \subseteq Nat /\ S # {}
    BY <1>1, <1>2
  <2>2. k \in S /\ \A x \in S : k <= x
    <3> HIDE DEF S
    <3> QED
      BY <2>1, MinIs
  <2>3. k \in 1 .. Len(q) + 1
    BY <1>1, <1>2, <2>2
  <2>4. Pruned(q) = SubSeq(q, k, Len(q))
    BY <1>4 DEF Pruned, StartIdx
  <2>5. StartsAt(q, k)
    BY <1>4, <2>2 DEF StartsAt
  <2> HIDE DEF k
  <2> QED
    BY <2>3, <2>4, <2>5, SuffixIs
<1> QED
  BY <1>3, <1>4

\* NotBefore drops what is in front.
LEMMA NotBeforeIs ==
  ASSUME NEW q \in Seq(Buffered), NEW ts
  PROVE  \E k \in 1 .. Len(q) + 1 : SuffixFrom(NotBefore(ts, q), q, k)
<1> DEFINE S == {i \in DOMAIN q : q[i].ts >= ts} \cup {Len(q) + 1}
           k == Min(S)
<1>1. Len(q) \in Nat /\ DOMAIN q = 1 .. Len(q)
  BY ElementsAre
<1>2. S \subseteq 1 .. Len(q) + 1 /\ S # {}
  BY <1>1
<1>3. k \in S
  <2>1. S \subseteq Nat
    BY <1>1, <1>2
  <2> HIDE DEF S
  <2> QED
    BY <1>2, <2>1, MinIs
<1>4. NotBefore(ts, q) = SubSeq(q, k, Len(q))
  BY DEF NotBefore
<1>5. k \in 1 .. Len(q) + 1
  BY <1>2, <1>3
<1> HIDE DEF k
<1> QED
  BY <1>4, <1>5, SuffixIs

\* The first video packet stays a keyframe, unless it was too early.
LEMMA PrunedKeyFirst ==
  ASSUME NEW q \in Seq(Buffered), Ordered(q), Missing(q) = {}, ~Premature(q),
         KeyFirst(Held(q)), NEW k \in 1 .. Len(q) + 1,
         NEW r, SuffixFrom(r, q, k), StartsAt(q, k)
  PROVE  KeyFirst(Held(r))
<1> DEFINE f == First(q, Video)
<1>1. Video \in Streams /\ Video \notin Missing(q)
  BY StreamsAre
<1>2. /\ FirstIdx(q, Video) \in 1 .. Len(q) /\ f = q[FirstIdx(q, Video)]
      /\ f.stream = Video /\ f \in Held(q)
      /\ \A x \in Held(q) : x.stream = Video => f.dts <= x.dts
  BY <1>1, FirstIs, FirstIsOldest
<1>3. f \in Held(r) /\ Held(r) \subseteq Held(q)
  <2>1. k <= FirstIdx(q, Video)
    BY DEF StartsAt
  <2>2. FirstIdx(q, Video) \in k .. Len(q)
    BY <1>2, <2>1
  <2> QED
    BY <1>2, <2>2 DEF SuffixFrom
<1> SUFFICES ASSUME NEW x \in Held(r), x.stream = Video,
                    \A y \in Held(r) : y.stream = Video => x.dts <= y.dts
             PROVE  x.key
  BY DEF KeyFirst
<1> HIDE DEF f
<1>4. x.dts <= f.dts
  BY <1>2, <1>3
<1>5. \A y \in Held(q) : y.dts \in Nat
  BY HeldAre
<1>6. \A y \in Held(q) : y.stream = Video => x.dts <= y.dts
  BY <1>2, <1>3, <1>4, <1>5
<1> QED
  BY <1>3, <1>6 DEF KeyFirst

-----------------------------------------------------------------------------
(* Before the start.                                                       *)

\* The state before the start, after a packet that did not start the streams.
LEMMA StillCollecting ==
  ASSUME InterleaveInv, NEW s, NEW key, Arrives(s, key), ~Started, ~Started',
         InLine(interleaved_packets', next', origin),
         UNCHANGED <<offset, out, sent>>,
         received_audio' \in BOOLEAN, received_video' \in BOOLEAN, late' \in BOOLEAN,
         highest_audio_ts' \in Int, highest_video_ts' \in Int,
         Ahead(next', origin, highest_audio_ts', highest_video_ts'),
         ~received_video' <=> Lacks(Held(interleaved_packets'), Video),
         NumTracks = 1 /\ ~received_audio' => Lacks(Held(interleaved_packets'), 0),
         ~late' => KeyFirst(Held(interleaved_packets'))
  PROVE  InterleaveInv'
<1>1. /\ InterleaveTyped /\ Collecting /\ Lead
      /\ stopped' = stopped /\ origin' = origin /\ origin \in [Streams -> Nat]
  BY DEF InterleaveInv, Arrives, InterleaveTyped
<1>2. Zeros' = origin
  BY <1>1 DEF Zeros
<1>3. next' \in [Streams -> 0 .. MaxDts] /\ Together(next', origin)
  BY <1>1, NextIs, LeadKept
<1>4. InterleaveTyped'
  BY <1>1, <1>3 DEF InterleaveTyped, InLine
<1>5. Buffer'
  BY <1>2 DEF Buffer, InLine
<1>6. Collecting'
  BY <1>1 DEF Collecting
<1>7. Flowing' /\ InSync'
  BY DEF Flowing, InSync, AudioNotLate, AudioNotEarly
<1>8. HighestTimes'
  BY <1>2 DEF HighestTimes
<1>9. Lead'
  BY <1>1, <1>3 DEF Lead
<1> QED
  BY <1>4, <1>5, <1>6, <1>7, <1>8, <1>9 DEF InterleaveInv

\* What the invariant says of the buffer before the start.
LEMMA BeforeStart ==
  ASSUME InterleaveInv, ~Started
  PROVE  /\ InterleaveTyped /\ InLine(interleaved_packets, next, origin)
         /\ interleaved_packets \in Seq(Buffered)
         /\ origin \in [Streams -> Int]
         /\ out = NoPacket /\ sent = [t \in Streams |-> -1]
         /\ ~received_video <=> Lacks(Held(interleaved_packets), Video)
         /\ NumTracks = 1 /\ ~received_audio => Lacks(Held(interleaved_packets), 0)
         /\ ~late => KeyFirst(Held(interleaved_packets))
         /\ Ahead(next, origin, highest_audio_ts, highest_video_ts)
<1>1. origin \in [Streams -> Nat] /\ InterleaveTyped
  BY DEF InterleaveInv, InterleaveTyped
<1>2. Zeros = origin
  BY <1>1 DEF Zeros
<1>3. interleaved_packets \in Seq(Buffered) /\ origin \in [Streams -> Int]
  BY <1>1 DEF InterleaveTyped
<1>4. InLine(interleaved_packets, next, origin)
  BY <1>2, <1>3 DEF InterleaveInv, Buffer, InLine
<1>5. Ahead(next, origin, highest_audio_ts, highest_video_ts)
  BY <1>2 DEF InterleaveInv, HighestTimes
<1> QED
  BY <1>1, <1>3, <1>4, <1>5 DEF InterleaveInv, Collecting

\* AwaitKeyframe: the video is dropped.
LEMMA AwaitKeyframeKeeps ==
  ASSUME InterleaveInv, NEW s, NEW key, Arrives(s, key),
         AwaitKeyframe(Incoming(s, key))
  PROVE  InterleaveInv'
<1> DEFINE p == Incoming(s, key)
           q == interleaved_packets
           r == NotBefore(p.ts, q)
<1>1. /\ ~received_video /\ p.stream = Video /\ q' = r
      /\ UNCHANGED <<received_audio, received_video, highest_audio_ts,
                     highest_video_ts, offset, out, sent, late>>
  BY DEF AwaitKeyframe, Acceptable
<1>2. ~Started /\ ~Started' /\ InterleaveTyped
  BY <1>1 DEF Started, InterleaveInv
<1>3. /\ q \in Seq(Buffered) /\ InLine(q, next, origin) /\ Lacks(Held(q), Video)
      /\ NumTracks = 1 /\ ~received_audio => Lacks(Held(q), 0)
      /\ Ahead(next, origin, highest_audio_ts, highest_video_ts)
      /\ origin \in [Streams -> Int]
  BY <1>1, <1>2, BeforeStart
<1>4. p.stream = s /\ p \in Buffered /\ p.ts = TimeAt(origin, s, next[s])
  BY <1>2, IncomingIs
<1>5. PICK k \in 1 .. Len(q) + 1 : SuffixFrom(r, q, k)
  BY <1>3, NotBeforeIs
<1> HIDE DEF p, q, r
<1>6. r \in Seq(Buffered) /\ Held(r) \subseteq Held(q)
  BY <1>5 DEF SuffixFrom
<1>7. next \in [Streams -> Nat] /\ next' = [next EXCEPT ![s] = @ + 1]
  BY <1>2, NextIs
<1>8. Sorted(r) /\ Ordered(r) /\ Complete(Held(r), next)
  BY <1>3, <1>5, <1>7, SuffixKeeps DEF InLine
<1>9. Lacks(Held(r), Video) /\ (NumTracks = 1 /\ ~received_audio => Lacks(Held(r), 0))
  BY <1>3, <1>6 DEF Lacks
<1>10. Complete(Held(r), next')
  <2>1. \A x \in Held(r) : x.stream # s /\ x.stream \in Streams
    BY <1>1, <1>4, <1>6, <1>9, HeldAre DEF Lacks
  <2>2. \A x \in Held(r) : next'[x.stream] = next[x.stream]
    BY <1>7, <2>1
  <2> QED
    BY <1>8, <2>2 DEF Complete
<1>11. InLine(r, next', origin)
  BY <1>3, <1>6, <1>8, <1>10 DEF InLine, Timed
<1>12. KeyFirst(Held(r))
  BY <1>9 DEF KeyFirst, Lacks
<1>13. Ahead(next', origin, highest_audio_ts, highest_video_ts)
  BY <1>2, <1>3, <1>4, AheadKept
<1>14. /\ received_audio \in BOOLEAN /\ received_video \in BOOLEAN /\ late \in BOOLEAN
       /\ highest_audio_ts \in Int /\ highest_video_ts \in Int
  BY <1>2 DEF InterleaveTyped
<1> QED
  BY <1>1, <1>2, <1>9, <1>11, <1>12, <1>13, <1>14, StillCollecting DEF q

\* A packet is collected: what the actions before the start have in common.
LEMMA CollectedIs ==
  ASSUME InterleaveInv, NEW s, NEW key, Arrives(s, key), ~Started,
         NEW p, p = Incoming(s, key), NEW q, q = Insert(interleaved_packets, p),
         Acceptable(p)
  PROVE  /\ InLine(q, next', origin) /\ q \in Seq(Buffered)
         /\ Held(q) = Held(interleaved_packets) \cup {p}
         /\ p \in Buffered /\ p.stream = s /\ p.dts = next[s]
         /\ ~late => KeyFirst(Held(q))
         /\ Ahead(next', origin, AudioTs(p), VideoTs(p))
         /\ AudioTs(p) \in Int /\ VideoTs(p) \in Int
<1> DEFINE E == Held(interleaved_packets)
<1>1. /\ InterleaveTyped /\ InLine(interleaved_packets, next, origin)
      /\ interleaved_packets \in Seq(Buffered)
      /\ origin \in [Streams -> Int]
      /\ ~received_video <=> Lacks(E, Video)
      /\ ~late => KeyFirst(E)
      /\ Ahead(next, origin, highest_audio_ts, highest_video_ts)
  BY BeforeStart
<1>2. /\ p \in Buffered /\ p.stream = s /\ p.dts = next[s] /\ p.key = key
      /\ p.ts = TimeAt(origin, s, next[s]) /\ p.ts \in Int
  BY <1>1, IncomingIs
<1>3. InLine(q, next', origin) /\ Held(q) = E \cup {p}
  BY <1>1, <1>2, ArrivalInLine
<1>4. /\ Ahead(next', origin, AudioTs(p), VideoTs(p))
      /\ AudioTs(p) \in Int /\ VideoTs(p) \in Int
  BY <1>1, <1>2, AheadKept
<1>5. \A x \in E : x.stream = s => x.dts < next[s] /\ x.dts \in Nat
  BY <1>1, HeldAre DEF InLine, Complete
<1>6. next[s] \in Nat
  BY <1>1, NextIs
<1>7. KeyFirst(E) => KeyFirst(E \cup {p})
  <2> HIDE DEF E
  <2> SUFFICES ASSUME KeyFirst(E), NEW x \in E \cup {p}, x.stream = Video,
                      \A y \in E \cup {p} : y.stream = Video => x.dts <= y.dts
               PROVE  x.key
    BY DEF KeyFirst
  <2>1. CASE x \in E
    BY <2>1 DEF KeyFirst
  <2>2. CASE x = p
    <3>1. \A y \in E : y.stream # Video
      BY <1>2, <1>5, <1>6, <2>2
    <3>2. ~received_video
      BY <1>1, <3>1 DEF Lacks
    <3> QED
      BY <2>2, <3>2 DEF Acceptable
  <2> QED
    BY <2>1, <2>2
<1>8. q \in Seq(Buffered)
  BY <1>3 DEF InLine
<1> QED
  BY <1>1, <1>2, <1>3, <1>4, <1>7, <1>8

\* Collect: a kind is still to come.
LEMMA CollectKeeps ==
  ASSUME InterleaveInv, NEW s, NEW key, Arrives(s, key), Collect(Incoming(s, key))
  PROVE  InterleaveInv'
<1> DEFINE p == Incoming(s, key)
           q == Insert(interleaved_packets, p)
<1>1. /\ ~Started /\ Acceptable(p) /\ ~(ReceivesAudio(p) /\ ReceivesVideo(p))
      /\ interleaved_packets' = q
      /\ received_audio' = ReceivesAudio(p) /\ received_video' = ReceivesVideo(p)
      /\ highest_audio_ts' = AudioTs(p) /\ highest_video_ts' = VideoTs(p)
      /\ UNCHANGED <<offset, out, sent, late>>
  BY DEF Collect, Collected
<1>2. /\ ~received_video <=> Lacks(Held(interleaved_packets), Video)
      /\ NumTracks = 1 /\ ~received_audio => Lacks(Held(interleaved_packets), 0)
      /\ InterleaveTyped
  BY <1>1, BeforeStart
<1> HIDE DEF p, q
<1>3. /\ InLine(q, next', origin) /\ Held(q) = Held(interleaved_packets) \cup {p}
      /\ ~late => KeyFirst(Held(q))
      /\ Ahead(next', origin, AudioTs(p), VideoTs(p))
      /\ AudioTs(p) \in Int /\ VideoTs(p) \in Int
  BY <1>1, CollectedIs DEF p, q
<1>4. ~received_video' <=> Lacks(Held(q), Video)
  BY <1>1, <1>2, <1>3 DEF Lacks, ReceivesVideo
<1>5. NumTracks = 1 /\ ~received_audio' => Lacks(Held(q), 0)
  BY <1>1, <1>2, <1>3, StreamsAre DEF Lacks, ReceivesAudio
<1>6. ~Started' /\ received_audio' \in BOOLEAN /\ received_video' \in BOOLEAN
  BY <1>1, <1>2 DEF Started, InterleaveTyped, ReceivesAudio, ReceivesVideo
<1>7. late' = late /\ late \in BOOLEAN
  BY <1>1, <1>2 DEF InterleaveTyped
<1> QED
  BY <1>1, <1>3, <1>4, <1>5, <1>6, <1>7, StillCollecting

\* StartTooEarly: a track is missing.
LEMMA StartTooEarlyKeeps ==
  ASSUME InterleaveInv, NEW s, NEW key, Arrives(s, key), StartTooEarly(Incoming(s, key))
  PROVE  InterleaveInv'
<1> DEFINE p == Incoming(s, key)
           q == Insert(interleaved_packets, p)
<1>1. /\ ~Started /\ Acceptable(p) /\ Missing(q) # {}
      /\ interleaved_packets' = q
      /\ received_video' = (Video \notin Missing(q))
      /\ received_audio' = (Video \in Missing(q))
      /\ highest_audio_ts' = AudioTs(p) /\ highest_video_ts' = VideoTs(p)
      /\ UNCHANGED <<offset, out, sent, late>>
  BY DEF StartTooEarly, Collected
<1> HIDE DEF p, q
<1>2. /\ InLine(q, next', origin) /\ q \in Seq(Buffered)
      /\ ~late => KeyFirst(Held(q))
      /\ Ahead(next', origin, AudioTs(p), VideoTs(p))
      /\ AudioTs(p) \in Int /\ VideoTs(p) \in Int
  BY <1>1, CollectedIs DEF p, q
<1>3. \A t \in Streams : t \in Missing(q) <=> Lacks(Held(q), t)
  BY <1>2, FirstIs
<1>4. ~received_video' <=> Lacks(Held(q), Video)
  BY <1>1, <1>3, StreamsAre
<1>5. NumTracks = 1 /\ ~received_audio' => Lacks(Held(q), 0)
  <2>1. Missing(q) \subseteq Streams
    BY DEF Missing
  <2> QED
    BY <1>1, <1>3, <2>1, StreamsAre
<1>6. ~Started' /\ received_audio' \in BOOLEAN /\ received_video' \in BOOLEAN
  <2>1. ~(received_audio' /\ received_video')
    BY <1>1, Zenon
  <2>2. Started' <=> (received_audio' /\ received_video')
    BY DEF Started
  <2> QED
    BY <1>1, <2>1, <2>2
<1>7. late' = late /\ late \in BOOLEAN
  BY <1>1 DEF InterleaveInv, InterleaveTyped
<1> QED
  BY <1>1, <1>2, <1>4, <1>5, <1>6, <1>7, StillCollecting

\* What is left when the start was pruned.
LEMMA PrunedInLine ==
  ASSUME NEW q \in Seq(Buffered), NEW n \in [Streams -> Nat],
         NEW b, InLine(q, n, b), Missing(q) = {},
         NEW lt, lt \/ KeyFirst(Held(q))
  PROVE  /\ InLine(Pruned(q), n, b) /\ Pruned(q) \in Seq(Buffered)
         /\ Held(Pruned(q)) \subseteq Held(q)
         /\ lt \/ Premature(q) \/ KeyFirst(Held(Pruned(q)))
<1>1. PICK k \in 1 .. Len(q) + 1 : SuffixFrom(Pruned(q), q, k) /\ StartsAt(q, k)
  BY PrunedIs
<1>2. Pruned(q) \in Seq(Buffered) /\ Held(Pruned(q)) \subseteq Held(q)
  BY <1>1 DEF SuffixFrom
<1>3. /\ Sorted(q) /\ Ordered(q) /\ Complete(Held(q), n) /\ Timed(Held(q), b)
  BY DEF InLine
<1>4. /\ Sorted(Pruned(q)) /\ Ordered(Pruned(q)) /\ Complete(Held(Pruned(q)), n)
  BY <1>1, <1>3, SuffixKeeps
<1>5. InLine(Pruned(q), n, b)
  BY <1>2, <1>3, <1>4 DEF InLine, Timed
<1>6. ~lt /\ ~Premature(q) => KeyFirst(Held(Pruned(q)))
  BY <1>1, <1>3, PrunedKeyFirst
<1> QED
  BY <1>2, <1>5, <1>6

\* StartPrunedAway: a stream has lost its packets and is waited for again.
LEMMA StartPrunedAwayKeeps ==
  ASSUME InterleaveInv, NEW s, NEW key, Arrives(s, key), StartPrunedAway(Incoming(s, key))
  PROVE  InterleaveInv'
<1> DEFINE p == Incoming(s, key)
           q == Insert(interleaved_packets, p)
           r == Pruned(q)
<1>1. /\ ~Started /\ Acceptable(p) /\ Missing(q) = {} /\ Missing(r) # {}
      /\ interleaved_packets' = r
      /\ received_video' = (Video \notin Missing(r))
      /\ received_audio' = (Missing(r) \subseteq {Video})
      /\ highest_audio_ts' = AudioTs(p) /\ highest_video_ts' = VideoTs(p)
      /\ late' = (late \/ Premature(q))
      /\ UNCHANGED <<offset, out, sent>>
  BY DEF StartPrunedAway, Collected
<1> HIDE DEF p, q, r
<1>2. /\ InLine(q, next', origin) /\ q \in Seq(Buffered)
      /\ ~late => KeyFirst(Held(q))
      /\ Ahead(next', origin, AudioTs(p), VideoTs(p))
      /\ AudioTs(p) \in Int /\ VideoTs(p) \in Int
  BY <1>1, CollectedIs DEF p, q
<1>3. next' \in [Streams -> Nat] /\ late \in BOOLEAN
  BY NextIs DEF InterleaveInv, InterleaveTyped
<1>4. /\ InLine(r, next', origin) /\ r \in Seq(Buffered)
      /\ late \/ Premature(q) \/ KeyFirst(Held(r))
  BY <1>1, <1>2, <1>3, PrunedInLine DEF r
<1>5. \A t \in Streams : t \in Missing(r) <=> Lacks(Held(r), t)
  BY <1>4, FirstIs
<1>6. Missing(r) \subseteq Streams
  BY DEF Missing
<1>7. ~received_video' <=> Lacks(Held(r), Video)
  BY <1>1, <1>5, StreamsAre
<1>8. NumTracks = 1 /\ ~received_audio' => Lacks(Held(r), 0)
  BY <1>1, <1>5, <1>6, StreamsAre
<1>9. ~Started' /\ received_audio' \in BOOLEAN /\ received_video' \in BOOLEAN
  BY <1>1 DEF Started
<1>10. late' \in BOOLEAN /\ (~late' => KeyFirst(Held(r)))
  BY <1>1, <1>3, <1>4 DEF Premature
<1> QED
  BY <1>1, <1>2, <1>4, <1>7, <1>8, <1>9, <1>10, StillCollecting

-----------------------------------------------------------------------------
(* From the start on.                                                      *)

\* In terms of the real time of the packets that count as zero.
Near(b, off) ==
  \A t \in Tracks :
    /\ \/ TimeAt(b, t, off[t]) - TimeAt(b, Video, off[Video]) <= VideoDuration
       \/ 2 * (TimeAt(b, t, off[t]) - TimeAt(b, Video, off[Video])) <= AudioDuration
    /\ -(TimeAt(b, t, off[t]) - TimeAt(b, Video, off[Video])) <= AudioDuration + MaxLead

\* InSync in these terms.
LEMMA NearIs == InSync <=> (Started => Near(origin, offset))
BY DEF InSync, AudioNotLate, AudioNotEarly, Near, Lag, SystemTime, TimeAt

\* The muxer gets the packet that is next in its stream, from q.
Handed(q) ==
  /\ ~stopped /\ Sends(out', q, next', offset', late')
  /\ Timed(Held(q), Zeros') /\ Flows(Held(q), next', offset', sent, late')
  /\ NumTracks = 1 => out.ts <= out'.ts

\* Packets are sent, from q, which are in line with the times in b.
LEMMA StillFlowing ==
  ASSUME InterleaveInv, NEW s, NEW key, Arrives(s, key), Started',
         received_audio' \in BOOLEAN, received_video' \in BOOLEAN,
         offset' \in [Streams -> 0 .. MaxDts], late' \in BOOLEAN,
         NEW b, b = [t \in Streams |-> -(offset'[t] * Duration(t))],
         NEW q, InLine(q, next', b), Held(q) # {},
         Flows(Held(q), next', offset', sent, late') \/ stopped,
         NumTracks = 1 /\ ~stopped => Passed(Held(q), next', b, out),
         highest_audio_ts' \in Int, highest_video_ts' \in Int,
         Ahead(next', b, highest_audio_ts', highest_video_ts'),
         SendInterleaved(q, highest_audio_ts', highest_video_ts'),
         NumTracks = 1 => Near(origin, offset')
  PROVE  /\ InterleaveInv'
         /\ out' = out \/ Handed(q)
<1>1. /\ InterleaveTyped /\ Lead
      /\ stopped' = stopped /\ origin' = origin /\ origin \in [Streams -> Nat]
  BY DEF InterleaveInv, Arrives, InterleaveTyped
<1>2. Zeros' = b
  BY DEF Zeros
<1>3. next' \in [Streams -> 0 .. MaxDts] /\ Together(next', origin)
  BY <1>1, NextIs, LeadKept
<1>4. b \in [Streams -> Int] /\ offset' \in [Streams -> Nat]
  <2>1. offset' \in [Streams -> Nat]
    BY InterleaveConstants
  <2>2. \A t \in Streams : -(offset'[t] * Duration(t)) \in Int
    <3> SUFFICES ASSUME NEW t \in Streams PROVE -(offset'[t] * Duration(t)) \in Int
      OBVIOUS
    <3>1. offset'[t] \in Nat /\ Duration(t) \in Nat
      BY <2>1, InterleaveConstants
    <3> QED
      BY <3>1
  <2> QED
    BY <2>1, <2>2
<1>5. q \in Seq(Buffered)
  BY DEF InLine
<1>6. /\ InLine(interleaved_packets', next', b)
      /\ out' \in [stream : Streams, dts : Int, key : BOOLEAN, ts : Int]
      /\ sent' \in [Streams -> -1 .. MaxDts]
      /\ ~stopped => Flows(Held(interleaved_packets'), next', offset', sent', late')
      /\ NumTracks = 1 /\ Passed(Held(q), next', b, out) /\ ~stopped =>
           Passed(Held(interleaved_packets'), next', b, out')
      /\ out' = out \/ (~stopped /\ Sends(out', q, next', offset', late'))
  BY <1>1, <1>3, <1>4, <1>5, SendKeeps
<1>7. InterleaveTyped'
  BY <1>1, <1>3, <1>6 DEF InterleaveTyped, InLine
<1>8. Buffer'
  BY <1>2, <1>6 DEF Buffer, InLine
<1>9. Collecting'
  BY DEF Collecting
<1>10. Flowing'
  BY <1>1, <1>2, <1>6 DEF Flowing
<1>11. HighestTimes'
  BY <1>2 DEF HighestTimes
<1>12. Lead'
  BY <1>1, <1>3 DEF Lead
<1>13. (NumTracks = 1 => InSync)'
  <2>1. InSync' <=> (Started' => Near(origin', offset'))
    BY DEF InSync, AudioNotLate, AudioNotEarly, Near, Lag, SystemTime, TimeAt
  <2> QED
    BY <1>1, <2>1
<1>14. InterleaveInv'
  BY <1>7, <1>8, <1>9, <1>10, <1>11, <1>12, <1>13 DEF InterleaveInv
<1>15. ~stopped /\ Sends(out', q, next', offset', late') => Handed(q)
  <2>1. Timed(Held(q), Zeros')
    BY <1>2 DEF InLine
  <2>2. ~stopped /\ NumTracks = 1 /\ out' \in Held(q) => out.ts <= out'.ts
    BY DEF Passed
  <2> QED
    BY <2>1, <2>2 DEF Handed, Sends
<1> QED
  BY <1>6, <1>14, <1>15

\* Times that count from the packets in off.
LEMMA RelativeTimes ==
  ASSUME NEW off \in [Streams -> Nat],
         NEW b, b = [t \in Streams |-> -(off[t] * Duration(t))]
  PROVE  /\ b \in [Streams -> Int]
         /\ \A t \in Streams, d \in Int :
              /\ TimeAt(b, t, d) = (d - off[t]) * Duration(t)
              /\ off[t] <= d => 0 <= TimeAt(b, t, d)
         /\ \A c \in [Streams -> Int], t \in Streams, d \in Int :
              TimeAt(b, t, d) = TimeAt(c, t, d) - TimeAt(c, t, off[t])
<1>1. ASSUME NEW t \in Streams
      PROVE  off[t] \in Int /\ Duration(t) \in Nat /\ -(off[t] * Duration(t)) \in Int
  <2>1. off[t] \in Int /\ Duration(t) \in Nat
    BY InterleaveConstants
  <2> QED
    BY <2>1
<1>2. b \in [Streams -> Int]
  BY <1>1
<1>3. ASSUME NEW t \in Streams, NEW d \in Int
      PROVE  /\ TimeAt(b, t, d) = (d - off[t]) * Duration(t)
             /\ off[t] <= d => 0 <= TimeAt(b, t, d)
             /\ \A c \in [Streams -> Int] :
                  TimeAt(b, t, d) = TimeAt(c, t, d) - TimeAt(c, t, off[t])
  <2> DEFINE o == off[t]
             D == Duration(t)
  <2>1. o \in Int /\ D \in Nat
    BY <1>1
  <2>2. TimeAt(b, t, d) = -(o * D) + d * D
    BY DEF TimeAt
  <2>3. \A c : TimeAt(c, t, d) = c[t] + d * D /\ TimeAt(c, t, off[t]) = c[t] + o * D
    BY DEF TimeAt
  <2> HIDE DEF o, D
  <2>4. TimeAt(b, t, d) = (d - o) * D
    BY <2>1, <2>2
  <2>5. o <= d => 0 <= (d - o) * D
    <3> SUFFICES ASSUME o <= d PROVE 0 <= (d - o) * D
      OBVIOUS
    <3>1. d - o \in Nat
      BY <2>1
    <3> QED
      BY <2>1, <3>1
  <2>6. ASSUME NEW c \in [Streams -> Int]
        PROVE  TimeAt(b, t, d) = TimeAt(c, t, d) - TimeAt(c, t, off[t])
    <3>1. c[t] \in Int
      OBVIOUS
    <3>2. TimeAt(c, t, d) = c[t] + d * D /\ TimeAt(c, t, off[t]) = c[t] + o * D
      BY <2>3
    <3> QED
      BY <2>1, <2>2, <3>1, <3>2
  <2> QED
    BY <2>4, <2>5, <2>6 DEF o, D
<1> QED
  BY <1>2, <1>3

\* After the start the times count from the offsets.
LEMMA ZerosAre ==
  ASSUME InterleaveTyped, Started
  PROVE  /\ Zeros \in [Streams -> Int]
         /\ Zeros = [t \in Streams |-> -(offset[t] * Duration(t))]
         /\ \A t \in Streams, d \in Int :
              TimeAt(Zeros, t, d) = (d - offset[t]) * Duration(t)
<1>1. offset \in [Streams -> Nat]
  BY InterleaveConstants DEF InterleaveTyped
<1>2. Zeros = [t \in Streams |-> -(offset[t] * Duration(t))]
  BY DEF Zeros
<1> QED
  BY <1>1, <1>2, RelativeTimes

\* Types of the histories.
LEMMA SentInt ==
  InterleaveTyped => \A t \in Streams : sent[t] \in Int /\ offset[t] \in Nat
BY InterleaveConstants DEF InterleaveTyped

\* Continue, and what it sends.
LEMMA ContinueKeeps ==
  ASSUME InterleaveInv, NEW s, NEW key, Arrives(s, key), Continue(Incoming(s, key))
  PROVE  /\ InterleaveInv'
         /\ out' = out \/ \E q : Handed(q)
<1> DEFINE p == Incoming(s, key)
           x == Relative(p, offset)
           q == Insert(interleaved_packets, x)
           E == Held(interleaved_packets)
<1>1. /\ Started /\ UNCHANGED <<received_audio, received_video, offset, late>>
      /\ highest_audio_ts' = AudioTs(x) /\ highest_video_ts' = VideoTs(x)
      /\ SendInterleaved(q, highest_audio_ts', highest_video_ts')
  BY DEF Continue
<1>2. InterleaveTyped /\ Started'
  BY <1>1 DEF InterleaveInv, Started
<1>3. /\ Zeros \in [Streams -> Int]
      /\ Zeros = [t \in Streams |-> -(offset'[t] * Duration(t))]
      /\ \A t \in Streams, d \in Int : TimeAt(Zeros, t, d) = (d - offset[t]) * Duration(t)
  BY <1>1, <1>2, ZerosAre
<1>4. /\ p \in Buffered /\ p.stream = s /\ p.dts = next[s] /\ p.key = key
  BY <1>2, IncomingIs
<1>5. /\ s \in Streams /\ next[s] \in Nat
      /\ \A t \in Streams : /\ next[t] \in Nat /\ next[t] <= next'[t] /\ next'[t] \in Nat
                            /\ next'[t] = IF t = s THEN next[s] + 1 ELSE next[t]
  BY <1>2, NextIs DEF Arrives
<1>6. /\ x \in Buffered /\ x.stream = s /\ x.dts = next[s] /\ x.key = key
      /\ x.ts = TimeAt(Zeros, s, next[s]) /\ x.ts \in Int
  <2>1. x = [p EXCEPT !.ts = (p.dts - offset[p.stream]) * Duration(p.stream)]
    BY DEF Relative
  <2>2. (p.dts - offset[p.stream]) * Duration(p.stream) = TimeAt(Zeros, s, next[s])
    BY <1>3, <1>4, <1>5
  <2>3. TimeAt(Zeros, s, next[s]) \in Int
    <3>1. next[s] \in Int
      BY <1>5
    <3> QED
      BY <1>3, <1>5, <3>1, Times
  <2> HIDE DEF x, p
  <2> QED
    BY <1>4, <2>1, <2>2, <2>3 DEF Buffered
<1> HIDE DEF p, x, q
<1>7. InLine(interleaved_packets, next, Zeros)
  BY <1>2 DEF InterleaveInv, InLine, Buffer, InterleaveTyped
<1>8. InLine(q, next', Zeros) /\ Held(q) = E \cup {x}
  BY <1>2, <1>3, <1>6, <1>7, ArrivalInLine DEF q
<1>9. /\ Ahead(next', Zeros, highest_audio_ts', highest_video_ts')
      /\ highest_audio_ts' \in Int /\ highest_video_ts' \in Int
  <2>1. Ahead(next, Zeros, highest_audio_ts, highest_video_ts)
    BY DEF InterleaveInv, HighestTimes
  <2> QED
    BY <1>1, <1>2, <1>3, <1>6, <2>1, AheadKept
<1>10. ASSUME ~stopped
       PROVE  Flows(Held(q), next', offset', sent, late')
  <2>1. Flows(E, next, offset, sent, late)
    BY <1>1, <1>10 DEF InterleaveInv, Flowing
  <2> DEFINE at(t) == ToSend(t, offset, sent)
  <2>2. \A t \in Streams : at(t) \in Int /\ offset[t] \in Nat
    BY <1>2, SentInt DEF ToSend
  <2>3. \A t \in Streams :
          /\ offset[t] < next[t] /\ offset[t] <= at(t) /\ at(t) <= next[t]
          /\ at(t) < next[t] => \E y \in E : y.stream = t /\ y.dts = at(t)
    BY <2>1 DEF Flows
  <2>4. \A y \in E : at(y.stream) <= y.dts
    BY <2>1 DEF Flows
  <2>5. ~late => \A y \in E : y.stream = Video /\ y.dts = offset[Video] => y.key
    BY <2>1 DEF Flows
  <2> HIDE DEF at, E
  <2>6. ASSUME NEW t \in Streams
        PROVE  /\ offset[t] < next'[t] /\ offset[t] <= at(t) /\ at(t) <= next'[t]
               /\ at(t) < next'[t] => \E y \in E \cup {x} : y.stream = t /\ y.dts = at(t)
    <3>1. offset[t] < next'[t] /\ offset[t] <= at(t) /\ at(t) <= next'[t]
      BY <1>5, <2>2, <2>3
    <3>2. CASE at(t) < next[t]
      BY <2>3, <3>1, <3>2
    <3>3. CASE at(t) = next[t]
      BY <1>5, <1>6, <3>1, <3>3
    <3>4. at(t) < next[t] \/ at(t) = next[t]
      BY <1>5, <2>2, <2>3
    <3> QED
      BY <3>2, <3>3, <3>4, <3>1
  <2>7. \A y \in E \cup {x} : at(y.stream) <= y.dts
    BY <1>5, <1>6, <2>3, <2>4
  <2>8. ~late => \A y \in E \cup {x} : y.stream = Video /\ y.dts = offset[Video] => y.key
    <3> SUFFICES ASSUME ~late, x.stream = Video, x.dts = offset[Video] PROVE FALSE
      BY <2>5
    <3>1. offset[s] < next[s] /\ next[s] = offset[s]
      BY <1>5, <1>6, <2>3
    <3> QED
      BY <1>5, <2>2, <3>1
  <2> QED
    BY <1>1, <1>8, <2>6, <2>7, <2>8 DEF Flows, at
<1>11. ASSUME NumTracks = 1, ~stopped
       PROVE  Passed(Held(q), next', Zeros, out)
  <2>1. Passed(E, next, Zeros, out)
    BY <1>1, <1>11 DEF InterleaveInv, Flowing
  <2>2. out.ts <= x.ts
    BY <1>5, <1>6, <2>1 DEF Passed
  <2>3. out.ts \in Int
    BY <1>2 DEF InterleaveTyped
  <2>4. ASSUME NEW t \in Streams
        PROVE  out.ts <= TimeAt(Zeros, t, next'[t])
    <3> DEFINE d == next[t]
               e == next'[t]
    <3>1. d \in Int /\ e \in Int /\ d <= e
      BY <1>5
    <3> HIDE DEF d, e
    <3>2. /\ TimeAt(Zeros, t, d) \in Int /\ TimeAt(Zeros, t, e) \in Int
          /\ d < e => TimeAt(Zeros, t, d) + Duration(t) <= TimeAt(Zeros, t, e)
          /\ Duration(t) \in Nat
      BY <1>3, <3>1, Times
    <3>3. TimeAt(Zeros, t, d) <= TimeAt(Zeros, t, e)
      <4>1. d = e \/ d < e
        BY <3>1
      <4> QED
        BY <3>2, <4>1
    <3>4. out.ts <= TimeAt(Zeros, t, d)
      BY <2>1 DEF Passed, d
    <3> QED
      BY <2>3, <3>2, <3>3, <3>4 DEF e
  <2> QED
    BY <1>8, <2>1, <2>2, <2>4 DEF Passed
<1>12. NumTracks = 1 => Near(origin, offset')
  BY <1>1, NearIs DEF InterleaveInv
<1>13. /\ offset' \in [Streams -> 0 .. MaxDts] /\ late' \in BOOLEAN
       /\ received_audio' \in BOOLEAN /\ received_video' \in BOOLEAN
  BY <1>1, <1>2 DEF InterleaveTyped
<1>14. Held(q) # {}
  BY <1>8
<1>15. InterleaveInv' /\ (out' = out \/ Handed(q))
  BY <1>1, <1>2, <1>3, <1>8, <1>9, <1>10, <1>11, <1>12, <1>13, <1>14, StillFlowing
<1> QED
  BY <1>15

-----------------------------------------------------------------------------
(* The start.                                                              *)

\* f is the oldest packet of stream t.
OldestOf(f, E, n, b, t) ==
  /\ f \in E /\ f.stream = t
  /\ f.dts \in Nat /\ f.dts < n[t]
  /\ f.ts = TimeAt(b, t, f.dts) /\ f.ts \in Int
  /\ \A x \in E : x.stream = t => f.dts <= x.dts /\ f.ts <= x.ts

\* The first packets that are left are the starts of the streams.
LEMMA FirstOf ==
  ASSUME NEW r \in Seq(Buffered), NEW n \in [Streams -> Nat],
         NEW b \in [Streams -> Int], InLine(r, n, b), Missing(r) = {}, NEW t \in Streams
  PROVE  OldestOf(First(r, t), Held(r), n, b, t)
<1>1. Ordered(r) /\ Complete(Held(r), n) /\ Timed(Held(r), b) /\ t \notin Missing(r)
  BY DEF InLine
<1> DEFINE f == First(r, t)
<1>2. f \in Held(r) /\ f.stream = t
  BY <1>1, FirstIs
<1>3. \A x \in Held(r) : x.stream = t => f.dts <= x.dts
  BY <1>1, FirstIsOldest
<1> HIDE DEF f
<1>4. /\ f.dts \in Nat /\ f.dts < n[t]
      /\ f.ts = TimeAt(b, t, f.dts) /\ f.ts \in Int
  BY <1>1, <1>2, HeldAre DEF Complete, Timed
<1>5. ASSUME NEW x \in Held(r), x.stream = t
      PROVE  f.ts <= x.ts
  <2> DEFINE d == f.dts
             e == x.dts
  <2>1. d \in Int /\ e \in Int /\ d <= e
    BY <1>3, <1>4, <1>5, HeldAre
  <2>2. f.ts = TimeAt(b, t, d) /\ x.ts = TimeAt(b, t, e)
    BY <1>1, <1>4, <1>5 DEF Timed
  <2> HIDE DEF d, e
  <2>3. /\ TimeAt(b, t, d) \in Int /\ TimeAt(b, t, e) \in Int
        /\ d < e => TimeAt(b, t, d) + Duration(t) <= TimeAt(b, t, e)
        /\ Duration(t) \in Nat
    BY <2>1, Times
  <2>4. d = e \/ d < e
    BY <2>1
  <2> QED
    BY <2>2, <2>3, <2>4
<1> QED
  BY <1>2, <1>3, <1>4, <1>5 DEF f, OldestOf

\* The start of audio is less than a frame behind that of video, or not farther from
\* it than the packet before; and it is the last before video, if audio has come far
\* enough.  One stream has one packet only, so that audio that comes too late leaves
\* nothing to start with.
LEMMA StartsNear ==
  ASSUME NumTracks = 1, NEW q \in Seq(Buffered), NEW n \in [Streams -> Nat],
         NEW b \in [Streams -> Int], InLine(q, n, b), Together(n, b),
         Missing(q) = {}, Missing(Pruned(q)) = {},
         NEW s \in Streams, NEW p, \A x \in Held(q) : x.stream = s => x = p,
         NEW off, off = [t \in Streams |-> First(Pruned(q), t).dts]
  PROVE  Near(b, off)
<1> DEFINE r == Pruned(q)
           f == First(r, 0)
           g == First(q, 0)
           h == First(r, Video)
           v == First(q, Video)
           c == q[ClosestAudioIdx(q)]
<1>1. PICK k \in 1 .. Len(q) + 1 : SuffixFrom(r, q, k) /\ StartsAt(q, k)
  BY PrunedIs
<1>2. /\ Video \in Streams /\ 0 \in Streams /\ 0 # Video
      /\ \A t \in Streams : t = Video \/ t = 0
      /\ VideoDuration \in Nat /\ AudioDuration \in Nat /\ MaxLead \in Nat
      /\ Duration(0) = AudioDuration
  BY StreamsAre, InterleaveConstants DEF Duration
<1>3. /\ Len(q) \in Nat
      /\ \A i \in 1 .. Len(q) : /\ q[i].ts \in Int /\ q[i].dts \in Nat
                                /\ q[i].stream \in Streams /\ q[i] \in Held(q)
  BY ElementsAre, HeldAre
<1>4. /\ Sorted(q) /\ Ordered(q) /\ Complete(Held(q), n) /\ Timed(Held(q), b)
  BY DEF InLine
<1>5. r \in Seq(Buffered) /\ Held(r) \subseteq Held(q) /\ InLine(r, n, b)
  <2>1. r \in Seq(Buffered) /\ Held(r) \subseteq Held(q)
    BY <1>1 DEF SuffixFrom
  <2>2. Sorted(r) /\ Ordered(r) /\ Complete(Held(r), n)
    BY <1>1, <1>4, SuffixKeeps
  <2> QED
    BY <1>4, <2>1, <2>2 DEF InLine, Timed
<1>6. ~Premature(q)
  <2> SUFFICES ASSUME Premature(q) PROVE FALSE
    OBVIOUS
  <2>1. FirstIdx(q, s) < k /\ k \in Nat
    BY <1>1 DEF StartsAt
  <2>2. s \notin Missing(q) /\ s \notin Missing(r)
    OBVIOUS
  <2>3. /\ FirstIdx(q, s) \in 1 .. Len(q) /\ q[FirstIdx(q, s)].stream = s
    BY <2>2, FirstIs
  <2>4. First(r, s) \in Held(r) /\ First(r, s).stream = s
    BY <1>5, <2>2, FirstIs
  <2>5. PICK i \in k .. Len(q) : First(r, s) = q[i]
    BY <1>1, <2>4 DEF SuffixFrom
  <2>6. i \in 1 .. Len(q) /\ FirstIdx(q, s) < i
    BY <1>3, <2>1, <2>3, <2>5
  <2>7. q[i].stream = s /\ q[i] = q[FirstIdx(q, s)]
    BY <1>3, <2>3, <2>4, <2>5, <2>6
  <2>8. q[FirstIdx(q, s)].dts < q[i].dts
    BY <1>4, <2>3, <2>6, <2>7 DEF Ordered
  <2> QED
    BY <1>3, <2>6, <2>7, <2>8
<1>7. /\ k <= FirstIdx(q, Video) /\ k <= ClosestAudioIdx(q)
      /\ k \in {FirstIdx(q, Video), ClosestAudioIdx(q)}
  BY <1>1, <1>6 DEF StartsAt
<1>8. g.ts - v.ts <= VideoDuration
  <2>1. ~(First(q, NumTracks - 1).ts - First(q, Video).ts > VideoDuration)
    BY <1>6 DEF Premature
  <2>2. NumTracks - 1 = 0
    OBVIOUS
  <2>3. g.ts \in Int /\ v.ts \in Int
    BY <1>2, FirstOf DEF OldestOf
  <2> QED
    BY <1>2, <2>1, <2>2, <2>3
<1>9. /\ f \in Held(r) /\ f.stream = 0 /\ f.dts \in Nat /\ f.dts < n[0]
      /\ f.ts = TimeAt(b, 0, f.dts) /\ f.ts \in Int
      /\ \A x \in Held(r) : x.stream = 0 => f.dts <= x.dts /\ f.ts <= x.ts
      /\ h \in Held(r) /\ h.stream = Video /\ h.dts \in Nat /\ h.dts < n[Video]
      /\ h.ts = TimeAt(b, Video, h.dts) /\ h.ts \in Int
      /\ \A x \in Held(r) : x.stream = Video => h.dts <= x.dts /\ h.ts <= x.ts
  <2>1. OldestOf(f, Held(r), n, b, 0)
    BY <1>2, <1>5, FirstOf
  <2>2. OldestOf(h, Held(r), n, b, Video)
    BY <1>2, <1>5, FirstOf
  <2> HIDE DEF f, h, r
  <2> QED
    BY <2>1, <2>2 DEF OldestOf
<1>10. /\ g \in Held(q) /\ g.stream = 0 /\ g.dts \in Nat /\ g.ts \in Int
       /\ g.ts = TimeAt(b, 0, g.dts)
       /\ \A x \in Held(q) : x.stream = 0 => g.dts <= x.dts
       /\ v \in Held(q) /\ v.stream = Video /\ v.dts \in Nat /\ v.ts \in Int
       /\ \A x \in Held(q) : x.stream = Video => v.dts <= x.dts /\ v.ts <= x.ts
  <2>1. OldestOf(g, Held(q), n, b, 0)
    BY <1>2, FirstOf
  <2>2. OldestOf(v, Held(q), n, b, Video)
    BY <1>2, FirstOf
  <2> HIDE DEF g, v
  <2> QED
    BY <2>1, <2>2 DEF OldestOf
<1>11. /\ FirstIdx(q, Video) \in 1 .. Len(q) /\ v = q[FirstIdx(q, Video)]
  <2>1. Video \notin Missing(q)
    OBVIOUS
  <2> QED
    BY <1>2, <2>1, FirstIs
<1>12. /\ ClosestAudioIdx(q) \in 1 .. Len(q) /\ c.stream = 0
       /\ \A x \in Held(q) : x.stream = 0 => Distance(c.ts, v.ts) <= Distance(x.ts, v.ts)
  BY <1>2, <1>3, ClosestIs
<1>13. /\ \A i \in k .. Len(q) : q[i] \in Held(r)
       /\ \A x \in Held(r) : \E i \in k .. Len(q) : x = q[i]
  BY <1>1 DEF SuffixFrom
<1>14. c \in Held(r) /\ v \in Held(r) /\ c.ts \in Int /\ f.ts <= c.ts /\ f.dts <= c.dts
       /\ c \in Held(q)
  <2>1. ClosestAudioIdx(q) \in k .. Len(q) /\ FirstIdx(q, Video) \in k .. Len(q)
    BY <1>7, <1>11, <1>12
  <2> QED
    BY <1>3, <1>9, <1>11, <1>12, <1>13, <2>1
<1>15. h.ts = v.ts
  <2>1. h \in Held(q)
    BY <1>5, <1>9
  <2> QED
    BY <1>9, <1>10, <1>14, <2>1
<1>16. off[0] = f.dts /\ off[Video] = h.dts
  BY <1>2
<1> HIDE DEF r, f, g, h, v, c
<1>17. f.ts - v.ts <= VideoDuration \/ 2 * (f.ts - v.ts) <= AudioDuration
  <2>1. CASE f.dts = g.dts
    BY <1>8, <1>9, <1>10, <2>1
  <2>2. CASE f.dts # g.dts
    <3>1. f \in Held(q) /\ g.dts < f.dts
      BY <1>5, <1>9, <1>10, <2>2
    <3>2. f.dts - 1 \in Nat /\ f.dts - 1 < n[0] /\ n[0] \in Nat
      <4>1. n[0] \in Nat
        BY <1>2
      <4>2. f.dts \in Nat /\ g.dts \in Nat /\ f.dts < n[0]
        BY <1>9, <1>10
      <4> QED
        BY <3>1, <4>1, <4>2
    <3>3. PICK y \in Held(q) : y.stream = 0 /\ y.dts = f.dts - 1
      <4>1. CASE g.dts = f.dts - 1
        BY <1>10, <4>1
      <4>2. CASE g.dts < f.dts - 1
        BY <1>4, <1>10, <3>2, <4>2 DEF Complete
      <4> QED
        BY <1>9, <1>10, <3>1, <4>1, <4>2
    <3>4. y \notin Held(r)
      BY <1>9, <3>3
    <3>5. y.ts = TimeAt(b, 0, f.dts - 1) /\ f.ts = y.ts + AudioDuration /\ y.ts \in Int
      <4>1. y.ts = TimeAt(b, 0, f.dts - 1)
        BY <1>4, <3>3 DEF Timed
      <4> DEFINE d == f.dts - 1
      <4>2. d \in Int /\ f.dts = d + 1
        BY <1>9
      <4> HIDE DEF d
      <4>3. TimeAt(b, 0, d + 1) = TimeAt(b, 0, d) + Duration(0) /\ TimeAt(b, 0, d) \in Int
        BY <1>2, <4>2, Times
      <4> QED
        BY <1>2, <1>9, <4>1, <4>2, <4>3 DEF d
    <3>6. PICK j \in 1 .. Len(q) : y = q[j]
      BY HeldAre
    <3>7. j < k
      BY <1>3, <1>13, <3>4, <3>6
    <3>8. y.ts <= v.ts
      <4>1. j < FirstIdx(q, Video)
        BY <1>7, <1>11, <3>6, <3>7
      <4> QED
        BY <1>4, <1>11, <3>6, <4>1 DEF Sorted
    <3>9. /\ Distance(c.ts, v.ts) <= Distance(y.ts, v.ts)
          /\ Distance(y.ts, v.ts) = v.ts - y.ts
      BY <1>10, <1>12, <3>3, <3>5, <3>8, DistanceIs
    <3>10. v.ts <= c.ts => Distance(c.ts, v.ts) = c.ts - v.ts
      BY <1>10, <1>14, DistanceIs
    <3>11. f.ts \in Int /\ v.ts \in Int /\ c.ts \in Int /\ y.ts \in Int /\ f.ts <= c.ts
      BY <1>9, <1>10, <1>14, <3>5
    <3>12. CASE v.ts < f.ts
      <4>1. v.ts <= c.ts
        BY <3>11, <3>12
      <4>2. c.ts - v.ts <= v.ts - y.ts
        BY <3>9, <3>10, <4>1
      <4> QED
        <5> DEFINE ft == f.ts
                   vt == v.ts
                   ct == c.ts
                   yt == y.ts
        <5>1. /\ ft \in Int /\ vt \in Int /\ ct \in Int /\ yt \in Int
              /\ ft <= ct /\ ct - vt <= vt - yt /\ ft = yt + AudioDuration
          BY <3>5, <3>11, <4>2
        <5> HIDE DEF ft, vt, ct, yt
        <5>2. 2 * (ft - vt) <= AudioDuration
          BY <1>2, <5>1
        <5> QED
          BY <5>2 DEF ft, vt
    <3> QED
      BY <1>2, <3>11, <3>12
  <2> QED
    BY <2>1, <2>2
<1>18. -(f.ts - v.ts) <= AudioDuration + MaxLead
  <2>1. CASE v.ts <= f.ts
    BY <1>2, <1>9, <1>10, <2>1
  <2>2. CASE f.ts < v.ts
    <3>1. PICK i \in k .. Len(q) : f = q[i]
      BY <1>9, <1>13
    <3>2. i \in 1 .. Len(q) /\ i < FirstIdx(q, Video)
      <4>1. i \in 1 .. Len(q)
        BY <1>3
      <4>2. ~(FirstIdx(q, Video) < i)
        BY <1>4, <1>9, <1>10, <1>11, <2>2, <3>1, <4>1 DEF Sorted
      <4>3. i # FirstIdx(q, Video)
        BY <1>2, <1>9, <1>10, <1>11, <3>1
      <4> QED
        BY <1>11, <4>1, <4>2, <4>3
    <3>3. k = ClosestAudioIdx(q)
      BY <1>7, <1>11, <3>2
    <3>4. f.ts = c.ts
      <4>1. k = i \/ k < i
        BY <1>3
      <4>2. c.ts <= f.ts
        BY <1>4, <1>12, <1>14, <3>1, <3>2, <3>3, <4>1 DEF Sorted, c
      <4> QED
        BY <1>9, <1>14, <4>2
    <3> DEFINE d == f.dts + 1
    <3>5. /\ d \in Nat /\ d \in Int /\ TimeAt(b, 0, d) = f.ts + AudioDuration
          /\ f.dts < d
      <4> DEFINE e == f.dts
      <4>1. e \in Int /\ d = e + 1 /\ d \in Nat
        BY <1>9
      <4> HIDE DEF e, d
      <4>2. TimeAt(b, 0, e + 1) = TimeAt(b, 0, e) + Duration(0)
        BY <1>2, <4>1, Times
      <4> QED
        BY <1>2, <1>9, <4>1, <4>2 DEF e
    <3>6. n[0] \in Nat /\ n[Video] \in Nat
      BY <1>2
    <3> HIDE DEF d
    <3>7. CASE d < n[0]
      <4>1. PICK z \in Held(q) : z.stream = 0 /\ z.dts = d
        BY <1>5, <1>4, <1>9, <3>5, <3>7 DEF Complete
      <4>2. z.ts = f.ts + AudioDuration
        BY <1>4, <3>5, <4>1 DEF Timed
      <4>3. Distance(f.ts, v.ts) <= Distance(z.ts, v.ts)
        BY <1>12, <3>4, <4>1
      <4>4. z.ts \in Int /\ AudioDuration \in Nat \ {0}
        BY <1>9, <4>2, InterleaveConstants
      <4>5. /\ Distance(f.ts, v.ts) = v.ts - f.ts
            /\ z.ts <= v.ts => Distance(z.ts, v.ts) = v.ts - z.ts
        <5>1. f.ts \in Int /\ v.ts \in Int /\ f.ts <= v.ts
          BY <1>9, <1>10, <2>2
        <5> QED
          BY <4>4, <5>1, DistanceIs
      <4>6. f.ts \in Int /\ v.ts \in Int /\ f.ts < v.ts
        BY <1>9, <1>10, <2>2
      <4>7. v.ts < z.ts
        BY <4>2, <4>3, <4>4, <4>5, <4>6
      <4> QED
        BY <1>2, <4>2, <4>4, <4>6, <4>7
    <3>8. CASE d = n[0]
      <4> DEFINE e == n[Video] - 1
      <4>1. e \in Int /\ h.dts \in Int /\ h.dts <= e /\ n[Video] # 0
        BY <1>9, <3>6
      <4>2. TimeAt(b, Video, e) <= TimeAt(b, 0, n[0]) + MaxLead
        BY <1>2, <4>1 DEF Together
      <4> HIDE DEF e
      <4>3. /\ TimeAt(b, Video, e) \in Int /\ Duration(Video) \in Nat
            /\ h.dts < e =>
                 TimeAt(b, Video, h.dts) + Duration(Video) <= TimeAt(b, Video, e)
        <5> DEFINE dd == h.dts
        <5>1. dd \in Int
          BY <4>1
        <5> HIDE DEF dd
        <5>2. /\ TimeAt(b, Video, e) \in Int /\ Duration(Video) \in Nat
              /\ dd < e => TimeAt(b, Video, dd) + Duration(Video) <= TimeAt(b, Video, e)
          BY <1>2, <4>1, <5>1, Times
        <5> QED
          BY <5>2 DEF dd
      <4>4. h.ts <= TimeAt(b, Video, e)
        <5>1. CASE h.dts < e
          BY <1>9, <4>3, <5>1
        <5>2. CASE h.dts = e
          BY <1>9, <4>3, <5>2
        <5> QED
          BY <4>1, <5>1, <5>2
      <4>5. TimeAt(b, 0, n[0]) = f.ts + AudioDuration
        BY <3>5, <3>8
      <4>6. f.ts \in Int /\ v.ts \in Int /\ h.ts = v.ts
        BY <1>9, <1>10, <1>15
      <4>7. v.ts <= TimeAt(b, Video, e)
        BY <4>4, <4>6
      <4>8. TimeAt(b, Video, e) <= f.ts + AudioDuration + MaxLead
        BY <4>2, <4>5
      <4> DEFINE ft == f.ts
                 vt == v.ts
                 et == TimeAt(b, Video, e)
      <4>9. /\ ft \in Int /\ vt \in Int /\ et \in Int
            /\ vt <= et /\ et <= ft + AudioDuration + MaxLead
        BY <4>3, <4>6, <4>7, <4>8
      <4> HIDE DEF ft, vt, et
      <4>10. -(ft - vt) <= AudioDuration + MaxLead
        BY <1>2, <4>9
      <4> QED
        BY <4>10 DEF ft, vt
    <3> QED
      BY <1>9, <3>5, <3>6, <3>7, <3>8 DEF d
  <2> QED
    BY <1>9, <1>10, <2>1, <2>2
<1>19. Tracks = {0}
  BY <1>2 DEF Tracks
<1> QED
  BY <1>9, <1>15, <1>16, <1>17, <1>18, <1>19 DEF Near

\* apply_interleaved_packet_offset and resort_interleaved_packets: the same packets, in
\* line with the new times.
LEMMA MovedInLine ==
  ASSUME NEW r \in Seq(Buffered), NEW n \in [Streams -> Nat],
         Ordered(r), Complete(Held(r), n),
         NEW off \in [Streams -> Nat],
         NEW b, b = [t \in Streams |-> -(off[t] * Duration(t))],
         NEW m, m = [i \in DOMAIN r |-> Relative(r[i], off)]
  PROVE  /\ InLine(Resort(m), n, b)
         /\ \A y \in Held(Resort(m)) : \E x \in Held(r) : y = Relative(x, off)
         /\ \A x \in Held(r) : Relative(x, off) \in Held(Resort(m))
<1>1. /\ b \in [Streams -> Int]
      /\ \A t \in Streams, d \in Int : TimeAt(b, t, d) = (d - off[t]) * Duration(t)
  BY RelativeTimes
<1>2. ASSUME NEW x \in Buffered
      PROVE  LET y == Relative(x, off)
             IN  /\ y \in Buffered /\ y.stream = x.stream /\ y.dts = x.dts
                 /\ y.ts = TimeAt(b, x.stream, x.dts)
  <2>1. x.stream \in Streams /\ x.dts \in Nat
    BY DEF Buffered
  <2> DEFINE z == (x.dts - off[x.stream]) * Duration(x.stream)
  <2>2. z = TimeAt(b, x.stream, x.dts) /\ z \in Int
    <3> DEFINE d == x.dts
               t == x.stream
    <3>1. d \in Int /\ t \in Streams
      BY <2>1
    <3> HIDE DEF d, t
    <3>2. TimeAt(b, t, d) \in Int /\ TimeAt(b, t, d) = (d - off[t]) * Duration(t)
      BY <1>1, <3>1, Times
    <3> QED
      BY <3>2 DEF d, t
  <2>3. Relative(x, off) = [x EXCEPT !.ts = z]
    BY DEF Relative
  <2> HIDE DEF z
  <2> QED
    BY <2>1, <2>2, <2>3 DEF Buffered
<1>3. /\ Len(r) \in Nat /\ DOMAIN r = 1 .. Len(r)
      /\ \A i \in 1 .. Len(r) : r[i] \in Buffered /\ r[i] \in Held(r)
      /\ \A x \in Held(r) : x \in Buffered /\ \E i \in 1 .. Len(r) : x = r[i]
  BY ElementsAre, HeldAre
<1>4. /\ m \in Seq(Buffered) /\ Len(m) = Len(r)
      /\ \A i \in 1 .. Len(r) : m[i] = Relative(r[i], off)
  <2>1. \A i \in 1 .. Len(r) : Relative(r[i], off) \in Buffered
    BY <1>2, <1>3
  <2>2. m = [i \in 1 .. Len(r) |-> Relative(r[i], off)]
    BY <1>3
  <2> QED
    BY <1>3, <2>1, <2>2
<1>5. Ordered(m)
  BY <1>2, <1>3, <1>4 DEF Ordered
<1>6. /\ \A y \in Held(m) : \E x \in Held(r) : y = Relative(x, off)
      /\ \A x \in Held(r) : Relative(x, off) \in Held(m)
  <2>1. \A y \in Held(m) : \E i \in 1 .. Len(r) : y = Relative(r[i], off)
    BY <1>4 DEF Held
  <2>2. \A i \in 1 .. Len(r) : Relative(r[i], off) \in Held(m)
    BY <1>4 DEF Held
  <2> QED
    BY <1>3, <2>1, <2>2
<1>7. Timed(Held(m), b)
  <2> SUFFICES ASSUME NEW y \in Held(m) PROVE y.ts = TimeAt(b, y.stream, y.dts)
    BY DEF Timed
  <2>1. PICK x \in Held(r) : y = Relative(x, off)
    BY <1>6
  <2> QED
    BY <1>2, <1>3, <2>1
<1>8. Complete(Held(m), n)
  <2> SUFFICES ASSUME NEW y \in Held(m)
               PROVE  /\ y.dts < n[y.stream]
                      /\ \A d \in Nat : y.dts < d /\ d < n[y.stream] =>
                           \E z \in Held(m) : z.stream = y.stream /\ z.dts = d
    BY DEF Complete
  <2>1. PICK x \in Held(r) : y = Relative(x, off)
    BY <1>6
  <2>2. y.stream = x.stream /\ y.dts = x.dts
    BY <1>2, <1>3, <2>1
  <2>3. ASSUME NEW d \in Nat, y.dts < d, d < n[y.stream]
        PROVE  \E z \in Held(m) : z.stream = y.stream /\ z.dts = d
    <3>1. PICK w \in Held(r) : w.stream = x.stream /\ w.dts = d
      BY <2>2, <2>3 DEF Complete
    <3>2. /\ Relative(w, off) \in Held(m)
          /\ Relative(w, off).stream = w.stream /\ Relative(w, off).dts = w.dts
      BY <1>2, <1>3, <1>6
    <3> QED
      BY <2>2, <3>1, <3>2
  <2> QED
    BY <2>2, <2>3 DEF Complete
<1>9. /\ Resort(m) \in Seq(Buffered) /\ Sorted(Resort(m)) /\ Ordered(Resort(m))
      /\ Held(Resort(m)) = Held(m)
  BY <1>1, <1>4, <1>5, <1>7, ResortIs
<1> QED
  BY <1>6, <1>7, <1>8, <1>9 DEF InLine

\* Start, and what it sends.
LEMMA StartKeeps ==
  ASSUME InterleaveInv, NEW s, NEW key, Arrives(s, key), Start(Incoming(s, key))
  PROVE  /\ InterleaveInv'
         /\ out' = out \/ \E q : Handed(q)
<1> DEFINE p == Incoming(s, key)
           q == Insert(interleaved_packets, p)
           r == Pruned(q)
           off == [t \in Streams |-> First(r, t).dts]
           m == [i \in DOMAIN r |-> Relative(r[i], off)]
           R == Resort(m)
           b == [t \in Streams |-> -(off[t] * Duration(t))]
<1>1. /\ ~Started /\ Acceptable(p) /\ ReceivesAudio(p) /\ ReceivesVideo(p)
      /\ Missing(q) = {} /\ Missing(r) = {}
      /\ offset' = off
      /\ received_audio' = TRUE /\ received_video' = TRUE
      /\ highest_audio_ts' = Rebased(AudioTs(p), First(r, 0))
      /\ highest_video_ts' = Rebased(VideoTs(p), First(r, Video))
      /\ late' = (late \/ Premature(q))
      /\ SendInterleaved(R, highest_audio_ts', highest_video_ts')
  BY DEF Start, Collected
<1>2. /\ InterleaveTyped /\ origin \in [Streams -> Int] /\ Lead
      /\ out = NoPacket /\ sent = [t \in Streams |-> -1]
      /\ ~received_video <=> Lacks(Held(interleaved_packets), Video)
      /\ NumTracks = 1 /\ ~received_audio => Lacks(Held(interleaved_packets), 0)
  BY <1>1, BeforeStart DEF InterleaveInv
<1>3. /\ next' \in [Streams -> 0 .. MaxDts] /\ next' \in [Streams -> Nat]
      /\ Together(next', origin) /\ late \in BOOLEAN /\ s \in Streams
  BY <1>2, NextIs, LeadKept DEF InterleaveTyped, Arrives
<1> HIDE DEF p, q
<1>4. /\ InLine(q, next', origin) /\ q \in Seq(Buffered)
      /\ Held(q) = Held(interleaved_packets) \cup {p} /\ p.stream = s
      /\ ~late => KeyFirst(Held(q))
      /\ Ahead(next', origin, AudioTs(p), VideoTs(p))
      /\ AudioTs(p) \in Int /\ VideoTs(p) \in Int
  BY <1>1, CollectedIs DEF p, q
<1>5. /\ InLine(r, next', origin) /\ r \in Seq(Buffered)
      /\ late \/ Premature(q) \/ KeyFirst(Held(r))
  BY <1>1, <1>3, <1>4, PrunedInLine
<1> HIDE DEF r
<1>6. ASSUME NEW t \in Streams PROVE OldestOf(First(r, t), Held(r), next', origin, t)
  BY <1>1, <1>2, <1>3, <1>5, FirstOf
<1>7. /\ off \in [Streams -> 0 .. MaxDts] /\ off \in [Streams -> Nat]
      /\ \A t \in Streams : off[t] < next'[t]
  <2>1. ASSUME NEW t \in Streams
        PROVE  /\ First(r, t).dts \in Nat /\ First(r, t).dts < next'[t]
               /\ First(r, t).dts \in 0 .. MaxDts
    <3>1. First(r, t).dts \in Nat /\ First(r, t).dts < next'[t]
      BY <1>6 DEF OldestOf
    <3>2. next'[t] \in 0 .. MaxDts /\ MaxDts \in Nat
      BY <1>3, InterleaveConstants
    <3> QED
      BY <3>1, <3>2
  <2> QED
    BY <2>1
<1>8. \A t \in Streams : First(r, t).dts = off[t]
  OBVIOUS
<1> HIDE DEF off
<1>9. /\ InLine(R, next', b)
      /\ \A y \in Held(R) : \E x \in Held(r) : y = Relative(x, off)
      /\ \A x \in Held(r) : Relative(x, off) \in Held(R)
  BY <1>3, <1>5, <1>7, MovedInLine DEF InLine
<1>10. /\ b \in [Streams -> Int]
       /\ \A t \in Streams, d \in Int : /\ TimeAt(b, t, d) = (d - off[t]) * Duration(t)
                                        /\ off[t] <= d => 0 <= TimeAt(b, t, d)
       /\ \A c \in [Streams -> Int], t \in Streams, d \in Int :
            TimeAt(b, t, d) = TimeAt(c, t, d) - TimeAt(c, t, off[t])
  BY <1>7, RelativeTimes
<1> HIDE DEF m, R, b
<1>11. ASSUME NEW x \in Held(r)
       PROVE  /\ Relative(x, off).stream = x.stream /\ Relative(x, off).dts = x.dts
              /\ Relative(x, off).key = x.key /\ x.stream \in Streams /\ x.dts \in Nat
  <2>1. x \in Buffered
    BY <1>5, HeldAre
  <2> QED
    BY <2>1 DEF Relative, Buffered
<1>12. Flows(Held(R), next', off, sent, late')
  <2>1. \A t \in Streams : ToSend(t, off, sent) = off[t]
    BY <1>2 DEF ToSend
  <2>2. ASSUME NEW t \in Streams
        PROVE  \E y \in Held(R) : y.stream = t /\ y.dts = off[t]
    <3> DEFINE f == First(r, t)
    <3>1. f \in Held(r) /\ f.stream = t /\ f.dts = off[t]
      BY <1>6, <1>8 DEF OldestOf
    <3> QED
      BY <1>9, <1>11, <3>1
  <2>3. ASSUME NEW y \in Held(R)
        PROVE  /\ y.stream \in Streams /\ off[y.stream] <= y.dts
               /\ ~late' /\ y.stream = Video /\ y.dts = off[Video] => y.key
    <3>1. PICK x \in Held(r) : y = Relative(x, off)
      BY <1>9
    <3>2. y.stream = x.stream /\ y.dts = x.dts /\ y.key = x.key /\ x.stream \in Streams
      BY <1>11, <3>1
    <3>3. off[x.stream] <= x.dts
      BY <1>6, <1>8, <3>2 DEF OldestOf
    <3>4. ~late' => KeyFirst(Held(r))
      BY <1>1, <1>5
    <3>5. ASSUME ~late', x.stream = Video, x.dts = off[Video] PROVE x.key
      <4>1. \A z \in Held(r) : z.stream = Video => x.dts <= z.dts
        BY <1>6, <1>8, <3>2, <3>5 DEF OldestOf
      <4> QED
        BY <3>4, <3>5, <4>1 DEF KeyFirst
    <3> QED
      BY <3>2, <3>3, <3>5
  <2>4. \A t \in Streams : off[t] \in Nat /\ off[t] < next'[t] /\ next'[t] \in Nat
    BY <1>3, <1>7
  <2>5. \A t \in Streams : off[t] <= off[t] /\ off[t] <= next'[t]
    BY <2>4
  <2> QED
    BY <2>1, <2>2, <2>3, <2>4, <2>5 DEF Flows
<1>13. /\ Ahead(next', b, highest_audio_ts', highest_video_ts')
       /\ highest_audio_ts' \in Int /\ highest_video_ts' \in Int
  <2>1. Video \in Streams /\ 0 \in Streams
    BY StreamsAre
  <2> DEFINE fv == First(r, Video).ts
             fa == First(r, 0).ts
             av == TimeAt(origin, Video, next'[Video])
             aa == TimeAt(origin, 0, next'[0])
  <2>2. /\ fv \in Int /\ fv = TimeAt(origin, Video, off[Video])
        /\ fa \in Int /\ fa = TimeAt(origin, 0, off[0])
    BY <1>6, <1>8, <2>1 DEF OldestOf
  <2>3. /\ TimeAt(b, Video, next'[Video]) = av - fv
        /\ TimeAt(b, 0, next'[0]) = aa - fa
    <3>1. next'[Video] \in Int /\ next'[0] \in Int
      <4>1. next'[Video] \in Nat /\ next'[0] \in Nat
        BY <1>3, <2>1
      <4> QED
        BY <4>1
    <3> QED
      BY <1>2, <1>10, <2>1, <2>2, <3>1
  <2>4. av \in Int /\ aa \in Int
    <3> DEFINE x == next'[Video]
               y == next'[0]
    <3>1. x \in Int /\ y \in Int
      <4>1. x \in Nat /\ y \in Nat
        BY <1>3, <2>1
      <4> QED
        BY <4>1
    <3> HIDE DEF x, y
    <3>2. TimeAt(origin, Video, x) \in Int /\ TimeAt(origin, 0, y) \in Int
      BY <1>2, <2>1, <3>1, Times
    <3> QED
      BY <3>2 DEF x, y
  <2>5. VideoTs(p) <= av /\ (NumTracks = 1 => AudioTs(p) <= aa)
    BY <1>4 DEF Ahead
  <2>6. highest_video_ts' = VideoTs(p) - fv /\ highest_audio_ts' = AudioTs(p) - fa
    BY <1>1 DEF Rebased
  <2> HIDE DEF fv, fa, av, aa
  <2>7. /\ highest_video_ts' <= av - fv /\ (NumTracks = 1 => highest_audio_ts' <= aa - fa)
        /\ highest_audio_ts' \in Int /\ highest_video_ts' \in Int
    BY <1>4, <2>2, <2>4, <2>5, <2>6
  <2> QED
    BY <2>3, <2>7 DEF Ahead
<1>14. Passed(Held(R), next', b, out)
  <2>1. out.ts = 0
    BY <1>2 DEF NoPacket
  <2>2. \A t \in Streams : 0 <= TimeAt(b, t, next'[t])
    <3> SUFFICES ASSUME NEW t \in Streams PROVE 0 <= TimeAt(b, t, next'[t])
      OBVIOUS
    <3>1. off[t] \in Nat /\ next'[t] \in Nat /\ off[t] < next'[t]
      BY <1>3, <1>7
    <3>2. next'[t] \in Int /\ off[t] <= next'[t]
      BY <3>1
    <3> QED
      BY <1>10, <3>2
  <2>3. ASSUME NEW y \in Held(R) PROVE 0 <= y.ts
    <3>1. y.stream \in Streams /\ y.dts \in Nat /\ y.ts = TimeAt(b, y.stream, y.dts)
      BY <1>9, HeldAre DEF InLine, Timed
    <3>2. y.dts \in Int /\ ToSend(y.stream, off, sent) <= y.dts
      BY <1>12, <3>1 DEF Flows
    <3>3. off[y.stream] <= y.dts
      BY <1>2, <3>1, <3>2 DEF ToSend
    <3> QED
      BY <1>10, <3>1, <3>2, <3>3
  <2> QED
    BY <2>1, <2>2, <2>3 DEF Passed
<1>15. NumTracks = 1 => Near(origin, offset')
  <2> SUFFICES ASSUME NumTracks = 1 PROVE Near(origin, off)
    BY <1>1
  <2>1. \A t \in Streams : t = Video \/ t = 0
    BY StreamsAre
  <2>2. Lacks(Held(interleaved_packets), s)
    <3>1. CASE s = Video
      <4>1. ~received_video
        BY <1>1, <1>4, <3>1 DEF ReceivesAudio, Started
      <4> QED
        BY <1>2, <3>1, <4>1
    <3>2. CASE s # Video
      <4>1. ~received_audio /\ s = 0
        BY <1>1, <1>3, <1>4, <2>1, <3>2 DEF ReceivesVideo, Started
      <4> QED
        BY <1>2, <4>1
    <3> QED
      BY <3>1, <3>2
  <2>3. \A x \in Held(q) : x.stream = s => x = p
    BY <1>4, <2>2 DEF Lacks
  <2>4. off = [t \in Streams |-> First(Pruned(q), t).dts]
    BY DEF off, r
  <2>5. Missing(Pruned(q)) = {}
    BY <1>1 DEF r
  <2> QED
    BY <1>1, <1>2, <1>3, <1>4, <2>3, <2>4, <2>5, StartsNear
<1>16. /\ received_audio' \in BOOLEAN /\ received_video' \in BOOLEAN /\ Started'
       /\ late' \in BOOLEAN /\ offset' \in [Streams -> 0 .. MaxDts]
  <2>1. late' \in BOOLEAN
    BY <1>1, <1>3 DEF Premature
  <2> QED
    BY <1>1, <1>7, <2>1 DEF Started
<1>17. Held(R) # {}
  BY <1>6, <1>9, StreamsAre DEF OldestOf
<1>18. b = [t \in Streams |-> -(offset'[t] * Duration(t))]
  BY <1>1 DEF b
<1>19. InterleaveInv' /\ (out' = out \/ Handed(R))
  BY <1>1, <1>9, <1>12, <1>13, <1>14, <1>15, <1>16, <1>17, <1>18, StillFlowing
<1> QED
  BY <1>19

-----------------------------------------------------------------------------
(* Every step.                                                             *)

\* Nothing is buffered.
Fresh ==
  /\ InterleaveTyped /\ Lead
  /\ interleaved_packets = <<>>
  /\ ~received_audio /\ ~received_video
  /\ highest_audio_ts = 0 /\ highest_video_ts = 0
  /\ out = NoPacket /\ sent = [s \in Streams |-> -1]

\* Types of the values that a session starts with.
LEMMA EmptyIs ==
  /\ <<>> \in Seq(Buffered)
  /\ NoPacket \in [stream : Streams, dts : Int, key : BOOLEAN, ts : Int]
  /\ [s \in Streams |-> -1] \in [Streams -> -1 .. MaxDts]
  /\ [s \in Streams |-> 0] \in [Streams -> 0 .. MaxDts]
<1>1. MaxDts \in Nat
  BY InterleaveConstants
<1>2. 0 \in 0 .. MaxDts /\ -1 \in -1 .. MaxDts
  BY <1>1
<1>3. NoPacket \in [stream : Streams, dts : Int, key : BOOLEAN, ts : Int]
  BY StreamsAre DEF NoPacket
<1> QED
  BY <1>2, <1>3

\* The invariant holds then.
LEMMA FreshIs == Fresh => InterleaveInv
<1> SUFFICES ASSUME Fresh PROVE InterleaveInv
  OBVIOUS
<1>1. /\ InterleaveTyped /\ Lead /\ interleaved_packets = <<>>
      /\ ~received_audio /\ ~received_video
      /\ highest_audio_ts = 0 /\ highest_video_ts = 0
      /\ out = NoPacket /\ sent = [s \in Streams |-> -1]
  BY DEF Fresh
<1>2. ~Started
  BY <1>1 DEF Started
<1>3. Held(interleaved_packets) = {} /\ Len(interleaved_packets) = 0
  BY <1>1 DEF Held
<1>4. Buffer
  BY <1>3 DEF Buffer, Sorted, Ordered, Complete, Timed
<1>5. Collecting
  BY <1>1, <1>3 DEF Collecting, Lacks, KeyFirst
<1>6. Flowing /\ InSync
  BY <1>2 DEF Flowing, InSync, AudioNotLate, AudioNotEarly
<1>7. HighestTimes
  <2>1. origin \in [Streams -> Nat] /\ next \in [Streams -> 0 .. MaxDts] /\ MaxDts \in Nat
    BY <1>1, InterleaveConstants DEF InterleaveTyped
  <2>2. Zeros = origin
    BY <1>2, <2>1 DEF Zeros
  <2>3. ASSUME NEW t \in Streams PROVE 0 <= TimeAt(origin, t, next[t])
    <3>1. origin[t] \in Nat /\ next[t] \in Nat /\ Duration(t) \in Nat
      BY <2>1, InterleaveConstants
    <3>2. next[t] * Duration(t) \in Nat
      BY <3>1
    <3> QED
      BY <3>1, <3>2 DEF TimeAt
  <2> QED
    BY <1>1, <2>2, <2>3, StreamsAre DEF HighestTimes, Ahead
<1> QED
  BY <1>1, <1>4, <1>5, <1>6, <1>7 DEF InterleaveInv

\* It holds initially.
LEMMA InterleaveStarts == InterleaveInit => InterleaveInv
<1> SUFFICES ASSUME InterleaveInit PROVE Fresh
  BY FreshIs
<1>1. Origins \subseteq [Streams -> Nat]
  BY InterleaveConstants
<1>2. InterleaveTyped
  <2>1. /\ received_audio \in BOOLEAN /\ received_video \in BOOLEAN
        /\ stopped \in BOOLEAN /\ late \in BOOLEAN
    BY DEF InterleaveInit
  <2>2. /\ interleaved_packets \in Seq(Buffered)
        /\ highest_audio_ts \in Int /\ highest_video_ts \in Int
        /\ out \in [stream : Streams, dts : Int, key : BOOLEAN, ts : Int]
    BY EmptyIs DEF InterleaveInit
  <2>3. /\ offset \in [Streams -> 0 .. MaxDts] /\ next \in [Streams -> 0 .. MaxDts]
        /\ sent \in [Streams -> -1 .. MaxDts] /\ origin \in [Streams -> Nat]
    BY <1>1, EmptyIs DEF InterleaveInit
  <2> QED
    BY <2>1, <2>2, <2>3 DEF InterleaveTyped
<1>3. Lead
  BY DEF InterleaveInit, Lead, Together
<1> QED
  BY <1>2, <1>3 DEF InterleaveInit, Fresh

\* Whatever way a packet takes through interleave_packets.
LEMMA DeliverKeeps ==
  ASSUME InterleaveInv, NEW s \in Streams, NEW key \in BOOLEAN, Deliver(s, key)
  PROVE  InterleaveInv' /\ (out' = out \/ \E q : Handed(q))
<1>1. \A t, d : SystemTime(t, d) = TimeAt(origin, t, d)
  BY DEF SystemTime, TimeAt
<1>2. Arrives(s, key)
  BY <1>1 DEF Deliver, Arrives, NextWith
<1>3. InterleavePacket(Incoming(s, key))
  BY DEF Deliver, Incoming
<1>4. CASE AwaitKeyframe(Incoming(s, key))
  BY <1>2, <1>4, AwaitKeyframeKeeps DEF AwaitKeyframe
<1>5. CASE Collect(Incoming(s, key))
  BY <1>2, <1>5, CollectKeeps DEF Collect
<1>6. CASE StartTooEarly(Incoming(s, key))
  BY <1>2, <1>6, StartTooEarlyKeeps DEF StartTooEarly
<1>7. CASE StartPrunedAway(Incoming(s, key))
  BY <1>2, <1>7, StartPrunedAwayKeeps DEF StartPrunedAway
<1>8. CASE Start(Incoming(s, key))
  BY <1>2, <1>8, StartKeeps
<1>9. CASE Continue(Incoming(s, key))
  BY <1>2, <1>9, ContinueKeeps
<1> QED
  BY <1>3, <1>4, <1>5, <1>6, <1>7, <1>8, <1>9 DEF InterleavePacket

\* A stop silences the muxer and leaves the buffer.
LEMMA StopOutputKeeps ==
  ASSUME InterleaveInv, StopOutput
  PROVE  InterleaveInv' /\ out' = out
<1>1. /\ stopped' = TRUE
      /\ UNCHANGED <<interleaved_packets, received_audio, received_video,
                     highest_audio_ts, highest_video_ts, offset, origin, next, out,
                     sent, late>>
  BY DEF StopOutput, encoderVars
<1>2. Zeros' = Zeros /\ Started' = Started
  BY <1>1 DEF Zeros, Started
<1>3. InterleaveTyped' /\ Buffer' /\ Collecting' /\ HighestTimes' /\ Lead'
  BY <1>1, <1>2 DEF InterleaveInv, InterleaveTyped, Buffer, Collecting, HighestTimes, Lead
<1>4. Flowing'
  BY <1>1 DEF Flowing
<1>5. InSync => InSync'
  BY <1>1, <1>2 DEF InSync, AudioNotLate, AudioNotEarly, Lag, SystemTime
<1> QED
  BY <1>1, <1>3, <1>4, <1>5 DEF InterleaveInv

\* A new session starts empty; the offsets of the other tracks may stay.
LEMMA RestartKeeps ==
  ASSUME InterleaveInv, Restart
  PROVE  InterleaveInv' /\ out' = NoPacket
<1>1. /\ stopped' = FALSE /\ interleaved_packets' = <<>>
      /\ received_audio' = FALSE /\ received_video' = FALSE
      /\ highest_audio_ts' = 0 /\ highest_video_ts' = 0
      /\ offset' = [offset EXCEPT ![Video] = 0, ![0] = 0]
      /\ out' = NoPacket /\ sent' = [s \in Streams |-> -1] /\ late' = FALSE
      /\ origin' = origin /\ next' = next
  BY DEF Restart, encoderVars
<1>2. /\ MaxDts \in Nat /\ 0 \in 0 .. MaxDts /\ -1 \in -1 .. MaxDts
      /\ InterleaveTyped /\ Lead
  BY InterleaveConstants DEF InterleaveInv
<1>3. offset' \in [Streams -> 0 .. MaxDts]
  <2>1. offset \in [Streams -> 0 .. MaxDts]
    BY <1>2 DEF InterleaveTyped
  <2>2. offset' = [[offset EXCEPT ![Video] = 0] EXCEPT ![0] = 0]
    BY <1>1
  <2> QED
    BY <1>2, <2>1, <2>2
<1>4. InterleaveTyped'
  <2>1. /\ received_audio' \in BOOLEAN /\ received_video' \in BOOLEAN
        /\ stopped' \in BOOLEAN /\ late' \in BOOLEAN
    BY <1>1
  <2>2. /\ interleaved_packets' \in Seq(Buffered)
        /\ highest_audio_ts' \in Int /\ highest_video_ts' \in Int
        /\ out' \in [stream : Streams, dts : Int, key : BOOLEAN, ts : Int]
    BY <1>1, EmptyIs
  <2>3. /\ next' \in [Streams -> 0 .. MaxDts]
        /\ sent' \in [Streams -> -1 .. MaxDts] /\ origin' \in [Streams -> Nat]
    BY <1>1, <1>2, EmptyIs DEF InterleaveTyped
  <2> QED
    BY <1>3, <2>1, <2>2, <2>3 DEF InterleaveTyped
<1>5. Lead'
  BY <1>1, <1>2 DEF Lead
<1>6. Fresh'
  BY <1>1, <1>4, <1>5 DEF Fresh
<1>7. Fresh' => InterleaveInv'
  BY FreshIs, PTL
<1> QED
  BY <1>1, <1>6, <1>7

\* All actions, and what they send.
LEMMA InterleaveSteps ==
  ASSUME InterleaveInv, [InterleaveNext]_interleaveVars
  PROVE  InterleaveInv' /\ (SendsPacket => \E q : Handed(q))
<1>1. CASE UNCHANGED interleaveVars
  <2>1. UNCHANGED <<interleaved_packets, received_audio, received_video,
                    highest_audio_ts, highest_video_ts, offset, stopped, origin, next,
                    out, sent, late>>
    BY <1>1 DEF interleaveVars, encoderVars
  <2>2. Zeros' = Zeros /\ Started' = Started
    BY <2>1 DEF Zeros, Started
  <2>3. InterleaveTyped' /\ Buffer' /\ Collecting' /\ Flowing' /\ HighestTimes' /\ Lead'
    BY <2>1, <2>2 DEF InterleaveInv, InterleaveTyped, Buffer, Collecting, Flowing,
                      HighestTimes, Lead
  <2>4. InSync => InSync'
    BY <2>1, <2>2 DEF InSync, AudioNotLate, AudioNotEarly, Lag, SystemTime
  <2> QED
    BY <2>1, <2>3, <2>4 DEF InterleaveInv, SendsPacket
<1>2. ASSUME NEW s \in Streams, NEW key \in BOOLEAN, Deliver(s, key)
      PROVE  InterleaveInv' /\ (SendsPacket => \E q : Handed(q))
  BY <1>2, DeliverKeeps DEF SendsPacket
<1>3. CASE StopOutput
  BY <1>3, StopOutputKeeps DEF SendsPacket
<1>4. CASE Restart
  BY <1>4, RestartKeeps DEF SendsPacket
<1>5. CASE Exhausted
  BY <1>1, <1>5 DEF Exhausted
<1> QED
  BY <1>1, <1>2, <1>3, <1>4, <1>5 DEF InterleaveNext

\* In every reachable state the buffer holds, of each stream, exactly the packets
\* between the one to be sent next and the one to be delivered next, in the order of
\* time, and (with one track) none of them is earlier than what was sent last.
THEOREM InterleaveConsistent == InterleaveSpec => []InterleaveInv
<1>1. InterleaveInv /\ [InterleaveNext]_interleaveVars => InterleaveInv'
  BY InterleaveSteps
<1> QED
  BY InterleaveStarts, <1>1, PTL DEF InterleaveSpec

\* The buffer of interleave_packets stays sorted, and within its types.
THEOREM InterleaveTypeCorrect == InterleaveSpec => []InterleaveTypeOK
<1>1. InterleaveInv => InterleaveTypeOK
  <2> SUFFICES ASSUME InterleaveInv PROVE InterleaveTypeOK
    OBVIOUS
  <2> DEFINE q == interleaved_packets
  <2>1. InterleaveTyped /\ Sorted(q) /\ Complete(Held(q), next) /\ q \in Seq(Buffered)
    BY DEF InterleaveInv, Buffer, InterleaveTyped
  <2>2. DOMAIN q = 1 .. Len(q) /\ Len(q) \in Nat
    BY <2>1, ElementsAre
  <2>3. ASSUME NEW i \in 1 .. Len(q)
        PROVE  q[i].stream \in Streams /\ q[i].dts \in 0 .. MaxDts
    <3>1. q[i] \in Held(q) /\ q[i].stream \in Streams /\ q[i].dts \in Nat
      BY <2>1, ElementsAre, HeldAre
    <3>2. q[i].dts < next[q[i].stream] /\ next[q[i].stream] \in 0 .. MaxDts
      BY <2>1, <3>1 DEF Complete, InterleaveTyped
    <3>3. MaxDts \in Nat
      BY InterleaveConstants
    <3> QED
      BY <3>1, <3>2, <3>3
  <2> HIDE DEF q
  <2>4. \A i \in DOMAIN q : q[i].stream \in Streams /\ q[i].dts \in 0 .. MaxDts
    BY <2>2, <2>3
  <2>5. \A i, j \in DOMAIN q : i < j => q[i].ts <= q[j].ts
    BY <2>1, <2>2 DEF Sorted
  <2> QED
    BY <2>1, <2>4, <2>5 DEF InterleaveTypeOK, InterleaveTyped, q
<1> QED
  BY InterleaveConsistent, <1>1, PTL

\* prune_interleaved_packets: with one track the streams start together: audio at most
\* a frame of video, or half a packet of audio, behind video, and at most a packet and
\* the lead of the video encoder before it.
THEOREM InSyncKept == NumTracks = 1 => (InterleaveSpec => []InSync)
<1> SUFFICES ASSUME NumTracks = 1 PROVE InterleaveSpec => []InSync
  OBVIOUS
<1>1. InterleaveInv => InSync
  BY DEF InterleaveInv
<1> QED
  BY InterleaveConsistent, <1>1, PTL

\* What one step hands to the muxer.
LEMMA HandedIs ==
  ASSUME InterleaveInv, [InterleaveNext]_interleaveVars, SendsPacket
  PROVE  /\ IF sent[out'.stream] = -1
            THEN out'.ts = 0 /\ out'.dts = offset'[out'.stream]
            ELSE out'.dts = sent[out'.stream] + 1
         /\ out'.stream = Video /\ sent[Video] = -1 => out'.key \/ late'
         /\ NumTracks = 1 => out'.ts >= out.ts
<1>1. PICK q : Handed(q)
  BY InterleaveSteps
<1>2. InterleaveInv' /\ InterleaveTyped /\ InterleaveTyped'
  BY InterleaveSteps DEF InterleaveInv
<1> DEFINE h == out'
           t == h.stream
<1>3. /\ h \in Held(q) /\ h.dts = ToSend(t, offset', sent)
      /\ h.ts = TimeAt(Zeros', t, h.dts)
      /\ ~late' => \A x \in Held(q) : x.stream = Video /\ x.dts = offset'[Video] => x.key
      /\ NumTracks = 1 => out.ts <= out'.ts
      /\ ~stopped /\ sent' = [sent EXCEPT ![t] = h.dts]
  BY <1>1 DEF Handed, Sends, Timed, Flows, SentWith
<1>4. t \in Streams /\ h.ts \in Int /\ out.ts \in Int
  BY <1>2 DEF InterleaveTyped
<1>5. Started'
  <2>1. sent'[t] = h.dts
    BY <1>2, <1>3, <1>4 DEF InterleaveTyped
  <2>2. h.dts # -1
    <3>1. sent[t] \in -1 .. MaxDts /\ offset'[t] \in 0 .. MaxDts /\ MaxDts \in Nat
      BY <1>2, <1>4, InterleaveConstants DEF InterleaveTyped
    <3>2. h.dts = IF sent[t] = -1 THEN offset'[t] ELSE sent[t] + 1
      BY <1>3 DEF ToSend
    <3> QED
      BY <3>1, <3>2
  <2>3. ~Started' => sent' = [s \in Streams |-> -1]
    BY <1>2 DEF InterleaveInv, Collecting
  <2>4. ~Started' => sent'[t] = -1
    BY <1>4, <2>3
  <2> QED
    BY <2>1, <2>2, <2>4
<1>6. ASSUME sent[t] = -1
      PROVE  h.ts = 0 /\ h.dts = offset'[t]
  <2>1. h.dts = offset'[t]
    BY <1>3, <1>6 DEF ToSend
  <2>2. Zeros' = [s \in Streams |-> -(offset'[s] * Duration(s))]
    BY <1>5 DEF Zeros
  <2>3. Zeros'[t] = -(offset'[t] * Duration(t))
    BY <1>4, <2>2
  <2>4. h.ts = -(offset'[t] * Duration(t)) + offset'[t] * Duration(t)
    <3>1. h.ts = TimeAt(Zeros', t, offset'[t])
      BY <1>3, <2>1
    <3>2. TimeAt(Zeros', t, offset'[t]) = Zeros'[t] + offset'[t] * Duration(t)
      BY DEF TimeAt
    <3> QED
      BY <2>3, <3>1, <3>2
  <2>5. offset'[t] \in Nat /\ Duration(t) \in Nat
    <3>1. offset' \in [Streams -> 0 .. MaxDts] /\ MaxDts \in Nat
      BY <1>2, InterleaveConstants DEF InterleaveTyped
    <3>2. offset'[t] \in 0 .. MaxDts
      BY <1>4, <3>1
    <3> QED
      BY <3>1, <3>2, InterleaveConstants
  <2> DEFINE D == Duration(t)
             o == offset'[t]
  <2>6. o \in Int /\ D \in Int
    BY <2>5
  <2> HIDE DEF D, o
  <2>7. -(o * D) + o * D = 0
    BY <2>6
  <2> QED
    BY <2>1, <2>4, <2>7 DEF D, o
<1>7. sent[t] # -1 => h.dts = sent[t] + 1
  BY <1>3 DEF ToSend
<1>8. t = Video /\ sent[Video] = -1 => h.key \/ late'
  BY <1>3, <1>6
<1>9. NumTracks = 1 => h.ts >= out.ts
  BY <1>3, <1>4
<1> QED
  BY <1>6, <1>7, <1>8, <1>9

\* No packet of a stream is lost or sent twice once the stream has started, and its
\* first has time zero, whatever was pruned and with any number of tracks.
THEOREM GaplessHolds == InterleaveSpec => Gapless
<1>1. InterleaveInv /\ [InterleaveNext]_interleaveVars =>
        [SendsPacket =>
           LET s == out'.stream
           IN IF sent[s] = -1 THEN out'.ts = 0 /\ out'.dts = offset'[s]
                              ELSE out'.dts = sent[s] + 1]_interleaveVars
  BY HandedIs
<1> QED
  BY InterleaveConsistent, <1>1, PTL DEF InterleaveSpec, Gapless

\* The muxer gets a keyframe of video first, unless audio was too late.
THEOREM KeyframeFirstHolds == InterleaveSpec => KeyframeFirst
<1>1. InterleaveInv /\ [InterleaveNext]_interleaveVars =>
        [SendsPacket /\ out'.stream = Video /\ sent[Video] = -1 =>
           out'.key \/ late']_interleaveVars
  BY HandedIs
<1> QED
  BY InterleaveConsistent, <1>1, PTL DEF InterleaveSpec, KeyframeFirst

\* send_interleaved: with one track the times never go back, and so what the muxer
\* gets is a stream.
THEOREM StreamIntactHolds == NumTracks = 1 => (InterleaveSpec => StreamIntact)
<1> SUFFICES ASSUME NumTracks = 1 PROVE InterleaveSpec => StreamIntact
  OBVIOUS
<1>1. InterleaveInv /\ [InterleaveNext]_interleaveVars =>
        [SendsPacket => out'.ts >= out.ts]_interleaveVars
  BY HandedIs
<1>2. InterleaveSpec => Monotonic
  BY InterleaveConsistent, <1>1, PTL DEF InterleaveSpec, Monotonic
<1> QED
  BY <1>2, GaplessHolds, KeyframeFirstHolds, PTL DEF StreamIntact

=============================================================================
