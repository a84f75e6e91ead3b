--------------------------- MODULE RtmpSendQueue ---------------------------
(***************************************************************************)
(* plugins/obs-outputs/rtmp-stream.c: the packets on their way from the    *)
(* encoders to the network.  rtmp_stream_data queues a packet, dropping    *)
(* video that the network is too slow for; send_thread takes packets out   *)
(* and writes them; init_connect and init_send start a session anew.       *)
(*                                                                         *)
(* Threads:                                                                *)
(*   producer  rtmp_stream_data; obs-output.c calls it with its            *)
(*             interleaved_mutex held, so for one packet at a time         *)
(*   sender    send_thread with send_remaining_packets                     *)
(*   others    begin and end of a session                                  *)
(* packets_mutex sections are single actions.  A packet's dts is its       *)
(* number of arrival: the interleaver hands packets over in dts order.     *)
(***************************************************************************)
EXTENDS Integers, SequencesExt, Filtering

CONSTANTS
  Kinds,          (* packet kinds that arrive: Audio or a video priority   *)
  drop_threshold, (* drop_threshold_usec, in packets                       *)
  MaxPackets      (* bound: packets that arrive in each session            *)

ASSUME SendQueueAssumption ==
  /\ Kinds \subseteq -1 .. 3
  /\ drop_threshold \in Nat
  /\ MaxPackets \in Seq(Nat) /\ MaxPackets # <<>>

Audio      == -1
DISPOSABLE == 0
LOW        == 1
HIGH       == 2
HIGHEST    == 3

\* Mutant: every frame may be dropped by its own priority.
DropPriorityOwn(kind) == kind

\* get_drop_priority of obs-avc.c.
DropPriority(kind) == IF kind \in {DISPOSABLE, LOW} THEN kind ELSE HIGHEST

\* check_to_drop_frames leaves short queues alone.
MinBuffered == 5

VARIABLES
  packets,       (* queued packets, oldest first: dts and kind             *)
  send_sem,
  min_priority, min_drop_dts, last_dts,
  disconnected,
  stop_event,
  capturing,     (* encoders call rtmp_stream_data                         *)
  ppc, incoming, (* producer: where it is, packet in hand                  *)
  spc, outgoing, (* sender: where it is, packet in hand                    *)
  arrived,       (* history: number of packets that have arrived           *)
  last_sent,     (* history: dts of the last packet written                *)
  owed,          (* history: drop priority of the video lost since a video *)
                 (* packet was last queued                                 *)
  passes,        (* history: calls of drop_frames in this session          *)
  session        (* history: number of the session                         *)

dropVars     == <<min_priority, min_drop_dts, owed, passes>>
producerVars == <<ppc, incoming, arrived>>
senderVars   == <<spc, outgoing, last_sent>>
controlVars  == <<stop_event, capturing, session>>
vars == <<packets, send_sem, last_dts, disconnected, dropVars, producerVars,
          senderVars, controlVars>>

None == [dts |-> 0, kind |-> Audio]
IsVideo(p) == p.kind # Audio

Highest(priorities) == Max({0} \cup priorities)

Init ==
  /\ packets = <<>>
  /\ send_sem = 0
  /\ min_priority = 0 /\ min_drop_dts = 0 /\ last_dts = 0
  /\ disconnected = FALSE
  /\ stop_event = FALSE
  /\ capturing = TRUE
  /\ ppc = "idle" /\ incoming = None
  /\ spc = "wait" /\ outgoing = None
  /\ arrived = 0 /\ last_sent = 0
  /\ owed = 0 /\ passes = 0 /\ session = 1

-----------------------------------------------------------------------------
(* Producer: rtmp_stream_data.                                             *)

\* The packet is copied unless the connection is already known to be lost.
Arrive(kind) ==
  /\ capturing
  /\ ppc = "idle"
  /\ arrived < MaxPackets[session]
  /\ arrived' = arrived + 1
  /\ IF disconnected
     THEN UNCHANGED <<ppc, incoming>>
     ELSE /\ ppc' = "checked"
          /\ incoming' = [dts |-> arrived + 1, kind |-> kind]
  /\ UNCHANGED <<packets, send_sem, last_dts, disconnected, dropVars,
                 senderVars, controlVars>>

\* check_to_drop_frames: the queue is long enough, the last drop is over and
\* more than the threshold is buffered.
Congested ==
  /\ Len(packets) >= MinBuffered
  /\ packets[1].dts >= min_drop_dts
  /\ last_dts - packets[1].dts > drop_threshold

\* drop_frames keeps audio and what has the highest drop priority.
Keep(p) == IsVideo(p) => DropPriority(p.kind) = HIGHEST

\* Video lost at the end of the queue, with no video kept behind it.
LostAtTail(q) ==
  {DropPriority(q[i].kind) : i \in {j \in DOMAIN q :
     /\ ~Keep(q[j])
     /\ \A k \in DOMAIN q : k > j /\ IsVideo(q[k]) => ~Keep(q[k])}}

Kept == Passing(packets, {p \in Range(packets) : Keep(p)})

\* Mutant: what was lost is forgotten.
HighestForgotten(priorities) == 0

HighestLost(priorities) == Highest(priorities)

DropFrames ==
  LET lost == {DropPriority(packets[i].kind) :
                 i \in {j \in DOMAIN packets : ~Keep(packets[j])}}
      kept == \E i \in DOMAIN packets : IsVideo(packets[i]) /\ Keep(packets[i])
      seen == IF kept THEN {} ELSE {owed}
  IN [packets  |-> Kept,
      priority |-> HighestLost(lost),
      dts      |-> Last(packets).dts,
      owed     |-> Highest(LostAtTail(packets) \cup seen)]

\* The queue after check_to_drop_frames.
Checked ==
  IF Congested THEN DropFrames
               ELSE [packets |-> packets, priority |-> min_priority,
                     dts |-> min_drop_dts, owed |-> owed]

\* Mutant: `disconnected` is not looked at again under the mutex.
UncheckedConnection == TRUE

StillConnected == ~disconnected

\* Under packets_mutex, audio: add_packet.
AddAudio ==
  /\ ppc = "checked"
  /\ StillConnected
  /\ ~IsVideo(incoming)
  /\ packets' = Append(packets, incoming)
  /\ last_dts' = incoming.dts
  /\ ppc' = "added"
  /\ incoming' = None
  /\ UNCHANGED <<send_sem, disconnected, dropVars, arrived, senderVars,
                 controlVars>>

\* Under packets_mutex, video: add_video_packet queues the packet when its
\* priority is back at the one the dropped frames ask for.
AddVideo ==
  LET c == Checked
  IN /\ ppc = "checked"
     /\ StillConnected
     /\ IsVideo(incoming)
     /\ passes' = IF Congested THEN passes + 1 ELSE passes
     /\ min_drop_dts' = c.dts
     /\ incoming' = None
     /\ IF incoming.kind < c.priority
        THEN /\ packets' = c.packets
             /\ min_priority' = c.priority
             /\ owed' = Highest({c.owed, DropPriority(incoming.kind)})
             /\ ppc' = "idle"
             /\ UNCHANGED last_dts
        ELSE /\ packets' = Append(c.packets, incoming)
             /\ min_priority' = 0
             /\ owed' = 0
             /\ last_dts' = incoming.dts
             /\ ppc' = "added"
     /\ UNCHANGED <<send_sem, disconnected, arrived, senderVars, controlVars>>

\* Under packets_mutex, the connection was lost meanwhile: nothing is queued.
AddNothing ==
  /\ ppc = "checked"
  /\ ~StillConnected
  /\ ppc' = "idle"
  /\ incoming' = None
  /\ UNCHANGED <<packets, send_sem, last_dts, disconnected, dropVars, arrived,
                 senderVars, controlVars>>

\* Mutant: the sender is woken only when the queue was empty.
PostedIfFirst == IF Len(packets) = 1 THEN send_sem + 1 ELSE send_sem

\* os_sem_post after the mutex is released.
Posted == send_sem + 1

Post ==
  /\ ppc = "added"
  /\ send_sem' = Posted
  /\ ppc' = "idle"
  /\ UNCHANGED <<packets, last_dts, disconnected, dropVars, incoming, arrived,
                 senderVars, controlVars>>

-----------------------------------------------------------------------------
(* Sender: send_thread.                                                    *)

Wake ==
  /\ spc = "wait"
  /\ send_sem > 0
  /\ send_sem' = send_sem - 1
  /\ spc' = IF stop_event THEN "flush" ELSE "take"
  /\ UNCHANGED <<packets, last_dts, disconnected, dropVars, producerVars,
                 outgoing, last_sent, controlVars>>

\* get_next_packet: a post may be left over from a packet that was dropped.
TakeNone ==
  /\ spc \in {"take", "flush"}
  /\ packets = <<>>
  /\ spc' = IF spc = "take" THEN "wait" ELSE "closing"
  /\ UNCHANGED <<packets, send_sem, last_dts, disconnected, dropVars,
                 producerVars, outgoing, last_sent, controlVars>>

TakePacket ==
  /\ spc \in {"take", "flush"}
  /\ packets # <<>>
  /\ outgoing' = Head(packets)
  /\ packets' = Tail(packets)
  /\ spc' = IF spc = "take" THEN "send" ELSE "sendlast"
  /\ UNCHANGED <<send_sem, last_dts, disconnected, dropVars, producerVars,
                 last_sent, controlVars>>

\* send_packet succeeds.
Send ==
  /\ spc \in {"send", "sendlast"}
  /\ last_sent' = outgoing.dts
  /\ outgoing' = None
  /\ spc' = IF spc = "send" THEN "wait" ELSE "flush"
  /\ UNCHANGED <<packets, send_sem, last_dts, disconnected, dropVars,
                 producerVars, controlVars>>

\* send_packet fails.
SendFails ==
  /\ spc \in {"send", "sendlast"}
  /\ disconnected' = TRUE
  /\ outgoing' = None
  /\ spc' = "closing"
  /\ UNCHANGED <<packets, send_sem, last_dts, dropVars, producerVars,
                 last_sent, controlVars>>

\* The shutdown takes longer than max_shutdown_time: the rest is given up.
ShutdownTooLong ==
  /\ spc = "sendlast"
  /\ last_sent' = outgoing.dts
  /\ disconnected' = TRUE
  /\ outgoing' = None
  /\ spc' = "closing"
  /\ UNCHANGED <<packets, send_sem, last_dts, dropVars, producerVars,
                 controlVars>>

\* free_packets when the connection was lost; then the thread finds out
\* whether it was asked to stop.
FreePackets ==
  /\ spc = "closing"
  /\ packets' = IF disconnected THEN <<>> ELSE packets
  /\ spc' = IF stop_event THEN "reset" ELSE "signal"
  /\ UNCHANGED <<send_sem, last_dts, disconnected, dropVars, producerVars,
                 outgoing, last_sent, controlVars>>

\* obs_output_signal_stop(OBS_OUTPUT_DISCONNECTED) has ended the capture.
Signalled ==
  /\ spc = "signal"
  /\ ~capturing
  /\ spc' = "reset"
  /\ UNCHANGED <<packets, send_sem, last_dts, disconnected, dropVars,
                 producerVars, outgoing, last_sent, controlVars>>

\* os_event_reset; the thread ends.
EndThread ==
  /\ spc = "reset"
  /\ stop_event' = FALSE
  /\ spc' = "ended"
  /\ UNCHANGED <<packets, send_sem, last_dts, disconnected, dropVars,
                 producerVars, outgoing, last_sent, capturing, session>>

-----------------------------------------------------------------------------
(* Sessions.                                                               *)

\* rtmp_stream_stop: signal the event, then post.
Stop ==
  /\ spc # "ended"
  /\ ~stop_event
  /\ stop_event' = TRUE
  /\ send_sem' = send_sem + 1
  /\ UNCHANGED <<packets, last_dts, disconnected, dropVars, producerVars,
                 senderVars, capturing, session>>

\* obs_output_end_data_capture, called after the stop or after the disconnect,
\* returns once no encoder is inside rtmp_stream_data.
EndCapture ==
  /\ capturing
  /\ stop_event \/ spc \in {"signal", "ended"}
  /\ ppc = "idle"
  /\ capturing' = FALSE
  /\ UNCHANGED <<packets, send_sem, last_dts, disconnected, dropVars,
                 producerVars, senderVars, stop_event, session>>

\* init_connect and init_send of the next session.
Reconnect ==
  /\ spc = "ended"
  /\ ~capturing
  /\ session < Len(MaxPackets)
  /\ packets' = <<>>
  /\ disconnected' = FALSE
  /\ min_drop_dts' = 0 /\ min_priority' = 0
  /\ send_sem' = 0
  /\ spc' = "wait"
  /\ capturing' = TRUE
  /\ session' = session + 1
  /\ arrived' = 0 /\ last_sent' = 0 /\ owed' = 0 /\ passes' = 0
  /\ UNCHANGED <<last_dts, stop_event, ppc, incoming, outgoing>>

Ended == spc = "ended" /\ ~capturing /\ session = Len(MaxPackets) /\ UNCHANGED vars

Producer == \/ \E kind \in Kinds : Arrive(kind)
            \/ AddAudio \/ AddVideo \/ AddNothing \/ Post
Sender == \/ Wake \/ TakeNone \/ TakePacket \/ Send \/ SendFails
          \/ ShutdownTooLong \/ FreePackets \/ Signalled \/ EndThread
Control == Stop \/ EndCapture \/ Reconnect \/ Ended

Next == Producer \/ Sender \/ Control

Spec == Init /\ [][Next]_vars

(* send_thread and a call of rtmp_stream_data once begun are run to their  *)
(* end by the scheduler, and a capture that is being ended ends: while the *)
(* encoder is between two packets it can be disconnected.  Encoders, user  *)
(* and network owe nothing.                                                *)
Fairness ==
  /\ WF_vars(Sender)
  /\ WF_vars(AddAudio \/ AddVideo \/ AddNothing \/ Post)
  /\ WF_vars(EndCapture)

FairSpec == Spec /\ Fairness

-----------------------------------------------------------------------------
(* Properties.                                                             *)

\* Every variable stays within its type.
TypeOK ==
  /\ \A i \in DOMAIN packets : packets[i].dts \in 1 .. MaxPackets[session]
                              /\ packets[i].kind \in Kinds
  /\ send_sem \in Nat
  /\ min_priority \in 0 .. LOW /\ owed \in 0 .. LOW
  /\ last_dts \in 0 .. Max(Range(MaxPackets))
  /\ min_drop_dts \in 0 .. MaxPackets[session]
  /\ disconnected \in BOOLEAN /\ stop_event \in BOOLEAN /\ capturing \in BOOLEAN
  /\ ppc \in {"idle", "checked", "added"}
  /\ spc \in {"wait", "take", "send", "flush", "sendlast", "closing", "signal",
              "reset", "ended"}

\* drop_frames rebuilds the queue and two threads work on it, yet what goes
\* to the network keeps the order of arrival.
OrderKept ==
  LET line == (IF spc \in {"send", "sendlast"} THEN <<outgoing>> ELSE <<>>)
                \o packets
              \o (IF ppc = "checked" THEN <<incoming>> ELSE <<>>)
  IN \A i \in DOMAIN line :
       /\ last_sent < line[i].dts
       /\ \A k \in DOMAIN line : k < i => line[k].dts < line[i].dts

\* A sender that waits on the semaphore is never left with a queued packet
\* nobody posted for, although drops leave posts without packets.
NoStrandedPacket ==
  spc \in {"wait", "take", "send"} =>
    Len(packets) <= send_sem + (IF spc = "take" THEN 1 ELSE 0)
                             + (IF ppc = "added" THEN 1 ELSE 0)

\* The second look at `disconnected`, under packets_mutex, is what keeps a
\* late packet from being queued behind free_packets and leaked.
NoPacketAfterFree ==
  disconnected /\ spc \in {"signal", "reset", "ended"} => packets = <<>>

Essential(p) == IsVideo(p) => p.kind >= HIGH

\* Audio, keyframes and frames with the priority of references leave the queue
\* only to be sent, as long as the connection holds.
EssentialKept ==
  [][~disconnected /\ session' = session =>
       \A p \in Range(packets) :
         Essential(p) => p \in Range(packets') \/ outgoing' = p \/ disconnected']_vars

\* As long as the session had one drop pass, a frame is queued only if it has
\* at least the priority that the frames lost before it call for; a second pass
\* may forget it.
ResumePriority ==
  [][AddVideo /\ ppc' = "added" /\ passes' <= 1 =>
       incoming.kind >= Checked.owed]_vars

\* A queued packet is sent, dropped or freed, whatever the network does.
PacketsLeave ==
  \A n \in 1 .. Max(Range(MaxPackets)) :
    (\E i \in DOMAIN packets : packets[i].dts = n)
      ~> (spc = "ended" \/ \A i \in DOMAIN packets : packets[i].dts # n)

\* A stop ends the send thread, through the flush or through a lost connection.
StopEndsThread == stop_event ~> spc = "ended"

\* Dropping under congestion does no more than it may: the order stays, what others
\* refer to stays, and what follows a lost frame has the priority that it calls for.
DropsAreOrderly == []OrderKept /\ EssentialKept /\ ResumePriority

\* No packet waits for a post or is queued behind the end of the connection.
NothingStranded == NoStrandedPacket /\ NoPacketAfterFree

\* The queue drains and the thread that drains it ends when it is told to.
Drains == PacketsLeave /\ StopEndsThread
=============================================================================
