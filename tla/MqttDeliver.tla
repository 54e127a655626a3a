----------------------------- MODULE MqttDeliver -----------------------------
(***************************************************************************)
(* Downlink messages, sdk_src/protocol/mqtt/mqtt_client_common.c: the      *)
(* filter of repeated QoS 1 packets, the search of the subscription table, *)
(* the call of the handler and the PUBACK.                                 *)
(*                                                                         *)
(* Actors: the broker (external: it numbers, sends and resends messages);  *)
(* the thread in cycle_for_read, which handles one packet at a time, SUBACK *)
(* included; application threads, which unsubscribe at any moment.  The    *)
(* table entry that is found is read again after lock_generic is released, *)
(* so looking it up and calling its handler are two steps.  A message is   *)
(* its topic; what it carries is left out.  QoS 2 is not modelled: the     *)
(* code takes PUBREL for an error.                                         *)
(***************************************************************************)
EXTENDS Naturals, Sequences, FiniteSets, TopicMatch

CONSTANTS
    Handlers,          \* MAX_MESSAGE_HANDLERS
    RepeatLen,         \* MQTT_MAX_REPEAT_BUF_LEN
    Filter, Topic,     \* filters and names, as sequences of levels
    MaxId,             \* packet identifiers are 1 .. MaxId, 0 for QoS 0
    MaxWire,           \* bound: packets on their way to the client
    Adversity          \* the circumstances that may arise

(* The circumstances.                                                      *)
(*   id_reused           a new message takes an identifier that is still   *)
(*                       in the repeat buffer: the buffer outlives the     *)
(*                       session in which identifiers are unique           *)
(*   far_ahead           the broker sends RepeatLen messages or more after *)
(*                       one it has no PUBACK for                          *)
(*   unsubscribe_in_gap  an unsubscribe between the search and the call    *)
(*   longer_level        a name such as "ab" and a filter such as "a/#"    *)
(*   ends_early          a name such as "a/" and a filter such as "a/+/b"  *)
Circumstance == {"id_reused", "far_ahead", "unsubscribe_in_gap",
                 "longer_level", "ends_early"}

ASSUME ConstantsAssumption ==
    /\ Handlers \in Nat \ {0} /\ RepeatLen \in Nat \ {0}
    /\ MaxId \in Nat \ {0} /\ MaxWire \in Nat \ {0}
    /\ Adversity \subseteq Circumstance

Slot     == 1 .. Handlers
PacketId == 1 .. MaxId
NoFilter == <<>>                        \* topic_filter == NULL
Packet   == [id : 0 .. MaxId, topic : Topic]
NoPacket == [id |-> 0, topic |-> <<>>]

VARIABLES
    topic_filter,      \* sub_handles[i].topic_filter
    has_handler,       \* sub_handles[i].message_handler != NULL; kept by unsubscribe
    repeat_buf,        \* repeat_packet_id_buf
    repeat_cnt,        \* current_packet_id_cnt
    pc, packet, slot,  \* the reading thread: where it is, the packet, the loop's i
    steady,            \* the table entries untouched since the packet was read
    clean,             \* clean_session
    wire,              \* packets between the broker and the client
    unacked            \* QoS 1 messages without a PUBACK, oldest first, with the
                       \* times each was delivered and the number sent after it

table  == <<topic_filter, has_handler>>
buffer == <<repeat_buf, repeat_cnt>>
reader == <<pc, packet, slot, steady>>
broker == <<clean, wire, unacked>>
vars   == <<table, buffer, reader, broker>>

TypeOK ==
    /\ topic_filter \in [Slot -> Filter \cup {NoFilter}]
    /\ has_handler \in [Slot -> BOOLEAN]
    /\ repeat_buf \in [0 .. RepeatLen - 1 -> 0 .. MaxId]
    /\ repeat_cnt \in 0 .. RepeatLen - 1
    /\ pc \in {"idle", "look", "call", "ack"}
    /\ packet \in Packet \cup {NoPacket}
    /\ slot \in 1 .. Handlers + 1 /\ steady \subseteq Slot
    /\ clean \in BOOLEAN
    /\ wire \in Seq(Packet)
    /\ unacked \in Seq([id : PacketId, topic : Topic, got : Nat, after : Nat])

(* _mqtt_client_init: an empty table, a buffer of zeros.                   *)
Init ==
    /\ topic_filter = [i \in Slot |-> NoFilter]
    /\ has_handler = [i \in Slot |-> FALSE]
    /\ repeat_buf = [k \in 0 .. RepeatLen - 1 |-> 0] /\ repeat_cnt = 0
    /\ pc = "idle" /\ packet = NoPacket /\ slot = 1 /\ steady = {}
    /\ clean \in BOOLEAN
    /\ wire = <<>> /\ unacked = <<>>

-------------------------------------------------------------------------------
(* The broker.                                                             *)

InUse == {unacked[k].id : k \in DOMAIN unacked}

CommonTopic(t) ==
    \A f \in Filter : /\ LongerLevel(f, t) => "longer_level" \in Adversity
                      /\ EndsEarly(f, t) => "ends_early" \in Adversity

SendQos0(t) ==
    /\ Len(wire) < MaxWire /\ CommonTopic(t)
    /\ wire' = Append(wire, [id |-> 0, topic |-> t])
    /\ UNCHANGED <<table, buffer, reader, clean, unacked>>

SendQos1(t, id) ==
    /\ Len(wire) < MaxWire /\ CommonTopic(t)
    /\ id \notin InUse
    /\ id \in {repeat_buf[k] : k \in DOMAIN repeat_buf} => "id_reused" \in Adversity
    /\ \A k \in DOMAIN unacked :
          unacked[k].after + 1 < RepeatLen \/ "far_ahead" \in Adversity
    /\ wire' = Append(wire, [id |-> id, topic |-> t])
    /\ unacked' = Append([k \in DOMAIN unacked |-> [unacked[k] EXCEPT !.after = @ + 1]],
                         [id |-> id, topic |-> t, got |-> 0, after |-> 0])
    /\ UNCHANGED <<table, buffer, reader, clean>>

(* The connection is lost, with what was on it, and made again by the      *)
(* reading thread.  A clean session starts from nothing; another resends   *)
(* what has no PUBACK, in order.  The client's buffer is left as it is.    *)
Reconnect ==
    /\ pc = "idle"
    /\ unacked' = IF clean THEN <<>> ELSE unacked
    /\ wire' = [k \in DOMAIN unacked' |-> [id |-> unacked'[k].id, topic |-> unacked'[k].topic]]
    /\ UNCHANGED <<table, buffer, reader, clean>>

-------------------------------------------------------------------------------
(* The subscription table.                                                 *)

FreeSlots == {i \in Slot : topic_filter[i] = NoFilter}
FirstFree == CHOOSE i \in FreeSlots : \A j \in FreeSlots : i <= j

(* _handle_suback_packet for filter f, with a message handler or NULL.     *)
Subscribed(f, handler) ==
    /\ pc = "idle"
    /\ FreeSlots # {}
    /\ \A i \in Slot : topic_filter[i] = f => has_handler[i] # handler
    /\ topic_filter' = [topic_filter EXCEPT ![FirstFree] = f]
    /\ has_handler' = [has_handler EXCEPT ![FirstFree] = handler]
    /\ UNCHANGED <<buffer, reader, broker>>

(* "/#" or "/+" in the filter: the unsubscribe clears the whole table.     *)
Wildcard(f) == \E k \in 2 .. Len(f) : f[k] \in {Plus, Sharp}

Matching(f) == IF Wildcard(f) THEN Slot ELSE {i \in Slot : topic_filter[i] = f}

(* qcloud_iot_mqtt_unsubscribe, the loop that holds lock_generic.          *)
Unsubscribe(f) ==
    /\ Matching(f) # {}
    /\ pc = "call" => "unsubscribe_in_gap" \in Adversity
    /\ topic_filter' = [i \in Slot |-> IF i \in Matching(f) THEN NoFilter ELSE topic_filter[i]]
    /\ steady' = steady \ Matching(f)
    /\ UNCHANGED <<has_handler, buffer, pc, packet, slot, broker>>

-------------------------------------------------------------------------------
(* The reading thread.                                                     *)

Repeated(id) == \E k \in DOMAIN repeat_buf : repeat_buf[k] = id

Begin ==
    /\ pc = "idle" /\ wire # <<>>
    /\ packet' = Head(wire) /\ wire' = Tail(wire)

(* _handle_publish_packet: QoS 0, or an identifier that is not in the      *)
(* buffer.                                                                 *)
TakeNew ==
    /\ Begin
    /\ Head(wire).id = 0 \/ ~Repeated(Head(wire).id)
    /\ pc' = "look" /\ slot' = 1 /\ steady' = Slot
    /\ UNCHANGED <<table, buffer, clean, unacked>>

(* One that is there is acknowledged again and goes to no handler.         *)
TakeRepeated ==
    /\ Begin
    /\ Head(wire).id # 0 /\ Repeated(Head(wire).id)
    /\ pc' = "ack"
    /\ UNCHANGED <<table, buffer, slot, steady, clean, unacked>>

(* Mutant: the table is searched for the very topic, not for its filters.  *)
Found_Equal(i) == topic_filter[i] # NoFilter /\ Chars(topic_filter[i]) = Chars(packet.topic)

(* Entry i is in use and its filter equals or matches the topic.           *)
Found(i) ==
    /\ topic_filter[i] # NoFilter
    /\ \/ Chars(topic_filter[i]) = Chars(packet.topic)
       \/ TopicMatched(Chars(topic_filter[i]), Chars(packet.topic))

(* _deliver_message, the loop under lock_generic, as far as a match.       *)
Lookup(i) ==
    /\ pc = "look" /\ i \in slot .. Handlers
    /\ Found(i) /\ \A j \in slot .. i - 1 : ~Found(j)
    /\ slot' = i /\ pc' = "call"
    /\ UNCHANGED <<table, buffer, packet, steady, broker>>

(* Mutant: the identifier of a delivered message is not kept.              *)
Remember_Never(id) == UNCHANGED buffer

(* _add_packet_id_to_repeat_buf                                            *)
Remember(id) ==
    IF Repeated(id)
    THEN UNCHANGED buffer
    ELSE /\ repeat_buf' = [repeat_buf EXCEPT ![repeat_cnt] = id]
         /\ repeat_cnt' = (repeat_cnt + 1) % RepeatLen

(* The message has reached the application: QoS 0 ends here, QoS 1 goes    *)
(* into the buffer and on to its PUBACK.                                   *)
Delivered ==
    /\ unacked' = [k \in DOMAIN unacked |->
          IF unacked[k].id = packet.id THEN [unacked[k] EXCEPT !.got = @ + 1] ELSE unacked[k]]
    /\ IF packet.id = 0
       THEN pc' = "idle" /\ packet' = NoPacket /\ UNCHANGED buffer
       ELSE pc' = "ack" /\ Remember(packet.id) /\ UNCHANGED packet
    /\ slot' = 1 /\ steady' = {}
    /\ UNCHANGED <<table, clean, wire>>

(* The handler of the entry, read after the lock was released.             *)
CallHandler ==
    /\ pc = "call" /\ has_handler[slot]
    /\ Delivered

(* It is NULL: the loop goes on with the next entry.                       *)
SkipEntry ==
    /\ pc = "call" /\ ~has_handler[slot]
    /\ pc' = "look" /\ slot' = slot + 1
    /\ UNCHANGED <<table, buffer, packet, steady, broker>>

(* No entry matches: MQTT_EVENT_PUBLISH_RECVEIVED to the event handler.    *)
CallDefault ==
    /\ pc = "look" /\ \A i \in slot .. Handlers : ~Found(i)
    /\ Delivered

(* serialize_pub_ack_packet and send_mqtt_packet; the PUBACK may fail to   *)
(* be sent or be lost.                                                     *)
SendPuback(arrives) ==
    /\ pc = "ack"
    /\ pc' = "idle" /\ packet' = NoPacket
    /\ IF arrives
       THEN \E k \in DOMAIN unacked : unacked[k].id = packet.id /\ unacked' = RemoveAt(unacked, k)
       ELSE UNCHANGED unacked
    /\ UNCHANGED <<table, buffer, slot, steady, clean, wire>>

-------------------------------------------------------------------------------

Next ==
    \/ \E t \in Topic : SendQos0(t)
    \/ \E t \in Topic, id \in PacketId : SendQos1(t, id)
    \/ Reconnect
    \/ \E f \in Filter, handler \in BOOLEAN : Subscribed(f, handler)
    \/ \E f \in Filter : Unsubscribe(f)
    \/ TakeNew \/ TakeRepeated
    \/ \E i \in Slot : Lookup(i)
    \/ CallHandler \/ SkipEntry \/ CallDefault
    \/ \E arrives \in BOOLEAN : SendPuback(arrives)

Spec == Init /\ [][Next]_vars

-------------------------------------------------------------------------------
(* A QoS 1 message has reached the application exactly once when its       *)
(* PUBACK is sent, over lost PUBACKs, reconnections and resent packets: a  *)
(* message that is acknowledged without having been delivered is lost for  *)
(* good, and one that is resent is not delivered again.                    *)
ExactlyOnce ==
    pc = "ack" =>
        \A k \in DOMAIN unacked : unacked[k].id = packet.id => unacked[k].got = 1

(* A message goes to a handler only on behalf of a subscription that is in *)
(* the table at that moment and whose filter accepts the topic in the      *)
(* sense of MQTT, and to the default handler only if no entry that stayed  *)
(* in the table meanwhile, with a handler, accepts it.                     *)
RightHandler ==
    [][/\ CallHandler =>
             topic_filter[slot] # NoFilter /\ Accepts(topic_filter[slot], packet.topic)
       /\ CallDefault =>
             \A i \in steady :
                topic_filter[i] # NoFilter /\ has_handler[i] =>
                    ~Accepts(topic_filter[i], packet.topic)]_vars
===============================================================================
