------------------------ MODULE MqttDeliver_proofs -------------------------
(***************************************************************************)
(* Theorems about MqttDeliver for every length of the repeat buffer, every *)
(* range of packet identifiers and any number of messages under way.       *)
(***************************************************************************)
EXTENDS MqttDeliver, Integers, SequenceTheorems, TLAPS

Message == [id : PacketId, topic : Topic, got : Nat, after : Nat]

TypeInv == TypeOK /\ (pc = "call" => slot \in Slot)

-----------------------------------------------------------------------------
(***************************************************************************)
(* Sequences.                                                              *)
(***************************************************************************)
LEMMA AppendElements ==
  ASSUME NEW S, NEW s \in Seq(S), NEW e \in S
  PROVE  /\ Append(s, e) \in Seq(S)
         /\ DOMAIN s = 1 .. Len(s) /\ Len(s) \in Nat /\ Len(Append(s, e)) = Len(s) + 1
         /\ DOMAIN Append(s, e) = 1 .. Len(s) + 1
         /\ \A i \in 1 .. Len(s) : Append(s, e)[i] = s[i]
         /\ Append(s, e)[Len(s) + 1] = e
  BY AppendProperties, LenProperties

LEMMA TailElements ==
  ASSUME NEW S, NEW s \in Seq(S), s # <<>>
  PROVE  /\ Tail(s) \in Seq(S) /\ Head(s) \in S
         /\ Head(s) = s[1] /\ 1 \in DOMAIN s
         /\ DOMAIN s = 1 .. Len(s) /\ DOMAIN Tail(s) = 1 .. Len(s) - 1 /\ Len(s) \in Nat \ {0}
         /\ \A i \in DOMAIN Tail(s) : i + 1 \in DOMAIN s /\ Tail(s)[i] = s[i + 1]
<1>1. Len(s) \in Nat \ {0} /\ DOMAIN s = 1 .. Len(s)
  BY EmptySeq, LenProperties
<1>2. Tail(s) \in Seq(S) /\ Head(s) \in S /\ Len(Tail(s)) = Len(s) - 1
      /\ \A i \in 1 .. Len(Tail(s)) : Tail(s)[i] = s[i + 1]
  BY HeadTailProperties
<1>3. DOMAIN Tail(s) = 1 .. Len(Tail(s))
  BY <1>2, LenProperties
<1> QED
  BY <1>1, <1>2, <1>3

(* Where element k of the sequence without element i was.                  *)
Before(k, i) == IF k < i THEN k ELSE k + 1

LEMMA RemoveAtElements ==
  ASSUME NEW S, NEW s \in Seq(S), NEW i \in DOMAIN s
  PROVE  /\ RemoveAt(s, i) \in Seq(S) /\ DOMAIN s = 1 .. Len(s) /\ Len(s) \in Nat \ {0}
         /\ Len(RemoveAt(s, i)) = Len(s) - 1
         /\ DOMAIN RemoveAt(s, i) = 1 .. Len(s) - 1
         /\ \A k \in 1 .. Len(s) - 1 : RemoveAt(s, i)[k] = s[Before(k, i)]
<1> DEFINE l == SubSeq(s, 1, i - 1)
           r == SubSeq(s, i + 1, Len(s))
<1>1. DOMAIN s = 1 .. Len(s) /\ Len(s) \in Nat \ {0} /\ i \in 1 .. Len(s)
      /\ \A k \in 1 .. Len(s) : s[k] \in S
  BY LenProperties, ElementOfSeq
<1>2. l \in Seq(S) /\ Len(l) = i - 1 /\ \A k \in 1 .. i - 1 : l[k] = s[k]
  <2>1. /\ l \in Seq(S) /\ Len(l) = (IF 1 <= i - 1 THEN (i - 1) - 1 + 1 ELSE 0)
        /\ \A k \in 1 .. (i - 1) - 1 + 1 : l[k] = s[1 + k - 1]
    BY <1>1, SubSeqProperties
  <2> HIDE DEF l
  <2> QED
    BY <1>1, <2>1
<1>3. r \in Seq(S) /\ Len(r) = Len(s) - i /\ \A k \in 1 .. Len(s) - i : r[k] = s[i + k]
  <2>1. /\ r \in Seq(S) /\ Len(r) = (IF i + 1 <= Len(s) THEN Len(s) - (i + 1) + 1 ELSE 0)
        /\ \A k \in 1 .. Len(s) - (i + 1) + 1 : r[k] = s[(i + 1) + k - 1]
    BY SMTT(30), <1>1, SubSeqProperties
  <2> HIDE DEF r
  <2>2. ASSUME NEW k \in 1 .. Len(s) - i PROVE r[k] = s[i + k]
    <3>1. k \in 1 .. Len(s) - (i + 1) + 1 /\ (i + 1) + k - 1 = i + k
      BY <1>1
    <3> QED
      BY <2>1, <3>1
  <2> QED
    BY <1>1, <2>1, <2>2
<1> HIDE DEF l, r
<1>4. /\ l \o r \in Seq(S) /\ Len(l \o r) = Len(l) + Len(r)
      /\ \A k \in 1 .. Len(l) + Len(r) :
            (l \o r)[k] = IF k <= Len(l) THEN l[k] ELSE r[k - Len(l)]
  BY <1>2, <1>3, ConcatProperties
<1>5. RemoveAt(s, i) = l \o r
  BY DEF RemoveAt, l, r
<1>6. Len(l \o r) = Len(s) - 1 /\ DOMAIN (l \o r) = 1 .. Len(s) - 1
  <2>1. Len(l \o r) = Len(s) - 1
    BY <1>1, <1>2, <1>3, <1>4
  <2>2. DOMAIN (l \o r) = 1 .. Len(l \o r)
    BY <1>4, LenProperties
  <2> QED
    BY <2>1, <2>2
<1>7. ASSUME NEW k \in 1 .. Len(s) - 1 PROVE (l \o r)[k] = s[Before(k, i)]
  <2>1. CASE k < i
    BY SMTT(30), <1>1, <1>2, <1>3, <1>4, <2>1 DEF Before
  <2>2. CASE ~(k < i)
    <3>1. (l \o r)[k] = r[k - (i - 1)] /\ k - (i - 1) \in 1 .. Len(s) - i
      BY SMTT(30), <1>1, <1>2, <1>3, <1>4, <2>2
    <3>2. i + (k - (i - 1)) = k + 1
      BY <1>1
    <3> QED
      BY <1>3, <2>2, <3>1, <3>2 DEF Before
  <2> QED
    BY <2>1, <2>2
<1> QED
  BY <1>1, <1>4, <1>5, <1>6, <1>7

(* A sequence made element by element from another one.                    *)
LEMMA MapSeq ==
  ASSUME NEW S, NEW T, NEW s \in Seq(S), NEW f \in [DOMAIN s -> T]
  PROVE  f \in Seq(T) /\ Len(f) = Len(s) /\ DOMAIN f = DOMAIN s /\ DOMAIN s = 1 .. Len(s)
<1>1. DOMAIN s = 1 .. Len(s) /\ Len(s) \in Nat
  BY LenProperties
<1>2. f \in Seq(T)
  BY <1>1, SeqDef
<1>3. Len(f) \in Nat /\ DOMAIN f = 1 .. Len(f)
  BY <1>2, LenProperties
<1> QED
  BY <1>1, <1>2, <1>3

-----------------------------------------------------------------------------
(***************************************************************************)
(* What the steps do to the messages the broker keeps and to the wire.     *)
(***************************************************************************)
LEMMA Lengths ==
  ASSUME TypeInv
  PROVE  /\ unacked \in Seq(Message) /\ wire \in Seq(Packet)
         /\ DOMAIN unacked = 1 .. Len(unacked) /\ Len(unacked) \in Nat
         /\ DOMAIN wire = 1 .. Len(wire) /\ Len(wire) \in Nat
         /\ \A k \in DOMAIN unacked : /\ unacked[k] \in Message /\ unacked[k].id \in PacketId
                                      /\ unacked[k].id \in 1 .. MaxId
                                      /\ unacked[k].got \in Nat /\ unacked[k].after \in Nat
         /\ \A i \in DOMAIN wire : wire[i] \in Packet /\ wire[i].id \in 0 .. MaxId
         /\ packet.id \in 0 .. MaxId
<1>1. unacked \in Seq(Message) /\ wire \in Seq(Packet)
  BY DEF TypeInv, TypeOK, Message
<1>2. /\ DOMAIN unacked = 1 .. Len(unacked) /\ Len(unacked) \in Nat
      /\ DOMAIN wire = 1 .. Len(wire) /\ Len(wire) \in Nat
  BY <1>1, LenProperties
<1>3. /\ \A k \in DOMAIN unacked : unacked[k] \in Message
      /\ \A i \in DOMAIN wire : wire[i] \in Packet
  BY <1>1, <1>2, ElementOfSeq
<1>4. packet.id \in 0 .. MaxId
  BY ConstantsAssumption DEF TypeInv, TypeOK, Packet, NoPacket
<1> QED
  BY <1>1, <1>2, <1>3, <1>4 DEF Message, Packet, PacketId

LEMMA SendQos0Facts ==
  ASSUME TypeInv, NEW t \in Topic, SendQos0(t)
  PROVE  /\ wire' \in Seq(Packet) /\ DOMAIN wire' = 1 .. Len(wire) + 1
         /\ \A i \in 1 .. Len(wire) : wire'[i] = wire[i]
         /\ wire'[Len(wire) + 1].id = 0
         /\ UNCHANGED <<table, buffer, reader, clean, unacked>>
<1>1. [id |-> 0, topic |-> t] \in Packet
  BY ConstantsAssumption DEF Packet
<1>2. wire' = Append(wire, [id |-> 0, topic |-> t])
  BY DEF SendQos0
<1>3. wire' \in Seq(Packet) /\ DOMAIN wire' = 1 .. Len(wire) + 1
      /\ (\A i \in 1 .. Len(wire) : wire'[i] = wire[i])
      /\ wire'[Len(wire) + 1] = [id |-> 0, topic |-> t]
  BY <1>1, <1>2, Lengths, AppendElements
<1> QED
  BY <1>3 DEF SendQos0

LEMMA SendQos1Facts ==
  ASSUME TypeInv, NEW t \in Topic, NEW id \in PacketId, SendQos1(t, id)
  PROVE  /\ wire' \in Seq(Packet) /\ DOMAIN wire' = 1 .. Len(wire) + 1
         /\ \A i \in 1 .. Len(wire) : wire'[i] = wire[i]
         /\ wire'[Len(wire) + 1].id = id
         /\ unacked' \in Seq(Message) /\ Len(unacked') = Len(unacked) + 1
         /\ DOMAIN unacked' = 1 .. Len(unacked) + 1
         /\ \A k \in 1 .. Len(unacked) :
               /\ unacked'[k].id = unacked[k].id /\ unacked'[k].got = unacked[k].got
               /\ unacked'[k].after = unacked[k].after + 1
         /\ unacked'[Len(unacked) + 1].id = id /\ unacked'[Len(unacked) + 1].got = 0
         /\ unacked'[Len(unacked) + 1].after = 0
         /\ UNCHANGED <<table, buffer, reader, clean>>
<1> DEFINE older == [k \in DOMAIN unacked |-> [unacked[k] EXCEPT !.after = @ + 1]]
           new == [id |-> id, topic |-> t, got |-> 0, after |-> 0]
           sent == [id |-> id, topic |-> t]
<1>1. sent \in Packet /\ new \in Message
  BY ConstantsAssumption DEF Packet, PacketId, Message
<1>2. wire' = Append(wire, sent) /\ unacked' = Append(older, new)
      /\ UNCHANGED <<table, buffer, reader, clean>>
  BY DEF SendQos1
<1>3. wire' \in Seq(Packet) /\ DOMAIN wire' = 1 .. Len(wire) + 1
      /\ (\A i \in 1 .. Len(wire) : wire'[i] = wire[i])
      /\ wire'[Len(wire) + 1] = sent
  <2> HIDE DEF sent
  <2> QED
    BY <1>1, <1>2, Lengths, AppendElements
<1>4. /\ older \in [DOMAIN unacked -> Message]
      /\ \A k \in DOMAIN unacked :
            /\ older[k].id = unacked[k].id /\ older[k].got = unacked[k].got
            /\ older[k].after = unacked[k].after + 1
  <2>1. ASSUME NEW k \in DOMAIN unacked
        PROVE  /\ older[k] \in Message
               /\ older[k].id = unacked[k].id /\ older[k].got = unacked[k].got
               /\ older[k].after = unacked[k].after + 1
    <3>1. unacked[k] \in Message
      BY Lengths
    <3>2. older[k] = [unacked[k] EXCEPT !.after = @ + 1]
      OBVIOUS
    <3> QED
      BY <3>1, <3>2 DEF Message
  <2> QED
    BY <2>1
<1>5. older \in Seq(Message) /\ Len(older) = Len(unacked)
  <2>1. unacked \in Seq(Message)
    BY Lengths
  <2> HIDE DEF older
  <2>2. older \in [DOMAIN unacked -> Message]
    BY <1>4
  <2> QED
    BY <2>1, <2>2, MapSeq
<1>6. /\ unacked' \in Seq(Message) /\ Len(unacked') = Len(unacked) + 1
      /\ DOMAIN unacked' = 1 .. Len(unacked) + 1
      /\ \A k \in 1 .. Len(unacked) : unacked'[k] = older[k]
      /\ unacked'[Len(unacked) + 1] = new
  <2> HIDE DEF older, new
  <2>1. /\ Append(older, new) \in Seq(Message) /\ Len(Append(older, new)) = Len(older) + 1
        /\ DOMAIN Append(older, new) = 1 .. Len(older) + 1
        /\ \A k \in 1 .. Len(older) : Append(older, new)[k] = older[k]
        /\ Append(older, new)[Len(older) + 1] = new
    BY <1>1, <1>5, AppendElements
  <2> QED
    BY <1>2, <1>5, <2>1
<1>7. sent.id = id /\ new.id = id /\ new.got = 0 /\ new.after = 0
  OBVIOUS
<1> HIDE DEF older, new, sent
<1> QED
  BY <1>2, <1>3, <1>4, <1>6, <1>7, Lengths

LEMMA ReconnectFacts ==
  ASSUME TypeInv, Reconnect
  PROVE  /\ pc = "idle" /\ UNCHANGED <<table, buffer, reader, clean>>
         /\ unacked' = unacked \/ unacked' = <<>>
         /\ wire' \in Seq(Packet) /\ DOMAIN wire' = DOMAIN unacked'
         /\ \A k \in DOMAIN unacked' : wire'[k].id = unacked'[k].id
<1>1. /\ pc = "idle" /\ UNCHANGED <<table, buffer, reader, clean>>
      /\ unacked' = unacked \/ unacked' = <<>>
      /\ wire' = [k \in DOMAIN unacked' |-> [id |-> unacked'[k].id, topic |-> unacked'[k].topic]]
  BY DEF Reconnect
<1>2. unacked' \in Seq(Message)
  BY <1>1, Lengths, EmptySeq
<1>3. \A k \in DOMAIN unacked' : unacked'[k] \in Message
  BY <1>2, LenProperties
<1>4. wire' \in [DOMAIN unacked' -> Packet]
  BY <1>1, <1>3, ConstantsAssumption DEF Message, Packet, PacketId
<1>5. wire' \in Seq(Packet) /\ DOMAIN wire' = DOMAIN unacked'
  BY <1>2, <1>4, MapSeq
<1> QED
  BY <1>1, <1>5

LEMMA DeliveredFacts ==
  ASSUME TypeInv, Delivered
  PROVE  /\ unacked' \in Seq(Message) /\ Len(unacked') = Len(unacked)
         /\ DOMAIN unacked' = DOMAIN unacked
         /\ \A k \in DOMAIN unacked :
               /\ unacked'[k].id = unacked[k].id /\ unacked'[k].after = unacked[k].after
               /\ unacked'[k].got = IF unacked[k].id = packet.id THEN unacked[k].got + 1
                                                                ELSE unacked[k].got
         /\ UNCHANGED <<table, clean, wire>> /\ slot' = 1 /\ steady' = {}
<1>1. /\ unacked' = [k \in DOMAIN unacked |->
             IF unacked[k].id = packet.id THEN [unacked[k] EXCEPT !.got = @ + 1] ELSE unacked[k]]
      /\ UNCHANGED <<table, clean, wire>> /\ slot' = 1 /\ steady' = {}
  BY DEF Delivered
<1>2. ASSUME NEW k \in DOMAIN unacked
      PROVE  /\ unacked'[k] \in Message
             /\ unacked'[k].id = unacked[k].id /\ unacked'[k].after = unacked[k].after
             /\ unacked'[k].got = IF unacked[k].id = packet.id THEN unacked[k].got + 1
                                                              ELSE unacked[k].got
  <2>1. unacked[k] \in Message
    BY Lengths
  <2>2. unacked'[k] = IF unacked[k].id = packet.id THEN [unacked[k] EXCEPT !.got = @ + 1]
                                                   ELSE unacked[k]
    BY <1>1
  <2> QED
    BY <2>1, <2>2 DEF Message
<1>3. unacked' \in [DOMAIN unacked -> Message]
  BY <1>1, <1>2
<1> QED
  BY <1>1, <1>2, <1>3, Lengths, MapSeq

(* The PUBACK takes out message i, if it arrives.                          *)
LEMMA SendPubackFacts ==
  ASSUME TypeInv, NEW arrives \in BOOLEAN, SendPuback(arrives)
  PROVE  /\ pc = "ack" /\ pc' = "idle" /\ packet' = NoPacket
         /\ UNCHANGED <<table, buffer, slot, steady, clean, wire>>
         /\ \/ UNCHANGED unacked
            \/ \E i \in DOMAIN unacked :
                 /\ unacked[i].id = packet.id
                 /\ unacked' \in Seq(Message) /\ Len(unacked') = Len(unacked) - 1
                 /\ DOMAIN unacked' = 1 .. Len(unacked) - 1
                 /\ \A k \in DOMAIN unacked' : /\ unacked'[k] = unacked[Before(k, i)]
                                               /\ Before(k, i) \in DOMAIN unacked \ {i}
<1>1. /\ pc = "ack" /\ pc' = "idle" /\ packet' = NoPacket
      /\ UNCHANGED <<table, buffer, slot, steady, clean, wire>>
  BY DEF SendPuback
<1>2. CASE ~arrives
  BY <1>1, <1>2 DEF SendPuback
<1>3. CASE arrives
  <2>1. PICK i \in DOMAIN unacked : unacked[i].id = packet.id /\ unacked' = RemoveAt(unacked, i)
    BY <1>3 DEF SendPuback
  <2>2. /\ unacked' \in Seq(Message) /\ Len(unacked') = Len(unacked) - 1
        /\ DOMAIN unacked' = 1 .. Len(unacked) - 1
        /\ \A k \in 1 .. Len(unacked) - 1 : unacked'[k] = unacked[Before(k, i)]
    BY <2>1, Lengths, RemoveAtElements
  <2>3. \A k \in 1 .. Len(unacked) - 1 : Before(k, i) \in DOMAIN unacked \ {i}
    BY <2>1, Lengths DEF Before
  <2> QED
    BY <1>1, <2>1, <2>2, <2>3
<1> QED
  BY <1>2, <1>3

-----------------------------------------------------------------------------
(***************************************************************************)
(* Types.                                                                  *)
(***************************************************************************)
LEMMA RememberType ==
  ASSUME TypeInv, Remember(packet.id)
  PROVE  /\ repeat_buf' \in [0 .. RepeatLen - 1 -> 0 .. MaxId]
         /\ repeat_cnt' \in 0 .. RepeatLen - 1
<1>1. /\ repeat_buf \in [0 .. RepeatLen - 1 -> 0 .. MaxId] /\ repeat_cnt \in 0 .. RepeatLen - 1
      /\ RepeatLen \in Nat \ {0} /\ packet.id \in 0 .. MaxId
  BY Lengths, ConstantsAssumption DEF TypeInv, TypeOK
<1> QED
  BY SMTT(30), <1>1 DEF Remember, buffer

LEMMA TypeStep ==
  ASSUME TypeInv, [Next]_vars
  PROVE  TypeInv'
<1> USE DEF TypeInv, TypeOK
<1> USE ConstantsAssumption
<1>1. ASSUME NEW t \in Topic, SendQos0(t) PROVE TypeInv'
  BY <1>1, SendQos0Facts DEF table, buffer, reader
<1>2. ASSUME NEW t \in Topic, NEW id \in PacketId, SendQos1(t, id) PROVE TypeInv'
  <2>1. wire' \in Seq(Packet) /\ unacked' \in Seq(Message) /\ UNCHANGED <<table, buffer, reader, clean>>
    BY <1>2, SendQos1Facts
  <2> QED
    BY <2>1 DEF table, buffer, reader, Message
<1>3. ASSUME Reconnect PROVE TypeInv'
  <2>1. wire' \in Seq(Packet) /\ UNCHANGED <<table, buffer, reader, clean>>
        /\ (unacked' = unacked \/ unacked' = <<>>)
    BY <1>3, ReconnectFacts
  <2>2. unacked' \in Seq([id : PacketId, topic : Topic, got : Nat, after : Nat])
    BY <2>1, EmptySeq
  <2> QED
    BY <2>1, <2>2 DEF table, buffer, reader
<1>4. ASSUME NEW f \in Filter, NEW handler \in BOOLEAN, Subscribed(f, handler) PROVE TypeInv'
  <2>1. topic_filter' \in [Slot -> Filter \cup {NoFilter}]
    BY <1>4 DEF Subscribed
  <2>2. has_handler' \in [Slot -> BOOLEAN]
    BY <1>4, Zenon DEF Subscribed
  <2>3. UNCHANGED <<buffer, reader, broker>>
    BY <1>4 DEF Subscribed
  <2> QED
    BY <2>1, <2>2, <2>3 DEF buffer, reader, broker
<1>5. ASSUME NEW f \in Filter, Unsubscribe(f) PROVE TypeInv'
  BY <1>5 DEF Unsubscribe, buffer, broker
<1>6. ASSUME Begin PROVE packet' \in Packet /\ wire' \in Seq(Packet)
  BY <1>6, TailElements DEF Begin
<1>7. CASE TakeNew
  <2>1. packet' \in Packet /\ wire' \in Seq(Packet)
    BY <1>6, <1>7 DEF TakeNew
  <2> QED
    BY <1>7, <2>1 DEF TakeNew, table, buffer
<1>8. CASE TakeRepeated
  <2>1. packet' \in Packet /\ wire' \in Seq(Packet)
    BY <1>6, <1>8 DEF TakeRepeated
  <2> QED
    BY <1>8, <2>1 DEF TakeRepeated, table, buffer
<1>9. ASSUME NEW i \in Slot, Lookup(i) PROVE TypeInv'
  BY <1>9 DEF Lookup, table, buffer, broker, Slot
<1>10. ASSUME Delivered PROVE TypeInv'
  <2>1. unacked' \in Seq(Message) /\ UNCHANGED <<table, clean, wire>> /\ slot' = 1 /\ steady' = {}
    BY <1>10, DeliveredFacts
  <2>2. /\ repeat_buf' \in [0 .. RepeatLen - 1 -> 0 .. MaxId]
        /\ repeat_cnt' \in 0 .. RepeatLen - 1
    BY <1>10, RememberType DEF Delivered, buffer
  <2>3. pc' \in {"idle", "ack"} /\ packet' \in Packet \cup {NoPacket}
    BY <1>10 DEF Delivered
  <2> QED
    BY SMTT(30), <2>1, <2>2, <2>3 DEF table, Message
<1>11. CASE SkipEntry
  BY <1>11 DEF SkipEntry, table, buffer, broker, Slot
<1>12. ASSUME NEW arrives \in BOOLEAN, SendPuback(arrives) PROVE TypeInv'
  <2>1. /\ pc' = "idle" /\ packet' = NoPacket /\ UNCHANGED <<table, buffer, slot, steady, clean, wire>>
        /\ UNCHANGED unacked \/ unacked' \in Seq(Message)
    BY <1>12, SendPubackFacts
  <2> QED
    BY <2>1 DEF table, buffer, Message
<1>13. CASE UNCHANGED vars
  BY <1>13 DEF vars, table, buffer, reader, broker
<1> QED
  BY <1>1, <1>2, <1>3, <1>4, <1>5, <1>7, <1>8, <1>9, <1>10, <1>11, <1>12, <1>13
     DEF Next, CallHandler, CallDefault

(* The tables, the packet in hand and the messages under way have their    *)
(* types, and the entry whose handler is called is one of the table.       *)
THEOREM DeliverTypeCorrect == Spec => []TypeOK
<1>1. Init => TypeInv
  BY ConstantsAssumption DEF Init, TypeInv, TypeOK, Slot
<1>2. TypeInv => TypeOK
  BY DEF TypeInv
<1> QED
  BY <1>1, <1>2, TypeStep, PTL DEF Spec

-----------------------------------------------------------------------------
(***************************************************************************)
(* The inductive invariant behind ExactlyOnce.                             *)
(*                                                                         *)
(* The buffer filters a repeated packet only as long as its identifier has *)
(* not been pushed out by younger ones.  AgeInv is the measure that shows  *)
(* it is not: the ids remembered after one, and those that still will be,  *)
(* are ids of messages the broker sent after it, fewer than RepeatLen.     *)
(* It rests on the order of delivery: what is not delivered yet is on the  *)
(* wire or in hand, in the order in which the broker sent it.              *)
(***************************************************************************)
Calm == "id_reused" \notin Adversity /\ "far_ahead" \notin Adversity

(* Identifiers remembered after the one at position p of the ring.         *)
Age(p) == IF p < repeat_cnt THEN repeat_cnt - 1 - p ELSE repeat_cnt - 1 - p + RepeatLen

InHand == pc # "idle" /\ packet.id # 0

Known(id) == \E k \in DOMAIN unacked : unacked[k].id = id

IdsInv == \A k, l \in DOMAIN unacked : unacked[k].id = unacked[l].id => k = l

GotInv == \A k \in DOMAIN unacked :
             unacked[k].got = IF Repeated(unacked[k].id) THEN 1 ELSE 0

FilterInv ==
    /\ pc \in {"look", "call"} /\ packet.id # 0 => ~Repeated(packet.id)
    /\ pc = "ack" => packet.id # 0 /\ Repeated(packet.id)

KnownInv ==
    /\ \A i \in DOMAIN wire : wire[i].id # 0 => Known(wire[i].id)
    /\ InHand => Known(packet.id)

WireOrderInv ==
    \A i, j \in DOMAIN wire : \A k, l \in DOMAIN unacked :
        i < j /\ unacked[k].id = wire[i].id /\ unacked[l].id = wire[j].id => k < l

HandFirstInv ==
    InHand => \A i \in DOMAIN wire : \A k, l \in DOMAIN unacked :
                 unacked[k].id = packet.id /\ unacked[l].id = wire[i].id => k < l

PendingInv ==
    \A l \in DOMAIN unacked : unacked[l].got = 0 =>
        \/ \E i \in DOMAIN wire : wire[i].id = unacked[l].id
        \/ InHand /\ packet.id = unacked[l].id

AfterInv ==
    \A k \in DOMAIN unacked :
        unacked[k].after < RepeatLen /\ Len(unacked) - k <= unacked[k].after

AgeInv ==
    \A k \in DOMAIN unacked : \A p \in 0 .. RepeatLen - 1 :
        repeat_buf[p] = unacked[k].id =>
            /\ Age(p) <= unacked[k].after
            /\ \A j \in DOMAIN unacked :
                  unacked[j].got = 0 => Age(p) + Len(unacked) + 1 - j <= unacked[k].after

DeliverInv ==
    /\ IdsInv /\ GotInv /\ FilterInv /\ KnownInv /\ WireOrderInv /\ HandFirstInv
    /\ PendingInv /\ AfterInv /\ AgeInv

(* Steps that touch neither the buffer nor any message.                    *)
LEMMA QuietStep ==
  ASSUME DeliverInv, UNCHANGED <<buffer, packet, wire, unacked>>,
         pc' = pc \/ (pc \in {"look", "call"} /\ pc' \in {"look", "call"})
  PROVE  DeliverInv'
<1> USE DEF DeliverInv, buffer
<1>1. \A id : Repeated(id)' <=> Repeated(id)
  BY DEF Repeated
<1>2. \A id : Known(id)' <=> Known(id)
  BY DEF Known
<1>3. InHand' <=> InHand
  BY DEF InHand
<1>4. IdsInv'
  BY DEF IdsInv
<1>5. GotInv'
  BY <1>1 DEF GotInv
<1>6. FilterInv'
  BY <1>1 DEF FilterInv
<1>7. KnownInv'
  BY <1>2, <1>3 DEF KnownInv
<1>8. WireOrderInv' /\ HandFirstInv'
  BY <1>3 DEF WireOrderInv, HandFirstInv
<1>9. PendingInv'
  BY <1>3 DEF PendingInv
<1>10. AfterInv' /\ AgeInv'
  BY DEF AfterInv, AgeInv, Age
<1> QED
  BY <1>4, <1>5, <1>6, <1>7, <1>8, <1>9, <1>10

LEMMA SendQos0Step ==
  ASSUME TypeInv, DeliverInv, NEW t \in Topic, SendQos0(t)
  PROVE  DeliverInv'
<1> USE DEF DeliverInv
<1>1. /\ DOMAIN wire' = 1 .. Len(wire) + 1 /\ DOMAIN wire = 1 .. Len(wire) /\ Len(wire) \in Nat
      /\ \A i \in 1 .. Len(wire) : wire'[i] = wire[i]
      /\ wire'[Len(wire) + 1].id = 0
  BY Lengths, SendQos0Facts
<1>2. UNCHANGED <<buffer, pc, packet, unacked>>
  BY SendQos0Facts DEF reader
<1>3. \A k \in DOMAIN unacked : unacked[k].id # 0
  BY Lengths
<1>4. /\ \A id : Repeated(id)' <=> Repeated(id)
      /\ \A id : Known(id)' <=> Known(id)
      /\ InHand' <=> InHand
  BY <1>2 DEF Repeated, Known, InHand, buffer
<1>5. IdsInv'
  BY <1>2 DEF IdsInv
<1>6. GotInv' /\ FilterInv'
  BY <1>2, <1>4 DEF GotInv, FilterInv
<1>7. KnownInv'
  BY <1>1, <1>2, <1>4 DEF KnownInv
<1>8. WireOrderInv'
  <2> SUFFICES ASSUME NEW i \in DOMAIN wire', NEW j \in DOMAIN wire',
                      NEW k \in DOMAIN unacked, NEW l \in DOMAIN unacked, i < j,
                      unacked[k].id = wire'[i].id, unacked[l].id = wire'[j].id
               PROVE  k < l
    BY <1>2 DEF WireOrderInv
  <2>1. i \in DOMAIN wire /\ j \in DOMAIN wire /\ wire'[i] = wire[i] /\ wire'[j] = wire[j]
    BY <1>1, <1>3
  <2> QED
    BY <2>1 DEF WireOrderInv
<1>9. HandFirstInv'
  BY <1>1, <1>2, <1>3, <1>4 DEF HandFirstInv
<1>10. PendingInv'
  BY <1>1, <1>2, <1>4 DEF PendingInv
<1>11. AfterInv' /\ AgeInv'
  BY <1>2 DEF AfterInv, AgeInv, Age, buffer
<1> QED
  BY <1>5, <1>6, <1>7, <1>8, <1>9, <1>10, <1>11

LEMMA SendQos1Step ==
  ASSUME Calm, TypeInv, DeliverInv, NEW t \in Topic, NEW id \in PacketId, SendQos1(t, id)
  PROVE  DeliverInv'
<1> USE DEF DeliverInv
<1> DEFINE n == Len(unacked)
           w == Len(wire)
<1>1. /\ DOMAIN wire' = 1 .. w + 1 /\ DOMAIN wire = 1 .. w /\ w \in Nat
      /\ \A i \in 1 .. w : wire'[i] = wire[i]
      /\ wire'[w + 1].id = id
  BY Lengths, SendQos1Facts
<1>2. /\ DOMAIN unacked' = 1 .. n + 1 /\ DOMAIN unacked = 1 .. n /\ n \in Nat /\ Len(unacked') = n + 1
      /\ \A k \in 1 .. n : /\ unacked'[k].id = unacked[k].id /\ unacked'[k].got = unacked[k].got
                           /\ unacked'[k].after = unacked[k].after + 1
                           /\ unacked[k].after \in Nat /\ unacked[k].id # 0
      /\ unacked'[n + 1].id = id /\ unacked'[n + 1].got = 0 /\ unacked'[n + 1].after = 0
  BY Lengths, SendQos1Facts
<1>3. UNCHANGED <<buffer, pc, packet>>
  BY SendQos1Facts DEF reader
<1> HIDE DEF n, w
<1>4. \A k \in DOMAIN unacked : unacked[k].id # id
  BY DEF SendQos1, InUse
<1>5. ~Repeated(id)
  BY DEF SendQos1, Repeated, Calm
<1>6. /\ \A k \in DOMAIN unacked : unacked[k].after + 1 < RepeatLen
      /\ RepeatLen \in Nat \ {0}
  BY ConstantsAssumption DEF SendQos1, Calm
<1>7. /\ \A x : Repeated(x)' <=> Repeated(x)
      /\ InHand' <=> InHand
  BY <1>3 DEF Repeated, InHand, buffer
<1>8. \A x : Known(x)' <=> Known(x) \/ x = id
  <2>1. ASSUME NEW x PROVE Known(x)' <=> Known(x) \/ x = id
    <3>1. ASSUME NEW k \in DOMAIN unacked', unacked'[k].id = x PROVE Known(x) \/ x = id
      <4>1. CASE k = n + 1
        BY <1>2, <3>1, <4>1
      <4>2. CASE k # n + 1
        <5>1. k \in 1 .. n
          BY <1>2, <4>2
        <5> QED
          BY <1>2, <3>1, <5>1 DEF Known
      <4> QED
        BY <4>1, <4>2
    <3>2. ASSUME NEW k \in DOMAIN unacked, unacked[k].id = x PROVE Known(x)'
      <4>1. k \in 1 .. n /\ k \in DOMAIN unacked'
        BY <1>2
      <4> QED
        BY <1>2, <3>2, <4>1 DEF Known
    <3>3. n + 1 \in DOMAIN unacked'
      BY <1>2
    <3>4. x = id => Known(x)'
      BY <1>2, <3>3 DEF Known
    <3> QED
      BY <3>1, <3>2, <3>4 DEF Known
  <2> QED
    BY <2>1
<1>9. id # 0
  BY ConstantsAssumption DEF PacketId
<1>10. IdsInv'
  BY <1>2, <1>4 DEF IdsInv
<1>11. GotInv'
  BY <1>2, <1>5, <1>7 DEF GotInv
<1>12. FilterInv'
  BY <1>3, <1>7 DEF FilterInv
<1>13. KnownInv'
  BY <1>1, <1>3, <1>7, <1>8 DEF KnownInv
<1>14. \A i \in DOMAIN wire : \A k \in DOMAIN unacked' :
          unacked'[k].id = wire[i].id => k \in DOMAIN unacked
  <2> SUFFICES ASSUME NEW i \in DOMAIN wire, wire[i].id = id PROVE FALSE
    BY <1>2
  <2> QED
    BY <1>4, <1>9 DEF KnownInv, Known
<1>15. WireOrderInv'
  <2> SUFFICES ASSUME NEW i \in DOMAIN wire', NEW j \in DOMAIN wire',
                      NEW k \in DOMAIN unacked', NEW l \in DOMAIN unacked', i < j,
                      unacked'[k].id = wire'[i].id, unacked'[l].id = wire'[j].id
               PROVE  k < l
    BY DEF WireOrderInv
  <2>1. i \in DOMAIN wire /\ wire'[i] = wire[i]
    BY <1>1
  <2>2. k \in DOMAIN unacked
    BY <1>14, <2>1
  <2>3. CASE j \in DOMAIN wire
    <3>1. wire'[j] = wire[j]
      BY <1>1, <2>3
    <3>2. l \in DOMAIN unacked
      BY <1>14, <2>3, <3>1
    <3> QED
      BY <1>2, <2>1, <2>2, <2>3, <3>1, <3>2 DEF WireOrderInv
  <2>4. CASE j \notin DOMAIN wire
    <3>1. unacked'[l].id = id
      BY <1>1, <2>4
    <3>2. l = n + 1 /\ k \in 1 .. n
      BY <1>2, <1>4, <2>2, <3>1
    <3> QED
      BY <1>2, <3>2
  <2> QED
    BY <2>3, <2>4
<1>16. HandFirstInv'
  <2> SUFFICES ASSUME InHand, NEW i \in DOMAIN wire',
                      NEW k \in DOMAIN unacked', NEW l \in DOMAIN unacked',
                      unacked'[k].id = packet.id, unacked'[l].id = wire'[i].id
               PROVE  k < l
    BY <1>3, <1>7 DEF HandFirstInv
  <2>1. k \in DOMAIN unacked
    BY <1>2, <1>4 DEF KnownInv, Known
  <2>2. CASE i \in DOMAIN wire
    <3>1. wire'[i] = wire[i]
      BY <1>1, <2>2
    <3>2. l \in DOMAIN unacked
      BY <1>14, <2>2, <3>1
    <3> QED
      BY <1>2, <2>1, <2>2, <3>1, <3>2 DEF HandFirstInv
  <2>3. CASE i \notin DOMAIN wire
    BY SMTT(30), <1>1, <1>2, <1>4, <2>1, <2>3
  <2> QED
    BY <2>2, <2>3
<1>17. PendingInv'
  <2> SUFFICES ASSUME NEW l \in DOMAIN unacked', unacked'[l].got = 0
               PROVE  \/ \E i \in DOMAIN wire' : wire'[i].id = unacked'[l].id
                      \/ InHand /\ packet.id = unacked'[l].id
    BY <1>3, <1>7 DEF PendingInv
  <2>1. CASE l = n + 1
    <3>1. w + 1 \in DOMAIN wire'
      BY <1>1
    <3> QED
      BY <1>1, <1>2, <2>1, <3>1
  <2>2. CASE l # n + 1
    <3>1. l \in DOMAIN unacked
      BY <1>2, <2>2
    <3>2. \/ \E i \in DOMAIN wire : wire[i].id = unacked[l].id
          \/ InHand /\ packet.id = unacked[l].id
      BY <1>2, <3>1 DEF PendingInv
    <3>3. \A i \in DOMAIN wire : i \in DOMAIN wire' /\ wire'[i] = wire[i]
      BY <1>1
    <3>4. unacked'[l].id = unacked[l].id
      BY <1>2, <3>1
    <3> QED
      BY <3>2, <3>3, <3>4
  <2> QED
    BY <2>1, <2>2
<1>18. AfterInv'
  BY <1>2, <1>6 DEF AfterInv
<1>19. AgeInv'
  <2> SUFFICES ASSUME NEW k \in DOMAIN unacked', NEW p \in 0 .. RepeatLen - 1,
                      repeat_buf[p] = unacked'[k].id
               PROVE  /\ Age(p) <= unacked'[k].after
                      /\ \A j \in DOMAIN unacked' : unacked'[j].got = 0 =>
                            Age(p) + (n + 1) + 1 - j <= unacked'[k].after
    BY <1>2, <1>3 DEF AgeInv, Age, buffer
  <2>1. repeat_buf[p] # id
    BY <1>5 DEF Repeated, TypeInv, TypeOK
  <2>2. k \in DOMAIN unacked /\ unacked'[k].id = unacked[k].id
        /\ unacked'[k].after = unacked[k].after + 1
    BY <1>2, <2>1
  <2>3. Age(p) \in Int
    BY ConstantsAssumption DEF Age, TypeInv, TypeOK
  <2>4. /\ Age(p) <= unacked[k].after
        /\ \A j \in DOMAIN unacked : unacked[j].got = 0 => Age(p) + n + 1 - j <= unacked[k].after
    BY <2>2 DEF AgeInv, n
  <2>5. unacked[k].after \in Nat
    BY <1>2, <2>2
  <2> HIDE DEF Age
  <2>6. ASSUME NEW j \in DOMAIN unacked', unacked'[j].got = 0
        PROVE  Age(p) + (n + 1) + 1 - j <= unacked[k].after + 1
    <3>1. CASE j = n + 1
      BY <1>2, <2>3, <2>4, <2>5, <3>1
    <3>2. CASE j # n + 1
      <4>1. j \in DOMAIN unacked /\ j \in 1 .. n /\ unacked[j].got = 0
        BY <1>2, <2>6, <3>2
      <4>2. Age(p) + n + 1 - j <= unacked[k].after
        BY <2>4, <4>1
      <4> QED
        BY <1>2, <2>3, <2>5, <4>1, <4>2
    <3> QED
      BY <3>1, <3>2
  <2> QED
    BY <2>2, <2>3, <2>4, <2>5, <2>6
<1> QED
  BY <1>10, <1>11, <1>12, <1>13, <1>15, <1>16, <1>17, <1>18, <1>19

LEMMA ReconnectStep ==
  ASSUME TypeInv, DeliverInv, Reconnect
  PROVE  DeliverInv'
<1> USE DEF DeliverInv
<1>1. /\ pc = "idle" /\ UNCHANGED <<buffer, pc, packet>>
      /\ unacked' = unacked \/ unacked' = <<>>
      /\ DOMAIN wire' = DOMAIN unacked'
      /\ \A k \in DOMAIN unacked' : wire'[k].id = unacked'[k].id
  BY ReconnectFacts DEF reader
<1>2. ~InHand' /\ \A x : Repeated(x)' <=> Repeated(x)
  BY <1>1 DEF InHand, Repeated, buffer
<1>3. unacked' = <<>> => DOMAIN unacked' = {}
  OBVIOUS
<1>4. DOMAIN unacked' \subseteq Nat
  BY <1>1, <1>3, Lengths
<1>5. IdsInv'
  BY <1>1, <1>3 DEF IdsInv
<1>6. GotInv' /\ FilterInv'
  BY <1>1, <1>2, <1>3 DEF GotInv, FilterInv
<1>7. KnownInv'
  BY <1>1, <1>2 DEF KnownInv, Known
<1>8. WireOrderInv'
  BY <1>1, <1>4, <1>5 DEF WireOrderInv, IdsInv
<1>9. HandFirstInv'
  BY <1>2 DEF HandFirstInv
<1>10. PendingInv'
  BY <1>1 DEF PendingInv
<1>11. AfterInv' /\ AgeInv'
  BY <1>1, <1>3 DEF AfterInv, AgeInv, Age, buffer
<1> QED
  BY <1>5, <1>6, <1>7, <1>8, <1>9, <1>10, <1>11

(* TakeNew and TakeRepeated: the first packet of the wire comes in hand.   *)
LEMMA BeginStep ==
  ASSUME TypeInv, DeliverInv, Begin, UNCHANGED <<buffer, unacked>>,
         \/ pc' = "look" /\ (Head(wire).id = 0 \/ ~Repeated(Head(wire).id))
         \/ pc' = "ack" /\ Head(wire).id # 0 /\ Repeated(Head(wire).id)
  PROVE  DeliverInv'
<1> USE DEF DeliverInv
<1>1. /\ wire' = Tail(wire) /\ Head(wire) = wire[1] /\ packet' = wire[1] /\ 1 \in DOMAIN wire
      /\ DOMAIN wire = 1 .. Len(wire) /\ DOMAIN wire' = 1 .. Len(wire) - 1 /\ Len(wire) \in Nat \ {0}
      /\ \A i \in DOMAIN wire' : i + 1 \in DOMAIN wire /\ wire'[i] = wire[i + 1]
  BY Lengths, TailElements DEF Begin
<1>2. pc = "idle" /\ ~InHand
  BY DEF Begin, InHand
<1>3. /\ \A x : Repeated(x)' <=> Repeated(x)
      /\ \A x : Known(x)' <=> Known(x)
      /\ InHand' <=> wire[1].id # 0
  BY <1>1 DEF InHand, Repeated, Known, buffer
<1>4. IdsInv' /\ GotInv'
  BY <1>3 DEF IdsInv, GotInv
<1>5. FilterInv'
  BY <1>1, <1>3 DEF FilterInv
<1>6. KnownInv'
  BY <1>1, <1>3 DEF KnownInv
<1>7. WireOrderInv'
  BY <1>1 DEF WireOrderInv
<1>8. HandFirstInv'
  BY <1>1 DEF WireOrderInv, HandFirstInv
<1>9. PendingInv'
  <2> SUFFICES ASSUME NEW l \in DOMAIN unacked, unacked[l].got = 0
               PROVE  \/ \E i \in DOMAIN wire' : wire'[i].id = unacked[l].id
                      \/ InHand' /\ packet'.id = unacked[l].id
    BY DEF PendingInv
  <2>1. PICK i \in DOMAIN wire : wire[i].id = unacked[l].id
    BY <1>2 DEF PendingInv
  <2>2. CASE i = 1
    BY <1>1, <1>3, <2>1, <2>2, Lengths
  <2>3. CASE i # 1
    <3>1. i - 1 \in DOMAIN wire' /\ (i - 1) + 1 = i
      BY <1>1, <2>3
    <3> QED
      BY <1>1, <2>1, <3>1
  <2> QED
    BY <2>2, <2>3
<1>10. AfterInv' /\ AgeInv'
  BY DEF AfterInv, AgeInv, Age, buffer
<1> QED
  BY <1>4, <1>5, <1>6, <1>7, <1>8, <1>9, <1>10

(* What _add_packet_id_to_repeat_buf does to the ages of the identifiers.  *)
LEMMA RememberFacts ==
  ASSUME TypeInv, Remember(packet.id), ~Repeated(packet.id)
  PROVE  /\ repeat_buf'[repeat_cnt] = packet.id /\ repeat_cnt \in 0 .. RepeatLen - 1
         /\ \A p \in 0 .. RepeatLen - 1 :
               /\ Age(p) \in Int
               /\ p = repeat_cnt => Age(p) = RepeatLen - 1 /\ Age(p)' = 0
               /\ p # repeat_cnt => /\ repeat_buf'[p] = repeat_buf[p]
                                    /\ Age(p)' = Age(p) + 1
<1>1. /\ repeat_buf \in [0 .. RepeatLen - 1 -> 0 .. MaxId] /\ repeat_cnt \in 0 .. RepeatLen - 1
      /\ RepeatLen \in Nat \ {0}
  BY ConstantsAssumption DEF TypeInv, TypeOK
<1>2. /\ repeat_buf' = [repeat_buf EXCEPT ![repeat_cnt] = packet.id]
      /\ repeat_cnt' = (repeat_cnt + 1) % RepeatLen
  BY DEF Remember
<1>3. repeat_cnt' = IF repeat_cnt + 1 = RepeatLen THEN 0 ELSE repeat_cnt + 1
  <2>1. repeat_cnt + 1 < RepeatLen => (repeat_cnt + 1) % RepeatLen = repeat_cnt + 1
    BY <1>1
  <2>2. repeat_cnt + 1 = RepeatLen => (repeat_cnt + 1) % RepeatLen = 0
    BY <1>1
  <2> QED
    BY <1>1, <1>2, <2>1, <2>2
<1>4. /\ repeat_buf'[repeat_cnt] = packet.id
      /\ \A p \in 0 .. RepeatLen - 1 : p # repeat_cnt => repeat_buf'[p] = repeat_buf[p]
  BY <1>1, <1>2
<1>5. \A p \in 0 .. RepeatLen - 1 : p = repeat_cnt => Age(p) = RepeatLen - 1 /\ Age(p)' = 0
  BY <1>1, <1>3 DEF Age
<1>6. \A p \in 0 .. RepeatLen - 1 :
         Age(p) \in Int /\ (p # repeat_cnt => Age(p)' = Age(p) + 1)
  BY <1>1, <1>3 DEF Age
<1> QED
  BY <1>1, <1>4, <1>5, <1>6

(* CallHandler and CallDefault with a QoS 0 message.                       *)
LEMMA DeliverQos0Step ==
  ASSUME TypeInv, DeliverInv, Delivered, packet.id = 0
  PROVE  DeliverInv'
<1> USE DEF DeliverInv
<1>1. /\ DOMAIN unacked' = DOMAIN unacked /\ Len(unacked') = Len(unacked) /\ UNCHANGED wire
      /\ \A k \in DOMAIN unacked : /\ unacked'[k].id = unacked[k].id
                                   /\ unacked'[k].after = unacked[k].after
                                   /\ unacked'[k].got = unacked[k].got
  BY Lengths, DeliveredFacts
<1>2. pc' = "idle" /\ UNCHANGED buffer
  BY DEF Delivered
<1>3. /\ \A x : Repeated(x)' <=> Repeated(x)
      /\ \A x : Known(x)' <=> Known(x)
      /\ ~InHand /\ ~InHand'
  BY <1>1, <1>2 DEF InHand, Repeated, Known, buffer
<1>4. IdsInv'
  BY <1>1 DEF IdsInv
<1>5. GotInv'
  BY <1>1, <1>3 DEF GotInv
<1>6. FilterInv'
  BY <1>2 DEF FilterInv
<1>7. KnownInv'
  BY <1>1, <1>3 DEF KnownInv
<1>8. WireOrderInv' /\ HandFirstInv'
  BY <1>1, <1>3 DEF WireOrderInv, HandFirstInv
<1>9. PendingInv'
  BY <1>1, <1>3 DEF PendingInv
<1>10. AfterInv' /\ AgeInv'
  BY <1>1, <1>2 DEF AfterInv, AgeInv, Age, buffer
<1> QED
  BY <1>4, <1>5, <1>6, <1>7, <1>8, <1>9, <1>10

(* The same with a QoS 1 message, the one at index h.  Every other message *)
(* that is not delivered is younger, and the identifier pushed out of the  *)
(* ring is not one of a message without a PUBACK.                          *)
LEMMA DeliverQos1Step ==
  ASSUME TypeInv, DeliverInv, Delivered, packet.id # 0, pc \in {"look", "call"}
  PROVE  DeliverInv'
<1> USE DEF DeliverInv
<1> DEFINE n == Len(unacked)
<1>1. /\ DOMAIN unacked' = DOMAIN unacked /\ Len(unacked') = n /\ UNCHANGED wire
      /\ \A k \in DOMAIN unacked : /\ unacked'[k].id = unacked[k].id
                                   /\ unacked'[k].after = unacked[k].after
                                   /\ unacked'[k].got = IF unacked[k].id = packet.id
                                                        THEN unacked[k].got + 1 ELSE unacked[k].got
  BY DeliveredFacts
<1>2. /\ DOMAIN unacked = 1 .. n /\ n \in Nat
      /\ \A k \in DOMAIN unacked : unacked[k].after \in Nat
  BY Lengths
<1> HIDE DEF n
<1>3. pc' = "ack" /\ UNCHANGED packet /\ Remember(packet.id)
  BY DEF Delivered
<1>4. ~Repeated(packet.id) /\ InHand /\ InHand'
  BY <1>3 DEF FilterInv, InHand
<1>5. PICK h \in DOMAIN unacked : unacked[h].id = packet.id
  BY <1>4 DEF KnownInv, Known
<1>6. /\ unacked[h].got = 0 /\ unacked'[h].got = 1
      /\ \A k \in DOMAIN unacked : k # h => unacked[k].id # packet.id /\ unacked'[k].got = unacked[k].got
  BY <1>1, <1>4, <1>5 DEF GotInv, IdsInv
<1>7. \A l \in DOMAIN unacked : unacked'[l].got = 0 => unacked[l].got = 0 /\ h < l
  <2> SUFFICES ASSUME NEW l \in DOMAIN unacked, unacked'[l].got = 0
               PROVE  unacked[l].got = 0 /\ h < l
    OBVIOUS
  <2>1. l # h /\ unacked[l].got = 0 /\ unacked[l].id # packet.id
    BY <1>6
  <2> QED
    BY <1>4, <1>5, <2>1 DEF PendingInv, HandFirstInv
<1>8. /\ repeat_buf'[repeat_cnt] = packet.id /\ repeat_cnt \in 0 .. RepeatLen - 1
      /\ \A p \in 0 .. RepeatLen - 1 :
            /\ Age(p) \in Int
            /\ p = repeat_cnt => Age(p) = RepeatLen - 1 /\ Age(p)' = 0
            /\ p # repeat_cnt => repeat_buf'[p] = repeat_buf[p] /\ Age(p)' = Age(p) + 1
  BY <1>3, <1>4, RememberFacts
<1>9. DOMAIN repeat_buf = 0 .. RepeatLen - 1 /\ DOMAIN repeat_buf' = 0 .. RepeatLen - 1
  BY <1>3, RememberType DEF TypeInv, TypeOK
<1>10. ASSUME NEW k \in DOMAIN unacked, NEW p \in 0 .. RepeatLen - 1, repeat_buf[p] = unacked[k].id
       PROVE  p # repeat_cnt /\ Age(p) + 1 + n - h <= unacked[k].after
  <2>1. Age(p) + n + 1 - h <= unacked[k].after
    BY <1>5, <1>6, <1>10 DEF AgeInv, n
  <2>2. Age(p) \in Int /\ RepeatLen \in Nat /\ h \in 1 .. n /\ unacked[k].after \in Nat
        /\ (p = repeat_cnt => Age(p) = RepeatLen - 1)
    BY <1>2, <1>5, <1>8, ConstantsAssumption
  <2>3. unacked[k].after < RepeatLen
    BY DEF AfterInv
  <2> HIDE DEF Age
  <2> QED
    BY <1>2, <2>1, <2>2, <2>3
<1>11. \A k \in DOMAIN unacked : Repeated(unacked[k].id)' <=> k = h \/ Repeated(unacked[k].id)
  <2> SUFFICES ASSUME NEW k \in DOMAIN unacked
               PROVE  (\E p \in 0 .. RepeatLen - 1 : repeat_buf'[p] = unacked'[k].id)
                         <=> k = h \/ \E p \in 0 .. RepeatLen - 1 : repeat_buf[p] = unacked[k].id
    BY <1>9 DEF Repeated
  <2>1. unacked'[k].id = unacked[k].id
    BY <1>1
  <2>2. CASE k = h
    BY <1>5, <1>8, <2>1, <2>2
  <2>3. CASE k # h
    BY <1>6, <1>8, <1>10, <2>1, <2>3
  <2> QED
    BY <2>2, <2>3
<1>12. IdsInv'
  BY <1>1 DEF IdsInv
<1>13. GotInv'
  <2> SUFFICES ASSUME NEW k \in DOMAIN unacked
               PROVE  unacked'[k].got = IF Repeated(unacked[k].id)' THEN 1 ELSE 0
    BY <1>1 DEF GotInv
  <2>1. CASE k = h
    BY <1>6, <1>11, <2>1
  <2>2. CASE k # h
    BY <1>6, <1>11, <2>2 DEF GotInv
  <2> QED
    BY <2>1, <2>2
<1>14. FilterInv'
  <2>1. Repeated(packet.id)'
    BY <1>3, <1>8, <1>9 DEF Repeated
  <2> QED
    BY <1>3, <2>1 DEF FilterInv
<1>15. KnownInv'
  BY <1>1, <1>3, <1>4 DEF KnownInv, Known
<1>16. WireOrderInv' /\ HandFirstInv'
  BY <1>1, <1>3, <1>4 DEF WireOrderInv, HandFirstInv
<1>17. PendingInv'
  BY <1>1, <1>3, <1>4, <1>7 DEF PendingInv
<1>18. AfterInv'
  BY <1>1 DEF AfterInv, n
<1>19. AgeInv'
  <2> SUFFICES ASSUME NEW k \in DOMAIN unacked, NEW p \in 0 .. RepeatLen - 1,
                      repeat_buf'[p] = unacked[k].id
               PROVE  /\ Age(p)' <= unacked[k].after
                      /\ \A j \in DOMAIN unacked : unacked'[j].got = 0 =>
                            Age(p)' + n + 1 - j <= unacked[k].after
    BY <1>1 DEF AgeInv
  <2>1. h \in 1 .. n /\ unacked[k].after \in Nat
    BY <1>2, <1>5
  <2>2. CASE p = repeat_cnt
    <3>1. k = h /\ Age(p)' = 0
      BY <1>6, <1>8, <2>2
    <3>2. n - h <= unacked[k].after
      BY <3>1 DEF AfterInv, n
    <3> HIDE DEF Age
    <3>3. ASSUME NEW j \in DOMAIN unacked, unacked'[j].got = 0
          PROVE  0 + n + 1 - j <= unacked[k].after
      <4>1. h < j /\ j \in 1 .. n
        BY <1>2, <1>7, <3>3
      <4> QED
        BY <1>2, <2>1, <3>2, <4>1
    <3> QED
      BY <2>1, <3>1, <3>3
  <2>3. CASE p # repeat_cnt
    <3>1. repeat_buf[p] = unacked[k].id /\ Age(p)' = Age(p) + 1 /\ Age(p) \in Int
      BY <1>8, <2>3
    <3>2. Age(p) + 1 + n - h <= unacked[k].after
      BY <1>10, <3>1
    <3> HIDE DEF Age
    <3>3. ASSUME NEW j \in DOMAIN unacked, unacked'[j].got = 0
          PROVE  (Age(p) + 1) + n + 1 - j <= unacked[k].after
      <4>1. h < j /\ j \in 1 .. n
        BY <1>2, <1>7, <3>3
      <4> QED
        BY <1>2, <2>1, <3>1, <3>2, <4>1
    <3>4. Age(p) + 1 <= unacked[k].after
      BY <1>2, <2>1, <3>1, <3>2
    <3> QED
      BY <3>1, <3>3, <3>4
  <2> QED
    BY <2>2, <2>3
<1> QED
  BY <1>12, <1>13, <1>14, <1>15, <1>16, <1>17, <1>18, <1>19

LEMMA SendPubackStep ==
  ASSUME TypeInv, DeliverInv, NEW arrives \in BOOLEAN, SendPuback(arrives)
  PROVE  DeliverInv'
<1> USE DEF DeliverInv
<1> DEFINE n == Len(unacked)
<1>1. /\ pc = "ack" /\ pc' = "idle" /\ UNCHANGED <<buffer, wire>>
  BY SendPubackFacts
<1>2. /\ \A x : Repeated(x)' <=> Repeated(x)
      /\ InHand /\ ~InHand'
      /\ packet.id # 0 /\ Repeated(packet.id)
  BY <1>1 DEF InHand, Repeated, buffer, FilterInv
<1>3. CASE UNCHANGED unacked
  <2>1. \A x : Known(x)' <=> Known(x)
    BY <1>3 DEF Known
  <2>2. PendingInv'
    <3>1. \A l \in DOMAIN unacked : unacked[l].got = 0 => unacked[l].id # packet.id
      BY <1>2 DEF GotInv
    <3> QED
      BY <1>1, <1>3, <3>1 DEF PendingInv
  <2>3. IdsInv' /\ GotInv' /\ FilterInv'
    BY <1>1, <1>2, <1>3 DEF IdsInv, GotInv, FilterInv
  <2>4. KnownInv' /\ WireOrderInv' /\ HandFirstInv'
    BY <1>1, <1>2, <1>3, <2>1 DEF KnownInv, WireOrderInv, HandFirstInv
  <2>5. AfterInv' /\ AgeInv'
    BY <1>1, <1>3 DEF AfterInv, AgeInv, Age, buffer
  <2> QED
    BY <2>2, <2>3, <2>4, <2>5
<1>4. ASSUME NEW i \in DOMAIN unacked, unacked[i].id = packet.id,
             Len(unacked') = n - 1, DOMAIN unacked' = 1 .. n - 1,
             \A k \in DOMAIN unacked' : /\ unacked'[k] = unacked[Before(k, i)]
                                        /\ Before(k, i) \in DOMAIN unacked \ {i}
      PROVE  DeliverInv'
  <2>1. /\ DOMAIN unacked = 1 .. n /\ n \in Nat /\ i \in 1 .. n
        /\ \A k \in DOMAIN unacked : unacked[k].after \in Nat
    BY <1>4, Lengths
  <2> HIDE DEF n
  <2>2. /\ \A k, l \in DOMAIN unacked' : Before(k, i) < Before(l, i) <=> k < l
        /\ \A k, l \in DOMAIN unacked' : Before(k, i) = Before(l, i) => k = l
        /\ \A k \in DOMAIN unacked' : n - 1 - k <= n - Before(k, i)
    BY <1>4, <2>1 DEF Before
  <2>3. ASSUME NEW k \in DOMAIN unacked, k # i
        PROVE  \E m \in DOMAIN unacked' : Before(m, i) = k
    <3>1. CASE k < i
      <4>1. k \in DOMAIN unacked' /\ Before(k, i) = k
        BY <1>4, <2>1, <3>1 DEF Before
      <4> QED
        BY <4>1
    <3>2. CASE ~(k < i)
      <4>1. k - 1 \in DOMAIN unacked' /\ Before(k - 1, i) = k
        BY <1>4, <2>1, <2>3, <3>2 DEF Before
      <4> QED
        BY <4>1
    <3> QED
      BY <3>1, <3>2
  <2>4. IdsInv'
    BY <1>4, <2>2 DEF IdsInv
  <2>5. GotInv'
    <3> SUFFICES ASSUME NEW k \in DOMAIN unacked'
                 PROVE  unacked'[k].got = IF Repeated(unacked'[k].id) THEN 1 ELSE 0
      BY <1>2 DEF GotInv
    <3> QED
      BY <1>4 DEF GotInv
  <2>6. FilterInv'
    BY <1>1 DEF FilterInv
  <2>7. KnownInv'
    <3> SUFFICES ASSUME NEW w \in DOMAIN wire, wire[w].id # 0
                 PROVE  \E m \in DOMAIN unacked' : unacked'[m].id = wire[w].id
      BY <1>1, <1>2 DEF KnownInv, Known
    <3>1. PICK k \in DOMAIN unacked : unacked[k].id = wire[w].id
      BY DEF KnownInv, Known
    <3>2. k # i
      BY <1>2, <1>4, <2>1, <3>1 DEF HandFirstInv
    <3> QED
      BY <1>4, <2>3, <3>1, <3>2
  <2>8. WireOrderInv'
    <3> SUFFICES ASSUME NEW v \in DOMAIN wire, NEW w \in DOMAIN wire,
                        NEW k \in DOMAIN unacked', NEW l \in DOMAIN unacked', v < w,
                        unacked'[k].id = wire[v].id, unacked'[l].id = wire[w].id
                 PROVE  k < l
      BY <1>1 DEF WireOrderInv
    <3>1. Before(k, i) < Before(l, i)
      BY <1>4 DEF WireOrderInv
    <3> QED
      BY <2>2, <3>1
  <2>9. HandFirstInv'
    BY <1>2 DEF HandFirstInv
  <2>10. PendingInv'
    <3> SUFFICES ASSUME NEW l \in DOMAIN unacked', unacked'[l].got = 0
                 PROVE  \E w \in DOMAIN wire : wire[w].id = unacked'[l].id
      BY <1>1 DEF PendingInv
    <3> DEFINE b == Before(l, i)
    <3>1. unacked'[l] = unacked[b] /\ b \in DOMAIN unacked /\ b # i
      BY <1>4
    <3> HIDE DEF b
    <3>2. unacked[b].id # packet.id
      BY <1>4, <3>1 DEF IdsInv
    <3> QED
      BY <3>1, <3>2 DEF PendingInv
  <2>11. AfterInv'
    <3> SUFFICES ASSUME NEW k \in DOMAIN unacked'
                 PROVE  unacked'[k].after < RepeatLen /\ n - 1 - k <= unacked'[k].after
      BY <1>4 DEF AfterInv
    <3> DEFINE b == Before(k, i)
    <3>1. unacked'[k] = unacked[b] /\ b \in 1 .. n /\ n - 1 - k <= n - b /\ k \in 1 .. n - 1
      BY <1>4, <2>1, <2>2
    <3> HIDE DEF b
    <3>2. unacked[b].after < RepeatLen /\ n - b <= unacked[b].after /\ unacked[b].after \in Nat
      BY <2>1, <3>1 DEF AfterInv, n
    <3> QED
      BY <2>1, <3>1, <3>2
  <2>12. AgeInv'
    <3> SUFFICES ASSUME NEW k \in DOMAIN unacked', NEW p \in 0 .. RepeatLen - 1,
                        repeat_buf[p] = unacked'[k].id
                 PROVE  /\ Age(p) <= unacked'[k].after
                        /\ \A j \in DOMAIN unacked' : unacked'[j].got = 0 =>
                              Age(p) + (n - 1) + 1 - j <= unacked'[k].after
      BY <1>1, <1>4 DEF AgeInv, Age, buffer
    <3> DEFINE b == Before(k, i)
    <3>1. unacked'[k] = unacked[b] /\ b \in DOMAIN unacked
      BY <1>4
    <3> HIDE DEF b
    <3>2. /\ Age(p) <= unacked[b].after
          /\ \A j \in DOMAIN unacked : unacked[j].got = 0 => Age(p) + n + 1 - j <= unacked[b].after
      BY <3>1 DEF AgeInv, n
    <3>3. Age(p) \in Int /\ unacked[b].after \in Nat
      <4>1. repeat_cnt \in Int /\ RepeatLen \in Int
        BY ConstantsAssumption DEF TypeInv, TypeOK
      <4> QED
        BY <2>1, <3>1, <4>1 DEF Age
    <3> HIDE DEF Age
    <3>4. ASSUME NEW j \in DOMAIN unacked', unacked'[j].got = 0
          PROVE  Age(p) + (n - 1) + 1 - j <= unacked[b].after
      <4> DEFINE c == Before(j, i)
      <4>1. unacked'[j] = unacked[c] /\ c \in 1 .. n /\ n - 1 - j <= n - c /\ j \in 1 .. n - 1
        BY <1>4, <2>1, <2>2
      <4> HIDE DEF c
      <4>2. Age(p) + n + 1 - c <= unacked[b].after
        BY <2>1, <3>2, <3>4, <4>1
      <4> QED
        BY SMTT(30), <2>1, <3>3, <4>1, <4>2
    <3> QED
      BY <3>1, <3>2, <3>4
  <2> QED
    BY <2>4, <2>5, <2>6, <2>7, <2>8, <2>9, <2>10, <2>11, <2>12
<1> QED
  BY <1>3, <1>4, SendPubackFacts

LEMMA DeliverStep ==
  ASSUME Calm, TypeInv, DeliverInv, [Next]_vars
  PROVE  DeliverInv'
<1>1. ASSUME NEW t \in Topic, SendQos0(t) PROVE DeliverInv'
  BY <1>1, SendQos0Step
<1>2. ASSUME NEW t \in Topic, NEW id \in PacketId, SendQos1(t, id) PROVE DeliverInv'
  BY <1>2, SendQos1Step
<1>3. CASE Reconnect
  BY <1>3, ReconnectStep
<1>4. ASSUME NEW f \in Filter, NEW handler \in BOOLEAN, Subscribed(f, handler) PROVE DeliverInv'
  BY <1>4, QuietStep DEF Subscribed, reader, broker
<1>5. ASSUME NEW f \in Filter, Unsubscribe(f) PROVE DeliverInv'
  BY <1>5, QuietStep DEF Unsubscribe, broker
<1>6. CASE TakeNew
  BY <1>6, BeginStep DEF TakeNew
<1>7. CASE TakeRepeated
  BY <1>7, BeginStep DEF TakeRepeated
<1>8. ASSUME NEW i \in Slot, Lookup(i) PROVE DeliverInv'
  BY <1>8, QuietStep DEF Lookup, broker
<1>9. CASE CallHandler
  BY <1>9, DeliverQos0Step, DeliverQos1Step DEF CallHandler
<1>10. CASE SkipEntry
  BY <1>10, QuietStep DEF SkipEntry, broker
<1>11. CASE CallDefault
  BY <1>11, DeliverQos0Step, DeliverQos1Step DEF CallDefault
<1>12. ASSUME NEW arrives \in BOOLEAN, SendPuback(arrives) PROVE DeliverInv'
  BY <1>12, SendPubackStep
<1>13. CASE UNCHANGED vars
  BY <1>13, QuietStep DEF vars, reader, broker
<1> QED
  BY <1>1, <1>2, <1>3, <1>4, <1>5, <1>6, <1>7, <1>8, <1>9, <1>10, <1>11, <1>12, <1>13 DEF Next

(* When the PUBACK of a QoS 1 message is sent the message has reached the  *)
(* application exactly once, over lost PUBACKs, reconnections and resent   *)
(* packets, provided a new message does not take an identifier that        *)
(* repeat_packet_id_buf still holds and the broker sends fewer than        *)
(* MQTT_MAX_REPEAT_BUF_LEN messages after one it has no PUBACK for.        *)
THEOREM DeliveredOnce ==
  ASSUME "id_reused" \notin Adversity, "far_ahead" \notin Adversity
  PROVE  Spec => []ExactlyOnce
<1>1. Init => TypeInv /\ DeliverInv
  <2> SUFFICES ASSUME Init PROVE TypeInv /\ DeliverInv
    OBVIOUS
  <2>1. TypeInv
    BY ConstantsAssumption DEF Init, TypeInv, TypeOK, Slot
  <2>2. DOMAIN unacked = {} /\ DOMAIN wire = {} /\ pc = "idle"
    BY DEF Init
  <2>3. DeliverInv
    BY <2>2 DEF DeliverInv, IdsInv, GotInv, FilterInv, KnownInv, WireOrderInv, HandFirstInv,
                PendingInv, AfterInv, AgeInv, InHand
  <2> QED
    BY <2>1, <2>3
<1>2. TypeInv /\ DeliverInv /\ [Next]_vars => (TypeInv /\ DeliverInv)'
  BY TypeStep, DeliverStep DEF Calm
<1>3. TypeInv /\ DeliverInv => ExactlyOnce
  BY DEF DeliverInv, FilterInv, GotInv, ExactlyOnce
<1> QED
  BY <1>1, <1>2, <1>3, PTL DEF Spec

-----------------------------------------------------------------------------
(***************************************************************************)
(* The handler that is called.                                             *)
(***************************************************************************)
(* What the character loop finds is what MQTT accepts, but for the two     *)
(* forms of a wrong match: MatchAssumption of MCMqttDeliver for the        *)
(* filters and names of this instance.                                     *)
LoopMatches ==
    \A f \in Filter, t \in Topic :
        (Chars(f) = Chars(t) \/ TopicMatched(Chars(f), Chars(t)))
            <=> (Accepts(f, t) \/ LongerLevel(f, t) \/ EndsEarly(f, t))

(* Neither wrong match occurs, and no unsubscribe between search and call. *)
Settled == {"unsubscribe_in_gap", "longer_level", "ends_early"} \cap Adversity = {}

(* Every topic under way is one the loop matches rightly.                  *)
TopicInv ==
    /\ \A i \in DOMAIN wire : CommonTopic(wire[i].topic)
    /\ \A k \in DOMAIN unacked : CommonTopic(unacked[k].topic)
    /\ pc # "idle" => CommonTopic(packet.topic) /\ packet \in Packet

(* The search has passed over no entry with a handler that matches and     *)
(* has been in the table all the time, and stands at one that matches.     *)
SearchInv ==
    /\ pc \in {"look", "call"} =>
         \A i \in steady : i < slot => ~has_handler[i] \/ ~Found(i)
    /\ pc = "call" => Found(slot)

LEMMA FoundIsAccepted ==
  ASSUME LoopMatches, Settled, TypeInv, TopicInv, pc # "idle", NEW i \in Slot
  PROVE  Found(i) <=> topic_filter[i] # NoFilter /\ Accepts(topic_filter[i], packet.topic)
<1>1. packet.topic \in Topic /\ CommonTopic(packet.topic)
  BY DEF TopicInv, Packet
<1>2. CASE topic_filter[i] = NoFilter
  BY <1>2 DEF Found
<1>3. CASE topic_filter[i] # NoFilter
  <2>1. topic_filter[i] \in Filter
    BY <1>3 DEF TypeInv, TypeOK
  <2>2. ~LongerLevel(topic_filter[i], packet.topic) /\ ~EndsEarly(topic_filter[i], packet.topic)
    BY <1>1, <2>1 DEF CommonTopic, Settled
  <2> QED
    BY <1>1, <1>3, <2>1, <2>2 DEF LoopMatches, Found
<1> QED
  BY <1>2, <1>3

LEMMA TopicStep == TypeInv /\ TopicInv /\ [Next]_vars => TopicInv'
<1> SUFFICES ASSUME TypeInv, TopicInv, [Next]_vars PROVE TopicInv'
  OBVIOUS
<1> USE DEF table, buffer, reader, broker
<1>0. wire \in Seq(Packet) /\ unacked \in Seq(Message)
  BY DEF TypeInv, TypeOK, Message
<1>1. ASSUME NEW t \in Topic, SendQos0(t) PROVE TopicInv'
  <2> DEFINE p == [id |-> 0, topic |-> t]
  <2>1. p \in Packet /\ p.topic = t
    BY ConstantsAssumption DEF Packet
  <2>2. wire' = Append(wire, p) /\ CommonTopic(t) /\ UNCHANGED <<unacked, pc, packet>>
    BY <1>1 DEF SendQos0
  <2> HIDE DEF p
  <2>3. \A i \in DOMAIN wire' : CommonTopic(wire'[i].topic)
    BY <1>0, <2>1, <2>2, AppendElements DEF TopicInv
  <2> QED
    BY <2>2, <2>3 DEF TopicInv
<1>2. ASSUME NEW t \in Topic, NEW id \in PacketId, SendQos1(t, id) PROVE TopicInv'
  <2> DEFINE p == [id |-> id, topic |-> t]
             u == [k \in DOMAIN unacked |-> [unacked[k] EXCEPT !.after = @ + 1]]
             m == [id |-> id, topic |-> t, got |-> 0, after |-> 0]
  <2>1. p \in Packet /\ p.topic = t /\ m \in Message /\ m.topic = t
    BY ConstantsAssumption DEF Packet, Message, PacketId
  <2>2. /\ wire' = Append(wire, p) /\ unacked' = Append(u, m)
        /\ CommonTopic(t) /\ UNCHANGED <<pc, packet>>
    BY <1>2 DEF SendQos1
  <2>3. u \in Seq(Message) /\ \A k \in DOMAIN u : k \in DOMAIN unacked /\ u[k].topic = unacked[k].topic
    <3>1. DOMAIN unacked = 1 .. Len(unacked) /\ Len(unacked) \in Nat
          /\ \A k \in DOMAIN unacked : unacked[k] \in Message
      BY <1>0, LenProperties, ElementOfSeq
    <3>2. \A k \in DOMAIN unacked : [unacked[k] EXCEPT !.after = @ + 1] \in Message
      BY <3>1 DEF Message
    <3>3. u \in [1 .. Len(unacked) -> Message]
      BY <3>1, <3>2
    <3>4. \A k \in DOMAIN u : k \in DOMAIN unacked /\ u[k].topic = unacked[k].topic
      BY <3>1 DEF Message
    <3> HIDE DEF u
    <3> QED
      BY <3>1, <3>3, <3>4, SeqDef
  <2> HIDE DEF p, u, m
  <2>4. \A i \in DOMAIN wire' : CommonTopic(wire'[i].topic)
    BY <1>0, <2>1, <2>2, AppendElements DEF TopicInv
  <2>5. \A k \in DOMAIN unacked' : CommonTopic(unacked'[k].topic)
    BY <2>1, <2>2, <2>3, AppendElements DEF TopicInv
  <2> QED
    BY <2>2, <2>4, <2>5 DEF TopicInv
<1>3. CASE Reconnect
  <2>1. unacked' \in {<<>>, unacked} /\ UNCHANGED <<pc, packet>>
    BY <1>3 DEF Reconnect
  <2>2. \A k \in DOMAIN unacked' : CommonTopic(unacked'[k].topic)
    BY <2>1 DEF TopicInv
  <2>3. \A k \in DOMAIN wire' : CommonTopic(wire'[k].topic)
    BY <1>3, <2>2 DEF Reconnect
  <2> QED
    BY <2>1, <2>2, <2>3 DEF TopicInv
<1>4. CASE \/ \E f \in Filter, handler \in BOOLEAN : Subscribed(f, handler)
           \/ \E f \in Filter : Unsubscribe(f)
           \/ (\E i \in Slot : Lookup(i)) \/ SkipEntry \/ UNCHANGED vars
  <2>1. /\ UNCHANGED <<wire, unacked, packet>>
        /\ pc' # "idle" => pc # "idle"
    BY <1>4 DEF Subscribed, Unsubscribe, Lookup, SkipEntry, vars
  <2> QED
    BY <2>1 DEF TopicInv
<1>5. CASE TakeNew \/ TakeRepeated
  <2>1. wire # <<>> /\ packet' = Head(wire) /\ wire' = Tail(wire) /\ UNCHANGED unacked
    BY <1>5 DEF TakeNew, TakeRepeated, Begin
  <2>2. /\ packet' \in Packet /\ CommonTopic(packet'.topic)
        /\ \A i \in DOMAIN wire' : CommonTopic(wire'[i].topic)
    BY <1>0, <2>1, TailElements DEF TopicInv
  <2> QED
    BY <2>1, <2>2 DEF TopicInv
<1>6. CASE CallHandler \/ CallDefault
  <2>1. Delivered /\ pc # "idle"
    BY <1>6 DEF CallHandler, CallDefault
  <2>2. /\ wire' = wire /\ (pc' # "idle" => packet' = packet)
        /\ unacked' = [k \in DOMAIN unacked |->
             IF unacked[k].id = packet.id THEN [unacked[k] EXCEPT !.got = @ + 1] ELSE unacked[k]]
    BY <2>1 DEF Delivered
  <2>3. \A k \in DOMAIN unacked : unacked[k] \in Message
    BY <1>0, LenProperties, ElementOfSeq
  <2>4. \A k \in DOMAIN unacked' : k \in DOMAIN unacked /\ unacked'[k].topic = unacked[k].topic
    BY <2>2, <2>3 DEF Message
  <2> QED
    BY <2>1, <2>2, <2>4 DEF TopicInv
<1>7. ASSUME NEW arrives \in BOOLEAN, SendPuback(arrives) PROVE TopicInv'
  <2>1. /\ pc' = "idle" /\ wire' = wire
        /\ \/ unacked' = unacked
           \/ \E k \in DOMAIN unacked :
                \A j \in DOMAIN unacked' : /\ unacked'[j] = unacked[Before(j, k)]
                                          /\ Before(j, k) \in DOMAIN unacked
    BY <1>7, SendPubackFacts
  <2>2. \A j \in DOMAIN unacked' : CommonTopic(unacked'[j].topic)
    BY <2>1 DEF TopicInv
  <2> QED
    BY <2>1, <2>2 DEF TopicInv
<1> HIDE DEF table, buffer, reader, broker
<1> QED
  BY <1>1, <1>2, <1>3, <1>4, <1>5, <1>6, <1>7 DEF Next

LEMMA SearchStep == Settled /\ TypeInv /\ SearchInv /\ [Next]_vars => SearchInv'
<1> SUFFICES ASSUME Settled, TypeInv, SearchInv, [Next]_vars PROVE SearchInv'
  OBVIOUS
<1> USE DEF table, buffer, reader, broker
<1>1. ASSUME UNCHANGED <<topic_filter, has_handler, reader>> PROVE SearchInv'
  BY <1>1 DEF SearchInv, Found
<1>2. ASSUME pc' \notin {"look", "call"} PROVE SearchInv'
  BY <1>2 DEF SearchInv
<1>3. CASE \/ (\E t \in Topic : SendQos0(t)) \/ (\E t \in Topic, id \in PacketId : SendQos1(t, id))
           \/ Reconnect \/ UNCHANGED vars
  BY <1>1, <1>3 DEF SendQos0, SendQos1, Reconnect, vars
<1>4. CASE \/ (\E f \in Filter, handler \in BOOLEAN : Subscribed(f, handler)) \/ TakeRepeated
           \/ CallHandler \/ CallDefault \/ \E arrives \in BOOLEAN : SendPuback(arrives)
  BY <1>2, <1>4 DEF Subscribed, TakeRepeated, CallHandler, CallDefault, Delivered, SendPuback
<1>5. ASSUME NEW f \in Filter, Unsubscribe(f) PROVE SearchInv'
  <2>1. pc' = pc /\ pc # "call" /\ UNCHANGED <<has_handler, packet, slot>> /\ steady' \subseteq steady
    BY <1>5 DEF Unsubscribe, Settled
  <2>2. \A i \in Slot : topic_filter'[i] \in {topic_filter[i], NoFilter}
    BY <1>5 DEF Unsubscribe
  <2>3. steady \subseteq Slot
    BY DEF TypeInv, TypeOK
  <2> QED
    BY <2>1, <2>2, <2>3 DEF SearchInv, Found
<1>6. CASE TakeNew
  <2>1. pc' = "look" /\ slot' = 1 /\ steady' = Slot
    BY <1>6 DEF TakeNew
  <2>2. \A i \in Slot : ~(i < 1)
    BY DEF Slot
  <2> QED
    BY <2>1, <2>2 DEF SearchInv
<1>7. ASSUME NEW j \in Slot, Lookup(j) PROVE SearchInv'
  <2>1. /\ pc = "look" /\ pc' = "call" /\ slot' = j /\ j \in slot .. Handlers
        /\ Found(j) /\ \A i \in slot .. j - 1 : ~Found(i)
        /\ UNCHANGED <<topic_filter, has_handler, packet, steady>>
    BY <1>7 DEF Lookup
  <2>2. steady \subseteq Slot /\ slot \in Nat /\ j \in Nat
    BY ConstantsAssumption DEF TypeInv, TypeOK, Slot
  <2>3. \A i \in steady : i < j => i < slot \/ i \in slot .. j - 1
    BY <2>2 DEF Slot
  <2> QED
    BY <2>1, <2>3 DEF SearchInv, Found
<1>8. CASE SkipEntry
  <2>1. /\ pc = "call" /\ pc' = "look" /\ slot' = slot + 1 /\ ~has_handler[slot]
        /\ UNCHANGED <<topic_filter, has_handler, packet, steady>>
    BY <1>8 DEF SkipEntry
  <2>2. steady \subseteq Slot /\ slot \in Nat
    BY ConstantsAssumption DEF TypeInv, TypeOK
  <2>3. \A i \in steady : i < slot + 1 => i < slot \/ i = slot
    BY <2>2 DEF Slot
  <2> QED
    BY <2>1, <2>3 DEF SearchInv, Found
<1> HIDE DEF table, buffer, reader, broker
<1> QED
  BY <1>3, <1>4, <1>5, <1>6, <1>7, <1>8 DEF Next

(* _deliver_message calls the handler of a subscription that is in the     *)
(* table and accepts the topic, and the default handler only if no such    *)
(* subscription with a handler has been there all the time: for tables of  *)
(* any size and any subscriptions made and dropped meanwhile, as far as    *)
(* _is_topic_matched is right about the filters in use.                    *)
THEOREM HandlerIsRight ==
  ASSUME LoopMatches, Settled
  PROVE  Spec => RightHandler
<1>1. Init => TypeInv
  BY ConstantsAssumption DEF Init, TypeInv, TypeOK, Slot
<1>2. Init => TopicInv /\ SearchInv
  BY DEF Init, TopicInv, SearchInv
<1>3. TypeInv /\ TopicInv /\ SearchInv /\ [Next]_vars =>
        [/\ CallHandler =>
              topic_filter[slot] # NoFilter /\ Accepts(topic_filter[slot], packet.topic)
         /\ CallDefault =>
              \A i \in steady :
                 topic_filter[i] # NoFilter /\ has_handler[i] =>
                     ~Accepts(topic_filter[i], packet.topic)]_vars
  <2> SUFFICES ASSUME TypeInv, TopicInv, SearchInv
               PROVE  /\ CallHandler =>
                            topic_filter[slot] # NoFilter /\ Accepts(topic_filter[slot], packet.topic)
                      /\ CallDefault =>
                            \A i \in steady :
                               topic_filter[i] # NoFilter /\ has_handler[i] =>
                                   ~Accepts(topic_filter[i], packet.topic)
    OBVIOUS
  <2>1. ASSUME CallHandler
        PROVE  topic_filter[slot] # NoFilter /\ Accepts(topic_filter[slot], packet.topic)
    <3>1. pc = "call" /\ slot \in Slot /\ Found(slot)
      BY <2>1 DEF CallHandler, TypeInv, SearchInv
    <3> QED
      BY <3>1, FoundIsAccepted
  <2>2. ASSUME CallDefault, NEW i \in steady, topic_filter[i] # NoFilter, has_handler[i]
        PROVE  ~Accepts(topic_filter[i], packet.topic)
    <3>1. pc = "look" /\ i \in Slot /\ \A j \in slot .. Handlers : ~Found(j)
      BY <2>2 DEF CallDefault, TypeInv, TypeOK
    <3>2. i < slot \/ i \in slot .. Handlers
      BY <3>1, ConstantsAssumption DEF TypeInv, TypeOK, Slot
    <3>3. ~Found(i)
      BY <2>2, <3>1, <3>2 DEF SearchInv
    <3> QED
      BY <2>2, <3>1, <3>3, FoundIsAccepted
  <2> QED
    BY <2>1, <2>2
<1>4. TypeInv /\ TopicInv /\ SearchInv /\ [Next]_vars => (TypeInv /\ TopicInv /\ SearchInv)'
  BY TypeStep, TopicStep, SearchStep
<1> QED
  BY <1>1, <1>2, <1>3, <1>4, PTL DEF Spec, RightHandler

=============================================================================
