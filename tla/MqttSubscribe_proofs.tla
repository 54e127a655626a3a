------------------------ MODULE MqttSubscribe_proofs ------------------------
(***************************************************************************)
(* Theorems about MqttSubscribe for every number of calls, threads, topics *)
(* and table entries.                                                      *)
(***************************************************************************)
EXTENDS MqttSubscribe, SequenceTheorems, FiniteSetTheorems, WellFoundedInduction, TLAPS

Event == {"SUCCESS", "NACK", "TIMEOUT"}

TypeInv ==
    /\ is_connected \in BOOLEAN
    /\ sub_handles \in [Slot -> Call \cup {Null}]
    /\ list_sub_wait_ack \subseteq Call /\ timedout \subseteq Call
    /\ node_state \in [Call -> {"none", "NORMAL", "INVALID"}]
    /\ heap \in [Call -> {"none", "live", "freed"}]
    /\ kind \in [Call -> {"none", "SUBSCRIBE", "UNSUBSCRIBE"}]
    /\ arg = [c \in Call |-> arg[c]]
    /\ pc \in [Thread -> {"idle", "lock", "send", "undo"}]
    /\ cur \in [Thread -> Call \cup {Null}]
    /\ itr \in 0 .. MAX_MESSAGE_HANDLERS /\ rtopic \in Call \cup {Null}
    /\ uplink \in Seq(Call) /\ downlink \in Seq(Ack)
    /\ ret \in [Call -> {"none", "error", "accepted"}]
    /\ answered \in [Call -> Seq(Event)]
    /\ renewals \subseteq Call

-----------------------------------------------------------------------------
(***************************************************************************)
(* Sequences.                                                              *)
(***************************************************************************)
LEMMA AppendElements ==
  ASSUME NEW S, NEW s \in Seq(S), NEW e \in S
  PROVE  /\ Append(s, e) \in Seq(S)
         /\ DOMAIN s = 1 .. Len(s) /\ Len(s) \in Nat /\ Len(Append(s, e)) = Len(s) + 1
         /\ DOMAIN Append(s, e) = 1 .. Len(s) + 1
         /\ \A i \in 1 .. Len(s) : Append(s, e)[i] = s[i]
         /\ Append(s, e)[Len(s) + 1] = e
  BY AppendProperties, LenProperties

LEMMA TailElements ==
  ASSUME NEW S, NEW s \in Seq(S), s # <<>>
  PROVE  /\ Tail(s) \in Seq(S) /\ Head(s) \in S
         /\ Head(s) = s[1] /\ 1 \in DOMAIN s
         /\ DOMAIN s = 1 .. Len(s) /\ DOMAIN Tail(s) = 1 .. Len(s) - 1 /\ Len(s) \in Nat \ {0}
         /\ \A i \in DOMAIN Tail(s) : i + 1 \in DOMAIN s /\ Tail(s)[i] = s[i + 1]
<1>1. Len(s) \in Nat \ {0} /\ DOMAIN s = 1 .. Len(s)
  BY EmptySeq, LenProperties
<1>2. Tail(s) \in Seq(S) /\ Head(s) \in S /\ Len(Tail(s)) = Len(s) - 1
      /\ \A i \in 1 .. Len(Tail(s)) : Tail(s)[i] = s[i + 1]
  BY HeadTailProperties
<1>3. DOMAIN Tail(s) = 1 .. Len(Tail(s))
  BY <1>2, LenProperties
<1> QED
  BY <1>1, <1>2, <1>3

-----------------------------------------------------------------------------
(***************************************************************************)
(* What is under way: each call has one packet at most, going up or coming *)
(* down.                                                                   *)
(***************************************************************************)
DistinctInv ==
    /\ \A i, j \in DOMAIN uplink : uplink[i] = uplink[j] => i = j
    /\ \A i, j \in DOMAIN downlink : downlink[i].call = downlink[j].call => i = j
    /\ \A i \in DOMAIN uplink : \A j \in DOMAIN downlink : uplink[i] # downlink[j].call

LEMMA SendNet ==
  ASSUME TypeInv, DistinctInv, NEW c \in Call, ~InTransit(c),
         uplink' = Append(uplink, c), UNCHANGED downlink
  PROVE  /\ uplink' \in Seq(Call) /\ DistinctInv'
         /\ \A d \in Call : InTransit(d)' <=> InTransit(d) \/ d = c
<1>1. /\ uplink' \in Seq(Call) /\ DOMAIN uplink = 1 .. Len(uplink) /\ Len(uplink) \in Nat
      /\ DOMAIN uplink' = 1 .. Len(uplink) + 1
      /\ \A i \in 1 .. Len(uplink) : uplink'[i] = uplink[i]
      /\ uplink'[Len(uplink) + 1] = c
  BY AppendElements DEF TypeInv
<1>2. /\ \A i \in DOMAIN uplink : uplink[i] # c
      /\ \A j \in DOMAIN downlink : downlink[j].call # c
  BY DEF InTransit
<1>3. DistinctInv'
  <2>1. \A i, j \in DOMAIN uplink' : uplink'[i] = uplink'[j] => i = j
    BY <1>1, <1>2 DEF DistinctInv
  <2>2. \A i \in DOMAIN uplink' : \A j \in DOMAIN downlink : uplink'[i] # downlink[j].call
    BY <1>1, <1>2 DEF DistinctInv
  <2> QED
    BY <2>1, <2>2 DEF DistinctInv
<1>4. ASSUME NEW d \in Call PROVE (\E i \in DOMAIN uplink' : uplink'[i] = d)
                                     <=> (\E i \in DOMAIN uplink : uplink[i] = d) \/ d = c
  <2>1. Len(uplink) + 1 \in DOMAIN uplink' /\ \A i \in DOMAIN uplink : i \in DOMAIN uplink'
    BY <1>1
  <2>2. \A i \in DOMAIN uplink' : i \in DOMAIN uplink \/ i = Len(uplink) + 1
    BY <1>1
  <2> QED
    BY <1>1, <2>1, <2>2
<1> QED
  BY <1>1, <1>3, <1>4 DEF InTransit

LEMMA PopNet ==
  ASSUME TypeInv, DistinctInv, downlink # <<>>, downlink' = Tail(downlink), UNCHANGED uplink
  PROVE  /\ downlink' \in Seq(Ack) /\ Head(downlink) \in Ack /\ Head(downlink).call \in Call
         /\ DistinctInv' /\ InTransit(Head(downlink).call)
         /\ \A d \in Call : InTransit(d)' <=> InTransit(d) /\ d # Head(downlink).call
<1>1. /\ downlink' \in Seq(Ack) /\ Head(downlink) \in Ack
      /\ Head(downlink) = downlink[1] /\ 1 \in DOMAIN downlink
      /\ DOMAIN downlink = 1 .. Len(downlink) /\ DOMAIN downlink' = 1 .. Len(downlink) - 1
      /\ Len(downlink) \in Nat \ {0}
      /\ \A i \in DOMAIN downlink' : i + 1 \in DOMAIN downlink /\ downlink'[i] = downlink[i + 1]
  BY TailElements DEF TypeInv
<1>2. Head(downlink).call \in Call
  BY <1>1 DEF Ack
<1>3. DistinctInv'
  BY <1>1 DEF DistinctInv
<1>4. ASSUME NEW d \in Call
      PROVE  (\E i \in DOMAIN downlink' : downlink'[i].call = d)
                <=> (\E i \in DOMAIN downlink : downlink[i].call = d) /\ d # downlink[1].call
  <2>1. ASSUME NEW i \in DOMAIN downlink', downlink'[i].call = d
        PROVE  (\E k \in DOMAIN downlink : downlink[k].call = d) /\ d # downlink[1].call
    <3>1. i + 1 \in DOMAIN downlink /\ downlink[i + 1].call = d /\ i + 1 # 1
      BY <1>1, <2>1
    <3> QED
      BY <1>1, <3>1 DEF DistinctInv
  <2>2. ASSUME NEW i \in DOMAIN downlink, downlink[i].call = d, d # downlink[1].call
        PROVE  \E k \in DOMAIN downlink' : downlink'[k].call = d
    <3>1. i - 1 \in DOMAIN downlink' /\ (i - 1) + 1 = i
      BY <1>1, <2>2
    <3> QED
      BY <1>1, <2>2, <3>1
  <2> QED
    BY <2>1, <2>2
<1>5. \A i \in DOMAIN uplink : uplink[i] # downlink[1].call
  BY <1>1 DEF DistinctInv
<1> QED
  BY <1>1, <1>2, <1>3, <1>4, <1>5 DEF InTransit

LEMMA BrokerNet ==
  ASSUME TypeInv, DistinctInv, uplink # <<>>, uplink' = Tail(uplink), NEW ok \in BOOLEAN,
         downlink' = Append(downlink, [call |-> Head(uplink), ok |-> ok])
  PROVE  /\ uplink' \in Seq(Call) /\ downlink' \in Seq(Ack) /\ DistinctInv'
         /\ \A d \in Call : InTransit(d)' <=> InTransit(d)
<1> DEFINE c == Head(uplink)
           a == [call |-> c, ok |-> ok]
<1>1. /\ uplink' \in Seq(Call) /\ c \in Call /\ c = uplink[1] /\ 1 \in DOMAIN uplink
      /\ DOMAIN uplink = 1 .. Len(uplink) /\ DOMAIN uplink' = 1 .. Len(uplink) - 1
      /\ Len(uplink) \in Nat \ {0}
      /\ \A i \in DOMAIN uplink' : i + 1 \in DOMAIN uplink /\ uplink'[i] = uplink[i + 1]
  BY TailElements DEF TypeInv
<1>2. a \in Ack /\ a.call = c
  BY <1>1 DEF Ack
<1> HIDE DEF a, c
<1>3. downlink' = Append(downlink, a)
  BY DEF a, c
<1>4. /\ downlink' \in Seq(Ack) /\ DOMAIN downlink = 1 .. Len(downlink) /\ Len(downlink) \in Nat
      /\ DOMAIN downlink' = 1 .. Len(downlink) + 1
      /\ \A i \in 1 .. Len(downlink) : downlink'[i] = downlink[i]
      /\ downlink'[Len(downlink) + 1] = a
  BY <1>2, <1>3, AppendElements DEF TypeInv
<1>5. /\ \A j \in DOMAIN downlink : downlink[j].call # c
      /\ \A i \in DOMAIN uplink' : uplink'[i] # c
  BY <1>1 DEF DistinctInv
<1>6. DistinctInv'
  <2>1. \A i, j \in DOMAIN uplink' : uplink'[i] = uplink'[j] => i = j
    BY <1>1 DEF DistinctInv
  <2>2. \A i, j \in DOMAIN downlink' : downlink'[i].call = downlink'[j].call => i = j
    BY <1>2, <1>4, <1>5 DEF DistinctInv
  <2>3. \A i \in DOMAIN uplink' : \A j \in DOMAIN downlink' : uplink'[i] # downlink'[j].call
    BY <1>1, <1>2, <1>4, <1>5 DEF DistinctInv
  <2> QED
    BY <2>1, <2>2, <2>3 DEF DistinctInv
<1>7. ASSUME NEW d \in Call
      PROVE  (\E i \in DOMAIN downlink' : downlink'[i].call = d)
                <=> (\E i \in DOMAIN downlink : downlink[i].call = d) \/ d = c
  <2>1. Len(downlink) + 1 \in DOMAIN downlink' /\ \A i \in DOMAIN downlink : i \in DOMAIN downlink'
    BY <1>4
  <2>2. \A i \in DOMAIN downlink' : i \in DOMAIN downlink \/ i = Len(downlink) + 1
    BY <1>4
  <2> QED
    BY <1>2, <1>4, <2>1, <2>2
<1>8. ASSUME NEW d \in Call
      PROVE  (\E i \in DOMAIN uplink : uplink[i] = d)
                <=> (\E i \in DOMAIN uplink' : uplink'[i] = d) \/ d = c
  <2>1. ASSUME NEW i \in DOMAIN uplink, uplink[i] = d, d # c
        PROVE  \E k \in DOMAIN uplink' : uplink'[k] = d
    <3>1. i - 1 \in DOMAIN uplink' /\ (i - 1) + 1 = i
      BY <1>1, <2>1
    <3> QED
      BY <1>1, <2>1, <3>1
  <2> QED
    BY <1>1, <2>1
<1> QED
  BY <1>1, <1>4, <1>6, <1>7, <1>8 DEF InTransit

-----------------------------------------------------------------------------
(***************************************************************************)
(* The base invariant.  It holds in every circumstance but one: a call     *)
(* whose sub_start_time runs out while it still sends is swept under way,  *)
(* so that it returns with its node and its topic copy gone.               *)
(***************************************************************************)
Prompt == "slow_send" \notin Adversity

Waiting(c) == c \in list_sub_wait_ack /\ node_state[c] = "NORMAL"

(* An activation works on a call of its own, of which nobody has heard.    *)
CallInv ==
    /\ \A t \in Thread : pc[t] = "idle" <=> cur[t] = Null
    /\ \A t, u \in Thread : cur[t] = cur[u] /\ cur[t] # Null => t = u
    /\ \A t \in Thread : cur[t] # Null =>
          /\ kind[cur[t]] # "none" /\ ret[cur[t]] = "none" /\ answered[cur[t]] = <<>>
          /\ cur[t] \notin timedout
          /\ pc[t] = "lock" => cur[t] \notin list_sub_wait_ack
          /\ pc[t] # "lock" => Waiting(cur[t])

(* A node belongs to an accepted call or to one in progress, and its call  *)
(* is unanswered while it is NORMAL.                                       *)
ListInv ==
    \A c \in Call :
        /\ c \in list_sub_wait_ack =>
              kind[c] # "none" /\ (ret[c] = "accepted" \/ \E t \in Thread : cur[t] = c)
        /\ kind[c] = "none" => ret[c] = "none"
        /\ Waiting(c) => answered[c] = <<>>
        /\ answered[c] = <<>> \/ (ret[c] = "accepted" /\ Len(answered[c]) = 1)
        /\ c \in timedout => c \in list_sub_wait_ack /\ ret[c] = "accepted"

(* The node of a call whose packet is under way is not masked yet.         *)
NetInv ==
    /\ DistinctInv
    /\ \A c \in Call : InTransit(c) =>
          ret[c] = "accepted" /\ (c \in list_sub_wait_ack => node_state[c] = "NORMAL")

(* Table entries are accepted subscribe calls that are settled, with       *)
(* different handles; the renewal copies from such a call.                 *)
TableInv ==
    /\ \A i \in Slot : sub_handles[i] # Null =>
          /\ kind[sub_handles[i]] = "SUBSCRIBE" /\ ret[sub_handles[i]] = "accepted"
          /\ ~Waiting(sub_handles[i])
    /\ \A i, j \in Slot : sub_handles[i] # Null /\ sub_handles[j] # Null
                          /\ arg[sub_handles[i]] = arg[sub_handles[j]] => i = j
    /\ rtopic # Null => /\ kind[rtopic] = "SUBSCRIBE" /\ ret[rtopic] = "accepted"
                        /\ itr # 0 /\ pc[YieldThread] = "idle"

BaseInv == TypeInv /\ CallInv /\ ListInv /\ NetInv /\ TableInv

LEMMA BaseInit == Init => BaseInv
<1> SUFFICES ASSUME Init PROVE BaseInv
  OBVIOUS
<1> USE SubscribeConstants DEF Init
<1>1. TypeInv
  BY DEF TypeInv, Event
<1>2. CallInv
  BY DEF CallInv, Thread
<1>3. ListInv
  BY DEF ListInv, Waiting
<1>4. NetInv
  BY DEF NetInv, DistinctInv, InTransit
<1>5. TableInv
  BY DEF TableInv
<1> QED
  BY <1>1, <1>2, <1>3, <1>4, <1>5 DEF BaseInv

(* Nothing is known of a call that was not made.                           *)
LEMMA UnusedCall ==
  ASSUME BaseInv, NEW c \in Call, Unused(c)
  PROVE  /\ c \notin list_sub_wait_ack /\ c \notin timedout /\ ~InTransit(c)
         /\ ret[c] = "none" /\ answered[c] = <<>>
         /\ \A t \in Thread : cur[t] # c
         /\ \A i \in Slot : sub_handles[i] # c
         /\ rtopic # c
<1>1. c \notin list_sub_wait_ack /\ c \notin timedout /\ ret[c] = "none" /\ answered[c] = <<>>
  BY DEF BaseInv, ListInv, Unused
<1>2. ~InTransit(c)
  BY <1>1 DEF BaseInv, NetInv
<1>3. \A t \in Thread : cur[t] # c
  BY SubscribeConstants DEF BaseInv, CallInv, Unused
<1>4. (\A i \in Slot : sub_handles[i] # c) /\ rtopic # c
  BY SubscribeConstants DEF BaseInv, TableInv, Unused
<1> QED
  BY <1>1, <1>2, <1>3, <1>4

(* A thread enters a call.                                                 *)
LEMMA BeginBase ==
  ASSUME BaseInv, NEW t \in Thread, NEW c \in Call, NEW h, Unused(c), pc[t] = "idle",
         NEW k \in {"SUBSCRIBE", "UNSUBSCRIBE"},
         kind' = [kind EXCEPT ![c] = k], arg' = [arg EXCEPT ![c] = h],
         pc' = [pc EXCEPT ![t] = "lock"], cur' = [cur EXCEPT ![t] = c],
         UNCHANGED <<list, uplink, downlink, ret, answered>>
  PROVE  /\ kind' \in [Call -> {"none", "SUBSCRIBE", "UNSUBSCRIBE"}]
         /\ arg' = [d \in Call |-> arg'[d]]
         /\ pc' \in [Thread -> {"idle", "lock", "send", "undo"}]
         /\ cur' \in [Thread -> Call \cup {Null}]
         /\ CallInv' /\ ListInv' /\ NetInv'
         /\ \A d \in Call \ {c} : kind'[d] = kind[d] /\ arg'[d] = arg[d]
<1> USE SubscribeConstants DEF list
<1>1. /\ c \notin list_sub_wait_ack /\ c \notin timedout /\ ~InTransit(c)
      /\ ret[c] = "none" /\ answered[c] = <<>>
      /\ \A u \in Thread : cur[u] # c
  BY UnusedCall
<1>2. /\ kind' \in [Call -> {"none", "SUBSCRIBE", "UNSUBSCRIBE"}]
      /\ arg' = [d \in Call |-> arg'[d]]
      /\ pc' \in [Thread -> {"idle", "lock", "send", "undo"}]
      /\ cur' \in [Thread -> Call \cup {Null}]
      /\ \A d \in Call \ {c} : kind'[d] = kind[d] /\ arg'[d] = arg[d]
  BY DEF BaseInv, TypeInv
<1>3. CallInv'
  BY <1>1 DEF BaseInv, TypeInv, CallInv, Waiting
<1>4. ListInv'
  <2>1. \A u \in Thread : cur[u] # Null => cur'[u] = cur[u]
    BY DEF BaseInv, TypeInv, CallInv
  <2> QED
    BY <1>1, <2>1 DEF BaseInv, TypeInv, ListInv, Waiting
<1>5. NetInv'
  BY <1>1 DEF BaseInv, NetInv, InTransit, DistinctInv
<1> QED
  BY <1>2, <1>3, <1>4, <1>5

LEMMA SubscribeBase ==
  ASSUME BaseInv, NEW t \in AppThread, NEW c \in Call, NEW h, Subscribe(t, c, h)
  PROVE  BaseInv'
<1> USE SubscribeConstants DEF Subscribe, Begin, client, renew, net
<1>1. t \in Thread /\ t # YieldThread
  BY DEF Thread
<1>2. /\ kind' \in [Call -> {"none", "SUBSCRIBE", "UNSUBSCRIBE"}]
      /\ arg' = [d \in Call |-> arg'[d]]
      /\ pc' \in [Thread -> {"idle", "lock", "send", "undo"}]
      /\ cur' \in [Thread -> Call \cup {Null}]
      /\ CallInv' /\ ListInv' /\ NetInv'
      /\ \A d \in Call \ {c} : kind'[d] = kind[d] /\ arg'[d] = arg[d]
  BY <1>1, BeginBase DEF list
<1>3. TypeInv'
  BY <1>2 DEF BaseInv, TypeInv, list
<1>4. TableInv'
  <2>1. (\A i \in Slot : sub_handles[i] # c) /\ rtopic # c
    BY UnusedCall
  <2>2. \A i \in Slot : sub_handles[i] # Null => sub_handles[i] \in Call \ {c}
    BY <2>1 DEF BaseInv, TypeInv
  <2>3. pc'[YieldThread] = pc[YieldThread]
    BY <1>1 DEF BaseInv, TypeInv, Thread
  <2> QED
    <3>1. \A i \in Slot : sub_handles[i] # Null =>
              /\ kind'[sub_handles[i]] = "SUBSCRIBE" /\ ret[sub_handles[i]] = "accepted"
              /\ ~Waiting(sub_handles[i]) /\ arg'[sub_handles[i]] = arg[sub_handles[i]]
      BY <1>2, <2>2 DEF BaseInv, TableInv
    <3>2. rtopic # Null => /\ kind'[rtopic] = "SUBSCRIBE" /\ ret[rtopic] = "accepted"
                           /\ itr # 0 /\ pc'[YieldThread] = "idle"
      BY <1>2, <2>1, <2>3 DEF BaseInv, TableInv, TypeInv
    <3> QED
      BY <3>1, <3>2 DEF BaseInv, TableInv, Waiting, list
<1> QED
  BY <1>2, <1>3, <1>4 DEF BaseInv

LEMMA RenewCallBase ==
  ASSUME BaseInv, NEW c \in Call, RenewCall(c)
  PROVE  BaseInv'
<1> USE SubscribeConstants DEF RenewCall, Begin, client, net
<1>1. YieldThread \in Thread /\ pc[YieldThread] = "idle"
  BY DEF Thread, BaseInv, TableInv
<1>2. /\ kind' \in [Call -> {"none", "SUBSCRIBE", "UNSUBSCRIBE"}]
      /\ arg' = [d \in Call |-> arg'[d]]
      /\ pc' \in [Thread -> {"idle", "lock", "send", "undo"}]
      /\ cur' \in [Thread -> Call \cup {Null}]
      /\ CallInv' /\ ListInv' /\ NetInv'
      /\ \A d \in Call \ {c} : kind'[d] = kind[d] /\ arg'[d] = arg[d]
  BY <1>1, BeginBase DEF list
<1>3. TypeInv'
  BY <1>2 DEF BaseInv, TypeInv, list
<1>4. TableInv'
  <2>1. \A i \in Slot : sub_handles[i] # Null => sub_handles[i] \in Call \ {c}
    BY UnusedCall DEF BaseInv, TypeInv
  <2> QED
    BY <1>2, <2>1 DEF BaseInv, TableInv, Waiting, list
<1> QED
  BY <1>2, <1>3, <1>4 DEF BaseInv

LEMMA UnsubscribeBase ==
  ASSUME BaseInv, NEW t \in AppThread, NEW c \in Call, NEW f, NEW S, UnsubscribeSlots(t, c, f, S)
  PROVE  BaseInv'
<1> USE SubscribeConstants DEF renew, net
<1>1. t \in Thread /\ t # YieldThread /\ pc[t] = "idle" /\ Unused(c)
  BY DEF Thread, UnsubscribeSlots
<1>2. /\ sub_handles' = [i \in Slot |-> IF i \in S THEN Null ELSE sub_handles[i]]
      /\ UNCHANGED <<is_connected, list, renew, net, ret, answered, renewals>>
  BY DEF UnsubscribeSlots
<1>3. /\ sub_handles' \in [Slot -> Call \cup {Null}]
      /\ \A i \in Slot : sub_handles'[i] # Null => sub_handles'[i] = sub_handles[i]
  BY <1>2 DEF BaseInv, TypeInv
<1>4. CASE is_connected
  <2> DEFINE h == [topic |-> f, handler |-> CHOOSE x \in Handler : TRUE]
             freed == {sub_handles[i] : i \in S}
  <2>1. /\ kind' = [kind EXCEPT ![c] = "UNSUBSCRIBE"] /\ arg' = [arg EXCEPT ![c] = h]
        /\ heap' = [d \in Call |-> IF d \in freed THEN "freed" ELSE IF d = c THEN "live" ELSE heap[d]]
        /\ pc' = [pc EXCEPT ![t] = "lock"] /\ cur' = [cur EXCEPT ![t] = c]
    BY <1>4 DEF UnsubscribeSlots
  <2> HIDE DEF h, freed
  <2>2. /\ kind' \in [Call -> {"none", "SUBSCRIBE", "UNSUBSCRIBE"}]
        /\ arg' = [d \in Call |-> arg'[d]]
        /\ pc' \in [Thread -> {"idle", "lock", "send", "undo"}]
        /\ cur' \in [Thread -> Call \cup {Null}]
        /\ CallInv' /\ ListInv' /\ NetInv'
        /\ \A d \in Call \ {c} : kind'[d] = kind[d] /\ arg'[d] = arg[d]
    BY <1>1, <1>2, <2>1, BeginBase
  <2>3. TypeInv'
    <3>1. heap' \in [Call -> {"none", "live", "freed"}]
      BY <2>1 DEF BaseInv, TypeInv
    <3> QED
      BY <1>2, <1>3, <2>2, <3>1 DEF BaseInv, TypeInv, list
  <2>4. TableInv'
    <3>1. (\A i \in Slot : sub_handles[i] # c) /\ rtopic # c
      BY <1>1, UnusedCall
    <3>2. \A i \in Slot : sub_handles[i] # Null => sub_handles[i] \in Call \ {c}
      BY <3>1 DEF BaseInv, TypeInv
    <3>3. pc'[YieldThread] = pc[YieldThread]
      BY <1>1, <2>1 DEF BaseInv, TypeInv, Thread
    <3>4. \A i \in Slot : sub_handles'[i] # Null =>
              /\ kind'[sub_handles'[i]] = "SUBSCRIBE" /\ ret[sub_handles'[i]] = "accepted"
              /\ ~Waiting(sub_handles'[i]) /\ arg'[sub_handles'[i]] = arg[sub_handles[i]]
              /\ sub_handles[i] # Null
      BY <1>3, <2>2, <3>2 DEF BaseInv, TableInv
    <3>5. rtopic # Null => /\ kind'[rtopic] = "SUBSCRIBE" /\ ret[rtopic] = "accepted"
                           /\ itr # 0 /\ pc'[YieldThread] = "idle"
      BY <2>2, <3>1, <3>3 DEF BaseInv, TableInv, TypeInv
    <3> QED
      BY <1>2, <3>4, <3>5 DEF BaseInv, TableInv, Waiting, list
  <2> QED
    BY <2>2, <2>3, <2>4 DEF BaseInv
<1>5. CASE ~is_connected
  <2> DEFINE freed == {sub_handles[i] : i \in S}
  <2>1. /\ heap' = [d \in Call |-> IF d \in freed THEN "freed" ELSE heap[d]]
        /\ UNCHANGED calls
    BY <1>5 DEF UnsubscribeSlots, calls
  <2> HIDE DEF freed
  <2>2. TypeInv'
    BY <1>2, <1>3, <2>1 DEF BaseInv, TypeInv, list, calls
  <2>3. CallInv' /\ ListInv' /\ NetInv'
    BY <1>2, <2>1 DEF BaseInv, CallInv, ListInv, NetInv, DistinctInv, InTransit, Waiting, list, calls
  <2>4. TableInv'
    BY <1>2, <1>3, <2>1 DEF BaseInv, TableInv, Waiting, list, calls
  <2> QED
    BY <2>2, <2>3, <2>4 DEF BaseInv
<1> QED
  BY <1>4, <1>5 DEF BaseInv, TypeInv

(* A thread leaves a call.                                                 *)
LEMMA LeaveBase ==
  ASSUME BaseInv, NEW t \in Thread, pc[t] # "idle", NEW rc \in {"error", "accepted"}, Leave(t, rc)
  PROVE  /\ cur[t] \in Call /\ cur[t] # Null
         /\ pc' \in [Thread -> {"idle", "lock", "send", "undo"}]
         /\ cur' \in [Thread -> Call \cup {Null}]
         /\ ret' \in [Call -> {"none", "error", "accepted"}]
         /\ itr' \in 0 .. MAX_MESSAGE_HANDLERS
         /\ pc'[t] = "idle" /\ cur'[t] = Null /\ ret'[cur[t]] = rc
         /\ \A u \in Thread \ {t} : pc'[u] = pc[u] /\ cur'[u] = cur[u]
         /\ \A u \in Thread \ {t} : cur[u] # cur[t]
         /\ \A d \in Call \ {cur[t]} : ret'[d] = ret[d]
         /\ rtopic # Null => itr' = itr /\ pc'[YieldThread] = "idle"
         /\ ret[cur[t]] = "none"
<1> USE SubscribeConstants
<1>1. cur[t] # Null /\ cur[t] \in Call /\ ret[cur[t]] = "none"
  BY DEF BaseInv, TypeInv, CallInv
<1>2. /\ pc' \in [Thread -> {"idle", "lock", "send", "undo"}]
      /\ pc'[t] = "idle" /\ \A u \in Thread \ {t} : pc'[u] = pc[u]
  BY DEF BaseInv, TypeInv, Leave
<1>3. /\ cur' \in [Thread -> Call \cup {Null}]
      /\ cur'[t] = Null /\ \A u \in Thread \ {t} : cur'[u] = cur[u]
  BY DEF BaseInv, TypeInv, Leave
<1>4. /\ ret' \in [Call -> {"none", "error", "accepted"}]
      /\ ret'[cur[t]] = rc /\ \A d \in Call \ {cur[t]} : ret'[d] = ret[d]
  BY <1>1 DEF BaseInv, TypeInv, Leave
<1>5. itr' \in 0 .. MAX_MESSAGE_HANDLERS
  <2>1. itr' \in {itr, 0} \/ (itr' = itr + 1 /\ itr # MAX_MESSAGE_HANDLERS)
    BY DEF Leave
  <2>2. itr \in 0 .. MAX_MESSAGE_HANDLERS
    BY DEF BaseInv, TypeInv
  <2> QED
    BY <2>1, <2>2
<1>6. rtopic # Null => itr' = itr /\ pc'[YieldThread] = "idle"
  <2>1. rtopic # Null => t # YieldThread /\ YieldThread \in Thread
    BY DEF BaseInv, TableInv, Thread
  <2> QED
    BY <1>2, <2>1 DEF Leave, BaseInv, TableInv
<1>7. \A u \in Thread \ {t} : cur[u] # cur[t]
  BY <1>1 DEF BaseInv, CallInv
<1> QED
  BY <1>1, <1>2, <1>3, <1>4, <1>5, <1>6, <1>7

LEMMA PushBase ==
  ASSUME BaseInv, NEW t \in Thread, NEW room, PushIf(t, room)
  PROVE  BaseInv'
<1> USE SubscribeConstants DEF net
<1>1. /\ pc[t] = "lock"
      /\ UNCHANGED <<is_connected, sub_handles, timedout, kind, arg, rtopic, net, answered, renewals>>
  BY DEF PushIf
<1>2. cur[t] \in Call /\ cur[t] # Null /\ cur[t] \notin list_sub_wait_ack /\ cur[t] \notin timedout
      /\ ret[cur[t]] = "none" /\ kind[cur[t]] # "none" /\ answered[cur[t]] = <<>>
  BY <1>1 DEF BaseInv, CallInv, TypeInv
<1>3. ~InTransit(cur[t])
  BY <1>2 DEF BaseInv, NetInv
<1>4. CASE room
  <2>1. /\ list_sub_wait_ack' = list_sub_wait_ack \cup {cur[t]}
        /\ node_state' = [node_state EXCEPT ![cur[t]] = "NORMAL"]
        /\ pc' = [pc EXCEPT ![t] = "send"]
        /\ UNCHANGED <<heap, cur, ret, itr>>
    BY <1>4 DEF PushIf
  <2>2. TypeInv'
    BY <1>1, <1>2, <2>1 DEF BaseInv, TypeInv
  <2>3. /\ \A d \in Call \ {cur[t]} : (d \in list_sub_wait_ack' <=> d \in list_sub_wait_ack)
                                     /\ node_state'[d] = node_state[d]
        /\ cur[t] \in list_sub_wait_ack' /\ node_state'[cur[t]] = "NORMAL"
        /\ pc'[t] = "send" /\ \A u \in Thread \ {t} : pc'[u] = pc[u]
    BY <1>2, <2>1 DEF BaseInv, TypeInv
  <2>4. CallInv'
    <3>1. \A u \in Thread : cur[u] = cur[t] /\ cur[u] # Null => u = t
      BY DEF BaseInv, CallInv
    <3>2. \A u \in Thread : cur[u] # Null => cur[u] \in Call
      BY DEF BaseInv, TypeInv
    <3> QED
      BY <1>1, <1>2, <2>1, <2>3, <3>1, <3>2 DEF BaseInv, CallInv, Waiting
  <2>5. ListInv'
    BY <1>1, <1>2, <2>1, <2>3 DEF BaseInv, ListInv, Waiting
  <2>6. NetInv'
    BY <1>1, <1>3, <2>1, <2>3 DEF BaseInv, NetInv, DistinctInv, InTransit
  <2>7. TableInv'
    <3>1. \A i \in Slot : sub_handles[i] # Null => sub_handles[i] \in Call \ {cur[t]}
      BY <1>2 DEF BaseInv, TypeInv, TableInv
    <3>2. rtopic # Null => pc'[YieldThread] = "idle"
      BY <1>1, <2>3 DEF BaseInv, TableInv, Thread
    <3> QED
      BY <1>1, <2>1, <2>3, <3>1, <3>2 DEF BaseInv, TableInv, Waiting
  <2> QED
    BY <2>2, <2>4, <2>5, <2>6, <2>7 DEF BaseInv
<1>5. CASE ~room
  <2>1. /\ heap' = [heap EXCEPT ![cur[t]] = "freed"] /\ Leave(t, "error")
        /\ UNCHANGED <<list_sub_wait_ack, node_state>>
    BY <1>5 DEF PushIf
  <2>2. /\ pc' \in [Thread -> {"idle", "lock", "send", "undo"}]
        /\ cur' \in [Thread -> Call \cup {Null}]
        /\ ret' \in [Call -> {"none", "error", "accepted"}]
        /\ itr' \in 0 .. MAX_MESSAGE_HANDLERS
        /\ pc'[t] = "idle" /\ cur'[t] = Null /\ ret'[cur[t]] = "error"
        /\ \A u \in Thread \ {t} : pc'[u] = pc[u] /\ cur'[u] = cur[u]
        /\ \A u \in Thread \ {t} : cur[u] # cur[t]
        /\ \A d \in Call \ {cur[t]} : ret'[d] = ret[d]
        /\ rtopic # Null => itr' = itr /\ pc'[YieldThread] = "idle"
    BY <1>1, <2>1, LeaveBase
  <2>3. TypeInv'
    <3>1. heap' \in [Call -> {"none", "live", "freed"}]
      BY <2>1 DEF BaseInv, TypeInv
    <3> QED
      BY <1>1, <2>1, <2>2, <3>1 DEF BaseInv, TypeInv
  <2>4. CallInv'
    <3>1. \A u \in Thread : cur[u] # Null => cur[u] \in Call
      BY DEF BaseInv, TypeInv
    <3> QED
      BY <1>1, <2>1, <2>2, <3>1 DEF BaseInv, CallInv, Waiting
  <2>5. ListInv'
    BY <1>1, <1>2, <2>1, <2>2 DEF BaseInv, ListInv, Waiting
  <2>6. NetInv'
    BY <1>1, <1>3, <2>1, <2>2 DEF BaseInv, NetInv, DistinctInv, InTransit
  <2>7. TableInv'
    <3>1. \A i \in Slot : sub_handles[i] # Null => sub_handles[i] \in Call \ {cur[t]}
      BY <1>2 DEF BaseInv, TypeInv, TableInv
    <3>2. rtopic # Null => rtopic \in Call \ {cur[t]}
      BY <1>2 DEF BaseInv, TypeInv, TableInv
    <3> QED
      BY <1>1, <2>1, <2>2, <3>1, <3>2 DEF BaseInv, TableInv, Waiting
  <2> QED
    BY <2>3, <2>4, <2>5, <2>6, <2>7 DEF BaseInv
<1> QED
  BY <1>4, <1>5 DEF PushIf

LEMMA SendBase ==
  ASSUME BaseInv, NEW t \in Thread, Send(t)
  PROVE  BaseInv'
<1> USE SubscribeConstants
<1>1. /\ pc[t] = "send"
      /\ UNCHANGED <<is_connected, sub_handles, list, heap, kind, arg, rtopic, downlink, answered, renewals>>
  BY DEF Send
<1>2. cur[t] \in Call /\ cur[t] # Null /\ Waiting(cur[t]) /\ cur[t] \notin timedout
      /\ ret[cur[t]] = "none" /\ kind[cur[t]] # "none" /\ answered[cur[t]] = <<>>
  BY <1>1 DEF BaseInv, CallInv, TypeInv
<1>3. ~InTransit(cur[t])
  BY <1>2 DEF BaseInv, NetInv
<1>4. CASE uplink' = Append(uplink, cur[t]) /\ Leave(t, "accepted")
  <2>1. /\ pc' \in [Thread -> {"idle", "lock", "send", "undo"}]
        /\ cur' \in [Thread -> Call \cup {Null}]
        /\ ret' \in [Call -> {"none", "error", "accepted"}]
        /\ itr' \in 0 .. MAX_MESSAGE_HANDLERS
        /\ pc'[t] = "idle" /\ cur'[t] = Null /\ ret'[cur[t]] = "accepted"
        /\ \A u \in Thread \ {t} : pc'[u] = pc[u] /\ cur'[u] = cur[u]
        /\ \A u \in Thread \ {t} : cur[u] # cur[t]
        /\ \A d \in Call \ {cur[t]} : ret'[d] = ret[d]
        /\ rtopic # Null => itr' = itr /\ pc'[YieldThread] = "idle"
    BY <1>1, <1>4, LeaveBase
  <2>2. /\ uplink' \in Seq(Call) /\ DistinctInv'
        /\ \A d \in Call : InTransit(d)' <=> InTransit(d) \/ d = cur[t]
    <3>1. TypeInv /\ DistinctInv
      BY DEF BaseInv, NetInv
    <3> QED
      BY <1>1, <1>2, <1>3, <1>4, <3>1, SendNet
  <2>3. TypeInv'
    BY <1>1, <2>1, <2>2 DEF BaseInv, TypeInv, list
  <2>4. CallInv'
    <3>1. \A u \in Thread : cur[u] # Null => cur[u] \in Call
      BY DEF BaseInv, TypeInv
    <3> QED
      BY <1>1, <2>1, <3>1 DEF BaseInv, CallInv, Waiting, list
  <2>5. ListInv'
    BY <1>1, <1>2, <2>1 DEF BaseInv, ListInv, Waiting, list
  <2>6. NetInv'
    <3>1. \A d \in Call : InTransit(d)' => ret'[d] = "accepted"
                                           /\ (d \in list_sub_wait_ack => node_state[d] = "NORMAL")
      BY <1>2, <2>1, <2>2 DEF BaseInv, NetInv, Waiting
    <3> QED
      BY <1>1, <2>2, <3>1 DEF NetInv, list
  <2>7. TableInv'
    <3>1. \A i \in Slot : sub_handles[i] # Null => sub_handles[i] \in Call \ {cur[t]}
      BY <1>2 DEF BaseInv, TypeInv, TableInv
    <3>2. rtopic # Null => rtopic \in Call \ {cur[t]}
      BY <1>2 DEF BaseInv, TypeInv, TableInv
    <3> QED
      BY <1>1, <2>1, <3>1, <3>2 DEF BaseInv, TableInv, Waiting, list
  <2> QED
    BY <2>3, <2>4, <2>5, <2>6, <2>7 DEF BaseInv
<1>5. CASE pc' = [pc EXCEPT ![t] = "undo"] /\ UNCHANGED <<uplink, cur, ret, itr>>
  <2>1. pc'[t] = "undo" /\ (\A u \in Thread \ {t} : pc'[u] = pc[u]) /\ TypeInv'
    BY <1>1, <1>5 DEF BaseInv, TypeInv, list
  <2>2. CallInv'
    BY <1>1, <1>2, <1>5, <2>1 DEF BaseInv, CallInv, Waiting, list
  <2>3. ListInv' /\ NetInv'
    BY <1>1, <1>5 DEF BaseInv, ListInv, NetInv, DistinctInv, InTransit, Waiting, list
  <2>4. TableInv'
    <3>1. rtopic # Null => pc'[YieldThread] = "idle"
      BY <1>1, <2>1 DEF BaseInv, TableInv, Thread
    <3> QED
      BY <1>1, <1>5, <3>1 DEF BaseInv, TableInv, Waiting, list
  <2> QED
    BY <2>1, <2>2, <2>3, <2>4 DEF BaseInv
<1> QED
  BY <1>4, <1>5 DEF Send

LEMMA UndoBase ==
  ASSUME BaseInv, NEW t \in Thread, Undo(t)
  PROVE  BaseInv'
<1> USE SubscribeConstants DEF net
<1>1. /\ pc[t] = "undo" /\ Leave(t, "error")
      /\ list_sub_wait_ack' = list_sub_wait_ack \ {cur[t]}
      /\ heap' = [heap EXCEPT ![cur[t]] = "freed"]
      /\ UNCHANGED <<is_connected, sub_handles, node_state, timedout, kind, arg, rtopic, net, answered,
                     renewals>>
  BY DEF Undo
<1>2. cur[t] \in Call /\ cur[t] # Null /\ cur[t] \notin timedout
      /\ ret[cur[t]] = "none" /\ kind[cur[t]] # "none" /\ answered[cur[t]] = <<>>
  BY <1>1 DEF BaseInv, CallInv, TypeInv
<1>3. ~InTransit(cur[t])
  BY <1>2 DEF BaseInv, NetInv
<1>4. /\ pc' \in [Thread -> {"idle", "lock", "send", "undo"}]
      /\ cur' \in [Thread -> Call \cup {Null}]
      /\ ret' \in [Call -> {"none", "error", "accepted"}]
      /\ itr' \in 0 .. MAX_MESSAGE_HANDLERS
      /\ pc'[t] = "idle" /\ cur'[t] = Null /\ ret'[cur[t]] = "error"
      /\ \A u \in Thread \ {t} : pc'[u] = pc[u] /\ cur'[u] = cur[u]
      /\ \A u \in Thread \ {t} : cur[u] # cur[t]
      /\ \A d \in Call \ {cur[t]} : ret'[d] = ret[d]
      /\ rtopic # Null => itr' = itr /\ pc'[YieldThread] = "idle"
  BY <1>1, LeaveBase
<1>5. TypeInv'
  <2>1. heap' \in [Call -> {"none", "live", "freed"}]
    BY <1>1 DEF BaseInv, TypeInv
  <2> QED
    BY <1>1, <1>4, <2>1 DEF BaseInv, TypeInv
<1>6. CallInv'
  <2>1. \A u \in Thread : cur[u] # Null => cur[u] \in Call
    BY DEF BaseInv, TypeInv
  <2> QED
    BY <1>1, <1>4, <2>1 DEF BaseInv, CallInv, Waiting
<1>7. ListInv'
  BY <1>1, <1>2, <1>4 DEF BaseInv, ListInv, Waiting
<1>8. NetInv'
  BY <1>1, <1>3, <1>4 DEF BaseInv, NetInv, DistinctInv, InTransit
<1>9. TableInv'
  <2>1. \A i \in Slot : sub_handles[i] # Null => sub_handles[i] \in Call \ {cur[t]}
    BY <1>2 DEF BaseInv, TypeInv, TableInv
  <2>2. rtopic # Null => rtopic \in Call \ {cur[t]}
    BY <1>2 DEF BaseInv, TypeInv, TableInv
  <2> QED
    BY <1>1, <1>4, <2>1, <2>2 DEF BaseInv, TableInv, Waiting
<1> QED
  BY <1>5, <1>6, <1>7, <1>8, <1>9 DEF BaseInv

(* The packet at the head of the downlink: its call is accepted and over,  *)
(* its node NORMAL if it is there.                                         *)
LEMMA AckBase ==
  ASSUME BaseInv, downlink # <<>>, downlink' = Tail(downlink), YieldFree, Mask(Head(downlink).call),
         UNCHANGED <<list_sub_wait_ack, timedout, calls, itr, rtopic, uplink, ret>>
  PROVE  LET c == Head(downlink).call IN
         /\ c \in Call /\ downlink' \in Seq(Ack) /\ InTransit(c)
         /\ node_state' \in [Call -> {"none", "NORMAL", "INVALID"}]
         /\ \A d \in Call \ {c} : node_state'[d] = node_state[d]
         /\ (c \in list_sub_wait_ack => node_state'[c] = "INVALID")
         /\ ret[c] = "accepted" /\ (\A t \in Thread : cur[t] # c)
         /\ c \in list_sub_wait_ack => answered[c] = <<>> /\ Waiting(c)
         /\ NetInv' /\ rtopic = Null
<1> USE SubscribeConstants
<1> DEFINE c == Head(downlink).call
<1>1. TypeInv /\ DistinctInv
  BY DEF BaseInv, NetInv
<1>2. /\ downlink' \in Seq(Ack) /\ c \in Call /\ DistinctInv' /\ InTransit(c)
      /\ \A d \in Call : InTransit(d)' <=> InTransit(d) /\ d # c
  BY <1>1, PopNet
<1> HIDE DEF c
<1>3. node_state' = [node_state EXCEPT ![c] = IF c \in list_sub_wait_ack THEN "INVALID" ELSE @]
  BY DEF Mask, c
<1>4. /\ node_state' \in [Call -> {"none", "NORMAL", "INVALID"}]
      /\ \A d \in Call \ {c} : node_state'[d] = node_state[d]
      /\ c \in list_sub_wait_ack => node_state'[c] = "INVALID"
  BY <1>2, <1>3 DEF BaseInv, TypeInv
<1>5. ret[c] = "accepted" /\ (c \in list_sub_wait_ack => Waiting(c) /\ answered[c] = <<>>)
  BY <1>2 DEF BaseInv, NetInv, ListInv, Waiting
<1>6. \A t \in Thread : cur[t] # c
  BY <1>2, <1>5 DEF BaseInv, CallInv
<1>7. NetInv'
  BY <1>2, <1>4 DEF BaseInv, NetInv
<1>8. rtopic = Null
  BY DEF YieldFree, BaseInv, TableInv
<1> QED
  BY <1>2, <1>4, <1>5, <1>6, <1>7, <1>8 DEF c

LEMMA OneAppended ==
  ASSUME NEW e \in Event
  PROVE  Append(<<>>, e) \in Seq(Event) /\ Len(Append(<<>>, e)) = 1
<1>1. <<>> \in Seq(Event) /\ Len(<<>>) = 0
  OBVIOUS
<1> QED
  BY <1>1, AppendElements

LEMMA SubackBase ==
  ASSUME BaseInv, HandleSuback
  PROVE  BaseInv'
<1> USE SubscribeConstants
<1> DEFINE a == Head(downlink)
           c == a.call
           known == c \in list_sub_wait_ack
<1>1. /\ YieldFree /\ downlink # <<>> /\ kind[c] = "SUBSCRIBE"
      /\ downlink' = Tail(downlink) /\ Mask(c)
      /\ UNCHANGED <<is_connected, list_sub_wait_ack, timedout, calls, itr, rtopic, uplink, ret, renewals>>
  BY DEF HandleSuback
<1>2. /\ c \in Call /\ downlink' \in Seq(Ack)
      /\ node_state' \in [Call -> {"none", "NORMAL", "INVALID"}]
      /\ \A d \in Call \ {c} : node_state'[d] = node_state[d]
      /\ known => node_state'[c] = "INVALID"
      /\ ret[c] = "accepted" /\ (\A t \in Thread : cur[t] # c)
      /\ known => answered[c] = <<>>
      /\ NetInv' /\ rtopic = Null
  BY <1>1, AckBase
<1>3. \/ UNCHANGED <<sub_handles, heap, answered>>
      \/ /\ known /\ heap' = [heap EXCEPT ![c] = "freed"] /\ UNCHANGED sub_handles
         /\ \E e \in Event : Answer(c, e)
      \/ /\ known /\ IdenticalIn(c) = {} /\ sub_handles' = [sub_handles EXCEPT ![FirstFree] = c]
         /\ UNCHANGED heap
         /\ \E e \in Event : Answer(c, e)
  BY DEF HandleSuback, Event
<1> HIDE DEF a, c
<1>4. /\ answered' \in [Call -> Seq(Event)]
      /\ \A d \in Call \ {c} : answered'[d] = answered[d]
      /\ answered'[c] = answered[c] \/ (known /\ Len(answered'[c]) = 1)
  <2>1. ASSUME NEW e \in Event, Answer(c, e), known
        PROVE  /\ answered' \in [Call -> Seq(Event)]
               /\ \A d \in Call \ {c} : answered'[d] = answered[d]
               /\ Len(answered'[c]) = 1
    <3>1. answered' = [answered EXCEPT ![c] = Append(<<>>, e)]
      BY <1>2, <2>1 DEF Answer
    <3> QED
      BY <1>2, <3>1, OneAppended DEF BaseInv, TypeInv
  <2> QED
    BY <1>3, <2>1 DEF BaseInv, TypeInv
<1>5. heap' \in [Call -> {"none", "live", "freed"}]
  BY <1>2, <1>3 DEF BaseInv, TypeInv
<1>6. /\ sub_handles' \in [Slot -> Call \cup {Null}]
      /\ \A i \in Slot : sub_handles'[i] = sub_handles[i]
                         \/ (sub_handles'[i] = c /\ i = FirstFree /\ known /\ IdenticalIn(c) = {})
  <2>1. sub_handles \in [Slot -> Call \cup {Null}]
    BY DEF BaseInv, TypeInv
  <2>2. CASE sub_handles' = sub_handles
    BY <2>1, <2>2
  <2>3. CASE known /\ IdenticalIn(c) = {} /\ sub_handles' = [sub_handles EXCEPT ![FirstFree] = c]
    <3> HIDE DEF known
    <3> QED
      BY <1>2, <2>1, <2>3
  <2> QED
    BY <1>3, <2>2, <2>3
<1>7. TypeInv'
  BY <1>1, <1>2, <1>4, <1>5, <1>6 DEF BaseInv, TypeInv, calls
<1>8. CallInv'
  <2>1. \A u \in Thread : cur[u] # Null => cur[u] \in Call \ {c}
    BY <1>2 DEF BaseInv, TypeInv
  <2>2. UNCHANGED <<pc, cur, kind, ret, timedout, list_sub_wait_ack>>
    BY <1>1 DEF calls
  <2>3. \A u \in Thread : cur[u] # Null =>
            answered'[cur[u]] = answered[cur[u]] /\ node_state'[cur[u]] = node_state[cur[u]]
    BY <1>2, <1>4, <2>1
  <2>4. CallInv
    BY DEF BaseInv
  <2> QED
    BY <2>2, <2>3, <2>4 DEF CallInv, Waiting
<1>9. ListInv'
  <2>1. \A d \in Call : (d \in list_sub_wait_ack /\ node_state'[d] = "NORMAL") => answered'[d] = <<>>
    BY <1>2, <1>4 DEF BaseInv, ListInv, Waiting
  <2>2. \A d \in Call : answered'[d] = <<>> \/ (ret[d] = "accepted" /\ Len(answered'[d]) = 1)
    BY SMTT(30), <1>2, <1>4 DEF BaseInv, ListInv
  <2> QED
    BY <1>1, <2>1, <2>2 DEF BaseInv, ListInv, Waiting, calls
<1>10. TableInv'
  <2>1. \A i \in Slot : sub_handles[i] # Null => arg[sub_handles[i]] # arg[c] \/ IdenticalIn(c) # {}
    BY DEF IdenticalIn
  <2>2. \A i \in Slot : sub_handles'[i] # Null =>
            /\ kind[sub_handles'[i]] = "SUBSCRIBE" /\ ret[sub_handles'[i]] = "accepted"
            /\ ~(sub_handles'[i] \in list_sub_wait_ack /\ node_state'[sub_handles'[i]] = "NORMAL")
    <3> TAKE i \in Slot
    <3>1. CASE sub_handles'[i] = c
      BY <1>1, <1>2, <3>1 DEF c, a
    <3>2. CASE sub_handles'[i] # c
      BY <1>2, <1>6, <3>2 DEF BaseInv, TableInv, TypeInv, Waiting
    <3> QED
      BY <3>1, <3>2
  <2>3. \A i, j \in Slot : sub_handles'[i] # Null /\ sub_handles'[j] # Null
                           /\ arg[sub_handles'[i]] = arg[sub_handles'[j]] => i = j
    BY <1>6, <2>1 DEF BaseInv, TableInv
  <2> QED
    BY <1>1, <1>2, <2>2, <2>3 DEF TableInv, Waiting, calls
<1> QED
  BY <1>2, <1>7, <1>8, <1>9, <1>10 DEF BaseInv

LEMMA UnsubackBase ==
  ASSUME BaseInv, HandleUnsuback
  PROVE  BaseInv'
<1> USE SubscribeConstants DEF client
<1> DEFINE c == Head(downlink).call
<1>1. /\ YieldFree /\ downlink # <<>>
      /\ downlink' = Tail(downlink) /\ Mask(c)
      /\ UNCHANGED <<client, list_sub_wait_ack, timedout, calls, itr, rtopic, uplink, ret, answered,
                     renewals>>
  BY DEF HandleUnsuback
<1>2. /\ c \in Call /\ downlink' \in Seq(Ack)
      /\ node_state' \in [Call -> {"none", "NORMAL", "INVALID"}]
      /\ \A d \in Call \ {c} : node_state'[d] = node_state[d]
      /\ c \in list_sub_wait_ack => node_state'[c] = "INVALID"
      /\ (\A t \in Thread : cur[t] # c)
      /\ NetInv' /\ rtopic = Null
  BY <1>1, AckBase
<1>3. heap' \in [Call -> {"none", "live", "freed"}]
  <2>1. \/ heap' = [heap EXCEPT ![c] = "freed"]
        \/ \E G : heap' = [d \in Call |-> IF d \in G THEN "freed" ELSE heap[d]]
    BY DEF HandleUnsuback
  <2>2. CASE heap' = [heap EXCEPT ![c] = "freed"]
    BY <1>2, <2>2 DEF BaseInv, TypeInv
  <2>3. ASSUME NEW G, heap' = [d \in Call |-> IF d \in G THEN "freed" ELSE heap[d]]
        PROVE  heap' \in [Call -> {"none", "live", "freed"}]
    BY <2>3 DEF BaseInv, TypeInv
  <2> QED
    BY <2>1, <2>2, <2>3
<1> HIDE DEF c
<1>4. TypeInv'
  BY <1>1, <1>2, <1>3 DEF BaseInv, TypeInv, calls
<1>5. CallInv'
  <2>1. \A u \in Thread : cur[u] # Null => cur[u] \in Call \ {c}
    BY <1>2 DEF BaseInv, TypeInv
  <2> QED
    BY <1>1, <1>2, <2>1 DEF BaseInv, CallInv, Waiting, calls
<1>6. ListInv'
  BY <1>1, <1>2 DEF BaseInv, ListInv, Waiting, calls
<1>7. TableInv'
  <2>1. \A i \in Slot : sub_handles[i] # Null =>
            ~(sub_handles[i] \in list_sub_wait_ack /\ node_state'[sub_handles[i]] = "NORMAL")
    BY <1>2 DEF BaseInv, TableInv, TypeInv, Waiting
  <2> QED
    BY <1>1, <1>2, <2>1 DEF BaseInv, TableInv, Waiting, calls
<1> QED
  BY <1>2, <1>4, <1>5, <1>6, <1>7 DEF BaseInv

LEMMA SweepBase ==
  ASSUME BaseInv, Sweep
  PROVE  BaseInv'
<1> USE SubscribeConstants DEF client, calls, net
<1> DEFINE late == {c \in list_sub_wait_ack \cap timedout : node_state[c] = "NORMAL"}
           gone == late \cup {c \in list_sub_wait_ack : node_state[c] = "INVALID"}
<1>1. /\ YieldFree
      /\ list_sub_wait_ack' = list_sub_wait_ack \ gone /\ timedout' = timedout \ gone
      /\ heap' = [c \in Call |-> IF c \in late THEN "freed" ELSE heap[c]]
      /\ answered' = [c \in Call |-> IF c \in late /\ HasEventHandler /\ kind[c] = "SUBSCRIBE"
                                     THEN Append(answered[c], "TIMEOUT") ELSE answered[c]]
      /\ UNCHANGED <<client, node_state, calls, itr, rtopic, net, ret, renewals>>
  BY DEF Sweep, SweepNodes
<1>2. \A c \in late : /\ c \in Call /\ Waiting(c) /\ answered[c] = <<>> /\ ret[c] = "accepted"
                      /\ \A t \in Thread : cur[t] # c
  <2>1. ASSUME NEW c \in late PROVE c \in Call /\ Waiting(c) /\ answered[c] = <<>> /\ ret[c] = "accepted"
    BY DEF BaseInv, TypeInv, ListInv, Waiting
  <2> QED
    BY <2>1 DEF BaseInv, CallInv
<1>3. /\ answered' \in [Call -> Seq(Event)]
      /\ \A c \in Call \ late : answered'[c] = answered[c]
      /\ \A c \in late : answered'[c] = answered[c] \/ Len(answered'[c]) = 1
  <2>1. \A c \in late : Append(answered[c], "TIMEOUT") \in Seq(Event)
                        /\ Len(Append(answered[c], "TIMEOUT")) = 1
    BY <1>2, OneAppended DEF Event
  <2> HIDE DEF late
  <2>2. \A c \in Call : answered[c] \in Seq(Event)
    BY DEF BaseInv, TypeInv
  <2> QED
    BY <1>1, <1>2, <2>1, <2>2
<1>4. late \subseteq gone
  OBVIOUS
<1>5. \A t \in Thread : cur[t] # Null => cur[t] \notin gone
  <2>1. \A t \in Thread : cur[t] # Null /\ cur[t] \in list_sub_wait_ack => node_state[cur[t]] = "NORMAL"
    BY DEF BaseInv, CallInv, Waiting
  <2> QED
    BY <1>2, <2>1
<1> HIDE DEF late, gone
<1>6. TypeInv'
  <2>1. heap' \in [Call -> {"none", "live", "freed"}]
    BY <1>1 DEF BaseInv, TypeInv
  <2> QED
    BY <1>1, <1>3, <2>1 DEF BaseInv, TypeInv
<1>7. CallInv'
  <2>1. \A t \in Thread : cur[t] # Null => cur[t] \in Call \ late
    BY <1>4, <1>5 DEF BaseInv, TypeInv
  <2> QED
    BY <1>1, <1>3, <1>5, <2>1 DEF BaseInv, CallInv, Waiting
<1>8. ListInv'
  <2>1. \A d \in Call : answered'[d] = <<>> \/ (ret[d] = "accepted" /\ Len(answered'[d]) = 1)
    BY <1>2, <1>3 DEF BaseInv, ListInv
  <2>2. \A d \in Call : d \in list_sub_wait_ack' /\ node_state[d] = "NORMAL" => answered'[d] = <<>>
    BY <1>1, <1>3, <1>4 DEF BaseInv, ListInv, Waiting
  <2> QED
    BY <1>1, <2>1, <2>2 DEF BaseInv, ListInv, Waiting
<1>9. NetInv'
  BY <1>1 DEF BaseInv, NetInv, DistinctInv, InTransit
<1>10. TableInv'
  BY <1>1 DEF BaseInv, TableInv, Waiting
<1> QED
  BY <1>6, <1>7, <1>8, <1>9, <1>10 DEF BaseInv

LEMMA RenewNextBase ==
  ASSUME BaseInv, RenewNext \/ RenewNoConn
  PROVE  BaseInv'
<1> USE SubscribeConstants DEF client, calls, net, list
<1>1. UNCHANGED <<client, list, heap, calls, net, ret, answered, renewals>>
  BY DEF RenewNext, RenewNoConn
<1>2. itr' \in 0 .. MAX_MESSAGE_HANDLERS
  <2>1. itr' \in {itr, 0} \/ (itr' = itr + 1 /\ itr # MAX_MESSAGE_HANDLERS)
    BY DEF RenewNext, RenewNoConn
  <2>2. itr \in 0 .. MAX_MESSAGE_HANDLERS
    BY DEF BaseInv, TypeInv
  <2> QED
    BY <2>1, <2>2
<1>3. /\ rtopic' \in Call \cup {Null}
      /\ rtopic' # Null => /\ kind[rtopic'] = "SUBSCRIBE" /\ ret[rtopic'] = "accepted"
                           /\ itr' # 0 /\ pc[YieldThread] = "idle"
  <2>1. itr # 0 => itr \in Slot
    BY DEF BaseInv, TypeInv, Slot
  <2> QED
    BY <2>1 DEF RenewNext, RenewNoConn, BaseInv, TypeInv, TableInv
<1>4. TypeInv'
  BY <1>1, <1>2, <1>3 DEF BaseInv, TypeInv
<1>5. CallInv' /\ ListInv' /\ NetInv'
  BY <1>1 DEF BaseInv, CallInv, ListInv, NetInv, DistinctInv, InTransit, Waiting
<1>6. TableInv'
  BY <1>1, <1>3 DEF BaseInv, TableInv, Waiting
<1> QED
  BY <1>4, <1>5, <1>6 DEF BaseInv

LEMMA TimerBase ==
  ASSUME Prompt, BaseInv, NEW c \in Call, TimerExpires(c)
  PROVE  BaseInv'
<1> USE SubscribeConstants DEF client, calls, net, renew
<1>1. /\ c \in list_sub_wait_ack /\ (\A t \in Thread : cur[t] # c)
      /\ timedout' = timedout \cup {c}
      /\ UNCHANGED <<client, list_sub_wait_ack, node_state, heap, calls, renew, net, ret, answered, renewals>>
  BY DEF TimerExpires, Prompt, Sending
<1>2. TypeInv'
  BY <1>1 DEF BaseInv, TypeInv
<1>3. CallInv' /\ ListInv'
  BY <1>1 DEF BaseInv, CallInv, ListInv, Waiting
<1>4. NetInv' /\ TableInv'
  BY <1>1 DEF BaseInv, NetInv, DistinctInv, InTransit, TableInv, Waiting
<1> QED
  BY <1>2, <1>3, <1>4 DEF BaseInv

LEMMA LinkBase ==
  ASSUME BaseInv, ConnectionLost \/ Reconnected
  PROVE  BaseInv'
<1> USE SubscribeConstants DEF calls, list
<1>1. UNCHANGED <<sub_handles, list, heap, calls, rtopic, ret, answered, renewals>>
  BY DEF ConnectionLost, Reconnected, renew
<1>2. /\ is_connected' \in BOOLEAN /\ itr' \in 0 .. MAX_MESSAGE_HANDLERS
      /\ itr' = itr \/ itr' = 1
  <2>1. is_connected' \in BOOLEAN
    BY DEF ConnectionLost, Reconnected
  <2>2. itr' = itr \/ itr' = 1
    BY DEF ConnectionLost, Reconnected, renew
  <2> QED
    BY <2>1, <2>2 DEF BaseInv, TypeInv
<1>3. UNCHANGED <<uplink, downlink>> \/ (uplink' = <<>> /\ downlink' = <<>>)
  BY DEF ConnectionLost, Reconnected, net
<1>4. TypeInv'
  <2>1. uplink' \in Seq(Call) /\ downlink' \in Seq(Ack)
    <3>1. <<>> \in Seq(Call) /\ <<>> \in Seq(Ack)
      OBVIOUS
    <3>2. uplink \in Seq(Call) /\ downlink \in Seq(Ack)
      BY DEF BaseInv, TypeInv
    <3> QED
      BY <1>3, <3>1, <3>2, Zenon
  <2> QED
    BY <1>1, <1>2, <2>1 DEF BaseInv, TypeInv
<1>5. CallInv' /\ ListInv'
  BY <1>1 DEF BaseInv, CallInv, ListInv, Waiting
<1>6. NetInv'
  BY <1>1, <1>3 DEF BaseInv, NetInv, DistinctInv, InTransit
<1>7. TableInv'
  BY <1>1, <1>2 DEF BaseInv, TableInv, Waiting
<1> QED
  BY <1>4, <1>5, <1>6, <1>7 DEF BaseInv

LEMMA BrokerBase ==
  ASSUME BaseInv, Broker
  PROVE  BaseInv' /\ \A d \in Call : InTransit(d)' <=> InTransit(d)
<1> USE SubscribeConstants DEF client, calls, list, renew
<1>1. UNCHANGED <<client, list, heap, calls, renew, ret, answered, renewals>>
  BY DEF Broker
<1>2. \E ok \in BOOLEAN : downlink' = Append(downlink, [call |-> Head(uplink), ok |-> ok])
  BY DEF Broker
<1>3. /\ uplink' \in Seq(Call) /\ downlink' \in Seq(Ack) /\ DistinctInv'
      /\ \A d \in Call : InTransit(d)' <=> InTransit(d)
  BY <1>2, BrokerNet DEF Broker, BaseInv, NetInv
<1>4. TypeInv'
  BY <1>1, <1>3 DEF BaseInv, TypeInv
<1>5. CallInv' /\ ListInv'
  BY <1>1 DEF BaseInv, CallInv, ListInv, Waiting
<1>6. NetInv'
  BY <1>1, <1>3 DEF BaseInv, NetInv
<1>7. TableInv'
  BY <1>1 DEF BaseInv, TableInv, Waiting
<1> QED
  BY <1>3, <1>4, <1>5, <1>6, <1>7 DEF BaseInv

LEMMA BaseStep ==
  ASSUME Prompt, BaseInv, [Next]_vars
  PROVE  BaseInv'
<1>1. CASE \E t \in AppThread, c \in Call :
             (\E h \in Handle : Subscribe(t, c, h)) \/ (\E f \in Topic : Unsubscribe(t, c, f))
  BY <1>1, SubscribeBase, UnsubscribeBase DEF Unsubscribe
<1>2. CASE \E t \in Thread : CallStep(t)
  <2>1. ASSUME NEW t \in Thread, Push(t) PROVE BaseInv'
    BY <2>1, PushBase DEF Push
  <2> QED
    BY <1>2, <2>1, SendBase, UndoBase DEF CallStep
<1>3. CASE YieldStep
  BY <1>3, SubackBase, UnsubackBase, SweepBase, RenewNextBase, RenewCallBase DEF YieldStep
<1>4. CASE \E c \in Call : TimerExpires(c)
  BY <1>4, TimerBase
<1>5. CASE ConnectionLost \/ Reconnected
  BY <1>5, LinkBase
<1>6. CASE Broker
  BY <1>6, BrokerBase
<1>7. CASE UNCHANGED vars
  <2> USE <1>7 DEF vars, client, list, calls, renew, net
  <2>1. TypeInv'
    BY DEF BaseInv, TypeInv
  <2>2. CallInv' /\ ListInv' /\ NetInv' /\ TableInv'
    BY DEF BaseInv, CallInv, ListInv, NetInv, DistinctInv, InTransit, TableInv, Waiting
  <2> QED
    BY <2>1, <2>2 DEF BaseInv
<1> QED
  BY <1>1, <1>2, <1>3, <1>4, <1>5, <1>6, <1>7 DEF Next

(* The subscriber of a request hears of it once at most - success, refusal *)
(* or time-out, whichever of _handle_suback_packet and the sweep comes     *)
(* first - and never after the call itself reported an error, for any      *)
(* number of calls and threads: SUBACKs around a time-out, lost            *)
(* connections, failing writes, with or without an event handler.  The     *)
(* call has left when its sub_start_time runs out: one that still sends    *)
(* may be told a time-out and return an error as well (README).            *)
THEOREM AnsweredOnce ==
  ASSUME Prompt
  PROVE  Spec => []OneAnswer
<1>1. BaseInv => OneAnswer
  <2>1. ASSUME BaseInv, NEW c \in Call
        PROVE  Len(answered[c]) <= 1 /\ (ret[c] = "error" => answered[c] = <<>>)
    <3>1. answered[c] = <<>> \/ (ret[c] = "accepted" /\ Len(answered[c]) = 1)
      BY <2>1 DEF BaseInv, ListInv
    <3>2. Len(answered[c]) = 0 \/ Len(answered[c]) = 1
      BY <3>1
    <3>3. ret[c] = "error" => answered[c] = <<>>
      BY <3>1
    <3>4. \A n : n = 0 \/ n = 1 => n <= 1
      OBVIOUS
    <3>5. Len(answered[c]) <= 1
      BY <3>2, <3>4, Zenon
    <3> QED
      BY <3>3, <3>5
  <2> QED
    BY <2>1 DEF OneAnswer
<1> QED
  BY <1>1, BaseInit, BaseStep, PTL DEF Spec

-----------------------------------------------------------------------------
(***************************************************************************)
(* Ownership of the topic copies.  Three circumstances break it (README):  *)
(* an UNSUBACK that finds no node, whose handler frees a pointer it never  *)
(* set, a table entry removed while the renewal reads the table, and a     *)
(* node swept while its call still sends.                                  *)
(***************************************************************************)
Calm == {"late_unsuback", "unsubscribe_while_renewing", "slow_send"} \cap Adversity = {}

UnsubInv ==
    \A c \in Call : kind[c] = "UNSUBSCRIBE" /\ InTransit(c) =>
        c \in list_sub_wait_ack /\ c \notin timedout

HeapInv ==
    /\ \A t \in Thread : cur[t] # Null => heap[cur[t]] = "live"
    /\ \A c \in Call : Waiting(c) => heap[c] = "live"
    /\ \A c \in Call : kind[c] = "none" => heap[c] = "none"
    /\ \A i \in Slot : sub_handles[i] # Null => heap[sub_handles[i]] = "live"

RenewInv == rtopic # Null => \E i \in Slot : sub_handles[i] = rtopic

OwnInv == UnsubInv /\ HeapInv /\ RenewInv

LEMMA BeginOwn ==
  ASSUME BaseInv, OwnInv, NEW t \in Thread, NEW c \in Call, NEW h, Unused(c), pc[t] = "idle",
         NEW k \in {"SUBSCRIBE", "UNSUBSCRIBE"},
         kind' = [kind EXCEPT ![c] = k], arg' = [arg EXCEPT ![c] = h],
         pc' = [pc EXCEPT ![t] = "lock"], cur' = [cur EXCEPT ![t] = c],
         heap' = [heap EXCEPT ![c] = "live"],
         UNCHANGED <<list, uplink, downlink, sub_handles>>
  PROVE  UnsubInv' /\ HeapInv'
<1> USE SubscribeConstants DEF list
<1>1. c \notin list_sub_wait_ack /\ ~InTransit(c) /\ \A i \in Slot : sub_handles[i] # c
  BY UnusedCall
<1>2. UnsubInv'
  BY <1>1 DEF OwnInv, UnsubInv, InTransit, BaseInv, TypeInv
<1>3. HeapInv'
  BY <1>1 DEF OwnInv, HeapInv, Waiting, BaseInv, TypeInv
<1> QED
  BY <1>2, <1>3

LEMMA BeginStepOwn ==
  ASSUME BaseInv, OwnInv, NEW c \in Call,
         (\E t \in AppThread, h \in Handle : Subscribe(t, c, h)) \/ RenewCall(c)
  PROVE  OwnInv'
<1> USE SubscribeConstants DEF net, client
<1>1. CASE \E t \in AppThread, h \in Handle : Subscribe(t, c, h)
  <2>1. PICK t \in AppThread, h \in Handle : Subscribe(t, c, h)
    BY <1>1
  <2>2. UnsubInv' /\ HeapInv'
    BY <2>1, BeginOwn DEF Subscribe, Begin, Thread
  <2>3. RenewInv'
    BY <2>1 DEF OwnInv, RenewInv, Subscribe, renew
  <2> QED
    BY <2>2, <2>3 DEF OwnInv
<1>2. CASE RenewCall(c)
  <2>1. YieldThread \in Thread /\ pc[YieldThread] = "idle"
    BY <1>2 DEF Thread, BaseInv, TableInv, RenewCall
  <2>2. UnsubInv' /\ HeapInv'
    BY <1>2, <2>1, BeginOwn DEF RenewCall, Begin
  <2> QED
    BY <1>2, <2>2 DEF OwnInv, RenewInv, RenewCall
<1> QED
  BY <1>1, <1>2

LEMMA UnsubscribeOwn ==
  ASSUME Calm, BaseInv, OwnInv, NEW t \in AppThread, NEW c \in Call, NEW f, NEW S,
         S \subseteq Slot, UnsubscribeSlots(t, c, f, S)
  PROVE  OwnInv'
<1> USE SubscribeConstants DEF list, net
<1> DEFINE freed == {sub_handles[i] : i \in S}
<1>1. /\ t \in Thread /\ pc[t] = "idle" /\ Unused(c) /\ itr = 0
      /\ sub_handles' = [i \in Slot |-> IF i \in S THEN Null ELSE sub_handles[i]]
      /\ UNCHANGED <<list, renew, net>>
  BY DEF Thread, UnsubscribeSlots, Calm
<1>2. c \notin list_sub_wait_ack /\ ~InTransit(c) /\ \A i \in Slot : sub_handles[i] # c
  BY <1>1, UnusedCall
<1>3. RenewInv'
  BY <1>1 DEF RenewInv, renew, BaseInv, TableInv
<1>4. \A d \in freed : d # Null =>
          kind[d] = "SUBSCRIBE" /\ ret[d] = "accepted" /\ ~Waiting(d)
          /\ \A i \in Slot : sub_handles'[i] # d
  <2>1. ASSUME NEW j \in S, sub_handles[j] # Null
        PROVE  LET d == sub_handles[j] IN
               kind[d] = "SUBSCRIBE" /\ ret[d] = "accepted" /\ ~Waiting(d)
               /\ \A i \in Slot : sub_handles'[i] # d
    <3>1. j \in Slot
      OBVIOUS
    <3>2. \A i \in Slot : sub_handles[i] = sub_handles[j] => i = j
      BY <2>1, <3>1 DEF BaseInv, TableInv
    <3> QED
      BY <1>1, <2>1, <3>1, <3>2 DEF BaseInv, TableInv
  <2> QED
    BY <2>1
<1>5. /\ \A u \in Thread : cur[u] # Null => cur[u] \notin freed
      /\ \A d \in Call : Waiting(d) => d \notin freed
      /\ \A d \in Call : kind[d] = "none" => d \notin freed
      /\ \A i \in Slot : sub_handles'[i] # Null => sub_handles'[i] = sub_handles[i]
                                                   /\ sub_handles'[i] \notin freed
  <2>1. \A u \in Thread : cur[u] # Null => cur[u] \notin freed
    BY <1>4 DEF BaseInv, CallInv
  <2>2. \A d \in Call : Waiting(d) \/ kind[d] = "none" => d \notin freed
    BY <1>4
  <2>3. \A i \in Slot : sub_handles'[i] # Null => sub_handles'[i] = sub_handles[i]
                                                  /\ sub_handles'[i] \notin freed
    BY <1>1, <1>4
  <2> QED
    BY <2>1, <2>2, <2>3
<1>6. CASE is_connected
  <2>1. /\ kind' = [kind EXCEPT ![c] = "UNSUBSCRIBE"]
        /\ heap' = [d \in Call |-> IF d \in freed THEN "freed" ELSE IF d = c THEN "live" ELSE heap[d]]
        /\ cur' = [cur EXCEPT ![t] = c]
    BY <1>6 DEF UnsubscribeSlots
  <2>2. c \notin freed
    BY <1>1, <1>5 DEF Unused
  <2> HIDE DEF freed
  <2>3. UnsubInv'
    BY <1>1, <1>2, <2>1 DEF OwnInv, UnsubInv, InTransit, BaseInv, TypeInv
  <2>4. HeapInv'
    <3>1. \A d \in Call : d \notin freed => heap'[d] = IF d = c THEN "live" ELSE heap[d]
      BY <2>1
    <3>2. \A u \in Thread : cur'[u] # Null => heap'[cur'[u]] = "live"
      BY <1>1, <1>5, <2>1, <2>2, <3>1 DEF OwnInv, HeapInv, BaseInv, TypeInv
    <3>3. \A d \in Call : Waiting(d) => heap'[d] = "live"
      BY <1>5, <3>1 DEF OwnInv, HeapInv
    <3>4. \A d \in Call : kind'[d] = "none" => heap'[d] = "none"
      BY <1>5, <2>1, <3>1 DEF OwnInv, HeapInv, BaseInv, TypeInv
    <3>5. \A i \in Slot : sub_handles'[i] # Null => heap'[sub_handles'[i]] = "live"
      BY <1>5, <3>1 DEF OwnInv, HeapInv, BaseInv, TypeInv
    <3> QED
      BY <1>1, <3>2, <3>3, <3>4, <3>5 DEF HeapInv, Waiting
  <2> QED
    BY <1>3, <2>3, <2>4 DEF OwnInv
<1>7. CASE ~is_connected
  <2>1. /\ heap' = [d \in Call |-> IF d \in freed THEN "freed" ELSE heap[d]]
        /\ UNCHANGED <<kind, cur>>
    BY <1>7 DEF UnsubscribeSlots
  <2> HIDE DEF freed
  <2>2. UnsubInv'
    BY <1>1, <2>1 DEF OwnInv, UnsubInv, InTransit
  <2>3. HeapInv'
    <3>1. \A d \in Call : d \notin freed => heap'[d] = heap[d]
      BY <2>1
    <3> QED
      BY <1>1, <1>5, <2>1, <3>1 DEF OwnInv, HeapInv, BaseInv, TypeInv, Waiting
  <2> QED
    BY <1>3, <2>2, <2>3 DEF OwnInv
<1> QED
  BY <1>6, <1>7

LEMMA CallStepOwn ==
  ASSUME BaseInv, OwnInv, NEW t \in Thread, CallStep(t)
  PROVE  OwnInv'
<1> USE SubscribeConstants DEF net, list
<1>1. /\ pc[t] # "idle" /\ cur[t] \in Call /\ cur[t] # Null /\ ret[cur[t]] = "none"
      /\ kind[cur[t]] # "none" /\ cur[t] \notin timedout /\ heap[cur[t]] = "live"
      /\ pc[t] # "lock" => Waiting(cur[t])
      /\ pc[t] = "lock" => cur[t] \notin list_sub_wait_ack
  <2>1. pc[t] \in {"lock", "send", "undo"}
    BY DEF CallStep, Push, PushIf, Send, Undo
  <2> QED
    BY <2>1 DEF BaseInv, CallInv, TypeInv, OwnInv, HeapInv
<1>2. ~InTransit(cur[t]) /\ (\A i \in Slot : sub_handles[i] # cur[t])
  BY <1>1 DEF BaseInv, NetInv, TableInv
<1>3. UNCHANGED <<sub_handles, kind, rtopic, timedout>>
  BY DEF CallStep, Push, PushIf, Send, Undo
<1>4. RenewInv'
  BY <1>3 DEF OwnInv, RenewInv
<1>5. ASSUME NEW rc \in {"error", "accepted"}, Leave(t, rc)
      PROVE  \A u \in Thread : cur'[u] # Null => cur'[u] = cur[u] /\ cur[u] # cur[t] /\ cur[u] \in Call
  <2>1. /\ cur'[t] = Null
        /\ \A u \in Thread \ {t} : cur'[u] = cur[u] /\ cur[u] # cur[t]
    BY <1>1, <1>5, LeaveBase
  <2> QED
    BY <2>1 DEF BaseInv, TypeInv
<1>6. CASE Push(t)
  <2>1. UNCHANGED <<uplink, downlink>> /\ pc[t] = "lock"
    BY <1>6 DEF Push, PushIf
  <2>2. CASE /\ list_sub_wait_ack' = list_sub_wait_ack \cup {cur[t]}
             /\ node_state' = [node_state EXCEPT ![cur[t]] = "NORMAL"]
             /\ UNCHANGED <<heap, cur>>
    <3>1. UnsubInv'
      BY <1>3, <2>1, <2>2 DEF OwnInv, UnsubInv, InTransit
    <3>2. HeapInv'
      BY <1>1, <1>3, <2>2 DEF OwnInv, HeapInv, Waiting, BaseInv, TypeInv
    <3> QED
      BY <1>4, <3>1, <3>2 DEF OwnInv
  <2>3. CASE /\ heap' = [heap EXCEPT ![cur[t]] = "freed"] /\ Leave(t, "error")
             /\ UNCHANGED <<list_sub_wait_ack, node_state>>
    <3>1. UnsubInv'
      BY <1>3, <2>1, <2>3 DEF OwnInv, UnsubInv, InTransit
    <3>2. \A d \in Call \ {cur[t]} : heap'[d] = heap[d]
      BY <2>3 DEF BaseInv, TypeInv
    <3>3. \A u \in Thread : cur'[u] # Null => heap'[cur'[u]] = "live"
      BY <1>5, <2>3, <3>2 DEF OwnInv, HeapInv
    <3>4. \A i \in Slot : sub_handles[i] # Null => heap'[sub_handles[i]] = "live"
      BY <1>2, <3>2 DEF OwnInv, HeapInv, BaseInv, TypeInv
    <3>5. HeapInv'
      BY <1>1, <1>3, <2>1, <2>3, <3>2, <3>3, <3>4 DEF OwnInv, HeapInv, Waiting
    <3> QED
      BY <1>4, <3>1, <3>5 DEF OwnInv
  <2> QED
    BY <1>6, <2>2, <2>3 DEF Push, PushIf
<1>7. CASE Send(t)
  <2>1. UNCHANGED <<list, heap, downlink>> /\ pc[t] = "send"
    BY <1>7 DEF Send
  <2>2. CASE uplink' = Append(uplink, cur[t]) /\ Leave(t, "accepted")
    <3>1. \A d \in Call : InTransit(d)' <=> InTransit(d) \/ d = cur[t]
      <4>1. TypeInv /\ DistinctInv
        BY DEF BaseInv, NetInv
      <4> QED
        BY <1>1, <1>2, <2>1, <2>2, <4>1, SendNet
    <3>2. UnsubInv'
      <4>1. \A d \in Call : kind[d] = "UNSUBSCRIBE" /\ InTransit(d)' =>
                d \in list_sub_wait_ack /\ d \notin timedout
        BY <1>1, <2>1, <3>1 DEF OwnInv, UnsubInv, Waiting
      <4> QED
        BY <1>3, <2>1, <4>1 DEF UnsubInv
    <3>3. HeapInv'
      BY <1>3, <1>5, <2>1, <2>2 DEF OwnInv, HeapInv, Waiting
    <3> QED
      BY <1>4, <3>2, <3>3 DEF OwnInv
  <2>3. CASE UNCHANGED <<uplink, cur>>
    <3>1. UnsubInv' /\ HeapInv'
      BY <1>3, <2>1, <2>3 DEF OwnInv, UnsubInv, InTransit, HeapInv, Waiting
    <3> QED
      BY <1>4, <3>1 DEF OwnInv
  <2> QED
    BY <1>7, <2>2, <2>3 DEF Send
<1>8. CASE Undo(t)
  <2>1. /\ list_sub_wait_ack' = list_sub_wait_ack \ {cur[t]}
        /\ heap' = [heap EXCEPT ![cur[t]] = "freed"] /\ Leave(t, "error")
        /\ UNCHANGED <<uplink, downlink, node_state>>
    BY <1>8 DEF Undo
  <2>2. UnsubInv'
    BY <1>2, <1>3, <2>1 DEF OwnInv, UnsubInv, InTransit
  <2>3. \A d \in Call \ {cur[t]} : heap'[d] = heap[d]
    BY <2>1 DEF BaseInv, TypeInv
  <2>4. \A u \in Thread : cur'[u] # Null => heap'[cur'[u]] = "live"
    BY <1>5, <2>1, <2>3 DEF OwnInv, HeapInv
  <2>5. \A i \in Slot : sub_handles[i] # Null => heap'[sub_handles[i]] = "live"
    BY <1>2, <2>3 DEF OwnInv, HeapInv, BaseInv, TypeInv
  <2>6. HeapInv'
    BY <1>1, <1>3, <2>1, <2>3, <2>4, <2>5 DEF OwnInv, HeapInv, Waiting
  <2> QED
    BY <1>4, <2>2, <2>6 DEF OwnInv
<1> QED
  BY <1>6, <1>7, <1>8 DEF CallStep

LEMMA SubackOwn ==
  ASSUME BaseInv, OwnInv, HandleSuback
  PROVE  OwnInv'
<1> USE SubscribeConstants DEF calls
<1> DEFINE a == Head(downlink)
           c == a.call
           known == c \in list_sub_wait_ack
<1>1. /\ YieldFree /\ downlink # <<>> /\ kind[c] = "SUBSCRIBE"
      /\ downlink' = Tail(downlink) /\ Mask(c)
      /\ UNCHANGED <<list_sub_wait_ack, timedout, calls, itr, rtopic, uplink, ret>>
  BY DEF HandleSuback
<1>2. /\ c \in Call /\ \A d \in Call \ {c} : node_state'[d] = node_state[d]
      /\ known => node_state'[c] = "INVALID"
      /\ \A t \in Thread : cur[t] # c
      /\ known => Waiting(c)
      /\ rtopic = Null
  BY <1>1, AckBase
<1>3. \A d \in Call : InTransit(d)' <=> InTransit(d) /\ d # c
  BY <1>1, PopNet DEF BaseInv, NetInv
<1>4. \/ UNCHANGED <<sub_handles, heap>>
      \/ known /\ heap' = [heap EXCEPT ![c] = "freed"] /\ UNCHANGED sub_handles
      \/ known /\ sub_handles' = [sub_handles EXCEPT ![FirstFree] = c] /\ UNCHANGED heap
  BY DEF HandleSuback
<1> HIDE DEF a, c
<1>5. UnsubInv'
  BY <1>1, <1>3 DEF OwnInv, UnsubInv
<1>6. RenewInv'
  BY <1>1, <1>2 DEF RenewInv
<1>7. HeapInv'
  <2>1. \A i \in Slot : sub_handles[i] # Null => sub_handles[i] \in Call /\ (known => sub_handles[i] # c)
    BY <1>2 DEF BaseInv, TypeInv, TableInv
  <2>2. \A d \in Call : (d \in list_sub_wait_ack /\ node_state'[d] = "NORMAL") =>
                            Waiting(d) /\ (known => d # c)
    BY <1>2 DEF Waiting
  <2>3. \A t \in Thread : cur[t] # Null => cur[t] \in Call \ {c}
    BY <1>2 DEF BaseInv, TypeInv
  <2>4. /\ \A d \in Call \ {c} : heap'[d] = heap[d]
        /\ heap'[c] = heap[c] \/ known
    BY <1>4 DEF BaseInv, TypeInv
  <2>5. \A i \in Slot : sub_handles'[i] # Null => heap'[sub_handles'[i]] = "live"
    <3>1. CASE UNCHANGED sub_handles
      BY <2>1, <2>4, <3>1 DEF OwnInv, HeapInv
    <3>2. CASE known /\ sub_handles' = [sub_handles EXCEPT ![FirstFree] = c] /\ UNCHANGED heap
      <4>1. \A i \in Slot : sub_handles'[i] \in {sub_handles[i], c}
        BY <3>2 DEF BaseInv, TypeInv
      <4>2. heap[c] = "live"
        BY <1>2, <3>2 DEF OwnInv, HeapInv
      <4> QED
        BY <3>2, <4>1, <4>2 DEF OwnInv, HeapInv
    <3> QED
      BY <1>4, <3>1, <3>2
  <2>6. \A d \in Call : (d \in list_sub_wait_ack /\ node_state'[d] = "NORMAL") => heap'[d] = "live"
    BY <2>2, <2>4 DEF OwnInv, HeapInv
  <2>7. \A d \in Call : kind[d] = "none" => heap'[d] = "none"
    <3>1. kind[c] # "none"
      BY <1>1 DEF c, a
    <3> QED
      BY <2>4, <3>1 DEF OwnInv, HeapInv
  <2>8. \A t \in Thread : cur[t] # Null => heap'[cur[t]] = "live"
    BY <2>3, <2>4 DEF OwnInv, HeapInv
  <2> QED
    BY <1>1, <2>5, <2>6, <2>7, <2>8 DEF HeapInv, Waiting
<1> QED
  BY <1>5, <1>6, <1>7 DEF OwnInv

LEMMA UnsubackOwn ==
  ASSUME BaseInv, OwnInv, HandleUnsuback
  PROVE  OwnInv'
<1> USE SubscribeConstants DEF calls, client
<1> DEFINE c == Head(downlink).call
<1>1. /\ YieldFree /\ downlink # <<>> /\ kind[c] = "UNSUBSCRIBE"
      /\ downlink' = Tail(downlink) /\ Mask(c)
      /\ UNCHANGED <<client, list_sub_wait_ack, timedout, calls, itr, rtopic, uplink, ret>>
  BY DEF HandleUnsuback
<1>2. /\ c \in Call /\ InTransit(c) /\ \A d \in Call \ {c} : node_state'[d] = node_state[d]
      /\ c \in list_sub_wait_ack => node_state'[c] = "INVALID"
      /\ \A t \in Thread : cur[t] # c
      /\ rtopic = Null
  BY <1>1, AckBase
<1>3. \A d \in Call : InTransit(d)' <=> InTransit(d) /\ d # c
  BY <1>1, PopNet DEF BaseInv, NetInv
<1>4. c \in list_sub_wait_ack
  BY <1>1, <1>2 DEF OwnInv, UnsubInv
<1>5. heap' = [heap EXCEPT ![c] = "freed"]
  BY <1>4 DEF HandleUnsuback
<1> HIDE DEF c
<1>6. UnsubInv'
  BY <1>1, <1>3 DEF OwnInv, UnsubInv
<1>7. RenewInv'
  BY <1>1, <1>2 DEF RenewInv
<1>8. HeapInv'
  <2>1. \A i \in Slot : sub_handles[i] # Null => sub_handles[i] \in Call \ {c}
    BY <1>1 DEF BaseInv, TypeInv, TableInv
  <2>2. \A d \in Call : (d \in list_sub_wait_ack /\ node_state'[d] = "NORMAL") => Waiting(d) /\ d # c
    BY <1>2, <1>4 DEF Waiting
  <2>3. \A t \in Thread : cur[t] # Null => cur[t] \in Call \ {c}
    BY <1>2 DEF BaseInv, TypeInv
  <2>4. \A d \in Call \ {c} : heap'[d] = heap[d]
    BY <1>5 DEF BaseInv, TypeInv
  <2> QED
    BY <1>1, <2>1, <2>2, <2>3, <2>4 DEF OwnInv, HeapInv, Waiting
<1> QED
  BY <1>6, <1>7, <1>8 DEF OwnInv

LEMMA SweepOwn ==
  ASSUME BaseInv, OwnInv, Sweep
  PROVE  OwnInv'
<1> USE SubscribeConstants DEF client, calls, net
<1> DEFINE late == {c \in list_sub_wait_ack \cap timedout : node_state[c] = "NORMAL"}
           gone == late \cup {c \in list_sub_wait_ack : node_state[c] = "INVALID"}
<1>1. /\ YieldFree
      /\ list_sub_wait_ack' = list_sub_wait_ack \ gone /\ timedout' = timedout \ gone
      /\ heap' = [c \in Call |-> IF c \in late THEN "freed" ELSE heap[c]]
      /\ UNCHANGED <<client, node_state, calls, rtopic, net>>
  BY DEF Sweep, SweepNodes
<1>2. \A c \in late : Waiting(c) /\ ret[c] = "accepted" /\ kind[c] # "none"
  BY DEF BaseInv, TypeInv, ListInv, Waiting
<1>3. UnsubInv'
  <2>1. \A c \in Call : kind[c] = "UNSUBSCRIBE" /\ InTransit(c) =>
            c \in list_sub_wait_ack /\ c \notin timedout /\ c \notin gone
    BY DEF OwnInv, UnsubInv, BaseInv, NetInv
  <2> HIDE DEF gone
  <2> QED
    BY <1>1, <2>1 DEF UnsubInv, InTransit
<1>4. RenewInv'
  BY <1>1 DEF OwnInv, RenewInv
<1>5. HeapInv'
  <2>1. \A d \in Call : d \notin late => heap'[d] = heap[d]
    BY <1>1
  <2>2. \A i \in Slot : sub_handles[i] # Null => sub_handles[i] \in Call /\ sub_handles[i] \notin late
    <3> HIDE DEF late
    <3> QED
      BY <1>2 DEF BaseInv, TypeInv, TableInv
  <2>3. \A t \in Thread : cur[t] # Null => cur[t] \in Call /\ cur[t] \notin late
    <3> HIDE DEF late
    <3> QED
      BY <1>2 DEF BaseInv, TypeInv, CallInv
  <2>4. \A d \in list_sub_wait_ack' : d \in list_sub_wait_ack /\ d \notin late
    BY <1>1
  <2> HIDE DEF late, gone
  <2> QED
    BY <1>1, <1>2, <2>1, <2>2, <2>3, <2>4 DEF OwnInv, HeapInv, Waiting
<1> QED
  BY <1>3, <1>4, <1>5 DEF OwnInv

LEMMA RestOwn ==
  ASSUME Calm, BaseInv, OwnInv,
         \/ RenewNext \/ RenewNoConn \/ ConnectionLost \/ Reconnected \/ Broker
         \/ UNCHANGED vars \/ \E c \in Call : TimerExpires(c)
  PROVE  OwnInv'
<1> USE SubscribeConstants DEF client, calls, list, vars
<1>1. UNCHANGED <<sub_handles, list_sub_wait_ack, node_state, heap, calls>>
  BY DEF RenewNext, RenewNoConn, ConnectionLost, Reconnected, Broker, TimerExpires
<1>2. HeapInv'
  BY <1>1 DEF OwnInv, HeapInv, Waiting
<1>3. RenewInv'
  <2>1. CASE RenewNext
    <3>1. itr # 0 => itr \in Slot
      BY DEF BaseInv, TypeInv, Slot
    <3> QED
      BY <1>1, <2>1, <3>1 DEF OwnInv, RenewInv, RenewNext
  <2>2. CASE RenewNoConn
    BY <2>2 DEF RenewInv, RenewNoConn
  <2>3. CASE UNCHANGED rtopic
    BY <1>1, <2>3 DEF OwnInv, RenewInv
  <2> QED
    BY <2>1, <2>2, <2>3 DEF ConnectionLost, Reconnected, Broker, TimerExpires, renew
<1>4. UnsubInv'
  <2>1. ASSUME NEW c \in Call, TimerExpires(c) PROVE UnsubInv'
    <3>1. kind[c] = "UNSUBSCRIBE" => ~InTransit(c)
      BY <2>1 DEF TimerExpires, Calm
    <3>2. timedout' = timedout \cup {c} /\ UNCHANGED <<uplink, downlink>>
      BY <2>1 DEF TimerExpires, net
    <3> QED
      BY <1>1, <3>1, <3>2 DEF OwnInv, UnsubInv, InTransit
  <2>2. CASE Broker
    <3>1. \A d \in Call : InTransit(d)' <=> InTransit(d)
      BY <2>2, BrokerBase
    <3>2. UNCHANGED timedout
      BY <2>2 DEF Broker
    <3> QED
      BY <1>1, <3>1, <3>2 DEF OwnInv, UnsubInv
  <2>3. CASE ConnectionLost
    BY <1>1, <2>3 DEF OwnInv, UnsubInv, InTransit, ConnectionLost
  <2>4. CASE UNCHANGED <<timedout, uplink, downlink>>
    BY <1>1, <2>4 DEF OwnInv, UnsubInv, InTransit
  <2> QED
    BY <2>1, <2>2, <2>3, <2>4 DEF RenewNext, RenewNoConn, Reconnected, net
<1> QED
  BY <1>2, <1>3, <1>4 DEF OwnInv

LEMMA OwnStep ==
  ASSUME Calm, BaseInv, OwnInv, [Next]_vars
  PROVE  OwnInv'
<1>1. CASE \E t \in AppThread, c \in Call :
             (\E h \in Handle : Subscribe(t, c, h)) \/ (\E f \in Topic : Unsubscribe(t, c, f))
  <2>1. ASSUME NEW t \in AppThread, NEW c \in Call, NEW f \in Topic, Unsubscribe(t, c, f) PROVE OwnInv'
    <3>1. (IF f \in Wildcard THEN Slot ELSE SlotsOf(f)) \subseteq Slot
      BY DEF SlotsOf
    <3> QED
      BY <2>1, <3>1, UnsubscribeOwn DEF Unsubscribe
  <2> QED
    BY <1>1, <2>1, BeginStepOwn
<1>2. CASE \E t \in Thread : CallStep(t)
  BY <1>2, CallStepOwn
<1>3. CASE YieldStep
  BY <1>3, SubackOwn, UnsubackOwn, SweepOwn, RestOwn, BeginStepOwn DEF YieldStep
<1> QED
  BY <1>1, <1>2, <1>3, RestOwn DEF Next

(* The owners of a copy, one kind after the other.                         *)
LEMMA OwnersAre ==
  ASSUME BaseInv, NEW c \in Call, NEW x
  PROVE  x \in Owners(c) <=>
            \/ \E t \in Thread : cur[t] = c /\ pc[t] \in {"lock", "undo"} /\ x = <<"call", t>>
            \/ Waiting(c) /\ (\A t \in Thread : cur[t] = c => pc[t] # "undo") /\ x = <<"node", c>>
            \/ \E i \in Slot : sub_handles[i] = c /\ x = <<"slot", i>>
<1> DEFINE A == {<<"call", t>> : t \in {t \in Thread : cur[t] = c /\ pc[t] \in {"lock", "undo"}}}
           B == {<<"node", n>> : n \in {n \in list_sub_wait_ack \cap {c} :
                                   node_state[n] = "NORMAL" /\ \A t \in Thread :
                                       cur[t] = n => pc[t] # "undo"}}
           C == {<<"slot", i>> : i \in {i \in Slot : sub_handles[i] = c}}
<1>1. x \in A <=> \E t \in Thread : cur[t] = c /\ pc[t] \in {"lock", "undo"} /\ x = <<"call", t>>
  BY Zenon
<1>2. x \in B <=> Waiting(c) /\ (\A t \in Thread : cur[t] = c => pc[t] # "undo") /\ x = <<"node", c>>
  BY Zenon DEF Waiting
<1>3. x \in C <=> \E i \in Slot : sub_handles[i] = c /\ x = <<"slot", i>>
  BY Zenon
<1>4. Owners(c) = A \cup B \cup C
  BY Zenon DEF Owners
<1> HIDE DEF A, B, C
<1> QED
  BY <1>1, <1>2, <1>3, <1>4

(* No copy has two owners: a call in progress is neither settled nor in    *)
(* the table, and its node counts as soon as the call gave it up.          *)
LEMMA OneOwner ==
  ASSUME BaseInv, NEW c \in Call
  PROVE  \A x, y \in Owners(c) : x = y
<1> USE SubscribeConstants
<1>1. ASSUME NEW t \in Thread, cur[t] = c
      PROVE  /\ (\A u \in Thread : cur[u] = c => u = t) /\ (\A i \in Slot : sub_handles[i] # c)
             /\ pc[t] = "lock" => ~Waiting(c)
  BY <1>1 DEF BaseInv, CallInv, TableInv, Waiting
<1>2. \A i, j \in Slot : sub_handles[i] = c /\ sub_handles[j] = c => i = j
  BY DEF BaseInv, TableInv
<1>3. \A i \in Slot : sub_handles[i] = c => ~Waiting(c)
  BY DEF BaseInv, TableInv
<1> SUFFICES ASSUME NEW x \in Owners(c), NEW y \in Owners(c) PROVE x = y
  OBVIOUS
<1>4. CASE \E t \in Thread : cur[t] = c /\ pc[t] \in {"lock", "undo"} /\ x = <<"call", t>>
  <2>1. PICK t \in Thread : cur[t] = c /\ pc[t] \in {"lock", "undo"} /\ x = <<"call", t>>
    BY <1>4
  <2>2. \E u \in Thread : cur[u] = c /\ y = <<"call", u>>
    BY <1>1, <2>1, OwnersAre
  <2> QED
    BY <1>1, <2>1, <2>2
<1>5. CASE Waiting(c) /\ (\A t \in Thread : cur[t] = c => pc[t] # "undo") /\ x = <<"node", c>>
  <2>1. ~\E u \in Thread : cur[u] = c /\ pc[u] \in {"lock", "undo"}
    BY <1>1, <1>5
  <2> QED
    BY <1>3, <1>5, <2>1, OwnersAre
<1>6. CASE \E i \in Slot : sub_handles[i] = c /\ x = <<"slot", i>>
  <2>1. PICK i \in Slot : sub_handles[i] = c /\ x = <<"slot", i>>
    BY <1>6
  <2>2. \A u \in Thread : cur[u] # c
    BY <1>1, <2>1
  <2>3. \E j \in Slot : sub_handles[j] = c /\ y = <<"slot", j>>
    BY <1>3, <2>1, <2>2, OwnersAre
  <2> QED
    BY <1>2, <2>1, <2>3
<1> QED
  BY <1>4, <1>5, <1>6, OwnersAre

LEMMA OwnInit == Init => OwnInv
<1> SUFFICES ASSUME Init PROVE OwnInv
  OBVIOUS
<1>1. UnsubInv /\ RenewInv
  BY DEF Init, UnsubInv, RenewInv
<1>2. HeapInv
  BY DEF Init, HeapInv, Waiting
<1> QED
  BY <1>1, <1>2 DEF OwnInv

(* "Topic filter should be valid in the whole sub life": whoever holds a   *)
(* topic copy - the call, its list node, the table, the renewal - finds it *)
(* unfreed, and exactly one of them will free it, for any number of calls, *)
(* threads, topics and table entries, with failing writes, time-outs, lost *)
(* connections and refused renewals.  The three circumstances excluded are *)
(* those under which the code does lose the property (README).             *)
THEOREM TopicsValid ==
  ASSUME Calm
  PROVE  Spec => []TopicFilterValid
<1>1. BaseInv /\ OwnInv => TopicFilterValid
  <2> SUFFICES ASSUME BaseInv, OwnInv PROVE TopicFilterValid
    OBVIOUS
  <2>1. ASSUME NEW c \in Call, Owners(c) # {}
        PROVE  heap[c] = "live" /\ Cardinality(Owners(c)) = 1
    <3>1. PICK x : x \in Owners(c)
      BY <2>1
    <3>2. Owners(c) = {x}
      BY <3>1, OneOwner
    <3>3. Cardinality(Owners(c)) = 1
      BY <3>2, FS_Singleton
    <3>4. (\E t \in Thread : cur[t] = c) \/ Waiting(c) \/ \E i \in Slot : sub_handles[i] = c
      BY <3>1, OwnersAre
    <3>5. heap[c] = "live"
      BY <3>4, SubscribeConstants DEF OwnInv, HeapInv
    <3> QED
      BY <3>3, <3>5
  <2>2. rtopic # Null => heap[rtopic] = "live"
    BY DEF OwnInv, HeapInv, RenewInv
  <2> QED
    BY <2>1, <2>2 DEF TopicFilterValid
<1>2. BaseInv /\ OwnInv /\ [Next]_vars => BaseInv' /\ OwnInv'
  BY BaseStep, OwnStep DEF Calm, Prompt
<1>3. Init => BaseInv /\ OwnInv
  BY BaseInit, OwnInit
<1> QED
  BY <1>1, <1>2, <1>3, PTL DEF Spec

-----------------------------------------------------------------------------
(***************************************************************************)
(* The first free table entry, and room in the table.                      *)
(***************************************************************************)
LEMMA LeastOf ==
  ASSUME NEW S \in SUBSET Nat, S # {}
  PROVE  \E m \in S : \A k \in S : m <= k
<1> DEFINE R == {p \in Nat \X Nat : p[1] < p[2]}
<1>1. IsWellFoundedOn(R, Nat)
  BY NatLessThanWellFounded, Zenon DEF OpToRel
<1> HIDE DEF R
<1>2. \E m \in S : \A k \in S : <<k, m>> \notin R
  BY <1>1, WFMin
<1>3. \A m, k \in Nat : k < m => <<k, m>> \in R
  BY DEF R
<1>4. \A m, k \in Nat : ~(k < m) => m <= k
  OBVIOUS
<1> QED
  BY <1>2, <1>3, <1>4

LEMMA FirstFreeIsFree ==
  ASSUME FreeSlots # {}
  PROVE  FirstFree \in Slot /\ sub_handles[FirstFree] = Null
<1>1. FreeSlots \in SUBSET Nat
  BY DEF FreeSlots, Slot
<1>2. \E m \in FreeSlots : \A k \in FreeSlots : m <= k
  BY <1>1, LeastOf
<1>3. FirstFree \in FreeSlots
  BY <1>2, Zenon DEF FirstFree
<1> QED
  BY <1>3 DEF FreeSlots

(* Subscribe calls carry handles.                                          *)
ArgInv == \A c \in Call : kind[c] = "SUBSCRIBE" => arg[c] \in Handle

LEMMA ArgStep ==
  ASSUME BaseInv, ArgInv, [Next]_vars
  PROVE  ArgInv'
<1> USE SubscribeConstants
<1>1. ASSUME NEW c \in Call, NEW k, NEW h,
             kind' = [kind EXCEPT ![c] = k], arg' = [arg EXCEPT ![c] = h],
             h \in Handle \/ k # "SUBSCRIBE"
      PROVE  ArgInv'
  BY <1>1 DEF ArgInv, BaseInv, TypeInv
<1>2. ASSUME UNCHANGED <<kind, arg>> PROVE ArgInv'
  BY <1>2 DEF ArgInv
<1>3. CASE \E t \in AppThread, c \in Call :
             (\E h \in Handle : Subscribe(t, c, h)) \/ (\E f \in Topic : Unsubscribe(t, c, f))
  <2>1. ASSUME NEW t \in AppThread, NEW c \in Call, NEW h \in Handle, Subscribe(t, c, h) PROVE ArgInv'
    BY <1>1, <2>1 DEF Subscribe, Begin
  <2>2. ASSUME NEW t \in AppThread, NEW c \in Call, NEW f \in Topic, Unsubscribe(t, c, f) PROVE ArgInv'
    <3>1. \/ UNCHANGED <<kind, arg>>
          \/ kind' = [kind EXCEPT ![c] = "UNSUBSCRIBE"] /\ \E h : arg' = [arg EXCEPT ![c] = h]
      BY <2>2 DEF Unsubscribe, UnsubscribeSlots
    <3> QED
      BY <1>1, <1>2, <3>1
  <2> QED
    BY <1>3, <2>1, <2>2
<1>4. ASSUME NEW c \in Call, RenewCall(c) PROVE ArgInv'
  <2>1. arg[rtopic] \in Handle
    BY <1>4 DEF RenewCall, BaseInv, TypeInv, TableInv, ArgInv
  <2> QED
    BY <1>1, <1>4, <2>1 DEF RenewCall, Begin
<1>5. CASE \E t \in Thread : CallStep(t)
  BY <1>2, <1>5 DEF CallStep, Push, PushIf, Send, Undo
<1>6. CASE HandleSuback \/ HandleUnsuback \/ Sweep \/ RenewNext \/ RenewNoConn
  BY <1>2, <1>6 DEF HandleSuback, HandleUnsuback, Sweep, SweepNodes, RenewNext, RenewNoConn, calls
<1>7. CASE (\E c \in Call : TimerExpires(c)) \/ ConnectionLost \/ Reconnected \/ Broker
  BY <1>2, <1>7 DEF TimerExpires, ConnectionLost, Reconnected, Broker, calls
<1>8. CASE UNCHANGED vars
  BY <1>2, <1>8 DEF vars, calls
<1> QED
  BY <1>3, <1>4, <1>5, <1>6, <1>7, <1>8 DEF Next, YieldStep

(* With no more handles than entries, a handle the table does not have     *)
(* finds a free entry.                                                     *)
HandlesFit == IsFiniteSet(Handle) /\ Cardinality(Handle) <= MAX_MESSAGE_HANDLERS

LEMMA RoomForNew ==
  ASSUME HandlesFit, BaseInv, ArgInv, NEW c \in Call, kind[c] = "SUBSCRIBE", IdenticalIn(c) = {}
  PROVE  FreeSlots # {}
<1> USE SubscribeConstants
<1> SUFFICES ASSUME FreeSlots = {} PROVE FALSE
  OBVIOUS
<1> DEFINE T == Handle \ {arg[c]}
           f == [i \in Slot |-> arg[sub_handles[i]]]
<1>1. arg[c] \in Handle
  BY DEF ArgInv
<1>2. \A i \in Slot : sub_handles[i] # Null
  BY DEF FreeSlots
<1>3. f \in [Slot -> T]
  <2>1. \A i \in Slot : arg[sub_handles[i]] \in Handle /\ arg[sub_handles[i]] # arg[c]
    BY <1>2 DEF BaseInv, TypeInv, TableInv, ArgInv, IdenticalIn
  <2> QED
    BY <2>1
<1>4. \A i, j \in Slot : f[i] = f[j] => i = j
  BY <1>2 DEF BaseInv, TableInv
<1>5. IsFiniteSet(T) /\ Cardinality(T) = Cardinality(Handle) - 1
  BY <1>1, FS_RemoveElement DEF HandlesFit
<1>6. IsFiniteSet(Slot) /\ Cardinality(Slot) = MAX_MESSAGE_HANDLERS
  BY FS_Interval DEF Slot
<1>7. Cardinality(T) < Cardinality(Slot)
  <2>1. Cardinality(Handle) \in Nat
    BY FS_CardinalityType DEF HandlesFit
  <2> HIDE DEF T
  <2> QED
    BY <1>5, <1>6, <2>1 DEF HandlesFit
<1> HIDE DEF T, f
<1>8. \E x, y \in Slot : x # y /\ f[x] = f[y]
  BY <1>3, <1>5, <1>6, <1>7, FS_PigeonHole
<1> QED
  BY <1>4, <1>8

-----------------------------------------------------------------------------
(***************************************************************************)
(* No copy is lost.                                                        *)
(***************************************************************************)
Held(c) ==
    \/ \E t \in Thread : cur[t] = c
    \/ Waiting(c)
    \/ \E i \in Slot : sub_handles[i] = c

LeakInv == \A c \in Call : heap[c] = "live" => Held(c)

LEMMA BeginLeak ==
  ASSUME BaseInv, LeakInv, NEW c \in Call,
         \/ \E t \in AppThread, h \in Handle : Subscribe(t, c, h)
         \/ \E t \in AppThread, f \in Topic : Unsubscribe(t, c, f)
         \/ RenewCall(c)
  PROVE  LeakInv'
<1> USE SubscribeConstants DEF list
<1>1. /\ \A d \in Call \ {c} : heap'[d] = "live" =>
            /\ heap[d] = "live"
            /\ \A i \in Slot : sub_handles[i] = d => sub_handles'[i] = d
      /\ UNCHANGED list
      /\ \/ \E t \in Thread : pc[t] = "idle" /\ cur' = [cur EXCEPT ![t] = c]
         \/ /\ UNCHANGED cur
            /\ heap'[c] = "live" =>
                  heap[c] = "live" /\ \A i \in Slot : sub_handles[i] = c => sub_handles'[i] = c
  <2>1. ASSUME NEW t \in AppThread, NEW h \in Handle, Subscribe(t, c, h) PROVE <1>1!:
    BY <2>1 DEF Subscribe, Begin, client, BaseInv, TypeInv, Thread
  <2>2. CASE RenewCall(c)
    <3>1. YieldThread \in Thread /\ pc[YieldThread] = "idle"
      BY <2>2 DEF Thread, BaseInv, TableInv, RenewCall
    <3> QED
      BY <2>2, <3>1 DEF RenewCall, Begin, client, BaseInv, TypeInv
  <2>3. ASSUME NEW t \in AppThread, NEW f \in Topic, Unsubscribe(t, c, f) PROVE <1>1!:
    <3> DEFINE S == IF f \in Wildcard THEN Slot ELSE SlotsOf(f)
               freed == {sub_handles[i] : i \in S}
    <3>1. UnsubscribeSlots(t, c, f, S)
      BY <2>3 DEF Unsubscribe
    <3> HIDE DEF S
    <3>2. /\ sub_handles' = [i \in Slot |-> IF i \in S THEN Null ELSE sub_handles[i]]
          /\ UNCHANGED list /\ pc[t] = "idle" /\ t \in Thread
      BY <3>1 DEF UnsubscribeSlots, Thread
    <3>3. \A d \in Call \ freed : \A i \in Slot : sub_handles[i] = d => sub_handles'[i] = d
      BY <3>2
    <3>4. \/ heap' = [d \in Call |-> IF d \in freed THEN "freed" ELSE IF d = c THEN "live" ELSE heap[d]]
             /\ cur' = [cur EXCEPT ![t] = c]
          \/ heap' = [d \in Call |-> IF d \in freed THEN "freed" ELSE heap[d]]
             /\ UNCHANGED cur
      BY <3>1 DEF UnsubscribeSlots
    <3> HIDE DEF freed
    <3>5. \A d \in Call : heap'[d] = "live" => d \notin freed /\ (heap[d] = "live" \/ d = c)
      BY <3>4
    <3>6. UNCHANGED cur => \A d \in Call : heap'[d] = "live" => heap[d] = "live"
      <4>1. CASE UNCHANGED cur /\ cur' = [cur EXCEPT ![t] = c]
        <5>1. cur[t] = c
          BY <3>2, <4>1 DEF BaseInv, TypeInv
        <5> QED
          BY <3>2, <5>1 DEF BaseInv, CallInv
      <4> QED
        BY <3>4, <4>1
    <3> QED
      BY <3>2, <3>3, <3>4, <3>5, <3>6
  <2> QED
    BY <2>1, <2>2, <2>3
<1>2. ASSUME NEW d \in Call \ {c}, heap'[d] = "live" PROVE Held(d)'
  <2>1. Held(d)
    BY <1>1, <1>2 DEF LeakInv
  <2>2. \A u \in Thread : cur[u] = d => cur'[u] = d
    BY <1>1 DEF BaseInv, TypeInv, CallInv
  <2> QED
    BY <1>1, <1>2, <2>1, <2>2 DEF Held, Waiting
<1>3. ASSUME heap'[c] = "live" PROVE Held(c)'
  <2>1. CASE \E t \in Thread : cur' = [cur EXCEPT ![t] = c]
    BY <2>1 DEF Held, BaseInv, TypeInv
  <2>2. CASE UNCHANGED cur /\ heap[c] = "live" /\ \A i \in Slot : sub_handles[i] = c => sub_handles'[i] = c
    BY <1>1, <2>2 DEF LeakInv, Held, Waiting
  <2> QED
    BY <1>1, <1>3, <2>1, <2>2
<1> QED
  BY <1>2, <1>3 DEF LeakInv

LEMMA CallStepLeak ==
  ASSUME BaseInv, LeakInv, NEW t \in Thread, CallStep(t)
  PROVE  LeakInv'
<1> USE SubscribeConstants DEF list
<1>1. /\ pc[t] # "idle" /\ cur[t] \in Call
      /\ pc[t] \in {"send", "undo"} => Waiting(cur[t])
      /\ UNCHANGED sub_handles
  <2>1. pc[t] \in {"lock", "send", "undo"} /\ UNCHANGED sub_handles
    BY DEF CallStep, Push, PushIf, Send, Undo
  <2> QED
    BY <2>1 DEF BaseInv, CallInv, TypeInv
<1>2. /\ \A d \in Call : heap'[d] = "live" => heap[d] = "live"
      /\ \A u \in Thread \ {t} : cur'[u] = cur[u]
      /\ \A d \in Call \ {cur[t]} : Waiting(d) => d \in list_sub_wait_ack' /\ node_state'[d] = "NORMAL"
      /\ heap'[cur[t]] = "live" => cur[t] \in list_sub_wait_ack' /\ node_state'[cur[t]] = "NORMAL"
  <2>1. CASE Push(t)
    <3>1. CASE /\ list_sub_wait_ack' = list_sub_wait_ack \cup {cur[t]}
               /\ node_state' = [node_state EXCEPT ![cur[t]] = "NORMAL"]
               /\ UNCHANGED <<heap, cur>>
      BY <1>1, <3>1 DEF Waiting, BaseInv, TypeInv
    <3>2. CASE /\ heap' = [heap EXCEPT ![cur[t]] = "freed"] /\ Leave(t, "error")
               /\ UNCHANGED <<list_sub_wait_ack, node_state>>
      BY <1>1, <3>2 DEF Waiting, Leave, BaseInv, TypeInv
    <3> QED
      BY <2>1, <3>1, <3>2 DEF Push, PushIf
  <2>2. CASE Send(t)
    BY <1>1, <2>2 DEF Send, Waiting, Leave, BaseInv, TypeInv
  <2>3. CASE Undo(t)
    BY <1>1, <2>3 DEF Undo, Waiting, Leave, BaseInv, TypeInv
  <2> QED
    BY <2>1, <2>2, <2>3 DEF CallStep
<1>3. ASSUME NEW d \in Call, heap'[d] = "live" PROVE Held(d)'
  <2>1. CASE d = cur[t]
    BY <1>2, <1>3, <2>1 DEF Held, Waiting
  <2>2. CASE d # cur[t]
    BY <1>1, <1>2, <1>3, <2>2 DEF LeakInv, Held, Waiting
  <2> QED
    BY <2>1, <2>2
<1> QED
  BY <1>3 DEF LeakInv

LEMMA SubackLeak ==
  ASSUME HandlesFit, BaseInv, ArgInv, LeakInv, HandleSuback
  PROVE  LeakInv'
<1> USE SubscribeConstants DEF calls
<1> DEFINE a == Head(downlink)
           c == a.call
           known == c \in list_sub_wait_ack
<1>1. /\ YieldFree /\ downlink # <<>> /\ kind[c] = "SUBSCRIBE"
      /\ downlink' = Tail(downlink) /\ Mask(c)
      /\ UNCHANGED <<list_sub_wait_ack, timedout, calls, itr, rtopic, uplink, ret>>
  BY DEF HandleSuback
<1>2. /\ c \in Call /\ \A d \in Call \ {c} : node_state'[d] = node_state[d]
  BY <1>1, AckBase
<1>3. \/ ~known /\ UNCHANGED <<sub_handles, heap>>
      \/ known /\ heap' = [heap EXCEPT ![c] = "freed"] /\ UNCHANGED sub_handles
      \/ known /\ FreeSlots # {} /\ sub_handles' = [sub_handles EXCEPT ![FirstFree] = c]
         /\ UNCHANGED heap
  <2>1. IdenticalIn(c) = {} => FreeSlots # {}
    BY <1>1, <1>2, RoomForNew
  <2> QED
    BY <2>1 DEF HandleSuback
<1> HIDE DEF a, c
<1>4. \A d \in Call \ {c} : /\ heap'[d] = heap[d]
                            /\ \A i \in Slot : sub_handles[i] = d => sub_handles'[i] = d
  <2>1. CASE UNCHANGED sub_handles
    BY <1>3, <2>1 DEF BaseInv, TypeInv
  <2>2. CASE FreeSlots # {} /\ sub_handles' = [sub_handles EXCEPT ![FirstFree] = c] /\ UNCHANGED heap
    BY <2>2, FirstFreeIsFree DEF BaseInv, TypeInv
  <2> QED
    BY <1>3, <2>1, <2>2
<1>5. ASSUME NEW d \in Call \ {c}, heap'[d] = "live" PROVE Held(d)'
  BY <1>1, <1>2, <1>4, <1>5 DEF LeakInv, Held, Waiting
<1>6. ASSUME NEW d \in Call, d = c, heap'[d] = "live" PROVE Held(d)'
  <2>1. CASE ~known /\ UNCHANGED <<sub_handles, heap>>
    BY <1>1, <1>6, <2>1 DEF LeakInv, Held, Waiting
  <2>2. CASE known /\ heap' = [heap EXCEPT ![c] = "freed"]
    BY <1>2, <1>6, <2>2 DEF BaseInv, TypeInv
  <2>3. CASE FreeSlots # {} /\ sub_handles' = [sub_handles EXCEPT ![FirstFree] = c]
    <3>1. FirstFree \in Slot /\ sub_handles'[FirstFree] = d
      BY <1>6, <2>3, FirstFreeIsFree DEF BaseInv, TypeInv
    <3> QED
      BY <3>1 DEF Held
  <2> QED
    BY <1>3, <2>1, <2>2, <2>3
<1> QED
  BY <1>2, <1>5, <1>6 DEF LeakInv

LEMMA LeakStep ==
  ASSUME HandlesFit, BaseInv, ArgInv, LeakInv, [Next]_vars
  PROVE  LeakInv'
<1> USE SubscribeConstants DEF calls, client, list, vars
<1>1. CASE \E t \in AppThread, c \in Call :
             (\E h \in Handle : Subscribe(t, c, h)) \/ (\E f \in Topic : Unsubscribe(t, c, f))
  BY <1>1, BeginLeak
<1>2. CASE \E t \in Thread : CallStep(t)
  BY <1>2, CallStepLeak
<1>3. CASE \E c \in Call : RenewCall(c)
  BY <1>3, BeginLeak
<1>4. CASE HandleUnsuback
  <2> DEFINE c == Head(downlink).call
  <2>1. /\ YieldFree /\ downlink # <<>> /\ downlink' = Tail(downlink) /\ Mask(c)
        /\ UNCHANGED <<client, list_sub_wait_ack, timedout, calls, itr, rtopic, uplink, ret>>
    BY <1>4 DEF HandleUnsuback
  <2>2. c \in Call /\ \A d \in Call \ {c} : node_state'[d] = node_state[d]
    BY <2>1, AckBase
  <2>3. /\ \A d \in Call : heap'[d] = "live" => heap[d] = "live"
        /\ heap'[c] = "live" => c \notin list_sub_wait_ack
    <3>1. CASE c \in list_sub_wait_ack /\ heap' = [heap EXCEPT ![c] = "freed"]
      BY <2>2, <3>1 DEF BaseInv, TypeInv
    <3>2. ASSUME NEW G, heap' = [d \in Call |-> IF d \in G THEN "freed" ELSE heap[d]]
          PROVE  \A d \in Call : heap'[d] = "live" => heap[d] = "live"
      BY <3>2
    <3> QED
      BY <1>4, <3>1, <3>2 DEF HandleUnsuback
  <2> HIDE DEF c
  <2> QED
    BY <2>1, <2>2, <2>3 DEF LeakInv, Held, Waiting
<1>5. CASE Sweep
  <2> DEFINE late == {c \in list_sub_wait_ack \cap timedout : node_state[c] = "NORMAL"}
             gone == late \cup {c \in list_sub_wait_ack : node_state[c] = "INVALID"}
  <2>1. /\ list_sub_wait_ack' = list_sub_wait_ack \ gone
        /\ heap' = [c \in Call |-> IF c \in late THEN "freed" ELSE heap[c]]
        /\ UNCHANGED <<client, node_state, calls>>
    BY <1>5 DEF Sweep, SweepNodes
  <2>2. \A d \in Call : heap'[d] = "live" => heap[d] = "live" /\ (Waiting(d) => d \in list_sub_wait_ack')
    BY <2>1 DEF Waiting
  <2> HIDE DEF late, gone
  <2> QED
    BY <2>1, <2>2 DEF LeakInv, Held, Waiting
<1>6. CASE \/ RenewNext \/ RenewNoConn \/ ConnectionLost \/ Reconnected \/ Broker
           \/ UNCHANGED vars \/ \E c \in Call : TimerExpires(c)
  <2>1. UNCHANGED <<sub_handles, list_sub_wait_ack, node_state, heap, cur>>
    BY <1>6 DEF RenewNext, RenewNoConn, ConnectionLost, Reconnected, Broker, TimerExpires
  <2> QED
    BY <2>1 DEF LeakInv, Held, Waiting
<1> QED
  BY <1>1, <1>2, <1>3, <1>4, <1>5, <1>6, SubackLeak DEF Next, YieldStep

(* Every topic copy that is not freed has an owner that will free it, with *)
(* failing writes, refusals, late UNSUBACKs and unsubscriptions at any     *)
(* moment, provided the application uses no more different handles than    *)
(* the table has entries (with more, _handle_suback_packet drops the copy  *)
(* of a grant it has no entry for) and calls are over when their timers    *)
(* run out.                                                                *)
THEOREM NoLeak ==
  ASSUME HandlesFit, Prompt
  PROVE  Spec => []NoTopicLeak
<1>1. Init => BaseInv /\ ArgInv /\ LeakInv
  <2>1. Init => ArgInv /\ LeakInv
    BY DEF Init, ArgInv, LeakInv
  <2> QED
    BY <2>1, BaseInit
<1>2. BaseInv /\ ArgInv /\ LeakInv /\ [Next]_vars => BaseInv' /\ ArgInv' /\ LeakInv'
  BY BaseStep, ArgStep, LeakStep
<1>3. BaseInv /\ LeakInv => NoTopicLeak
  <2>1. ASSUME BaseInv, LeakInv, NEW c \in Call, heap[c] = "live" PROVE Owners(c) # {}
    <3>1. Held(c)
      BY <2>1 DEF LeakInv
    <3>2. CASE \E i \in Slot : sub_handles[i] = c
      BY <2>1, <3>2, OwnersAre
    <3>3. CASE \E t \in Thread : cur[t] = c
      <4>1. PICK t \in Thread : cur[t] = c
        BY <3>3
      <4>2. pc[t] \in {"lock", "undo"} \/ (pc[t] = "send" /\ Waiting(c))
        BY <2>1, <4>1, SubscribeConstants DEF BaseInv, TypeInv, CallInv
      <4>3. CASE pc[t] \in {"lock", "undo"}
        BY <2>1, <4>1, <4>3, OwnersAre
      <4>4. CASE pc[t] = "send" /\ Waiting(c)
        <5>1. \A u \in Thread : cur[u] = c => u = t
          BY <2>1, <4>1, SubscribeConstants DEF BaseInv, CallInv
        <5> QED
          BY <2>1, <4>4, <5>1, OwnersAre
      <4> QED
        BY <4>2, <4>3, <4>4
    <3>4. CASE Waiting(c) /\ ~\E t \in Thread : cur[t] = c
      BY <2>1, <3>4, OwnersAre
    <3> QED
      BY <3>1, <3>2, <3>3, <3>4 DEF Held
  <2> QED
    BY <2>1 DEF NoTopicLeak
<1> QED
  BY <1>1, <1>2, <1>3, PTL DEF Spec

-----------------------------------------------------------------------------
(***************************************************************************)
(* The table and what the user asked for.  Excluded are wildcard filters   *)
(* (whose unsubscription empties the whole table), unsubscribing a topic   *)
(* whose own request is still pending or while the renewal runs, and, for  *)
(* the base invariant only, a call that still sends at its time-out.       *)
(***************************************************************************)
PlainUse ==
    /\ Wildcard = {}
    /\ {"unsubscribe_while_pending", "unsubscribe_while_renewing", "slow_send"} \cap Adversity = {}

InTable(h) == \E i \in Slot : sub_handles[i] # Null /\ arg[sub_handles[i]] = h

(* What a renewal asks for again is in the table.                          *)
RenewalsInv ==
    \A c \in renewals : /\ kind[c] = "SUBSCRIBE"
                        /\ Waiting(c) \/ (\E t \in Thread : cur[t] = c) => InTable(arg[c])

WantInv == \A h : h \in wanted <=> InTable(h)

UserInv == RenewInv /\ RenewalsInv /\ WantInv

LEMMA BeginUser ==
  ASSUME BaseInv, UserInv, NEW c \in Call,
         (\E t \in AppThread, h \in Handle : Subscribe(t, c, h)) \/ RenewCall(c)
  PROVE  UserInv'
<1> USE SubscribeConstants DEF list
<1>1. /\ \A i \in Slot : sub_handles[i] # Null => sub_handles[i] \in Call \ {c}
      /\ Unused(c) /\ c \notin renewals /\ c \notin list_sub_wait_ack
      /\ \A u \in Thread : cur[u] # c
  <2>1. Unused(c)
    BY DEF Subscribe, RenewCall
  <2> QED
    <3>1. /\ c \notin list_sub_wait_ack
          /\ \A u \in Thread : cur[u] # c
          /\ \A i \in Slot : sub_handles[i] # c
      BY <2>1, UnusedCall
    <3>2. c \notin renewals
      BY <2>1 DEF UserInv, RenewalsInv, Unused
    <3>3. \A i \in Slot : sub_handles[i] # Null => sub_handles[i] \in Call \ {c}
      BY <3>1 DEF BaseInv, TypeInv
    <3> QED
      BY <2>1, <3>1, <3>2, <3>3
<1>2. /\ \E h : kind' = [kind EXCEPT ![c] = "SUBSCRIBE"] /\ arg' = [arg EXCEPT ![c] = h]
      /\ UNCHANGED <<sub_handles, wanted, list>>
      /\ \E t \in Thread : pc[t] = "idle" /\ cur' = [cur EXCEPT ![t] = c]
  <2>1. RenewCall(c) => YieldThread \in Thread /\ pc[YieldThread] = "idle"
    BY DEF RenewCall, BaseInv, TableInv, Thread
  <2> QED
    BY <2>1 DEF Subscribe, RenewCall, Begin, client, Thread
<1>3. \A d \in Call \ {c} : kind'[d] = kind[d] /\ arg'[d] = arg[d]
  BY <1>2 DEF BaseInv, TypeInv
<1>4. \A h : InTable(h)' <=> InTable(h)
  BY <1>1, <1>2, <1>3 DEF InTable
<1>5. RenewInv'
  <2>1. rtopic' = rtopic \/ rtopic' = Null
    BY DEF Subscribe, RenewCall, renew
  <2> QED
    BY <1>2, <2>1 DEF UserInv, RenewInv
<1>6. WantInv'
  BY <1>2, <1>4 DEF UserInv, WantInv
<1>7. RenewalsInv'
  <2>1. ASSUME NEW d \in renewals
        PROVE  /\ kind'[d] = "SUBSCRIBE"
               /\ (d \in list_sub_wait_ack' /\ node_state'[d] = "NORMAL") \/ (\E u \in Thread : cur'[u] = d)
                    => \E i \in Slot : sub_handles'[i] # Null /\ arg'[sub_handles'[i]] = arg'[d]
    <3>1. d \in Call \ {c} /\ kind'[d] = kind[d] /\ arg'[d] = arg[d]
      BY <1>1, <1>3 DEF BaseInv, TypeInv
    <3>2. kind[d] = "SUBSCRIBE" /\ (Waiting(d) \/ (\E u \in Thread : cur[u] = d) => InTable(arg[d]))
      BY DEF UserInv, RenewalsInv
    <3>3. ASSUME (d \in list_sub_wait_ack' /\ node_state'[d] = "NORMAL") \/ (\E u \in Thread : cur'[u] = d)
          PROVE  Waiting(d) \/ \E u \in Thread : cur[u] = d
      BY <1>2, <3>1, <3>3 DEF Waiting, BaseInv, TypeInv
    <3>4. ASSUME Waiting(d) \/ \E u \in Thread : cur[u] = d
          PROVE  \E i \in Slot : sub_handles'[i] # Null /\ arg'[sub_handles'[i]] = arg'[d]
      BY <1>1, <1>2, <1>3, <3>1, <3>2, <3>4 DEF InTable
    <3> QED
      BY <3>1, <3>2, <3>3, <3>4
  <2>2. CASE UNCHANGED renewals
    BY <2>1, <2>2 DEF RenewalsInv, InTable, Waiting
  <2>3. CASE RenewCall(c)
    <3>1. rtopic # Null /\ arg' = [arg EXCEPT ![c] = arg[rtopic]] /\ renewals' = renewals \cup {c}
          /\ kind' = [kind EXCEPT ![c] = "SUBSCRIBE"]
      BY <2>3 DEF RenewCall, Begin
    <3>2. kind'[c] = "SUBSCRIBE" /\ arg'[c] = arg[rtopic]
      BY <3>1 DEF BaseInv, TypeInv
    <3>3. \E i \in Slot : sub_handles'[i] # Null /\ arg'[sub_handles'[i]] = arg'[c]
      BY <1>1, <1>2, <1>3, <3>1, <3>2 DEF UserInv, RenewInv
    <3> QED
      BY <2>1, <3>1, <3>2, <3>3 DEF RenewalsInv, InTable, Waiting
  <2> QED
    BY <2>2, <2>3 DEF Subscribe
<1> QED
  BY <1>5, <1>6, <1>7 DEF UserInv

LEMMA UnsubscribeUser ==
  ASSUME PlainUse, BaseInv, UserInv, NEW t \in AppThread, NEW c \in Call, NEW f,
         Unsubscribe(t, c, f)
  PROVE  UserInv'
<1> USE SubscribeConstants DEF list
<1> DEFINE S == SlotsOf(f)
<1>1. UnsubscribeSlots(t, c, f, S)
  BY DEF Unsubscribe, PlainUse
<1>2. /\ \A i \in Slot : sub_handles[i] # Null => sub_handles[i] \in Call \ {c}
      /\ Unused(c) /\ c \notin renewals /\ c \notin list_sub_wait_ack
      /\ \A u \in Thread : cur[u] # c
  <2>1. Unused(c)
    BY <1>1 DEF UnsubscribeSlots
  <2> QED
    <3>1. /\ c \notin list_sub_wait_ack
          /\ \A u \in Thread : cur[u] # c
          /\ \A i \in Slot : sub_handles[i] # c
      BY <2>1, UnusedCall
    <3>2. c \notin renewals
      BY <2>1 DEF UserInv, RenewalsInv, Unused
    <3>3. \A i \in Slot : sub_handles[i] # Null => sub_handles[i] \in Call \ {c}
      BY <3>1 DEF BaseInv, TypeInv
    <3> QED
      BY <2>1, <3>1, <3>2, <3>3
<1>3. /\ sub_handles' = [i \in Slot |-> IF i \in S THEN Null ELSE sub_handles[i]]
      /\ wanted' = {h \in wanted : h.topic # f}
      /\ ~Pending(f) /\ itr = 0
      /\ pc[t] = "idle" /\ t \in Thread
      /\ UNCHANGED <<list, renew, renewals>>
  BY <1>1 DEF UnsubscribeSlots, PlainUse, Thread
<1>4. \/ cur' = [cur EXCEPT ![t] = c] /\ kind' = [kind EXCEPT ![c] = "UNSUBSCRIBE"]
         /\ \E h : arg' = [arg EXCEPT ![c] = h]
      \/ UNCHANGED <<cur, kind, arg>>
  BY <1>1 DEF UnsubscribeSlots
<1>5. \A d \in Call \ {c} : kind'[d] = kind[d] /\ arg'[d] = arg[d]
  BY <1>4 DEF BaseInv, TypeInv
<1>6. \A i \in Slot : sub_handles'[i] # Null <=> sub_handles[i] # Null /\ arg[sub_handles[i]].topic # f
  BY <1>3 DEF SlotsOf
<1>7. \A i \in Slot : sub_handles'[i] # Null => sub_handles'[i] = sub_handles[i]
                                                /\ arg'[sub_handles'[i]] = arg[sub_handles[i]]
  <2> HIDE DEF S
  <2> QED
    BY <1>2, <1>3, <1>5
<1> HIDE DEF S
<1>8. RenewInv'
  BY <1>3 DEF RenewInv, renew, BaseInv, TableInv
<1>9. WantInv'
  <2>1. ASSUME NEW h
        PROVE  (\E i \in Slot : sub_handles'[i] # Null /\ arg'[sub_handles'[i]] = h)
                  <=> (\E i \in Slot : sub_handles[i] # Null /\ arg[sub_handles[i]] = h) /\ h.topic # f
    BY <1>6, <1>7
  <2>2. \A h : h \in wanted' <=> h \in wanted /\ h.topic # f
    BY <1>3
  <2> QED
    BY <2>1, <2>2 DEF UserInv, WantInv, InTable
<1>10. RenewalsInv'
  <2>1. ASSUME NEW d \in renewals
        PROVE  /\ kind'[d] = "SUBSCRIBE"
               /\ (d \in list_sub_wait_ack' /\ node_state'[d] = "NORMAL") \/ (\E u \in Thread : cur'[u] = d)
                    => \E i \in Slot : sub_handles'[i] # Null /\ arg'[sub_handles'[i]] = arg'[d]
    <3>1. d \in Call \ {c} /\ kind'[d] = kind[d] /\ arg'[d] = arg[d]
      BY <1>2, <1>5 DEF BaseInv, TypeInv
    <3>2. kind[d] = "SUBSCRIBE" /\ (Waiting(d) \/ (\E u \in Thread : cur[u] = d) => InTable(arg[d]))
      BY DEF UserInv, RenewalsInv
    <3>3. ASSUME (d \in list_sub_wait_ack' /\ node_state'[d] = "NORMAL") \/ (\E u \in Thread : cur'[u] = d)
          PROVE  Waiting(d) \/ \E u \in Thread : cur[u] = d
      BY <1>3, <1>4, <3>1, <3>3 DEF Waiting, BaseInv, TypeInv
    <3>4. ASSUME Waiting(d) \/ \E u \in Thread : cur[u] = d
          PROVE  \E i \in Slot : sub_handles'[i] # Null /\ arg'[sub_handles'[i]] = arg'[d]
      <4>1. arg[d].topic # f
        BY <1>3, <3>1, <3>2, <3>4 DEF Pending, Waiting
      <4>2. PICK i \in Slot : sub_handles[i] # Null /\ arg[sub_handles[i]] = arg[d]
        BY <3>2, <3>4 DEF InTable
      <4> QED
        BY <1>6, <1>7, <3>1, <4>1, <4>2
    <3> QED
      BY <3>1, <3>2, <3>3, <3>4
  <2> QED
    BY <1>3, <2>1 DEF RenewalsInv, InTable, Waiting
<1> QED
  BY <1>8, <1>9, <1>10 DEF UserInv

(* Steps that leave the table and what is wanted alone, and make no call   *)
(* pending that was not.                                                   *)
LEMMA QuietUser ==
  ASSUME BaseInv, UserInv, UNCHANGED <<sub_handles, kind, arg, wanted, renewals>>,
         \A d \in Call : (d \in list_sub_wait_ack' /\ node_state'[d] = "NORMAL") \/ (\E u \in Thread : cur'[u] = d)
                           => Waiting(d) \/ \E u \in Thread : cur[u] = d
  PROVE  RenewalsInv' /\ WantInv'
<1>1. RenewalsInv'
  BY DEF UserInv, RenewalsInv, InTable, Waiting, BaseInv, TypeInv
<1>2. WantInv'
  BY DEF UserInv, WantInv, InTable
<1> QED
  BY <1>1, <1>2

LEMMA CallStepUser ==
  ASSUME BaseInv, UserInv, NEW t \in Thread, CallStep(t)
  PROVE  UserInv'
<1> USE SubscribeConstants DEF list
<1>1. pc[t] # "idle" /\ cur[t] \in Call
  <2>1. pc[t] \in {"lock", "send", "undo"}
    BY DEF CallStep, Push, PushIf, Send, Undo
  <2> QED
    BY <2>1 DEF BaseInv, CallInv, TypeInv
<1>2. UNCHANGED <<sub_handles, kind, arg, wanted, renewals, rtopic>>
  BY DEF CallStep, Push, PushIf, Send, Undo
<1>3. /\ \A u \in Thread : cur'[u] = cur[u] \/ cur'[u] = Null
      /\ \A d \in Call : d \in list_sub_wait_ack' /\ node_state'[d] = "NORMAL" => Waiting(d) \/ d = cur[t]
  <2>1. CASE Push(t)
    <3>1. CASE /\ list_sub_wait_ack' = list_sub_wait_ack \cup {cur[t]}
               /\ node_state' = [node_state EXCEPT ![cur[t]] = "NORMAL"]
               /\ UNCHANGED <<heap, cur>>
      BY <1>1, <3>1 DEF Waiting, BaseInv, TypeInv
    <3>2. CASE Leave(t, "error") /\ UNCHANGED <<list_sub_wait_ack, node_state>>
      BY <1>1, <3>2 DEF Waiting, Leave, BaseInv, TypeInv
    <3> QED
      BY <2>1, <3>1, <3>2 DEF Push, PushIf
  <2>2. CASE Send(t)
    BY <1>1, <2>2 DEF Send, Waiting, Leave, BaseInv, TypeInv
  <2>3. CASE Undo(t)
    BY <1>1, <2>3 DEF Undo, Waiting, Leave, BaseInv, TypeInv
  <2> QED
    BY <2>1, <2>2, <2>3 DEF CallStep
<1>4. RenewalsInv' /\ WantInv'
  BY <1>2, <1>3, QuietUser
<1>5. RenewInv'
  BY <1>2 DEF UserInv, RenewInv
<1> QED
  BY <1>4, <1>5 DEF UserInv

LEMMA SubackUser ==
  ASSUME BaseInv, UserInv, HandleSuback
  PROVE  UserInv'
<1> USE SubscribeConstants DEF calls
<1> DEFINE a == Head(downlink)
           c == a.call
           known == c \in list_sub_wait_ack
           grant == IF c \in renewals THEN wanted ELSE wanted \cup {arg[c]}
<1>1. /\ YieldFree /\ downlink # <<>>
      /\ downlink' = Tail(downlink) /\ Mask(c)
      /\ UNCHANGED <<list_sub_wait_ack, timedout, calls, itr, rtopic, uplink, ret, renewals>>
  BY DEF HandleSuback
<1>2. /\ c \in Call /\ \A d \in Call \ {c} : node_state'[d] = node_state[d]
      /\ known => node_state'[c] = "INVALID"
      /\ known => Waiting(c)
      /\ rtopic = Null
  BY <1>1, AckBase
<1>3. \/ UNCHANGED <<sub_handles, wanted>>
      \/ known /\ IdenticalIn(c) # {} /\ wanted' = grant /\ UNCHANGED sub_handles
      \/ known /\ IdenticalIn(c) = {} /\ FreeSlots # {} /\ wanted' = grant
         /\ sub_handles' = [sub_handles EXCEPT ![FirstFree] = c]
  BY DEF HandleSuback
<1>4. IdenticalIn(c) # {} <=> InTable(arg[c])
  BY DEF IdenticalIn, InTable
<1> HIDE DEF a, c
<1>5. \A d \in Call : (d \in list_sub_wait_ack' /\ node_state'[d] = "NORMAL") \/ (\E u \in Thread : cur'[u] = d)
                        => Waiting(d) \/ \E u \in Thread : cur[u] = d
  BY <1>1, <1>2 DEF Waiting
<1>6. RenewInv'
  BY <1>1, <1>2 DEF RenewInv
<1>7. CASE UNCHANGED <<sub_handles, wanted>>
  BY <1>1, <1>5, <1>6, <1>7, QuietUser DEF UserInv
<1>8. CASE known /\ IdenticalIn(c) # {} /\ wanted' = grant /\ UNCHANGED sub_handles
  <2>1. wanted' = wanted
    BY <1>4, <1>8 DEF UserInv, WantInv
  <2> QED
    BY <1>7, <1>8, <2>1
<1>9. CASE known /\ IdenticalIn(c) = {} /\ FreeSlots # {} /\ wanted' = grant
           /\ sub_handles' = [sub_handles EXCEPT ![FirstFree] = c]
  <2>1. c \notin renewals
    BY <1>2, <1>4, <1>9 DEF UserInv, RenewalsInv
  <2>2. FirstFree \in Slot /\ sub_handles[FirstFree] = Null
    BY <1>9, FirstFreeIsFree
  <2>3. /\ \A i \in Slot : sub_handles[i] # Null => sub_handles'[i] = sub_handles[i]
        /\ \A i \in Slot : sub_handles'[i] = sub_handles[i] \/ sub_handles'[i] = c
        /\ sub_handles'[FirstFree] = c
    BY <1>9, <2>2 DEF BaseInv, TypeInv
  <2>4. \A h : (\E i \in Slot : sub_handles'[i] # Null /\ arg[sub_handles'[i]] = h)
                  <=> InTable(h) \/ h = arg[c]
    BY <1>2, <2>2, <2>3 DEF InTable
  <2>5. WantInv'
    <3>1. wanted' = wanted \cup {arg[c]}
      BY <1>9, <2>1
    <3> QED
      BY <1>1, <2>4, <3>1 DEF UserInv, WantInv, InTable
  <2>6. RenewalsInv'
    <3>1. ASSUME NEW d \in renewals
          PROVE  /\ kind[d] = "SUBSCRIBE"
                 /\ (d \in list_sub_wait_ack' /\ node_state'[d] = "NORMAL") \/ (\E u \in Thread : cur'[u] = d)
                      => \E i \in Slot : sub_handles'[i] # Null /\ arg[sub_handles'[i]] = arg[d]
      BY <1>5, <2>4 DEF UserInv, RenewalsInv, BaseInv, TypeInv
    <3> QED
      BY <1>1, <3>1 DEF RenewalsInv, InTable, Waiting
  <2> QED
    BY <1>6, <2>5, <2>6 DEF UserInv
<1> QED
  BY <1>3, <1>7, <1>8, <1>9

LEMMA UserStep ==
  ASSUME PlainUse, BaseInv, UserInv, [Next]_vars
  PROVE  UserInv'
<1> USE SubscribeConstants DEF calls, client, list, vars
<1>1. CASE \E t \in AppThread, c \in Call :
             (\E h \in Handle : Subscribe(t, c, h)) \/ (\E f \in Topic : Unsubscribe(t, c, f))
  BY <1>1, BeginUser, UnsubscribeUser
<1>2. CASE \E t \in Thread : CallStep(t)
  BY <1>2, CallStepUser
<1>3. CASE \E c \in Call : RenewCall(c)
  BY <1>3, BeginUser
<1>4. CASE HandleUnsuback
  <2> DEFINE c == Head(downlink).call
  <2>1. /\ YieldFree /\ downlink # <<>> /\ downlink' = Tail(downlink) /\ Mask(c)
        /\ UNCHANGED <<client, list_sub_wait_ack, timedout, calls, itr, rtopic, uplink, ret, renewals,
                       wanted>>
    BY <1>4 DEF HandleUnsuback
  <2>2. /\ c \in Call /\ \A d \in Call \ {c} : node_state'[d] = node_state[d]
        /\ c \in list_sub_wait_ack => node_state'[c] = "INVALID"
    BY <2>1, AckBase
  <2> HIDE DEF c
  <2>3. \A d \in Call : d \in list_sub_wait_ack' /\ node_state'[d] = "NORMAL" => Waiting(d)
    BY <2>1, <2>2 DEF Waiting
  <2>4. RenewalsInv' /\ WantInv'
    BY <2>1, <2>3, QuietUser
  <2> QED
    BY <2>1, <2>4 DEF UserInv, RenewInv
<1>5. CASE Sweep
  <2>1. /\ list_sub_wait_ack' \subseteq list_sub_wait_ack
        /\ UNCHANGED <<client, node_state, calls, rtopic, renewals, wanted>>
    BY <1>5 DEF Sweep, SweepNodes
  <2>2. RenewalsInv' /\ WantInv'
    BY <2>1, QuietUser DEF Waiting
  <2> QED
    BY <2>1, <2>2 DEF UserInv, RenewInv
<1>6. CASE \/ RenewNext \/ RenewNoConn \/ ConnectionLost \/ Reconnected \/ Broker
           \/ UNCHANGED vars \/ \E c \in Call : TimerExpires(c)
  <2>1. UNCHANGED <<sub_handles, list_sub_wait_ack, node_state, calls, renewals, wanted>>
    BY <1>6 DEF RenewNext, RenewNoConn, ConnectionLost, Reconnected, Broker, TimerExpires
  <2>2. RenewalsInv' /\ WantInv'
    BY <2>1, QuietUser DEF Waiting
  <2>3. RenewInv'
    <3>1. CASE RenewNext
      <4>1. itr # 0 => itr \in Slot
        BY DEF BaseInv, TypeInv, Slot
      <4> QED
        BY <2>1, <3>1, <4>1 DEF UserInv, RenewInv, RenewNext
    <3>2. CASE RenewNoConn
      BY <3>2 DEF RenewInv, RenewNoConn
    <3>3. CASE UNCHANGED rtopic
      BY <2>1, <3>3 DEF UserInv, RenewInv
    <3> QED
      BY <1>6, <3>1, <3>2, <3>3 DEF ConnectionLost, Reconnected, Broker, TimerExpires, renew
  <2> QED
    BY <2>2, <2>3 DEF UserInv
<1> QED
  BY <1>1, <1>2, <1>3, <1>4, <1>5, <1>6, SubackUser DEF Next, YieldStep

(* The table holds exactly the handles the user subscribed and has not     *)
(* unsubscribed since, each one once: no reconnection, renewal, time-out   *)
(* or failing write adds, doubles or loses one, for any number of calls,   *)
(* threads, topics and entries.                                            *)
THEOREM TableTrue ==
  ASSUME PlainUse
  PROVE  Spec => []TableIsWhatUserWants
<1>1. Init => BaseInv /\ UserInv
  <2>1. Init => UserInv
    BY DEF Init, UserInv, RenewInv, RenewalsInv, WantInv, InTable
  <2> QED
    BY <2>1, BaseInit
<1>2. BaseInv /\ UserInv /\ [Next]_vars => BaseInv' /\ UserInv'
  BY BaseStep, UserStep DEF PlainUse, Prompt
<1>3. BaseInv /\ UserInv => TableIsWhatUserWants
  <2> SUFFICES ASSUME BaseInv, UserInv PROVE TableIsWhatUserWants
    OBVIOUS
  <2>1. \A i : i \in Slot \ FreeSlots <=> i \in Slot /\ sub_handles[i] # Null
    BY DEF FreeSlots
  <2>2. \A h : h \in {arg[sub_handles[i]] : i \in Slot \ FreeSlots} <=> InTable(h)
    BY <2>1, Zenon DEF InTable
  <2>3. wanted = {arg[sub_handles[i]] : i \in Slot \ FreeSlots}
    BY <2>2 DEF UserInv, WantInv
  <2>4. \A i, j \in Slot \ FreeSlots : arg[sub_handles[i]] = arg[sub_handles[j]] => i = j
    BY <2>1 DEF BaseInv, TableInv
  <2> QED
    BY <2>3, <2>4 DEF TableIsWhatUserWants
<1> QED
  BY <1>1, <1>2, <1>3, PTL DEF Spec

-----------------------------------------------------------------------------
(***************************************************************************)
(* The table and the broker.  SettledUse excludes the circumstances in     *)
(* which TLC finds a table entry without a subscription at the broker: a   *)
(* failing write and a refusal end a renewal, and an unsubscription        *)
(* overtakes a subscription of the same topic when the user does not wait  *)
(* for it, unsubscribes during the renewal or calls from two threads; and, *)
(* for the base invariant, a call that still sends at its time-out.        *)
(***************************************************************************)
SettledUse ==
    /\ \A t, u \in AppThread : t = u
    /\ {"send_fails", "slow_send", "unsubscribe_while_pending", "unsubscribe_while_renewing",
        "renewal_refused"}
          \cap Adversity = {}

(* The renewal finds room in the list of requests.                         *)
RenewalHasRoom ==
    pc[YieldThread] = "lock" => Cardinality(list_sub_wait_ack) < MAX_MESSAGE_HANDLERS

Live(c)     == kind[c] = "SUBSCRIBE" /\ (Waiting(c) \/ \E t \in Thread : cur[t] = c)
Leaving(t)  == cur[t] # Null /\ kind[cur[t]] = "UNSUBSCRIBE"
Down        == {downlink[d] : d \in DOMAIN downlink}
TopicIn(f)  == \E i \in Slot : sub_handles[i] # Null /\ arg[sub_handles[i]].topic = f

(* The renewal stays at one table entry until its call returns, and fails  *)
(* only without a connection.                                              *)
LoopInv ==
    /\ rtopic # Null => rtopic = sub_handles[itr]
    /\ cur[YieldThread] # Null =>
          /\ itr # 0 /\ cur[YieldThread] \in renewals /\ kind[cur[YieldThread]] = "SUBSCRIBE"
          /\ sub_handles[itr] # Null /\ arg[cur[YieldThread]] = arg[sub_handles[itr]]
    /\ pc[YieldThread] = "undo" => ~is_connected

(* An unsubscription not yet with the broker comes before every request    *)
(* for its topic that may still be granted.                                *)
OrderInv ==
    /\ \A t \in Thread : Leaving(t) =>
          /\ ~TopicIn(arg[cur[t]].topic)
          /\ \A c \in Call : Live(c) => arg[c].topic # arg[cur[t]].topic
    /\ \A p \in DOMAIN uplink : kind[uplink[p]] = "UNSUBSCRIBE" =>
          /\ ~TopicIn(arg[uplink[p]].topic)
          /\ \A q \in DOMAIN uplink : Live(uplink[q]) /\ arg[uplink[q]].topic = arg[uplink[p]].topic => p < q
          /\ \A a \in Down : Live(a.call) => arg[a.call].topic # arg[uplink[p]].topic

(* What was granted is subscribed when the answer is handled.              *)
GrantInv == \A a \in Down : a.ok /\ Live(a.call) => arg[a.call].topic \in broker_subs

(* An entry is subscribed, on its way to the broker, or yet to be renewed. *)
Renewed(i) == \E p \in DOMAIN uplink : /\ uplink[p] \in renewals /\ kind[uplink[p]] = "SUBSCRIBE"
                                       /\ arg[uplink[p]].topic = arg[sub_handles[i]].topic
CoverInv ==
    is_connected => \A i \in Slot : sub_handles[i] # Null =>
        arg[sub_handles[i]].topic \in broker_subs \/ Renewed(i) \/ (itr # 0 /\ itr <= i)

SubsInv == LoopInv /\ OrderInv /\ GrantInv /\ CoverInv

LEMMA LoopStep ==
  ASSUME SettledUse, BaseInv, LoopInv, [Next]_vars
  PROVE  LoopInv'
<1> USE SubscribeConstants DEF client, list, calls, renew, net
<1>0. TypeInv /\ CallInv /\ TableInv /\ YieldThread \in Thread
  BY DEF BaseInv, Thread
<1>1. \A i \in Slot : sub_handles[i] # Null => sub_handles[i] \in Call
  BY <1>0 DEF TypeInv
<1>2. itr # 0 => itr \in Slot
  BY <1>0 DEF TypeInv, Slot
<1>3. pc[YieldThread] = "idle" <=> cur[YieldThread] = Null
  BY <1>0 DEF CallInv
<1>4. ASSUME UNCHANGED <<sub_handles, itr, rtopic, kind, arg, renewals>>,
             cur'[YieldThread] = cur[YieldThread], pc'[YieldThread] = pc[YieldThread],
             pc[YieldThread] = "undo" => (is_connected' => is_connected)
      PROVE  LoopInv'
  BY <1>0, <1>4 DEF LoopInv, TypeInv
<1>5. ASSUME cur'[YieldThread] = Null, pc'[YieldThread] = "idle", rtopic' = Null PROVE LoopInv'
  BY <1>5 DEF LoopInv
<1>6. ASSUME NEW t \in AppThread, NEW c \in Call, NEW h \in Handle, Subscribe(t, c, h) PROVE LoopInv'
  <2>1. /\ UNCHANGED <<sub_handles, itr, rtopic, renewals, is_connected>>
        /\ cur'[YieldThread] = cur[YieldThread] /\ pc'[YieldThread] = pc[YieldThread]
        /\ \A d \in Call : d # c => kind'[d] = kind[d] /\ arg'[d] = arg[d]
    BY <1>0, <1>6 DEF Subscribe, Begin, Thread, TypeInv
  <2>2. cur[YieldThread] # c /\ \A i \in Slot : sub_handles[i] # c
    BY <1>0, <1>6, UnusedCall DEF Subscribe
  <2>3. cur[YieldThread] # Null => cur[YieldThread] \in Call
    BY <1>0 DEF TypeInv
  <2> QED
    BY <1>1, <1>2, <2>1, <2>2, <2>3 DEF LoopInv
<1>7. ASSUME NEW t \in AppThread, NEW c \in Call, NEW f \in Topic, Unsubscribe(t, c, f) PROVE LoopInv'
  <2>1. itr = 0 /\ UNCHANGED <<itr, rtopic>>
        /\ cur'[YieldThread] = cur[YieldThread] /\ pc'[YieldThread] = pc[YieldThread]
    BY <1>0, <1>7 DEF Unsubscribe, UnsubscribeSlots, Thread, SettledUse, TypeInv
  <2> QED
    BY <1>0, <1>3, <1>5, <2>1 DEF LoopInv, TableInv
<1>8. ASSUME NEW t \in Thread, CallStep(t) PROVE LoopInv'
  <2>1. UNCHANGED <<sub_handles, rtopic, kind, arg, renewals, is_connected>> /\ pc[t] # "idle"
    BY <1>8 DEF CallStep, Push, PushIf, Send, Undo
  <2>2. CASE t # YieldThread
    <3>1. UNCHANGED itr /\ cur'[YieldThread] = cur[YieldThread] /\ pc'[YieldThread] = pc[YieldThread]
      BY <1>0, <1>8, <2>2 DEF CallStep, Push, PushIf, Send, Undo, Leave, TypeInv
    <3> QED
      BY <1>4, <2>1, <3>1
  <2>3. CASE t = YieldThread
    <3>1. rtopic = Null
      BY <1>0, <2>1, <2>3 DEF TableInv
    <3>2. \/ cur'[YieldThread] = Null /\ pc'[YieldThread] = "idle"
          \/ UNCHANGED <<cur, itr>> /\ pc'[YieldThread] = "send"
          \/ UNCHANGED <<cur, itr>> /\ ~is_connected
      BY <1>0, <1>8, <2>3 DEF CallStep, Push, PushIf, Send, Undo, Leave, TypeInv, SettledUse
    <3> QED
      BY <1>5, <2>1, <3>1, <3>2 DEF LoopInv
  <2> QED
    BY <2>2, <2>3
<1>9. CASE HandleSuback \/ HandleUnsuback \/ Sweep \/ Reconnected
  <2>1. itr = 0 /\ pc[YieldThread] = "idle" /\ UNCHANGED <<cur, pc, rtopic>>
    BY <1>9 DEF HandleSuback, HandleUnsuback, Sweep, SweepNodes, Reconnected, YieldFree
  <2> QED
    BY <1>0, <1>3, <1>5, <2>1 DEF TableInv
<1>10. CASE RenewNext
  <2>1. /\ UNCHANGED <<cur, pc, sub_handles>> /\ pc[YieldThread] = "idle"
        /\ rtopic' = Null \/ (rtopic' = sub_handles[itr] /\ UNCHANGED itr)
    BY <1>10 DEF RenewNext
  <2> QED
    BY <1>3, <2>1 DEF LoopInv
<1>11. ASSUME NEW c \in Call, RenewCall(c) PROVE LoopInv'
  <2>1. /\ rtopic # Null /\ rtopic' = Null /\ renewals' = renewals \cup {c}
        /\ UNCHANGED <<itr, sub_handles, is_connected>>
    BY <1>11 DEF RenewCall
  <2>2. /\ cur'[YieldThread] = c /\ pc'[YieldThread] = "lock" /\ kind'[c] = "SUBSCRIBE" /\ arg'[c] = arg[rtopic]
        /\ \A d \in Call : d # c => arg'[d] = arg[d]
    BY <1>0, <1>11 DEF RenewCall, Begin, TypeInv
  <2>3. itr # 0 /\ rtopic = sub_handles[itr] /\ rtopic # c /\ rtopic \in Call
    BY <1>0, <1>11, <2>1, UnusedCall DEF RenewCall, TableInv, LoopInv, TypeInv
  <2> QED
    BY <2>1, <2>2, <2>3 DEF LoopInv
<1>12. CASE RenewNoConn
  <2>1. rtopic # Null /\ rtopic' = Null /\ UNCHANGED <<cur, pc>>
    BY <1>12 DEF RenewNoConn
  <2> QED
    BY <1>0, <1>3, <1>5, <2>1 DEF TableInv
<1>13. CASE ConnectionLost \/ Broker \/ UNCHANGED vars \/ \E c \in Call : TimerExpires(c)
  <2>1. UNCHANGED <<sub_handles, itr, rtopic, kind, arg, renewals, cur, pc>> /\ (is_connected' => is_connected)
    BY <1>13 DEF ConnectionLost, Broker, TimerExpires, vars
  <2> QED
    BY <1>4, <2>1
<1> QED
  BY <1>6, <1>7, <1>8, <1>9, <1>10, <1>11, <1>12, <1>13 DEF Next, YieldStep

LEMMA DownAre ==
  ASSUME TypeInv
  PROVE  /\ \A a \in Down : a \in Ack /\ a.call \in Call
         /\ UNCHANGED downlink => Down' = Down
         /\ downlink # <<>> /\ downlink' = Tail(downlink) => Head(downlink) \in Down /\ Down' \subseteq Down
         /\ downlink' = <<>> => Down' = {}
<1>1. \A a \in Down : a \in Ack /\ a.call \in Call
  <2>1. \A d \in DOMAIN downlink : downlink[d] \in Ack
    BY ElementOfSeq, LenProperties DEF TypeInv
  <2> QED
    BY <2>1 DEF Down, Ack
<1>2. ASSUME downlink # <<>>, downlink' = Tail(downlink)
      PROVE  Head(downlink) \in Down /\ Down' \subseteq Down
  <2>1. /\ Head(downlink) = downlink[1] /\ 1 \in DOMAIN downlink
        /\ \A i \in DOMAIN downlink' : i + 1 \in DOMAIN downlink /\ downlink'[i] = downlink[i + 1]
    BY <1>2, TailElements DEF TypeInv
  <2> QED
    BY <2>1 DEF Down
<1>3. downlink' = <<>> => Down' = {}
  BY DEF Down
<1> QED
  BY <1>1, <1>2, <1>3 DEF Down

(* Steps that begin no call, send nothing and add nothing to the table.    *)
LEMMA QuietOrder ==
  ASSUME TypeInv, OrderInv, GrantInv, UNCHANGED <<kind, arg, uplink, broker_subs>>, Down' \subseteq Down,
         \A i \in Slot : sub_handles'[i] = sub_handles[i] \/ sub_handles'[i] = Null,
         \A t \in Thread : cur'[t] = cur[t] \/ cur'[t] = Null,
         \A c \in Call : c \in list_sub_wait_ack' /\ node_state'[c] = "NORMAL" =>
                            Waiting(c) \/ \E t \in Thread : cur[t] = c
  PROVE  OrderInv' /\ GrantInv'
<1> USE SubscribeConstants
<1>1. \A f : TopicIn(f)' => TopicIn(f)
  BY DEF TopicIn
<1>2. ASSUME NEW c \in Call, Live(c)' PROVE Live(c)
  <2>1. (c \in list_sub_wait_ack' /\ node_state'[c] = "NORMAL") \/ \E t \in Thread : cur'[t] = c
    BY <1>2 DEF Live, Waiting
  <2>2. Waiting(c) \/ \E t \in Thread : cur[t] = c
    BY <2>1
  <2> QED
    BY <1>2, <2>2 DEF Live
<1>3. \A a \in Down : a.call \in Call
  BY DownAre
<1>4. \A p \in DOMAIN uplink : uplink[p] \in Call
  BY ElementOfSeq, LenProperties DEF TypeInv
<1>5. ASSUME NEW t \in Thread, Leaving(t)' PROVE Leaving(t) /\ cur'[t] = cur[t]
  BY <1>5 DEF Leaving
<1>6. OrderInv'
  <2>1. ASSUME NEW t \in Thread, Leaving(t)'
        PROVE  /\ ~TopicIn(arg[cur[t]].topic)'
               /\ \A c \in Call : Live(c)' => arg'[c].topic # arg'[cur'[t]].topic
    <3>1. /\ ~TopicIn(arg[cur[t]].topic) /\ cur'[t] = cur[t]
          /\ \A c \in Call : Live(c) => arg[c].topic # arg[cur[t]].topic
      BY <1>5, <2>1 DEF OrderInv
    <3>2. ~TopicIn(arg[cur[t]].topic)'
      BY <3>1 DEF TopicIn
    <3> QED
      BY <1>2, <3>1, <3>2
  <2>2. ASSUME NEW p \in DOMAIN uplink, kind[uplink[p]] = "UNSUBSCRIBE"
        PROVE  /\ ~TopicIn(arg[uplink[p]].topic)'
               /\ \A q \in DOMAIN uplink : Live(uplink[q])' /\ arg[uplink[q]].topic = arg[uplink[p]].topic => p < q
               /\ \A a \in Down' : Live(a.call)' => arg[a.call].topic # arg[uplink[p]].topic
    <3>1. ~TopicIn(arg[uplink[p]].topic)'
      BY <2>2 DEF OrderInv, TopicIn
    <3>2. \A q \in DOMAIN uplink : Live(uplink[q])' => Live(uplink[q])
      BY <1>2, <1>4
    <3> QED
      BY <1>2, <1>3, <2>2, <3>1, <3>2 DEF OrderInv
  <2> QED
    BY <2>1, <2>2 DEF OrderInv
<1>7. GrantInv'
  BY <1>2, <1>3 DEF GrantInv
<1> QED
  BY <1>6, <1>7

LEMMA QuietCover ==
  ASSUME CoverInv, UNCHANGED <<kind, arg, uplink, broker_subs, itr>>, renewals \subseteq renewals',
         is_connected' => is_connected,
         \A i \in Slot : sub_handles'[i] = sub_handles[i] \/ sub_handles'[i] = Null
  PROVE  CoverInv'
<1>1. ASSUME NEW i \in Slot, sub_handles'[i] # Null, Renewed(i) PROVE Renewed(i)'
  BY <1>1 DEF Renewed
<1> QED
  BY <1>1 DEF CoverInv

(* A thread enters a call: a subscription of a topic nobody is leaving, or *)
(* an unsubscription of one that is neither in the table nor asked for.    *)
LEMMA BeginOrder ==
  ASSUME BaseInv, OrderInv, GrantInv, CoverInv, NEW t \in Thread, NEW c \in Call, NEW h, NEW k,
         Unused(c), pc[t] = "idle", k \in {"SUBSCRIBE", "UNSUBSCRIBE"},
         kind' = [kind EXCEPT ![c] = k], arg' = [arg EXCEPT ![c] = h], cur' = [cur EXCEPT ![t] = c],
         UNCHANGED <<list, net, itr, is_connected>>, renewals \subseteq renewals',
         \A i \in Slot : sub_handles'[i] = sub_handles[i] \/ sub_handles'[i] = Null,
         k = "SUBSCRIBE" => \A u \in Thread : Leaving(u) => arg[cur[u]].topic # h.topic,
         k = "UNSUBSCRIBE" => /\ \A i \in Slot : sub_handles'[i] # Null => arg[sub_handles[i]].topic # h.topic
                              /\ \A d \in Call : Live(d) => arg[d].topic # h.topic
  PROVE  OrderInv' /\ GrantInv' /\ CoverInv'
<1> USE SubscribeConstants DEF list, net
<1>0. TypeInv /\ CallInv
  BY DEF BaseInv
<1>1. /\ c \notin list_sub_wait_ack /\ (\A u \in Thread : cur[u] # c) /\ \A i \in Slot : sub_handles[i] # c
      /\ (\A p \in DOMAIN uplink : uplink[p] # c) /\ \A a \in Down : a.call # c
  BY UnusedCall DEF InTransit, Down
<1>2. /\ \A p \in DOMAIN uplink : uplink[p] \in Call /\ uplink[p] # c
      /\ \A a \in Down : a.call \in Call /\ a.call # c
      /\ \A i \in Slot : sub_handles[i] # Null => sub_handles[i] \in Call /\ sub_handles[i] # c
      /\ Down' = Down
  BY <1>0, <1>1, DownAre, ElementOfSeq, LenProperties DEF TypeInv
<1>3. /\ \A d \in Call : d # c => kind'[d] = kind[d] /\ arg'[d] = arg[d]
      /\ kind'[c] = k /\ arg'[c] = h
      /\ \A u \in Thread : u # t => cur'[u] = cur[u]
      /\ cur'[t] = c /\ cur[t] = Null
  BY <1>0 DEF TypeInv, CallInv
<1>4. ASSUME NEW d \in Call, d # c PROVE Live(d)' <=> Live(d)
  BY <1>3, <1>4 DEF Live, Waiting
<1>5. \A f : TopicIn(f)' => TopicIn(f)
  BY <1>2, <1>3 DEF TopicIn
<1>6. Live(c)' => k = "SUBSCRIBE"
  BY <1>3 DEF Live
<1>7. ASSUME NEW u \in Thread, Leaving(u)'
      PROVE  /\ ~TopicIn(arg[cur[u]].topic)'
             /\ \A d \in Call : Live(d)' => arg'[d].topic # arg'[cur'[u]].topic
  <2>1. CASE u = t
    <3>1. cur'[u] = c /\ k = "UNSUBSCRIBE" /\ arg'[cur'[u]].topic = h.topic
      BY <1>3, <1>7, <2>1 DEF Leaving
    <3>2. \A i \in Slot : sub_handles'[i] # Null => arg'[sub_handles'[i]].topic # h.topic
      BY <1>2, <1>3, <3>1
    <3>3. ~TopicIn(arg[cur[u]].topic)'
      BY <3>1, <3>2 DEF TopicIn
    <3>4. \A d \in Call : Live(d)' => arg'[d].topic # h.topic
      BY <1>3, <1>4, <1>6, <3>1
    <3> QED
      BY <3>1, <3>3, <3>4
  <2>2. CASE u # t
    <3>1. cur'[u] = cur[u] /\ cur[u] # Null /\ cur[u] # c /\ cur[u] \in Call
      BY <1>0, <1>1, <1>3, <1>7, <2>2 DEF Leaving, TypeInv
    <3>2. Leaving(u) /\ arg'[cur'[u]] = arg[cur[u]]
      BY <1>3, <1>7, <3>1 DEF Leaving
    <3>3. ~TopicIn(arg[cur[u]].topic) /\ \A d \in Call : Live(d) => arg[d].topic # arg[cur[u]].topic
      BY <3>2 DEF OrderInv
    <3>4. ~TopicIn(arg[cur[u]].topic)'
      BY <1>2, <1>3, <3>2, <3>3 DEF TopicIn
    <3> QED
      BY <1>3, <1>4, <1>6, <3>2, <3>3, <3>4
  <2> QED
    BY <2>1, <2>2
<1>8. ASSUME NEW p \in DOMAIN uplink, kind'[uplink[p]] = "UNSUBSCRIBE"
      PROVE  /\ ~TopicIn(arg[uplink[p]].topic)'
             /\ \A q \in DOMAIN uplink : Live(uplink[q])' /\ arg'[uplink[q]].topic = arg'[uplink[p]].topic => p < q
             /\ \A a \in Down : Live(a.call)' => arg'[a.call].topic # arg'[uplink[p]].topic
  <2>1. kind[uplink[p]] = "UNSUBSCRIBE" /\ arg'[uplink[p]] = arg[uplink[p]]
    BY <1>2, <1>3, <1>8
  <2>2. ~TopicIn(arg[uplink[p]].topic)
    BY <2>1 DEF OrderInv
  <2>3. ~TopicIn(arg[uplink[p]].topic)'
    BY <1>2, <1>3, <2>1, <2>2 DEF TopicIn
  <2>4. \A q \in DOMAIN uplink : arg'[uplink[q]] = arg[uplink[q]] /\ (Live(uplink[q])' => Live(uplink[q]))
    BY <1>2, <1>3, <1>4
  <2>5. \A a \in Down : arg'[a.call] = arg[a.call] /\ (Live(a.call)' => Live(a.call))
    BY <1>2, <1>3, <1>4
  <2> QED
    BY <2>1, <2>3, <2>4, <2>5 DEF OrderInv
<1>9. OrderInv'
  BY <1>2, <1>7, <1>8 DEF OrderInv
<1>10. GrantInv'
  BY <1>2, <1>3, <1>4 DEF GrantInv
<1>11. CoverInv'
  <2>1. ASSUME NEW i \in Slot, sub_handles'[i] # Null, Renewed(i) PROVE Renewed(i)'
    BY <1>2, <1>3, <2>1 DEF Renewed
  <2>2. \A i \in Slot : sub_handles'[i] # Null =>
           /\ sub_handles'[i] = sub_handles[i] /\ arg'[sub_handles'[i]] = arg[sub_handles[i]]
    BY <1>2, <1>3
  <2> QED
    BY <2>1, <2>2 DEF CoverInv
<1> QED
  BY <1>9, <1>10, <1>11

LEMMA SubscribeSubs ==
  ASSUME SettledUse, BaseInv, SubsInv, NEW c \in Call,
         (\E t \in AppThread, h \in Handle : Subscribe(t, c, h)) \/ RenewCall(c)
  PROVE  OrderInv' /\ GrantInv' /\ CoverInv'
<1> USE SubscribeConstants DEF client, renew
<1>0. TypeInv /\ CallInv /\ TableInv
  BY DEF BaseInv
<1>1. ASSUME NEW t \in AppThread, NEW h \in Handle, Subscribe(t, c, h)
      PROVE  OrderInv' /\ GrantInv' /\ CoverInv'
  <2>1. t \in Thread /\ pc[t] = "idle" /\ cur[t] = Null
    BY <1>0, <1>1 DEF Thread, Subscribe, CallInv
  <2>2. \A u \in Thread : ~Leaving(u)
    BY <2>1 DEF SettledUse, Thread, Leaving, SubsInv, LoopInv
  <2> QED
    BY <1>1, <2>1, <2>2, BeginOrder DEF Subscribe, Begin, SubsInv
<1>2. ASSUME RenewCall(c) PROVE OrderInv' /\ GrantInv' /\ CoverInv'
  <2>1. rtopic # Null /\ itr # 0 /\ pc[YieldThread] = "idle" /\ rtopic = sub_handles[itr] /\ YieldThread \in Thread
    BY <1>0, <1>2 DEF RenewCall, TableInv, SubsInv, LoopInv, Thread
  <2>2. itr \in Slot
    BY <1>0, <2>1 DEF TypeInv, Slot
  <2>3. \A u \in Thread : Leaving(u) => arg[cur[u]].topic # arg[rtopic].topic
    BY <2>1, <2>2 DEF SubsInv, OrderInv, TopicIn
  <2> QED
    BY <1>2, <2>1, <2>3, BeginOrder DEF RenewCall, Begin, SubsInv
<1> QED
  BY <1>1, <1>2

LEMMA UnsubscribeSubs ==
  ASSUME SettledUse, BaseInv, SubsInv, NEW t \in AppThread, NEW c \in Call, NEW f \in Topic,
         Unsubscribe(t, c, f)
  PROVE  OrderInv' /\ GrantInv' /\ CoverInv'
<1> USE SubscribeConstants DEF renew
<1>0. TypeInv /\ CallInv
  BY DEF BaseInv
<1>1. PICK S \in SUBSET Slot : SlotsOf(f) \subseteq S /\ UnsubscribeSlots(t, c, f, S)
  BY DEF Unsubscribe, SlotsOf
<1>2. /\ \A i \in Slot : sub_handles'[i] = sub_handles[i] \/ sub_handles'[i] = Null
      /\ \A i \in Slot : sub_handles'[i] # Null => arg[sub_handles[i]].topic # f
  BY <1>1 DEF UnsubscribeSlots, SlotsOf
<1>3. /\ t \in Thread /\ pc[t] = "idle" /\ Unused(c) /\ ~Pending(f)
      /\ UNCHANGED <<list, net, itr, is_connected, renewals>>
  BY <1>1 DEF UnsubscribeSlots, Thread, SettledUse
<1>4. \A d \in Call : Live(d) => arg[d].topic # f
  BY <1>3 DEF Pending, Live, Waiting
<1>5. CASE is_connected
  <2>1. PICK h : /\ h.topic = f /\ kind' = [kind EXCEPT ![c] = "UNSUBSCRIBE"]
                 /\ arg' = [arg EXCEPT ![c] = h] /\ cur' = [cur EXCEPT ![t] = c]
    BY <1>1, <1>5 DEF UnsubscribeSlots
  <2> QED
    BY <1>2, <1>3, <1>4, <2>1, BeginOrder DEF SubsInv
<1>6. CASE ~is_connected
  <2>1. UNCHANGED <<kind, arg, cur>>
    BY <1>1, <1>6 DEF UnsubscribeSlots
  <2>2. OrderInv' /\ GrantInv'
    BY <1>0, <1>2, <1>3, <2>1, DownAre, QuietOrder DEF SubsInv, list, net, Waiting
  <2> QED
    BY <1>3, <1>6, <2>2 DEF CoverInv
<1> QED
  BY <1>5, <1>6

LEMMA SendSubs ==
  ASSUME SettledUse, BaseInv, SubsInv, NEW t \in Thread, pc[t] = "send", is_connected,
         uplink' = Append(uplink, cur[t]), Leave(t, "accepted"),
         UNCHANGED <<is_connected, sub_handles, list, kind, arg, downlink, broker_subs, renewals>>
  PROVE  OrderInv' /\ GrantInv' /\ CoverInv'
<1> USE SubscribeConstants DEF list
<1>0. TypeInv /\ CallInv /\ OrderInv /\ LoopInv
  BY DEF BaseInv, SubsInv
<1>1. PICK c \in Call : c = cur[t]
  BY <1>0 DEF TypeInv, CallInv
<1>2. /\ DOMAIN uplink = 1 .. Len(uplink) /\ Len(uplink) \in Nat
      /\ DOMAIN uplink' = 1 .. Len(uplink) + 1
      /\ \A i \in 1 .. Len(uplink) : uplink'[i] = uplink[i]
      /\ uplink'[Len(uplink) + 1] = c
  BY <1>0, <1>1, AppendElements DEF TypeInv
<1>3. PICK n : n = Len(uplink) + 1
  OBVIOUS
<1>4. /\ n \in DOMAIN uplink' /\ uplink'[n] = c
      /\ \A p \in DOMAIN uplink : p \in DOMAIN uplink' /\ uplink'[p] = uplink[p] /\ p < n
      /\ \A p \in DOMAIN uplink' : p \in DOMAIN uplink \/ p = n
  BY <1>2, <1>3
<1>5. /\ \A u \in Thread : cur'[u] = cur[u] \/ cur'[u] = Null
      /\ Down' = Down /\ \A f : TopicIn(f)' <=> TopicIn(f)
  BY <1>0 DEF Leave, TypeInv, Down, TopicIn
<1>6. \A d \in Call : Live(d)' => Live(d)
  BY <1>5 DEF Live, Waiting
<1>7. kind[c] = "UNSUBSCRIBE" =>
         ~TopicIn(arg[c].topic) /\ \A d \in Call : Live(d) => arg[d].topic # arg[c].topic
  BY <1>0, <1>1 DEF OrderInv, Leaving
<1>8. /\ \A p \in DOMAIN uplink : uplink[p] \in Call
      /\ \A a \in Down : a.call \in Call
  BY <1>0, DownAre, ElementOfSeq, LenProperties DEF TypeInv
<1>9. ASSUME NEW u \in Thread, Leaving(u)'
      PROVE  /\ ~TopicIn(arg[cur[u]].topic)'
             /\ \A d \in Call : Live(d)' => arg[d].topic # arg[cur'[u]].topic
  <2>1. Leaving(u) /\ cur'[u] = cur[u]
    BY <1>5, <1>9 DEF Leaving
  <2>2. ~TopicIn(arg[cur[u]].topic)'
    BY <1>0, <2>1 DEF OrderInv, TopicIn
  <2> QED
    BY <1>0, <1>6, <2>1, <2>2 DEF OrderInv
<1>10. ASSUME NEW p \in DOMAIN uplink', kind[uplink'[p]] = "UNSUBSCRIBE"
       PROVE  /\ ~TopicIn(arg[uplink[p]].topic)'
              /\ \A q \in DOMAIN uplink' : Live(uplink[q])' /\ arg[uplink'[q]].topic = arg[uplink'[p]].topic => p < q
              /\ \A a \in Down : Live(a.call)' => arg[a.call].topic # arg[uplink'[p]].topic
  <2>1. CASE p = n
    <3>1. uplink'[p] = c /\ kind[c] = "UNSUBSCRIBE"
      BY <1>4, <1>10, <2>1
    <3>2. ~TopicIn(arg[uplink[p]].topic)'
      BY <1>7, <3>1 DEF TopicIn
    <3>3. \A q \in DOMAIN uplink' : Live(uplink[q])' => arg[uplink'[q]].topic # arg[c].topic
      <4>1. \A q \in DOMAIN uplink' : uplink'[q] \in Call
        BY <1>4, <1>8
      <4>2. ASSUME NEW q \in DOMAIN uplink', Live(uplink[q])' PROVE Live(uplink'[q])
        BY <1>6, <4>1, <4>2 DEF Live, Waiting
      <4> QED
        BY <1>7, <3>1, <4>1, <4>2
    <3>4. \A a \in Down : Live(a.call)' => arg[a.call].topic # arg[c].topic
      BY <1>6, <1>7, <1>8, <3>1
    <3> QED
      BY <3>1, <3>2, <3>3, <3>4
  <2>2. CASE p # n
    <3>1. p \in DOMAIN uplink /\ uplink'[p] = uplink[p] /\ kind[uplink[p]] = "UNSUBSCRIBE" /\ p < n
      BY <1>4, <1>10, <2>2
    <3>2. ~TopicIn(arg[uplink[p]].topic)'
      BY <1>0, <3>1 DEF OrderInv, TopicIn
    <3>3. ASSUME NEW q \in DOMAIN uplink', Live(uplink[q])', arg[uplink'[q]].topic = arg[uplink'[p]].topic
          PROVE  p < q
      <4>1. CASE q = n
        BY <3>1, <4>1
      <4>2. CASE q # n
        <5>1. q \in DOMAIN uplink /\ uplink'[q] = uplink[q] /\ uplink[q] \in Call
          BY <1>4, <1>8, <4>2
        <5>2. Live(uplink[q])
          BY <3>3, <5>1, <1>5 DEF Live, Waiting
        <5> QED
          BY <1>0, <3>1, <3>3, <5>1, <5>2 DEF OrderInv
      <4> QED
        BY <4>1, <4>2
    <3>4. \A a \in Down : Live(a.call)' => arg[a.call].topic # arg[uplink[p]].topic
      BY <1>0, <1>6, <1>8, <3>1 DEF OrderInv
    <3> QED
      BY <3>1, <3>2, <3>3, <3>4
  <2> QED
    BY <2>1, <2>2
<1>11. OrderInv'
  BY <1>5, <1>9, <1>10 DEF OrderInv
<1>12. GrantInv'
  BY <1>5, <1>6, <1>8 DEF SubsInv, GrantInv
<1>13. ASSUME NEW i \in Slot, sub_handles[i] # Null
       PROVE  arg[sub_handles[i]].topic \in broker_subs \/ Renewed(i)' \/ (itr' # 0 /\ itr' <= i)
  <2>1. Renewed(i) => Renewed(i)'
    BY <1>4 DEF Renewed
  <2>2. CASE t # YieldThread
    <3>1. itr' = itr
      BY <2>2 DEF Leave
    <3> QED
      BY <1>13, <2>1, <3>1 DEF SubsInv, CoverInv
  <2>3. CASE t = YieldThread
    <3>1. itr # 0 /\ c \in renewals /\ kind[c] = "SUBSCRIBE" /\ arg[c] = arg[sub_handles[itr]]
      BY <1>0, <1>1, <2>3 DEF LoopInv
    <3>2. itr = i => Renewed(i)'
      BY <1>4, <3>1 DEF Renewed
    <3>3. itr # i /\ itr <= i => itr' # 0 /\ itr' <= i
      BY <1>0, <2>3, <3>1 DEF Leave, Slot, TypeInv
    <3> QED
      BY <1>13, <2>1, <3>2, <3>3 DEF SubsInv, CoverInv
  <2> QED
    BY <2>2, <2>3
<1>14. CoverInv'
  BY <1>13 DEF CoverInv
<1> QED
  BY <1>11, <1>12, <1>14

LEMMA CallStepSubs ==
  ASSUME SettledUse, BaseInv, SubsInv, RenewalHasRoom, NEW t \in Thread, CallStep(t)
  PROVE  OrderInv' /\ GrantInv' /\ CoverInv'
<1> USE SubscribeConstants DEF list, net
<1>0. TypeInv /\ CallInv
  BY DEF BaseInv
<1>1. cur[t] \in Call
  <2>1. pc[t] # "idle"
    BY DEF CallStep, Push, PushIf, Send, Undo
  <2> QED
    BY <1>0, <2>1 DEF TypeInv, CallInv
<1>2. CASE Send(t) /\ uplink' # uplink
  <2>1. /\ pc[t] = "send" /\ is_connected /\ uplink' = Append(uplink, cur[t]) /\ Leave(t, "accepted")
        /\ UNCHANGED <<is_connected, sub_handles, list, kind, arg, downlink, broker_subs, renewals>>
    BY <1>2 DEF Send
  <2> QED
    BY <2>1, SendSubs
<1>3. CASE Send(t) /\ uplink' = uplink
  <2>1. \/ uplink' = Append(uplink, cur[t])
        \/ UNCHANGED <<cur, itr>>
    BY <1>3 DEF Send
  <2>2. uplink # Append(uplink, cur[t])
    <3>1. Len(Append(uplink, cur[t])) = Len(uplink) + 1 /\ Len(uplink) \in Nat
      BY <1>0, <1>1, AppendElements DEF TypeInv
    <3> QED
      BY <3>1
  <2>3. /\ UNCHANGED <<is_connected, sub_handles, list, kind, arg, uplink, downlink, broker_subs, renewals>>
        /\ UNCHANGED <<cur, itr>>
    BY <1>3, <2>1, <2>2 DEF Send
  <2> QED
    BY <1>0, <2>3, DownAre, QuietOrder, QuietCover DEF SubsInv, Waiting
<1>4. CASE Push(t) \/ Undo(t)
  <2>1. UNCHANGED <<is_connected, sub_handles, kind, arg, uplink, downlink, broker_subs, renewals>>
    BY <1>4 DEF Push, PushIf, Undo
  <2>2. \A u \in Thread : cur'[u] = cur[u] \/ cur'[u] = Null
    BY <1>0, <1>4 DEF Push, PushIf, Undo, Leave, TypeInv
  <2>3. \A c \in Call : c \in list_sub_wait_ack' /\ node_state'[c] = "NORMAL" => Waiting(c) \/ c = cur[t]
    BY <1>0, <1>1, <1>4 DEF Push, PushIf, Undo, TypeInv, Waiting
  <2>4. OrderInv' /\ GrantInv'
    BY <1>0, <2>1, <2>2, <2>3, DownAre, QuietOrder DEF SubsInv
  <2>5. ASSUME is_connected PROVE itr' = itr
    <3>1. CASE t # YieldThread
      BY <1>4, <3>1 DEF Push, PushIf, Undo, Leave
    <3>2. CASE t = YieldThread
      <4>1. ~Undo(t)
        BY <2>5, <3>2 DEF SubsInv, LoopInv, Undo
      <4>2. pc[YieldThread] = "lock"
        BY <1>4, <3>2, <4>1 DEF Push, PushIf
      <4> QED
        BY <1>4, <3>2, <4>1, <4>2 DEF Push, PushIf, RenewalHasRoom
    <3> QED
      BY <3>1, <3>2
  <2>6. CoverInv'
    <3>1. CASE is_connected
      BY <2>1, <2>5, <3>1, QuietCover DEF SubsInv
    <3>2. CASE ~is_connected
      BY <2>1, <3>2 DEF CoverInv
    <3> QED
      BY <3>1, <3>2
  <2> QED
    BY <2>4, <2>6
<1> QED
  BY <1>2, <1>3, <1>4 DEF CallStep

LEMMA AckSubs ==
  ASSUME SettledUse, BaseInv, SubsInv, HandleSuback \/ HandleUnsuback
  PROVE  OrderInv' /\ GrantInv' /\ CoverInv'
<1> USE SubscribeConstants DEF calls, client
<1>0. TypeInv /\ OrderInv /\ GrantInv /\ CoverInv
  BY DEF BaseInv, SubsInv
<1>1. PICK a : a = Head(downlink)
  OBVIOUS
<1>2. PICK c : c = a.call
  OBVIOUS
<1>3. /\ YieldFree /\ downlink # <<>> /\ downlink' = Tail(downlink) /\ Mask(Head(downlink).call)
      /\ UNCHANGED <<list_sub_wait_ack, timedout, calls, itr, rtopic, uplink, ret>>
      /\ UNCHANGED <<is_connected, kind, arg, cur, broker_subs, renewals>>
  BY DEF HandleSuback, HandleUnsuback
<1>4. /\ c \in Call /\ (\A d \in Call \ {c} : node_state'[d] = node_state[d])
      /\ c \in list_sub_wait_ack => node_state'[c] = "INVALID" /\ Waiting(c)
  BY <1>1, <1>2, <1>3, AckBase
<1>5. a \in Down /\ Down' \subseteq Down
  BY <1>0, <1>1, <1>3, DownAre
<1>6. \A d \in Call : d \in list_sub_wait_ack' /\ node_state'[d] = "NORMAL" => Waiting(d)
  BY <1>3, <1>4 DEF Waiting
<1>7. CASE UNCHANGED sub_handles
  BY <1>0, <1>3, <1>5, <1>6, <1>7, QuietOrder, QuietCover
<1>8. CASE /\ kind[c] = "SUBSCRIBE" /\ c \in list_sub_wait_ack /\ a.ok /\ FreeSlots # {}
           /\ sub_handles' = [sub_handles EXCEPT ![FirstFree] = c]
  <2>1. Live(c) /\ arg[c].topic \in broker_subs
    BY <1>0, <1>2, <1>4, <1>5, <1>8 DEF Live, GrantInv
  <2>2. \A i \in Slot : sub_handles'[i] = sub_handles[i] \/ sub_handles'[i] = c
    BY <1>0, <1>8, FirstFreeIsFree DEF TypeInv
  <2>3. \A d \in Call : Live(d)' => Live(d)
    BY <1>3, <1>6 DEF Live, Waiting
  <2>4. \A f : TopicIn(f)' => TopicIn(f) \/ f = arg[c].topic
    BY <1>3, <2>2 DEF TopicIn
  <2>5. ASSUME NEW u \in Thread, Leaving(u)'
        PROVE  /\ ~TopicIn(arg[cur[u]].topic)'
               /\ \A d \in Call : Live(d)' => arg[d].topic # arg[cur[u]].topic
    <3>1. Leaving(u)
      BY <1>3, <2>5 DEF Leaving
    <3>2. /\ ~TopicIn(arg[cur[u]].topic) /\ arg[c].topic # arg[cur[u]].topic
          /\ \A d \in Call : Live(d) => arg[d].topic # arg[cur[u]].topic
      BY <1>0, <1>4, <2>1, <3>1 DEF OrderInv
    <3>3. ~TopicIn(arg[cur[u]].topic)'
      BY <1>3, <2>2, <3>2 DEF TopicIn
    <3> QED
      BY <2>3, <3>2, <3>3
  <2>6. ASSUME NEW p \in DOMAIN uplink, kind[uplink[p]] = "UNSUBSCRIBE"
        PROVE  /\ ~TopicIn(arg[uplink[p]].topic)'
               /\ \A q \in DOMAIN uplink : Live(uplink[q])' /\ arg[uplink[q]].topic = arg[uplink[p]].topic => p < q
               /\ \A b \in Down' : Live(b.call)' => arg[b.call].topic # arg[uplink[p]].topic
    <3>1. ~TopicIn(arg[uplink[p]].topic) /\ arg[c].topic # arg[uplink[p]].topic
      BY <1>0, <1>2, <1>5, <2>1, <2>6 DEF OrderInv
    <3>2. ~TopicIn(arg[uplink[p]].topic)'
      BY <1>3, <2>2, <3>1 DEF TopicIn
    <3>3. \A q \in DOMAIN uplink : uplink[q] \in Call /\ (Live(uplink[q])' => Live(uplink[q]))
      <4>1. \A q \in DOMAIN uplink : uplink[q] \in Call
        BY <1>0, ElementOfSeq, LenProperties DEF TypeInv
      <4> QED
        BY <1>3, <2>3, <4>1
    <3>4. \A b \in Down' : b \in Down /\ (Live(b.call)' => Live(b.call))
      BY <1>0, <1>5, <2>3, DownAre
    <3> QED
      BY <1>0, <2>6, <3>2, <3>3, <3>4 DEF OrderInv
  <2>7. OrderInv'
    BY <1>3, <2>5, <2>6 DEF OrderInv
  <2>8. GrantInv'
    BY <1>0, <1>3, <1>5, <2>3, DownAre DEF GrantInv
  <2>9. CoverInv'
    <3>1. ASSUME NEW i \in Slot, sub_handles'[i] = sub_handles[i], Renewed(i) PROVE Renewed(i)'
      BY <1>3, <3>1 DEF Renewed
    <3> QED
      BY <1>0, <1>3, <2>1, <2>2, <3>1 DEF CoverInv
  <2> QED
    BY <2>7, <2>8, <2>9
<1> QED
  <2>1. HandleUnsuback => UNCHANGED sub_handles
    BY DEF HandleUnsuback
  <2>2. HandleSuback => \/ UNCHANGED sub_handles
                        \/ /\ kind[c] = "SUBSCRIBE" /\ c \in list_sub_wait_ack /\ a.ok /\ FreeSlots # {}
                           /\ sub_handles' = [sub_handles EXCEPT ![FirstFree] = c]
    BY <1>1, <1>2 DEF HandleSuback
  <2> QED
    BY <1>7, <1>8, <2>1, <2>2

LEMMA BrokerSubs ==
  ASSUME SettledUse, BaseInv, SubsInv, Broker
  PROVE  OrderInv' /\ GrantInv' /\ CoverInv'
<1> USE SubscribeConstants DEF client, list, calls, renew
<1>0. TypeInv /\ OrderInv /\ GrantInv /\ CoverInv
  BY DEF BaseInv, SubsInv
<1>1. /\ uplink # <<>> /\ uplink' = Tail(uplink)
      /\ UNCHANGED <<is_connected, sub_handles, list_sub_wait_ack, node_state, kind, arg, cur, itr, renewals>>
  BY DEF Broker
<1>2. PICK c : c = Head(uplink)
  OBVIOUS
<1>3. /\ c \in Call /\ c = uplink[1] /\ 1 \in DOMAIN uplink
      /\ DOMAIN uplink = 1 .. Len(uplink) /\ DOMAIN uplink' = 1 .. Len(uplink) - 1
      /\ Len(uplink) \in Nat \ {0}
      /\ \A p \in DOMAIN uplink' : p + 1 \in DOMAIN uplink /\ uplink'[p] = uplink[p + 1]
  BY <1>0, <1>1, <1>2, TailElements DEF TypeInv
<1>4. \A p \in DOMAIN uplink' : p \in Nat /\ p + 1 > 1
  BY <1>3
<1>5. PICK a : a.call = c /\ a \in Ack /\ downlink' = Append(downlink, a)
               /\ \/ /\ kind[c] = "SUBSCRIBE" /\ broker_subs' = broker_subs \cup {arg[c].topic}
                  \/ /\ kind[c] = "SUBSCRIBE" /\ c \notin renewals /\ ~a.ok /\ UNCHANGED broker_subs
                  \/ /\ kind[c] = "UNSUBSCRIBE" /\ broker_subs' = broker_subs \ {arg[c].topic}
  <2>1. \A ok \in BOOLEAN : [call |-> c, ok |-> ok] \in Ack
    BY <1>3 DEF Ack
  <2>2. PICK ok \in BOOLEAN :
            /\ downlink' = Append(downlink, [call |-> c, ok |-> ok])
            /\ \/ kind[c] = "SUBSCRIBE" /\ broker_subs' = broker_subs \cup {arg[c].topic}
               \/ /\ kind[c] = "SUBSCRIBE" /\ ~ok /\ UNCHANGED broker_subs
                  /\ c \in renewals => "renewal_refused" \in Adversity
               \/ kind[c] = "UNSUBSCRIBE" /\ broker_subs' = broker_subs \ {arg[c].topic}
    BY <1>2 DEF Broker
  <2>3. PICK a : a = [call |-> c, ok |-> ok]
    OBVIOUS
  <2>4. a.call = c /\ a.ok = ok /\ a \in Ack /\ downlink' = Append(downlink, a)
    BY <2>1, <2>2, <2>3
  <2>5. "renewal_refused" \notin Adversity
    BY DEF SettledUse
  <2> QED
    BY <2>2, <2>4, <2>5
<1>6. Down' = Down \cup {a}
  <2>1. /\ DOMAIN downlink = 1 .. Len(downlink) /\ Len(downlink) \in Nat
        /\ DOMAIN downlink' = 1 .. Len(downlink) + 1
        /\ \A i \in 1 .. Len(downlink) : downlink'[i] = downlink[i]
        /\ downlink'[Len(downlink) + 1] = a
    BY <1>0, <1>5, AppendElements DEF TypeInv
  <2> QED
    BY <2>1 DEF Down
<1>7. /\ \A d \in Call : Live(d)' <=> Live(d)
      /\ \A f : TopicIn(f)' <=> TopicIn(f)
      /\ \A b \in Down : b.call \in Call
  BY <1>0, <1>1, DownAre DEF Live, Waiting, TopicIn
<1>8. ASSUME NEW p \in DOMAIN uplink', kind[uplink'[p]] = "UNSUBSCRIBE"
      PROVE  /\ ~TopicIn(arg[uplink[p]].topic)'
             /\ \A q \in DOMAIN uplink' : Live(uplink[q])' /\ arg[uplink'[q]].topic = arg[uplink'[p]].topic => p < q
             /\ \A b \in Down' : Live(b.call)' => arg[b.call].topic # arg[uplink'[p]].topic
  <2>1. p + 1 \in DOMAIN uplink /\ uplink'[p] = uplink[p + 1] /\ kind[uplink[p + 1]] = "UNSUBSCRIBE" /\ p + 1 > 1
    BY <1>3, <1>4, <1>8
  <2>2. ~TopicIn(arg[uplink[p]].topic)'
    BY <1>0, <1>1, <2>1 DEF OrderInv, TopicIn
  <2>3. ASSUME NEW q \in DOMAIN uplink', Live(uplink[q])', arg[uplink'[q]].topic = arg[uplink'[p]].topic
        PROVE  p < q
    <3>1. q + 1 \in DOMAIN uplink /\ uplink'[q] = uplink[q + 1]
      BY <1>3
    <3>2. Live(uplink[q + 1])
      BY <1>1, <2>3, <3>1 DEF Live, Waiting
    <3>3. p + 1 < q + 1
      BY <1>0, <2>1, <2>3, <3>1, <3>2 DEF OrderInv
    <3> QED
      BY <1>3, <3>3
  <2>4. \A b \in Down : Live(b.call)' => arg[b.call].topic # arg[uplink'[p]].topic
    BY <1>0, <1>7, <2>1 DEF OrderInv
  <2>5. Live(c) => arg[c].topic # arg[uplink'[p]].topic
    <3>1. ~(p + 1 < 1)
      BY <1>3
    <3> QED
      BY <1>0, <1>3, <2>1, <3>1 DEF OrderInv
  <2>6. Live(a.call)' => arg[a.call].topic # arg[uplink'[p]].topic
    BY <1>3, <1>5, <1>7, <2>5
  <2> QED
    BY <1>6, <2>2, <2>3, <2>4, <2>6
<1>9. ASSUME NEW u \in Thread, Leaving(u)'
      PROVE  /\ ~TopicIn(arg[cur[u]].topic)'
             /\ \A d \in Call : Live(d)' => arg[d].topic # arg[cur[u]].topic
  <2>1. Leaving(u)
    BY <1>1, <1>9 DEF Leaving
  <2>2. ~TopicIn(arg[cur[u]].topic)'
    BY <1>0, <1>1, <2>1 DEF OrderInv, TopicIn
  <2> QED
    BY <1>0, <1>7, <2>1, <2>2 DEF OrderInv
<1>10. OrderInv'
  BY <1>1, <1>8, <1>9 DEF OrderInv
<1>11. kind[c] = "UNSUBSCRIBE" => /\ ~TopicIn(arg[c].topic)
                                  /\ \A b \in Down : Live(b.call) => arg[b.call].topic # arg[c].topic
  BY <1>0, <1>3 DEF OrderInv
<1>12. GrantInv'
  <2>1. ASSUME NEW b \in Down, b.ok, Live(b.call) PROVE arg[b.call].topic \in broker_subs'
    BY <1>0, <1>5, <1>11, <2>1 DEF GrantInv
  <2>2. a.ok /\ Live(a.call) => arg[a.call].topic \in broker_subs'
    BY <1>5 DEF Live
  <2>3. \A b \in Down : Live(b.call)' <=> Live(b.call)
    BY <1>7
  <2>4. Live(a.call)' <=> Live(a.call)
    BY <1>3, <1>5, <1>7
  <2> QED
    BY <1>1, <1>6, <2>1, <2>2, <2>3, <2>4 DEF GrantInv
<1>13. ASSUME NEW i \in Slot, sub_handles[i] # Null
       PROVE  /\ Renewed(i) => arg[sub_handles[i]].topic \in broker_subs' \/ Renewed(i)'
              /\ arg[sub_handles[i]].topic \in broker_subs => arg[sub_handles[i]].topic \in broker_subs'
  <2>1. ASSUME NEW p \in DOMAIN uplink, p # 1, uplink[p] \in renewals, kind[uplink[p]] = "SUBSCRIBE",
               arg[uplink[p]].topic = arg[sub_handles[i]].topic
        PROVE  Renewed(i)'
    <3>1. p - 1 \in DOMAIN uplink' /\ (p - 1) + 1 = p
      BY <1>3, <2>1
    <3>2. uplink'[p - 1] = uplink[p]
      BY <1>3, <3>1
    <3> QED
      BY <1>1, <2>1, <3>1, <3>2 DEF Renewed
  <2>2. c \in renewals /\ kind[c] = "SUBSCRIBE" => arg[c].topic \in broker_subs'
    BY <1>5
  <2>3. arg[sub_handles[i]].topic \in broker_subs => arg[sub_handles[i]].topic \in broker_subs'
    BY <1>5, <1>11, <1>13 DEF TopicIn
  <2> QED
    BY <1>3, <2>1, <2>2, <2>3 DEF Renewed
<1>14. CoverInv'
  BY <1>0, <1>1, <1>13 DEF CoverInv
<1> QED
  BY <1>10, <1>12, <1>14

LEMMA SubsStep ==
  ASSUME SettledUse, BaseInv, SubsInv, RenewalHasRoom, [Next]_vars
  PROVE  SubsInv'
<1> USE SubscribeConstants DEF client, list, calls, renew, net
<1>0. TypeInv /\ LoopInv' /\ LoopInv
  BY LoopStep DEF BaseInv, SubsInv
<1>1. CASE \E t \in AppThread, c \in Call :
             (\E h \in Handle : Subscribe(t, c, h)) \/ (\E f \in Topic : Unsubscribe(t, c, f))
  BY <1>0, <1>1, SubscribeSubs, UnsubscribeSubs DEF SubsInv
<1>2. CASE \E t \in Thread : CallStep(t)
  BY <1>0, <1>2, CallStepSubs DEF SubsInv
<1>3. CASE HandleSuback \/ HandleUnsuback
  BY <1>0, <1>3, AckSubs DEF SubsInv
<1>4. CASE Broker
  BY <1>0, <1>4, BrokerSubs DEF SubsInv
<1>5. CASE \E c \in Call : RenewCall(c)
  BY <1>0, <1>5, SubscribeSubs DEF SubsInv
<1>6. CASE Sweep \/ (\E c \in Call : TimerExpires(c)) \/ UNCHANGED vars
  <2>1. /\ UNCHANGED <<is_connected, sub_handles, node_state, kind, arg, cur, itr, uplink, downlink,
                       broker_subs, renewals>>
        /\ list_sub_wait_ack' \subseteq list_sub_wait_ack
    BY <1>6 DEF Sweep, SweepNodes, TimerExpires, vars
  <2> QED
    BY <1>0, <2>1, DownAre, QuietOrder, QuietCover DEF SubsInv, Waiting
<1>7. CASE RenewNext \/ RenewNoConn \/ Reconnected
  <2>1. UNCHANGED <<sub_handles, list_sub_wait_ack, node_state, kind, arg, cur, uplink, downlink,
                    broker_subs, renewals>>
    BY <1>7 DEF RenewNext, RenewNoConn, Reconnected
  <2>2. OrderInv' /\ GrantInv'
    BY <1>0, <2>1, DownAre, QuietOrder DEF SubsInv, Waiting
  <2>3. ASSUME NEW i \in Slot, sub_handles[i] # Null, is_connected'
        PROVE  (is_connected /\ (itr # 0 /\ itr <= i => itr' # 0 /\ itr' <= i)) \/ (itr' # 0 /\ itr' <= i)
    <3>1. i \in Nat /\ 1 <= i /\ i <= MAX_MESSAGE_HANDLERS
      BY DEF Slot
    <3>2. CASE RenewNext
      <4>1. itr = i => itr' = itr
        BY <2>3, <3>2 DEF RenewNext
      <4>2. is_connected /\ (itr' = itr \/ itr' = IF itr = MAX_MESSAGE_HANDLERS THEN 0 ELSE itr + 1)
        BY <2>3, <3>2 DEF RenewNext
      <4> QED
        BY <1>0, <3>1, <4>1, <4>2 DEF TypeInv
    <3>3. CASE RenewNoConn
      BY <2>3, <3>3 DEF RenewNoConn
    <3>4. CASE Reconnected
      BY <3>1, <3>4 DEF Reconnected
    <3> QED
      BY <1>7, <3>2, <3>3, <3>4
  <2>4. CoverInv'
    <3>1. \A i \in Slot : Renewed(i)' <=> Renewed(i)
      BY <2>1 DEF Renewed
    <3> QED
      BY <2>1, <2>3, <3>1 DEF SubsInv, CoverInv
  <2> QED
    BY <1>0, <2>2, <2>4 DEF SubsInv
<1>8. CASE ConnectionLost
  <2>1. ~is_connected' /\ uplink' = <<>> /\ downlink' = <<>>
        /\ UNCHANGED <<sub_handles, list_sub_wait_ack, node_state, kind, arg, cur>>
    BY <1>8 DEF ConnectionLost
  <2>2. Down' = {} /\ DOMAIN uplink' = {}
    BY <1>0, <2>1, DownAre
  <2>3. CoverInv' /\ GrantInv'
    BY <2>1, <2>2 DEF CoverInv, GrantInv
  <2>4. /\ \A t \in Thread : Leaving(t)' <=> Leaving(t)
        /\ \A c \in Call : Live(c)' <=> Live(c)
        /\ \A f : TopicIn(f)' <=> TopicIn(f)
    BY <2>1 DEF Leaving, Live, Waiting, TopicIn
  <2>5. ASSUME NEW t \in Thread, Leaving(t) PROVE ~TopicIn(arg[cur[t]].topic)'
    BY <2>1, <2>5 DEF SubsInv, OrderInv, TopicIn
  <2>6. OrderInv'
    BY <2>1, <2>2, <2>4, <2>5 DEF SubsInv, OrderInv
  <2> QED
    BY <1>0, <2>3, <2>6 DEF SubsInv
<1> QED
  BY <1>1, <1>2, <1>3, <1>4, <1>5, <1>6, <1>7, <1>8 DEF Next, YieldStep

(* Once all is quiet, every topic of the table is subscribed at the broker *)
(* ("re-subscribe topics if reconnected"), for any number of calls, topics *)
(* and entries and any sequence of lost connections, also in the middle of *)
(* qcloud_iot_mqtt_resubscribe: the renewal goes over every entry again    *)
(* after each reconnection, and no unsubscription overtakes it.  The user  *)
(* calls from one thread, writes to a live connection succeed, and the     *)
(* renewal finds room in list_sub_wait_ack, which a subscribe call fails   *)
(* without; each of these is needed.                                       *)
THEOREM TableRenewed ==
  ASSUME SettledUse
  PROVE  Spec /\ []RenewalHasRoom => []TableIsSubscribed
<1>1. Init => BaseInv /\ SubsInv
  <2> SUFFICES ASSUME Init PROVE SubsInv
    BY BaseInit
  <2>1. LoopInv
    BY DEF Init, LoopInv, Thread
  <2>2. Down = {} /\ DOMAIN uplink = {} /\ \A t \in Thread : ~Leaving(t)
    BY DEF Init, Down, Leaving
  <2>3. OrderInv /\ GrantInv
    BY <2>2 DEF OrderInv, GrantInv
  <2>4. CoverInv
    BY DEF Init, CoverInv
  <2> QED
    BY <2>1, <2>3, <2>4 DEF SubsInv
<1>2. BaseInv /\ SubsInv /\ RenewalHasRoom /\ [Next]_vars => BaseInv' /\ SubsInv'
  BY BaseStep, SubsStep DEF SettledUse, Prompt
<1>3. SubsInv => TableIsSubscribed
  <2> SUFFICES ASSUME SubsInv, Quiet, NEW i \in Slot \ FreeSlots
               PROVE  arg[sub_handles[i]].topic \in broker_subs
    BY DEF TableIsSubscribed
  <2>1. sub_handles[i] # Null /\ is_connected /\ itr = 0 /\ DOMAIN uplink = {}
    BY DEF FreeSlots, Quiet
  <2>2. ~Renewed(i)
    BY <2>1 DEF Renewed
  <2> QED
    BY <2>1, <2>2 DEF SubsInv, CoverInv
<1> QED
  BY <1>1, <1>2, <1>3, PTL DEF Spec

(* With no more calls than places in the list, as in the settled run, the  *)
(* renewal always finds room.                                              *)
COROLLARY TableRenewedFewCalls ==
  ASSUME SettledUse, IsFiniteSet(Call), Cardinality(Call) <= MAX_MESSAGE_HANDLERS
  PROVE  Spec => []TableIsSubscribed
<1>1. BaseInv => RenewalHasRoom
  <2> SUFFICES ASSUME BaseInv, pc[YieldThread] = "lock"
               PROVE  Cardinality(list_sub_wait_ack) < MAX_MESSAGE_HANDLERS
    BY DEF RenewalHasRoom
  <2>1. PICK c \in Call : c \notin list_sub_wait_ack
    <3>1. cur[YieldThread] \in Call /\ cur[YieldThread] \notin list_sub_wait_ack
      BY DEF BaseInv, TypeInv, CallInv, Thread
    <3> QED
      BY <3>1
  <2>2. list_sub_wait_ack \subseteq Call \ {c}
    BY <2>1 DEF BaseInv, TypeInv
  <2>3. IsFiniteSet(Call \ {c}) /\ Cardinality(Call \ {c}) = Cardinality(Call) - 1
    BY <2>1, FS_RemoveElement
  <2>4. IsFiniteSet(list_sub_wait_ack) /\ Cardinality(list_sub_wait_ack) <= Cardinality(Call \ {c})
    BY <2>2, <2>3, FS_Subset
  <2>5. Cardinality(Call) \in Nat /\ Cardinality(list_sub_wait_ack) \in Nat
    BY <2>4, FS_CardinalityType
  <2> QED
    BY <2>3, <2>4, <2>5, SubscribeConstants
<1>2. BaseInv /\ [Next]_vars => BaseInv'
  BY BaseStep DEF SettledUse, Prompt
<1> QED
  BY <1>1, <1>2, BaseInit, TableRenewed, PTL DEF Spec

=============================================================================
