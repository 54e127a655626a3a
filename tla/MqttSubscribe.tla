--------------------------- MODULE MqttSubscribe ---------------------------
(***************************************************************************)
(* Subscriptions of the MQTT client: subscribe and unsubscribe calls, the  *)
(* list of requests that wait for SUBACK or UNSUBACK, the table            *)
(* sub_handles of message handlers, the time-out sweep, and the renewal of *)
(* all subscriptions after a reconnection.                                 *)
(*                                                                         *)
(* Data abstraction.  A call stands for everything it allocates: its       *)
(* packet identifier, its list node and its heap copy of the topic filter. *)
(* A table entry is the call whose copy it points to.  The topic string of *)
(* a handle and its two callbacks are a member of Topic and of Handler.    *)
(* Packet identifiers are unique (module MqttPublish).                     *)
(***************************************************************************)
EXTENDS Integers, FiniteSets, Sequences

CONSTANTS
    AppThread, YieldThread,
    Call,                  \* bound: subscribe and unsubscribe activations
    Topic, Handler,
    Wildcard,              \* the topics that contain "/#" or "/+"
    Null,
    MAX_MESSAGE_HANDLERS,  \* 10 in mqtt_client.h
    HasEventHandler,       \* whether event_handle.h_fp is set
    Adversity              \* which of the circumstances below may occur

Thread == AppThread \cup {YieldThread}

Circumstance ==
    { "send_fails",                   \* a write to a live connection fails
      "slow_send",                    \* sub_start_time runs out while the call still sends
      "unsubscribe_while_pending",    \* topic unsubscribed before its SUBACK is in
      "unsubscribe_while_renewing",   \* ... during the renewal after a reconnection
      "late_unsuback",                \* UNSUBACK still on its way at the time-out
      "renewal_refused" }             \* the broker refuses a topic it had granted

ASSUME SubscribeConstants ==
    /\ YieldThread \notin AppThread
    /\ Null \notin Call \cup Thread
    /\ Wildcard \subseteq Topic
    /\ MAX_MESSAGE_HANDLERS \in Nat \ {0} /\ HasEventHandler \in BOOLEAN
    /\ Adversity \subseteq Circumstance

VARIABLES
    is_connected, lock_write_buf,
    sub_handles,         \* table entry -> call that owns the topic copy, or Null
    list_sub_wait_ack,   \* calls whose node is in the list
    node_state,
    timedout,            \* calls whose sub_start_time has run out
    heap,                \* the topic copy of each call: "none", "live", "freed"
    kind, arg,           \* SUBSCRIBE or UNSUBSCRIBE; topic and handler
    pc, cur,             \* one activation per thread
    ypc,                 \* yield loop: about to read, or to sweep after a packet
    itr, rtopic,         \* resubscribe: index (0: not running) and topic pointer
    uplink, downlink, broker_subs,
    ret, answered,       \* return of each call; subscriber events about it
    renewals,            \* calls made by the renewal, not by the user
    wanted               \* handles the user subscribed and has not unsubscribed

client == <<is_connected, lock_write_buf, sub_handles>>
list   == <<list_sub_wait_ack, node_state, timedout>>
calls  == <<kind, arg, pc, cur>>
renew  == <<ypc, itr, rtopic>>
net    == <<uplink, downlink, broker_subs>>
vars == <<client, list, heap, calls, renew, net, ret, answered, renewals, wanted>>

Handle == [topic : Topic, handler : Handler]
Slot   == 1 .. MAX_MESSAGE_HANDLERS
Ack    == [call : Call, ok : BOOLEAN]

TypeOK ==
    /\ is_connected \in BOOLEAN /\ lock_write_buf \in Thread \cup {Null}
    /\ sub_handles \in [Slot -> Call \cup {Null}]
    /\ list_sub_wait_ack \in SUBSET Call
    /\ node_state \in [Call -> {"none", "NORMAL", "INVALID"}]
    /\ timedout \in SUBSET Call
    /\ heap \in [Call -> {"none", "live", "freed"}]
    /\ kind \in [Call -> {"none", "SUBSCRIBE", "UNSUBSCRIBE"}]
    /\ arg \in [Call -> Handle \cup {Null}]
    /\ pc \in [Thread -> {"idle", "lock", "send", "undo"}]
    /\ cur \in [Thread -> Call \cup {Null}]
    /\ ypc \in {"read", "sweep"}
    /\ itr \in 0 .. MAX_MESSAGE_HANDLERS /\ rtopic \in Call \cup {Null}
    /\ uplink \in Seq(Call) /\ downlink \in Seq(Ack)
    /\ broker_subs \in SUBSET Topic
    /\ ret \in [Call -> {"none", "error", "accepted"}]
    /\ answered \in [Call -> Seq({"SUCCESS", "NACK", "TIMEOUT"})]
    /\ renewals \in SUBSET Call /\ wanted \in SUBSET Handle

Init ==
    /\ is_connected = TRUE /\ lock_write_buf = Null
    /\ sub_handles = [i \in Slot |-> Null]
    /\ list_sub_wait_ack = {} /\ timedout = {}
    /\ node_state = [c \in Call |-> "none"]
    /\ heap = [c \in Call |-> "none"]
    /\ kind = [c \in Call |-> "none"] /\ arg = [c \in Call |-> Null]
    /\ pc = [t \in Thread |-> "idle"] /\ cur = [t \in Thread |-> Null]
    /\ ypc = "read" /\ itr = 0 /\ rtopic = Null
    /\ uplink = <<>> /\ downlink = <<>> /\ broker_subs = {}
    /\ ret = [c \in Call |-> "none"] /\ answered = [c \in Call |-> <<>>]
    /\ renewals = {} /\ wanted = {}

-----------------------------------------------------------------------------
Unused(c) == kind[c] = "none"

(* Table entries whose handle has topic f.                                 *)
SlotsOf(f) == {i \in Slot : sub_handles[i] # Null /\ arg[sub_handles[i]].topic = f}

IdenticalIn_Never(c) == {}

(* _check_handle_is_identical: same topic, same callbacks.                 *)
IdenticalIn(c) == {i \in Slot : sub_handles[i] # Null /\ arg[sub_handles[i]] = arg[c]}

FreeSlots == {i \in Slot : sub_handles[i] = Null}
FirstFree == CHOOSE i \in FreeSlots : \A j \in FreeSlots : i <= j

(* A subscribe request for topic f that no SUBACK or time-out has settled. *)
Pending(f) == \E c \in Call : /\ kind[c] = "SUBSCRIBE" /\ arg[c].topic = f
                              /\ \/ c \in list_sub_wait_ack /\ node_state[c] = "NORMAL"
                                 \/ \E t \in Thread : cur[t] = c

(* Thread t enters the common part of a call with a fresh topic copy.      *)
Begin(t, c, k, h) ==
    /\ kind' = [kind EXCEPT ![c] = k]
    /\ arg' = [arg EXCEPT ![c] = h]
    /\ heap' = [heap EXCEPT ![c] = "live"]
    /\ pc' = [pc EXCEPT ![t] = "lock"]
    /\ cur' = [cur EXCEPT ![t] = c]

(* Thread t leaves the call.  In the renewal loop an error ends the loop   *)
(* and success moves on to the next entry.                                 *)
Leave(t, rc) ==
    /\ pc' = [pc EXCEPT ![t] = "idle"]
    /\ cur' = [cur EXCEPT ![t] = Null]
    /\ ret' = [ret EXCEPT ![cur[t]] = rc]
    /\ lock_write_buf' = Null
    /\ itr' = IF t # YieldThread \/ itr = 0 THEN itr
              ELSE IF rc = "error" \/ itr = MAX_MESSAGE_HANDLERS THEN 0 ELSE itr + 1

-----------------------------------------------------------------------------
(***************************************************************************)
(* API calls.                                                              *)
(***************************************************************************)
(* qcloud_iot_mqtt_subscribe: connection check, then a copy of the topic.  *)
Subscribe(t, c, h) ==
    /\ t \in AppThread /\ pc[t] = "idle" /\ Unused(c)
    /\ is_connected
    /\ Begin(t, c, "SUBSCRIBE", h)
    /\ UNCHANGED <<client, list, renew, net, ret, answered, renewals, wanted>>

(* qcloud_iot_mqtt_unsubscribe: under lock_generic, notify, free and clear *)
(* the table entries in S; fail if there were none or when not connected,  *)
(* else go on with a copy of the topic.                                    *)
UnsubscribeSlots(t, c, f, S) ==
    /\ t \in AppThread /\ pc[t] = "idle" /\ Unused(c)
    /\ S # {}
    /\ "unsubscribe_while_pending" \in Adversity \/ ~Pending(f)
    /\ "unsubscribe_while_renewing" \in Adversity \/ itr = 0
    /\ sub_handles' = [i \in Slot |-> IF i \in S THEN Null ELSE sub_handles[i]]
    /\ wanted' = {h \in wanted : h.topic # f}
    /\ LET freed == {sub_handles[i] : i \in S}
           h == [topic |-> f, handler |-> CHOOSE x \in Handler : TRUE]
       IN \/ /\ is_connected
             /\ kind' = [kind EXCEPT ![c] = "UNSUBSCRIBE"]
             /\ arg' = [arg EXCEPT ![c] = h]
             /\ heap' = [d \in Call |-> IF d \in freed THEN "freed"
                                        ELSE IF d = c THEN "live" ELSE heap[d]]
             /\ pc' = [pc EXCEPT ![t] = "lock"]
             /\ cur' = [cur EXCEPT ![t] = c]
          \/ /\ ~is_connected
             /\ heap' = [d \in Call |-> IF d \in freed THEN "freed" ELSE heap[d]]
             /\ UNCHANGED <<kind, arg, pc, cur>>
    /\ UNCHANGED <<is_connected, lock_write_buf, list, renew, net, ret, answered, renewals>>

(* A filter with a wildcard matches every entry of the table, empty ones   *)
(* included (strstr on the argument, not on the entry).                    *)
Unsubscribe(t, c, f) ==
    UnsubscribeSlots(t, c, f, IF f \in Wildcard THEN Slot ELSE SlotsOf(f))

PushIf(t, room) ==
    /\ pc[t] = "lock" /\ lock_write_buf = Null
    /\ \/ /\ room
          /\ lock_write_buf' = t
          /\ list_sub_wait_ack' = list_sub_wait_ack \cup {cur[t]}
          /\ node_state' = [node_state EXCEPT ![cur[t]] = "NORMAL"]
          /\ pc' = [pc EXCEPT ![t] = "send"]
          /\ UNCHANGED <<heap, cur, ret, itr>>
       \/ /\ ~room
          /\ heap' = [heap EXCEPT ![cur[t]] = "freed"]
          /\ Leave(t, "error")
          /\ UNCHANGED <<list_sub_wait_ack, node_state>>
    /\ UNCHANGED <<is_connected, sub_handles, timedout, kind, arg, ypc, rtopic, net,
                   answered, renewals, wanted>>

(* Lock the write buffer, take an identifier, serialize, push_sub_info_to. *)
(* A full list ends the call and frees the copy.                           *)
Push(t) == PushIf(t, Cardinality(list_sub_wait_ack) < MAX_MESSAGE_HANDLERS)

(* send_mqtt_packet succeeds, or fails and the error path follows.         *)
Send(t) ==
    /\ pc[t] = "send"
    /\ \/ /\ is_connected
          /\ uplink' = Append(uplink, cur[t])
          /\ Leave(t, "accepted")
       \/ /\ ~is_connected \/ "send_fails" \in Adversity
          /\ pc' = [pc EXCEPT ![t] = "undo"]
          /\ UNCHANGED <<uplink, cur, ret, lock_write_buf, itr>>
    /\ UNCHANGED <<is_connected, sub_handles, list, heap, kind, arg, ypc, rtopic,
                   downlink, broker_subs, answered, renewals, wanted>>

Undo_NoFree(t) ==
    /\ pc[t] = "undo"
    /\ list_sub_wait_ack' = list_sub_wait_ack \ {cur[t]}
    /\ Leave(t, "error")
    /\ UNCHANGED <<is_connected, sub_handles, node_state, timedout, heap, kind, arg, ypc, rtopic, net,
                   answered, renewals, wanted>>

Undo_KeepNode(t) ==
    /\ pc[t] = "undo"
    /\ heap' = [heap EXCEPT ![cur[t]] = "freed"]
    /\ Leave(t, "error")
    /\ UNCHANGED <<is_connected, sub_handles, list, kind, arg, ypc, rtopic, net, answered, renewals, wanted>>

(* Remove the node, unlock and free the copy.                              *)
Undo(t) ==
    /\ pc[t] = "undo"
    /\ list_sub_wait_ack' = list_sub_wait_ack \ {cur[t]}
    /\ heap' = [heap EXCEPT ![cur[t]] = "freed"]
    /\ Leave(t, "error")
    /\ UNCHANGED <<is_connected, sub_handles, node_state, timedout, kind, arg, ypc, rtopic, net,
                   answered, renewals, wanted>>

-----------------------------------------------------------------------------
(***************************************************************************)
(* The yield thread.                                                       *)
(***************************************************************************)
YieldFree == pc[YieldThread] = "idle" /\ itr = 0

(* _mask_sub_info_from.                                                    *)
Mask(c) == node_state' = [node_state EXCEPT ![c] =
               IF c \in list_sub_wait_ack THEN "INVALID" ELSE @]

Answer(c, e) == answered' = [answered EXCEPT ![c] = Append(@, e)]

(* _handle_suback_packet.  An unknown identifier changes nothing.  A NACK  *)
(* frees the copy.  A handle the table already has frees the copy as well; *)
(* a new one moves it into the first free entry.  With the table full the  *)
(* handler gives up, leaving copy and subscriber alone.  The loop sweeps   *)
(* after success and returns to its caller after an error.  A refusal is   *)
(* told through h_fp unchecked: without a handler the program ends there.  *)
HandleSuback ==
    LET a == Head(downlink)
        c == a.call
        known == c \in list_sub_wait_ack
        grant == IF c \in renewals THEN wanted ELSE wanted \cup {arg[c]}
    IN  /\ YieldFree /\ ypc = "read" /\ is_connected
        /\ downlink # <<>> /\ kind[c] = "SUBSCRIBE"
        /\ a.ok \/ HasEventHandler
        /\ downlink' = Tail(downlink)
        /\ Mask(c)
        /\ \/ /\ ~known
              /\ UNCHANGED <<sub_handles, heap, answered, wanted, ypc>>
           \/ /\ known /\ ~a.ok
              /\ heap' = [heap EXCEPT ![c] = "freed"]
              /\ Answer(c, "NACK")
              /\ UNCHANGED <<sub_handles, wanted, ypc>>
           \/ /\ known /\ a.ok /\ IdenticalIn(c) # {}
              /\ heap' = [heap EXCEPT ![c] = "freed"]
              /\ Answer(c, "SUCCESS")
              /\ wanted' = grant
              /\ ypc' = "sweep"
              /\ UNCHANGED sub_handles
           \/ /\ known /\ a.ok /\ IdenticalIn(c) = {} /\ FreeSlots # {}
              /\ sub_handles' = [sub_handles EXCEPT ![FirstFree] = c]
              /\ Answer(c, "SUCCESS")
              /\ wanted' = grant
              /\ ypc' = "sweep"
              /\ UNCHANGED heap
           \/ /\ known /\ a.ok /\ IdenticalIn(c) = {} /\ FreeSlots = {}
              /\ UNCHANGED <<sub_handles, heap, answered, wanted, ypc>>
        /\ UNCHANGED <<is_connected, lock_write_buf, list_sub_wait_ack, timedout, calls,
                       itr, rtopic, uplink, broker_subs, ret, renewals>>

(* _handle_unsuback_packet frees the copy of the node.  Without a node the *)
(* local handle was never written: whatever its topic_filter points to is  *)
(* freed, some past allocation or nothing.                                 *)
HandleUnsuback ==
    LET c == Head(downlink).call IN
    /\ YieldFree /\ ypc = "read" /\ is_connected
    /\ downlink # <<>> /\ kind[c] = "UNSUBSCRIBE"
    /\ ypc' = "sweep"
    /\ downlink' = Tail(downlink)
    /\ Mask(c)
    /\ \/ /\ c \in list_sub_wait_ack
          /\ heap' = [heap EXCEPT ![c] = "freed"]
       \/ /\ c \notin list_sub_wait_ack
          /\ \E G \in {{}} \cup {{d} : d \in {d \in Call : heap[d] # "none"}} :
                 heap' = [d \in Call |-> IF d \in G THEN "freed" ELSE heap[d]]
    /\ UNCHANGED <<client, list_sub_wait_ack, timedout, calls, itr, rtopic, uplink, broker_subs,
                   ret, answered, renewals, wanted>>

SweepNodes(late) ==
    LET gone == late \cup {c \in list_sub_wait_ack : node_state[c] = "INVALID"}
    IN  /\ YieldFree /\ is_connected
        /\ ypc = "sweep" \/ (downlink = <<>> /\ gone # {})
        /\ list_sub_wait_ack' = list_sub_wait_ack \ gone
        /\ timedout' = timedout \ gone
        /\ heap' = [c \in Call |-> IF c \in late THEN "freed" ELSE heap[c]]
        /\ answered' = [c \in Call |-> IF c \in late /\ HasEventHandler /\ kind[c] = "SUBSCRIBE"
                                       THEN Append(answered[c], "TIMEOUT") ELSE answered[c]]
        /\ ypc' = "read"
        /\ UNCHANGED <<client, node_state, calls, itr, rtopic, net, ret, renewals, wanted>>

Sweep_InvalidToo == SweepNodes(list_sub_wait_ack \cap timedout)
Sweep_NoTimeout  == SweepNodes({})

(* qcloud_iot_mqtt_sub_info_proc: unlink INVALID nodes; report and free    *)
(* the NORMAL ones whose timer ran out.  lock_list_sub is held throughout. *)
(* The subscriber is told inside the check of the client's event handler.  *)
Sweep == SweepNodes({c \in list_sub_wait_ack \cap timedout : node_state[c] = "NORMAL"})

RenewNext_StopAtHole ==
    /\ itr # 0 /\ pc[YieldThread] = "idle" /\ rtopic = Null
    /\ \/ /\ sub_handles[itr] # Null
          /\ rtopic' = sub_handles[itr]
          /\ UNCHANGED itr
       \/ /\ sub_handles[itr] = Null
          /\ itr' = 0
          /\ UNCHANGED rtopic
    /\ UNCHANGED <<client, list, heap, calls, ypc, net, ret, answered, renewals, wanted>>

(* qcloud_iot_mqtt_resubscribe, reading the table without lock_generic.    *)
RenewNext ==
    /\ itr # 0 /\ pc[YieldThread] = "idle" /\ rtopic = Null
    /\ \/ /\ sub_handles[itr] # Null
          /\ rtopic' = sub_handles[itr]
          /\ UNCHANGED itr
       \/ /\ sub_handles[itr] = Null
          /\ itr' = IF itr = MAX_MESSAGE_HANDLERS THEN 0 ELSE itr + 1
          /\ UNCHANGED rtopic
    /\ UNCHANGED <<client, list, heap, calls, ypc, net, ret, answered, renewals, wanted>>

(* The subscribe call of the renewal copies the topic it was given.        *)
RenewCall(c) ==
    /\ rtopic # Null /\ Unused(c)
    /\ is_connected
    /\ Begin(YieldThread, c, "SUBSCRIBE", arg[rtopic])
    /\ renewals' = renewals \cup {c}
    /\ rtopic' = Null
    /\ UNCHANGED <<client, list, ypc, itr, net, ret, answered, wanted>>

(* It fails at once when the connection is already gone.                   *)
RenewNoConn ==
    /\ rtopic # Null /\ ~is_connected
    /\ rtopic' = Null /\ itr' = 0
    /\ UNCHANGED <<client, list, heap, calls, ypc, net, ret, answered, renewals, wanted>>

-----------------------------------------------------------------------------
(***************************************************************************)
(* Time, connection, broker.                                               *)
(***************************************************************************)
InTransit(c) ==
    \/ \E i \in DOMAIN uplink : uplink[i] = c
    \/ \E i \in DOMAIN downlink : downlink[i].call = c

Sending(c) == \E t \in Thread : cur[t] = c

(* sub_start_time, started before the send, runs out.  A sweep then frees  *)
(* node and topic; a call that still sends would free both again.          *)
TimerExpires(c) ==
    /\ c \in list_sub_wait_ack \ timedout
    /\ Sending(c) => "slow_send" \in Adversity
    /\ (kind[c] = "UNSUBSCRIBE" /\ (Sending(c) \/ InTransit(c)))
           => "late_unsuback" \in Adversity
    /\ timedout' = timedout \cup {c}
    /\ UNCHANGED <<client, list_sub_wait_ack, node_state, heap, calls, renew, net, ret,
                   answered, renewals, wanted>>

(* The yield thread finds the connection dead, when it reads or pings or   *)
(* in the middle of a renewal.  Clean sessions: the broker forgets the     *)
(* subscriptions.                                                          *)
ConnectionLost ==
    /\ is_connected /\ ypc = "read"
    /\ is_connected' = FALSE
    /\ uplink' = <<>> /\ downlink' = <<>> /\ broker_subs' = {}
    /\ UNCHANGED <<lock_write_buf, sub_handles, list, heap, calls, renew, ret, answered,
                   renewals, wanted>>

(* qcloud_iot_mqtt_attempt_reconnect: connected, and the renewal starts.   *)
Reconnected ==
    /\ ~is_connected /\ YieldFree
    /\ is_connected' = TRUE
    /\ itr' = 1
    /\ UNCHANGED <<lock_write_buf, sub_handles, list, heap, calls, ypc, rtopic, net, ret,
                   answered, renewals, wanted>>

(* The broker answers packets in order, granting or refusing topics.       *)
Broker ==
    /\ uplink # <<>>
    /\ uplink' = Tail(uplink)
    /\ LET c == Head(uplink) IN
       \/ /\ kind[c] = "SUBSCRIBE"
          /\ broker_subs' = broker_subs \cup {arg[c].topic}
          /\ downlink' = Append(downlink, [call |-> c, ok |-> TRUE])
       \/ /\ kind[c] = "SUBSCRIBE"
          /\ c \in renewals => "renewal_refused" \in Adversity
          /\ downlink' = Append(downlink, [call |-> c, ok |-> FALSE])
          /\ UNCHANGED broker_subs
       \/ /\ kind[c] = "UNSUBSCRIBE"
          /\ broker_subs' = broker_subs \ {arg[c].topic}
          /\ downlink' = Append(downlink, [call |-> c, ok |-> TRUE])
    /\ UNCHANGED <<client, list, heap, calls, renew, ret, answered, renewals, wanted>>

-----------------------------------------------------------------------------
CallStep(t) == Push(t) \/ Send(t) \/ Undo(t)

YieldStep == HandleSuback \/ HandleUnsuback \/ Sweep \/ RenewNext \/ RenewNoConn
             \/ \E c \in Call : RenewCall(c)

Next ==
    \/ \E t \in AppThread, c \in Call :
           (\E h \in Handle : Subscribe(t, c, h)) \/ (\E f \in Topic : Unsubscribe(t, c, f))
    \/ \E t \in Thread : CallStep(t)
    \/ YieldStep
    \/ \E c \in Call : TimerExpires(c)
    \/ ConnectionLost \/ Reconnected \/ Broker

Spec == Init /\ [][Next]_vars

(* The yield loop runs, calls in progress go on and get the write buffer,  *)
(* clocks advance.                                                         *)
FairSpec ==
    /\ Spec
    /\ WF_vars(YieldStep)
    /\ \A t \in Thread : SF_vars(Push(t)) /\ WF_vars(Send(t) \/ Undo(t))
    /\ \A c \in Call : WF_vars(TimerExpires(c))

-----------------------------------------------------------------------------
(***************************************************************************)
(* Properties.                                                             *)
(***************************************************************************)
(* Who will free the topic copy of call c: the activation itself, its      *)
(* NORMAL list node, or table entries.                                     *)
Owners(c) ==
    {<<"call", t>> : t \in {t \in Thread : cur[t] = c /\ pc[t] \in {"lock", "undo"}}}
    \cup {<<"node", n>> : n \in {n \in list_sub_wait_ack \cap {c} :
                                   node_state[n] = "NORMAL" /\ \A t \in Thread :
                                       cur[t] = n => pc[t] # "undo"}}
    \cup {<<"slot", i>> : i \in {i \in Slot : sub_handles[i] = c}}

(* "Topic filter should be valid in the whole sub life": nobody holds a    *)
(* freed topic copy, no copy has two owners that would both free it, and   *)
(* the renewal never copies from a freed one.                              *)
TopicFilterValid ==
    /\ \A c \in Call : Owners(c) # {} => heap[c] = "live" /\ Cardinality(Owners(c)) = 1
    /\ rtopic # Null => heap[rtopic] = "live"

(* Every topic copy that is not freed still has an owner to free it.       *)
NoTopicLeak == \A c \in Call : heap[c] = "live" => Owners(c) # {}

(* A subscriber hears of its request once at most (success, refusal or     *)
(* time-out), and never after the call reported an error.                  *)
OneAnswer ==
    \A c \in Call : /\ Len(answered[c]) <= 1
                    /\ ret[c] = "error" => answered[c] = <<>>

(* The table holds exactly the handles the user subscribed and has not     *)
(* unsubscribed since, each one once, whatever renewals came in between.   *)
TableIsWhatUserWants ==
    /\ wanted = {arg[sub_handles[i]] : i \in Slot \ FreeSlots}
    /\ \A i, j \in Slot \ FreeSlots : arg[sub_handles[i]] = arg[sub_handles[j]] => i = j

(* Nothing is under way: all calls, the renewal and all answers are in.    *)
Quiet ==
    /\ is_connected /\ itr = 0 /\ uplink = <<>> /\ downlink = <<>>
    /\ list_sub_wait_ack = {} /\ \A t \in Thread : pc[t] = "idle"

(* After a reconnection every topic in the table is subscribed at the      *)
(* broker again once everything has settled ("re-subscribe topics if       *)
(* reconnected").                                                          *)
TableIsSubscribed ==
    Quiet => \A i \in Slot \ FreeSlots : arg[sub_handles[i]].topic \in broker_subs

(* While the connection stays up, every accepted subscribe call is         *)
(* answered.                                                               *)
SubscribeAnswered ==
    <>[](is_connected /\ itr = 0) =>
        \A c \in Call : (kind[c] = "SUBSCRIBE" /\ ret[c] = "accepted") ~> answered[c] # <<>>
============================================================================
