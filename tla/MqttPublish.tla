---------------------------- MODULE MqttPublish ----------------------------
(***************************************************************************)
(* Outgoing QoS 1 publishing in the MQTT client: the path from             *)
(* qcloud_iot_mqtt_publish through the shared write buffer to the network, *)
(* the list of packets that wait for a PUBACK, the PUBACK handler and the  *)
(* time-out sweep of the yield loop.                                       *)
(*                                                                         *)
(* Actors.  Application threads call the API; the one yield thread reads   *)
(* PUBACKs, sweeps the wait list and runs the user's event callback, from  *)
(* which it may call the publish API itself.  So may the event handler of  *)
(* a topic, which unsubscribe calls in the application's thread.  Mutexes  *)
(* are the non-recursive ones of the MULTITHREAD_ENABLED build; a section  *)
(* under lock_generic that calls nobody back is one step that needs it     *)
(* free.                                                                   *)
(*                                                                         *)
(* Data abstraction.  A packet is the request (one publish call) it was    *)
(* built from.  A list node is identified with its request: it is          *)
(* allocated, linked and freed once.  The doubly linked list is the set of *)
(* its nodes; nodes are only ever appended at the tail and `seqno' counts  *)
(* the packet identifiers handed out, so list order is `seqno' order.  A   *)
(* countdown timer is the fact that it has run out.                        *)
(***************************************************************************)
EXTENDS Integers, FiniteSets, Sequences

CONSTANTS
    AppThread,        \* application threads
    YieldThread,      \* the thread that runs IOT_MQTT_Yield
    Request,          \* QoS 1 publish calls, each made at most once
    Null,             \* the C NULL pointer / an unlocked mutex
    MAX_PACKET_ID,    \* 65535 in mqtt_client.h
    MAX_REPUB_NUM,    \* 20 in mqtt_client.h
    StartIds,         \* values the random start of next_packet_id may take
    MaxIssued,        \* bound: other calls take identifiers only below this count
    TimelySender,     \* no node timer runs out while its publish call is running
    CallbackPublishes \* events on which the user's callback publishes

Thread == AppThread \cup {YieldThread}

ASSUME PublishConstants ==
    /\ YieldThread \notin AppThread
    /\ Null \notin Request \cup AppThread \cup {YieldThread}
    /\ MAX_PACKET_ID \in Nat \ {0}
    /\ MAX_REPUB_NUM \in Nat
    /\ StartIds \subseteq 0 .. MAX_PACKET_ID
    /\ MaxIssued \in Nat
    /\ IsFiniteSet(Request)
    /\ TimelySender \in BOOLEAN
    /\ CallbackPublishes \subseteq {"PUBLISH_SUCCESS", "PUBLISH_TIMEOUT",
                                    "UNSUBCRIBE_SUCCESS", "UNSUBSCRIBE"}

VARIABLES
    (* Qcloud_IoT_Client *)
    next_packet_id, write_buf, is_connected,
    lock_write_buf, lock_list_pub, lock_generic,
    list_pub_wait_ack,  \* nodes linked in the list
    msg_id,             \* packet identifier of each request, 0 before it has one
    node_state,         \* "none" before allocation, then NORMAL, INVALID, freed
    timedout,           \* nodes whose pub_start_time has run out
    (* qcloud_iot_mqtt_publish, one activation per thread *)
    pc, req,
    (* the yield thread: place in the loop, iterator, node to remove *)
    ypc, iter, temp_node,
    (* TCP connection and broker *)
    uplink,             \* packets the broker has not read yet
    framed,             \* FALSE after a packet was cut short on this connection
    downlink,           \* identifiers of PUBACKs the client has not read yet
    unsubacks,          \* number of UNSUBACKs it has not read yet
    (* history *)
    issued, seqno,      \* identifiers handed out; position of a request's one
    ret,                \* what the publish call returned
    notified            \* events reported to the user about the request, in order

client  == <<next_packet_id, write_buf, lock_write_buf>>
list    == <<lock_list_pub, list_pub_wait_ack, node_state>>
threads == <<pc, req>>
sweep   == <<ypc, iter, temp_node>>
network == <<uplink, framed, downlink>>
generic == <<lock_generic, unsubacks>>
history == <<issued, seqno, ret, notified>>
vars == <<client, list, threads, sweep, network, history,
          generic, is_connected, msg_id, timedout>>

(***************************************************************************)
(* Types.                                                                  *)
(***************************************************************************)
PubPC   == {"idle", "check", "lock", "inc", "read", "push", "send", "undo", "done"}
YieldPC == {"loop", "success_cb", "unsuback_cb", "handled", "sweep", "relock", "timeout_cb"}
Event   == {"PUBLISH_SUCCESS", "PUBLISH_TIMEOUT"}

TypeOK ==
    /\ next_packet_id \in 0 .. MAX_PACKET_ID
    /\ write_buf \in Request \cup {Null}
    /\ is_connected \in BOOLEAN
    /\ lock_write_buf \in Thread \cup {Null}
    /\ lock_list_pub \in {YieldThread, Null}
    /\ lock_generic \in Thread \cup {Null}
    /\ list_pub_wait_ack \in SUBSET Request
    /\ msg_id \in [Request -> 0 .. MAX_PACKET_ID]
    /\ node_state \in [Request -> {"none", "NORMAL", "INVALID", "freed"}]
    /\ timedout \in SUBSET Request
    /\ pc \in [Thread -> PubPC]
    /\ req \in [Thread -> Request \cup {Null}]
    /\ ypc \in YieldPC
    /\ iter \in Request \cup {Null}
    /\ temp_node \in Request \cup {Null}
    /\ uplink \in Seq(Request)
    /\ framed \in BOOLEAN
    /\ downlink \in Seq(0 .. MAX_PACKET_ID)
    /\ unsubacks \in Nat
    /\ issued \in Nat
    /\ seqno \in [Request -> Nat]
    /\ ret \in [Request -> {"none", "NO_CONN", "TOO_LONG", "PUSH_FAIL", "SEND_FAIL",
                            "accepted"}]
    /\ notified \in [Request -> Seq(Event)]

(* _get_random_start_packet_id: rand() % 65536 + 1 stored in 16 bits, so   *)
(* 65536 wraps to 0.                                                       *)
Init ==
    /\ next_packet_id \in StartIds
    /\ write_buf = Null
    /\ is_connected = TRUE
    /\ lock_write_buf = Null /\ lock_list_pub = Null /\ lock_generic = Null
    /\ list_pub_wait_ack = {}
    /\ msg_id = [r \in Request |-> 0]
    /\ node_state = [r \in Request |-> "none"]
    /\ timedout = {}
    /\ pc = [t \in Thread |-> "idle"]
    /\ req = [t \in Thread |-> Null]
    /\ ypc = "loop" /\ iter = Null /\ temp_node = Null
    /\ uplink = <<>> /\ framed = TRUE /\ downlink = <<>> /\ unsubacks = 0
    /\ issued = 0 /\ seqno = [r \in Request |-> 0]
    /\ ret = [r \in Request |-> "none"]
    /\ notified = [r \in Request |-> <<>>]

-----------------------------------------------------------------------------
(***************************************************************************)
(* Helpers.                                                                *)
(***************************************************************************)
NextId_NoWrap(id) == id + 1

(* The increment of get_next_packet_id: identifiers are 1..MAX_PACKET_ID.  *)
NextId(id) == IF id = MAX_PACKET_ID THEN 1 ELSE id + 1

(* The list node or nodes at which a LIST_TAIL iterator over S points: the *)
(* most recently pushed one, NULL for an empty list.                       *)
TailOf(S) ==
    IF S = {} THEN {Null} ELSE {q \in S : \A p \in S : seqno[p] <= seqno[q]}

(* node->prev: the youngest node pushed before r.                          *)
PrevOf(r) == TailOf({q \in list_pub_wait_ack : seqno[q] < seqno[r]})

(* Append event e to the history of every request in R.                    *)
Notify(R, e) ==
    notified' = [r \in Request |-> IF r \in R THEN Append(notified[r], e) ELSE notified[r]]

(* An application thread inside the event handler of a topic.              *)
Unsubscribing(t) == t \in AppThread /\ lock_generic = t

(* A thread may enter the API: an application thread outside callbacks,    *)
(* and every thread from a callback that publishes.                        *)
MayCall(t) ==
    \/ t \in AppThread /\ (Unsubscribing(t) => "UNSUBSCRIBE" \in CallbackPublishes)
    \/ /\ t = YieldThread
       /\ \/ ypc = "success_cb"  /\ "PUBLISH_SUCCESS" \in CallbackPublishes
          \/ ypc = "timeout_cb"  /\ "PUBLISH_TIMEOUT" \in CallbackPublishes
          \/ ypc = "unsuback_cb" /\ "UNSUBCRIBE_SUCCESS" \in CallbackPublishes

(* The publish call of request r is still running in some thread.          *)
Sending(r) == \E t \in Thread : req[t] = r /\ pc[t] \in {"push", "send", "undo", "done"}

(* Leave the API: the activation of thread t is gone, r returned rc.       *)
Return(t, rc) ==
    /\ pc' = [pc EXCEPT ![t] = "idle"]
    /\ req' = [req EXCEPT ![t] = Null]
    /\ ret' = [ret EXCEPT ![req[t]] = rc]

-----------------------------------------------------------------------------
(***************************************************************************)
(* qcloud_iot_mqtt_publish, from its connection check to its return.       *)
(***************************************************************************)
PublishCall(t, r) ==
    /\ pc[t] = "idle" /\ MayCall(t)
    /\ ret[r] = "none" /\ \A u \in Thread : req[u] # r
    /\ pc' = [pc EXCEPT ![t] = "check"]
    /\ req' = [req EXCEPT ![t] = r]
    /\ UNCHANGED <<client, list, sweep, network, history, generic, is_connected, msg_id, timedout>>

(* get_client_conn_state, which reads is_connected under lock_generic.     *)
PublishCheck(t) ==
    /\ pc[t] = "check"
    /\ lock_generic = Null
    /\ \/ is_connected /\ pc' = [pc EXCEPT ![t] = "lock"] /\ UNCHANGED <<req, ret>>
       \/ ~is_connected /\ Return(t, "NO_CONN")
    /\ UNCHANGED <<client, list, sweep, network, issued, seqno, notified,
                   generic, is_connected, msg_id, timedout>>

PublishLock_NoLock(t) ==
    /\ pc[t] = "lock"
    /\ pc' = [pc EXCEPT ![t] = "inc"]
    /\ UNCHANGED <<client, list, req, sweep, network, history, generic, is_connected, msg_id, timedout>>

(* HAL_MutexLock(lock_write_buf).                                          *)
PublishLock(t) ==
    /\ pc[t] = "lock"
    /\ lock_write_buf = Null
    /\ lock_write_buf' = t
    /\ pc' = [pc EXCEPT ![t] = "inc"]
    /\ UNCHANGED <<next_packet_id, write_buf, list, req, sweep, network, history,
                   generic, is_connected, msg_id, timedout>>

(* get_next_packet_id advances the counter under lock_generic, and only    *)
(* after unlocking reads it for the result.                                *)
GetNextPacketId(t) ==
    /\ pc[t] = "inc"
    /\ lock_generic = Null
    /\ next_packet_id' = NextId(next_packet_id)
    /\ issued' = issued + 1
    /\ seqno' = [seqno EXCEPT ![req[t]] = issued + 1]
    /\ pc' = [pc EXCEPT ![t] = "read"]
    /\ UNCHANGED <<write_buf, lock_write_buf, list, req, sweep, network, ret, notified,
                   generic, is_connected, msg_id, timedout>>

(* The unlocked read of next_packet_id, and _serialize_publish_packet into *)
(* the shared write buffer.  A packet that does not fit ends the call.     *)
Serialize(t) ==
    /\ pc[t] = "read"
    /\ \/ /\ msg_id' = [msg_id EXCEPT ![req[t]] = next_packet_id]
          /\ write_buf' = req[t]
          /\ pc' = [pc EXCEPT ![t] = "push"]
          /\ UNCHANGED <<req, ret, lock_write_buf>>
       \/ /\ Return(t, "TOO_LONG")
          /\ lock_write_buf' = Null
          /\ UNCHANGED <<msg_id, write_buf>>
    /\ UNCHANGED <<next_packet_id, list, sweep, network, issued, seqno, notified,
                   generic, is_connected, timedout>>

(* _mask_push_pubInfo_to and what the caller makes of it: under            *)
(* lock_list_pub, refuse if full or short of memory, else append a NORMAL  *)
(* node with a fresh timer.  On refusal the call returns and leaves next   *)
(* as the owner of lock_write_buf.                                         *)
PushUnless(t, full, next) ==
    /\ pc[t] = "push"
    /\ lock_list_pub = Null
    /\ \/ /\ Return(t, "PUSH_FAIL")
          /\ lock_write_buf' = next
          /\ UNCHANGED <<list_pub_wait_ack, node_state>>
       \/ /\ ~full
          /\ list_pub_wait_ack' = list_pub_wait_ack \cup {req[t]}
          /\ node_state' = [node_state EXCEPT ![req[t]] = "NORMAL"]
          /\ pc' = [pc EXCEPT ![t] = "send"]
          /\ UNCHANGED <<req, ret, lock_write_buf>>
    /\ UNCHANGED <<next_packet_id, write_buf, lock_list_pub, sweep, network,
                   issued, seqno, notified, generic, is_connected, msg_id, timedout>>

Push_OverLimit(t) == PushUnless(t, Cardinality(list_pub_wait_ack) > MAX_REPUB_NUM, Null)
Push_NoUnlock(t)  == PushUnless(t, Cardinality(list_pub_wait_ack) >= MAX_REPUB_NUM, t)

Push(t) == PushUnless(t, Cardinality(list_pub_wait_ack) >= MAX_REPUB_NUM, Null)

(* send_mqtt_packet writes what is in the buffer: all of it; or a part,    *)
(* reported as success when the timer runs out and as failure when the     *)
(* next write fails; or, as every write asks for the full length again,    *)
(* the packet with stray bytes behind it, reported as success.  Then the   *)
(* broker cannot frame the stream any more.  Or nothing goes out.          *)
Send(t) ==
    /\ pc[t] = "send"
    /\ \/ /\ is_connected
          /\ uplink' = IF framed THEN Append(uplink, write_buf) ELSE uplink
          /\ framed' \in {framed, FALSE}
          /\ pc' = [pc EXCEPT ![t] = "done"]
       \/ /\ is_connected
          /\ framed' = FALSE
          /\ \E next \in {"done", "undo"} : pc' = [pc EXCEPT ![t] = next]
          /\ UNCHANGED uplink
       \/ /\ pc' = [pc EXCEPT ![t] = "undo"]
          /\ UNCHANGED <<uplink, framed>>
    /\ UNCHANGED <<client, list, req, sweep, downlink, history,
                   generic, is_connected, msg_id, timedout>>

(* The error path: unlink and free the node, once the list may be used.    *)
UndoOnce(t, listFree) ==
    /\ pc[t] = "undo"
    /\ listFree
    /\ list_pub_wait_ack' = list_pub_wait_ack \ {req[t]}
    /\ node_state' = [node_state EXCEPT ![req[t]] = "freed"]
    /\ lock_write_buf' = Null
    /\ Return(t, "SEND_FAIL")
    /\ UNCHANGED <<next_packet_id, write_buf, lock_list_pub, sweep, network,
                   issued, seqno, notified, generic, is_connected, msg_id, timedout>>

Undo_NoListLock(t) == UndoOnce(t, TRUE)

Undo(t) == UndoOnce(t, lock_list_pub = Null)

(* The success path: unlock the buffer and return the packet identifier.   *)
Done(t) ==
    /\ pc[t] = "done"
    /\ lock_write_buf' = Null
    /\ Return(t, "accepted")
    /\ UNCHANGED <<next_packet_id, write_buf, list, sweep, network,
                   issued, seqno, notified, generic, is_connected, msg_id, timedout>>

(* A subscribe or unsubscribe call takes an identifier and sends a packet  *)
(* too, all of it while it holds lock_write_buf; the broker answers an     *)
(* UNSUBSCRIBE, or never will.                                             *)
OtherRequest(t) ==
    /\ t \in AppThread /\ pc[t] = "idle"
    /\ is_connected
    /\ lock_generic = Null /\ lock_write_buf = Null
    /\ issued < MaxIssued
    /\ next_packet_id' = NextId(next_packet_id)
    /\ issued' = issued + 1
    /\ write_buf' = Null
    /\ framed' \in {framed, FALSE}
    /\ unsubacks' = unsubacks \/ (framed /\ unsubacks' = unsubacks + 1)
    /\ UNCHANGED <<lock_write_buf, lock_generic, list, threads, sweep, uplink, downlink, seqno,
                   ret, notified, is_connected, msg_id, timedout>>

(* Before that, unsubscribe forgets the topic under lock_generic and calls *)
(* the topic's event handler there (MQTT_EVENT_UNSUBSCRIBE).               *)
UnsubscribeBegin(t) ==
    /\ t \in AppThread /\ pc[t] = "idle"
    /\ lock_generic = Null
    /\ lock_generic' = t
    /\ UNCHANGED <<client, list, threads, sweep, network, history, unsubacks,
                   is_connected, msg_id, timedout>>

UnsubscribeEnd(t) ==
    /\ Unsubscribing(t) /\ pc[t] = "idle"
    /\ lock_generic' = Null
    /\ UNCHANGED <<client, list, threads, sweep, network, history, unsubacks,
                   is_connected, msg_id, timedout>>

-----------------------------------------------------------------------------
(***************************************************************************)
(* The yield thread.                                                       *)
(***************************************************************************)
YieldFree == pc[YieldThread] = "idle"  \* no publish call inside a callback

(* _handle_puback_packet with _mask_pubInfo_from: mark the nodes in masked *)
(* INVALID, then report success with lock_list_pub left as next.  The      *)
(* report does not depend on whether a node was found; the history holds   *)
(* it for the requests that carry the identifier.                          *)
PubackMasks(masked, next) ==
    /\ ypc = "loop" /\ YieldFree
    /\ is_connected /\ downlink # <<>>
    /\ lock_list_pub = Null
    /\ lock_list_pub' = next
    /\ downlink' = Tail(downlink)
    /\ node_state' = [r \in Request |-> IF r \in masked THEN "INVALID" ELSE node_state[r]]
    /\ Notify({r \in Request : msg_id[r] = Head(downlink)}, "PUBLISH_SUCCESS")
    /\ ypc' = "success_cb"
    /\ UNCHANGED <<client, list_pub_wait_ack, threads, iter, temp_node, uplink, framed,
                   issued, seqno, ret, generic, is_connected, msg_id, timedout>>

WithId_Any(id) == list_pub_wait_ack

(* Nodes whose msg_id is id.                                               *)
WithId(id) == {r \in list_pub_wait_ack : msg_id[r] = id}

HandlePuback_NoMask == PubackMasks({}, Null)
HandlePuback_LockHeld == PubackMasks(WithId(Head(downlink)), YieldThread)

HandlePuback == PubackMasks(WithId(Head(downlink)), Null)

(* _handle_unsuback_packet calls the event handler (UNSUBCRIBE_SUCCESS)    *)
(* with lock_generic held.                                                 *)
HandleUnsuback ==
    /\ ypc = "loop" /\ YieldFree
    /\ is_connected /\ unsubacks > 0
    /\ lock_generic = Null
    /\ lock_generic' = YieldThread
    /\ unsubacks' = unsubacks - 1
    /\ ypc' = "unsuback_cb"
    /\ UNCHANGED <<client, list, threads, iter, temp_node, network, history,
                   is_connected, msg_id, timedout>>

UnsubackReturns ==
    /\ ypc = "unsuback_cb" /\ YieldFree
    /\ lock_generic' = Null
    /\ ypc' = "handled"
    /\ UNCHANGED <<client, list, threads, iter, temp_node, network, history, unsubacks,
                   is_connected, msg_id, timedout>>

(* The handler is done; cycle_for_read succeeded, so the loop goes on to   *)
(* the sweep.  With nothing to read the loop sweeps as well.               *)
Handled == ypc \in {"success_cb", "handled"}

SweepStart ==
    /\ YieldFree
    /\ Handled \/ (ypc = "loop" /\ is_connected /\ downlink = <<>>)
    /\ lock_list_pub = Null
    /\ list_pub_wait_ack # {}
    /\ lock_list_pub' = YieldThread
    /\ iter' \in TailOf(list_pub_wait_ack)
    /\ temp_node' = Null
    /\ ypc' = "sweep"
    /\ UNCHANGED <<client, list_pub_wait_ack, node_state, threads, network, history,
                   generic, is_connected, msg_id, timedout>>

SweepEmpty ==
    /\ YieldFree
    /\ Handled
    /\ lock_list_pub = Null
    /\ list_pub_wait_ack = {}
    /\ ypc' = "loop"
    /\ UNCHANGED <<client, list, threads, iter, temp_node, network, history,
                   generic, is_connected, msg_id, timedout>>

(* qcloud_list_remove of the node the previous iteration chose.            *)
RemoveTemp ==
    /\ list_pub_wait_ack' = list_pub_wait_ack \ {temp_node}
    /\ node_state' = [r \in Request |-> IF r = temp_node THEN "freed" ELSE node_state[r]]

SweepStep_DropSilently ==
    /\ ypc = "sweep" /\ iter # Null
    /\ iter' \in PrevOf(iter)
    /\ RemoveTemp
    /\ temp_node' = IF node_state[iter] = "INVALID" \/ iter \in timedout THEN iter ELSE Null
    /\ UNCHANGED <<ypc, lock_list_pub, client, threads, network, history,
                   generic, is_connected, msg_id, timedout>>

(* One round of the loop in qcloud_iot_mqtt_pub_info_proc: fetch the next  *)
(* node, remove the one chosen before, then decide about this one.  An     *)
(* INVALID node is removed silently, nothing else happens to a node while  *)
(* disconnected, a timed out one is chosen and its timer restarted with    *)
(* lock_list_pub released.                                                 *)
SweepStep ==
    /\ ypc = "sweep" /\ iter # Null
    /\ iter' \in PrevOf(iter)
    /\ RemoveTemp
    /\ \/ /\ node_state[iter] = "INVALID"
          /\ temp_node' = iter
          /\ UNCHANGED <<ypc, lock_list_pub, timedout>>
       \/ /\ node_state[iter] # "INVALID"
          /\ ~is_connected \/ iter \notin timedout
          /\ temp_node' = Null
          /\ UNCHANGED <<ypc, lock_list_pub, timedout>>
       \/ /\ node_state[iter] # "INVALID"
          /\ is_connected /\ iter \in timedout
          /\ temp_node' = iter
          /\ timedout' = timedout \ {iter}
          /\ lock_list_pub' = Null
          /\ ypc' = "relock"
    /\ UNCHANGED <<client, threads, network, history, generic, is_connected, msg_id>>

(* Lock again and report the time-out, reading the node's identifier.  The *)
(* callback runs with lock_list_pub held.                                  *)
SweepTimeout ==
    /\ ypc = "relock" /\ lock_list_pub = Null
    /\ lock_list_pub' = YieldThread
    /\ Notify({temp_node}, "PUBLISH_TIMEOUT")
    /\ ypc' = "timeout_cb"
    /\ UNCHANGED <<client, list_pub_wait_ack, node_state, threads, iter, temp_node, network,
                   issued, seqno, ret, generic, is_connected, msg_id, timedout>>

SweepCallbackReturns ==
    /\ ypc = "timeout_cb" /\ YieldFree
    /\ ypc' = "sweep"
    /\ UNCHANGED <<client, list, threads, iter, temp_node, network, history,
                   generic, is_connected, msg_id, timedout>>

(* End of the list: remove the last chosen node and unlock.                *)
SweepEnd ==
    /\ ypc = "sweep" /\ iter = Null
    /\ RemoveTemp
    /\ temp_node' = Null
    /\ lock_list_pub' = Null
    /\ ypc' = "loop"
    /\ UNCHANGED <<client, threads, iter, network, history,
                   generic, is_connected, msg_id, timedout>>

-----------------------------------------------------------------------------
(***************************************************************************)
(* Time, connection and broker.                                            *)
(***************************************************************************)
(* A node timer runs out.  It was started after the timer of the publish   *)
(* call with the same length, so as a rule the call is over by then;       *)
(* TimelySender = FALSE admits the race at the deadline.                   *)
TimerExpires(r) ==
    /\ r \in list_pub_wait_ack
    /\ r \notin timedout
    /\ TimelySender => ~Sending(r)
    /\ timedout' = timedout \cup {r}
    /\ UNCHANGED <<client, list, threads, sweep, network, history, generic, is_connected, msg_id>>

(* The connection is torn down, by the yield loop or by another thread in  *)
(* IOT_MQTT_Reconnect, and what was in transit is lost.                    *)
ConnectionLost ==
    /\ is_connected /\ lock_generic = Null
    /\ is_connected' = FALSE
    /\ uplink' = <<>> /\ downlink' = <<>> /\ unsubacks' = 0 /\ framed' = TRUE
    /\ UNCHANGED <<client, list, threads, sweep, history, lock_generic, msg_id, timedout>>

Reconnected ==
    /\ ~is_connected /\ lock_generic = Null
    /\ is_connected' = TRUE
    /\ UNCHANGED <<client, list, threads, sweep, network, history, generic, msg_id, timedout>>

(* The broker reads the oldest packet and answers it, or never will.       *)
BrokerAck ==
    /\ uplink # <<>>
    /\ uplink' = Tail(uplink)
    /\ downlink' = Append(downlink, msg_id[Head(uplink)])
    /\ UNCHANGED <<client, list, threads, sweep, framed, history,
                   generic, is_connected, msg_id, timedout>>

BrokerIgnores ==
    /\ uplink # <<>>
    /\ uplink' = Tail(uplink)
    /\ UNCHANGED <<client, list, threads, sweep, framed, downlink, history,
                   generic, is_connected, msg_id, timedout>>

-----------------------------------------------------------------------------
PublishStep(t) ==
    \/ PublishCheck(t) \/ PublishLock(t) \/ GetNextPacketId(t) \/ Serialize(t) \/ Push(t)
    \/ Send(t) \/ Undo(t) \/ Done(t)

YieldStep ==
    \/ HandlePuback \/ HandleUnsuback \/ UnsubackReturns
    \/ SweepStart \/ SweepEmpty \/ SweepStep \/ SweepTimeout
    \/ SweepCallbackReturns \/ SweepEnd

Next ==
    \/ \E t \in Thread : (\E r \in Request : PublishCall(t, r)) \/ PublishStep(t)
    \/ \E t \in AppThread : OtherRequest(t) \/ UnsubscribeBegin(t) \/ UnsubscribeEnd(t)
    \/ YieldStep
    \/ \E r \in Request : TimerExpires(r)
    \/ ConnectionLost \/ Reconnected \/ BrokerAck \/ BrokerIgnores

Spec == Init /\ [][Next]_vars

(***************************************************************************)
(* Fairness.  The yield thread keeps looping (the default loop thread, or  *)
(* an application that calls IOT_MQTT_Yield as the guide asks), a thread   *)
(* inside a call goes on and gets a contended mutex after finitely many    *)
(* losses, and clocks advance.  Nothing is assumed about broker, network   *)
(* or callers.                                                             *)
(***************************************************************************)
FairSpec ==
    /\ Spec
    /\ WF_vars(YieldStep)
    /\ \A t \in Thread : SF_vars(PublishStep(t))
    /\ \A t \in AppThread : WF_vars(UnsubscribeEnd(t))
    /\ \A r \in Request : WF_vars(TimerExpires(r))

-----------------------------------------------------------------------------
(***************************************************************************)
(* Properties.                                                             *)
(***************************************************************************)
(* Two packets that wait for their PUBACK carry the same identifier only   *)
(* if the 16-bit counter has gone all the way round between them.  The     *)
(* result of get_next_packet_id is read outside lock_generic, so this      *)
(* rests on every caller holding lock_write_buf.                           *)
IdsUniqueUntilWrap ==
    \A r, q \in list_pub_wait_ack :
        (seqno[r] < seqno[q] /\ msg_id[r] = msg_id[q])
            => seqno[q] - seqno[r] >= MAX_PACKET_ID

(* The sweep never holds a pointer to a freed list node: neither iterator  *)
(* nor node to remove, although it gives lock_list_pub away in             *)
(* mid-iteration and publish calls unlink nodes on their error path.       *)
SweepHoldsLiveNodes ==
    ypc \in {"sweep", "relock", "timeout_cb"} =>
        {iter, temp_node} \subseteq list_pub_wait_ack \cup {Null}

(* The error path of a publish call unlinks a node that is still there:    *)
(* neither a PUBACK nor the time-out made the sweep free it first.         *)
ErrorPathHoldsLiveNode ==
    \A t \in Thread : pc[t] = "undo" => req[t] \in list_pub_wait_ack

(* The shared write buffer holds the packet of the call that is about to   *)
(* send it, and packets leave in the order of their identifiers.           *)
WireMatchesCaller ==
    /\ \A t \in Thread : pc[t] \in {"push", "send"} => write_buf = req[t]
    /\ \A i, j \in DOMAIN uplink : i < j => seqno[uplink[i]] < seqno[uplink[j]]

(* The wait list never grows past MAX_REPUB_NUM.                           *)
WaitListBounded == Cardinality(list_pub_wait_ack) <= MAX_REPUB_NUM

(* No thread waits for a mutex it holds itself: the mutexes are not        *)
(* recursive and the user's callbacks may call the publish API.            *)
NoSelfDeadlock ==
    \A t \in Thread : /\ pc[t] \in {"push", "undo"} => lock_list_pub # t
                      /\ pc[t] = "lock" => lock_write_buf # t
                      /\ pc[t] \in {"check", "inc"} => lock_generic # t

(* Every publish call returns, whatever the yield thread and the other     *)
(* callers do with the mutexes.                                            *)
PublishReturns == \A t \in Thread : pc[t] # "idle" ~> pc[t] = "idle"

(* If the connection stays up from some time on, every accepted publish    *)
(* is reported to the user, as a success or as a time-out.                 *)
AcceptedIsNotified ==
    <>[]is_connected =>
        \A r \in Request : ret[r] = "accepted" ~> notified[r] # <<>>

(* What the user can rely on per request, as the abstract module says: an  *)
(* error return is final and silent, time-out is reported at most once and *)
(* never after success.                                                    *)
Outcome(r) ==
    CASE notified[r] = <<>>                                       -> "open"
      [] notified[r] = <<"PUBLISH_SUCCESS">>                      -> "acked"
      [] notified[r] = <<"PUBLISH_TIMEOUT">>                      -> "expired"
      [] notified[r] = <<"PUBLISH_TIMEOUT", "PUBLISH_SUCCESS">>   -> "acked_late"
      [] OTHER                                                    -> "contradictory"

Answer(r) == IF ret[r] = "accepted" THEN "accepted"
             ELSE IF ret[r] = "none" THEN "none" ELSE "rejected"

Contract == INSTANCE PublishContract
                WITH answer  <- [r \in Request |-> Answer(r)],
                     outcome <- [r \in Request |-> Outcome(r)]

ImplementsContract == Contract!Spec
============================================================================
