------------------------ MODULE MqttPublish_proofs ------------------------
(***************************************************************************)
(* Theorems about MqttPublish for every number of threads and requests,    *)
(* every identifier range and every list bound.                            *)
(***************************************************************************)
EXTENDS MqttPublish, FiniteSetTheorems, SequenceTheorems, TLAPS

(* Places of a publish call between the lock of the write buffer and its   *)
(* unlock, and those at which its node has been pushed.                    *)
Holding == {"inc", "read", "push", "send", "undo", "done"}
Pushed  == {"send", "undo", "done"}

(* A thread runs a call iff it has a request; no two threads share one and *)
(* it has not returned; the thread owns lock_write_buf from the identifier *)
(* on, and the buffer holds its packet from serialization to sending.      *)
CallInv ==
    /\ \A t \in Thread : pc[t] = "idle" <=> req[t] = Null
    /\ \A t, u \in Thread : (req[t] # Null /\ req[t] = req[u]) => t = u
    /\ \A t \in Thread : req[t] # Null => ret[req[t]] = "none"
    /\ \A t \in Thread : pc[t] \in Holding => lock_write_buf = t
    /\ \A t \in Thread : pc[t] \in {"push", "send"} => write_buf = req[t]

TypeInv == TypeOK /\ CallInv

LEMMA NullIsNoRequest == /\ Null \notin Request /\ Null \notin Thread
                         /\ YieldThread \in Thread /\ AppThread \subseteq Thread
  BY PublishConstants DEF Thread

LEMMA NextIdType ==
  ASSUME NEW id \in 0 .. MAX_PACKET_ID
  PROVE  NextId(id) \in 1 .. MAX_PACKET_ID
  BY PublishConstants DEF NextId

LEMMA TailOfType ==
  ASSUME NEW S \in SUBSET Request
  PROVE  TailOf(S) \subseteq S \cup {Null}
  BY DEF TailOf

LEMMA PrevOfType ==
  ASSUME NEW r, list_pub_wait_ack \in SUBSET Request
  PROVE  PrevOf(r) \subseteq {q \in list_pub_wait_ack : seqno[q] < seqno[r]} \cup {Null}
  BY TailOfType DEF PrevOf

LEMMA InitTypeInv == Init => TypeInv
  BY NullIsNoRequest, PublishConstants
     DEF Init, TypeInv, TypeOK, CallInv, PubPC, YieldPC, Holding

Outcomes == {"none", "NO_CONN", "TOO_LONG", "PUSH_FAIL", "SEND_FAIL", "accepted"}

CallTypes ==
    /\ pc \in [Thread -> PubPC]
    /\ req \in [Thread -> Request \cup {Null}]
    /\ ret \in [Request -> Outcomes]

(* Moving a call from one place to the next, and leaving it.               *)
LEMMA MoveType ==
  ASSUME TypeOK, NEW t \in Thread, NEW p \in PubPC,
         pc' = [pc EXCEPT ![t] = p], UNCHANGED <<req, ret>>
  PROVE  CallTypes'
  BY DEF TypeOK, CallTypes, Outcomes

LEMMA ReturnType ==
  ASSUME TypeOK, NEW t \in Thread, NEW rc \in Outcomes, Return(t, rc)
  PROVE  CallTypes'
<1>1. pc' \in [Thread -> PubPC]
  BY DEF TypeOK, Return, PubPC
<1>2. req' \in [Thread -> Request \cup {Null}]
  BY DEF TypeOK, Return
<1>3. ret' \in [Request -> Outcomes]
  BY DEF TypeOK, Return, Outcomes
<1> QED
  BY <1>1, <1>2, <1>3 DEF CallTypes

LEMMA NextTypeOK == TypeInv /\ [Next]_vars => TypeOK'
<1> SUFFICES ASSUME TypeInv, [Next]_vars PROVE TypeOK'
  OBVIOUS
<1> USE DEF TypeInv, TypeOK, CallTypes, Outcomes
<1>1. ASSUME NEW t \in Thread, NEW r \in Request, PublishCall(t, r) PROVE TypeOK'
  <2>1. pc' \in [Thread -> PubPC] /\ req' \in [Thread -> Request \cup {Null}]
    BY <1>1 DEF PublishCall, PubPC
  <2>2. UNCHANGED <<client, list, sweep, network, history, generic, is_connected, msg_id, timedout>>
    BY <1>1 DEF PublishCall
  <2> QED
    BY <2>1, <2>2 DEF client, list, sweep, network, history, generic
<1>23. ASSUME NEW t \in Thread, PublishCheck(t) PROVE TypeOK'
  <2>1. CallTypes'
    BY <1>23, MoveType, ReturnType DEF PublishCheck, PubPC
  <2>2. UNCHANGED <<client, list, sweep, network, issued, seqno, notified,
                    generic, is_connected, msg_id, timedout>>
    BY <1>23 DEF PublishCheck
  <2> QED
    BY <2>1, <2>2 DEF client, list, sweep, network, generic
<1>2. ASSUME NEW t \in Thread, PublishLock(t) PROVE TypeOK'
  BY <1>2 DEF PublishLock, PubPC, client, list, threads, sweep, network, history, generic
<1>3. ASSUME NEW t \in Thread, GetNextPacketId(t) PROVE TypeOK'
  <2>1. req[t] \in Request
    BY <1>3, NullIsNoRequest DEF GetNextPacketId, CallInv
  <2>2. seqno' \in [Request -> Nat] /\ next_packet_id' \in 0 .. MAX_PACKET_ID
    BY <1>3, <2>1, NextIdType DEF GetNextPacketId
  <2>3. pc' \in [Thread -> PubPC]
    BY <1>3 DEF GetNextPacketId, PubPC
  <2>4. issued' \in Nat
    BY <1>3 DEF GetNextPacketId
  <2>5. UNCHANGED <<write_buf, lock_write_buf, list, req, sweep, network, ret, notified,
                    generic, is_connected, msg_id, timedout>>
    BY <1>3 DEF GetNextPacketId
  <2> QED
    BY <2>2, <2>3, <2>4, <2>5 DEF list, sweep, network, generic
<1>4. ASSUME NEW t \in Thread, Serialize(t) PROVE TypeOK'
  <2>1. req[t] \in Request
    BY <1>4, NullIsNoRequest DEF Serialize, CallInv
  <2>2. CallTypes'
    BY <1>4, MoveType, ReturnType DEF Serialize, PubPC
  <2>3. msg_id' \in [Request -> 0 .. MAX_PACKET_ID]
    BY <1>4, <2>1 DEF Serialize
  <2>4. write_buf' \in Request \cup {Null} /\ lock_write_buf' \in Thread \cup {Null}
    BY <1>4, <2>1 DEF Serialize
  <2>5. UNCHANGED <<next_packet_id, list, sweep, network, issued, seqno, notified,
                    generic, is_connected, timedout>>
    BY <1>4 DEF Serialize
  <2> QED
    BY <2>2, <2>3, <2>4, <2>5 DEF list, sweep, network, generic
<1>5. ASSUME NEW t \in Thread, Push(t) PROVE TypeOK'
  <2>1. req[t] \in Request
    BY <1>5, NullIsNoRequest DEF Push, PushUnless, CallInv
  <2>2. CallTypes'
    BY <1>5, MoveType, ReturnType DEF Push, PushUnless, PubPC
  <2>3. node_state' \in [Request -> {"none", "NORMAL", "INVALID", "freed"}]
    BY <1>5, <2>1 DEF Push, PushUnless
  <2>4. list_pub_wait_ack' \in SUBSET Request /\ lock_write_buf' \in Thread \cup {Null}
    BY <1>5, <2>1 DEF Push, PushUnless
  <2>5. UNCHANGED <<next_packet_id, write_buf, lock_list_pub, sweep, network,
                    issued, seqno, notified, generic, is_connected, msg_id, timedout>>
    BY <1>5 DEF Push, PushUnless
  <2> QED
    BY <2>2, <2>3, <2>4, <2>5 DEF list, sweep, network, generic
<1>6. ASSUME NEW t \in Thread, Send(t) PROVE TypeOK'
  <2>1. write_buf \in Request
    BY <1>6, NullIsNoRequest DEF Send, CallInv
  <2>2. Append(uplink, write_buf) \in Seq(Request)
    BY <2>1, AppendProperties
  <2>3. uplink' \in Seq(Request)
    BY <1>6, <2>2 DEF Send
  <2>4. framed' \in BOOLEAN
    BY <1>6 DEF Send
  <2>5. pc' \in [Thread -> PubPC]
    BY <1>6 DEF Send, PubPC
  <2>6. UNCHANGED <<client, list, req, sweep, downlink, history, generic, is_connected, msg_id, timedout>>
    BY <1>6 DEF Send
  <2> QED
    BY <2>3, <2>4, <2>5, <2>6 DEF client, list, sweep, history, generic
<1>7. ASSUME NEW t \in Thread, Undo(t) PROVE TypeOK'
  BY <1>7 DEF Undo, UndoOnce, Return, PubPC, client, list, threads, sweep, network, history, generic
<1>8. ASSUME NEW t \in Thread, Done(t) PROVE TypeOK'
  BY <1>8 DEF Done, Return, PubPC, client, list, threads, sweep, network, history, generic
<1>9. ASSUME NEW t \in AppThread, OtherRequest(t) PROVE TypeOK'
  <2>1. next_packet_id' \in 0 .. MAX_PACKET_ID
    BY <1>9, NextIdType DEF OtherRequest
  <2>2. framed' \in BOOLEAN
    BY <1>9 DEF OtherRequest
  <2>3. UNCHANGED <<lock_write_buf, lock_generic, list, threads, sweep, uplink, downlink, seqno,
                    ret, notified, is_connected, msg_id, timedout>>
    BY <1>9 DEF OtherRequest
  <2>4. write_buf' = Null /\ issued' \in Nat /\ unsubacks' \in Nat
    BY <1>9 DEF OtherRequest
  <2> QED
    BY <2>1, <2>2, <2>3, <2>4 DEF list, threads, sweep, generic
<1>10. CASE HandlePuback
  <2>1. notified' \in [Request -> Seq(Event)]
    BY <1>10 DEF HandlePuback, PubackMasks, Notify, Event
  <2>2. downlink' \in Seq(0 .. MAX_PACKET_ID)
    BY <1>10, HeadTailProperties DEF HandlePuback, PubackMasks
  <2>3. node_state' \in [Request -> {"none", "NORMAL", "INVALID", "freed"}]
    BY <1>10 DEF HandlePuback, PubackMasks
  <2>4. ypc' \in YieldPC /\ lock_list_pub' = Null
    BY <1>10 DEF HandlePuback, PubackMasks, YieldPC
  <2>5. UNCHANGED <<client, list_pub_wait_ack, threads, iter, temp_node, uplink, framed,
                    issued, seqno, ret, generic, is_connected, msg_id, timedout>>
    BY <1>10 DEF HandlePuback, PubackMasks
  <2> QED
    BY <2>1, <2>2, <2>3, <2>4, <2>5 DEF client, threads, generic
<1>11. CASE SweepStart
  BY <1>11, TailOfType DEF SweepStart, YieldPC, client, list, threads, sweep, network, history, generic
<1>12. CASE SweepEmpty
  BY <1>12 DEF SweepEmpty, YieldPC, client, list, threads, sweep, network, history, generic
<1>13. CASE SweepStep
  BY <1>13, PrevOfType DEF SweepStep, RemoveTemp, YieldPC, client, list, threads, sweep, network, history, generic
<1>14. CASE SweepTimeout
  BY <1>14 DEF SweepTimeout, Notify, Event, YieldPC, client, list, threads, sweep, network, history, generic
<1>15. CASE SweepCallbackReturns
  BY <1>15 DEF SweepCallbackReturns, YieldPC, client, list, threads, sweep, network, history, generic
<1>16. CASE SweepEnd
  BY <1>16 DEF SweepEnd, RemoveTemp, YieldPC, client, list, threads, sweep, network, history, generic
<1>17. ASSUME NEW r \in Request, TimerExpires(r) PROVE TypeOK'
  BY <1>17 DEF TimerExpires, client, list, threads, sweep, network, history, generic
<1>18. CASE ConnectionLost
  <2>1. is_connected' \in BOOLEAN /\ framed' \in BOOLEAN
    BY <1>18 DEF ConnectionLost
  <2> QED
    BY SMTT(30), <1>18, <2>1 DEF ConnectionLost, client, list, threads, sweep, history, generic
<1>19. CASE Reconnected
  BY <1>19 DEF Reconnected, client, list, threads, sweep, network, history, generic
<1>20. CASE BrokerAck
  <2>1. Head(uplink) \in Request /\ Tail(uplink) \in Seq(Request)
    BY <1>20, HeadTailProperties DEF BrokerAck
  <2>2. Append(downlink, msg_id[Head(uplink)]) \in Seq(0 .. MAX_PACKET_ID)
    BY <2>1, AppendProperties
  <2> QED
    BY <1>20, <2>1, <2>2 DEF BrokerAck, client, list, threads, sweep, history, generic
<1>21. CASE BrokerIgnores
  <2>1. Tail(uplink) \in Seq(Request)
    BY <1>21, HeadTailProperties DEF BrokerIgnores
  <2> QED
    BY <1>21, <2>1 DEF BrokerIgnores, client, list, threads, sweep, history, generic
<1>24. ASSUME NEW t \in AppThread, UnsubscribeBegin(t) \/ UnsubscribeEnd(t) PROVE TypeOK'
  <2>1. lock_generic' \in Thread \cup {Null}
    BY <1>24 DEF UnsubscribeBegin, UnsubscribeEnd, Thread
  <2>2. UNCHANGED <<client, list, threads, sweep, network, history, unsubacks,
                    is_connected, msg_id, timedout>>
    BY <1>24 DEF UnsubscribeBegin, UnsubscribeEnd
  <2> QED
    BY <2>1, <2>2 DEF client, list, threads, sweep, network, history
<1>25. CASE HandleUnsuback \/ UnsubackReturns
  <2>1. /\ lock_generic' \in Thread \cup {Null} /\ unsubacks' \in Nat
        /\ ypc' \in YieldPC
    BY <1>25, NullIsNoRequest DEF HandleUnsuback, UnsubackReturns, YieldPC
  <2>2. UNCHANGED <<client, list, threads, iter, temp_node, network, history,
                    is_connected, msg_id, timedout>>
    BY <1>25 DEF HandleUnsuback, UnsubackReturns
  <2> QED
    BY <2>1, <2>2 DEF client, list, threads, network, history
<1>22. CASE UNCHANGED vars
  BY <1>22 DEF vars, client, list, threads, sweep, network, history, generic
<1> QED
  BY <1>1, <1>2, <1>3, <1>4, <1>5, <1>6, <1>7, <1>8, <1>9, <1>10, <1>11, <1>12, <1>13,
     <1>14, <1>15, <1>16, <1>17, <1>18, <1>19, <1>20, <1>21, <1>22,
     <1>23, <1>24, <1>25
     DEF Next, PublishStep, YieldStep

(* The steps of the yield thread, the clock, the connection and the broker *)
(* leave the publish calls alone.                                          *)
LEMMA QuietSteps ==
  ASSUME \/ YieldStep \/ (\E r \in Request : TimerExpires(r)) \/ UNCHANGED vars
         \/ ConnectionLost \/ Reconnected \/ BrokerAck \/ BrokerIgnores
         \/ \E t \in AppThread : UnsubscribeBegin(t) \/ UnsubscribeEnd(t)
  PROVE  UNCHANGED <<pc, req, ret, client, issued, seqno, msg_id>>
  BY DEF YieldStep, HandlePuback, HandleUnsuback, UnsubackReturns, UnsubscribeBegin, UnsubscribeEnd,
          PubackMasks, SweepStart, SweepEmpty, SweepStep,
         SweepTimeout, SweepCallbackReturns, SweepEnd, TimerExpires, ConnectionLost,
         Reconnected, BrokerAck, BrokerIgnores, threads, history, vars, client

LEMMA MoveCallInv ==
  ASSUME CallTypes, CallInv, NEW t \in Thread, NEW p \in Holding,
         pc[t] \in Holding, pc' = [pc EXCEPT ![t] = p],
         p \in {"push", "send"} => write_buf' = req[t],
         UNCHANGED <<req, ret, lock_write_buf>>
  PROVE  CallInv'
  BY NullIsNoRequest DEF CallTypes, CallInv, PubPC, Holding

LEMMA ReturnCallInv ==
  ASSUME CallTypes, CallInv, NEW t \in Thread, NEW rc, Return(t, rc), UNCHANGED write_buf,
         \/ pc[t] \in Holding /\ lock_write_buf' = Null
         \/ pc[t] = "check" /\ UNCHANGED lock_write_buf
  PROVE  CallInv'
<1>1. \A u \in Thread : pc'[u] = "idle" <=> req'[u] = Null
  BY NullIsNoRequest DEF CallTypes, CallInv, Return
<1>2. \A u, v \in Thread : (req'[u] # Null /\ req'[u] = req'[v]) => u = v
  BY NullIsNoRequest DEF CallTypes, CallInv, Return
<1>3. \A u \in Thread : req'[u] # Null => ret'[req'[u]] = "none"
  BY NullIsNoRequest DEF CallTypes, CallInv, Return, Holding
<1>4. \A u \in Thread : pc'[u] \in Holding =>
         lock_write_buf' = u /\ u # t /\ pc'[u] = pc[u] /\ req'[u] = req[u]
  BY DEF CallTypes, CallInv, Return, Holding
<1>5. \A u \in Thread : pc'[u] \in {"push", "send"} => write_buf' = req'[u]
  BY <1>4 DEF CallInv, Holding
<1> QED
  BY <1>1, <1>2, <1>3, <1>4, <1>5 DEF CallInv

LEMMA NextCallInv == TypeInv /\ [Next]_vars => CallInv'
<1> SUFFICES ASSUME CallInv, CallTypes, [Next]_vars PROVE CallInv'
  BY DEF TypeInv, TypeOK, CallTypes, Outcomes
<1>1. ASSUME NEW t \in Thread, NEW r \in Request, PublishCall(t, r) PROVE CallInv'
  <2>1. /\ pc' = [pc EXCEPT ![t] = "check"] /\ req' = [req EXCEPT ![t] = r] /\ ret' = ret
        /\ UNCHANGED <<lock_write_buf, write_buf>>
    BY <1>1 DEF PublishCall, client, history
  <2>2. pc[t] = "idle" /\ ret[r] = "none" /\ \A u \in Thread : req[u] # r
    BY <1>1 DEF PublishCall
  <2> QED
    BY <2>1, <2>2, NullIsNoRequest DEF CallInv, CallTypes, Holding
<1>11. ASSUME NEW t \in Thread, PublishCheck(t) PROVE CallInv'
  <2>1. UNCHANGED <<lock_write_buf, write_buf>> /\ pc[t] = "check"
    BY <1>11 DEF PublishCheck, client
  <2>2. CASE pc' = [pc EXCEPT ![t] = "lock"] /\ UNCHANGED <<req, ret>>
    BY <2>1, <2>2, NullIsNoRequest DEF CallInv, CallTypes, Holding
  <2>3. CASE Return(t, "NO_CONN")
    BY <2>1, <2>3, ReturnCallInv
  <2> QED
    BY <1>11, <2>2, <2>3 DEF PublishCheck
<1>2. ASSUME NEW t \in Thread, PublishLock(t) PROVE CallInv'
  BY <1>2, NullIsNoRequest DEF PublishLock, CallInv, CallTypes, Holding, history
<1>3. ASSUME NEW t \in Thread, GetNextPacketId(t) PROVE CallInv'
  BY <1>3, MoveCallInv DEF GetNextPacketId, Holding
<1>4. ASSUME NEW t \in Thread, Serialize(t) PROVE CallInv'
  BY <1>4, MoveCallInv, ReturnCallInv DEF Serialize, Holding
<1>5. ASSUME NEW t \in Thread, Push(t) PROVE CallInv'
  <2>1. pc[t] = "push" /\ write_buf' = req[t]
    BY <1>5 DEF Push, PushUnless, CallInv
  <2> QED
    BY <1>5, <2>1, MoveCallInv, ReturnCallInv DEF Push, PushUnless, Holding
<1>6. ASSUME NEW t \in Thread, Send(t) PROVE CallInv'
  BY <1>6, MoveCallInv DEF Send, Holding, client, history
<1>7. ASSUME NEW t \in Thread, Undo(t) PROVE CallInv'
  BY <1>7, ReturnCallInv DEF Undo, UndoOnce, Holding
<1>8. ASSUME NEW t \in Thread, Done(t) PROVE CallInv'
  BY <1>8, ReturnCallInv DEF Done, Holding
<1>9. ASSUME NEW t \in AppThread, OtherRequest(t) PROVE CallInv'
  BY <1>9, NullIsNoRequest DEF OtherRequest, CallInv, Holding, threads
<1>10. CASE UNCHANGED <<pc, req, ret, client>>
  BY <1>10 DEF CallInv, client
<1> QED
  BY <1>1, <1>2, <1>3, <1>4, <1>5, <1>6, <1>7, <1>8, <1>9, <1>10, <1>11, QuietSteps
     DEF Next, PublishStep

LEMMA NextTypeInv == TypeInv /\ [Next]_vars => TypeInv'
  BY NextTypeOK, NextCallInv DEF TypeInv

(* Every variable keeps its type.  The packet handed to the network needs  *)
(* the write buffer to be the caller's own, hence CallInv.                 *)
THEOREM TypeCorrect == Spec => []TypeOK
<1>1. Init => TypeInv
  BY InitTypeInv
<1>2. TypeInv /\ [Next]_vars => TypeInv'
  BY NextTypeInv
<1>3. TypeInv => TypeOK
  BY DEF TypeInv
<1> QED
  BY <1>1, <1>2, <1>3, PTL DEF Spec

-----------------------------------------------------------------------------
(***************************************************************************)
(* Packet identifiers.                                                     *)
(***************************************************************************)
(* Requests whose packet was given its identifier.                         *)
Carried == {r \in Request : msg_id[r] # 0}

(* Identifier b comes d calls of get_next_packet_id after a.  Beyond a     *)
(* full turn of the counter nothing is claimed.                            *)
Ahead(a, d, b) == d < MAX_PACKET_ID => (b = a + d \/ b = a + d - MAX_PACKET_ID)

(* A node on the list, and a packet with an identifier, belong to a call   *)
(* that has come so far or is over.                                        *)
ListedInv ==
    /\ \A r \in list_pub_wait_ack :
          ret[r] # "none" \/ \E t \in Thread : req[t] = r /\ pc[t] \in Pushed
    /\ \A r \in Carried :
          ret[r] # "none" \/ \E t \in Thread : req[t] = r /\ pc[t] \in Pushed \cup {"push"}
    /\ list_pub_wait_ack \subseteq Carried
    /\ \A t \in Thread : pc[t] \in Pushed \cup {"push"} => req[t] \in Carried

(* The request of the thread that holds the write buffer has the latest    *)
(* identifier.                                                             *)
LatestInv ==
    \A t \in Thread : pc[t] \in Holding \ {"inc"} => seqno[req[t]] = issued /\ issued > 0

CounterInv ==
    /\ issued > 0 => next_packet_id >= 1
    /\ \A r \in Carried : /\ seqno[r] \in 1 .. issued
                          /\ msg_id[r] \in 1 .. MAX_PACKET_ID
                          /\ Ahead(msg_id[r], issued - seqno[r], next_packet_id)
    /\ \A r, q \in Carried :
           seqno[r] < seqno[q] => Ahead(msg_id[r], seqno[q] - seqno[r], msg_id[q])

IdInv == ListedInv /\ LatestInv /\ CounterInv

(* The sweep holds the list lock while it looks at nodes, its iterator is  *)
(* behind the node it is about to remove, and a node it found timed out    *)
(* belongs to a call that is over.                                         *)
SweepInv ==
    /\ ypc \in {"sweep", "timeout_cb"} => lock_list_pub = YieldThread
    /\ SweepHoldsLiveNodes
    /\ (ypc \in {"sweep", "relock", "timeout_cb"} /\ iter # Null /\ temp_node # Null)
           => seqno[iter] < seqno[temp_node]
    /\ \A r \in timedout : ret[r] # "none"
    /\ ypc = "relock" => temp_node # Null /\ ret[temp_node] # "none"

-----------------------------------------------------------------------------
LEMMA QuietList ==
  ASSUME \/ YieldStep \/ (\E r \in Request : TimerExpires(r)) \/ UNCHANGED vars
         \/ ConnectionLost \/ Reconnected \/ BrokerAck \/ BrokerIgnores
         \/ \E t \in AppThread : UnsubscribeBegin(t) \/ UnsubscribeEnd(t)
  PROVE  list_pub_wait_ack' \subseteq list_pub_wait_ack
  BY DEF YieldStep, HandlePuback, HandleUnsuback, UnsubackReturns, UnsubscribeBegin,
         UnsubscribeEnd, PubackMasks, SweepStart, SweepEmpty, SweepStep, RemoveTemp,
         SweepTimeout, SweepCallbackReturns, SweepEnd, TimerExpires, ConnectionLost,
         Reconnected, BrokerAck, BrokerIgnores, list, vars

(* A request whose call has not pushed its node yet is not on the list,    *)
(* and one that is not at its push either is not carried.                  *)
LEMMA NotListedYet ==
  ASSUME TypeInv, ListedInv, NEW t \in Thread, pc[t] \notin Pushed \cup {"idle"}
  PROVE  /\ req[t] \in Request \ list_pub_wait_ack
         /\ pc[t] # "push" => req[t] \notin Carried
  BY SMTT(30), NullIsNoRequest DEF TypeInv, TypeOK, CallInv, ListedInv, Pushed

(* One more identifier: the distance of every earlier one grows by one.    *)
LEMMA AheadNext ==
  ASSUME NEW a \in 1 .. MAX_PACKET_ID, NEW d \in Nat, NEW b \in 0 .. MAX_PACKET_ID,
         Ahead(a, d, b)
  PROVE  Ahead(a, d + 1, NextId(b))
  BY PublishConstants DEF Ahead, NextId

LEMMA CounterShrinks ==
  ASSUME CounterInv, Carried' \subseteq Carried,
         UNCHANGED <<next_packet_id, issued, seqno, msg_id>>
  PROVE  CounterInv'
  BY DEF CounterInv, Ahead

LEMMA CounterAdvances ==
  ASSUME TypeInv, CounterInv, Carried' \subseteq Carried,
         next_packet_id' = NextId(next_packet_id), issued' = issued + 1,
         \A r \in Carried : seqno'[r] = seqno[r], UNCHANGED msg_id
  PROVE  CounterInv'
<1>1. next_packet_id' >= 1
  BY NextIdType DEF TypeInv, TypeOK
<1>2. ASSUME NEW r \in Carried
      PROVE  /\ seqno[r] \in 1 .. issued'
             /\ msg_id[r] \in 1 .. MAX_PACKET_ID
             /\ Ahead(msg_id[r], issued' - seqno[r], next_packet_id')
  <2>1. /\ seqno[r] \in 1 .. issued /\ msg_id[r] \in 1 .. MAX_PACKET_ID
        /\ Ahead(msg_id[r], issued - seqno[r], next_packet_id)
    BY DEF CounterInv
  <2>2. issued \in Nat /\ next_packet_id \in 0 .. MAX_PACKET_ID
    BY DEF TypeInv, TypeOK
  <2>3. issued - seqno[r] \in Nat /\ issued' - seqno[r] = (issued - seqno[r]) + 1
    BY <2>1, <2>2
  <2>4. Ahead(msg_id[r], (issued - seqno[r]) + 1, NextId(next_packet_id))
    BY <2>1, <2>2, <2>3, AheadNext
  <2> QED
    BY <2>1, <2>2, <2>3, <2>4
<1>3. ASSUME NEW r \in Carried, NEW q \in Carried, seqno[r] < seqno[q]
      PROVE  Ahead(msg_id[r], seqno[q] - seqno[r], msg_id[q])
  BY <1>3 DEF CounterInv
<1> QED
  BY <1>1, <1>2, <1>3 DEF CounterInv, Ahead

LEMMA InitIdInv == Init => IdInv
  BY DEF Init, IdInv, ListedInv, LatestInv, CounterInv, Carried, Holding, Pushed

(* A step that undoes no push, takes back no return value and gives no     *)
(* identifier leaves the owners of nodes and packets as they are.          *)
LEMMA ListedKept ==
  ASSUME TypeInv, ListedInv,
         \A u \in Thread : pc[u] \in Pushed <=> pc'[u] \in Pushed,
         \A u \in Thread : pc[u] = "push" <=> pc'[u] = "push",
         \A u \in Thread : pc[u] \in Pushed \cup {"push"} => req'[u] = req[u],
         \A q \in Request : ret[q] # "none" => ret'[q] # "none",
         list_pub_wait_ack' \subseteq list_pub_wait_ack, UNCHANGED msg_id
  PROVE  ListedInv'
<1>1. Carried' = Carried /\ Carried \subseteq Request
  BY DEF Carried
<1> QED
  BY <1>1 DEF ListedInv

LEMMA ReturnIdInv ==
  ASSUME TypeInv, IdInv, NEW t \in Thread, NEW rc \in Outcomes \ {"none"},
         pc[t] \in Holding \cup {"check"}, Return(t, rc),
         list_pub_wait_ack' \subseteq list_pub_wait_ack,
         UNCHANGED <<next_packet_id, issued, seqno, msg_id>>
  PROVE  IdInv'
<1>0. Carried' = Carried /\ Carried \subseteq Request /\ list_pub_wait_ack \subseteq Request
  BY DEF Carried, TypeInv, TypeOK
<1>1. ListedInv'
  <2>1. \A u \in Thread : u # t => pc'[u] = pc[u] /\ req'[u] = req[u]
    BY DEF TypeInv, TypeOK, Return
  <2>2. pc'[t] = "idle"
    BY DEF TypeInv, TypeOK, Return
  <2>3. \A r \in Request : ret[r] # "none" \/ req[t] = r => ret'[r] # "none"
    BY DEF TypeInv, TypeOK, Return, Outcomes
  <2> QED
    BY <1>0, <2>1, <2>2, <2>3 DEF IdInv, ListedInv, Pushed
<1>2. LatestInv'
  BY DEF TypeInv, TypeOK, CallInv, IdInv, LatestInv, Return, Holding
<1>4. CounterInv'
  BY <1>0, CounterShrinks DEF IdInv
<1> QED
  BY <1>1, <1>2, <1>4 DEF IdInv

LEMMA NextIdInv == TypeInv /\ IdInv /\ [Next]_vars => IdInv'
<1> SUFFICES ASSUME TypeInv, IdInv, [Next]_vars PROVE IdInv'
  OBVIOUS
<1> USE DEF IdInv
<1>0. CallTypes /\ CallInv
  BY DEF TypeInv, TypeOK, CallTypes, Outcomes
<1>1. ASSUME NEW t \in Thread, NEW r \in Request, PublishCall(t, r) PROVE IdInv'
  <2>1. /\ pc[t] = "idle" /\ pc' = [pc EXCEPT ![t] = "check"]
        /\ req' = [req EXCEPT ![t] = r]
        /\ UNCHANGED <<ret, list_pub_wait_ack, issued, seqno, msg_id, next_packet_id>>
    BY <1>1 DEF PublishCall, client, list, history
  <2>2. ListedInv'
    <3>1. \A u \in Thread : pc[u] \in Pushed \cup {"push"} => pc'[u] = pc[u] /\ req'[u] = req[u]
      BY <1>0, <2>1 DEF CallTypes, Pushed
    <3>3. \A u \in Thread : pc'[u] \in Pushed \cup {"push"} => pc'[u] = pc[u]
      BY <1>0, <2>1 DEF CallTypes, Pushed
    <3> QED
      BY <2>1, <3>1, <3>3, ListedKept
  <2>3. LatestInv'
    BY <1>0, <2>1 DEF CallTypes, LatestInv, Holding
  <2>4. Carried' \subseteq Carried
    BY <1>0, <2>1 DEF CallTypes, Carried
  <2> QED
    BY <2>1, <2>2, <2>3, <2>4, CounterShrinks
<1>11. ASSUME NEW t \in Thread, PublishCheck(t) PROVE IdInv'
  <2>1. /\ pc[t] = "check"
        /\ UNCHANGED <<list_pub_wait_ack, issued, seqno, msg_id, next_packet_id>>
    BY <1>11 DEF PublishCheck, client, list
  <2>2. CASE Return(t, "NO_CONN")
    BY <2>1, <2>2, ReturnIdInv DEF Outcomes
  <2>3. CASE pc' = [pc EXCEPT ![t] = "lock"] /\ UNCHANGED <<req, ret>>
    <3>1. ListedInv'
      BY <1>0, <2>1, <2>3, ListedKept DEF CallTypes, Pushed
    <3>2. LatestInv'
      BY <1>0, <2>1, <2>3 DEF CallTypes, LatestInv, Holding
    <3>3. Carried' \subseteq Carried
      BY <2>1 DEF Carried
    <3> QED
      BY <2>1, <3>1, <3>2, <3>3, CounterShrinks
  <2> QED
    BY <1>11, <2>2, <2>3 DEF PublishCheck
<1>2. ASSUME NEW t \in Thread, PublishLock(t) PROVE IdInv'
  <2>1. /\ pc[t] = "lock" /\ pc' = [pc EXCEPT ![t] = "inc"]
        /\ UNCHANGED <<req, ret, list_pub_wait_ack, issued, seqno, msg_id, next_packet_id>>
    BY <1>2 DEF PublishLock, list, history
  <2>2. ListedInv'
    BY <1>0, <2>1, ListedKept DEF CallTypes, Pushed
  <2>3. LatestInv'
    BY <1>0, <2>1 DEF CallTypes, LatestInv, Holding
  <2>4. Carried' \subseteq Carried
    BY <1>0, <2>1 DEF CallTypes, Carried
  <2> QED
    BY <2>1, <2>2, <2>3, <2>4, CounterShrinks
<1>3. ASSUME NEW t \in Thread, GetNextPacketId(t) PROVE IdInv'
  <2>1. /\ pc[t] = "inc" /\ pc' = [pc EXCEPT ![t] = "read"]
        /\ next_packet_id' = NextId(next_packet_id) /\ issued' = issued + 1
        /\ seqno' = [seqno EXCEPT ![req[t]] = issued + 1]
        /\ UNCHANGED <<req, ret, list_pub_wait_ack, msg_id>>
    BY <1>3 DEF GetNextPacketId, list
  <2>2. req[t] \in Request \ Carried
    BY <2>1, NotListedYet DEF Pushed
  <2>3. seqno \in [Request -> Nat] /\ issued \in Nat /\ Carried \subseteq Request
    BY DEF TypeInv, TypeOK, Carried
  <2>4. ListedInv'
    BY <1>0, <2>1, ListedKept DEF CallTypes, Pushed
  <2>5. LatestInv'
    BY <1>0, <2>1, <2>2, <2>3 DEF CallTypes, CallInv, LatestInv, Holding
  <2>6. Carried' \subseteq Carried
    BY <1>0, <2>1 DEF CallTypes, Carried
  <2>7. \A r \in Carried : seqno'[r] = seqno[r]
    BY <2>1, <2>2, <2>3
  <2> QED
    BY <2>1, <2>4, <2>5, <2>6, <2>7, CounterAdvances
<1>4. ASSUME NEW t \in Thread, Serialize(t) PROVE IdInv'
  <2>1. pc[t] = "read" /\ UNCHANGED <<next_packet_id, list_pub_wait_ack, issued, seqno>>
    BY <1>4 DEF Serialize, list
  <2>2. req[t] \in Request \ Carried
    BY <2>1, NotListedYet DEF Pushed
  <2>3. CASE Return(t, "TOO_LONG") /\ UNCHANGED msg_id
    BY <2>1, <2>3, ReturnIdInv DEF Holding, Outcomes
  <2>4. CASE /\ msg_id' = [msg_id EXCEPT ![req[t]] = next_packet_id]
             /\ pc' = [pc EXCEPT ![t] = "push"] /\ UNCHANGED <<req, ret>>
    <3>0. /\ Carried' = Carried \cup {req[t]} /\ Carried \subseteq Request
          /\ UNCHANGED list_pub_wait_ack
      <4>1. next_packet_id # 0 /\ msg_id \in [Request -> 0 .. MAX_PACKET_ID]
        BY <2>1 DEF TypeInv, TypeOK, LatestInv, CounterInv, Holding
      <4> QED
        BY <2>1, <2>2, <2>4, <4>1 DEF Carried
    <3>1. ListedInv'
      BY <1>0, <2>1, <2>4, <3>0 DEF CallTypes, ListedInv, Pushed
    <3>2. LatestInv'
      BY <1>0, <2>1, <2>4 DEF CallTypes, LatestInv, Holding
    <3>3. Carried' \subseteq Carried \cup {req[t]}
      BY <3>0
    <3>4. /\ msg_id \in [Request -> 0 .. MAX_PACKET_ID] /\ Carried \subseteq Request
          /\ next_packet_id \in 1 .. MAX_PACKET_ID /\ issued \in Nat
          /\ seqno[req[t]] = issued /\ issued > 0
      BY <2>1 DEF TypeInv, TypeOK, Carried, LatestInv, CounterInv, Holding
    <3>5. /\ msg_id'[req[t]] = next_packet_id
          /\ \A r \in Carried : msg_id'[r] = msg_id[r]
      BY <2>2, <2>4, <3>4
    <3>6. ASSUME NEW r \in Carried'
          PROVE  /\ seqno[r] \in 1 .. issued /\ msg_id'[r] \in 1 .. MAX_PACKET_ID
                 /\ Ahead(msg_id'[r], issued - seqno[r], next_packet_id)
      BY <3>3, <3>4, <3>5 DEF CounterInv, Ahead
    <3>7. ASSUME NEW r \in Carried', NEW q \in Carried', seqno[r] < seqno[q]
          PROVE  Ahead(msg_id'[r], seqno[q] - seqno[r], msg_id'[q])
      <4>1. r # req[t]
        BY <3>4, <3>6, <3>7
      <4>2. CASE q = req[t]
        BY <3>4, <3>5, <3>6, <4>2
      <4>3. CASE q # req[t]
        BY <3>3, <3>5, <3>7, <4>1, <4>3 DEF CounterInv
      <4> QED
        BY <4>2, <4>3
    <3>8. CounterInv'
      BY <2>1, <3>4, <3>6, <3>7 DEF CounterInv, Ahead
    <3> QED
      BY <3>1, <3>2, <3>8
  <2> QED
    BY <1>4, <2>3, <2>4 DEF Serialize
<1>5. ASSUME NEW t \in Thread, Push(t) PROVE IdInv'
  <2>1. pc[t] = "push" /\ UNCHANGED <<next_packet_id, issued, seqno, msg_id>>
    BY <1>5 DEF Push, PushUnless
  <2>2. CASE Return(t, "PUSH_FAIL") /\ UNCHANGED list_pub_wait_ack
    BY <2>1, <2>2, ReturnIdInv DEF Holding, Outcomes
  <2>3. CASE /\ list_pub_wait_ack' = list_pub_wait_ack \cup {req[t]}
             /\ pc' = [pc EXCEPT ![t] = "send"] /\ UNCHANGED <<req, ret>>
    <3>1. ListedInv'
      <4>1. req[t] \in Carried /\ Carried' = Carried
        BY <2>1 DEF ListedInv, Carried
      <4> QED
        BY <1>0, <2>1, <2>3, <4>1 DEF CallTypes, ListedInv, Pushed
    <3>2. LatestInv'
      BY <1>0, <2>1, <2>3 DEF CallTypes, LatestInv, Holding
    <3>3. req[t] \in Request
      BY <1>0, <2>1, NotListedYet DEF Pushed
    <3>4. Carried' \subseteq Carried
      BY <1>0, <2>1, <2>3, <3>3 DEF CallTypes, Carried
    <3> QED
      BY <2>1, <3>1, <3>2, <3>4, CounterShrinks
  <2> QED
    BY <1>5, <2>2, <2>3 DEF Push, PushUnless
<1>6. ASSUME NEW t \in Thread, Send(t) PROVE IdInv'
  <2>1. /\ pc[t] = "send" /\ pc' \in {[pc EXCEPT ![t] = "done"], [pc EXCEPT ![t] = "undo"]}
        /\ UNCHANGED <<req, ret, list_pub_wait_ack, issued, seqno, msg_id, next_packet_id>>
    BY <1>6 DEF Send, client, list, history
  <2>2. ListedInv'
    BY <1>0, <2>1, ListedKept DEF CallTypes, Pushed
  <2>3. LatestInv'
    BY <1>0, <2>1 DEF CallTypes, LatestInv, Holding
  <2>4. Carried' \subseteq Carried
    BY <1>0, <2>1 DEF CallTypes, Carried
  <2> QED
    BY <2>1, <2>2, <2>3, <2>4, CounterShrinks
<1>7. ASSUME NEW t \in Thread, Undo(t) PROVE IdInv'
  BY <1>7, ReturnIdInv DEF Undo, UndoOnce, Holding, Outcomes
<1>8. ASSUME NEW t \in Thread, Done(t) PROVE IdInv'
  BY <1>8, ReturnIdInv DEF Done, Holding, Outcomes, list
<1>9. ASSUME NEW t \in AppThread, OtherRequest(t) PROVE IdInv'
  <2>1. /\ lock_write_buf = Null /\ next_packet_id' = NextId(next_packet_id) /\ issued' = issued + 1
        /\ UNCHANGED <<pc, req, ret, list_pub_wait_ack, msg_id, seqno>>
    BY <1>9 DEF OtherRequest, list, threads
  <2>2. ListedInv'
    BY <2>1, ListedKept
  <2>3. LatestInv'
    BY <1>0, <2>1, NullIsNoRequest DEF CallInv, LatestInv
  <2>4. Carried' \subseteq Carried
    BY <2>1 DEF Carried
  <2> QED
    BY <2>1, <2>2, <2>3, <2>4, CounterAdvances
<1>10. CASE /\ UNCHANGED <<pc, req, ret, client, issued, seqno, msg_id>>
            /\ list_pub_wait_ack' \subseteq list_pub_wait_ack
  <2>1. ListedInv' /\ LatestInv' /\ Carried' \subseteq Carried
    BY <1>10, ListedKept DEF LatestInv, Carried
  <2> QED
    BY <1>10, <2>1, CounterShrinks DEF client
<1> QED
  BY <1>1, <1>2, <1>3, <1>4, <1>5, <1>6, <1>7, <1>8, <1>9, <1>10, <1>11, QuietSteps, QuietList
     DEF Next, PublishStep

(* Two packets on the wait list share an identifier only if the counter    *)
(* went all the way round between them.                                    *)
THEOREM IdentifiersUnique == Spec => []IdsUniqueUntilWrap
<1>1. Init => TypeInv /\ IdInv
  BY InitTypeInv, InitIdInv
<1>2. TypeInv /\ IdInv /\ [Next]_vars => (TypeInv /\ IdInv)'
  BY NextTypeInv, NextIdInv
<1>3. TypeInv /\ IdInv => IdsUniqueUntilWrap
  <2> SUFFICES ASSUME TypeInv, IdInv,
                      NEW r \in list_pub_wait_ack, NEW q \in list_pub_wait_ack,
                      seqno[r] < seqno[q], msg_id[r] = msg_id[q],
                      ~(seqno[q] - seqno[r] >= MAX_PACKET_ID)
               PROVE  FALSE
    BY DEF IdsUniqueUntilWrap
  <2>1. /\ Ahead(msg_id[r], seqno[q] - seqno[r], msg_id[q])
        /\ msg_id[r] \in 1 .. MAX_PACKET_ID
        /\ seqno[r] \in Nat /\ seqno[q] \in Nat /\ MAX_PACKET_ID \in Nat
    BY PublishConstants DEF IdInv, ListedInv, CounterInv, TypeInv, TypeOK
  <2> QED
    BY <2>1 DEF Ahead
<1> QED
  BY <1>1, <1>2, <1>3, PTL DEF Spec

-----------------------------------------------------------------------------
(***************************************************************************)
(* The sweep and the error path share the list.                            *)
(***************************************************************************)
InSweep == {"sweep", "relock", "timeout_cb"}

LEMMA InitSweepInv == Init => SweepInv
  BY DEF Init, SweepInv, SweepHoldsLiveNodes

(* A step that leaves the sweep, the identifiers and the nodes it points   *)
(* to alone, and takes back no return value, preserves the invariant.      *)
LEMMA SweepUntouched ==
  ASSUME TypeInv, SweepInv, UNCHANGED <<ypc, iter, temp_node, lock_list_pub, timedout>>,
         \A r \in list_pub_wait_ack : seqno'[r] = seqno[r],
         \A r \in Request : ret[r] # "none" => ret'[r] # "none",
         ypc \in InSweep => {iter, temp_node} \subseteq list_pub_wait_ack' \cup {Null}
  PROVE  SweepInv'
  BY NullIsNoRequest DEF SweepInv, SweepHoldsLiveNodes, InSweep, TypeInv, TypeOK

LEMMA NextSweepInv ==
  ASSUME TimelySender
  PROVE  TypeInv /\ IdInv /\ SweepInv /\ [Next]_vars => SweepInv'
<1> SUFFICES ASSUME TypeInv, IdInv, SweepInv, [Next]_vars PROVE SweepInv'
  OBVIOUS
<1>0. /\ CallTypes /\ CallInv /\ list_pub_wait_ack \subseteq Request
      /\ seqno \in [Request -> Nat]
      /\ ypc \in InSweep => {iter, temp_node} \subseteq list_pub_wait_ack \cup {Null}
  BY DEF TypeInv, TypeOK, CallTypes, Outcomes, SweepInv, SweepHoldsLiveNodes, InSweep
<1>1. ASSUME NEW t \in Thread, NEW r \in Request, PublishCall(t, r) PROVE SweepInv'
  BY <1>0, <1>1, SweepUntouched DEF PublishCall, list, sweep, history
<1>23. ASSUME NEW t \in Thread, PublishCheck(t) PROVE SweepInv'
  <2>1. \A q \in Request : ret[q] # "none" => ret'[q] # "none"
    BY <1>0, <1>23 DEF PublishCheck, Return, CallTypes
  <2> QED
    BY <1>0, <1>23, <2>1, SweepUntouched DEF PublishCheck, list, sweep
<1>24. ASSUME NEW t \in AppThread, UnsubscribeBegin(t) \/ UnsubscribeEnd(t) PROVE SweepInv'
  BY <1>0, <1>24, SweepUntouched DEF UnsubscribeBegin, UnsubscribeEnd, list, sweep, history
<1>25. CASE HandleUnsuback \/ UnsubackReturns
  BY <1>25 DEF HandleUnsuback, UnsubackReturns, SweepInv, SweepHoldsLiveNodes, history
<1>2. ASSUME NEW t \in Thread, PublishLock(t) PROVE SweepInv'
  BY <1>0, <1>2, SweepUntouched DEF PublishLock, list, sweep, history
<1>3. ASSUME NEW t \in Thread, GetNextPacketId(t) PROVE SweepInv'
  <2>1. pc[t] = "inc" /\ seqno' = [seqno EXCEPT ![req[t]] = issued + 1]
    BY <1>3 DEF GetNextPacketId
  <2>2. req[t] \notin list_pub_wait_ack
    BY <2>1, NotListedYet DEF Pushed, IdInv
  <2>3. \A r \in list_pub_wait_ack : seqno'[r] = seqno[r]
    BY <1>0, <2>1, <2>2
  <2> QED
    BY <1>0, <1>3, <2>3, SweepUntouched DEF GetNextPacketId, list, sweep
<1>4. ASSUME NEW t \in Thread, Serialize(t) PROVE SweepInv'
  <2>1. \A q \in Request : ret[q] # "none" => ret'[q] # "none"
    BY <1>0, <1>4 DEF Serialize, Return, CallTypes
  <2> QED
    BY <1>0, <1>4, <2>1, SweepUntouched DEF Serialize, list, sweep
<1>5. ASSUME NEW t \in Thread, Push(t) PROVE SweepInv'
  <2>1. \A q \in Request : ret[q] # "none" => ret'[q] # "none"
    BY <1>0, <1>5 DEF Push, PushUnless, Return, CallTypes
  <2>2. list_pub_wait_ack \subseteq list_pub_wait_ack'
    BY <1>5 DEF Push, PushUnless
  <2> QED
    BY <1>0, <1>5, <2>1, <2>2, SweepUntouched DEF Push, PushUnless, sweep
<1>6. ASSUME NEW t \in Thread, Send(t) PROVE SweepInv'
  BY <1>0, <1>6, SweepUntouched DEF Send, list, sweep, history
<1>7. ASSUME NEW t \in Thread, Undo(t) PROVE SweepInv'
  <2>1. /\ pc[t] = "undo" /\ lock_list_pub = Null
        /\ list_pub_wait_ack' = list_pub_wait_ack \ {req[t]}
        /\ UNCHANGED <<ypc, iter, temp_node, lock_list_pub, timedout, seqno>>
    BY <1>7 DEF Undo, UndoOnce, sweep
  <2>2. \A q \in Request : ret[q] # "none" => ret'[q] # "none"
    BY <1>0, <1>7 DEF Undo, UndoOnce, Return, CallTypes
  <2>3. ypc \in InSweep => ypc = "relock"
    BY <2>1, NullIsNoRequest DEF SweepInv, InSweep
  <2>4. ypc = "relock" => temp_node # req[t]
    BY <1>0, <2>1, NullIsNoRequest DEF SweepInv, CallInv
  <2>5. ypc = "relock" => iter # req[t]
    <3> SUFFICES ASSUME ypc = "relock", iter = req[t] PROVE FALSE
      OBVIOUS
    <3>1. req[t] # Null /\ seqno[req[t]] = issued
      BY <1>0, <2>1 DEF CallInv, IdInv, LatestInv, Holding
    <3>2. temp_node \in list_pub_wait_ack /\ seqno[iter] < seqno[temp_node]
      BY <1>0, <3>1 DEF SweepInv, InSweep
    <3>3. seqno[temp_node] \in 1 .. issued /\ issued \in Nat
      BY <3>2 DEF IdInv, ListedInv, CounterInv, TypeInv, TypeOK
    <3> QED
      BY <3>1, <3>2, <3>3
  <2>6. ypc \in InSweep => {iter, temp_node} \subseteq list_pub_wait_ack' \cup {Null}
    BY <1>0, <2>1, <2>3, <2>4, <2>5
  <2> QED
    BY <2>1, <2>2, <2>6, SweepUntouched
<1>8. ASSUME NEW t \in Thread, Done(t) PROVE SweepInv'
  <2>1. \A q \in Request : ret[q] # "none" => ret'[q] # "none"
    BY <1>0, <1>8 DEF Done, Return, CallTypes
  <2> QED
    BY <1>0, <1>8, <2>1, SweepUntouched DEF Done, list, sweep
<1>9. ASSUME NEW t \in AppThread, OtherRequest(t) PROVE SweepInv'
  BY <1>0, <1>9, SweepUntouched DEF OtherRequest, list, sweep
<1>10. CASE HandlePuback
  BY <1>10 DEF HandlePuback, PubackMasks, SweepInv, SweepHoldsLiveNodes
<1>11. CASE SweepStart
  BY <1>0, <1>11, TailOfType DEF SweepStart, SweepInv, SweepHoldsLiveNodes, history
<1>12. CASE SweepEmpty
  BY <1>12 DEF SweepEmpty, SweepInv, SweepHoldsLiveNodes, history
<1>13. CASE SweepStep
  <2>1. /\ ypc = "sweep" /\ iter # Null /\ iter' \in PrevOf(iter)
        /\ list_pub_wait_ack' = list_pub_wait_ack \ {temp_node}
        /\ temp_node' \in {iter, Null} /\ ypc' \in {"sweep", "relock"}
        /\ ypc' = "sweep" => lock_list_pub' = lock_list_pub
        /\ ypc' = "relock" => iter \in timedout /\ temp_node' = iter
        /\ timedout' \subseteq timedout /\ UNCHANGED <<seqno, ret>>
    BY <1>13 DEF SweepStep, RemoveTemp, history
  <2>2. iter \in list_pub_wait_ack /\ iter # temp_node
    BY <1>0, <2>1 DEF SweepInv, InSweep
  <2>3. iter' \in {q \in list_pub_wait_ack : seqno[q] < seqno[iter]} \cup {Null}
    BY <1>0, <2>1, PrevOfType
  <2>4. iter' # Null => iter' # temp_node
    <3> SUFFICES ASSUME iter' # Null, iter' = temp_node PROVE FALSE
      OBVIOUS
    <3>1. seqno[iter] < seqno[temp_node] /\ seqno[temp_node] < seqno[iter]
      BY <2>1, <2>3 DEF SweepInv
    <3> QED
      BY <1>0, <2>2, <2>3, <3>1
  <2> QED
    BY <2>1, <2>2, <2>3, <2>4 DEF SweepInv, SweepHoldsLiveNodes
<1>14. CASE SweepTimeout
  BY <1>0, <1>14 DEF SweepTimeout, SweepInv, SweepHoldsLiveNodes, InSweep
<1>15. CASE SweepCallbackReturns
  BY <1>0, <1>15 DEF SweepCallbackReturns, SweepInv, SweepHoldsLiveNodes, InSweep, list, history
<1>16. CASE SweepEnd
  BY <1>16 DEF SweepEnd, SweepInv, SweepHoldsLiveNodes, history
<1>17. ASSUME NEW r \in Request, TimerExpires(r) PROVE SweepInv'
  <2>1. ret[r] # "none"
    BY <1>17 DEF TimerExpires, Sending, IdInv, ListedInv, Pushed
  <2> QED
    BY <1>17, <2>1 DEF TimerExpires, SweepInv, SweepHoldsLiveNodes, list, sweep, history
<1>18. CASE ConnectionLost
  BY <1>0, <1>18, SweepUntouched DEF ConnectionLost, list, sweep, history
<1>19. CASE Reconnected
  BY <1>0, <1>19, SweepUntouched DEF Reconnected, list, sweep, history
<1>20. CASE BrokerAck
  BY <1>0, <1>20, SweepUntouched DEF BrokerAck, list, sweep, history
<1>21. CASE BrokerIgnores
  BY <1>0, <1>21, SweepUntouched DEF BrokerIgnores, list, sweep, history
<1>22. CASE UNCHANGED vars
  BY <1>0, <1>22, SweepUntouched DEF vars, list, sweep, history
<1> QED
  BY <1>1, <1>2, <1>3, <1>4, <1>5, <1>6, <1>7, <1>8, <1>9, <1>10, <1>11, <1>12, <1>13,
     <1>14, <1>15, <1>16, <1>17, <1>18, <1>19, <1>20, <1>21, <1>22, <1>23, <1>24, <1>25
     DEF Next, PublishStep, YieldStep

(* If no node timer runs out during its publish call, the sweep never      *)
(* follows a pointer to a node that the error path of a call has freed,    *)
(* even though it drops lock_list_pub between two rounds: the node that a  *)
(* call may free is the youngest one, and the iterator is past it.         *)
THEOREM SweepSafe ==
  ASSUME TimelySender
  PROVE  Spec => []SweepHoldsLiveNodes
<1>1. Init => TypeInv /\ IdInv /\ SweepInv
  BY InitTypeInv, InitIdInv, InitSweepInv
<1>2. TypeInv /\ IdInv /\ SweepInv /\ [Next]_vars => (TypeInv /\ IdInv /\ SweepInv)'
  BY NextTypeInv, NextIdInv, NextSweepInv
<1>3. SweepInv => SweepHoldsLiveNodes
  BY DEF SweepInv
<1> QED
  BY <1>1, <1>2, <1>3, PTL DEF Spec

-----------------------------------------------------------------------------
(***************************************************************************)
(* What is on the wire, until the identifiers have gone round once.        *)
(***************************************************************************)
(* No identifier was handed out twice yet.                                 *)
FirstTurn == issued <= MAX_PACKET_ID

(* The position of an identifier belongs to one request.                   *)
SeqInv ==
    /\ \A r \in Request : seqno[r] <= issued
    /\ \A r, q \in Request : seqno[r] = seqno[q] /\ seqno[r] # 0 => r = q

(* The packet of r has left, and the call reports that it was accepted.    *)
Sent(r) == ret[r] = "accepted" \/ \E t \in Thread : req[t] = r /\ pc[t] = "done"

(* A packet or a PUBACK on the wire is that of a request that was sent.    *)
WireInv ==
    /\ \A i \in DOMAIN uplink : \E q \in Carried : Sent(q) /\ q = uplink[i]
    /\ \A i, j \in DOMAIN uplink : i < j => seqno[uplink[i]] < seqno[uplink[j]]
    /\ \A i \in DOMAIN downlink : \E q \in Carried : Sent(q) /\ msg_id[q] = downlink[i]

(* The node of a call that has not sent its packet, or failed to, is on    *)
(* the list, not acknowledged and not chosen for removal.                  *)
UnsentInv ==
    \A t \in Thread : pc[t] \in {"send", "undo"} =>
        /\ req[t] \in list_pub_wait_ack /\ node_state[req[t]] # "INVALID"
        /\ ypc \in {"sweep", "relock", "timeout_cb"} => temp_node # req[t]

(* Once a packet has its identifier, nothing about it changes any more, and*)
(* a call that returned has returned.                                      *)
StableCarried ==
    /\ \A r \in Carried : /\ r \in Carried' /\ msg_id'[r] = msg_id[r] /\ seqno'[r] = seqno[r]
                          /\ Sent(r) => Sent(r)'
    /\ \A r \in Request : ret[r] # "none" => ret'[r] = ret[r]

LEMMA CarriedIsStable ==
  ASSUME TypeInv, IdInv, [Next]_vars
  PROVE  StableCarried
<1> DEFINE Same == \A r \in Carried : msg_id'[r] = msg_id[r] /\ seqno'[r] = seqno[r]
           Returns == \A r \in Request : ret[r] # "none" => ret'[r] = ret[r]
           Calls == \A u \in Thread : pc[u] = "done" =>
                        \/ pc'[u] = "done" /\ req'[u] = req[u]
                        \/ ret'[req[u]] = "accepted"
<1>0. CallTypes /\ CallInv /\ Carried \subseteq Request
      /\ msg_id \in [Request -> 0 .. MAX_PACKET_ID] /\ seqno \in [Request -> Nat]
  BY DEF TypeInv, TypeOK, CallTypes, Outcomes, Carried
<1>1. SUFFICES Same /\ Returns /\ Calls
  BY <1>0 DEF StableCarried, Sent, Carried
<1>2. ASSUME NEW t \in Thread, NEW r \in Request, PublishCall(t, r)
      PROVE  Same /\ Returns /\ Calls
  BY <1>0, <1>2 DEF PublishCall, CallTypes, history
<1>3. ASSUME NEW t \in Thread, PublishLock(t) PROVE Same /\ Returns /\ Calls
  BY <1>0, <1>3 DEF PublishLock, CallTypes, history
<1>4. ASSUME NEW t \in Thread, GetNextPacketId(t) PROVE Same /\ Returns /\ Calls
  <2>1. req[t] \notin Carried
    BY <1>4, NotListedYet DEF GetNextPacketId, IdInv, Pushed
  <2> QED
    BY <1>0, <1>4, <2>1 DEF GetNextPacketId, CallTypes
<1>5. ASSUME NEW t \in Thread, Serialize(t) PROVE Same /\ Returns /\ Calls
  <2>1. req[t] \in Request \ Carried /\ ret[req[t]] = "none"
    BY <1>0, <1>5, NotListedYet, NullIsNoRequest DEF Serialize, IdInv, Pushed, CallInv
  <2>2. Same
    BY <1>0, <1>5, <2>1 DEF Serialize
  <2> QED
    BY <1>0, <1>5, <2>1, <2>2 DEF Serialize, Return, CallTypes
<1>6. ASSUME NEW t \in Thread, NEW rc, pc[t] \in Holding \cup {"check"}, Return(t, rc),
             pc[t] = "done" => rc = "accepted", UNCHANGED <<msg_id, seqno>>
      PROVE  Same /\ Returns /\ Calls
  <2>1. req[t] \in Request /\ ret[req[t]] = "none"
    BY <1>0, <1>6, NullIsNoRequest DEF CallTypes, CallInv, Holding
  <2> QED
    BY <1>0, <1>6, <2>1 DEF Return, CallTypes
<1>7. ASSUME NEW t \in Thread, Push(t) PROVE Same /\ Returns /\ Calls
  <2>1. CASE pc' = [pc EXCEPT ![t] = "send"] /\ UNCHANGED <<req, ret, msg_id, seqno>>
    BY <1>0, <1>7, <2>1 DEF Push, PushUnless, CallTypes
  <2>2. CASE Return(t, "PUSH_FAIL")
    BY <1>6, <1>7, <2>2 DEF Push, PushUnless, Holding
  <2> QED
    BY <1>7, <2>1, <2>2 DEF Push, PushUnless
<1>8. ASSUME NEW t \in Thread, Send(t) PROVE Same /\ Returns /\ Calls
  BY <1>0, <1>8 DEF Send, CallTypes, history
<1>9. ASSUME NEW t \in Thread, Undo(t) PROVE Same /\ Returns /\ Calls
  BY <1>6, <1>9 DEF Undo, UndoOnce, Holding
<1>10. ASSUME NEW t \in Thread, Done(t) PROVE Same /\ Returns /\ Calls
  BY <1>6, <1>10 DEF Done, Holding
<1>11. ASSUME NEW t \in AppThread, OtherRequest(t) PROVE Same /\ Returns /\ Calls
  BY <1>11 DEF OtherRequest, threads
<1>12. CASE UNCHANGED <<pc, req, ret, client, issued, seqno, msg_id>>
  BY <1>12
<1>13. ASSUME NEW t \in Thread, PublishCheck(t) PROVE Same /\ Returns /\ Calls
  <2>1. CASE pc' = [pc EXCEPT ![t] = "lock"] /\ UNCHANGED <<req, ret, msg_id, seqno>>
    BY <1>0, <1>13, <2>1 DEF PublishCheck, CallTypes
  <2>2. CASE Return(t, "NO_CONN")
    BY <1>6, <1>13, <2>2 DEF PublishCheck
  <2> QED
    BY <1>13, <2>1, <2>2 DEF PublishCheck
<1> QED
  BY <1>2, <1>3, <1>4, <1>5, <1>7, <1>8, <1>9, <1>10, <1>11, <1>12, <1>13, QuietSteps
     DEF Next, PublishStep

LEMMA NextSeqInv == TypeInv /\ IdInv /\ SeqInv /\ [Next]_vars => SeqInv'
<1> SUFFICES ASSUME TypeInv, IdInv, SeqInv, [Next]_vars PROVE SeqInv'
  OBVIOUS
<1>0. seqno \in [Request -> Nat] /\ issued \in Nat
  BY DEF TypeInv, TypeOK
<1>1. ASSUME NEW t \in Thread, GetNextPacketId(t) PROVE SeqInv'
  BY <1>0, <1>1 DEF GetNextPacketId, SeqInv
<1>2. ASSUME NEW t \in AppThread, OtherRequest(t) PROVE SeqInv'
  BY <1>0, <1>2 DEF OtherRequest, SeqInv
<1>3. ASSUME NEW t \in Thread, \/ (\E r \in Request : PublishCall(t, r)) \/ PublishCheck(t)
                               \/ PublishLock(t) \/ Serialize(t) \/ Push(t) \/ Send(t)
                               \/ Undo(t) \/ Done(t)
      PROVE  UNCHANGED <<issued, seqno>>
  BY <1>3 DEF PublishCall, PublishCheck, PublishLock, Serialize, Push, PushUnless, Send, Undo, UndoOnce,
              Done, history
<1>4. CASE UNCHANGED <<issued, seqno>>
  BY <1>4 DEF SeqInv
<1> QED
  BY <1>1, <1>2, <1>3, <1>4, QuietSteps DEF Next, PublishStep

(* The steps that touch the connection.                                    *)
LEMMA NetworkSteps ==
  ASSUME [Next]_vars
  PROVE  \/ UNCHANGED <<uplink, downlink>> \/ (\E t \in Thread : Send(t)) \/ HandlePuback
         \/ ConnectionLost \/ BrokerAck \/ BrokerIgnores
<1>1. ASSUME NEW t \in Thread, \/ (\E r \in Request : PublishCall(t, r)) \/ PublishCheck(t)
                               \/ PublishLock(t) \/ GetNextPacketId(t) \/ Serialize(t)
                               \/ Push(t) \/ Undo(t) \/ Done(t)
      PROVE  UNCHANGED <<uplink, downlink>>
  BY <1>1 DEF PublishCall, PublishCheck, PublishLock, GetNextPacketId, Serialize, Push, PushUnless, Undo,
              UndoOnce, Done, network
<1>2. ASSUME NEW t \in AppThread, OtherRequest(t) \/ UnsubscribeBegin(t) \/ UnsubscribeEnd(t)
      PROVE  UNCHANGED <<uplink, downlink>>
  BY <1>2 DEF OtherRequest, UnsubscribeBegin, UnsubscribeEnd, network
<1>3. CASE \/ SweepStart \/ SweepEmpty \/ SweepStep \/ SweepTimeout \/ SweepCallbackReturns
           \/ SweepEnd \/ (\E r \in Request : TimerExpires(r)) \/ Reconnected
           \/ HandleUnsuback \/ UnsubackReturns \/ UNCHANGED vars
  BY <1>3 DEF HandleUnsuback, UnsubackReturns, SweepStart, SweepEmpty, SweepStep, SweepTimeout, SweepCallbackReturns, SweepEnd,
              TimerExpires, Reconnected, network, vars
<1> QED
  BY <1>1, <1>2, <1>3 DEF Next, PublishStep, YieldStep

(* A sequence without its first element.                                   *)
LEMMA TailElements ==
  ASSUME NEW S, NEW s \in Seq(S), s # <<>>
  PROVE  /\ DOMAIN s = 1 .. Len(s) /\ Len(s) \in Nat \ {0}
         /\ Head(s) = s[1] /\ 1 \in DOMAIN s
         /\ DOMAIN Tail(s) = 1 .. Len(s) - 1
         /\ \A i \in DOMAIN Tail(s) : i + 1 \in DOMAIN s /\ Tail(s)[i] = s[i + 1]
<1>1. Len(s) \in Nat \ {0} /\ DOMAIN s = 1 .. Len(s)
  BY EmptySeq, LenProperties
<1>2. Tail(s) \in Seq(S) /\ Len(Tail(s)) = Len(s) - 1
      /\ \A i \in 1 .. Len(Tail(s)) : Tail(s)[i] = s[i + 1]
  BY HeadTailProperties
<1>3. DOMAIN Tail(s) = 1 .. Len(Tail(s))
  BY <1>2, LenProperties
<1> QED
  BY <1>1, <1>2, <1>3

(* A sequence with one more element.                                       *)
LEMMA AppendElements ==
  ASSUME NEW S, NEW s \in Seq(S), NEW e \in S
  PROVE  /\ DOMAIN s = 1 .. Len(s) /\ Len(s) \in Nat
         /\ DOMAIN Append(s, e) = 1 .. Len(s) + 1
         /\ \A i \in 1 .. Len(s) : Append(s, e)[i] = s[i]
         /\ Append(s, e)[Len(s) + 1] = e
  BY AppendProperties, LenProperties

LEMMA InitWireInv == Init => SeqInv /\ WireInv
<1> SUFFICES ASSUME Init PROVE SeqInv /\ WireInv
  OBVIOUS
<1>1. DOMAIN uplink = {} /\ DOMAIN downlink = {}
  BY DEF Init
<1> QED
  BY <1>1 DEF Init, SeqInv, WireInv

LEMMA NextWireInv == TypeInv /\ IdInv /\ SeqInv /\ WireInv /\ [Next]_vars => WireInv'
<1> SUFFICES ASSUME TypeInv, IdInv, SeqInv, WireInv, [Next]_vars PROVE WireInv'
  OBVIOUS
<1>0. /\ StableCarried /\ Carried \subseteq Request
      /\ uplink \in Seq(Request) /\ downlink \in Seq(0 .. MAX_PACKET_ID)
      /\ seqno \in [Request -> Nat] /\ issued \in Nat
  BY CarriedIsStable DEF TypeInv, TypeOK, Carried
<1>1. CASE UNCHANGED <<uplink, downlink>>
  <2>1. \A i \in DOMAIN uplink : \E q \in Carried' : Sent(q)' /\ q = uplink[i]
    BY <1>0 DEF WireInv, StableCarried
  <2>2. \A i \in DOMAIN uplink : seqno'[uplink[i]] = seqno[uplink[i]]
    BY <1>0 DEF WireInv, StableCarried
  <2>3. \A i \in DOMAIN downlink : \E q \in Carried' : Sent(q)' /\ msg_id'[q] = downlink[i]
    BY <1>0 DEF WireInv, StableCarried
  <2> QED
    BY <1>1, <2>1, <2>2, <2>3 DEF WireInv
<1>2. ASSUME NEW t \in Thread, Send(t) PROVE WireInv'
  <2>1. UNCHANGED downlink /\ UNCHANGED seqno
    BY <1>2 DEF Send, history
  <2>2. CASE UNCHANGED uplink
    BY <1>0, <2>1, <2>2 DEF WireInv, StableCarried
  <2>3. CASE uplink' = Append(uplink, write_buf) /\ pc' = [pc EXCEPT ![t] = "done"]
    <3>1. /\ pc[t] = "send" /\ write_buf = req[t] /\ req[t] \in Request
          /\ ret[req[t]] = "none" /\ seqno[req[t]] = issued /\ issued > 0
      BY <1>2, NullIsNoRequest DEF Send, TypeInv, TypeOK, CallInv, IdInv, LatestInv, Holding
    <3>2. req[t] \in Carried'
      BY <1>0, <1>2, <3>1 DEF Send, TypeInv, TypeOK, CallInv, IdInv, ListedInv, Carried, Pushed
    <3>3. \E q \in Carried' : Sent(q)' /\ q = req[t]
      BY <1>2, <2>3, <3>2 DEF Send, Sent, TypeInv, TypeOK
    <3>4. ASSUME NEW i \in DOMAIN uplink PROVE seqno[uplink[i]] < issued
      <4>1. uplink[i] \in Request /\ Sent(uplink[i])
        BY <1>0 DEF WireInv
      <4>2. uplink[i] # req[t]
        BY <3>1, <4>1 DEF Sent, TypeInv, CallInv
      <4> QED
        BY <1>0, <3>1, <4>1, <4>2 DEF SeqInv
    <3>5. /\ DOMAIN uplink = 1 .. Len(uplink) /\ Len(uplink) \in Nat
          /\ DOMAIN uplink' = 1 .. Len(uplink) + 1
          /\ \A i \in 1 .. Len(uplink) : uplink'[i] = uplink[i]
          /\ uplink'[Len(uplink) + 1] = req[t]
      BY <1>0, <2>3, <3>1, AppendElements
    <3>6. \A i \in DOMAIN uplink' : \E q \in Carried' : Sent(q)' /\ q = uplink'[i]
      BY <1>0, <3>3, <3>5 DEF WireInv, StableCarried
    <3>7. \A i, j \in DOMAIN uplink' : i < j => seqno[uplink'[i]] < seqno[uplink'[j]]
      BY <3>1, <3>4, <3>5 DEF WireInv
    <3> QED
      BY <1>0, <2>1, <3>6, <3>7 DEF WireInv, StableCarried
  <2> QED
    BY <1>2, <2>2, <2>3 DEF Send
<1>3. CASE HandlePuback
  <2>1. downlink # <<>> /\ downlink' = Tail(downlink) /\ UNCHANGED uplink
    BY <1>3 DEF HandlePuback, PubackMasks
  <2>2. \A i \in DOMAIN downlink' : i + 1 \in DOMAIN downlink /\ downlink'[i] = downlink[i + 1]
    BY <1>0, <2>1, TailElements
  <2> QED
    BY <1>0, <2>1, <2>2 DEF WireInv, StableCarried
<1>4. CASE ConnectionLost
  <2>1. DOMAIN uplink' = {} /\ DOMAIN downlink' = {}
    BY <1>4 DEF ConnectionLost
  <2> QED
    BY <2>1 DEF WireInv
<1>5. CASE BrokerAck \/ BrokerIgnores
  <2>1. uplink # <<>> /\ uplink' = Tail(uplink)
    BY <1>5 DEF BrokerAck, BrokerIgnores
  <2>2. /\ DOMAIN uplink = 1 .. Len(uplink) /\ Len(uplink) \in Nat \ {0}
        /\ Head(uplink) = uplink[1] /\ 1 \in DOMAIN uplink
        /\ DOMAIN uplink' = 1 .. Len(uplink) - 1
        /\ \A i \in DOMAIN uplink' : i + 1 \in DOMAIN uplink /\ uplink'[i] = uplink[i + 1]
    BY <1>0, <2>1, TailElements
  <2>3. \A i \in DOMAIN uplink' : \E q \in Carried' : Sent(q)' /\ q = uplink'[i]
    BY <1>0, <2>2 DEF WireInv, StableCarried
  <2>4. UNCHANGED seqno
    BY <1>5 DEF BrokerAck, BrokerIgnores, history
  <2>5. \A i, j \in DOMAIN uplink' : i < j => seqno[uplink'[i]] < seqno[uplink'[j]]
    BY <2>2 DEF WireInv
  <2>6. \A i \in DOMAIN downlink' : \/ i \in DOMAIN downlink /\ downlink'[i] = downlink[i]
                                    \/ downlink'[i] = msg_id[Head(uplink)]
    <3>1. CASE UNCHANGED downlink
      BY <3>1
    <3>2. CASE downlink' = Append(downlink, msg_id[Head(uplink)])
      <4>1. msg_id[Head(uplink)] \in 0 .. MAX_PACKET_ID
        BY <1>0, <2>2 DEF TypeInv, TypeOK, WireInv
      <4> QED
        BY <1>0, <3>2, <4>1, AppendElements
    <3> QED
      BY <1>5, <3>1, <3>2 DEF BrokerAck, BrokerIgnores
  <2>7. \A i \in DOMAIN downlink' : \E q \in Carried : Sent(q) /\ msg_id[q] = downlink'[i]
    BY <2>2, <2>6 DEF WireInv
  <2> QED
    BY <1>0, <2>3, <2>4, <2>5, <2>7 DEF WireInv, StableCarried
<1> QED
  BY <1>1, <1>2, <1>3, <1>4, <1>5, NetworkSteps

(* Packets leave in the order of their identifiers, and what a call sends  *)
(* is its own packet, although all calls share one write buffer: for any   *)
(* number of threads, and however often the identifiers wrap.              *)
THEOREM WireOrdered == Spec => []WireMatchesCaller
<1>1. Init => TypeInv /\ IdInv /\ SeqInv /\ WireInv
  BY InitTypeInv, InitIdInv, InitWireInv
<1>2. TypeInv /\ IdInv /\ SeqInv /\ WireInv /\ [Next]_vars
         => (TypeInv /\ IdInv /\ SeqInv /\ WireInv)'
  BY NextTypeInv, NextIdInv, NextSeqInv, NextWireInv
<1>3. TypeInv /\ WireInv => WireMatchesCaller
  BY DEF TypeInv, CallInv, WireInv, WireMatchesCaller
<1> QED
  BY <1>1, <1>2, <1>3, PTL DEF Spec

-----------------------------------------------------------------------------
(***************************************************************************)
(* The error path of a publish call.                                       *)
(***************************************************************************)
(* In the first turn of the counter an identifier belongs to one request.  *)
LEMMA IdentifierOfOne ==
  ASSUME TypeInv, IdInv, SeqInv, FirstTurn, NEW r \in Carried, NEW q \in Carried,
         msg_id[r] = msg_id[q]
  PROVE  r = q
<1>1. /\ MAX_PACKET_ID \in Nat /\ issued \in Nat /\ issued <= MAX_PACKET_ID
      /\ r \in Request /\ q \in Request
  BY PublishConstants DEF FirstTurn, TypeInv, TypeOK, Carried
<1>2. ASSUME NEW a \in Carried, NEW b \in Carried, seqno[a] < seqno[b] PROVE msg_id[a] # msg_id[b]
  <2>1. /\ seqno[a] \in 1 .. issued /\ seqno[b] \in 1 .. issued
        /\ msg_id[a] \in 1 .. MAX_PACKET_ID /\ msg_id[b] \in 1 .. MAX_PACKET_ID
        /\ Ahead(msg_id[a], seqno[b] - seqno[a], msg_id[b])
    BY <1>2 DEF IdInv, CounterInv
  <2> QED
    BY <1>1, <1>2, <2>1 DEF Ahead
<1>3. seqno[r] \in 1 .. issued /\ seqno[q] \in 1 .. issued
  BY DEF IdInv, CounterInv
<1>4. seqno[r] = seqno[q]
  BY <1>1, <1>2, <1>3
<1> QED
  BY <1>1, <1>3, <1>4 DEF SeqInv

LEMMA TurnsOn ==
  ASSUME TypeInv, [Next]_vars, FirstTurn'
  PROVE  FirstTurn
<1>0. issued \in Nat /\ MAX_PACKET_ID \in Nat
  BY PublishConstants DEF TypeInv, TypeOK
<1>1. ASSUME NEW t \in Thread, \/ (\E r \in Request : PublishCall(t, r)) \/ PublishStep(t)
      PROVE  issued' \in {issued, issued + 1}
  BY <1>1 DEF PublishStep, PublishCall, PublishCheck, PublishLock, GetNextPacketId, Serialize, Push,
              PushUnless, Send, Undo, UndoOnce, Done, history
<1>2. ASSUME NEW t \in AppThread, OtherRequest(t) PROVE issued' = issued + 1
  BY <1>2 DEF OtherRequest
<1>3. issued' \in {issued, issued + 1}
  BY <1>1, <1>2, QuietSteps DEF Next
<1> QED
  BY <1>0, <1>3 DEF FirstTurn

(* A call that has a node and has not sent its packet.                     *)
Unsent(t) == pc[t] \in {"send", "undo"}

LEMMA UnsentKept ==
  ASSUME UnsentInv, UNCHANGED <<list_pub_wait_ack, node_state, temp_node>>,
         ypc' \in InSweep => ypc \in InSweep,
         \A u \in Thread : Unsent(u)' => Unsent(u) /\ req'[u] = req[u]
  PROVE  UnsentInv'
  BY DEF UnsentInv, InSweep, Unsent

LEMMA NextUnsentInv ==
  ASSUME TimelySender, TypeInv, IdInv, SweepInv, SeqInv, WireInv, FirstTurn, UnsentInv,
         [Next]_vars
  PROVE  UnsentInv'
<1>0. /\ CallTypes /\ CallInv /\ list_pub_wait_ack \subseteq Request
      /\ node_state \in [Request -> {"none", "NORMAL", "INVALID", "freed"}]
      /\ ypc \in InSweep => {iter, temp_node} \subseteq list_pub_wait_ack \cup {Null}
  BY DEF TypeInv, TypeOK, CallTypes, Outcomes, SweepInv, SweepHoldsLiveNodes, InSweep
<1>u. ASSUME NEW u \in Thread, Unsent(u)
      PROVE  /\ req[u] \in Request /\ ret[req[u]] = "none" /\ lock_write_buf = u
             /\ req[u] \in Carried /\ ~Sent(req[u])
             /\ req[u] \in list_pub_wait_ack /\ node_state[req[u]] # "INVALID"
             /\ ypc \in InSweep => temp_node # req[u]
  <2>1. req[u] \in Request /\ ret[req[u]] = "none" /\ lock_write_buf = u
    BY <1>0, <1>u, NullIsNoRequest DEF Unsent, CallTypes, CallInv, Holding
  <2>2. req[u] \in Carried
    BY <1>u DEF Unsent, IdInv, ListedInv, Pushed
  <2>3. ~Sent(req[u])
    BY <1>0, <1>u, <2>1, NullIsNoRequest DEF Unsent, CallInv, Sent
  <2> QED
    BY <1>u, <2>1, <2>2, <2>3 DEF Unsent, UnsentInv, InSweep
<1>1. ASSUME NEW t \in Thread, NEW r \in Request, PublishCall(t, r) PROVE UnsentInv'
  BY <1>0, <1>1, UnsentKept DEF PublishCall, CallTypes, Unsent, list, sweep
<1>c. ASSUME NEW t \in Thread, PublishCheck(t) PROVE UnsentInv'
  BY <1>0, <1>c, UnsentKept DEF PublishCheck, Return, CallTypes, Unsent, list, sweep
<1>2. ASSUME NEW t \in Thread, PublishLock(t) PROVE UnsentInv'
  BY <1>0, <1>2, UnsentKept DEF PublishLock, CallTypes, Unsent, list, sweep
<1>3. ASSUME NEW t \in Thread, GetNextPacketId(t) PROVE UnsentInv'
  BY <1>0, <1>3, UnsentKept DEF GetNextPacketId, CallTypes, Unsent, list, sweep
<1>4. ASSUME NEW t \in Thread, Serialize(t) PROVE UnsentInv'
  BY <1>0, <1>4, UnsentKept DEF Serialize, Return, CallTypes, Unsent, list, sweep
<1>5. ASSUME NEW t \in Thread, Push(t) PROVE UnsentInv'
  <2>1. pc[t] = "push" /\ UNCHANGED <<ypc, temp_node>>
    BY <1>5 DEF Push, PushUnless, sweep
  <2>2. CASE Return(t, "PUSH_FAIL") /\ UNCHANGED <<list_pub_wait_ack, node_state>>
    BY <1>0, <2>1, <2>2, UnsentKept DEF Return, CallTypes, Unsent
  <2>3. CASE /\ list_pub_wait_ack' = list_pub_wait_ack \cup {req[t]}
             /\ node_state' = [node_state EXCEPT ![req[t]] = "NORMAL"]
             /\ pc' = [pc EXCEPT ![t] = "send"] /\ UNCHANGED req
    <3>1. req[t] \in Request \ list_pub_wait_ack
      BY <2>1, NotListedYet DEF IdInv, Pushed
    <3>2. \A u \in Thread : u # t => ~Unsent(u)
      BY <1>0, <2>1, <1>u DEF CallInv, Holding
    <3>3. node_state'[req[t]] = "NORMAL"
      BY <1>0, <2>3, <3>1
    <3>4. \A u \in Thread : Unsent(u)' => u = t
      BY <1>0, <2>3, <3>2 DEF CallTypes, Unsent
    <3> QED
      BY <1>0, <2>1, <2>3, <3>1, <3>3, <3>4, NullIsNoRequest DEF UnsentInv, Unsent, InSweep
  <2> QED
    BY <1>5, <2>2, <2>3 DEF Push, PushUnless
<1>6. ASSUME NEW t \in Thread, Send(t) PROVE UnsentInv'
  BY <1>0, <1>6, UnsentKept DEF Send, CallTypes, Unsent, list, sweep
<1>7. ASSUME NEW t \in Thread, Undo(t) PROVE UnsentInv'
  <2>1. \A u \in Thread : u # t => ~Unsent(u)
    BY <1>u, <1>7 DEF Undo, UndoOnce, Unsent
  <2>2. \A u \in Thread : ~Unsent(u)'
    BY <1>0, <1>7, <2>1 DEF Undo, UndoOnce, Return, CallTypes, Unsent
  <2> QED
    BY <2>2 DEF UnsentInv, Unsent
<1>8. ASSUME NEW t \in Thread, Done(t) PROVE UnsentInv'
  BY <1>0, <1>8, UnsentKept DEF Done, Return, CallTypes, Unsent, list, sweep
<1>9. ASSUME NEW t \in AppThread, OtherRequest(t) PROVE UnsentInv'
  BY <1>9, UnsentKept DEF OtherRequest, Unsent, list, sweep, threads
<1>10. CASE HandlePuback
  <2>1. /\ UNCHANGED <<pc, req, list_pub_wait_ack>> /\ ypc' = "success_cb" /\ downlink # <<>>
        /\ node_state' = [r \in Request |-> IF r \in WithId(Head(downlink)) THEN "INVALID"
                                            ELSE node_state[r]]
    BY <1>10 DEF HandlePuback, PubackMasks, threads
  <2>2. PICK q \in Carried : Sent(q) /\ msg_id[q] = Head(downlink)
    <3>1. 1 \in DOMAIN downlink /\ Head(downlink) = downlink[1]
      BY <2>1, TailElements DEF TypeInv, TypeOK
    <3> QED
      BY <3>1 DEF WireInv
  <2>3. ASSUME NEW u \in Thread, Unsent(u) PROVE node_state'[req[u]] # "INVALID"
    <3>1. req[u] # q
      BY <1>u, <2>2, <2>3
    <3>2. req[u] \notin WithId(Head(downlink))
      BY <1>u, <2>2, <2>3, <3>1, IdentifierOfOne DEF WithId
    <3> QED
      BY <1>u, <2>1, <2>3, <3>2
  <2> QED
    BY <1>u, <2>1, <2>3 DEF UnsentInv, Unsent
<1>11. CASE SweepStart
  <2>1. UNCHANGED <<pc, req, list_pub_wait_ack, node_state>> /\ temp_node' = Null
    BY <1>11 DEF SweepStart, threads
  <2> QED
    BY <1>u, <2>1, NullIsNoRequest DEF UnsentInv, Unsent
<1>12. CASE SweepEmpty
  BY <1>12, UnsentKept DEF SweepEmpty, Unsent, list, threads, InSweep
<1>13. CASE SweepStep
  <2>1. /\ UNCHANGED <<pc, req>> /\ ypc = "sweep" /\ RemoveTemp
        /\ temp_node' = iter => node_state[iter] = "INVALID" \/ iter \in timedout
        /\ temp_node' \in {iter, Null}
    BY <1>13 DEF SweepStep, threads
  <2>2. ASSUME NEW u \in Thread, Unsent(u)
        PROVE  /\ req[u] \in list_pub_wait_ack' /\ node_state'[req[u]] # "INVALID"
               /\ temp_node' # req[u]
    <3>1. req[u] # temp_node
      BY <1>u, <2>1, <2>2 DEF InSweep
    <3>2. req[u] \notin timedout
      BY <1>u, <2>2 DEF SweepInv
    <3> QED
      BY <1>u, <2>1, <2>2, <3>1, <3>2, NullIsNoRequest DEF RemoveTemp
  <2> QED
    BY <2>1, <2>2 DEF UnsentInv, Unsent
<1>14. CASE SweepTimeout
  BY <1>14, UnsentKept DEF SweepTimeout, Unsent, threads, InSweep
<1>15. CASE SweepCallbackReturns
  BY <1>15, UnsentKept DEF SweepCallbackReturns, Unsent, list, threads, InSweep
<1>16. CASE SweepEnd
  <2>1. UNCHANGED <<pc, req>> /\ ypc = "sweep" /\ RemoveTemp /\ ypc' = "loop"
    BY <1>16 DEF SweepEnd, threads
  <2>2. ASSUME NEW u \in Thread, Unsent(u)
        PROVE  req[u] \in list_pub_wait_ack' /\ node_state'[req[u]] # "INVALID"
    BY <1>u, <2>1, <2>2 DEF RemoveTemp, InSweep
  <2> QED
    BY <2>1, <2>2 DEF UnsentInv, Unsent
<1>17. CASE \/ (\E r \in Request : TimerExpires(r)) \/ ConnectionLost \/ Reconnected
            \/ BrokerAck \/ BrokerIgnores \/ UNCHANGED vars
            \/ \E t \in AppThread : UnsubscribeBegin(t) \/ UnsubscribeEnd(t)
  BY <1>17, UnsentKept DEF TimerExpires, ConnectionLost, Reconnected, BrokerAck, BrokerIgnores,
                           UnsubscribeBegin, UnsubscribeEnd,
                           vars, Unsent, list, threads, sweep
<1>18. CASE HandleUnsuback \/ UnsubackReturns
  BY <1>18, UnsentKept DEF HandleUnsuback, UnsubackReturns, Unsent, list, threads, InSweep
<1> QED
  BY <1>1, <1>c, <1>18, <1>2, <1>3, <1>4, <1>5, <1>6, <1>7, <1>8, <1>9, <1>10, <1>11, <1>12, <1>13,
     <1>14, <1>15, <1>16, <1>17 DEF Next, PublishStep, YieldStep

WholeInv == TypeInv /\ IdInv /\ SweepInv /\ SeqInv /\ WireInv /\ (FirstTurn => UnsentInv)

LEMMA WholeInvariant ==
  ASSUME TimelySender
  PROVE  (Init => WholeInv) /\ (WholeInv /\ [Next]_vars => WholeInv')
<1>1. Init => UnsentInv
  BY DEF Init, UnsentInv
<1>2. Init => WholeInv
  BY <1>1, InitTypeInv, InitIdInv, InitSweepInv, InitWireInv DEF WholeInv
<1>3. WholeInv /\ [Next]_vars => WholeInv'
  BY NextTypeInv, NextIdInv, NextSweepInv, NextSeqInv, NextWireInv, NextUnsentInv, TurnsOn
     DEF WholeInv
<1> QED
  BY <1>2, <1>3

(* The error path of a publish call unlinks a node that is still on the    *)
(* list: no PUBACK and no time-out made the sweep free it first.  As long  *)
(* as the identifiers have not gone round: afterwards a PUBACK that is     *)
(* that late may mask the node of a call that is still sending.            *)
THEOREM ErrorPathSafe ==
  ASSUME TimelySender
  PROVE  Spec => [](FirstTurn => ErrorPathHoldsLiveNode)
<1>1. WholeInv => (FirstTurn => ErrorPathHoldsLiveNode)
  BY DEF WholeInv, UnsentInv, ErrorPathHoldsLiveNode
<1>2. Init => WholeInv
  BY WholeInvariant
<1>3. WholeInv /\ [Next]_vars => WholeInv'
  BY WholeInvariant
<1> QED
  BY <1>1, <1>2, <1>3, PTL DEF Spec

-----------------------------------------------------------------------------
(***************************************************************************)
(* The three mutexes.                                                      *)
(***************************************************************************)
(* lock_list_pub is held by the sweep only, lock_write_buf by a call that  *)
(* is past its lock, lock_generic by the two unsubscribe handlers; the     *)
(* yield thread publishes only from the callback of a PUBACK, which runs   *)
(* without a mutex, an application thread only outside its handler.        *)
MutexInv ==
    /\ lock_list_pub = YieldThread => ypc \in {"sweep", "timeout_cb"}
    /\ lock_generic = YieldThread => ypc = "unsuback_cb"
    /\ pc[YieldThread] # "idle" => ypc = "success_cb"
    /\ \A t \in Thread : lock_write_buf = t => pc[t] \in Holding
    /\ \A t \in AppThread : lock_generic = t => pc[t] = "idle"

LEMMA NextMutexInv ==
  ASSUME CallbackPublishes \subseteq {"PUBLISH_SUCCESS"}
  PROVE  TypeInv /\ MutexInv /\ [Next]_vars => MutexInv'
<1> SUFFICES ASSUME TypeInv, MutexInv, [Next]_vars PROVE MutexInv'
  OBVIOUS
<1>0. /\ CallTypes /\ CallInv /\ YieldThread \in Thread /\ Null \notin Thread
      /\ AppThread \subseteq Thread /\ YieldThread \notin AppThread
      /\ lock_list_pub \in {YieldThread, Null}
  BY PublishConstants, NullIsNoRequest DEF TypeInv, TypeOK, CallTypes, Outcomes
<1> USE <1>0 DEF MutexInv, CallTypes, Holding, generic
<1>1. ASSUME NEW t \in Thread, NEW r \in Request, PublishCall(t, r) PROVE MutexInv'
  <2>1. t = YieldThread => ypc = "success_cb"
    BY <1>1 DEF PublishCall, MayCall
  <2>2. t \in AppThread => lock_generic # t
    BY <1>1 DEF PublishCall, MayCall, Unsubscribing
  <2> QED
    BY <1>1, <2>1, <2>2 DEF PublishCall, client, list, sweep
<1>c. ASSUME NEW t \in Thread, PublishCheck(t) PROVE MutexInv'
  BY <1>c DEF PublishCheck, Return, client, list, sweep
<1>u. ASSUME NEW t \in AppThread, UnsubscribeBegin(t) \/ UnsubscribeEnd(t) PROVE MutexInv'
  BY <1>u DEF UnsubscribeBegin, UnsubscribeEnd, client, list, sweep, threads
<1>h. CASE HandleUnsuback \/ UnsubackReturns
  BY <1>h DEF HandleUnsuback, UnsubackReturns, YieldFree, client, list, threads
<1>2. ASSUME NEW t \in Thread, PublishLock(t) PROVE MutexInv'
  BY <1>2 DEF PublishLock, list, sweep
<1>3. ASSUME NEW t \in Thread, GetNextPacketId(t) PROVE MutexInv'
  BY <1>3 DEF GetNextPacketId, list, sweep
<1>4. ASSUME NEW t \in Thread, Serialize(t) PROVE MutexInv'
  BY <1>4 DEF Serialize, Return, list, sweep
<1>5. ASSUME NEW t \in Thread, Push(t) PROVE MutexInv'
  BY <1>5 DEF Push, PushUnless, Return, sweep
<1>6. ASSUME NEW t \in Thread, Send(t) PROVE MutexInv'
  BY <1>6 DEF Send, client, list, sweep
<1>7. ASSUME NEW t \in Thread, Undo(t) PROVE MutexInv'
  BY <1>7 DEF Undo, UndoOnce, Return, sweep
<1>8. ASSUME NEW t \in Thread, Done(t) PROVE MutexInv'
  BY <1>8 DEF Done, Return, list, sweep
<1>9. ASSUME NEW t \in AppThread, OtherRequest(t) PROVE MutexInv'
  BY <1>9 DEF OtherRequest, list, sweep, threads
<1>10. CASE HandlePuback
  BY <1>10 DEF HandlePuback, PubackMasks, YieldFree, client, threads
<1>11. CASE SweepStart \/ SweepEmpty
  BY <1>11 DEF SweepStart, SweepEmpty, Handled, YieldFree, client, list, threads
<1>12. CASE SweepStep
  BY <1>12 DEF SweepStep, client, threads
<1>13. CASE SweepTimeout \/ SweepCallbackReturns
  BY <1>13 DEF SweepTimeout, SweepCallbackReturns, YieldFree, client, list, threads
<1>14. CASE SweepEnd
  BY <1>14 DEF SweepEnd, client, threads
<1>15. CASE \/ (\E r \in Request : TimerExpires(r)) \/ ConnectionLost \/ Reconnected
            \/ BrokerAck \/ BrokerIgnores \/ UNCHANGED vars
  BY <1>15 DEF TimerExpires, ConnectionLost, Reconnected, BrokerAck, BrokerIgnores,
               vars, client, list, threads, sweep
<1> QED
  BY <1>1, <1>2, <1>3, <1>4, <1>5, <1>6, <1>7, <1>8, <1>9, <1>10, <1>11, <1>12, <1>13,
     <1>14, <1>15, <1>c, <1>u, <1>h DEF Next, PublishStep, YieldStep

(* No thread waits for a mutex it holds itself, if the user's callbacks    *)
(* publish on PUBACKs only.  The callback of a time-out runs with          *)
(* lock_list_pub held and those of an UNSUBACK and of an unsubscribe call  *)
(* with lock_generic: MqttPublish_callback.cfg shows these deadlocks.      *)
THEOREM MutexesSafe ==
  ASSUME CallbackPublishes \subseteq {"PUBLISH_SUCCESS"}
  PROVE  Spec => []NoSelfDeadlock
<1>1. Init => TypeInv /\ MutexInv
  BY InitTypeInv, NullIsNoRequest DEF Init, MutexInv
<1>2. TypeInv /\ MutexInv /\ [Next]_vars => (TypeInv /\ MutexInv)'
  BY NextTypeInv, NextMutexInv
<1>3. TypeInv /\ MutexInv => NoSelfDeadlock
  <2> SUFFICES ASSUME TypeInv, MutexInv, NEW t \in Thread
               PROVE  /\ pc[t] \in {"push", "undo"} => lock_list_pub # t
                      /\ pc[t] = "lock" => lock_write_buf # t
                      /\ pc[t] \in {"check", "inc"} => lock_generic # t
    BY DEF NoSelfDeadlock
  <2>1. lock_list_pub \in {YieldThread, Null} /\ Null \notin Thread
    BY NullIsNoRequest DEF TypeInv, TypeOK
  <2>2. CASE t = YieldThread
    BY <2>1, <2>2 DEF MutexInv, Holding
  <2>3. CASE t \in AppThread
    BY <2>1, <2>3, PublishConstants DEF MutexInv, Holding
  <2> QED
    BY <2>2, <2>3 DEF Thread
<1> QED
  BY <1>1, <1>2, <1>3, PTL DEF Spec

-----------------------------------------------------------------------------
(***************************************************************************)
(* The limit of the wait list.                                             *)
(***************************************************************************)
(* Only the push of a publish call makes the list longer, by one node.     *)
LEMMA ListGrowth ==
  ASSUME TypeInv, [Next]_vars
  PROVE  \/ list_pub_wait_ack' \subseteq list_pub_wait_ack
         \/ \E t \in Thread : /\ Cardinality(list_pub_wait_ack) < MAX_REPUB_NUM
                               /\ list_pub_wait_ack' = list_pub_wait_ack \cup {req[t]}
<1>1. ASSUME NEW t \in Thread, Push(t)
      PROVE  \/ list_pub_wait_ack' \subseteq list_pub_wait_ack
             \/ /\ Cardinality(list_pub_wait_ack) < MAX_REPUB_NUM
                /\ list_pub_wait_ack' = list_pub_wait_ack \cup {req[t]}
  <2>1. Cardinality(list_pub_wait_ack) \in Nat /\ MAX_REPUB_NUM \in Nat
    BY PublishConstants, FS_Subset, FS_CardinalityType DEF TypeInv, TypeOK
  <2> QED
    BY <1>1, <2>1 DEF Push, PushUnless
<1>2. ASSUME NEW t \in Thread, \/ (\E r \in Request : PublishCall(t, r)) \/ PublishCheck(t)
                               \/ PublishLock(t) \/ GetNextPacketId(t) \/ Serialize(t)
                               \/ Send(t) \/ Undo(t) \/ Done(t) \/ OtherRequest(t)
      PROVE  list_pub_wait_ack' \subseteq list_pub_wait_ack
  BY <1>2 DEF PublishCall, PublishCheck, PublishLock, GetNextPacketId, Serialize, Send, Undo, UndoOnce,
              Done, OtherRequest, list
<1> QED
  BY <1>1, <1>2, QuietList, NullIsNoRequest DEF Next, PublishStep

(* The list of packets that wait for a PUBACK never holds more than        *)
(* MAX_REPUB_NUM nodes, however many threads publish.                      *)
THEOREM ListBounded == Spec => []WaitListBounded
<1>1. Init => TypeInv /\ WaitListBounded
  BY InitTypeInv, FS_EmptySet, PublishConstants DEF Init, WaitListBounded
<1>2. TypeInv /\ WaitListBounded /\ [Next]_vars => (TypeInv /\ WaitListBounded)'
  <2> SUFFICES ASSUME TypeInv, WaitListBounded, [Next]_vars PROVE WaitListBounded'
    BY NextTypeInv
  <2>1. IsFiniteSet(list_pub_wait_ack) /\ Cardinality(list_pub_wait_ack) \in Nat
    BY PublishConstants, FS_Subset, FS_CardinalityType DEF TypeInv, TypeOK
  <2>2. CASE list_pub_wait_ack' \subseteq list_pub_wait_ack
    <3>1. Cardinality(list_pub_wait_ack') \in Nat
          /\ Cardinality(list_pub_wait_ack') <= Cardinality(list_pub_wait_ack)
      BY <2>1, <2>2, FS_Subset, FS_CardinalityType
    <3> QED
      BY <2>1, <3>1, PublishConstants DEF WaitListBounded
  <2>3. ASSUME NEW t \in Thread, Cardinality(list_pub_wait_ack) < MAX_REPUB_NUM,
               list_pub_wait_ack' = list_pub_wait_ack \cup {req[t]}
        PROVE  WaitListBounded'
    <3>1. Cardinality(list_pub_wait_ack') \in
              {Cardinality(list_pub_wait_ack), Cardinality(list_pub_wait_ack) + 1}
      BY <2>1, <2>3, FS_AddElement
    <3> QED
      BY <2>1, <2>3, <3>1, PublishConstants DEF WaitListBounded
  <2> QED
    BY <2>2, <2>3, ListGrowth
<1>3. QED
  BY <1>1, <1>2, PTL DEF Spec

-----------------------------------------------------------------------------
(***************************************************************************)
(* What the user is told: the contract of PublishContract.                 *)
(***************************************************************************)
(* The PUBACK of r was not reported yet; the time-out of r was.            *)
Unacked(r) == Outcome(r) \in {"open", "expired"}
Overdue(r) == Outcome(r) \in {"expired", "acked_late"}

(* Nothing contradictory was reported, and nothing about an unsent packet. *)
ToldInv ==
    \A r \in Request : /\ Outcome(r) # "contradictory"
                       /\ Outcome(r) # "open" => r \in Carried /\ Sent(r)

(* A packet or a PUBACK on the wire was not reported as a success, and no  *)
(* second PUBACK of the same packet is or will be under way.               *)
AckInv ==
    /\ \A i \in DOMAIN uplink : \A q \in Carried : q = uplink[i] =>
          Unacked(q) /\ \A j \in DOMAIN downlink : downlink[j] # msg_id[q]
    /\ \A i \in DOMAIN downlink : \A q \in Carried : msg_id[q] = downlink[i] => Unacked(q)
    /\ \A i, j \in DOMAIN downlink : downlink[i] = downlink[j] => i = j

(* A node on the list whose success was reported is INVALID; one whose     *)
(* time-out was reported is about to be removed; one whose time-out is     *)
(* about to be reported has not been reported before.                      *)
NodeInv ==
    /\ \A r \in list_pub_wait_ack : ~Unacked(r) => node_state[r] = "INVALID"
    /\ \A r \in list_pub_wait_ack : Overdue(r) => ypc \in {"sweep", "timeout_cb"} /\ temp_node = r
    /\ ypc = "relock" => Outcome(temp_node) = "open"

(* The nodes that a returned call leaves on the list are accepted ones.    *)
AcceptedInv == \A r \in list_pub_wait_ack : ret[r] # "none" => ret[r] = "accepted"

(* How a report changes the outcome.                                       *)
LEMMA OutcomeMoves ==
  ASSUME NEW r \in Request
  PROVE  /\ Outcome(r) \in {"open", "acked", "expired", "acked_late", "contradictory"}
         /\ notified'[r] = notified[r] => Outcome(r)' = Outcome(r)
         /\ notified'[r] = Append(notified[r], "PUBLISH_SUCCESS") =>
               /\ Outcome(r) = "open" => Outcome(r)' = "acked"
               /\ Outcome(r) = "expired" => Outcome(r)' = "acked_late"
         /\ notified'[r] = Append(notified[r], "PUBLISH_TIMEOUT") =>
               (Outcome(r) = "open" => Outcome(r)' = "expired")
<1> DEFINE s == "PUBLISH_SUCCESS"
           t == "PUBLISH_TIMEOUT"
<1>1. Append(<<>>, s) = <<s>> /\ Append(<<>>, t) = <<t>> /\ Append(<<t>>, s) = <<t, s>>
  <2> HIDE DEF s, t
  <2>1. Append(<<>>, s) = <<s>>
    OBVIOUS
  <2>2. Append(<<>>, t) = <<t>>
    OBVIOUS
  <2>3. Append(<<t>>, s) = <<t, s>>
    <3>1. <<t>> \in Seq({s, t}) /\ Len(<<t>>) = 1 /\ <<t>>[1] = t
      OBVIOUS
    <3>2. /\ Append(<<t>>, s) \in Seq({s, t}) /\ Len(Append(<<t>>, s)) = 2
          /\ Append(<<t>>, s)[1] = t /\ Append(<<t>>, s)[2] = s
      BY <3>1, AppendProperties
    <3>3. <<t, s>> \in Seq({s, t}) /\ Len(<<t, s>>) = 2 /\ <<t, s>>[1] = t /\ <<t, s>>[2] = s
      OBVIOUS
    <3>4. \A i \in 1 .. Len(<<t, s>>) : Append(<<t>>, s)[i] = <<t, s>>[i]
      BY <3>2, <3>3
    <3> QED
      BY <3>2, <3>3, <3>4, SeqEqual
  <2> QED
    BY <2>1, <2>2, <2>3
<1>2. <<>> # <<s>> /\ <<>> # <<t>> /\ <<>> # <<t, s>>
  OBVIOUS
<1>3. <<s>> # <<t>> /\ <<s>> # <<t, s>> /\ <<t>> # <<t, s>>
  <2>1. s # t /\ <<s>>[1] = s /\ <<t>>[1] = t /\ <<t, s>>[1] = t
    OBVIOUS
  <2>2. Len(<<t>>) = 1 /\ Len(<<t, s>>) = 2
    OBVIOUS
  <2> HIDE DEF s, t
  <2>3. <<s>> # <<t>>
    BY <2>1
  <2>4. <<s>> # <<t, s>>
    BY <2>1
  <2>5. <<t>> # <<t, s>>
    BY <2>2
  <2> QED
    BY <2>3, <2>4, <2>5
<1>4. Outcome(r) = "open" <=> notified[r] = <<>>
  BY <1>2 DEF Outcome
<1>5. Outcome(r) = "expired" <=> notified[r] = <<t>>
  BY <1>2, <1>3 DEF Outcome
<1>6. Outcome(r) \in {"open", "acked", "expired", "acked_late", "contradictory"}
  BY <1>2, <1>3 DEF Outcome
<1>7. notified'[r] = notified[r] => Outcome(r)' = Outcome(r)
  BY DEF Outcome
<1>8. notified'[r] = <<s>> => Outcome(r)' = "acked"
  BY <1>2 DEF Outcome
<1>9. notified'[r] = <<t>> => Outcome(r)' = "expired"
  BY <1>2, <1>3 DEF Outcome
<1>10. notified'[r] = <<t, s>> => Outcome(r)' = "acked_late"
  BY <1>2, <1>3 DEF Outcome
<1> QED
  BY <1>1, <1>4, <1>5, <1>6, <1>7, <1>8, <1>9, <1>10

(* The steps that report something.                                        *)
LEMMA TellSteps ==
  ASSUME [Next]_vars
  PROVE  UNCHANGED notified \/ HandlePuback \/ SweepTimeout
<1>1. ASSUME NEW t \in Thread, (\E r \in Request : PublishCall(t, r)) \/ PublishStep(t)
      PROVE  UNCHANGED notified
  BY <1>1 DEF PublishStep, PublishCall, PublishCheck, PublishLock, GetNextPacketId, Serialize, Push,
              PushUnless, Send, Undo, UndoOnce, Done, history
<1>2. ASSUME NEW t \in AppThread, OtherRequest(t) \/ UnsubscribeBegin(t) \/ UnsubscribeEnd(t)
      PROVE  UNCHANGED notified
  BY <1>2 DEF OtherRequest, UnsubscribeBegin, UnsubscribeEnd, history
<1>3. CASE \/ SweepStart \/ SweepEmpty \/ SweepStep \/ SweepCallbackReturns \/ SweepEnd
           \/ (\E r \in Request : TimerExpires(r)) \/ ConnectionLost \/ Reconnected
           \/ BrokerAck \/ BrokerIgnores \/ HandleUnsuback \/ UnsubackReturns \/ UNCHANGED vars
  BY <1>3 DEF HandleUnsuback, UnsubackReturns,
              SweepStart, SweepEmpty, SweepStep, SweepCallbackReturns, SweepEnd, TimerExpires,
              ConnectionLost, Reconnected, BrokerAck, BrokerIgnores, history, vars
<1> QED
  BY <1>1, <1>2, <1>3 DEF Next, YieldStep

(* The request a PUBACK is for, in the first turn: it was sent, it was not *)
(* acknowledged, and it is the only one whose outcome changes.             *)
LEMMA PubackOfOne ==
  ASSUME WholeInv, FirstTurn, AckInv, HandlePuback
  PROVE  \E q \in Carried :
            /\ Sent(q) /\ Unacked(q) /\ ~Unacked(q)' /\ Outcome(q)' # "contradictory"
            /\ msg_id[q] = Head(downlink)
            /\ Outcome(q) = "open" => Outcome(q)' = "acked"
            /\ Outcome(q) = "expired" => Outcome(q)' = "acked_late"
            /\ \A r \in Request : r # q => Outcome(r)' = Outcome(r)
<1>1. /\ downlink # <<>> /\ UNCHANGED msg_id
      /\ Notify({r \in Request : msg_id[r] = Head(downlink)}, "PUBLISH_SUCCESS")
  BY DEF HandlePuback, PubackMasks
<1>2. 1 \in DOMAIN downlink /\ Head(downlink) = downlink[1]
  BY <1>1, TailElements DEF WholeInv, TypeInv, TypeOK
<1>3. PICK q \in Carried : Sent(q) /\ msg_id[q] = Head(downlink)
  BY <1>2 DEF WholeInv, WireInv
<1>4. q \in Request /\ msg_id[q] # 0 /\ Unacked(q)
  BY <1>2, <1>3 DEF AckInv, Carried
<1>5. ASSUME NEW r \in Request, r # q PROVE msg_id[r] # Head(downlink)
  BY <1>3, <1>4, <1>5, IdentifierOfOne DEF Carried, WholeInv
<1>6. /\ notified'[q] = Append(notified[q], "PUBLISH_SUCCESS")
      /\ \A r \in Request : r # q => notified'[r] = notified[r]
  BY <1>1, <1>3, <1>4, <1>5 DEF Notify
<1>7. /\ Outcome(q) = "open" => Outcome(q)' = "acked"
      /\ Outcome(q) = "expired" => Outcome(q)' = "acked_late"
  BY <1>4, <1>6, OutcomeMoves
<1>8. \A r \in Request : r # q => Outcome(r)' = Outcome(r)
  BY <1>6, OutcomeMoves
<1>9. ~Unacked(q)' /\ Outcome(q)' # "contradictory"
  BY <1>4, <1>7 DEF Unacked
<1> QED
  BY <1>3, <1>4, <1>7, <1>8, <1>9

(* The request whose time-out is reported.                                 *)
LEMMA TimeoutOfOne ==
  ASSUME WholeInv, NodeInv, AcceptedInv, SweepTimeout
  PROVE  /\ temp_node \in list_pub_wait_ack /\ temp_node \in Carried
         /\ ret[temp_node] = "accepted"
         /\ Outcome(temp_node) = "open"
         /\ \A r \in Request : r = temp_node => Outcome(r)' = "expired"
         /\ \A r \in Request : r # temp_node => Outcome(r)' = Outcome(r)
<1>1. ypc = "relock" /\ Notify({temp_node}, "PUBLISH_TIMEOUT")
  BY DEF SweepTimeout
<1>2. temp_node \in list_pub_wait_ack /\ ret[temp_node] # "none"
  BY <1>1 DEF WholeInv, SweepInv, SweepHoldsLiveNodes
<1>3. temp_node \in Request /\ temp_node \in Carried /\ ret[temp_node] = "accepted"
  BY <1>2 DEF WholeInv, TypeInv, TypeOK, AcceptedInv, IdInv, ListedInv
<1>4. /\ \A r \in Request : r = temp_node =>
             notified'[r] = Append(notified[r], "PUBLISH_TIMEOUT")
      /\ \A r \in Request : r # temp_node => notified'[r] = notified[r]
  BY <1>1 DEF Notify
<1>5. Outcome(temp_node) = "open"
  BY <1>1 DEF NodeInv
<1> QED
  BY <1>2, <1>3, <1>4, <1>5, OutcomeMoves

LEMMA NextToldInv ==
  ASSUME WholeInv, FirstTurn, AcceptedInv, ToldInv, AckInv, NodeInv, [Next]_vars
  PROVE  ToldInv'
<1>0. StableCarried /\ Carried \subseteq Request
  BY CarriedIsStable DEF WholeInv, Carried
<1>1. CASE UNCHANGED notified
  <2>1. \A r \in Request : Outcome(r)' = Outcome(r)
    BY <1>1, OutcomeMoves
  <2> QED
    BY <1>0, <2>1 DEF ToldInv, StableCarried
<1>2. CASE HandlePuback
  <2>1. PICK q \in Carried : /\ Sent(q) /\ Outcome(q)' # "contradictory"
                             /\ \A r \in Request : r # q => Outcome(r)' = Outcome(r)
    BY <1>2, PubackOfOne
  <2> QED
    BY <1>0, <2>1 DEF ToldInv, StableCarried
<1>3. CASE SweepTimeout
  <2>1. /\ temp_node \in Carried /\ ret[temp_node] = "accepted"
        /\ \A r \in Request : r = temp_node => Outcome(r)' = "expired"
        /\ \A r \in Request : r # temp_node => Outcome(r)' = Outcome(r)
    BY <1>3, TimeoutOfOne
  <2>2. Sent(temp_node)
    BY <2>1 DEF Sent
  <2> QED
    BY <1>0, <2>1, <2>2 DEF ToldInv, StableCarried
<1> QED
  BY <1>1, <1>2, <1>3, TellSteps

(* A step that sends nothing new, reads no PUBACK and reports no success.  *)
LEMMA AckKept ==
  ASSUME WireInv, StableCarried, ToldInv, AckInv, UNCHANGED downlink,
         \A i \in DOMAIN uplink' : \E j \in DOMAIN uplink : uplink'[i] = uplink[j],
         \A r \in Request : Unacked(r) => Unacked(r)'
  PROVE  AckInv'
<1>0. Carried \subseteq Request /\ Carried' \subseteq Request
  BY DEF Carried
<1>1. ASSUME NEW i \in DOMAIN uplink', NEW q \in Carried', q = uplink'[i]
      PROVE  Unacked(q)' /\ \A j \in DOMAIN downlink' : downlink'[j] # msg_id'[q]
  <2>1. PICK j \in DOMAIN uplink : q = uplink[j]
    BY <1>1
  <2>2. q \in Carried
    BY <2>1 DEF WireInv
  <2> QED
    BY <1>0, <2>1, <2>2 DEF AckInv, StableCarried
<1>2. ASSUME NEW i \in DOMAIN downlink', NEW q \in Carried', msg_id'[q] = downlink'[i]
      PROVE  Unacked(q)'
  <2>1. CASE q \in Carried
    BY <1>0, <1>2, <2>1 DEF AckInv, StableCarried
  <2>2. CASE q \notin Carried
    BY <1>0, <2>2 DEF ToldInv, Unacked
  <2> QED
    BY <2>1, <2>2
<1> QED
  BY <1>1, <1>2 DEF AckInv

LEMMA NextAckInv ==
  ASSUME WholeInv, FirstTurn, AcceptedInv, ToldInv, AckInv, NodeInv, [Next]_vars
  PROVE  AckInv'
<1>0. /\ StableCarried /\ WireInv /\ Carried \subseteq Request
      /\ uplink \in Seq(Request) /\ downlink \in Seq(0 .. MAX_PACKET_ID)
      /\ msg_id \in [Request -> 0 .. MAX_PACKET_ID] /\ seqno \in [Request -> Nat]
  BY CarriedIsStable DEF WholeInv, TypeInv, TypeOK, Carried
<1>t. ASSUME UNCHANGED notified PROVE \A r \in Request : Outcome(r)' = Outcome(r)
  BY <1>t, OutcomeMoves
<1>i. \A r, q \in Carried : msg_id[r] = msg_id[q] => r = q
  BY IdentifierOfOne DEF WholeInv
<1>1. CASE UNCHANGED <<uplink, downlink>> /\ UNCHANGED notified
  BY <1>0, <1>1, <1>t, AckKept DEF Unacked
<1>2. CASE SweepTimeout
  <2>1. \A r \in Request : Unacked(r) => Unacked(r)'
    BY <1>2, TimeoutOfOne DEF Unacked
  <2>2. UNCHANGED <<uplink, downlink>>
    BY <1>2 DEF SweepTimeout, network
  <2> QED
    BY <1>0, <2>1, <2>2, AckKept
<1>3. ASSUME NEW t \in Thread, Send(t) PROVE AckInv'
  <2>1. UNCHANGED <<downlink, notified, msg_id>>
    BY <1>3 DEF Send, history
  <2>2. CASE UNCHANGED uplink
    BY <1>1, <2>1, <2>2
  <2>3. CASE uplink' = Append(uplink, write_buf)
    <3>1. /\ pc[t] = "send" /\ write_buf = req[t] /\ req[t] \in Request
          /\ ret[req[t]] = "none" /\ req[t] \in Carried
      BY <1>3, NullIsNoRequest DEF Send, WholeInv, TypeInv, TypeOK, CallInv, IdInv, ListedInv, Pushed
    <3>2. ~Sent(req[t])
      BY <3>1, NullIsNoRequest DEF Sent, WholeInv, TypeInv, CallInv
    <3>3. \A j \in DOMAIN downlink : downlink[j] # msg_id[req[t]]
      BY <1>i, <3>1, <3>2 DEF WholeInv, WireInv
    <3>4. \A q \in Request : q = req[t] => Unacked(q)'
      BY <1>t, <2>1, <3>1, <3>2 DEF ToldInv, Unacked
    <3>5. /\ DOMAIN uplink = 1 .. Len(uplink) /\ Len(uplink) \in Nat
          /\ DOMAIN uplink' = 1 .. Len(uplink) + 1
          /\ \A i \in 1 .. Len(uplink) : uplink'[i] = uplink[i]
          /\ uplink'[Len(uplink) + 1] = req[t]
      BY <1>0, <2>3, <3>1, AppendElements
    <3>6. Carried' = Carried
      BY <2>1 DEF Carried
    <3>7. ASSUME NEW i \in DOMAIN uplink', NEW q \in Carried', q = uplink'[i]
          PROVE  Unacked(q)' /\ \A j \in DOMAIN downlink' : downlink'[j] # msg_id'[q]
      <4>1. CASE i \in DOMAIN uplink
        BY <1>0, <1>t, <2>1, <3>5, <3>6, <3>7, <4>1 DEF AckInv, Unacked
      <4>2. CASE q = req[t]
        BY <2>1, <3>1, <3>3, <3>4, <4>2
      <4> QED
        BY <3>5, <3>7, <4>1, <4>2
    <3>8. \A i \in DOMAIN downlink' : \A q \in Carried' : msg_id'[q] = downlink'[i] => Unacked(q)'
      BY <1>0, <1>t, <2>1, <3>6 DEF AckInv, Unacked
    <3> QED
      BY <2>1, <3>7, <3>8 DEF AckInv
  <2> QED
    BY <1>3, <2>2, <2>3 DEF Send
<1>4. CASE HandlePuback
  <2>1. downlink # <<>> /\ downlink' = Tail(downlink) /\ UNCHANGED <<uplink, msg_id>>
    BY <1>4 DEF HandlePuback, PubackMasks
  <2>2. PICK q \in Carried : /\ msg_id[q] = Head(downlink)
                             /\ \A r \in Request : r # q => Outcome(r)' = Outcome(r)
    BY <1>4, PubackOfOne
  <2>3. /\ DOMAIN downlink = 1 .. Len(downlink) /\ Len(downlink) \in Nat \ {0}
        /\ Head(downlink) = downlink[1] /\ 1 \in DOMAIN downlink
        /\ DOMAIN downlink' = 1 .. Len(downlink) - 1
        /\ \A i \in DOMAIN downlink' : /\ i + 1 \in DOMAIN downlink
                                       /\ downlink'[i] = downlink[i + 1]
    BY <1>0, <2>1, TailElements
  <2>4. Carried' = Carried
    BY <2>1 DEF Carried
  <2>5. ASSUME NEW i \in DOMAIN uplink', NEW p \in Carried', p = uplink'[i]
        PROVE  Unacked(p)' /\ \A j \in DOMAIN downlink' : downlink'[j] # msg_id'[p]
    <3>1. Unacked(p) /\ \A j \in DOMAIN downlink : downlink[j] # msg_id[p]
      BY <2>1, <2>4, <2>5 DEF AckInv
    <3>2. p # q
      BY <2>2, <2>3, <3>1
    <3> QED
      BY <1>0, <2>1, <2>2, <2>3, <2>4, <3>1, <3>2 DEF Unacked
  <2>6. ASSUME NEW i \in DOMAIN downlink', NEW p \in Carried', msg_id'[p] = downlink'[i]
        PROVE  Unacked(p)'
    <3>1. Unacked(p) /\ msg_id[p] = downlink[i + 1] /\ i + 1 \in DOMAIN downlink
      BY <2>1, <2>3, <2>4, <2>6 DEF AckInv
    <3>2. i + 1 # 1
      BY <2>3
    <3>3. p # q
      BY <2>2, <2>3, <3>1, <3>2 DEF AckInv
    <3> QED
      BY <1>0, <2>2, <2>4, <3>1, <3>3 DEF Unacked
  <2>7. \A i, j \in DOMAIN downlink' : downlink'[i] = downlink'[j] => i = j
    BY <2>3 DEF AckInv
  <2> QED
    BY <2>5, <2>6, <2>7 DEF AckInv
<1>5. CASE ConnectionLost
  <2>1. DOMAIN uplink' = {} /\ DOMAIN downlink' = {}
    BY <1>5 DEF ConnectionLost
  <2> QED
    BY <2>1 DEF AckInv
<1>6. CASE BrokerIgnores
  <2>1. uplink # <<>> /\ uplink' = Tail(uplink) /\ UNCHANGED <<downlink, notified>>
    BY <1>6 DEF BrokerIgnores, history
  <2>2. \A i \in DOMAIN uplink' : \E j \in DOMAIN uplink : uplink'[i] = uplink[j]
    BY <1>0, <2>1, TailElements
  <2> QED
    BY <1>0, <1>t, <2>1, <2>2, AckKept DEF Unacked
<1>7. CASE BrokerAck
  <2>1. /\ uplink # <<>> /\ uplink' = Tail(uplink) /\ UNCHANGED <<notified, msg_id>>
        /\ downlink' = Append(downlink, msg_id[Head(uplink)])
    BY <1>7 DEF BrokerAck, history
  <2>2. /\ DOMAIN uplink = 1 .. Len(uplink) /\ Len(uplink) \in Nat \ {0}
        /\ Head(uplink) = uplink[1] /\ 1 \in DOMAIN uplink
        /\ DOMAIN uplink' = 1 .. Len(uplink) - 1
        /\ \A i \in DOMAIN uplink' : i + 1 \in DOMAIN uplink /\ uplink'[i] = uplink[i + 1]
    BY <1>0, <2>1, TailElements
  <2>3. PICK h \in Carried : h = uplink[1]
    BY <2>2 DEF WholeInv, WireInv
  <2>4. /\ Unacked(h) /\ msg_id[h] \in 0 .. MAX_PACKET_ID
        /\ \A j \in DOMAIN downlink : downlink[j] # msg_id[h]
    BY <1>0, <2>2, <2>3 DEF AckInv
  <2>5. /\ DOMAIN downlink = 1 .. Len(downlink) /\ Len(downlink) \in Nat
        /\ DOMAIN downlink' = 1 .. Len(downlink) + 1
        /\ \A i \in 1 .. Len(downlink) : downlink'[i] = downlink[i]
        /\ downlink'[Len(downlink) + 1] = msg_id[h]
    BY <1>0, <2>1, <2>2, <2>3, <2>4, AppendElements
  <2>6. Carried' = Carried
    BY <2>1 DEF Carried
  <2>7. ASSUME NEW i \in DOMAIN uplink', NEW q \in Carried', q = uplink'[i]
        PROVE  Unacked(q)' /\ \A j \in DOMAIN downlink' : downlink'[j] # msg_id'[q]
    <3>1. q = uplink[i + 1] /\ i + 1 \in DOMAIN uplink /\ 1 < i + 1
      BY <2>2, <2>7
    <3>2. Unacked(q) /\ \A j \in DOMAIN downlink : downlink[j] # msg_id[q]
      BY <2>6, <3>1 DEF AckInv
    <3>3. seqno[h] < seqno[q]
      BY <2>2, <2>3, <3>1 DEF WholeInv, WireInv
    <3>4. h # q
      BY <1>0, <2>3, <3>3
    <3>5. msg_id[q] # msg_id[h]
      BY <1>i, <2>6, <3>4
    <3>6. Unacked(q)'
      BY <1>0, <1>t, <2>1, <2>6, <3>2 DEF Unacked
    <3> QED
      BY <2>1, <2>5, <3>2, <3>5, <3>6
  <2>8. ASSUME NEW i \in DOMAIN downlink', NEW q \in Carried', msg_id'[q] = downlink'[i]
        PROVE  Unacked(q)'
    <3>1. CASE i \in DOMAIN downlink
      BY <1>0, <1>t, <2>1, <2>5, <2>6, <2>8, <3>1 DEF AckInv, Unacked
    <3>2. CASE msg_id[q] = msg_id[h]
      <4>1. q = h
        BY <1>i, <2>6, <3>2
      <4> QED
        BY <1>0, <1>t, <2>1, <2>4, <4>1 DEF Unacked
    <3> QED
      BY <2>1, <2>5, <2>8, <3>1, <3>2
  <2>9. \A i, j \in DOMAIN downlink' : downlink'[i] = downlink'[j] => i = j
    BY <2>4, <2>5 DEF AckInv
  <2> QED
    BY <2>7, <2>8, <2>9 DEF AckInv
<1> QED
  BY <1>1, <1>2, <1>3, <1>4, <1>5, <1>6, <1>7, NetworkSteps, TellSteps

(* A step of another actor than the sweep that links no node, marks none   *)
(* and reports nothing.                                                    *)
LEMMA NodeKept ==
  ASSUME WholeInv, NodeInv, UNCHANGED <<notified, ypc, temp_node>>,
         list_pub_wait_ack' \subseteq list_pub_wait_ack,
         \A r \in list_pub_wait_ack' : node_state'[r] = node_state[r]
  PROVE  NodeInv'
<1>1. \A r \in Request : Outcome(r)' = Outcome(r)
  BY OutcomeMoves
<1>2. list_pub_wait_ack \subseteq Request
  BY DEF WholeInv, TypeInv, TypeOK
<1>3. ypc = "relock" => temp_node \in Request
  BY <1>2 DEF WholeInv, SweepInv, SweepHoldsLiveNodes
<1>4. ASSUME ypc' = "relock" PROVE Outcome(temp_node)' = "open"
  BY <1>1, <1>3, <1>4 DEF NodeInv, Outcome
<1> QED
  BY <1>1, <1>2, <1>4 DEF NodeInv, Unacked, Overdue

LEMMA NextNodeInv ==
  ASSUME WholeInv, FirstTurn, AcceptedInv, ToldInv, AckInv, NodeInv, [Next]_vars
  PROVE  NodeInv'
<1>0. /\ CallTypes /\ CallInv /\ list_pub_wait_ack \subseteq Request /\ Null \notin Request
      /\ node_state \in [Request -> {"none", "NORMAL", "INVALID", "freed"}]
  BY NullIsNoRequest DEF WholeInv, TypeInv, TypeOK, CallTypes, Outcomes
<1>t. ASSUME UNCHANGED notified PROVE \A r \in Request : Outcome(r)' = Outcome(r)
  BY <1>t, OutcomeMoves
<1>1. ASSUME NEW t \in Thread, \/ (\E r \in Request : PublishCall(t, r)) \/ PublishCheck(t)
                               \/ PublishLock(t) \/ GetNextPacketId(t) \/ Serialize(t)
                               \/ Send(t) \/ Done(t)
      PROVE  NodeInv'
  BY <1>1, NodeKept DEF PublishCall, PublishCheck, PublishLock, GetNextPacketId, Serialize, Send, Done,
                        list, sweep, history
<1>2. ASSUME NEW t \in Thread, Push(t) PROVE NodeInv'
  <2>1. pc[t] = "push" /\ UNCHANGED <<notified, ypc, temp_node>>
    BY <1>2 DEF Push, PushUnless, sweep
  <2>2. CASE UNCHANGED <<list_pub_wait_ack, node_state>>
    BY <2>1, <2>2, NodeKept
  <2>3. CASE /\ list_pub_wait_ack' = list_pub_wait_ack \cup {req[t]}
             /\ node_state' = [node_state EXCEPT ![req[t]] = "NORMAL"]
    <3>1. req[t] \in Request \ list_pub_wait_ack /\ ret[req[t]] = "none"
      BY <1>0, <2>1, NotListedYet DEF WholeInv, IdInv, Pushed, CallInv
    <3>2. ~Sent(req[t])
      BY <1>0, <2>1, <3>1 DEF CallInv, Sent
    <3>3. Outcome(req[t]) = "open"
      BY <3>1, <3>2 DEF ToldInv
    <3>4. \A r \in list_pub_wait_ack : node_state'[r] = node_state[r]
      BY <1>0, <2>3, <3>1
    <3>5. ypc = "relock" => temp_node \in Request
      BY <1>0 DEF WholeInv, SweepInv, SweepHoldsLiveNodes
    <3>6. ASSUME ypc' = "relock" PROVE Outcome(temp_node)' = "open"
      BY <1>t, <2>1, <3>5, <3>6 DEF NodeInv, Outcome
    <3> QED
      BY <1>0, <1>t, <2>1, <2>3, <3>1, <3>3, <3>4, <3>6 DEF NodeInv, Unacked, Overdue
  <2> QED
    BY <1>2, <2>2, <2>3 DEF Push, PushUnless
<1>3. ASSUME NEW t \in Thread, Undo(t) PROVE NodeInv'
  <2>1. /\ UNCHANGED <<notified, ypc, temp_node>>
        /\ list_pub_wait_ack' = list_pub_wait_ack \ {req[t]}
        /\ node_state' = [node_state EXCEPT ![req[t]] = "freed"]
    BY <1>3 DEF Undo, UndoOnce, sweep
  <2>2. \A r \in list_pub_wait_ack' : node_state'[r] = node_state[r]
    BY <1>0, <2>1
  <2> QED
    BY <2>1, <2>2, NodeKept
<1>4. ASSUME NEW t \in AppThread, OtherRequest(t) PROVE NodeInv'
  BY <1>4, NodeKept DEF OtherRequest, list, sweep
<1>5. CASE HandlePuback
  <2>1. /\ ypc = "loop" /\ ypc' = "success_cb" /\ UNCHANGED list_pub_wait_ack
        /\ node_state' = [r \in Request |-> IF r \in WithId(Head(downlink)) THEN "INVALID"
                                                                      ELSE node_state[r]]
    BY <1>5 DEF HandlePuback, PubackMasks
  <2>2. PICK q \in Carried :
           /\ Unacked(q) /\ msg_id[q] = Head(downlink)
           /\ Outcome(q) = "open" => Outcome(q)' = "acked"
           /\ \A r \in Request : r # q => Outcome(r)' = Outcome(r)
    BY <1>5, PubackOfOne
  <2>3. ASSUME NEW r \in list_pub_wait_ack PROVE ~Overdue(r)
    BY <2>1 DEF NodeInv
  <2>4. ASSUME NEW r \in list_pub_wait_ack, ~Unacked(r)' PROVE node_state'[r] = "INVALID"
    <3>1. CASE r = q
      BY <1>0, <2>1, <2>2, <3>1 DEF WithId
    <3>2. CASE r # q
      BY <1>0, <2>1, <2>2, <2>4, <3>2 DEF NodeInv, Unacked
    <3> QED
      BY <3>1, <3>2
  <2>5. ASSUME NEW r \in list_pub_wait_ack PROVE ~Overdue(r)'
    <3>1. CASE r = q
      BY <2>2, <2>3, <3>1 DEF Unacked, Overdue
    <3>2. CASE r # q
      BY <1>0, <2>2, <2>3, <3>2 DEF Overdue
    <3> QED
      BY <3>1, <3>2
  <2> QED
    BY <2>1, <2>4, <2>5 DEF NodeInv
<1>6. CASE SweepStart \/ SweepEmpty \/ HandleUnsuback \/ UnsubackReturns
  <2>1. /\ ypc \in {"loop", "success_cb", "unsuback_cb", "handled"}
        /\ ypc' \in {"loop", "sweep", "unsuback_cb", "handled"}
        /\ UNCHANGED <<list_pub_wait_ack, node_state, notified>>
    BY <1>6 DEF SweepStart, SweepEmpty, Handled, HandleUnsuback, UnsubackReturns, list, history
  <2>2. \A r \in list_pub_wait_ack : ~Overdue(r)
    BY <2>1 DEF NodeInv
  <2> QED
    BY <1>0, <1>t, <2>1, <2>2 DEF NodeInv, Unacked, Overdue
<1>7. CASE SweepStep \/ SweepEnd
  <2>1. /\ ypc = "sweep" /\ RemoveTemp /\ UNCHANGED notified
    BY <1>7 DEF SweepStep, SweepEnd, history
  <2>2. \A r \in list_pub_wait_ack : Overdue(r) => r = temp_node
    BY <2>1 DEF NodeInv
  <2>3. \A r \in list_pub_wait_ack' : /\ r \in list_pub_wait_ack /\ r # temp_node
                                      /\ node_state'[r] = node_state[r]
    BY <1>0, <2>1 DEF RemoveTemp
  <2>4. ASSUME ypc' = "relock" PROVE Outcome(temp_node)' = "open"
    <3>1. iter # Null /\ temp_node' = iter /\ node_state[iter] # "INVALID"
      BY <1>7, <2>4, <2>1 DEF SweepStep, SweepEnd
    <3>2. iter \in list_pub_wait_ack
      BY <2>1, <3>1 DEF WholeInv, SweepInv, SweepHoldsLiveNodes
    <3>3. iter # temp_node
      <4>1. CASE temp_node = Null
        BY <3>1, <4>1
      <4>2. CASE temp_node # Null
        <5>1. seqno[iter] < seqno[temp_node] /\ seqno[iter] \in Nat
          BY <1>0, <2>1, <3>1, <3>2, <4>2 DEF WholeInv, SweepInv, TypeInv, TypeOK
        <5> QED
          BY <5>1
      <4> QED
        BY <4>1, <4>2
    <3>4. Outcome(iter) = "open"
      <4>1. Unacked(iter) /\ ~Overdue(iter)
        BY <2>2, <3>1, <3>2, <3>3 DEF NodeInv
      <4> QED
        BY <4>1 DEF Unacked, Overdue
    <3> QED
      BY <1>0, <1>t, <2>1, <3>1, <3>2, <3>4 DEF Outcome
  <2> QED
    BY <1>0, <1>t, <2>1, <2>2, <2>3, <2>4 DEF NodeInv, Unacked, Overdue
<1>8. CASE SweepTimeout
  <2>1. /\ ypc = "relock" /\ ypc' = "timeout_cb"
        /\ UNCHANGED <<list_pub_wait_ack, node_state, temp_node>>
    BY <1>8 DEF SweepTimeout
  <2>2. /\ \A r \in Request : r = temp_node => Outcome(r)' = "expired"
        /\ \A r \in Request : r # temp_node => Outcome(r)' = Outcome(r)
    BY <1>8, TimeoutOfOne
  <2> QED
    BY <1>0, <2>1, <2>2 DEF NodeInv, Unacked, Overdue
<1>9. CASE SweepCallbackReturns
  <2>1. /\ ypc = "timeout_cb" /\ ypc' = "sweep"
        /\ UNCHANGED <<list_pub_wait_ack, node_state, temp_node, notified>>
    BY <1>9 DEF SweepCallbackReturns, list, history
  <2> QED
    BY <1>0, <1>t, <2>1 DEF NodeInv, Unacked, Overdue
<1>10. CASE \/ (\E r \in Request : TimerExpires(r)) \/ ConnectionLost \/ Reconnected
            \/ BrokerAck \/ BrokerIgnores \/ UNCHANGED vars
            \/ \E t \in AppThread : UnsubscribeBegin(t) \/ UnsubscribeEnd(t)
  BY <1>10, NodeKept DEF UnsubscribeBegin, UnsubscribeEnd, TimerExpires, ConnectionLost, Reconnected, BrokerAck, BrokerIgnores,
                         vars, list, sweep, history
<1> QED
  BY <1>1, <1>2, <1>3, <1>4, <1>5, <1>6, <1>7, <1>8, <1>9, <1>10 DEF Next, PublishStep, YieldStep

(* A call returns once, not while a report is made; it returns an error    *)
(* only if its packet was not sent, and then leaves no node behind.        *)
ReturnStep ==
    \E r \in Request, rc \in Outcomes \ {"none"} :
        /\ ret' = [ret EXCEPT ![r] = rc] /\ ret[r] = "none"
        /\ rc # "accepted" => ~Sent(r) /\ r \notin list_pub_wait_ack'
        /\ list_pub_wait_ack' \subseteq list_pub_wait_ack
        /\ UNCHANGED notified

LEMMA ReturnSteps ==
  ASSUME WholeInv, [Next]_vars
  PROVE  \/ UNCHANGED ret /\ \A r \in list_pub_wait_ack' : r \in list_pub_wait_ack \/ ret[r] = "none"
         \/ ReturnStep
<1> DEFINE Quiet == /\ UNCHANGED ret
                    /\ \A r \in list_pub_wait_ack' : r \in list_pub_wait_ack \/ ret[r] = "none"
<1>0. CallTypes /\ CallInv /\ Null \notin Request
  BY NullIsNoRequest DEF WholeInv, TypeInv, TypeOK, CallTypes, Outcomes
<1>c. ASSUME NEW t \in Thread, pc[t] # "idle"
      PROVE  /\ req[t] \in Request /\ ret[req[t]] = "none"
             /\ pc[t] # "done" => ~Sent(req[t])
             /\ pc[t] \notin Pushed => req[t] \notin list_pub_wait_ack
  <2>1. req[t] \in Request /\ ret[req[t]] = "none"
    BY <1>0, <1>c DEF CallInv, CallTypes
  <2>2. pc[t] # "done" => ~Sent(req[t])
    BY <1>0, <2>1 DEF CallInv, Sent
  <2>3. pc[t] \notin Pushed => req[t] \notin list_pub_wait_ack
    BY <1>c, NotListedYet DEF WholeInv, IdInv, Pushed
  <2> QED
    BY <2>1, <2>2, <2>3
<1>r. ASSUME NEW t \in Thread, NEW rc \in Outcomes \ {"none"}, pc[t] # "idle", Return(t, rc),
             list_pub_wait_ack' \subseteq list_pub_wait_ack, UNCHANGED notified,
             rc # "accepted" => pc[t] # "done" /\ req[t] \notin list_pub_wait_ack'
      PROVE  ReturnStep
  <2> HIDE DEF Quiet
  <2>1. req[t] \in Request /\ ret[req[t]] = "none" /\ (pc[t] # "done" => ~Sent(req[t]))
    BY <1>c, <1>r
  <2>2. ret' = [ret EXCEPT ![req[t]] = rc]
    BY <1>r DEF Return
  <2> QED
    BY <1>r, <2>1, <2>2 DEF ReturnStep
<1>1. ASSUME NEW t \in Thread, PublishCheck(t) PROVE Quiet \/ ReturnStep
  <2>1. pc[t] = "check" /\ UNCHANGED <<list_pub_wait_ack, notified>>
    BY <1>1 DEF PublishCheck, list
  <2>2. CASE Return(t, "NO_CONN")
    BY <1>r, <1>c, <2>1, <2>2 DEF Outcomes, Pushed
  <2> QED
    BY <1>1, <2>1, <2>2 DEF PublishCheck
<1>2. ASSUME NEW t \in Thread, \/ (\E r \in Request : PublishCall(t, r)) \/ PublishLock(t)
                               \/ GetNextPacketId(t) \/ Send(t)
      PROVE  Quiet
  BY <1>2 DEF PublishCall, PublishLock, GetNextPacketId, Send, list, history
<1>3. ASSUME NEW t \in Thread, Serialize(t) PROVE Quiet \/ ReturnStep
  <2>1. pc[t] = "read" /\ UNCHANGED <<list_pub_wait_ack, notified>>
    BY <1>3 DEF Serialize, list
  <2>2. CASE Return(t, "TOO_LONG")
    BY <1>r, <1>c, <2>1, <2>2 DEF Outcomes, Pushed
  <2> QED
    BY <1>3, <2>1, <2>2 DEF Serialize
<1>4. ASSUME NEW t \in Thread, Push(t) PROVE Quiet \/ ReturnStep
  <2>1. pc[t] = "push" /\ UNCHANGED notified
    BY <1>4 DEF Push, PushUnless
  <2>2. CASE Return(t, "PUSH_FAIL") /\ UNCHANGED list_pub_wait_ack
    BY <1>r, <1>c, <2>1, <2>2 DEF Outcomes, Pushed
  <2>3. CASE UNCHANGED ret /\ list_pub_wait_ack' = list_pub_wait_ack \cup {req[t]}
    BY <1>c, <2>1, <2>3
  <2> QED
    BY <1>4, <2>2, <2>3 DEF Push, PushUnless
<1>5. ASSUME NEW t \in Thread, Undo(t) PROVE ReturnStep
  <2>1. /\ pc[t] = "undo" /\ list_pub_wait_ack' = list_pub_wait_ack \ {req[t]}
        /\ Return(t, "SEND_FAIL") /\ UNCHANGED notified
    BY <1>5 DEF Undo, UndoOnce
  <2> QED
    BY <1>r, <2>1 DEF Outcomes
<1>6. ASSUME NEW t \in Thread, Done(t) PROVE ReturnStep
  <2>1. /\ pc[t] = "done" /\ UNCHANGED <<list_pub_wait_ack, notified>> /\ Return(t, "accepted")
    BY <1>6 DEF Done, list
  <2> QED
    BY <1>r, <2>1 DEF Outcomes
<1>7. ASSUME NEW t \in AppThread, OtherRequest(t) PROVE Quiet
  BY <1>7 DEF OtherRequest, list
<1>8. CASE UNCHANGED ret /\ list_pub_wait_ack' \subseteq list_pub_wait_ack
  BY <1>8
<1> QED
  BY <1>1, <1>2, <1>3, <1>4, <1>5, <1>6, <1>7, <1>8, QuietSteps, QuietList DEF Next, PublishStep

LEMMA NextAcceptedInv ==
  ASSUME WholeInv, AcceptedInv, [Next]_vars
  PROVE  AcceptedInv'
<1>0. ret \in [Request -> Outcomes]
  BY DEF WholeInv, TypeInv, TypeOK, Outcomes
<1>1. CASE UNCHANGED ret /\ \A r \in list_pub_wait_ack' : r \in list_pub_wait_ack \/ ret[r] = "none"
  BY <1>1 DEF AcceptedInv
<1>2. CASE ReturnStep
  BY <1>0, <1>2 DEF ReturnStep, AcceptedInv
<1> QED
  BY <1>1, <1>2, ReturnSteps

ContractInv ==
    /\ WholeInv /\ AcceptedInv
    /\ FirstTurn => ToldInv /\ AckInv /\ NodeInv

LEMMA ContractInvariant ==
  ASSUME TimelySender
  PROVE  (Init => ContractInv) /\ (ContractInv /\ [Next]_vars => ContractInv')
<1>1. ASSUME Init PROVE ContractInv
  <2>1. \A r \in Request : Outcome(r) = "open"
    BY <1>1 DEF Init, Outcome
  <2>2. DOMAIN uplink = {} /\ DOMAIN downlink = {} /\ list_pub_wait_ack = {} /\ ypc = "loop"
    BY <1>1 DEF Init
  <2>3. WholeInv
    BY <1>1, WholeInvariant
  <2> QED
    BY <2>1, <2>2, <2>3 DEF ContractInv, AcceptedInv, ToldInv, AckInv, NodeInv
<1>2. ContractInv /\ [Next]_vars => ContractInv'
  BY WholeInvariant, NextAcceptedInv, NextToldInv, NextAckInv, NextNodeInv, TurnsOn
     DEF ContractInv, WholeInv
<1> QED
  BY <1>1, <1>2

LEMMA AnswerMoves ==
  ASSUME NEW r \in Request
  PROVE  /\ ret'[r] = ret[r] => Answer(r)' = Answer(r)
         /\ ret[r] = "none" <=> Answer(r) = "none"
         /\ ret[r] = "accepted" <=> Answer(r) = "accepted"
         /\ ret'[r] = "accepted" => Answer(r)' = "accepted"
         /\ ret'[r] \notin {"none", "accepted"} => Answer(r)' = "rejected"
  BY DEF Answer

(* Every step is one of the contract or invisible to the user.             *)
LEMMA ContractStep ==
  ASSUME ContractInv, FirstTurn, [Next]_vars
  PROVE  [Contract!Next]_Contract!cvars
<1> DEFINE ans == [r \in Request |-> Answer(r)]
           out == [r \in Request |-> Outcome(r)]
<1>0. /\ WholeInv /\ AcceptedInv /\ ToldInv /\ AckInv /\ NodeInv /\ Carried \subseteq Request
      /\ ret \in [Request -> Outcomes]
  BY DEF ContractInv, WholeInv, TypeInv, TypeOK, Outcomes, Carried
<1>a. ASSUME UNCHANGED ret PROVE ans' = ans
  BY <1>a, AnswerMoves
<1>o. ASSUME UNCHANGED notified PROVE out' = out
  BY <1>o, OutcomeMoves
<1>1. CASE ReturnStep
  <2>1. PICK r \in Request, rc \in Outcomes \ {"none"} :
           /\ ret' = [ret EXCEPT ![r] = rc] /\ ret[r] = "none"
           /\ rc # "accepted" => ~Sent(r)
           /\ UNCHANGED notified
    BY <1>1 DEF ReturnStep
  <2>2. ans[r] = "none" /\ out' = out
    BY <1>o, <2>1, AnswerMoves
  <2>3. \A q \in Request : q # r => Answer(q)' = Answer(q)
    BY <1>0, <2>1, AnswerMoves
  <2>4. CASE rc = "accepted"
    <3>1. Answer(r)' = "accepted"
      BY <1>0, <2>1, <2>4, AnswerMoves
    <3>2. ans' = [ans EXCEPT ![r] = "accepted"]
      BY <2>3, <3>1
    <3> QED
      BY <2>2, <3>2 DEF Contract!Next, Contract!Accept
  <2>5. CASE rc # "accepted"
    <3>1. Answer(r)' = "rejected"
      BY <1>0, <2>1, <2>5, AnswerMoves
    <3>2. ans' = [ans EXCEPT ![r] = "rejected"]
      BY <2>3, <3>1
    <3>3. out[r] = "open"
      BY <1>0, <2>1, <2>5 DEF ToldInv
    <3> QED
      BY <2>2, <3>2, <3>3 DEF Contract!Next, Contract!Reject
  <2> QED
    BY <2>4, <2>5
<1>2. CASE UNCHANGED ret /\ UNCHANGED notified
  BY <1>a, <1>o, <1>2 DEF Contract!cvars
<1>3. CASE HandlePuback
  <2>1. PICK q \in Carried : /\ Sent(q) /\ Unacked(q)
                             /\ Outcome(q) = "open" => Outcome(q)' = "acked"
                             /\ Outcome(q) = "expired" => Outcome(q)' = "acked_late"
                             /\ \A r \in Request : r # q => Outcome(r)' = Outcome(r)
    BY <1>0, <1>3, PubackOfOne
  <2>2. ans' = ans
    BY <1>a, <1>3 DEF HandlePuback, PubackMasks
  <2>3. ans[q] # "rejected"
    <3>1. ret[q] \in {"none", "accepted"}
      BY <1>0, <2>1 DEF Sent, WholeInv, TypeInv, CallInv
    <3> QED
      BY <1>0, <3>1 DEF Answer
  <2>4. \/ out[q] = "open" /\ out' = [out EXCEPT ![q] = "acked"]
        \/ out[q] = "expired" /\ out' = [out EXCEPT ![q] = "acked_late"]
    BY <1>0, <2>1 DEF Unacked
  <2> QED
    BY <1>0, <2>2, <2>3, <2>4 DEF Contract!Next, Contract!Acked
<1>4. CASE SweepTimeout
  <2>1. /\ temp_node \in list_pub_wait_ack /\ ret[temp_node] = "accepted"
        /\ Outcome(temp_node) = "open" /\ temp_node \in Carried
        /\ \A r \in Request : r = temp_node => Outcome(r)' = "expired"
        /\ \A r \in Request : r # temp_node => Outcome(r)' = Outcome(r)
    BY <1>0, <1>4, TimeoutOfOne
  <2>2. ans' = ans
    BY <1>a, <1>4 DEF SweepTimeout
  <2>3. ans[temp_node] = "accepted" /\ out[temp_node] = "open"
    BY <1>0, <2>1, AnswerMoves
  <2>4. out' = [out EXCEPT ![temp_node] = "expired"]
    BY <1>0, <2>1
  <2> QED
    BY <1>0, <2>1, <2>2, <2>3, <2>4 DEF Contract!Next, Contract!Expired
<1> QED
  BY <1>0, <1>1, <1>2, <1>3, <1>4, ReturnSteps, TellSteps, QuietSteps DEF YieldStep

(* What the user hears of a publish call is what PublishContract promises: *)
(* one return, an error return final and silent, a time-out reported at    *)
(* most once and never after success.  For any number of callers, with     *)
(* lost packets and late PUBACKs, until the identifiers have gone round:   *)
(* a PUBACK more than 65535 identifiers late is credited to another call.  *)
THEOREM ContractKept ==
  ASSUME TimelySender
  PROVE  Spec /\ []FirstTurn => ImplementsContract
<1>1. Init => Contract!Init
  <2> SUFFICES ASSUME Init PROVE Contract!Init
    OBVIOUS
  <2>1. \A r \in Request : Answer(r) = "none" /\ Outcome(r) = "open"
    BY DEF Init, Answer, Outcome
  <2> QED
    BY <2>1 DEF Contract!Init
<1>2. Init => ContractInv
  BY ContractInvariant
<1>3. ContractInv /\ [Next]_vars => ContractInv'
  BY ContractInvariant
<1>4. ContractInv /\ FirstTurn /\ [Next]_vars => [Contract!Next]_Contract!cvars
  BY ContractStep
<1> QED
  BY <1>1, <1>2, <1>3, <1>4, PTL DEF Spec, ImplementsContract, Contract!Spec

===========================================================================
