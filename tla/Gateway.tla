------------------------------ MODULE Gateway ------------------------------
(***************************************************************************)
(* The gateway client (services/gateway): going online and offline for     *)
(* sub-devices, binding and unbinding them, the bind list, and the         *)
(* messages of the cloud.                                                  *)
(*                                                                         *)
(* Actors: threads that call the API, the thread that handles messages     *)
(* (the yield thread, or the caller itself inside IOT_Gateway_Yield), and  *)
(* the cloud (external).  Requests and answers are QoS 0 messages on one   *)
(* ordered connection.  The gateway takes no lock: a call leaves the       *)
(* client_id it is about in the slot of its kind and polls the result      *)
(* there; the handler writes the result and may free sessions meanwhile.   *)
(* The session list is a linked list without a lock: a thread enters it to *)
(* find, add or remove a session and leaves it with the change made.       *)
(*                                                                         *)
(* Data abstraction.  A client_id is the sub-device; a result is           *)
(* "pending" (-2 or -1001), "ok" (0) or "refused".  What the handler       *)
(* publishes in answer to the cloud changes nothing here.                  *)
(***************************************************************************)
EXTENDS Naturals, Sequences, SequencesExt, FiniteSets

CONSTANTS
    Caller,           \* threads
    Device,           \* sub-devices
    PrefixOf,         \* pairs of them, the first name a prefix of the second
    MaxCalls,         \* bound on the API calls
    MaxNotices,       \* bound on the messages nobody asked for
    Adversity         \* which of the circumstances below may occur

Circumstance ==
    { "late",                 \* a call gives up while its answer is on the way
      "answer_lost",          \* the answer to a request is lost
      "overlap",              \* two threads are inside calls of one kind
      "list_race",            \* two threads are in the session list at once
      "unbind_all_in_call",   \* unbind_all comes in while a call holds a session
      "unbind_online",        \* a sub-device is unbound while it is online
      "unbind_listed",        \* a sub-device in the bind list is unbound by unbind_all
                              \* or by IOT_Gateway_Subdev_Unbind
      "change_repeated" }     \* a binding that is in the list is announced again

ASSUME GatewayConstants ==
    /\ PrefixOf \subseteq Device \X Device /\ "none" \notin Caller \cup Device
    /\ MaxCalls \in Nat /\ MaxNotices \in Nat /\ Adversity \subseteq Circumstance

Kind == {"online", "offline", "bind", "unbind", "list"}

VARIABLES
    up,               \* IOT_Gateway_Construct has succeeded
    session,          \* session_list: status of each sub-device's session
    bind_list,        \* bind_list of the gateway
    slot,             \* gateway_data: client_id and result for each kind of call
    pc, call,         \* of each caller: position, kind and device
    rc,               \* what gateway_publish_sync returned to it
    held,             \* its session pointer: "none", "live" or "freed"
    in_list,          \* the callers that are in the session list
    verdict,          \* what the cloud decided on its request
    requests, messages,           \* on the way to the cloud, to the gateway
    online, bound,                \* the cloud's own state
    calls, notices,               \* counters
    fault             \* a freed session was read or written

gateway == <<up, session, bind_list, slot>>
caller  == <<pc, call, rc, held, in_list>>
cloud   == <<online, bound, verdict>>
count   == <<calls, notices>>
vars    == <<gateway, caller, cloud, requests, messages, count, fault>>

NoCall == [kind |-> "list", device |-> "none"]
Call == [kind : Kind, device : Device \cup {"none"}]
NoDevice == "none"
Result == {"pending", "ok", "refused"}

TypeOK ==
    /\ up \in BOOLEAN /\ session \in [Device -> {"none", "init", "online"}]
    /\ bind_list \in Seq(Device)
    /\ slot \in [Kind -> [client_id : Device \cup {NoDevice}, result : Result]]
    /\ pc \in [Caller -> {"idle", "publish", "wait", "finish"}]
    /\ call \in [Caller -> Call] /\ rc \in [Caller -> {"ok", "refused", "timeout", "failed"}]
    /\ held \in [Caller -> {"none", "live", "freed"}] /\ in_list \subseteq Caller
    /\ verdict \in [Caller -> {"none", "ok", "refused"}]
    /\ online \subseteq Device /\ bound \subseteq Device
    /\ calls \in 0 .. MaxCalls /\ notices \in 0 .. MaxNotices /\ fault \in BOOLEAN

EmptySlot == [client_id |-> NoDevice, result |-> "ok"]

Init ==
    /\ up = FALSE /\ session = [d \in Device |-> "none"] /\ bind_list = <<>>
    /\ slot = [k \in Kind |-> EmptySlot]
    /\ pc = [c \in Caller |-> "idle"] /\ call = [c \in Caller |-> NoCall]
    /\ rc = [c \in Caller |-> "ok"] /\ held = [c \in Caller |-> "none"]
    /\ in_list = {} /\ verdict = [c \in Caller |-> "none"]
    /\ requests = <<>> /\ messages = <<>> /\ online = {} /\ bound \in {{}, Device}
    /\ calls = 0 /\ notices = 0 /\ fault = FALSE

Idle == in_list = {} /\ \A c \in Caller : pc[c] = "idle"

-----------------------------------------------------------------------------
(***************************************************************************)
(* Life cycle.                                                             *)
(***************************************************************************)
(* IOT_Gateway_Construct: the result topic is subscribed to; without its   *)
(* SUBACK the gateway is destroyed again.                                  *)
Construct(subscribed) ==
    /\ ~up
    /\ up' = subscribed
    /\ session' = [d \in Device |-> "none"] /\ bind_list' = <<>>
    /\ slot' = [k \in Kind |-> EmptySlot]
    /\ UNCHANGED <<caller, cloud, requests, messages, count, fault>>

(* IOT_Gateway_Destroy, outside every call.  The connection ends, and with *)
(* it what was on the way; the cloud takes the sub-devices offline.        *)
Destroy ==
    /\ up /\ Idle
    /\ up' = FALSE /\ session' = [d \in Device |-> "none"]
    /\ requests' = <<>> /\ messages' = <<>> /\ online' = {}
    /\ UNCHANGED <<bind_list, slot, caller, bound, verdict, count, fault>>

-----------------------------------------------------------------------------
(***************************************************************************)
(* The session list: subdev_find_session, subdev_add_session and           *)
(* subdev_remove_session, which walk and change it.                        *)
(***************************************************************************)
(* A call removes the session of its sub-device: it did not get online, or *)
(* it got offline.                                                         *)
Removes(c) ==
    /\ pc[c] = "finish"
    /\ \/ call[c].kind = "online" /\ rc[c] # "ok"
       \/ call[c].kind = "offline" /\ rc[c] = "ok"

Enter(c) ==
    /\ c \notin in_list
    /\ "list_race" \in Adversity \/ in_list = {}
    /\ \/ Removes(c)
       \/ /\ up /\ pc[c] = "idle" /\ calls < MaxCalls
          /\ \/ "unbind_all_in_call" \in Adversity
             \/ \A m \in Range(messages) : m.type # "unbind_all"
    /\ in_list' = in_list \cup {c}
    /\ UNCHANGED <<gateway, pc, call, rc, held, cloud, requests, messages, count, fault>>

(* c leaves the list, if it is in it, with the sessions as they should be  *)
(* afterwards.  With another thread in the list an insertion or a removal  *)
(* can be lost, and one of the two can walk over a session that the other  *)
(* has freed.                                                              *)
Leaves(c, after, bad) ==
    /\ in_list' = in_list \ {c}
    /\ IF c \in in_list /\ in_list # {c}
       THEN \E lost \in SUBSET Device, freed \in BOOLEAN :
              /\ session' = [d \in Device |-> IF d \in lost THEN "none" ELSE after[d]]
              /\ fault' = (bad \/ freed)
       ELSE session' = after /\ fault' = bad

(* The early returns: a sub-device that is online does not go online       *)
(* again, one without a session does not go offline, and there may be no   *)
(* memory for a session.                                                   *)
Refuses(kind, d) ==
    \/ kind = "online" /\ session[d] = "online"
    \/ kind = "offline" /\ session[d] = "none"

TurnsBack(c) ==
    /\ pc[c] = "idle" /\ c \in in_list
    /\ \E d \in Device : Refuses("online", d) \/ Refuses("offline", d)
    /\ Leaves(c, session, fault)
    /\ UNCHANGED <<up, bind_list, slot, pc, call, rc, held, cloud, requests, messages, count>>

-----------------------------------------------------------------------------
(***************************************************************************)
(* The API calls.                                                          *)
(***************************************************************************)
(* The slot of a call that begins.                                         *)
SlotAtStart_Kept(kind, d) == [slot[kind] EXCEPT !.client_id = d]
SlotAtStart(kind, d) == [client_id |-> d, result |-> "pending"]

(* IOT_Gateway_Subdev_Online, _Offline, _Bind, _Unbind up to the publish;  *)
(* the first two look the session up, and add it.                          *)
Begin(c, kind, d) ==
    /\ up /\ pc[c] = "idle" /\ calls < MaxCalls /\ ~Refuses(kind, d)
    /\ c \in in_list <=> kind \in {"online", "offline"}
    /\ "overlap" \in Adversity \/ \A e \in Caller : pc[e] = "idle" \/ call[e].kind # kind
    /\ "overlap" \in Adversity \/ \A e \in Caller : pc[e] = "idle" \/ call[e].device # d
    /\ kind = "unbind" => "unbind_online" \in Adversity \/ session[d] = "none"
    /\ \/ "unbind_all_in_call" \in Adversity
       \/ \A m \in Range(messages) : m.type # "unbind_all"
    /\ calls' = calls + 1
    /\ Leaves(c, IF kind = "online" /\ session[d] = "none"
                 THEN [session EXCEPT ![d] = "init"] ELSE session, fault)
    /\ held' = [held EXCEPT ![c] = IF kind \in {"online", "offline"} THEN "live" ELSE "none"]
    /\ slot' = [slot EXCEPT ![kind] = SlotAtStart(kind, d)]
    /\ call' = [call EXCEPT ![c] = [kind |-> kind, device |-> d]]
    /\ verdict' = [verdict EXCEPT ![c] = "none"]
    /\ pc' = [pc EXCEPT ![c] = "publish"]
    /\ UNCHANGED <<up, bind_list, rc, online, bound, requests, messages, notices>>

(* IOT_Gateway_Subdev_GetBindList: the list is forgotten and asked for.    *)
BeginList(c) ==
    /\ up /\ pc[c] = "idle" /\ calls < MaxCalls /\ c \notin in_list
    /\ "overlap" \in Adversity \/ \A e \in Caller : pc[e] = "idle" \/ call[e].kind # "list"
    /\ calls' = calls + 1
    /\ bind_list' = <<>>
    /\ slot' = [slot EXCEPT !["list"] = SlotAtStart("list", NoDevice)]
    /\ call' = [call EXCEPT ![c] = NoCall]
    /\ verdict' = [verdict EXCEPT ![c] = "none"]
    /\ pc' = [pc EXCEPT ![c] = "publish"]
    /\ UNCHANGED <<up, session, rc, held, in_list, online, bound, requests, messages, notices, fault>>

(* gateway_publish_sync: the publish.                                      *)
Publish(c, sent) ==
    /\ pc[c] = "publish"
    /\ pc' = [pc EXCEPT ![c] = IF sent THEN "wait" ELSE "finish"]
    /\ rc' = [rc EXCEPT ![c] = IF sent THEN @ ELSE "failed"]
    /\ requests' = IF sent THEN Append(requests, [call |-> call[c], by |-> c]) ELSE requests
    /\ UNCHANGED <<gateway, call, held, in_list, cloud, messages, count, fault>>

(* It sees another result in the slot than the one before the publish.     *)
Hears(c) ==
    /\ pc[c] = "wait" /\ slot[call[c].kind].result # "pending"
    /\ rc' = [rc EXCEPT ![c] = slot[call[c].kind].result]
    /\ pc' = [pc EXCEPT ![c] = "finish"]
    /\ UNCHANGED <<gateway, call, held, in_list, cloud, requests, messages, count, fault>>

(* The request or the answer of c is on its way.                           *)
UnderWay(c) ==
    \/ \E r \in Range(requests) : r.by = c
    \/ \E m \in Range(messages) : m.by = c

(* GATEWAY_LOOP_MAX_COUNT yields have brought nothing.                     *)
GivesUp(c) ==
    /\ pc[c] = "wait" /\ slot[call[c].kind].result = "pending"
    /\ "late" \in Adversity \/ ~UnderWay(c)
    /\ rc' = [rc EXCEPT ![c] = "timeout"]
    /\ pc' = [pc EXCEPT ![c] = "finish"]
    /\ UNCHANGED <<gateway, call, held, in_list, cloud, requests, messages, count, fault>>

(* The session of d after its call has ended; one that is no longer in the *)
(* list does not come back.                                                *)
SessionAfter_Offline(kind, ok, status) ==
    IF kind = "online" THEN IF ok /\ status # "none" THEN "online" ELSE "none" ELSE status
SessionAfter(kind, ok, status) ==
    CASE kind = "online"  -> IF ok /\ status # "none" THEN "online" ELSE "none"
      [] kind = "offline" -> IF ok THEN "none" ELSE status
      [] OTHER            -> status

(* The rest of the call, in the list where it removes the session; a new   *)
(* status is written through the pointer.                                  *)
Finish(c) ==
    /\ pc[c] = "finish" /\ (c \in in_list <=> Removes(c))
    /\ LET kind == call[c].kind
           d    == call[c].device
           ok   == rc[c] = "ok"
       IN  /\ Leaves(c, IF kind = "list" THEN session
                        ELSE [session EXCEPT ![d] = SessionAfter(kind, ok, @)],
                     fault \/ (ok /\ held[c] = "freed"))
           /\ bind_list' = IF kind = "list" /\ ok THEN <<>> ELSE bind_list
    /\ pc' = [pc EXCEPT ![c] = "idle"] /\ held' = [held EXCEPT ![c] = "none"]
    /\ call' = [call EXCEPT ![c] = NoCall] /\ rc' = [rc EXCEPT ![c] = "ok"]
    /\ verdict' = [verdict EXCEPT ![c] = "none"]
    /\ UNCHANGED <<up, slot, online, bound, requests, messages, count>>

-----------------------------------------------------------------------------
(***************************************************************************)
(* The cloud.                                                              *)
(***************************************************************************)
(* d is in the bind list or about to get there.                            *)
Listed(d) ==
    \/ Contains(bind_list, d)
    \/ \E m \in Range(messages) : m.type = "change_bind" /\ m.device = d

(* It answers the first request.                                           *)
Answers(result) ==
    /\ requests # <<>>
    /\ LET r    == Head(requests)
           d    == r.call.device
           Does(kind) == r.call.kind = kind /\ result = "ok"
       IN  /\ verdict' = [verdict EXCEPT ![r.by] = result]
           /\ online' = IF Does("online") THEN online \cup {d}
                        ELSE IF Does("offline") \/ Does("unbind") THEN online \ {d} ELSE online
           /\ bound' = IF Does("bind") THEN bound \cup {d}
                       ELSE IF Does("unbind") THEN bound \ {d} ELSE bound
           /\ Does("online") => d \in bound
           /\ Does("unbind") => "unbind_online" \in Adversity \/ d \notin online
           /\ Does("unbind") => "unbind_listed" \in Adversity \/ ~Listed(d)
           /\ messages' = Append(messages, [type |-> r.call.kind, device |-> d, result |-> result,
                                            by |-> r.by])
    /\ requests' = Tail(requests)
    /\ UNCHANGED <<gateway, caller, count, fault>>

(* A QoS 0 message is lost.                                                *)
RequestLost ==
    /\ requests # <<>>
    /\ requests' = Tail(requests)
    /\ UNCHANGED <<gateway, caller, cloud, messages, count, fault>>

(* What the cloud says by itself: a sub-device was bound or unbound there, *)
(* all are unbound, search for sub-devices, tell me your sub-devices.      *)
Notice(type, d) ==
    /\ up /\ notices < MaxNotices
    /\ type = "change_bind" => d \notin bound \/ "change_repeated" \in Adversity
    /\ type = "change_unbind" => "unbind_online" \in Adversity \/ (d \notin online /\ Idle)
    /\ type = "unbind_all" => "unbind_all_in_call" \in Adversity \/ Idle
    /\ type = "unbind_all" => "unbind_listed" \in Adversity \/ \A e \in Device : ~Listed(e)
    /\ notices' = notices + 1
    /\ online' = CASE type = "unbind_all" -> {} [] type = "change_unbind" -> online \ {d}
                   [] OTHER -> online
    /\ bound' = CASE type = "unbind_all" -> {} [] type = "change_unbind" -> bound \ {d}
                  [] type = "change_bind" -> bound \cup {d} [] OTHER -> bound
    /\ messages' = Append(messages, [type |-> type, device |-> d, result |-> "ok", by |-> "none"])
    /\ UNCHANGED <<gateway, caller, verdict, requests, calls, fault>>

-----------------------------------------------------------------------------
(***************************************************************************)
(* _gateway_message_handler; unbind_all frees every session of the list.   *)
(***************************************************************************)
(* The names are compared up to the length of the name in the message.     *)
Matches(name, client_id) == name = client_id \/ <<name, client_id>> \in PrefixOf

(* The bind list after a change; a binding is put in front without a look  *)
(* at the list, an unbinding takes the first entry out.                    *)
ListAfter_UnbindIgnored(type, d) ==
    IF type = "change_bind" THEN <<d>> \o bind_list ELSE bind_list
ListAfter(type, d) ==
    CASE type = "change_bind" -> <<d>> \o bind_list
      [] type = "change_unbind" /\ Contains(bind_list, d) ->
           RemoveAt(bind_list, CHOOSE n \in DOMAIN bind_list :
                       bind_list[n] = d /\ \A k \in 1 .. n - 1 : bind_list[k] # d)
      [] OTHER -> bind_list

(* An answer to a bind list request has the type describe_sub_devices and  *)
(* is taken for a question of the cloud.                                   *)
Handle(m) ==
    /\ slot' = IF m.type \in Kind \ {"list"} /\ Matches(m.device, slot[m.type].client_id)
               THEN [slot EXCEPT ![m.type].result = m.result] ELSE slot
    /\ bind_list' = ListAfter(m.type, m.device)
    /\ IF m.type # "unbind_all" THEN UNCHANGED <<session, held>>
       ELSE /\ session' = [d \in Device |-> "none"]
            /\ held' = [c \in Caller |-> IF held[c] = "live" THEN "freed" ELSE held[c]]

(* The next message comes in, or is lost.                                  *)
Deliver(lost) ==
    /\ up /\ messages # <<>>
    /\ lost => "answer_lost" \in Adversity /\ Head(messages).by # "none"
    /\ IF lost THEN UNCHANGED <<slot, bind_list, session, held>> ELSE Handle(Head(messages))
    /\ fault' \in IF ~lost /\ Head(messages).type = "unbind_all" /\ in_list # {}
                   THEN {fault, TRUE} ELSE {fault}
    /\ messages' = Tail(messages)
    /\ UNCHANGED <<up, pc, call, rc, in_list, cloud, requests, count>>

Next ==
    \/ \E subscribed \in BOOLEAN : Construct(subscribed)
    \/ Destroy
    \/ \E c \in Caller :
         \/ \E kind \in Kind \ {"list"}, d \in Device : Begin(c, kind, d)
         \/ Enter(c) \/ TurnsBack(c) \/ BeginList(c) \/ (\E sent \in BOOLEAN : Publish(c, sent))
         \/ Hears(c) \/ GivesUp(c) \/ Finish(c)
    \/ \E result \in {"ok", "refused"} : Answers(result)
    \/ RequestLost
    \/ \E type \in {"change_bind", "change_unbind"}, d \in Device : Notice(type, d)
    \/ \E type \in {"unbind_all", "search", "describe"} : Notice(type, NoDevice)
    \/ \E lost \in BOOLEAN : Deliver(lost)

Spec == Init /\ [][Next]_vars

-----------------------------------------------------------------------------
(* A call about a sub-device returns what the cloud decided on this very   *)
(* request: an answer to another call, another kind of call or another     *)
(* sub-device (the names are compared by prefix) does not end its wait,    *)
(* and an answer that came in time is not taken for a time-out.            *)
ResultTrue ==
    \A c \in Caller : pc[c] = "finish" /\ call[c].kind # "list" =>
        CASE rc[c] = "ok"      -> verdict[c] = "ok"
          [] rc[c] = "refused" -> verdict[c] = "refused"
          [] OTHER             -> verdict[c] = "none"

(* Once everything said has been heard, the sessions are those of the      *)
(* sub-devices the cloud holds online, after refusals, lost requests and   *)
(* unbind_all alike, and no thread has read or written a session that      *)
(* another had freed.                                                      *)
SessionTrue ==
    /\ ~fault
    /\ up /\ Idle /\ requests = <<>> /\ messages = <<>> =>
         \A d \in Device : session[d] = IF d \in online THEN "online" ELSE "none"

(* The bind list, which the gateway reports to the cloud on request, holds *)
(* a sub-device at most once and, once everything said has been heard,     *)
(* none that is unbound by the cloud.                                      *)
BindListTrue ==
    /\ Cardinality(Range(bind_list)) = Len(bind_list)
    /\ up /\ messages = <<>> => \A d \in Range(bind_list) : d \in bound

(* "get sub-device bind list from cloud platform": a bind list call that   *)
(* the cloud has answered succeeds.                                        *)
BindListObtained ==
    \A c \in Caller : pc[c] = "finish" /\ call[c].kind = "list" /\ verdict[c] = "ok" => rc[c] = "ok"
=============================================================================
