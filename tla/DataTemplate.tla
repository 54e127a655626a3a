---------------------------- MODULE DataTemplate ----------------------------
(***************************************************************************)
(* The data template client: construction, the requests for which a reply  *)
(* is awaited (report, get status, event), the calls that wait for the     *)
(* reply themselves, the handlers of the three downstream topics, and      *)
(* destruction.                                                            *)
(*                                                                         *)
(* Actors: the application threads App, whose position is pc, and the      *)
(* receiver, which reads one MQTT message at a time and runs the handler   *)
(* of its topic: rx.by is the loop thread of the MQTT client when          *)
(* yield_thread_running, the application thread inside IOT_Template_Yield  *)
(* when not.  A section under the mutex without a visible intermediate     *)
(* state is one step that needs the mutex free.                            *)
(*                                                                         *)
(* Data abstraction.  A list is the set of its nodes: a walk visits all of *)
(* them under the mutex, in an order no property tells apart.  A document  *)
(* is its method, client token and outcome code; a timer the fact that it  *)
(* ran out; a call is numbered, and msg.of is the call a message of the    *)
(* cloud really answers (the code compares tokens).  A report of the       *)
(* system information takes the path of a report.  The MQTT client is what *)
(* MqttPublish, MqttSubscribe and MqttSession promise of it; a lost        *)
(* message is one never received.                                          *)
(***************************************************************************)
EXTENDS Integers, Sequences, FiniteSets, SequencesExt

CONSTANTS
    App,                           \* application threads
    MaxCalls,                      \* bound on the requests of a behaviour
    Calls,                         \* IOT_Template_Report, _GetStatus and their
                                   \* waiting forms: <<method, callback>>
    MAX_APPENDING_REQUEST_AT_ANY_GIVEN_TIME,   \* 10
    MAX_EVENT_WAIT_REPLY,                      \* 10
    Adversity                      \* which of the circumstances below may occur

Circumstance ==
    { "early_reply",               \* a thread gets a reply before the request is
                                   \* on reply_list
      "control_to_waiter",         \* a thread gets control data for a get status
                                   \* that another thread waits for
      "bad_reply",                 \* a reply without a code
      "racing_tokens",             \* another thread is in build_empty_json
      "construct_fails",           \* a subscription of IOT_Template_Construct fails
      "shared_loop",               \* the MQTT client is shared, its loop runs
      "destroy_while_looping",     \* destroyed without stopping the loop
      "keep_mqtt" }                \* IOT_Template_Destroy_Except_MQTT

ASSUME TemplateConstants ==
    /\ MaxCalls \in Nat
    /\ Calls \subseteq {"REPORT", "GET"} \X {"user", "sync"}
    /\ MAX_APPENDING_REQUEST_AT_ANY_GIVEN_TIME \in Nat \ {0}
    /\ MAX_EVENT_WAIT_REPLY \in Nat \ {0}
    /\ Adversity \subseteq Circumstance
    /\ App # {} /\ "loop" \notin App /\ "nobody" \notin App

VARIABLES
    template,                      \* "none", "constructing", "ready", "reset", "freed"
    stage,                         \* the topic IOT_Template_Construct is at
    suback,                        \* packet id of a subscription not answered, 0 if none
    sync_status,
    handlers,                      \* topics whose MQTT handler has this template
    yield_thread_running,
    mutex,                         \* the thread that holds it
    reply_list, event_list,        \* requests that wait for a reply
    request,                       \* what call i asks for
    ran_out,                       \* calls whose timer has run out
    ack,                           \* what user_context of call i points to: ack_request
                                   \* of a waiting call, else a variable of the user
    token_num, sg_template_clientToken,
    up, down,                      \* messages under way to and from the cloud
    rx,                            \* what the receiver is doing
    pc, cur,                       \* cur[t]: the call t is in
    calls,                         \* calls made
    result,                        \* what call i has returned
    told,                          \* what the callback of call i has been given
    seen                           \* codes of the replies to call i handled
                                   \* before its callback

life   == <<template, stage, suback, sync_status, handlers, yield_thread_running>>
lists  == <<reply_list, event_list, ran_out>>
wire   == <<up, down>>
callv  == <<request, calls, token_num>>
answer == <<ack, told, seen>>
vars == <<life, mutex, lists, callv, answer, sg_template_clientToken, wire, rx, pc, cur, result>>

Ids    == 1 .. MaxCalls
Topics == <<"property", "event", "action">>
Thread == App \cup {"loop"}
Nobody == "nobody"
NoToken    == -1
CloudToken == -2                   \* the token of a control message
Idle == [stage |-> "idle", by |-> Nobody]
Request == [method : {"none", "REPORT", "GET", "REPLY", "EVENT"},
            callback : {"none", "user", "sync"}, token : Int]
Message == [type : {"reply", "control", "event_reply"}, of : 0 .. MaxCalls, token : Int,
            code : {"ok", "refused", "bad"}, control : BOOLEAN]

TypeOK ==
    /\ template \in {"none", "constructing", "ready", "reset", "freed"}
    /\ stage \in 1 .. Len(Topics) /\ suback \in 0 .. Len(Topics)
    /\ sync_status \in -1 .. Len(Topics) /\ handlers \subseteq Range(Topics)
    /\ yield_thread_running \in BOOLEAN /\ mutex \in Thread \cup {Nobody}
    /\ reply_list \subseteq Ids /\ event_list \subseteq Ids /\ reply_list \cap event_list = {}
    /\ Cardinality(reply_list) <= MAX_APPENDING_REQUEST_AT_ANY_GIVEN_TIME
    /\ Cardinality(event_list) <= MAX_EVENT_WAIT_REPLY
    /\ ran_out \subseteq Ids /\ request \in [Ids -> Request] /\ token_num \in Nat
    /\ ack \in [Ids -> {"NONE", "ACCEPTED", "REJECTED", "TIMEOUT"}]
    /\ \A m \in up : m.of \in 0 .. MaxCalls /\ down \subseteq Message
    /\ rx = Idle \/ (rx.by \in Thread /\ rx.msg \in Message)
    /\ calls \in 0 .. MaxCalls /\ \A t \in App : cur[t] \in 0 .. calls

Init ==
    /\ template = "none" /\ stage = 1 /\ suback = 0 /\ sync_status = 0
    /\ handlers = {} /\ yield_thread_running = FALSE /\ mutex = Nobody
    /\ reply_list = {} /\ event_list = {} /\ ran_out = {}
    /\ request = [i \in Ids |-> [method |-> "none", callback |-> "none", token |-> NoToken]]
    /\ ack = [i \in Ids |-> "NONE"] /\ told = [i \in Ids |-> <<>>] /\ seen = [i \in Ids |-> {}]
    /\ token_num = 0 /\ sg_template_clientToken = NoToken
    /\ up = {} /\ down = {} /\ rx = Idle
    /\ pc = [t \in App |-> "idle"] /\ cur = [t \in App |-> 0] /\ calls = 0
    /\ result = [i \in Ids |-> "none"]

-----------------------------------------------------------------------------
Goto(t, label) == pc' = [pc EXCEPT ![t] = label] /\ UNCHANGED <<cur, result>>

(* The call of t returns code.                                             *)
Return(t, code) ==
    /\ pc' = [pc EXCEPT ![t] = "idle"] /\ cur' = [cur EXCEPT ![t] = 0]
    /\ result' = [result EXCEPT ![cur[t]] = code]

MutexFree == mutex = Nobody
AllIdle   == \A t \in App : pc[t] = "idle"

(* The callbacks of the SDK store the outcome for the waiting call,        *)
(* _reply_ack_cb and _get_status_reply_ack_cb; a user callback is told.    *)
Stored(i)   == request[i].callback = "sync"
Notify(I, outcome) ==
    /\ ack'  = [i \in Ids |-> IF i \in I /\ Stored(i) THEN outcome ELSE ack[i]]
    /\ told' = [i \in Ids |-> IF i \in I THEN Append(told[i], outcome) ELSE told[i]]

(* Ghost: a reply to call i was handled before its callback.               *)
Noted(msg) == seen' = IF msg.of # 0 /\ told[msg.of] = <<>>
                      THEN [seen EXCEPT ![msg.of] = @ \cup {msg.code}] ELSE seen

-----------------------------------------------------------------------------
(***************************************************************************)
(* IOT_Template_Construct, by some application thread.                     *)
(***************************************************************************)
ConstructBegin(t) ==
    /\ template = "none" /\ pc[t] = "idle"
    /\ template' = "constructing" /\ Goto(t, "subscribe")
    /\ UNCHANGED <<stage, suback, sync_status, handlers, yield_thread_running, mutex,
                   lists, callv, answer, sg_template_clientToken, wire, rx>>

(* subscribe_template_downstream_topic, IOT_Event_Init, IOT_Action_Init:   *)
(* the packet id, here the stage, is positive.                             *)
ConstructSubscribe(t) ==
    /\ pc[t] = "subscribe"
    /\ \/ suback' = stage /\ Goto(t, "set_status")
       \/ "construct_fails" \in Adversity /\ Goto(t, "fail") /\ UNCHANGED suback
    /\ UNCHANGED <<template, stage, sync_status, handlers, yield_thread_running, mutex,
                   lists, callv, answer, sg_template_clientToken, wire, rx>>

(* _template_check_subscribe, first line.                                  *)
ConstructSetStatus(t) ==
    /\ pc[t] = "set_status"
    /\ sync_status' = stage /\ Goto(t, "check_sub")
    /\ UNCHANGED <<template, stage, suback, handlers, yield_thread_running, mutex,
                   lists, callv, answer, sg_template_clientToken, wire, rx>>

(* The MQTT client answers the subscription, inside the IOT_Template_Yield *)
(* of _template_check_subscribe or in the loop of a shared client, and     *)
(* calls _template_mqtt_event_handler.                                     *)
AnsweredWith(granted, status) ==
    /\ suback # 0 /\ (granted \/ "construct_fails" \in Adversity)
    /\ "shared_loop" \in Adversity \/ \E t \in App : pc[t] = "check_sub"
    /\ suback' = 0
    /\ handlers' = IF granted THEN handlers \cup {Topics[suback]} ELSE handlers
    /\ sync_status' = IF sync_status > 0 THEN status ELSE sync_status
    /\ UNCHANGED <<template, stage, yield_thread_running, mutex, lists, callv, answer,
                   sg_template_clientToken, wire, rx, pc, cur, result>>

SubscriptionAnswered(granted) == AnsweredWith(granted, IF granted THEN 0 ELSE -1)

(* The rest of _template_check_subscribe; a failing IOT_Template_Yield     *)
(* ends its loop too.                                                      *)
ConstructCheck(t) ==
    /\ pc[t] = "check_sub"
    /\ \/ /\ sync_status = 0 /\ stage < Len(Topics)
          /\ Goto(t, "subscribe") /\ stage' = stage + 1 /\ UNCHANGED template
       \/ /\ sync_status = 0 /\ stage = Len(Topics)
          /\ Goto(t, "idle") /\ template' = "ready" /\ UNCHANGED stage
       \/ /\ sync_status = -1
          /\ Goto(t, "fail") /\ UNCHANGED <<template, stage>>
    /\ UNCHANGED <<suback, sync_status, handlers, yield_thread_running, mutex,
                   lists, callv, answer, sg_template_clientToken, wire, rx>>

ConstructYieldFails(t) ==
    /\ pc[t] = "check_sub" /\ sync_status = stage /\ "construct_fails" \in Adversity
    /\ Goto(t, "fail")
    /\ UNCHANGED <<life, mutex, lists, callv, answer, sg_template_clientToken, wire, rx>>

(* Label End: IOT_Template_Destroy.  The HAL_Free after it releases the    *)
(* same memory again; what that does to the heap is not modelled.          *)
ConstructFail(t) ==
    /\ pc[t] = "fail"
    /\ template' = "freed" /\ handlers' = {} /\ Goto(t, "idle")
    /\ UNCHANGED <<stage, suback, sync_status, yield_thread_running, mutex,
                   lists, callv, answer, sg_template_clientToken, wire, rx>>

(***************************************************************************)
(* IOT_Template_Start_Yield_Thread, IOT_Template_Stop_Yield_Thread.        *)
(***************************************************************************)
StartYieldThread ==
    /\ template = "ready" /\ ~yield_thread_running /\ AllIdle /\ calls = 0
    /\ yield_thread_running' = TRUE
    /\ UNCHANGED <<template, stage, suback, sync_status, handlers, mutex, lists, callv,
                   answer, sg_template_clientToken, wire, rx, pc, cur, result>>

(* Returns when the loop thread has ended.                                 *)
StopYieldThread ==
    /\ template = "ready" /\ yield_thread_running /\ AllIdle /\ rx = Idle
    /\ yield_thread_running' = FALSE
    /\ UNCHANGED <<template, stage, suback, sync_status, handlers, mutex, lists, callv,
                   answer, sg_template_clientToken, wire, rx, pc, cur, result>>

(***************************************************************************)
(* IOT_Template_Destroy.  qcloud_iot_template_reset unsubscribes the       *)
(* property topic only and frees the lists without taking the mutex; then  *)
(* IOT_MQTT_Destroy stops the loop and forgets every handler, which        *)
(* IOT_Template_Destroy_Except_MQTT leaves out.                            *)
(***************************************************************************)
DestroyReset ==
    /\ template = "ready" /\ AllIdle
    /\ \/ ~yield_thread_running \/ "destroy_while_looping" \in Adversity
       \/ "keep_mqtt" \in Adversity /\ rx = Idle
    /\ template' = "reset" /\ handlers' = handlers \ {"property"}
    /\ reply_list' = {} /\ event_list' = {}
    /\ UNCHANGED <<stage, suback, sync_status, yield_thread_running, mutex, ran_out, callv,
                   answer, sg_template_clientToken, wire, rx, pc, cur, result>>

DestroyFree ==
    /\ template = "reset"
    /\ \/ "keep_mqtt" \in Adversity /\ UNCHANGED <<handlers, yield_thread_running>>
       \/ rx = Idle /\ handlers' = {} /\ yield_thread_running' = FALSE
    /\ template' = "freed"
    /\ UNCHANGED <<stage, suback, sync_status, mutex, lists, callv, answer,
                   sg_template_clientToken, wire, rx, pc, cur, result>>

-----------------------------------------------------------------------------
(***************************************************************************)
(* Requests.  The caller builds the document with the next client token:   *)
(* build_empty_json advances token_num without the mutex, an update that a *)
(* racing one may undo.                                                    *)
(***************************************************************************)
NewCall(t, asks) ==
    /\ calls' = calls + 1
    /\ request' = [request EXCEPT ![calls + 1] = asks]
    /\ cur' = [cur EXCEPT ![t] = calls + 1]

MayCall(t) == template = "ready" /\ pc[t] = "idle" /\ calls < MaxCalls

BuildDocument(t, call) ==
    /\ MayCall(t)
    /\ NewCall(t, [method |-> call[1], callback |-> call[2], token |-> token_num])
    /\ \/ token_num' = token_num + 1
       \/ "racing_tokens" \in Adversity /\ UNCHANGED token_num
    /\ pc' = [pc EXCEPT ![t] = "publish"]
    /\ UNCHANGED <<life, mutex, lists, answer, sg_template_clientToken, wire, rx, result>>

(* IOT_Template_ControlReply: the token of the last control message, no    *)
(* callback.                                                               *)
ControlReply(t) ==
    /\ MayCall(t) /\ sg_template_clientToken # NoToken
    /\ NewCall(t, [method |-> "REPLY", callback |-> "none", token |-> sg_template_clientToken])
    /\ pc' = [pc EXCEPT ![t] = "publish"]
    /\ UNCHANGED <<life, mutex, lists, token_num, answer, sg_template_clientToken, wire, rx, result>>

Sent(i) == [of |-> i, method |-> request[i].method, token |-> request[i].token]

(* send_template_request: published first, then put on reply_list.  A      *)
(* failure before or in IOT_MQTT_Publish ends the call.                    *)
PublishRequest(t) ==
    /\ pc[t] = "publish"
    /\ \/ /\ up' = up \cup {Sent(cur[t])}
          /\ IF request[cur[t]].callback = "none" THEN Return(t, "SUCCESS") ELSE Goto(t, "add")
       \/ Return(t, "FAILURE") /\ UNCHANGED up
    /\ UNCHANGED <<life, mutex, lists, callv, answer, sg_template_clientToken, down, rx>>

AddUnless(t, full) ==
    /\ pc[t] = "add" /\ MutexFree
    /\ IF full
       THEN Return(t, "MAX_APPENDING") /\ UNCHANGED reply_list
       ELSE /\ reply_list' = reply_list \cup {cur[t]}
            /\ IF Stored(cur[t]) THEN Goto(t, "wait") ELSE Return(t, "SUCCESS")
    /\ UNCHANGED <<life, mutex, event_list, ran_out, callv, answer, sg_template_clientToken,
                   wire, rx>>

(* _add_request_to_template_list.                                          *)
AddRequest(t) == AddUnless(t, Cardinality(reply_list) >= MAX_APPENDING_REQUEST_AT_ANY_GIVEN_TIME)

WaitFor(t, outcome) ==
    /\ pc[t] = "wait"
    /\ IF outcome = "NONE" THEN Goto(t, "sweep_reply") ELSE Return(t, outcome)
    /\ UNCHANGED <<life, mutex, lists, callv, answer, sg_template_clientToken, wire, rx>>

Outcome(t) == IF ack[cur[t]] = "ACCEPTED" THEN "SUCCESS" ELSE ack[cur[t]]

(* The loops of IOT_Template_Report_Sync and IOT_Template_GetStatus_sync.  *)
WaitForAck(t) == WaitFor(t, Outcome(t))

(* IOT_Post_Event: _create_event_add_to_list with the next token,          *)
CreateEvent(t, callback) ==
    /\ MayCall(t) /\ MutexFree
    /\ LET asks == [method |-> "EVENT", callback |-> callback, token |-> token_num] IN
       IF Cardinality(event_list) < MAX_EVENT_WAIT_REPLY
       THEN /\ NewCall(t, asks) /\ token_num' = token_num + 1
            /\ event_list' = event_list \cup {calls + 1}
            /\ pc' = [pc EXCEPT ![t] = "post"] /\ UNCHANGED result
       ELSE /\ calls' = calls + 1
            /\ request' = [request EXCEPT ![calls + 1] = [asks EXCEPT !.token = NoToken]]
            /\ result' = [result EXCEPT ![calls + 1] = "FAILURE"]
            /\ UNCHANGED <<cur, token_num, event_list, pc>>
    /\ UNCHANGED <<life, mutex, reply_list, ran_out, answer, sg_template_clientToken, wire, rx>>

(* then the document and IOT_MQTT_Publish; a failure of either leaves the  *)
(* entry on event_list.                                                    *)
PostEvent(t) ==
    /\ pc[t] = "post"
    /\ \/ up' = up \cup {Sent(cur[t])} /\ Return(t, "SUCCESS")
       \/ Return(t, "FAILURE") /\ UNCHANGED up
    /\ UNCHANGED <<life, mutex, lists, callv, answer, sg_template_clientToken, down, rx>>

-----------------------------------------------------------------------------
(***************************************************************************)
(* IOT_Template_Yield: both sweeps, then IOT_MQTT_Yield, which sleeps when *)
(* the loop thread runs.                                                   *)
(***************************************************************************)
Yield(t) ==
    /\ template = "ready" /\ pc[t] = "idle" /\ Goto(t, "sweep_reply")
    /\ UNCHANGED <<life, mutex, lists, callv, answer, sg_template_clientToken, wire, rx>>

SweepRepliesWith(t, notified, removed) ==
    /\ pc[t] = "sweep_reply" /\ MutexFree
    /\ Notify(notified, "TIMEOUT") /\ reply_list' = reply_list \ removed
    /\ Goto(t, "sweep_event")
    /\ UNCHANGED <<life, mutex, event_list, ran_out, callv, seen, sg_template_clientToken,
                   wire, rx>>

Late == reply_list \cap ran_out

SweepReplies_NotRemoved(t) == SweepRepliesWith(t, Late, {})
SweepReplies_Silent(t)     == SweepRepliesWith(t, {}, Late)

(* handle_template_expired_reply.                                          *)
SweepReplies(t) == SweepRepliesWith(t, Late, Late)

SweepEventsOf(t, removed) ==
    /\ pc[t] = "sweep_event" /\ MutexFree
    /\ event_list' = event_list \ removed
    /\ Goto(t, "mqtt_yield")
    /\ UNCHANGED <<life, mutex, reply_list, ran_out, callv, answer, sg_template_clientToken,
                   wire, rx>>

SweepEvents_Never(t) == SweepEventsOf(t, {})

(* handle_template_expired_event: no callback.                             *)
SweepEvents(t) == SweepEventsOf(t, ran_out)

YieldReturn(t) ==
    /\ pc[t] = "mqtt_yield" /\ rx.by # t
    /\ Goto(t, IF cur[t] = 0 THEN "idle" ELSE "wait")
    /\ UNCHANGED <<life, mutex, lists, callv, answer, sg_template_clientToken, wire, rx>>

-----------------------------------------------------------------------------
(***************************************************************************)
(* The receiver.                                                           *)
(***************************************************************************)
TopicOf(msg) == IF msg.type = "event_reply" THEN "event" ELSE "property"

Receives(t) == IF yield_thread_running THEN t = "loop" ELSE t \in App /\ pc[t] = "mqtt_yield"

(* What the pass runs leave out of the receiver's meetings with a call of  *)
(* another thread.                                                         *)
Meets(t, msg) ==
    msg.type = "reply" =>
        \A a \in App \ {t} : cur[a] = msg.of =>
            /\ pc[a] = "add" => "early_reply" \in Adversity
            /\ msg.control /\ Stored(msg.of) => "control_to_waiter" \in Adversity

Receive(t, msg) ==
    /\ rx = Idle /\ Receives(t) /\ TopicOf(msg) \in handlers /\ Meets(t, msg)
    /\ rx' = [stage |-> "start", by |-> t, msg |-> msg]
    /\ down' = down \ {msg}
    /\ UNCHANGED <<life, mutex, lists, callv, answer, sg_template_clientToken, up, pc, cur, result>>

(* _on_template_downstream_topic_handler, a control message.               *)
HandleControl ==
    /\ rx.stage = "start" /\ rx.msg.type = "control" /\ MutexFree
    /\ sg_template_clientToken' = rx.msg.token /\ rx' = Idle
    /\ UNCHANGED <<life, mutex, lists, callv, answer, wire, pc, cur, result>>

(* The same, a reply: _traverse_template_list takes the mutex,             *)
TraverseReplies ==
    /\ rx.stage = "start" /\ rx.msg.type = "reply" /\ MutexFree
    /\ mutex' = rx.by /\ rx' = [rx EXCEPT !.stage = "walk"]
    /\ UNCHANGED <<life, lists, callv, answer, sg_template_clientToken, wire, pc, cur, result>>

SameToken(i) == request[i].token = rx.msg.token

Matching_ReportsOnly == {i \in reply_list : SameToken(i) /\ request[i].method = "REPORT"}

Matching == {i \in reply_list : SameToken(i)}

(* walks to the entries with this token, and for control data writes to    *)
(* the context of the request, whoever set it,                             *)
HandleReply ==
    /\ rx.stage = "walk"
    /\ \E i \in Matching :
           IF rx.msg.control /\ rx.msg.code = "ok"
           THEN /\ sg_template_clientToken' = rx.msg.token
                /\ ack' = [ack EXCEPT ![i] = "ACCEPTED"]
                /\ rx' = [stage |-> "callback", by |-> rx.by, msg |-> rx.msg, node |-> i]
                /\ UNCHANGED <<reply_list, told, seen>>
           ELSE /\ reply_list' = reply_list \ {i}
                /\ IF rx.msg.code = "bad" THEN UNCHANGED <<ack, told>>
                   ELSE Notify({i}, IF rx.msg.code = "ok" THEN "ACCEPTED" ELSE "REJECTED")
                /\ Noted(rx.msg) /\ UNCHANGED <<rx, sg_template_clientToken>>
    /\ UNCHANGED <<life, mutex, event_list, ran_out, callv, wire, pc, cur, result>>

(* after control data calls back, where _get_status_reply_ack_cb reads the *)
(* waiting call's variable and clears the control (once the call has       *)
(* returned, its variable may hold anything),                              *)
HandleReplyCallback ==
    /\ rx.stage = "callback"
    /\ LET gone == result[rx.node] # "none"
       IN  \/ /\ ~Stored(rx.node) \/ ack[rx.node] # "ACCEPTED" \/ gone
              /\ Notify({rx.node}, "ACCEPTED") /\ UNCHANGED up
           \/ /\ Stored(rx.node) /\ (ack[rx.node] = "ACCEPTED" \/ gone)
              /\ up' = up \cup {[of |-> 0, method |-> "CLEAR", token |-> rx.msg.token]}
              /\ told' = [told EXCEPT ![rx.node] = Append(@, "ACCEPTED")] /\ UNCHANGED ack
    /\ reply_list' = reply_list \ {rx.node}
    /\ Noted(rx.msg) /\ rx' = [stage |-> "walk", by |-> rx.by, msg |-> rx.msg]
    /\ UNCHANGED <<life, mutex, event_list, ran_out, callv, sg_template_clientToken, down,
                   pc, cur, result>>

(* and releases the mutex at the end.                                      *)
TraverseEnd ==
    /\ rx.stage = "walk" /\ Matching = {}
    /\ Noted(rx.msg) /\ mutex' = Nobody /\ rx' = Idle
    /\ UNCHANGED <<life, lists, callv, ack, told, sg_template_clientToken, wire, pc, cur, result>>

(* _on_event_reply_callback: an entry without callback stays.              *)
HandleEventReply ==
    LET heard == {i \in event_list : /\ request[i].token = rx.msg.token
                                            /\ request[i].callback = "user"}
    IN  /\ rx.stage = "start" /\ rx.msg.type = "event_reply" /\ MutexFree
        /\ IF rx.msg.code = "bad" THEN UNCHANGED <<event_list, answer>>
           ELSE /\ event_list' = event_list \ heard
                /\ Notify(heard, "ACCEPTED") /\ Noted(rx.msg)
        /\ rx' = Idle
        /\ UNCHANGED <<life, mutex, reply_list, ran_out, callv, sg_template_clientToken, wire,
                       pc, cur, result>>

-----------------------------------------------------------------------------
(***************************************************************************)
(* The cloud and the clock.                                                *)
(***************************************************************************)
ReplyTo(m, code, control) ==
    [type |-> IF m.method = "EVENT" THEN "event_reply" ELSE "reply", of |-> m.of,
     token |-> m.token, code |-> code, control |-> control]

CloudReplies(m, code, control) ==
    /\ template = "ready" /\ m.method \notin {"REPLY", "CLEAR"} /\ (control => m.method = "GET" /\ code = "ok")
    /\ code = "bad" => "bad_reply" \in Adversity
    /\ up' = up \ {m} /\ down' = down \cup {ReplyTo(m, code, control)}
    /\ UNCHANGED <<life, mutex, lists, callv, answer, sg_template_clientToken, rx, pc, cur, result>>

(* One control message in a behaviour.                                     *)
CloudOrders ==
    /\ template = "ready" /\ sg_template_clientToken = NoToken /\ rx = Idle /\ \A m \in down : m.of # 0
    /\ down' = down \cup {[type |-> "control", of |-> 0, token |-> CloudToken, code |-> "ok",
                           control |-> FALSE]}
    /\ UNCHANGED <<life, mutex, lists, callv, answer, sg_template_clientToken, up, rx, pc, cur, result>>

RunOut(i) ==
    /\ i \in reply_list \cup event_list /\ i \notin ran_out
    /\ ran_out' = ran_out \cup {i}
    /\ UNCHANGED <<life, mutex, reply_list, event_list, callv, answer, sg_template_clientToken,
                   wire, rx, pc, cur, result>>

-----------------------------------------------------------------------------
ThreadStep(t) ==
    \/ ConstructSubscribe(t) \/ ConstructSetStatus(t) \/ ConstructCheck(t) \/ ConstructFail(t)
    \/ PublishRequest(t) \/ AddRequest(t) \/ WaitForAck(t)
    \/ PostEvent(t)
    \/ SweepReplies(t) \/ SweepEvents(t) \/ YieldReturn(t)

HandlerStep ==
    \/ HandleControl \/ TraverseReplies \/ HandleReply \/ HandleReplyCallback \/ TraverseEnd
    \/ HandleEventReply

Cloud ==
    \/ \E m \in up, code \in {"ok", "refused", "bad"}, control \in BOOLEAN :
           CloudReplies(m, code, control)
    \/ CloudOrders

Next ==
    \/ \E t \in App :
           \/ ThreadStep(t) \/ ConstructBegin(t) \/ ConstructYieldFails(t) \/ ControlReply(t) \/ Yield(t)
           \/ \E call \in Calls : BuildDocument(t, call)
           \/ \E callback \in {"none", "user"} : CreateEvent(t, callback)
    \/ \E granted \in BOOLEAN : SubscriptionAnswered(granted)
    \/ StartYieldThread \/ StopYieldThread \/ DestroyReset \/ DestroyFree
    \/ \E t \in Thread : \E msg \in down : Receive(t, msg)
    \/ HandlerStep \/ Cloud
    \/ \E i \in Ids : RunOut(i)

Spec == Init /\ [][Next]_vars

(***************************************************************************)
(* Fairness: threads and the handler run; timers run out; the MQTT client  *)
(* answers every subscription (MqttSubscribe, SubscribeAnswered); the      *)
(* application keeps calling IOT_Template_Yield, as the main loop of every *)
(* sample does with or without the loop thread.  The cloud owes nothing.   *)
(***************************************************************************)
Fairness ==
    /\ \A t \in App : WF_vars(ThreadStep(t)) /\ WF_vars(Yield(t))
    /\ WF_vars(HandlerStep)
    /\ WF_vars(\E granted \in BOOLEAN : SubscriptionAnswered(granted))
    /\ \A i \in Ids : WF_vars(RunOut(i))

FairSpec == Spec /\ Fairness

-----------------------------------------------------------------------------
(* What the application is told is true.  ACK_TIMEOUT: no reply to the     *)
(* request has been handled (send_template_request publishes before it     *)
(* lists the request).  Success or refusal of a waiting call: what the     *)
(* cloud answered to this very request, although replies are matched by a  *)
(* token made from a counter.  Silence: no reply to an event that has a    *)
(* callback was handled in time (the event is listed before it is          *)
(* published).                                                             *)
OutcomesTrue ==
    \A i \in Ids :
        /\ "TIMEOUT" \in Range(told[i]) => seen[i] = {}
        /\ Stored(i) /\ result[i] = "SUCCESS" =>
              "ok" \in seen[i] \/ (rx.stage = "callback" /\ rx.node = i)
        /\ Stored(i) /\ result[i] = "REJECTED" => "refused" \in seen[i]
        /\ request[i].method = "EVENT" /\ request[i].callback = "user" /\ seen[i] # {}
              => told[i] # <<>> \/ i \in ran_out

(* No callback is called twice, and none for a request whose call          *)
(* returned an error (reply_list full, publish failed).                    *)
OneAnswer ==
    \A i \in Ids :
        /\ Len(told[i]) <= 1
        /\ request[i].method # "EVENT" /\ result[i] \in {"FAILURE", "MAX_APPENDING"}
               => told[i] = <<>>

(* No handler of a downstream topic runs for a template whose lists or     *)
(* memory are freed (qcloud_iot_template_reset takes no lock), and the     *)
(* callback of a waiting call works on the local variable of a call that   *)
(* has not returned.                                                       *)
NoUseAfterFree ==
    /\ template \in {"reset", "freed"} => rx = Idle
    /\ rx.stage = "callback" /\ Stored(rx.node) => result[rx.node] = "none"

(* IOT_Template_Construct returns (_template_check_subscribe waits for     *)
(* events of the MQTT client to change sync_status), and so does a call    *)
(* that waits for its reply (IOT_Template_Report_Sync,                     *)
(* IOT_Template_GetStatus_sync), whatever is lost or refused.              *)
CallsReturn ==
    /\ template = "constructing" ~> template # "constructing"
    /\ \A t \in App : pc[t] = "wait" ~> pc[t] = "idle"

(* An accepted request is told its outcome, unless the template is         *)
(* destroyed first, and an event does not occupy event_list for ever.      *)
RequestsAnswered ==
    \A i \in Ids :
        i \in reply_list \cup event_list ~>
            /\ i \notin reply_list \cup event_list
            /\ request[i].method = "EVENT" \/ told[i] # <<>> \/ template # "ready"
=============================================================================
