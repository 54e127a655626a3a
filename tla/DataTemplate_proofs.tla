------------------------ MODULE DataTemplate_proofs ------------------------
(***************************************************************************)
(* The data template client, for any number of application threads, calls  *)
(* and places on its lists, and whatever the cloud answers, loses or       *)
(* delays.                                                                 *)
(*                                                                         *)
(* BaseInv needs no exclusion of a circumstance.  The rest of the          *)
(* invariants says what the client tokens, the life of the template and    *)
(* the order of publish and listing add when the circumstances named in    *)
(* the theorems do not occur.                                              *)
(***************************************************************************)
EXTENDS DataTemplate, SequenceTheorems, TLAPS

Code     == {"ok", "refused", "bad"}
Ack      == {"NONE", "ACCEPTED", "REJECTED", "TIMEOUT"}
Result   == {"none", "SUCCESS", "FAILURE", "MAX_APPENDING", "REJECTED", "TIMEOUT"}
BuildPC  == {"subscribe", "set_status", "check_sub", "fail"}
AskPC    == {"publish", "add"}                     \* not listed yet
AwaitPC  == {"sweep_reply", "sweep_event", "mqtt_yield"}
CallPC   == {"publish", "add", "wait", "post"} \cup AwaitPC
PC       == {"idle"} \cup BuildPC \cup CallPC
Handling ==
    {Idle} \cup [stage : {"start", "walk"}, by : Thread, msg : Message]
           \cup [stage : {"callback"}, by : Thread, msg : Message, node : Ids]
UpMessage == [of : 0 .. MaxCalls, method : {"REPORT", "GET", "REPLY", "EVENT", "CLEAR"},
              token : Int]

(* The types the proofs use.                                               *)
TypeInv ==
    /\ template \in {"none", "constructing", "ready", "reset", "freed"}
    /\ yield_thread_running \in BOOLEAN /\ mutex \in Thread \cup {Nobody}
    /\ reply_list \subseteq Ids /\ event_list \subseteq Ids /\ ran_out \subseteq Ids
    /\ request \in [Ids -> Request] /\ token_num \in Nat /\ sg_template_clientToken \in Int
    /\ ack \in [Ids -> Ack] /\ told \in [Ids -> Seq(Ack)] /\ seen \in [Ids -> SUBSET Code]
    /\ up \subseteq UpMessage /\ down \subseteq Message /\ rx \in Handling
    /\ pc \in [App -> PC] /\ cur \in [App -> 0 .. MaxCalls] /\ calls \in 0 .. MaxCalls
    /\ result \in [Ids -> Result]

(* Who runs: construction is alone, calls need a ready template.           *)
LifeInv ==
    \A t \in App :
        /\ pc[t] \in BuildPC => template = "constructing" /\ \A u \in App \ {t} : pc[u] = "idle"
        /\ pc[t] \in CallPC => template = "ready"

(* The receiver and the mutex.                                             *)
RxInv ==
    /\ rx # Idle => \/ rx.by = "loop" /\ yield_thread_running
                    \/ rx.by \in App /\ pc[rx.by] = "mqtt_yield"
    /\ mutex = IF rx.stage \in {"walk", "callback"} THEN rx.by ELSE Nobody
    /\ rx.stage \in {"walk", "callback"} => rx.msg.type = "reply"

(* A call in progress has not returned and is nobody else's.               *)
CallOf(t) ==
    /\ cur[t] # 0 => cur[t] <= calls /\ result[cur[t]] = "none" /\ pc[t] \in CallPC
    /\ pc[t] \in {"publish", "add", "wait", "post"} => cur[t] # 0
    /\ pc[t] = "publish" => request[cur[t]].method \in {"REPORT", "GET", "REPLY"}
    /\ pc[t] = "publish" /\ request[cur[t]].callback # "none" => request[cur[t]].method # "REPLY"
    /\ pc[t] = "add" => request[cur[t]].method \in {"REPORT", "GET"}
    /\ pc[t] = "post" => request[cur[t]].method = "EVENT"
    /\ pc[t] \in {"wait"} \cup AwaitPC /\ cur[t] # 0 => Stored(cur[t])

CallInv ==
    /\ \A t \in App : CallOf(t)
    /\ \A t, u \in App : cur[t] = cur[u] /\ cur[t] # 0 => t = u

(* A call that was not made leaves no trace.                               *)
FreshInv ==
    \A i \in Ids : i > calls =>
        /\ i \notin reply_list \cup event_list /\ told[i] = <<>>
        /\ result[i] = "none" /\ ack[i] = "NONE"
        /\ request[i].method = "none" /\ request[i].callback = "none"

(* Call i is to be answered: nothing told, no error returned, listed.      *)
Answerable(i) ==
    /\ told[i] = <<>> /\ result[i] \notin {"FAILURE", "MAX_APPENDING"}
    /\ request[i].method \in {"REPORT", "GET"}
    /\ \A t \in App : cur[t] = i => pc[t] \notin AskPC

ListInv ==
    /\ \A i \in reply_list : Answerable(i)
    /\ \A i \in event_list : request[i].method = "EVENT" /\ told[i] = <<>>
    /\ \A t \in App : pc[t] \in AskPC => told[cur[t]] = <<>>
    /\ rx.stage = "callback" => Answerable(rx.node)
    /\ \A i \in Ids : told[i] # <<>> =>
          /\ Len(told[i]) = 1
          /\ request[i].method = "EVENT" \/ result[i] \notin {"FAILURE", "MAX_APPENDING"}

BaseInv == TypeInv /\ LifeInv /\ RxInv /\ CallInv /\ FreshInv /\ ListInv

-----------------------------------------------------------------------------
(* The shapes of rx.                                                       *)
LEMMA RxShape ==
  ASSUME rx \in Handling
  PROVE  /\ rx.stage \in {"idle", "start", "walk", "callback"}
         /\ rx.stage = "idle" <=> rx = Idle
         /\ rx # Idle => rx.by \in Thread /\ rx.msg \in Message
         /\ rx.stage = "start" => rx = [stage |-> "start", by |-> rx.by, msg |-> rx.msg]
         /\ rx.stage = "walk" => rx = [stage |-> "walk", by |-> rx.by, msg |-> rx.msg]
         /\ rx.stage = "callback" => /\ rx.node \in Ids
                                     /\ rx = [stage |-> "callback", by |-> rx.by, msg |-> rx.msg,
                                              node |-> rx.node]
  BY DEF Handling, Idle

(***************************************************************************)
(* What the building blocks of the actions do to the types.                *)
(***************************************************************************)
LEMMA GotoType ==
  ASSUME TypeInv, NEW t \in App, NEW label \in PC, Goto(t, label)
  PROVE  pc' \in [App -> PC] /\ cur' \in [App -> 0 .. MaxCalls] /\ result' \in [Ids -> Result]
  BY DEF TypeInv, Goto

LEMMA ReturnType ==
  ASSUME TypeInv, NEW t \in App, NEW code \in Result, Return(t, code)
  PROVE  pc' \in [App -> PC] /\ cur' \in [App -> 0 .. MaxCalls] /\ result' \in [Ids -> Result]
<1>1. "idle" \in PC /\ 0 \in 0 .. MaxCalls
  BY TemplateConstants DEF PC
<1> QED
  BY <1>1 DEF TypeInv, Return

LEMMA NewCallType ==
  ASSUME TypeInv, NEW t \in App, NEW asks \in Request, NewCall(t, asks), calls < MaxCalls
  PROVE  /\ calls' \in 0 .. MaxCalls /\ request' \in [Ids -> Request]
         /\ cur' \in [App -> 0 .. MaxCalls]
  BY TemplateConstants DEF TypeInv, NewCall, Ids

LEMMA NotifyType ==
  ASSUME TypeInv, NEW I, NEW outcome \in Ack, Notify(I, outcome)
  PROVE  ack' \in [Ids -> Ack] /\ told' \in [Ids -> Seq(Ack)]
  BY DEF TypeInv, Notify

LEMMA NotedType ==
  ASSUME TypeInv, NEW msg \in Message, Noted(msg)
  PROVE  seen' \in [Ids -> SUBSET Code]
<1>1. msg.code \in Code /\ msg.of \in 0 .. MaxCalls
  BY DEF Message, Code
<1> QED
  BY <1>1 DEF TypeInv, Noted

LEMMA SentType ==
  ASSUME TypeInv, NEW i \in Ids, request[i].method # "none"
  PROVE  Sent(i) \in UpMessage
<1>1. request[i] \in Request /\ i \in 0 .. MaxCalls
  BY TemplateConstants DEF TypeInv, Ids
<1> QED
  BY <1>1 DEF Sent, UpMessage, Request

LEMMA LabelType ==
  /\ {"idle", "subscribe", "set_status", "check_sub", "fail", "publish", "add", "wait", "post",
      "sweep_reply", "sweep_event", "mqtt_yield"} \subseteq PC
  /\ {"NONE", "ACCEPTED", "REJECTED", "TIMEOUT"} \subseteq Ack
  /\ {"none", "SUCCESS", "FAILURE", "MAX_APPENDING", "REJECTED", "TIMEOUT"} \subseteq Result
  BY DEF PC, BuildPC, CallPC, AwaitPC, Ack, Result

(***************************************************************************)
(* BaseInv, part by part.                                                  *)
(***************************************************************************)
LEMMA TypeStep ==
  ASSUME TypeInv, RxInv, CallInv, [Next]_vars
  PROVE  TypeInv'
<1> USE LabelType DEF life, lists, wire, callv, answer
<1>1. ASSUME NEW t \in App,
             \/ ConstructBegin(t) \/ ConstructSubscribe(t) \/ ConstructSetStatus(t)
             \/ ConstructCheck(t) \/ ConstructYieldFails(t) \/ ConstructFail(t)
      PROVE  TypeInv'
  <2>1. PICK label \in PC : Goto(t, label)
    BY <1>1 DEF ConstructBegin, ConstructSubscribe, ConstructSetStatus, ConstructCheck,
                ConstructYieldFails, ConstructFail
  <2>2. pc' \in [App -> PC] /\ cur' \in [App -> 0 .. MaxCalls] /\ result' \in [Ids -> Result]
    BY <2>1, GotoType
  <2> QED
    BY <1>1, <2>2 DEF ConstructBegin, ConstructSubscribe, ConstructSetStatus, ConstructCheck,
                      ConstructYieldFails, ConstructFail, TypeInv
<1>2. ASSUME NEW granted \in BOOLEAN, SubscriptionAnswered(granted) PROVE TypeInv'
  BY <1>2 DEF SubscriptionAnswered, AnsweredWith, TypeInv
<1>3. CASE StartYieldThread \/ StopYieldThread \/ DestroyReset \/ DestroyFree
  BY <1>3 DEF StartYieldThread, StopYieldThread, DestroyReset, DestroyFree, TypeInv
<1>4. ASSUME NEW t \in App, NEW call \in Calls, BuildDocument(t, call) PROVE TypeInv'
  <2> DEFINE asks == [method |-> call[1], callback |-> call[2], token |-> token_num]
  <2>1. asks \in Request
    BY TemplateConstants DEF TypeInv, Request
  <2>2. NewCall(t, asks) /\ calls < MaxCalls
    BY <1>4 DEF BuildDocument, MayCall
  <2>3. /\ calls' \in 0 .. MaxCalls /\ request' \in [Ids -> Request]
        /\ cur' \in [App -> 0 .. MaxCalls]
    BY <2>1, <2>2, NewCallType
  <2>4. token_num' \in Nat /\ pc' \in [App -> PC]
    BY <1>4 DEF BuildDocument, TypeInv
  <2> QED
    BY <1>4, <2>3, <2>4 DEF BuildDocument, TypeInv
<1>5. ASSUME NEW t \in App, ControlReply(t) PROVE TypeInv'
  <2> DEFINE asks == [method |-> "REPLY", callback |-> "none", token |-> sg_template_clientToken]
  <2>1. asks \in Request
    BY DEF TypeInv, Request
  <2>2. NewCall(t, asks) /\ calls < MaxCalls
    BY <1>5 DEF ControlReply, MayCall
  <2>3. /\ calls' \in 0 .. MaxCalls /\ request' \in [Ids -> Request]
        /\ cur' \in [App -> 0 .. MaxCalls]
    BY <2>1, <2>2, NewCallType
  <2>4. pc' \in [App -> PC]
    BY <1>5 DEF ControlReply, TypeInv
  <2> QED
    BY <1>5, <2>3, <2>4 DEF ControlReply, TypeInv
<1>6. ASSUME NEW t \in App, NEW callback \in {"none", "user"}, CreateEvent(t, callback)
      PROVE  TypeInv'
  <2> DEFINE asks == [method |-> "EVENT", callback |-> callback, token |-> token_num]
  <2>1. asks \in Request /\ [asks EXCEPT !.token = NoToken] \in Request
    BY DEF TypeInv, Request, NoToken
  <2>2. calls < MaxCalls /\ calls' = calls + 1 /\ calls + 1 \in Ids
    BY <1>6, TemplateConstants DEF CreateEvent, MayCall, NewCall, TypeInv, Ids
  <2>3. CASE Cardinality(event_list) < MAX_EVENT_WAIT_REPLY
    <3>1. NewCall(t, asks)
      BY <1>6, <2>3 DEF CreateEvent
    <3>2. /\ calls' \in 0 .. MaxCalls /\ request' \in [Ids -> Request]
          /\ cur' \in [App -> 0 .. MaxCalls]
      BY <2>1, <2>2, <3>1, NewCallType
    <3>3. /\ token_num' = token_num + 1 /\ event_list' = event_list \cup {calls + 1}
          /\ pc' = [pc EXCEPT ![t] = "post"] /\ UNCHANGED result
      BY <1>6, <2>3 DEF CreateEvent
    <3>4. token_num' \in Nat
      BY <3>3 DEF TypeInv
    <3>5. pc' \in [App -> PC] /\ event_list' \subseteq Ids
      BY <2>2, <3>3 DEF TypeInv
    <3> QED
      BY <1>6, <3>2, <3>3, <3>4, <3>5 DEF CreateEvent, TypeInv
  <2>4. CASE ~(Cardinality(event_list) < MAX_EVENT_WAIT_REPLY)
    <3>1. /\ request' = [request EXCEPT ![calls + 1] = [asks EXCEPT !.token = NoToken]]
          /\ result' = [result EXCEPT ![calls + 1] = "FAILURE"]
          /\ UNCHANGED <<cur, token_num, event_list, pc>>
      BY <1>6, <2>4 DEF CreateEvent
    <3>2. request' \in [Ids -> Request] /\ result' \in [Ids -> Result]
      BY <2>1, <2>2, <3>1 DEF TypeInv
    <3>3. calls' \in 0 .. MaxCalls
      BY <2>2, TemplateConstants DEF Ids, TypeInv
    <3> QED
      BY <1>6, <3>1, <3>2, <3>3 DEF CreateEvent, TypeInv
  <2> QED
    BY <2>3, <2>4
<1>7. ASSUME NEW t \in App, PublishRequest(t) \/ PostEvent(t) PROVE TypeInv'
  <2>0. pc[t] \in {"publish", "post"}
    BY <1>7 DEF PublishRequest, PostEvent
  <2>1. cur[t] # 0 /\ request[cur[t]].method # "none" /\ cur[t] \in 0 .. MaxCalls
    BY <2>0 DEF CallInv, CallOf, TypeInv
  <2>a. cur[t] \in Ids
    BY <2>1, TemplateConstants DEF Ids
  <2>2. up' \subseteq UpMessage
    BY <1>7, <2>1, <2>a, SentType DEF PublishRequest, PostEvent, TypeInv
  <2>3. pc' \in [App -> PC] /\ cur' \in [App -> 0 .. MaxCalls] /\ result' \in [Ids -> Result]
    BY <1>7, GotoType, ReturnType DEF PublishRequest, PostEvent
  <2> QED
    BY <1>7, <2>2, <2>3 DEF PublishRequest, PostEvent, TypeInv
<1>8. ASSUME NEW t \in App, AddRequest(t) PROVE TypeInv'
  <2>1. pc' \in [App -> PC] /\ cur' \in [App -> 0 .. MaxCalls] /\ result' \in [Ids -> Result]
    BY <1>8, GotoType, ReturnType DEF AddRequest, AddUnless
  <2>2. cur[t] \in Ids
    BY <1>8, TemplateConstants DEF AddRequest, AddUnless, CallInv, CallOf, TypeInv, Ids
  <2> QED
    BY <1>8, <2>1, <2>2 DEF AddRequest, AddUnless, TypeInv
<1>9. ASSUME NEW t \in App, WaitForAck(t) PROVE TypeInv'
  <2>1. cur[t] \in Ids
    BY <1>9, TemplateConstants DEF WaitForAck, WaitFor, CallInv, CallOf, TypeInv, Ids
  <2>2. Outcome(t) # "NONE" => Outcome(t) \in Result
    BY <2>1 DEF Outcome, TypeInv, Ack
  <2>3. pc' \in [App -> PC] /\ cur' \in [App -> 0 .. MaxCalls] /\ result' \in [Ids -> Result]
    BY <1>9, <2>2, GotoType, ReturnType DEF WaitForAck, WaitFor
  <2> QED
    BY <1>9, <2>3 DEF WaitForAck, WaitFor, TypeInv
<1>10. ASSUME NEW t \in App, Yield(t) \/ SweepEvents(t) \/ YieldReturn(t) PROVE TypeInv'
  <2>1. PICK label \in PC : Goto(t, label)
    BY <1>10 DEF Yield, SweepEvents, SweepEventsOf, YieldReturn
  <2>2. pc' \in [App -> PC] /\ cur' \in [App -> 0 .. MaxCalls] /\ result' \in [Ids -> Result]
    BY <2>1, GotoType
  <2> QED
    BY <1>10, <2>2 DEF Yield, SweepEvents, SweepEventsOf, YieldReturn, TypeInv
<1>11. ASSUME NEW t \in App, SweepReplies(t) PROVE TypeInv'
  <2>1. pc' \in [App -> PC] /\ cur' \in [App -> 0 .. MaxCalls] /\ result' \in [Ids -> Result]
    BY <1>11, GotoType DEF SweepReplies, SweepRepliesWith
  <2>2. ack' \in [Ids -> Ack] /\ told' \in [Ids -> Seq(Ack)]
    BY <1>11, NotifyType DEF SweepReplies, SweepRepliesWith
  <2> QED
    BY <1>11, <2>1, <2>2 DEF SweepReplies, SweepRepliesWith, TypeInv
<1>12. ASSUME NEW t \in Thread, NEW msg \in down, Receive(t, msg) PROVE TypeInv'
  <2>1. rx' \in Handling
    BY <1>12 DEF Receive, Handling, TypeInv
  <2> QED
    BY <1>12, <2>1 DEF Receive, TypeInv
<1>13. CASE HandleControl
  <2>1. rx.msg \in Message
    BY <1>13, RxShape DEF HandleControl, Idle, TypeInv
  <2>2. rx.msg.token \in Int /\ rx' \in Handling
    BY <1>13, <2>1 DEF HandleControl, Handling, Message
  <2> QED
    BY <1>13, <2>2 DEF HandleControl, TypeInv
<1>14. CASE TraverseReplies
  <2>1. rx.by \in Thread /\ rx.msg \in Message /\ rx = [stage |-> "start", by |-> rx.by, msg |-> rx.msg]
    BY <1>14, RxShape DEF TraverseReplies, Idle, TypeInv
  <2>2. rx' = [stage |-> "walk", by |-> rx.by, msg |-> rx.msg]
    BY <1>14, <2>1 DEF TraverseReplies
  <2>3. rx' \in Handling
    BY <2>1, <2>2 DEF Handling
  <2> QED
    BY <1>14, <2>1, <2>3 DEF TraverseReplies, TypeInv
<1>15. CASE HandleReply
  <2>1. rx.by \in Thread /\ rx.msg \in Message /\ rx.msg.token \in Int
    BY <1>15, RxShape DEF HandleReply, Idle, Message, TypeInv
  <2>2. PICK i \in Matching :
           IF rx.msg.control /\ rx.msg.code = "ok"
           THEN /\ sg_template_clientToken' = rx.msg.token
                /\ ack' = [ack EXCEPT ![i] = "ACCEPTED"]
                /\ rx' = [stage |-> "callback", by |-> rx.by, msg |-> rx.msg, node |-> i]
                /\ UNCHANGED <<reply_list, told, seen>>
           ELSE /\ reply_list' = reply_list \ {i}
                /\ IF rx.msg.code = "bad" THEN UNCHANGED <<ack, told>>
                   ELSE Notify({i}, IF rx.msg.code = "ok" THEN "ACCEPTED" ELSE "REJECTED")
                /\ Noted(rx.msg) /\ UNCHANGED <<rx, sg_template_clientToken>>
    BY <1>15 DEF HandleReply
  <2>3. i \in Ids
    BY DEF Matching, TypeInv
  <2>4. CASE rx.msg.control /\ rx.msg.code = "ok"
    <3>1. rx' \in Handling
      BY <2>1, <2>2, <2>3, <2>4 DEF Handling
    <3>2. ack' \in [Ids -> Ack]
      BY <2>2, <2>3, <2>4 DEF TypeInv
    <3> QED
      BY <1>15, <2>1, <2>2, <2>4, <3>1, <3>2 DEF HandleReply, TypeInv
  <2>5. CASE ~(rx.msg.control /\ rx.msg.code = "ok")
    <3>1. ack' \in [Ids -> Ack] /\ told' \in [Ids -> Seq(Ack)]
      BY <2>2, <2>5, NotifyType DEF TypeInv
    <3>2. seen' \in [Ids -> SUBSET Code]
      BY <2>1, <2>2, <2>5, NotedType
    <3> QED
      BY <1>15, <2>2, <2>5, <3>1, <3>2 DEF HandleReply, TypeInv
  <2> QED
    BY <2>4, <2>5
<1>16. CASE HandleReplyCallback
  <2>1. rx.by \in Thread /\ rx.msg \in Message /\ rx.msg.token \in Int /\ rx.node \in Ids
    BY <1>16, RxShape DEF HandleReplyCallback, Idle, Message, TypeInv
  <2>2. rx' \in Handling
    BY <1>16, <2>1 DEF HandleReplyCallback, Handling
  <2>3. seen' \in [Ids -> SUBSET Code]
    BY <1>16, <2>1, NotedType DEF HandleReplyCallback
  <2>4. CASE Notify({rx.node}, "ACCEPTED") /\ UNCHANGED up
    <3>1. ack' \in [Ids -> Ack] /\ told' \in [Ids -> Seq(Ack)] /\ up' = up
      BY <2>1, <2>4, NotifyType DEF TypeInv
    <3> QED
      BY <1>16, <2>2, <2>3, <3>1 DEF HandleReplyCallback, TypeInv
  <2>5. CASE /\ up' = up \cup {[of |-> 0, method |-> "CLEAR", token |-> rx.msg.token]}
             /\ told' = [told EXCEPT ![rx.node] = Append(@, "ACCEPTED")] /\ UNCHANGED ack
    <3>1. /\ up' = up \cup {[of |-> 0, method |-> "CLEAR", token |-> rx.msg.token]}
          /\ told' = [told EXCEPT ![rx.node] = Append(@, "ACCEPTED")] /\ ack' = ack
      BY <2>5
    <3>2. up' \subseteq UpMessage
      BY <2>1, <3>1, TemplateConstants DEF UpMessage, TypeInv
    <3>3. told' \in [Ids -> Seq(Ack)]
      BY <2>1, <3>1 DEF TypeInv
    <3> QED
      BY <1>16, <2>2, <2>3, <3>1, <3>2, <3>3 DEF HandleReplyCallback, TypeInv
  <2> QED
    BY <1>16, <2>4, <2>5 DEF HandleReplyCallback
<1>17. CASE TraverseEnd
  <2>1. rx.msg \in Message
    BY <1>17, RxShape DEF TraverseEnd, Idle, TypeInv
  <2>2. seen' \in [Ids -> SUBSET Code] /\ rx' \in Handling
    BY <1>17, <2>1, NotedType DEF TraverseEnd, Handling
  <2> QED
    BY <1>17, <2>2 DEF TraverseEnd, TypeInv
<1>18. CASE HandleEventReply
  <2>1. rx.msg \in Message
    BY <1>18, RxShape DEF HandleEventReply, Idle, TypeInv
  <2>2. seen' \in [Ids -> SUBSET Code] /\ ack' \in [Ids -> Ack] /\ told' \in [Ids -> Seq(Ack)]
    BY <1>18, <2>1, NotedType, NotifyType DEF HandleEventReply, TypeInv
  <2>3. rx' \in Handling
    BY <1>18 DEF HandleEventReply, Handling
  <2> QED
    BY <1>18, <2>2, <2>3 DEF HandleEventReply, TypeInv
<1>19. ASSUME NEW m \in up, NEW code \in Code, NEW control \in BOOLEAN,
              CloudReplies(m, code, control)
       PROVE  TypeInv'
  <2>1. ReplyTo(m, code, control) \in Message
    BY DEF ReplyTo, Message, UpMessage, TypeInv, Code
  <2> QED
    BY <1>19, <2>1 DEF CloudReplies, TypeInv
<1>20. CASE CloudOrders
  <2>0. [type |-> "control", of |-> 0, token |-> CloudToken, code |-> "ok", control |-> FALSE] \in Message
    BY TemplateConstants DEF Message, CloudToken
  <2>1. down' \subseteq Message
    BY <1>20, <2>0 DEF CloudOrders, TypeInv
  <2> QED
    BY <1>20, <2>1 DEF CloudOrders, TypeInv
<1>21. ASSUME NEW i \in Ids, RunOut(i) PROVE TypeInv'
  BY <1>21 DEF RunOut, TypeInv
<1>22. CASE UNCHANGED vars
  BY <1>22 DEF vars, TypeInv
<1> QED
  BY <1>1, <1>2, <1>3, <1>4, <1>5, <1>6, <1>7, <1>8, <1>9, <1>10, <1>11, <1>12, <1>13, <1>14,
     <1>15, <1>16, <1>17, <1>18, <1>19, <1>20, <1>21, <1>22
     DEF Next, ThreadStep, HandlerStep, Cloud, Code

(***************************************************************************)
(* The steps of Next by who takes them.                                    *)
(***************************************************************************)
ConstructStep(t) ==
    \/ ConstructBegin(t) \/ ConstructSubscribe(t) \/ ConstructSetStatus(t)
    \/ ConstructCheck(t) \/ ConstructYieldFails(t) \/ ConstructFail(t)

SubscriptionStep == \E granted \in BOOLEAN : SubscriptionAnswered(granted)

RequestStep(t) ==
    \/ \E call \in Calls : BuildDocument(t, call)
    \/ \E callback \in {"none", "user"} : CreateEvent(t, callback)
    \/ ControlReply(t) \/ PublishRequest(t) \/ AddRequest(t) \/ WaitForAck(t) \/ PostEvent(t)
    \/ Yield(t) \/ SweepReplies(t) \/ SweepEvents(t) \/ YieldReturn(t)

ReceiveStep == (\E t \in Thread : \E msg \in down : Receive(t, msg)) \/ HandlerStep

CloudStep == Cloud \/ \E i \in Ids : RunOut(i)

LEMMA NextIs ==
  Next => \/ \E t \in App : ConstructStep(t) \/ RequestStep(t)
          \/ SubscriptionStep \/ StartYieldThread \/ StopYieldThread
          \/ DestroyReset \/ DestroyFree \/ ReceiveStep \/ CloudStep
  BY DEF Next, ThreadStep, ConstructStep, SubscriptionStep, RequestStep, ReceiveStep, CloudStep

(* What the receiver and the cloud leave alone.                            *)
LEMMA ReceiveLeaves ==
  ReceiveStep => UNCHANGED <<template, yield_thread_running, ran_out, callv, pc, cur, result>>
  BY DEF ReceiveStep, HandlerStep, Receive, HandleControl, TraverseReplies, HandleReply,
         HandleReplyCallback, TraverseEnd, HandleEventReply, lists, life

LEMMA CloudLeaves ==
  CloudStep => UNCHANGED <<template, yield_thread_running, mutex, reply_list, event_list, callv,
                           answer, sg_template_clientToken, rx, pc, cur, result>>
  BY DEF CloudStep, Cloud, CloudReplies, CloudOrders, RunOut, lists, life, wire

(* A thread moves among the labels of a call, in a ready template.         *)
LEMMA RequestMoves ==
  ASSUME TypeInv, LifeInv, NEW t \in App, RequestStep(t)
  PROVE  /\ template = "ready" /\ UNCHANGED <<template, yield_thread_running, rx, mutex>>
         /\ \E label \in CallPC \cup {"idle"} : pc' = [pc EXCEPT ![t] = label]
         /\ pc[t] # "mqtt_yield" \/ rx.by # t
<1> USE DEF life, LifeInv, CallPC, AwaitPC
<1>0. /\ pc \in [App -> PC]
      /\ pc = [pc EXCEPT ![t] = pc[t]]
  BY DEF TypeInv
<1>1. ASSUME NEW call \in Calls, BuildDocument(t, call)
      PROVE  /\ template = "ready" /\ UNCHANGED <<template, yield_thread_running, rx, mutex>>
             /\ pc[t] = "idle" /\ pc' = [pc EXCEPT ![t] = "publish"]
  BY <1>1 DEF BuildDocument, MayCall
<1>2. ASSUME ControlReply(t)
      PROVE  /\ template = "ready" /\ UNCHANGED <<template, yield_thread_running, rx, mutex>>
             /\ pc[t] = "idle" /\ pc' = [pc EXCEPT ![t] = "publish"]
  BY <1>2 DEF ControlReply, MayCall
<1>3. ASSUME NEW callback \in {"none", "user"}, CreateEvent(t, callback)
      PROVE  /\ template = "ready" /\ UNCHANGED <<template, yield_thread_running, rx, mutex>>
             /\ pc[t] = "idle" /\ (pc' = [pc EXCEPT ![t] = "post"] \/ pc' = pc)
  BY <1>3 DEF CreateEvent, MayCall
<1>4. CASE PublishRequest(t) \/ AddRequest(t) \/ WaitForAck(t) \/ PostEvent(t)
  BY <1>4 DEF PublishRequest, AddRequest, AddUnless, WaitForAck, WaitFor, PostEvent, Return, Goto
<1>5. CASE Yield(t) \/ SweepReplies(t) \/ SweepEvents(t) \/ YieldReturn(t)
  BY <1>5 DEF Yield, SweepReplies, SweepRepliesWith, SweepEvents, SweepEventsOf, YieldReturn, Goto
<1> QED
  BY <1>0, <1>1, <1>2, <1>3, <1>4, <1>5 DEF RequestStep

(* What a thread that constructs the template leaves alone.                *)
LEMMA ConstructLeaves ==
  ASSUME NEW t \in App, ConstructStep(t)
  PROVE  /\ UNCHANGED <<yield_thread_running, mutex, lists, callv, answer,
                        sg_template_clientToken, wire, rx, cur, result>>
         /\ \E label \in BuildPC \cup {"idle"} : pc' = [pc EXCEPT ![t] = label]
         /\ (template = "none" /\ pc[t] = "idle") \/ pc[t] \in BuildPC
  BY DEF ConstructStep, ConstructBegin, ConstructSubscribe, ConstructSetStatus, ConstructCheck,
         ConstructYieldFails, ConstructFail, Goto, BuildPC, life

LEMMA LifeStep ==
  ASSUME TypeInv, LifeInv, [Next]_vars
  PROVE  LifeInv'
<1> USE DEF life
<1>1. ASSUME NEW t \in App, ConstructStep(t) PROVE LifeInv'
  <2>1. PICK label \in BuildPC \cup {"idle"} : pc' = [pc EXCEPT ![t] = label]
    BY <1>1, ConstructLeaves
  <2>2. template \in {"none", "constructing"} /\ \A u \in App \ {t} : pc[u] = "idle"
    BY <1>1, ConstructLeaves DEF LifeInv, TypeInv, PC
  <2>3. pc'[t] \in BuildPC => template' = "constructing"
    BY <1>1, <2>2 DEF ConstructStep, ConstructBegin, ConstructSubscribe, ConstructSetStatus,
                      ConstructCheck, ConstructYieldFails, ConstructFail, Goto, BuildPC, TypeInv, LifeInv
  <2>4. \A u \in App : pc'[u] = IF u = t THEN label ELSE "idle"
    BY <2>1, <2>2 DEF TypeInv
  <2>5. label \notin CallPC /\ "idle" \notin CallPC \cup BuildPC
    BY DEF BuildPC, CallPC, AwaitPC
  <2> QED
    BY <2>3, <2>4, <2>5 DEF LifeInv
<1>2. ASSUME NEW t \in App, RequestStep(t) PROVE LifeInv'
  <2>1. PICK label \in CallPC \cup {"idle"} : pc' = [pc EXCEPT ![t] = label]
    BY <1>2, RequestMoves
  <2>2. template = "ready" /\ template' = "ready"
    BY <1>2, RequestMoves
  <2>3. label \notin BuildPC
    BY DEF BuildPC, CallPC, AwaitPC
  <2> QED
    BY <2>1, <2>2, <2>3 DEF LifeInv, TypeInv
<1>3. CASE DestroyReset \/ DestroyFree
  <2>1. UNCHANGED pc /\ \A t \in App : pc[t] \notin BuildPC \cup CallPC
    BY <1>3 DEF DestroyReset, DestroyFree, AllIdle, LifeInv, BuildPC, CallPC, AwaitPC
  <2> QED
    BY <2>1 DEF LifeInv
<1>4. CASE UNCHANGED <<template, pc>>
  BY <1>4 DEF LifeInv
<1>5. CASE ReceiveStep \/ CloudStep
  BY <1>4, <1>5, ReceiveLeaves, CloudLeaves
<1>6. CASE SubscriptionStep \/ StartYieldThread \/ StopYieldThread
  BY <1>4, <1>6 DEF SubscriptionStep, SubscriptionAnswered, AnsweredWith, StartYieldThread,
                    StopYieldThread
<1> QED
  BY <1>1, <1>2, <1>3, <1>4, <1>5, <1>6, NextIs DEF vars

LEMMA RxStep ==
  ASSUME TypeInv, LifeInv, RxInv, [Next]_vars
  PROVE  RxInv'
<1> USE DEF life
<1>0. /\ "loop" \notin App /\ "nobody" \notin Thread /\ Idle.stage = "idle" /\ Idle.by = Nobody
      /\ rx \in Handling
  BY TemplateConstants DEF Thread, Idle, TypeInv
<1>1. ASSUME NEW t \in App, ConstructStep(t) PROVE RxInv'
  <2>1. PICK label \in BuildPC \cup {"idle"} : pc' = [pc EXCEPT ![t] = label]
    BY <1>1, ConstructLeaves
  <2>2. pc[t] # "mqtt_yield"
    BY <1>1, ConstructLeaves DEF BuildPC
  <2> QED
    BY <1>1, <2>1, <2>2, ConstructLeaves DEF RxInv, TypeInv
<1>2. ASSUME NEW t \in App, RequestStep(t) PROVE RxInv'
  <2>1. PICK label \in CallPC \cup {"idle"} : pc' = [pc EXCEPT ![t] = label]
    BY <1>2, RequestMoves
  <2>2. UNCHANGED <<yield_thread_running, rx, mutex>> /\ (pc[t] # "mqtt_yield" \/ rx.by # t)
    BY <1>2, RequestMoves
  <2> QED
    BY <2>1, <2>2 DEF RxInv, TypeInv
<1>3. CASE SubscriptionStep \/ StartYieldThread \/ StopYieldThread \/ DestroyReset \/ DestroyFree
  BY <1>3 DEF SubscriptionStep, SubscriptionAnswered, AnsweredWith, StartYieldThread,
              StopYieldThread, DestroyReset, DestroyFree, RxInv
<1>4. ASSUME NEW t \in Thread, NEW msg \in down, Receive(t, msg) PROVE RxInv'
  BY <1>0, <1>4 DEF Receive, Receives, Thread, RxInv
<1>5. CASE HandleControl \/ HandleEventReply
  BY <1>0, <1>5 DEF HandleControl, HandleEventReply, MutexFree, RxInv
<1>6. CASE TraverseReplies
  <2>1. rx' = [stage |-> "walk", by |-> rx.by, msg |-> rx.msg] /\ rx # Idle
    BY <1>0, <1>6, RxShape DEF TraverseReplies
  <2> QED
    BY <1>6, <2>1 DEF TraverseReplies, RxInv
<1>7. CASE HandleReply
  <2>1. rx # Idle /\ UNCHANGED <<mutex, pc, yield_thread_running>>
    BY <1>0, <1>7, RxShape DEF HandleReply
  <2>2. \/ rx' = rx
        \/ \E i \in Matching : rx' = [stage |-> "callback", by |-> rx.by, msg |-> rx.msg, node |-> i]
    BY <1>7 DEF HandleReply
  <2> QED
    BY <1>7, <2>1, <2>2 DEF HandleReply, RxInv
<1>8. CASE HandleReplyCallback
  <2>1. rx # Idle
    BY <1>0, <1>8, RxShape DEF HandleReplyCallback
  <2> QED
    BY <1>8, <2>1 DEF HandleReplyCallback, RxInv
<1>9. CASE TraverseEnd
  BY <1>0, <1>9 DEF TraverseEnd, RxInv
<1>10. CASE CloudStep \/ UNCHANGED vars
  BY <1>10, CloudLeaves DEF vars, RxInv
<1> QED
  BY <1>1, <1>2, <1>3, <1>4, <1>5, <1>6, <1>7, <1>8, <1>9, <1>10, NextIs DEF ReceiveStep, HandlerStep

(* What a call leaves of the other calls when it begins, and when a thread *)
(* goes on or returns.                                                     *)
LEMMA CallBegins ==
  ASSUME TypeInv, LifeInv, CallInv, FreshInv, NEW t \in App, NEW asks \in Request, NEW label \in CallPC,
         MayCall(t), NewCall(t, asks), pc' = [pc EXCEPT ![t] = label], UNCHANGED result,
         label = "publish" => /\ asks.method \in {"REPORT", "GET", "REPLY"}
                              /\ asks.callback # "none" => asks.method # "REPLY",
         label = "post" => asks.method = "EVENT",
         label \in {"publish", "post"}
  PROVE  CallInv'
<1>1. /\ calls + 1 \in Ids /\ calls' = calls + 1 /\ calls \in Nat
      /\ \A u \in App : cur[u] \in Nat /\ (cur[u] # 0 => cur[u] \in Ids /\ cur[u] <= calls)
  BY TemplateConstants DEF MayCall, NewCall, TypeInv, Ids, CallInv, CallOf
<1>2. request'[calls + 1] = asks /\ \A i \in Ids \ {calls + 1} : request'[i] = request[i]
  BY <1>1 DEF NewCall, TypeInv
<1>3. cur'[t] = calls + 1 /\ pc'[t] = label /\ result[calls + 1] = "none"
  BY <1>1 DEF NewCall, TypeInv, FreshInv
<1>4. \A u \in App \ {t} : cur'[u] = cur[u] /\ pc'[u] = pc[u]
  BY DEF NewCall, TypeInv
<1>5. \A u \in App \ {t} : cur'[u] # calls + 1 /\ (cur'[u] # 0 => cur'[u] <= calls' /\ cur[u] \in Ids \ {calls + 1})
  BY <1>1, <1>4
<1>6. calls + 1 # 0 /\ calls + 1 <= calls'
  BY <1>1
<1>7. ASSUME NEW u \in App
      PROVE  CallOf(u)'
  <2>1. CASE u = t
    BY <1>2, <1>3, <1>6, <2>1 DEF CallOf, AwaitPC
  <2>2. CASE u # t
    BY <1>2, <1>4, <1>5, <2>2 DEF CallInv, CallOf, Stored
  <2> QED
    BY <2>1, <2>2
<1>8. ASSUME NEW u \in App, NEW v \in App, cur'[u] = cur'[v], cur'[u] # 0 PROVE u = v
  BY <1>3, <1>4, <1>5, <1>8 DEF CallInv
<1> QED
  BY <1>7, <1>8 DEF CallInv

LEMMA CallMoves ==
  ASSUME TypeInv, CallInv, NEW t \in App, UNCHANGED <<request, calls>>,
         NEW label \in PC, NEW code, Goto(t, label) \/ Return(t, code),
         CallOf(t)'
  PROVE  CallInv'
<1>1. \A u \in App \ {t} : cur'[u] = cur[u] /\ pc'[u] = pc[u]
  BY DEF Goto, Return, TypeInv
<1>2. cur'[t] \in {0, cur[t]} /\ \A i \in Ids \ {cur[t]} : result'[i] = result[i]
  BY DEF Goto, Return, TypeInv
<1>3. \A u \in App \ {t} : cur[u] # 0 => cur[u] \in Ids \ {cur[t]}
  BY TemplateConstants DEF CallInv, TypeInv, Ids
<1>4. ASSUME NEW u \in App PROVE CallOf(u)'
  <2>1. CASE u = t
    BY <2>1
  <2>2. CASE u # t
    BY <1>1, <1>2, <1>3, <2>2 DEF CallInv, CallOf, Stored
  <2> QED
    BY <2>1, <2>2
<1>5. ASSUME NEW u \in App, NEW v \in App, cur'[u] = cur'[v], cur'[u] # 0 PROVE u = v
  BY <1>1, <1>2, <1>5 DEF CallInv
<1> QED
  BY <1>4, <1>5 DEF CallInv

LEMMA CallStep ==
  ASSUME TypeInv, LifeInv, RxInv, CallInv, FreshInv, [Next]_vars
  PROVE  CallInv'
<1> USE DEF life, callv
<1>1. ASSUME NEW t \in App, ConstructStep(t) PROVE CallInv'
  <2>1. PICK label \in BuildPC \cup {"idle"} : pc' = [pc EXCEPT ![t] = label]
    BY <1>1, ConstructLeaves
  <2>2. label \in PC /\ label \notin CallPC /\ pc[t] \notin CallPC
    BY <1>1, ConstructLeaves DEF BuildPC, CallPC, AwaitPC, PC
  <2>3. UNCHANGED <<request, calls, cur, result>>
    BY <1>1, ConstructLeaves
  <2>4. Goto(t, label) /\ cur[t] = 0 /\ pc'[t] = label
    BY <2>1, <2>2, <2>3 DEF Goto, CallInv, CallOf, TypeInv
  <2>5. CallOf(t)'
    BY <2>2, <2>3, <2>4 DEF CallOf, CallPC
  <2> QED
    BY <2>2, <2>3, <2>4, <2>5, CallMoves
<1>2. ASSUME NEW t \in App, NEW call \in Calls, BuildDocument(t, call) PROVE CallInv'
  <2> DEFINE asks == [method |-> call[1], callback |-> call[2], token |-> token_num]
  <2>1. asks \in Request /\ asks.method \in {"REPORT", "GET"}
    BY TemplateConstants DEF TypeInv, Request
  <2>2. NewCall(t, asks) /\ MayCall(t) /\ pc' = [pc EXCEPT ![t] = "publish"] /\ UNCHANGED result
    BY <1>2 DEF BuildDocument
  <2>3. "publish" \in CallPC
    BY DEF CallPC
  <2> HIDE DEF asks
  <2> QED
    BY <2>1, <2>2, <2>3, CallBegins
<1>3. ASSUME NEW t \in App, ControlReply(t) PROVE CallInv'
  <2> DEFINE asks == [method |-> "REPLY", callback |-> "none", token |-> sg_template_clientToken]
  <2>1. asks \in Request /\ asks.method = "REPLY" /\ asks.callback = "none"
    BY DEF TypeInv, Request
  <2>2. NewCall(t, asks) /\ MayCall(t) /\ pc' = [pc EXCEPT ![t] = "publish"] /\ UNCHANGED result
    BY <1>3 DEF ControlReply
  <2>3. "publish" \in CallPC
    BY DEF CallPC
  <2> HIDE DEF asks
  <2> QED
    BY <2>1, <2>2, <2>3, CallBegins
<1>4. ASSUME NEW t \in App, NEW callback \in {"none", "user"}, CreateEvent(t, callback) PROVE CallInv'
  <2> DEFINE asks == [method |-> "EVENT", callback |-> callback, token |-> token_num]
  <2>1. asks \in Request /\ asks.method = "EVENT" /\ MayCall(t)
    BY <1>4 DEF TypeInv, Request, CreateEvent
  <2>2. CASE Cardinality(event_list) < MAX_EVENT_WAIT_REPLY
    <3>1. NewCall(t, asks) /\ pc' = [pc EXCEPT ![t] = "post"] /\ UNCHANGED result
      BY <1>4, <2>2 DEF CreateEvent
    <3>2. "post" \in CallPC
      BY DEF CallPC
    <3> HIDE DEF asks
    <3> QED
      BY <2>1, <3>1, <3>2, CallBegins
  <2>3. CASE ~(Cardinality(event_list) < MAX_EVENT_WAIT_REPLY)
    <3>1. /\ calls' = calls + 1 /\ UNCHANGED <<cur, pc>> /\ calls \in Nat
          /\ request' = [request EXCEPT ![calls + 1] = [asks EXCEPT !.token = NoToken]]
          /\ result' = [result EXCEPT ![calls + 1] = "FAILURE"]
      BY <1>4, <2>3, TemplateConstants DEF CreateEvent, TypeInv
    <3>2. \A u \in App : cur[u] # 0 => cur[u] \in Ids \ {calls + 1} /\ cur[u] <= calls'
      BY <3>1, TemplateConstants DEF CallInv, CallOf, TypeInv, Ids
    <3>3. \A i \in Ids \ {calls + 1} : request'[i] = request[i] /\ result'[i] = result[i]
      BY <3>1 DEF TypeInv
    <3>4. ASSUME NEW u \in App PROVE CallOf(u)'
      BY <3>1, <3>2, <3>3 DEF CallInv, CallOf, Stored
    <3> QED
      BY <3>1, <3>4 DEF CallInv
  <2> QED
    BY <2>2, <2>3
<1>5. ASSUME NEW t \in App, PublishRequest(t) \/ PostEvent(t) \/ AddRequest(t) \/ WaitForAck(t) PROVE CallInv'
  <2>1. PICK label \in {"add", "wait", "sweep_reply"}, code \in Result \cup {Outcome(t)} : Goto(t, label) \/ Return(t, code)
    BY <1>5 DEF PublishRequest, PostEvent, AddRequest, AddUnless, WaitForAck, WaitFor, Result
  <2>2. CASE Goto(t, label)
    <3>1. /\ pc'[t] = label /\ UNCHANGED <<cur, result, request, calls>>
          /\ pc[t] \in {"publish", "add", "wait"}
      BY <1>5, <2>2 DEF PublishRequest, PostEvent, AddRequest, AddUnless, WaitForAck, WaitFor, Goto, Return, TypeInv
    <3>2. /\ pc'[t] = "add" => pc[t] = "publish" /\ request[cur[t]].callback # "none"
          /\ pc'[t] = "wait" => Stored(cur[t])
          /\ pc'[t] = "sweep_reply" => pc[t] = "wait"
      BY <1>5, <2>2, <3>1 DEF PublishRequest, PostEvent, AddRequest, AddUnless, WaitForAck, WaitFor, Goto, Return, TypeInv
    <3>3. CallOf(t)'
      BY <3>1, <3>2 DEF CallOf, CallInv, CallPC, AwaitPC, Stored
    <3> QED
      BY <2>2, <3>1, <3>3, CallMoves, LabelType
  <2>3. CASE Return(t, code)
    <3>1. pc'[t] = "idle" /\ cur'[t] = 0 /\ UNCHANGED <<request, calls>>
      BY <1>5, <2>3 DEF PublishRequest, PostEvent, AddRequest, AddUnless, WaitForAck, WaitFor, Return, TypeInv
    <3>2. CallOf(t)'
      BY <3>1 DEF CallOf, AwaitPC
    <3> QED
      BY <2>3, <3>1, <3>2, CallMoves, LabelType
  <2> QED
    BY <2>1, <2>2, <2>3
<1>6. ASSUME NEW t \in App, Yield(t) \/ SweepReplies(t) \/ SweepEvents(t) \/ YieldReturn(t) PROVE CallInv'
  <2>1. PICK label \in AwaitPC \cup {"idle", "wait"} :
            /\ Goto(t, label) /\ (label = "wait" => cur[t] # 0) /\ (label = "idle" => cur[t] = 0)
    BY <1>6 DEF Yield, SweepReplies, SweepRepliesWith, SweepEvents, SweepEventsOf, YieldReturn, AwaitPC
  <2>2. pc[t] \in AwaitPC \cup {"idle"} /\ UNCHANGED <<request, calls>>
    BY <1>6 DEF Yield, SweepReplies, SweepRepliesWith, SweepEvents, SweepEventsOf, YieldReturn, AwaitPC
  <2>3. pc'[t] = label /\ UNCHANGED <<cur, result>> /\ label \in PC
    BY <2>1 DEF Goto, TypeInv, PC, CallPC
  <2>4. CallOf(t)'
    BY <2>1, <2>2, <2>3 DEF CallOf, CallInv, CallPC, AwaitPC, Stored
  <2> QED
    BY <2>1, <2>2, <2>3, <2>4, CallMoves
<1>7. CASE UNCHANGED <<request, calls, cur, pc, result>>
  BY <1>7 DEF CallInv, CallOf, Stored
<1>8. CASE SubscriptionStep \/ StartYieldThread \/ StopYieldThread \/ DestroyReset \/ DestroyFree
  BY <1>7, <1>8 DEF SubscriptionStep, SubscriptionAnswered, AnsweredWith, StartYieldThread,
                    StopYieldThread, DestroyReset, DestroyFree
<1>9. CASE ReceiveStep \/ CloudStep \/ UNCHANGED vars
  BY <1>7, <1>9, ReceiveLeaves, CloudLeaves DEF vars
<1> QED
  BY <1>1, <1>2, <1>3, <1>4, <1>5, <1>6, <1>8, <1>9, NextIs DEF RequestStep

(* The first answer to some calls.                                         *)
LEMMA FirstAnswer ==
  ASSUME TypeInv, NEW I \in SUBSET Ids, NEW outcome \in Ack, Notify(I, outcome),
         \A i \in I : told[i] = <<>>
  PROVE  \A i \in Ids : /\ told'[i] = IF i \in I THEN <<outcome>> ELSE told[i]
                        /\ ack'[i] = IF i \in I /\ Stored(i) THEN outcome ELSE ack[i]
<1>1. Append(<<>>, outcome) = <<outcome>>
  OBVIOUS
<1> QED
  BY <1>1 DEF Notify

(* The same by the callback on control data, which may leave the variable  *)
(* of a waiting call as _on_template_downstream_topic_handler set it.      *)
LEMMA CallbackAnswer ==
  ASSUME TypeInv, ListInv, HandleReplyCallback
  PROVE  /\ rx.node \in Ids
         /\ \A i \in Ids : /\ told'[i] = IF i = rx.node THEN <<"ACCEPTED">> ELSE told[i]
                           /\ \/ ack'[i] = ack[i]
                              \/ i = rx.node /\ Stored(i) /\ ack'[i] = "ACCEPTED"
<1>1. rx.node \in Ids /\ told[rx.node] = <<>>
  BY RxShape DEF HandleReplyCallback, TypeInv, ListInv, Answerable
<1>2. CASE Notify({rx.node}, "ACCEPTED")
  <2>1. "ACCEPTED" \in Ack /\ {rx.node} \in SUBSET Ids
    BY <1>1, LabelType
  <2>2. \A i \in {rx.node} : told[i] = <<>>
    BY <1>1
  <2>3. \A i \in Ids : /\ told'[i] = IF i \in {rx.node} THEN <<"ACCEPTED">> ELSE told[i]
                       /\ ack'[i] = IF i \in {rx.node} /\ Stored(i) THEN "ACCEPTED" ELSE ack[i]
    BY <1>2, <2>1, <2>2, FirstAnswer
  <2> QED
    BY <1>1, <2>3
<1>3. CASE told' = [told EXCEPT ![rx.node] = Append(@, "ACCEPTED")] /\ UNCHANGED ack
  <2>1. Append(<<>>, "ACCEPTED") = <<"ACCEPTED">>
    OBVIOUS
  <2> QED
    BY <1>1, <1>3, <2>1 DEF TypeInv
<1> QED
  BY <1>2, <1>3 DEF HandleReplyCallback

(* What a step of _traverse_template_list does with an entry.              *)
LEMMA ReplyAnswer ==
  ASSUME TypeInv, ListInv, HandleReply
  PROVE  \E i \in Matching :
            \/ /\ rx.msg.control /\ rx.msg.code = "ok"
               /\ rx' = [stage |-> "callback", by |-> rx.by, msg |-> rx.msg, node |-> i]
               /\ UNCHANGED <<reply_list, told, seen>>
               /\ \A j \in Ids : ack'[j] = IF j = i THEN "ACCEPTED" ELSE ack[j]
            \/ /\ rx.msg.code = "bad" /\ reply_list' = reply_list \ {i}
               /\ UNCHANGED <<rx, ack, told>> /\ Noted(rx.msg)
            \/ /\ rx.msg.code # "bad" /\ reply_list' = reply_list \ {i}
               /\ UNCHANGED rx /\ Noted(rx.msg)
               /\ LET outcome == IF rx.msg.code = "ok" THEN "ACCEPTED" ELSE "REJECTED" IN
                  \A j \in Ids : /\ told'[j] = IF j = i THEN <<outcome>> ELSE told[j]
                                 /\ ack'[j] = IF j = i /\ Stored(j) THEN outcome ELSE ack[j]
<1>1. PICK i \in Matching :
         IF rx.msg.control /\ rx.msg.code = "ok"
         THEN /\ sg_template_clientToken' = rx.msg.token
              /\ ack' = [ack EXCEPT ![i] = "ACCEPTED"]
              /\ rx' = [stage |-> "callback", by |-> rx.by, msg |-> rx.msg, node |-> i]
              /\ UNCHANGED <<reply_list, told, seen>>
         ELSE /\ reply_list' = reply_list \ {i}
              /\ IF rx.msg.code = "bad" THEN UNCHANGED <<ack, told>>
                 ELSE Notify({i}, IF rx.msg.code = "ok" THEN "ACCEPTED" ELSE "REJECTED")
              /\ Noted(rx.msg) /\ UNCHANGED <<rx, sg_template_clientToken>>
  BY DEF HandleReply
<1>2. i \in Ids /\ told[i] = <<>>
  BY DEF Matching, TypeInv, ListInv, Answerable
<1>3. CASE rx.msg.control /\ rx.msg.code = "ok"
  <2>1. \A j \in Ids : ack'[j] = IF j = i THEN "ACCEPTED" ELSE ack[j]
    BY <1>1, <1>2, <1>3 DEF TypeInv
  <2> QED
    BY <1>1, <1>3, <2>1
<1>4. CASE ~(rx.msg.control /\ rx.msg.code = "ok") /\ rx.msg.code = "bad"
  BY <1>1, <1>4
<1>5. CASE ~(rx.msg.control /\ rx.msg.code = "ok") /\ rx.msg.code # "bad"
  <2> DEFINE outcome == IF rx.msg.code = "ok" THEN "ACCEPTED" ELSE "REJECTED"
  <2>1. outcome \in Ack /\ Notify({i}, outcome) /\ {i} \in SUBSET Ids
    BY <1>1, <1>2, <1>5, LabelType
  <2>2. \A j \in Ids : /\ told'[j] = IF j = i THEN <<outcome>> ELSE told[j]
                       /\ ack'[j] = IF j = i /\ Stored(j) THEN outcome ELSE ack[j]
    <3> HIDE DEF outcome
    <3>1. \A j \in {i} : told[j] = <<>>
      BY <1>2
    <3>2. \A j \in Ids : /\ told'[j] = IF j \in {i} THEN <<outcome>> ELSE told[j]
                         /\ ack'[j] = IF j \in {i} /\ Stored(j) THEN outcome ELSE ack[j]
      BY <2>1, <3>1, FirstAnswer
    <3> QED
      BY <3>2
  <2> QED
    BY <1>1, <1>5, <2>2
<1> QED
  BY <1>3, <1>4, <1>5

(* The fresh calls after a request began, and while none did.              *)
LEMMA FreshCalls ==
  ASSUME TypeInv, CallInv, NEW t \in App
  PROVE  /\ calls \in Nat /\ cur[t] \in Nat /\ cur[t] <= calls
         /\ \A i \in Ids : i \in Nat /\ i # 0 /\ (i > calls => i # cur[t])
  BY TemplateConstants DEF TypeInv, CallInv, CallOf, Ids

LEMMA FreshStep ==
  ASSUME TypeInv, LifeInv, RxInv, CallInv, FreshInv, ListInv, [Next]_vars
  PROVE  FreshInv'
<1> USE DEF life, lists, callv, answer
<1>0. calls \in Nat /\ \A i \in Ids : i \in Nat /\ (i > calls + 1 => i > calls /\ i # calls + 1)
  BY TemplateConstants DEF TypeInv, Ids
<1>1. ASSUME NEW t \in App, NEW call \in Calls, BuildDocument(t, call) PROVE FreshInv'
  BY <1>0, <1>1 DEF BuildDocument, NewCall, FreshInv, TypeInv
<1>2. ASSUME NEW t \in App, ControlReply(t) PROVE FreshInv'
  BY <1>0, <1>2 DEF ControlReply, NewCall, FreshInv, TypeInv
<1>3. ASSUME NEW t \in App, NEW callback \in {"none", "user"}, CreateEvent(t, callback) PROVE FreshInv'
  BY <1>0, <1>3 DEF CreateEvent, NewCall, FreshInv, TypeInv
<1>4. ASSUME NEW t \in App,
             PublishRequest(t) \/ PostEvent(t) \/ AddRequest(t) \/ WaitForAck(t) PROVE FreshInv'
  <2>1. /\ UNCHANGED <<calls, request, ack, told, event_list>>
        /\ reply_list' \in {reply_list, reply_list \cup {cur[t]}}
        /\ \A i \in Ids : i # cur[t] => result'[i] = result[i]
    BY <1>4 DEF PublishRequest, PostEvent, AddRequest, AddUnless, WaitForAck, WaitFor, Return, Goto,
                TypeInv
  <2> QED
    BY <2>1, FreshCalls DEF FreshInv
<1>5. ASSUME NEW t \in App, Yield(t) \/ SweepEvents(t) \/ YieldReturn(t) PROVE FreshInv'
  BY <1>5 DEF Yield, SweepEvents, SweepEventsOf, YieldReturn, Goto, FreshInv
<1>6. ASSUME NEW t \in App, SweepReplies(t) PROVE FreshInv'
  BY <1>6 DEF SweepReplies, SweepRepliesWith, Late, Notify, Goto, FreshInv
<1>7. ASSUME NEW t \in App, ConstructStep(t) PROVE FreshInv'
  BY <1>7, ConstructLeaves DEF FreshInv
<1>8. CASE SubscriptionStep \/ StartYieldThread \/ StopYieldThread \/ DestroyReset \/ DestroyFree
  BY <1>8 DEF SubscriptionStep, SubscriptionAnswered, AnsweredWith, StartYieldThread,
              StopYieldThread, DestroyReset, DestroyFree, FreshInv
<1>9. CASE HandleReply
  <2>1. UNCHANGED <<event_list, calls, request, result>>
    BY <1>9 DEF HandleReply
  <2>2. PICK i \in reply_list :
           /\ reply_list' \subseteq reply_list
           /\ \A j \in Ids : j # i => told'[j] = told[j] /\ ack'[j] = ack[j]
    BY <1>9, ReplyAnswer DEF Matching
  <2> QED
    BY <2>1, <2>2 DEF FreshInv
<1>10. CASE HandleReplyCallback
  <2>1. UNCHANGED <<event_list, calls, request, result>> /\ reply_list' \subseteq reply_list
    BY <1>10 DEF HandleReplyCallback
  <2>2. rx.node \in Ids /\ request[rx.node].method # "none"
    BY <1>10, CallbackAnswer DEF ListInv, Answerable, HandleReplyCallback
  <2> QED
    BY <1>10, <2>1, <2>2, CallbackAnswer DEF FreshInv
<1>11. CASE HandleEventReply
  BY <1>11 DEF HandleEventReply, Notify, FreshInv
<1>12. CASE HandleControl \/ TraverseReplies \/ TraverseEnd
  BY <1>12 DEF HandleControl, TraverseReplies, TraverseEnd, FreshInv
<1>13. ASSUME NEW t \in Thread, NEW msg \in down, Receive(t, msg) PROVE FreshInv'
  BY <1>13 DEF Receive, FreshInv
<1>14. CASE CloudStep \/ UNCHANGED vars
  BY <1>14, CloudLeaves DEF vars, FreshInv
<1> QED
  BY <1>1, <1>2, <1>3, <1>4, <1>5, <1>6, <1>7, <1>8, <1>9, <1>10, <1>11, <1>12, <1>13, <1>14, NextIs
     DEF RequestStep, ReceiveStep, HandlerStep

(* A call begins that nobody knew of.                                      *)
LEMMA FreshBegins ==
  ASSUME TypeInv, LifeInv, CallInv, FreshInv, ListInv, NEW t \in App, MayCall(t)
  PROVE  /\ calls + 1 \in Ids /\ cur[t] = 0 /\ told[calls + 1] = <<>>
         /\ calls + 1 \notin reply_list /\ calls + 1 \notin event_list
         /\ rx.stage = "callback" => rx.node # calls + 1
         /\ \A u \in App : cur[u] # calls + 1
<1>1. calls + 1 \in Ids /\ calls + 1 > calls
  BY TemplateConstants DEF MayCall, TypeInv, Ids
<1>2. /\ told[calls + 1] = <<>> /\ calls + 1 \notin reply_list /\ calls + 1 \notin event_list
      /\ request[calls + 1].method = "none"
  BY <1>1 DEF FreshInv
<1>3. cur[t] = 0
  BY DEF MayCall, CallInv, CallOf, CallPC, AwaitPC
<1>4. \A u \in App : cur[u] # calls + 1
  BY <1>1, FreshCalls
<1> QED
  BY <1>1, <1>2, <1>3, <1>4 DEF ListInv, Answerable

LEMMA ListStep ==
  ASSUME TypeInv, LifeInv, RxInv, CallInv, FreshInv, ListInv, [Next]_vars
  PROVE  ListInv'
<1> USE DEF life, lists, callv, answer
<1>0. \A i \in Ids : i # 0
  BY DEF Ids
<1>1. ASSUME NEW t \in App,
             (\E call \in Calls : BuildDocument(t, call)) \/ ControlReply(t)
      PROVE  ListInv'
  <2>1. /\ MayCall(t) /\ cur' = [cur EXCEPT ![t] = calls + 1] /\ pc' = [pc EXCEPT ![t] = "publish"]
        /\ UNCHANGED <<reply_list, event_list, rx, told, result>>
        /\ \A i \in Ids : i # calls + 1 => request'[i] = request[i]
    BY <1>1 DEF BuildDocument, ControlReply, NewCall, TypeInv
  <2>2. /\ calls + 1 \in Ids /\ cur[t] = 0 /\ told[calls + 1] = <<>>
        /\ calls + 1 \notin reply_list /\ calls + 1 \notin event_list
        /\ rx.stage = "callback" => rx.node # calls + 1
    BY <2>1, FreshBegins
  <2>3. \A u \in App : cur'[u] = (IF u = t THEN calls + 1 ELSE cur[u])
                       /\ pc'[u] = (IF u = t THEN "publish" ELSE pc[u])
    BY <2>1 DEF TypeInv
  <2>4. ASSUME NEW i \in Ids, i # calls + 1, Answerable(i) PROVE Answerable(i)'
    BY <2>1, <2>3, <2>4 DEF Answerable
  <2>5. rx.stage = "callback" => rx.node \in Ids
    BY RxShape DEF TypeInv
  <2>6. \A i \in reply_list' : Answerable(i)'
    BY <2>1, <2>2, <2>4 DEF ListInv, TypeInv
  <2>7. rx'.stage = "callback" => Answerable(rx.node)'
    BY <2>1, <2>2, <2>4, <2>5 DEF ListInv, Answerable
  <2>8. \A i \in event_list' : request'[i].method = "EVENT" /\ told'[i] = <<>>
    BY <2>1, <2>2 DEF ListInv, TypeInv
  <2>9. \A u \in App : pc'[u] \in AskPC => told'[cur'[u]] = <<>>
    BY <2>1, <2>2, <2>3 DEF ListInv
  <2>10. \A i \in Ids : told'[i] # <<>> =>
            /\ Len(told'[i]) = 1
            /\ request'[i].method = "EVENT" \/ result'[i] \notin {"FAILURE", "MAX_APPENDING"}
    BY <2>1, <2>2 DEF ListInv
  <2> QED
    BY <2>1, <2>6, <2>7, <2>8, <2>9, <2>10 DEF ListInv, Answerable
<1>2. ASSUME NEW t \in App, NEW callback \in {"none", "user"}, CreateEvent(t, callback)
      PROVE  ListInv'
  <2> DEFINE fits == Cardinality(event_list) < MAX_EVENT_WAIT_REPLY
  <2>1. /\ MayCall(t) /\ UNCHANGED <<reply_list, rx, told>>
        /\ cur' = (IF fits THEN [cur EXCEPT ![t] = calls + 1] ELSE cur)
        /\ pc' = (IF fits THEN [pc EXCEPT ![t] = "post"] ELSE pc)
        /\ event_list' \subseteq event_list \cup {calls + 1}
        /\ \A i \in Ids : i # calls + 1 => request'[i] = request[i] /\ result'[i] = result[i]
        /\ calls + 1 \in Ids => request'[calls + 1].method = "EVENT"
    BY <1>2 DEF CreateEvent, NewCall, TypeInv
  <2>2. /\ calls + 1 \in Ids /\ cur[t] = 0 /\ told[calls + 1] = <<>>
        /\ calls + 1 \notin reply_list /\ calls + 1 \notin event_list
        /\ rx.stage = "callback" => rx.node # calls + 1
        /\ \A u \in App : cur[u] # calls + 1
    BY <2>1, FreshBegins
  <2>3. \A u \in App : /\ (cur'[u] = cur[u] /\ pc'[u] = pc[u]) \/ (cur'[u] = calls + 1 /\ pc'[u] = "post")
    BY <2>1 DEF TypeInv
  <2>4. ASSUME NEW i \in Ids, i # calls + 1, Answerable(i) PROVE Answerable(i)'
    BY <2>1, <2>3, <2>4 DEF Answerable
  <2>5. rx.stage = "callback" => rx.node \in Ids
    BY RxShape DEF TypeInv
  <2>6. \A i \in reply_list' : Answerable(i)'
    BY <2>1, <2>2, <2>4 DEF ListInv, TypeInv
  <2>7. rx'.stage = "callback" => Answerable(rx.node)'
    BY <2>1, <2>2, <2>4, <2>5 DEF ListInv, Answerable
  <2>8. \A i \in event_list' : request'[i].method = "EVENT" /\ told'[i] = <<>>
    BY <2>1, <2>2 DEF ListInv, TypeInv
  <2>9. \A u \in App : pc'[u] \in AskPC => told'[cur'[u]] = <<>>
    BY <2>1, <2>2, <2>3 DEF ListInv
  <2>10. \A i \in Ids : told'[i] # <<>> =>
            /\ Len(told'[i]) = 1
            /\ request'[i].method = "EVENT" \/ result'[i] \notin {"FAILURE", "MAX_APPENDING"}
    BY <2>1, <2>2 DEF ListInv
  <2> QED
    BY <2>1, <2>6, <2>7, <2>8, <2>9, <2>10 DEF ListInv, Answerable
<1>3. ASSUME NEW t \in App, PublishRequest(t) \/ PostEvent(t) PROVE ListInv'
  <2>1. /\ pc[t] \in {"publish", "post"} /\ UNCHANGED <<reply_list, event_list, rx, told, request>>
        /\ \A i \in Ids : i # cur[t] => result'[i] = result[i]
        /\ \A u \in App \ {t} : cur'[u] = cur[u] /\ pc'[u] = pc[u]
        /\ \/ cur'[t] = 0 /\ pc'[t] = "idle"
           \/ cur'[t] = cur[t] /\ pc'[t] = "add" /\ pc[t] = "publish"
    BY <1>3 DEF PublishRequest, PostEvent, Return, Goto, TypeInv
  <2>2. ASSUME NEW i \in Ids, Answerable(i) PROVE Answerable(i)'
    <3>1. i # cur[t]
      BY <2>1, <2>2 DEF Answerable, AskPC, CallInv, CallOf
    <3> QED
      BY <1>0, <2>1, <2>2, <3>1 DEF Answerable
  <2>3. rx.stage = "callback" => rx.node \in Ids
    BY RxShape DEF TypeInv
  <2>4. \A i \in reply_list' : Answerable(i)'
    BY <2>1, <2>2 DEF ListInv, TypeInv
  <2>5. rx'.stage = "callback" => Answerable(rx.node)'
    BY <2>1, <2>2, <2>3 DEF ListInv
  <2>6. \A u \in App : pc'[u] \in AskPC => told'[cur'[u]] = <<>>
    BY <2>1 DEF ListInv, AskPC
  <2>7. told[cur[t]] # <<>> => request[cur[t]].method = "EVENT"
    BY <2>1 DEF ListInv, AskPC, CallInv, CallOf
  <2>8. \A i \in Ids : told'[i] # <<>> =>
            /\ Len(told'[i]) = 1
            /\ request'[i].method = "EVENT" \/ result'[i] \notin {"FAILURE", "MAX_APPENDING"}
    BY <2>1, <2>7 DEF ListInv
  <2> QED
    BY <2>1, <2>4, <2>5, <2>6, <2>8 DEF ListInv, Answerable
<1>4. ASSUME NEW t \in App, AddRequest(t) PROVE ListInv'
  <2>1. /\ pc[t] = "add" /\ UNCHANGED <<event_list, rx, told, request>>
        /\ \A i \in Ids : i # cur[t] => result'[i] = result[i]
        /\ \A u \in App \ {t} : cur'[u] = cur[u] /\ pc'[u] = pc[u]
        /\ (cur'[t] = 0 /\ pc'[t] = "idle") \/ (cur'[t] = cur[t] /\ pc'[t] = "wait")
        /\ MutexFree
    BY <1>4 DEF AddRequest, AddUnless, Return, Goto, TypeInv
  <2>2. /\ cur[t] \in Ids /\ result[cur[t]] = "none" /\ told[cur[t]] = <<>>
        /\ request[cur[t]].method \in {"REPORT", "GET"}
        /\ \A u \in App \ {t} : cur[u] # cur[t]
    BY <2>1, TemplateConstants DEF CallInv, CallOf, ListInv, AskPC, TypeInv, Ids
  <2>3. ASSUME NEW i \in Ids, Answerable(i) PROVE Answerable(i)'
    <3>1. i # cur[t]
      BY <2>1, <2>3 DEF Answerable, AskPC
    <3> QED
      BY <1>0, <2>1, <2>3, <3>1 DEF Answerable
  <2>4. rx.stage # "callback"
    BY <2>1, TemplateConstants, RxShape DEF RxInv, MutexFree, TypeInv, Thread, Nobody, Idle
  <2>5. \A i \in reply_list' : Answerable(i)'
    <3>1. CASE reply_list' = reply_list
      BY <2>3, <3>1 DEF ListInv, TypeInv
    <3>2. CASE reply_list' # reply_list
      <4>1. reply_list' = reply_list \cup {cur[t]} /\ result'[cur[t]] \in {"none", "SUCCESS"}
        BY <1>4, <2>2, <3>2 DEF AddRequest, AddUnless, Return, Goto, TypeInv
      <4> QED
        BY <1>0, <2>1, <2>2, <2>3, <4>1 DEF ListInv, TypeInv, Answerable, AskPC
    <3> QED
      BY <3>1, <3>2
  <2>6. \A u \in App : pc'[u] \in AskPC => told'[cur'[u]] = <<>>
    BY <2>1 DEF ListInv, AskPC
  <2>7. \A i \in Ids : told'[i] # <<>> =>
            /\ Len(told'[i]) = 1
            /\ request'[i].method = "EVENT" \/ result'[i] \notin {"FAILURE", "MAX_APPENDING"}
    BY <2>1, <2>2 DEF ListInv
  <2> QED
    BY <2>1, <2>4, <2>5, <2>6, <2>7 DEF ListInv, Answerable
<1>5. ASSUME NEW t \in App, WaitForAck(t) PROVE ListInv'
  <2>1. /\ pc[t] = "wait" /\ UNCHANGED <<reply_list, event_list, rx, told, request>>
        /\ \A u \in App \ {t} : cur'[u] = cur[u] /\ pc'[u] = pc[u]
        /\ cur'[t] \in {0, cur[t]} /\ pc'[t] \notin AskPC
    BY <1>5 DEF WaitForAck, WaitFor, Return, Goto, TypeInv, AskPC
  <2>2. cur[t] \in Ids /\ ack[cur[t]] \in Ack
    BY <2>1, TemplateConstants DEF CallInv, CallOf, TypeInv, Ids
  <2>3. \A i \in Ids : result'[i] = result[i] \/ result'[i] \notin {"FAILURE", "MAX_APPENDING"}
    BY <1>5, <2>2 DEF WaitForAck, WaitFor, Return, Goto, TypeInv, Outcome, Ack
  <2>4. ASSUME NEW i \in Ids, Answerable(i) PROVE Answerable(i)'
    BY <1>0, <2>1, <2>3, <2>4 DEF Answerable
  <2>5. rx.stage = "callback" => rx.node \in Ids
    BY RxShape DEF TypeInv
  <2>6. \A i \in reply_list' : Answerable(i)'
    BY <2>1, <2>4 DEF ListInv, TypeInv
  <2>7. rx'.stage = "callback" => Answerable(rx.node)'
    BY <2>1, <2>4, <2>5 DEF ListInv
  <2> QED
    BY <2>1, <2>3, <2>6, <2>7 DEF ListInv, Answerable
<1>6. ASSUME NEW t \in App, Yield(t) \/ SweepEvents(t) \/ YieldReturn(t) PROVE ListInv'
  <2>1. /\ UNCHANGED <<reply_list, rx, told, request, cur, result>> /\ event_list' \subseteq event_list
        /\ \A u \in App : pc'[u] \in AskPC => pc[u] \in AskPC
    BY <1>6 DEF Yield, SweepEvents, SweepEventsOf, YieldReturn, Goto, TypeInv, AskPC
  <2> QED
    BY <2>1 DEF ListInv, Answerable
<1>7. ASSUME NEW t \in App, SweepReplies(t) PROVE ListInv'
  <2>1. /\ UNCHANGED <<event_list, rx, request, cur, result>> /\ reply_list' = reply_list \ Late
        /\ \A u \in App : pc'[u] \in AskPC => pc[u] \in AskPC
        /\ Late \in SUBSET Ids /\ Late \subseteq reply_list /\ MutexFree
    BY <1>7 DEF SweepReplies, SweepRepliesWith, Late, Goto, TypeInv, AskPC
  <2>2. \A i \in Late : Answerable(i)
    BY <2>1 DEF ListInv
  <2>3. Notify(Late, "TIMEOUT") /\ "TIMEOUT" \in Ack /\ \A i \in Late : told[i] = <<>>
    BY <1>7, <2>2, LabelType DEF SweepReplies, SweepRepliesWith, Answerable
  <2>4. \A i \in Ids : told'[i] = IF i \in Late THEN <<"TIMEOUT">> ELSE told[i]
    BY <2>1, <2>3, FirstAnswer
  <2>5. ASSUME NEW i \in Ids \ Late, Answerable(i) PROVE Answerable(i)'
    BY <2>1, <2>4, <2>5 DEF Answerable
  <2>6. rx.stage # "callback"
    BY <2>1, TemplateConstants, RxShape DEF RxInv, MutexFree, TypeInv, Thread, Nobody, Idle
  <2>7. \A i \in reply_list' : Answerable(i)'
    BY <2>1, <2>5 DEF ListInv, TypeInv
  <2>8. \A i \in event_list' : request'[i].method = "EVENT" /\ told'[i] = <<>>
    BY <2>1, <2>2, <2>4 DEF ListInv, TypeInv, Answerable
  <2>9. \A u \in App : pc'[u] \in AskPC => told'[cur'[u]] = <<>>
    <3>1. ASSUME NEW u \in App, pc'[u] \in AskPC PROVE told'[cur'[u]] = <<>>
      <4>1. pc[u] \in AskPC /\ cur[u] # 0 /\ cur[u] \in Ids
        BY <2>1, <3>1, TemplateConstants DEF CallInv, CallOf, AskPC, TypeInv, Ids
      <4>2. cur[u] \notin Late
        BY <2>2, <4>1 DEF Answerable
      <4> QED
        BY <2>1, <2>4, <4>1, <4>2 DEF ListInv
    <3> QED
      BY <3>1
  <2>10. \A i \in Ids : told'[i] # <<>> =>
            /\ Len(told'[i]) = 1
            /\ request'[i].method = "EVENT" \/ result'[i] \notin {"FAILURE", "MAX_APPENDING"}
    <3>1. Len(<<"TIMEOUT">>) = 1
      OBVIOUS
    <3> QED
      BY <2>1, <2>2, <2>4, <3>1 DEF ListInv, Answerable
  <2> QED
    BY <2>1, <2>6, <2>7, <2>8, <2>9, <2>10 DEF ListInv
<1>8. ASSUME NEW t \in App, ConstructStep(t) PROVE ListInv'
  <2>1. \A u \in App : pc'[u] \in AskPC => pc[u] \in AskPC
    BY <1>8, ConstructLeaves DEF TypeInv, AskPC, BuildPC
  <2>2. UNCHANGED <<reply_list, event_list, rx, told, request, cur, result>>
    BY <1>8, ConstructLeaves
  <2> QED
    BY <2>1, <2>2 DEF ListInv, Answerable
<1>9. CASE SubscriptionStep \/ StartYieldThread \/ StopYieldThread \/ DestroyReset \/ DestroyFree
  <2>1. /\ reply_list' \subseteq reply_list /\ event_list' \subseteq event_list
        /\ UNCHANGED <<rx, told, request, cur, result, pc>>
    BY <1>9 DEF SubscriptionStep, SubscriptionAnswered, AnsweredWith, StartYieldThread,
                StopYieldThread, DestroyReset, DestroyFree
  <2> QED
    BY <2>1 DEF ListInv, Answerable
<1>10. ASSUME NEW i \in Ids, Answerable(i), UNCHANGED <<event_list, request, cur, pc, result>>,
              reply_list' \subseteq reply_list,
              told[i] # told'[i] => i \notin reply_list' /\ Len(told'[i]) = 1,
              \A j \in Ids : j # i => told'[j] = told[j],
              rx'.stage = "callback" => rx'.node = i /\ told'[i] = told[i]
       PROVE  ListInv'
  <2>1. ASSUME NEW j \in Ids, Answerable(j), told'[j] = told[j] PROVE Answerable(j)'
    BY <1>10, <2>1 DEF Answerable
  <2>2. \A j \in reply_list' : Answerable(j)'
    BY <1>10, <2>1 DEF ListInv, TypeInv
  <2>3. rx'.stage = "callback" => Answerable(rx.node)'
    BY <1>10 DEF Answerable
  <2>4. \A j \in event_list' : request'[j].method = "EVENT" /\ told'[j] = <<>>
    BY <1>10 DEF ListInv, TypeInv, Answerable
  <2>5. \A u \in App : pc'[u] \in AskPC => told'[cur'[u]] = <<>>
    <3>1. ASSUME NEW u \in App, pc'[u] \in AskPC PROVE told'[cur'[u]] = <<>>
      <4>1. pc[u] \in AskPC /\ cur[u] # 0 /\ cur[u] \in Ids
        BY <1>10, <3>1, TemplateConstants DEF CallInv, CallOf, AskPC, TypeInv, Ids
      <4>2. cur[u] # i
        BY <1>10, <4>1 DEF Answerable
      <4> QED
        BY <1>10, <4>1, <4>2 DEF ListInv
    <3> QED
      BY <3>1
  <2>6. \A j \in Ids : told'[j] # <<>> =>
            /\ Len(told'[j]) = 1
            /\ request'[j].method = "EVENT" \/ result'[j] \notin {"FAILURE", "MAX_APPENDING"}
    BY <1>10 DEF ListInv, Answerable
  <2> QED
    BY <2>2, <2>3, <2>4, <2>5, <2>6 DEF ListInv, Answerable
<1>11. CASE HandleReply
  <2>1. UNCHANGED <<event_list, request, cur, pc, result>> /\ rx.stage = "walk"
    BY <1>11 DEF HandleReply
  <2>2. Len(<<"ACCEPTED">>) = 1 /\ Len(<<"REJECTED">>) = 1
    OBVIOUS
  <2>3. PICK i \in Matching :
           /\ reply_list' \subseteq reply_list
           /\ told[i] # told'[i] => i \notin reply_list' /\ Len(told'[i]) = 1
           /\ \A j \in Ids : j # i => told'[j] = told[j]
           /\ rx'.stage = "callback" => rx'.node = i /\ told'[i] = told[i]
    <3>1. \A i \in Matching : i \in Ids
      BY DEF Matching, TypeInv
    <3> QED
      BY <1>11, <2>1, <2>2, <3>1, ReplyAnswer
  <2>4. i \in Ids /\ Answerable(i)
    BY DEF Matching, TypeInv, ListInv
  <2> QED
    BY <1>10, <2>1, <2>3, <2>4
<1>12. CASE HandleReplyCallback
  <2>1. /\ UNCHANGED <<event_list, request, cur, pc, result>> /\ rx.stage = "callback"
        /\ reply_list' = reply_list \ {rx.node} /\ rx'.stage = "walk"
    BY <1>12 DEF HandleReplyCallback
  <2>2. Len(<<"ACCEPTED">>) = 1 /\ rx.node \in Ids
    BY <1>12, CallbackAnswer
  <2>3. \A j \in Ids : told'[j] = IF j = rx.node THEN <<"ACCEPTED">> ELSE told[j]
    BY <1>12, CallbackAnswer
  <2>4. Answerable(rx.node)
    BY <2>1 DEF ListInv
  <2> QED
    BY <1>10, <2>1, <2>2, <2>3, <2>4
<1>13. CASE HandleEventReply
  <2> DEFINE heard == {i \in event_list : request[i].token = rx.msg.token /\ request[i].callback = "user"}
  <2>1. /\ UNCHANGED <<reply_list, request, cur, pc, result>> /\ rx' = Idle
        /\ \/ UNCHANGED <<event_list, told>>
           \/ event_list' = event_list \ heard /\ Notify(heard, "ACCEPTED")
    BY <1>13 DEF HandleEventReply
  <2>2. /\ heard \in SUBSET Ids /\ "ACCEPTED" \in Ack /\ Idle.stage # "callback"
        /\ \A i \in heard : told[i] = <<>> /\ request[i].method = "EVENT"
    BY LabelType DEF ListInv, TypeInv, Idle
  <2> HIDE DEF heard
  <2>3. \/ UNCHANGED <<event_list, told>>
        \/ /\ event_list' = event_list \ heard
           /\ \A i \in Ids : told'[i] = IF i \in heard THEN <<"ACCEPTED">> ELSE told[i]
    BY <2>1, <2>2, FirstAnswer
  <2>4. ASSUME NEW j \in Ids, Answerable(j) PROVE Answerable(j)'
    BY <2>1, <2>2, <2>3, <2>4 DEF Answerable
  <2>5. \A j \in reply_list' : Answerable(j)'
    BY <2>1, <2>4 DEF ListInv, TypeInv
  <2>6. \A j \in event_list' : request'[j].method = "EVENT" /\ told'[j] = <<>>
    BY <2>1, <2>2, <2>3 DEF ListInv, TypeInv
  <2>7. \A u \in App : pc'[u] \in AskPC => told'[cur'[u]] = <<>>
    <3>1. ASSUME NEW u \in App, pc'[u] \in AskPC PROVE told'[cur'[u]] = <<>>
      <4>1. pc[u] \in AskPC /\ cur[u] # 0 /\ request[cur[u]].method # "EVENT"
        BY <2>1, <3>1 DEF CallInv, CallOf, AskPC
      <4>2. cur[u] \in Ids
        BY <4>1, TemplateConstants DEF TypeInv, Ids
      <4> QED
        BY <2>1, <2>2, <2>3, <4>1, <4>2 DEF ListInv
    <3> QED
      BY <3>1
  <2>8. \A j \in Ids : told'[j] # <<>> =>
            /\ Len(told'[j]) = 1
            /\ request'[j].method = "EVENT" \/ result'[j] \notin {"FAILURE", "MAX_APPENDING"}
    <3>1. Len(<<"ACCEPTED">>) = 1
      OBVIOUS
    <3> QED
      BY <2>1, <2>2, <2>3, <3>1 DEF ListInv
  <2> QED
    BY <2>1, <2>2, <2>5, <2>6, <2>7, <2>8 DEF ListInv
<1>14. CASE HandleControl \/ TraverseReplies \/ TraverseEnd \/ \E t \in Thread : \E msg \in down : Receive(t, msg)
  <2>1. UNCHANGED <<reply_list, event_list, told, request, cur, pc, result>> /\ rx'.stage # "callback"
    BY <1>14, RxShape DEF HandleControl, TraverseReplies, TraverseEnd, Receive, Idle, TypeInv
  <2> QED
    BY <2>1 DEF ListInv, Answerable
<1>15. CASE CloudStep \/ UNCHANGED vars
  BY <1>15, CloudLeaves DEF vars, ListInv, Answerable
<1> QED
  BY <1>1, <1>2, <1>3, <1>4, <1>5, <1>6, <1>7, <1>8, <1>9, <1>11, <1>12, <1>13, <1>14, <1>15, NextIs
     DEF RequestStep, ReceiveStep, HandlerStep

-----------------------------------------------------------------------------
LEMMA InitBase == Init => BaseInv
<1> SUFFICES ASSUME Init PROVE BaseInv
  OBVIOUS
<1>0. "nobody" \notin App /\ NoToken \in Int /\ MaxCalls \in Nat
  BY TemplateConstants DEF NoToken
<1>1. TypeInv
  <2>1. [method |-> "none", callback |-> "none", token |-> NoToken] \in Request
    BY <1>0 DEF Request
  <2>2. <<>> \in Seq(Ack) /\ {} \in SUBSET Code /\ Idle \in Handling
    BY DEF Handling
  <2>3. /\ request \in [Ids -> Request] /\ ack \in [Ids -> Ack] /\ told \in [Ids -> Seq(Ack)]
        /\ seen \in [Ids -> SUBSET Code] /\ result \in [Ids -> Result] /\ pc \in [App -> PC]
    BY <2>1, <2>2, LabelType DEF Init
  <2>4. cur \in [App -> 0 .. MaxCalls] /\ calls \in 0 .. MaxCalls
    BY <1>0 DEF Init
  <2> QED
    BY <1>0, <2>2, <2>3, <2>4 DEF Init, TypeInv
<1>2. LifeInv /\ CallInv /\ FreshInv
  BY DEF Init, LifeInv, CallInv, CallOf, FreshInv, BuildPC, CallPC, AwaitPC
<1>3. RxInv /\ ListInv
  BY DEF Init, RxInv, ListInv, Answerable, Idle, Nobody, AskPC
<1> QED
  BY <1>1, <1>2, <1>3 DEF BaseInv

LEMMA NextBase == BaseInv /\ [Next]_vars => BaseInv'
  BY TypeStep, LifeStep, RxStep, CallStep, FreshStep, ListStep DEF BaseInv

(* The application is told the outcome of a request at most once, and never *)
(* the outcome of a request whose call returned an error, although the     *)
(* request is published before it is listed, every Yield of every thread   *)
(* sweeps the list, and the handler of control data leaves the entry on    *)
(* the list while its callback runs.  No circumstance is excluded.         *)
THEOREM AnsweredOnce == Spec => []OneAnswer
<1>1. BaseInv => OneAnswer
  <2> SUFFICES ASSUME BaseInv, NEW i \in Ids
               PROVE  /\ Len(told[i]) <= 1
                      /\ request[i].method # "EVENT" /\ result[i] \in {"FAILURE", "MAX_APPENDING"}
                            => told[i] = <<>>
    BY DEF OneAnswer
  <2>1. Len(told[i]) \in {0, 1}
    <3>1. CASE told[i] = <<>>
      <4>1. Len(<<>>) = 0
        OBVIOUS
      <4> QED
        BY <3>1, <4>1
    <3>2. CASE told[i] # <<>>
      BY <3>2 DEF BaseInv, ListInv
    <3> QED
      BY <3>1, <3>2
  <2>2. told[i] = <<>> \/ request[i].method = "EVENT" \/ result[i] \notin {"FAILURE", "MAX_APPENDING"}
    BY DEF BaseInv, ListInv
  <2>3. Len(told[i]) <= 1
    <3>1. \A n \in {0, 1} : n <= 1
      OBVIOUS
    <3> QED
      BY <2>1, <3>1, Zenon
  <2> QED
    BY <2>2, <2>3
<1> QED
  BY <1>1, InitBase, NextBase, PTL DEF Spec

-----------------------------------------------------------------------------
(***************************************************************************)
(* Messages.  Held is the message in the receiver's hands, Carried the     *)
(* calls some message is of.                                               *)
(***************************************************************************)
Held    == IF rx = Idle THEN {} ELSE {rx.msg}
Carried == {m.of : m \in up \cup down \cup Held}

UpTrue(m) ==
    /\ m.of = 0 <=> m.method = "CLEAR"
    /\ m.of # 0 => /\ m.of <= calls /\ m.token = request[m.of].token
                   /\ m.method = request[m.of].method

DownTrue(m) ==
    /\ m.of = 0 <=> m.type = "control"
    /\ m.of # 0 => m.of <= calls /\ m.token = request[m.of].token
    /\ m.type = "reply" => request[m.of].method \in {"REPORT", "GET"}
    /\ m.type = "event_reply" => request[m.of].method = "EVENT"

(* A message tells the truth about the call it is of, which has been       *)
(* published; no answer was seen of a call that was not made.              *)
MessageInv ==
    /\ \A m \in up : UpTrue(m)
    /\ \A m \in down \cup Held : DownTrue(m)
    /\ \A t \in App : pc[t] \in {"publish", "post"} => cur[t] \notin Carried
    /\ \A i \in Ids : i > calls => seen[i] = {}

(* What the receiver holds after a step of its own.                        *)
LEMMA HeldStep ==
  ASSUME TypeInv
  PROVE  /\ rx # Idle => Held = {rx.msg} /\ rx.msg \in Message
         /\ HandlerStep => rx # Idle /\ Held' \subseteq Held
<1>1. rx.stage \in {"start", "walk", "callback"} => rx # Idle
  BY DEF Idle
<1>2. HandlerStep => rx # Idle
  BY <1>1 DEF HandlerStep, HandleControl, TraverseReplies, HandleReply, HandleReplyCallback,
     TraverseEnd, HandleEventReply
<1>3. HandlerStep => rx' = Idle \/ rx'.msg = rx.msg
  <2>1. TraverseReplies => rx'.msg = rx.msg
    <3>1. TraverseReplies => rx = [stage |-> "start", by |-> rx.by, msg |-> rx.msg]
      BY RxShape DEF TraverseReplies, TypeInv
    <3> QED
      BY <3>1 DEF TraverseReplies
  <2>2. HandleReply => rx'.msg = rx.msg
    BY DEF HandleReply
  <2> QED
    BY <2>1, <2>2 DEF HandlerStep, HandleControl, HandleReplyCallback, TraverseEnd, HandleEventReply
<1>4. rx # Idle => Held = {rx.msg} /\ rx.msg \in Message
  <2>1. rx \in Handling
    BY DEF TypeInv
  <2>2. rx # Idle => rx.msg \in Message
    BY <2>1, RxShape, Zenon
  <2> QED
    BY <2>2 DEF Held
<1>5. ASSUME HandlerStep PROVE Held' \subseteq Held
  <2>1. CASE rx' = Idle
    BY <2>1 DEF Held
  <2>2. CASE rx' # Idle
    BY <1>2, <1>3, <1>4, <1>5, <2>2 DEF Held
  <2> QED
    BY <2>1, <2>2
<1> QED
  BY <1>2, <1>4, <1>5

(* Who is noted: the call the message in hand is of.                       *)
LEMMA NotedOne ==
  ASSUME TypeInv, rx # Idle, HandlerStep
  PROVE  \A i \in Ids : i # rx.msg.of => seen'[i] = seen[i]
<1>1. Noted(rx.msg) => \A i \in Ids : i # rx.msg.of => seen'[i] = seen[i]
  BY DEF Noted, TypeInv
<1> QED
  BY <1>1 DEF HandlerStep, HandleControl, TraverseReplies, HandleReply, HandleReplyCallback,
     TraverseEnd, HandleEventReply, answer

(* The calls messages are of have been made.                               *)
LEMMA CarriedCalls ==
  ASSUME TypeInv, MessageInv
  PROVE  \A i \in Carried : /\ i \in Nat /\ i <= calls /\ i # calls + 1
                            /\ i # 0 => i \in Ids
<1>1. \A m \in up \cup down \cup Held : m.of \in 0 .. MaxCalls
  <2>1. \A m \in up : m.of \in 0 .. MaxCalls
    BY DEF TypeInv, UpMessage
  <2>2. \A m \in down \cup Held : m.of \in 0 .. MaxCalls
    BY HeldStep DEF TypeInv, Message, Held
  <2> QED
    BY <2>1, <2>2
<1>2. \A m \in up \cup down \cup Held : m.of # 0 => m.of <= calls
  BY DEF MessageInv, UpTrue, DownTrue
<1>3. \A i \in Carried : i \in 0 .. MaxCalls /\ (i # 0 => i <= calls)
  BY <1>1, <1>2 DEF Carried
<1> QED
  BY <1>3, TemplateConstants DEF TypeInv, Ids

LEMMA MessageStep ==
  ASSUME BaseInv, MessageInv, [Next]_vars
  PROVE  MessageInv'
<1> USE DEF life, lists, callv, answer, wire
<1>0. TypeInv /\ LifeInv /\ RxInv /\ CallInv /\ FreshInv /\ ListInv
  BY DEF BaseInv
<1>b. \A m \in up \cup down \cup Held : m.of \in Nat /\ m.of <= calls /\ (m.of # 0 => m.of \in Ids)
  BY <1>0, CarriedCalls DEF Carried
<1>1. ASSUME NEW t \in App, MayCall(t), UNCHANGED <<up, down, rx, seen>>, calls' = calls + 1,
             \A i \in Ids : i # calls + 1 => request'[i] = request[i],
             \A u \in App : (cur'[u] = cur[u] /\ pc'[u] = pc[u]) \/ cur'[u] = calls + 1
      PROVE  MessageInv'
  <2>1. Held' = Held /\ Carried' = Carried /\ calls \in Nat /\ \A i \in Ids : i \in Nat
    BY <1>0, <1>1 DEF Held, Carried, TypeInv, Ids
  <2>2. \A m \in up \cup down \cup Held : m.of <= calls' /\ m.of # calls + 1 /\ calls + 1 \notin Carried
    BY <1>1, <1>b, <2>1 DEF Carried
  <2>3. \A m \in up : UpTrue(m)'
    BY <1>1, <1>b, <2>2 DEF MessageInv, UpTrue
  <2>4. \A m \in down \cup Held : DownTrue(m)'
    <3> SUFFICES ASSUME NEW m \in down \cup Held PROVE DownTrue(m)'
      OBVIOUS
    <3>1. DownTrue(m) /\ m.of # calls + 1 /\ m.of <= calls'
      BY <2>2 DEF MessageInv
    <3>2. m.of # 0 => request'[m.of] = request[m.of]
      BY <1>1, <1>b, <3>1
    <3>3. m.of = 0 => m.type \notin {"reply", "event_reply"}
      BY <3>1 DEF DownTrue
    <3> QED
      BY <3>1, <3>2, <3>3 DEF DownTrue
  <2>5. \A u \in App : pc'[u] \in {"publish", "post"} => cur'[u] \notin Carried
    BY <1>1, <1>b, <2>1 DEF MessageInv, Carried
  <2>6. \A i \in Ids : i > calls' => seen'[i] = {}
    BY <1>1, <2>1 DEF MessageInv
  <2> QED
    BY <1>1, <2>1, <2>3, <2>4, <2>5, <2>6 DEF MessageInv
<1>2. ASSUME NEW t \in App,
             \/ \E call \in Calls : BuildDocument(t, call)
             \/ \E callback \in {"none", "user"} : CreateEvent(t, callback)
             \/ ControlReply(t)
      PROVE  MessageInv'
  <2>1. /\ MayCall(t) /\ UNCHANGED <<up, down, rx, seen>> /\ calls' = calls + 1
        /\ \A i \in Ids : i # calls + 1 => request'[i] = request[i]
        /\ \A u \in App : (cur'[u] = cur[u] /\ pc'[u] = pc[u]) \/ cur'[u] = calls + 1
    BY <1>0, <1>2 DEF BuildDocument, CreateEvent, ControlReply, NewCall, TypeInv
  <2> QED
    BY <1>1, <2>1
<1>3. ASSUME NEW t \in App, PublishRequest(t) \/ PostEvent(t) PROVE MessageInv'
  <2>1. /\ pc[t] \in {"publish", "post"} /\ UNCHANGED <<down, rx, seen, calls, request>>
        /\ up' \in {up, up \cup {Sent(cur[t])}}
        /\ pc'[t] \notin {"publish", "post"}
        /\ \A u \in App \ {t} : cur'[u] = cur[u] /\ pc'[u] = pc[u]
    BY <1>0, <1>3 DEF PublishRequest, PostEvent, Return, Goto, TypeInv
  <2>2. /\ cur[t] # 0 /\ cur[t] <= calls /\ request[cur[t]].method # "CLEAR"
        /\ \A u \in App \ {t} : cur[u] # cur[t]
    BY <1>0, <2>1 DEF CallInv, CallOf
  <2>3. UpTrue(Sent(cur[t])) /\ Sent(cur[t]).of = cur[t]
    BY <2>2 DEF UpTrue, Sent
  <2>4. Held' = Held /\ Carried' \subseteq Carried \cup {cur[t]}
    BY <2>1, <2>3 DEF Held, Carried
  <2>5. \A m \in up' : UpTrue(m)'
    BY <2>1, <2>3 DEF MessageInv, UpTrue
  <2>6. \A m \in down' \cup Held' : DownTrue(m)'
    BY <2>1, <2>4 DEF MessageInv, DownTrue
  <2>7. \A u \in App : pc'[u] \in {"publish", "post"} => cur'[u] \notin Carried'
    BY <2>1, <2>2, <2>4 DEF MessageInv
  <2> QED
    BY <2>1, <2>5, <2>6, <2>7 DEF MessageInv
<1>4. ASSUME UNCHANGED <<calls, request>>, Carried' \subseteq Carried \cup {0},
             \A u \in App : pc'[u] \in {"publish", "post"} =>
                               pc[u] \in {"publish", "post"} /\ cur'[u] = cur[u],
             \A m \in up' : UpTrue(m)', \A m \in down' \cup Held' : DownTrue(m)',
             \A i \in Ids : i > calls => seen'[i] = {}
      PROVE  MessageInv'
  <2>1. \A u \in App : pc[u] \in {"publish", "post"} => cur[u] # 0
    BY <1>0 DEF CallInv, CallOf
  <2> QED
    BY <1>4, <2>1 DEF MessageInv
<1>5. ASSUME UNCHANGED <<up, down, rx, seen, calls, request>>,
             \A u \in App : pc'[u] \in {"publish", "post"} =>
                               pc[u] \in {"publish", "post"} /\ cur'[u] = cur[u]
      PROVE  MessageInv'
  <2>1. Held' = Held /\ Carried' = Carried
    BY <1>5 DEF Held, Carried
  <2> QED
    BY <1>5, <2>1 DEF MessageInv, UpTrue, DownTrue
<1>6. ASSUME NEW t \in App,
             AddRequest(t) \/ WaitForAck(t) \/ Yield(t) \/ SweepReplies(t) \/ SweepEvents(t) \/ YieldReturn(t)
      PROVE  MessageInv'
  <2>1. /\ UNCHANGED <<up, down, rx, seen, calls, request>>
        /\ \A u \in App : pc'[u] \in {"publish", "post"} =>
                             pc[u] \in {"publish", "post"} /\ cur'[u] = cur[u]
    BY <1>0, <1>6 DEF AddRequest, AddUnless, WaitForAck, WaitFor, Yield, SweepReplies, SweepRepliesWith,
                SweepEvents, SweepEventsOf, YieldReturn, Return, Goto, TypeInv
  <2> QED
    BY <1>5, <2>1
<1>7. ASSUME NEW t \in App, ConstructStep(t) PROVE MessageInv'
  <2>1. \A u \in App : pc'[u] \in {"publish", "post"} => pc[u] \in {"publish", "post"}
    BY <1>0, <1>7, ConstructLeaves DEF TypeInv, BuildPC
  <2>2. UNCHANGED <<up, down, rx, seen, calls, request, cur>>
    BY <1>7, ConstructLeaves
  <2> QED
    BY <1>5, <2>1, <2>2
<1>8. CASE SubscriptionStep \/ StartYieldThread \/ StopYieldThread \/ DestroyReset \/ DestroyFree
  <2>1. UNCHANGED <<up, down, rx, seen, calls, request, cur, pc>>
    BY <1>8 DEF SubscriptionStep, SubscriptionAnswered, AnsweredWith, StartYieldThread,
                StopYieldThread, DestroyReset, DestroyFree
  <2> QED
    BY <1>5, <2>1
<1>9. ASSUME NEW t \in Thread, NEW msg \in down, Receive(t, msg) PROVE MessageInv'
  <2>1. /\ UNCHANGED <<up, seen, calls, request, cur, pc>> /\ down' \subseteq down /\ rx'.msg = msg
    BY <1>9 DEF Receive
  <2>2. Held' \subseteq {msg}
    BY <2>1 DEF Held
  <2>3. Carried' \subseteq Carried
    BY <2>1, <2>2 DEF Carried
  <2>4. \A m \in down' \cup Held' : DownTrue(m)'
    BY <2>1, <2>2 DEF MessageInv, DownTrue
  <2>5. \A m \in up' : UpTrue(m)'
    BY <2>1 DEF MessageInv, UpTrue
  <2> QED
    BY <1>4, <2>1, <2>3, <2>4, <2>5 DEF MessageInv
<1>10. CASE HandlerStep
  <2>1. UNCHANGED <<calls, request, cur, pc>>
    BY <1>10, ReceiveLeaves DEF ReceiveStep
  <2>2. /\ UNCHANGED down
        /\ \/ UNCHANGED up
           \/ up' = up \cup {[of |-> 0, method |-> "CLEAR", token |-> rx.msg.token]}
    BY <1>10 DEF HandlerStep, HandleControl, TraverseReplies, HandleReply, HandleReplyCallback,
                 TraverseEnd, HandleEventReply
  <2>3. Held' \subseteq Held /\ rx # Idle /\ rx.msg \in Held
    BY <1>0, <1>10, HeldStep
  <2>4. Carried' \subseteq Carried \cup {0}
    BY <2>2, <2>3 DEF Carried
  <2>5. \A m \in down' \cup Held' : DownTrue(m)'
    BY <2>1, <2>2, <2>3 DEF MessageInv, DownTrue
  <2>6. UpTrue([of |-> 0, method |-> "CLEAR", token |-> rx.msg.token])'
    BY DEF UpTrue
  <2>7. \A m \in up' : UpTrue(m)'
    BY <2>1, <2>2, <2>6 DEF MessageInv, UpTrue
  <2>8. \A i \in Ids : i > calls => i # rx.msg.of
    BY <1>0, <1>b, <2>3 DEF TypeInv, Ids
  <2>9. \A i \in Ids : i > calls => seen'[i] = {}
    BY <1>0, <1>10, <2>3, <2>8, NotedOne DEF MessageInv
  <2> QED
    BY <1>4, <2>1, <2>4, <2>5, <2>7, <2>9
<1>11. ASSUME NEW m \in up, NEW code \in Code, NEW control \in BOOLEAN, CloudReplies(m, code, control)
       PROVE  MessageInv'
  <2> DEFINE reply == ReplyTo(m, code, control)
  <2>1. /\ UNCHANGED <<rx, seen, calls, request, cur, pc>> /\ up' \subseteq up
        /\ down' = down \cup {reply} /\ m.method \notin {"REPLY", "CLEAR"}
    BY <1>11 DEF CloudReplies
  <2>2. UpTrue(m) /\ m.method \in {"REPORT", "GET", "EVENT"}
    BY <1>0, <2>1 DEF MessageInv, TypeInv, UpMessage
  <2>3. reply.of = m.of /\ DownTrue(reply)
    BY <2>2 DEF ReplyTo, DownTrue, UpTrue
  <2> HIDE DEF reply
  <2>4. Held' = Held
    BY <2>1 DEF Held
  <2>5. Carried' \subseteq Carried
    BY <2>1, <2>3, <2>4 DEF Carried
  <2>6. \A n \in down' \cup Held' : DownTrue(n)'
    BY <2>1, <2>3, <2>4 DEF MessageInv, DownTrue
  <2>7. \A n \in up' : UpTrue(n)'
    BY <2>1 DEF MessageInv, UpTrue
  <2> QED
    BY <1>4, <2>1, <2>5, <2>6, <2>7 DEF MessageInv
<1>12. CASE CloudOrders
  <2> DEFINE order == [type |-> "control", of |-> 0, token |-> CloudToken, code |-> "ok", control |-> FALSE]
  <2>1. UNCHANGED <<rx, seen, calls, request, cur, pc, up>> /\ down' = down \cup {order}
    BY <1>12 DEF CloudOrders
  <2>2. order.of = 0 /\ DownTrue(order)
    BY DEF DownTrue
  <2> HIDE DEF order
  <2>3. Held' = Held
    BY <2>1 DEF Held
  <2>4. Carried' \subseteq Carried \cup {0}
    BY <2>1, <2>2, <2>3 DEF Carried
  <2>5. \A n \in down' \cup Held' : DownTrue(n)'
    BY <2>1, <2>2, <2>3 DEF MessageInv, DownTrue
  <2>6. \A n \in up' : UpTrue(n)'
    BY <2>1 DEF MessageInv, UpTrue
  <2> QED
    BY <1>4, <2>1, <2>4, <2>5, <2>6 DEF MessageInv
<1>13. ASSUME NEW i \in Ids, RunOut(i) PROVE MessageInv'
  <2>1. UNCHANGED <<up, down, rx, seen, calls, request, cur, pc>>
    BY <1>13 DEF RunOut
  <2> QED
    BY <1>5, <2>1
<1>14. CASE UNCHANGED vars
  BY <1>5, <1>14 DEF vars
<1> QED
  BY <1>2, <1>3, <1>6, <1>7, <1>8, <1>9, <1>10, <1>11, <1>12, <1>13, <1>14, NextIs
     DEF RequestStep, ReceiveStep, CloudStep, Cloud, Code

-----------------------------------------------------------------------------
(* Who gets a message: only a call that is being published.                *)
Publishing == {u \in App : pc[u] \in {"publish", "post"}}

LEMMA CarriedStep ==
  ASSUME TypeInv, [Next]_vars
  PROVE  Carried' \subseteq Carried \cup {0} \cup {cur[u] : u \in Publishing}
<1> USE DEF life, lists, callv, answer, wire
<1>0. ASSUME UNCHANGED <<up, down, rx>>
      PROVE  Carried' \subseteq Carried \cup {0} \cup {cur[u] : u \in Publishing}
  BY <1>0 DEF Carried, Held
<1>1. ASSUME NEW t \in App, PublishRequest(t) \/ PostEvent(t)
      PROVE  Carried' \subseteq Carried \cup {0} \cup {cur[u] : u \in Publishing}
  <2>1. /\ t \in Publishing /\ UNCHANGED <<down, rx>> /\ up' \in {up, up \cup {Sent(cur[t])}}
        /\ Sent(cur[t]).of = cur[t]
    BY <1>1 DEF PublishRequest, PostEvent, Publishing, Sent
  <2> QED
    BY <2>1 DEF Carried, Held
<1>2. ASSUME NEW t \in App, RequestStep(t), ~PublishRequest(t), ~PostEvent(t)
      PROVE  UNCHANGED <<up, down, rx>>
  BY <1>2 DEF RequestStep, BuildDocument, CreateEvent, ControlReply, AddRequest, AddUnless,
     WaitForAck, WaitFor, Yield, SweepReplies, SweepRepliesWith, SweepEvents, SweepEventsOf, YieldReturn
<1>3. ASSUME NEW t \in Thread, NEW msg \in down, Receive(t, msg)
      PROVE  Carried' \subseteq Carried \cup {0} \cup {cur[u] : u \in Publishing}
  <2>1. UNCHANGED up /\ down' \subseteq down /\ rx'.msg = msg
    BY <1>3 DEF Receive
  <2> QED
    BY <2>1 DEF Carried, Held
<1>4. CASE HandlerStep
  <2>1. /\ UNCHANGED down
        /\ \/ UNCHANGED up
           \/ up' = up \cup {[of |-> 0, method |-> "CLEAR", token |-> rx.msg.token]}
    BY <1>4 DEF HandlerStep, HandleControl, TraverseReplies, HandleReply, HandleReplyCallback,
                TraverseEnd, HandleEventReply
  <2>2. Held' \subseteq Held
    BY <1>4, HeldStep
  <2> QED
    BY <2>1, <2>2 DEF Carried
<1>5. ASSUME NEW m \in up, NEW code \in Code, NEW control \in BOOLEAN, CloudReplies(m, code, control)
      PROVE  Carried' \subseteq Carried \cup {0} \cup {cur[u] : u \in Publishing}
  <2>1. UNCHANGED rx /\ up' \subseteq up /\ down' = down \cup {ReplyTo(m, code, control)}
    BY <1>5 DEF CloudReplies
  <2>2. ReplyTo(m, code, control).of = m.of
    BY DEF ReplyTo
  <2> QED
    BY <2>1, <2>2 DEF Carried, Held
<1>6. CASE CloudOrders
  <2> DEFINE order == [type |-> "control", of |-> 0, token |-> CloudToken, code |-> "ok", control |-> FALSE]
  <2>1. UNCHANGED <<rx, up>> /\ down' = down \cup {order} /\ order.of = 0
    BY <1>6 DEF CloudOrders
  <2> HIDE DEF order
  <2> QED
    BY <2>1 DEF Carried, Held
<1>7. ASSUME NEW i \in Ids, RunOut(i) PROVE UNCHANGED <<up, down, rx>>
  BY <1>7 DEF RunOut
<1>8. ASSUME NEW t \in App, ConstructStep(t) PROVE UNCHANGED <<up, down, rx>>
  BY <1>8, ConstructLeaves
<1>9. SubscriptionStep \/ StartYieldThread \/ StopYieldThread \/ DestroyReset \/ DestroyFree
         => UNCHANGED <<up, down, rx>>
  BY DEF SubscriptionStep, SubscriptionAnswered, AnsweredWith, StartYieldThread,
         StopYieldThread, DestroyReset, DestroyFree
<1>10. UNCHANGED vars => UNCHANGED <<up, down, rx>>
  BY DEF vars
<1> QED
  BY <1>0, <1>1, <1>2, <1>3, <1>4, <1>5, <1>6, <1>7, <1>8, <1>9, <1>10, NextIs
     DEF RequestStep, ReceiveStep, CloudStep, Cloud, Code

(***************************************************************************)
(* Client tokens.  Call i asks for an answer, under a token of its own.    *)
(***************************************************************************)
Asking(i) ==
    /\ i <= calls /\ request[i].method \in {"REPORT", "GET", "EVENT"}
    /\ request[i].token # NoToken

(* build_empty_json and the event list give every request another token    *)
(* (no two threads race in it), and what is listed or on its way has one.  *)
TokenInv ==
    /\ \A i \in Ids : Asking(i) => request[i].token \in 0 .. token_num - 1
    /\ \A i, j \in Ids : Asking(i) /\ Asking(j) /\ request[i].token = request[j].token => i = j
    /\ \A i \in reply_list \cup event_list : Asking(i)
    /\ \A i \in Carried \ {0} : Asking(i) \/ request[i].method = "REPLY"
    /\ \A t \in App : pc[t] \in {"publish", "add", "post"} =>
                         Asking(cur[t]) \/ request[cur[t]].method = "REPLY"

LEMMA TokenStep ==
  ASSUME BaseInv, MessageInv, TokenInv, [Next]_vars, "racing_tokens" \notin Adversity
  PROVE  TokenInv'
<1> USE DEF life, lists, callv, answer, wire
<1>0. TypeInv /\ LifeInv /\ RxInv /\ CallInv /\ FreshInv /\ ListInv
  BY DEF BaseInv
<1>1. ASSUME NEW t \in App, MayCall(t), NEW n, n = calls + 1, calls' = n, UNCHANGED <<reply_list, Carried>>,
             \A i \in Ids : i # n => request'[i] = request[i],
             event_list' \subseteq event_list \cup {n},
             \/ UNCHANGED token_num /\ ~Asking(n)' /\ n \notin event_list'
             \/ token_num' = token_num + 1 /\ Asking(n)' /\ request'[n].token = token_num,
             \A u \in App : \/ cur'[u] = cur[u] /\ pc'[u] = pc[u]
                            \/ /\ cur'[u] = n
                               /\ Asking(n)' \/ request'[n].method = "REPLY"
      PROVE  TokenInv'
  <2>1. n \in Ids /\ n = calls + 1 /\ calls \in Nat /\ token_num \in Nat /\ \A i \in Ids : i \in Nat
    BY <1>0, <1>1, FreshBegins DEF TypeInv, Ids
  <2>2. \A i \in Ids : i # n => (Asking(i)' <=> Asking(i))
    <3>1. \A i \in Ids : i # n => (i <= n <=> i <= calls)
      BY <2>1
    <3> QED
      BY <1>1, <3>1 DEF Asking
  <2>3. token_num' \in Nat /\ token_num <= token_num'
    BY <1>1, <2>1
  <2>4. \A i \in Ids : Asking(i) => request[i].token \in Int /\ 0 <= request[i].token /\ request[i].token < token_num
    BY <2>1 DEF TokenInv
  <2>5. \A i \in Ids : Asking(i)' => request'[i].token \in 0 .. token_num' - 1
    <3>1. ASSUME NEW i \in Ids, Asking(i)', i # n PROVE request'[i].token \in 0 .. token_num' - 1
      BY <1>1, <2>1, <2>2, <2>3, <2>4, <3>1
    <3>2. Asking(n)' => request'[n].token \in 0 .. token_num' - 1
      BY <1>1, <2>1
    <3> QED
      BY <3>1, <3>2
  <2>6. ASSUME NEW i \in Ids, NEW j \in Ids, Asking(i)', Asking(j)', request'[i].token = request'[j].token
        PROVE  i = j
    <3>1. CASE i # n /\ j # n
      BY <1>1, <2>2, <2>6, <3>1 DEF TokenInv
    <3>2. CASE i = n /\ j # n
      BY <1>1, <2>1, <2>2, <2>4, <2>6, <3>2
    <3>3. CASE i # n /\ j = n
      BY <1>1, <2>1, <2>2, <2>4, <2>6, <3>3
    <3> QED
      BY <3>1, <3>2, <3>3
  <2>7. \A i \in reply_list' \cup event_list' : Asking(i)'
    <3>1. n \notin reply_list /\ n \notin event_list
      BY <1>0, <1>1, FreshBegins
    <3> QED
      BY <1>0, <1>1, <2>2, <3>1 DEF TokenInv, TypeInv
  <2>8. \A i \in Carried' \ {0} : Asking(i)' \/ request'[i].method = "REPLY"
    <3>1. \A i \in Carried \ {0} : i \in Ids /\ i # n
      BY <1>0, <2>1, CarriedCalls
    <3> QED
      BY <1>1, <2>2, <3>1 DEF TokenInv
  <2>9. \A u \in App : pc'[u] \in {"publish", "add", "post"} =>
                          Asking(cur[u])' \/ request'[cur'[u]].method = "REPLY"
    <3> SUFFICES ASSUME NEW u \in App, pc'[u] \in {"publish", "add", "post"}
                 PROVE  Asking(cur[u])' \/ request'[cur'[u]].method = "REPLY"
      OBVIOUS
    <3>1. CASE cur'[u] = n /\ (Asking(n)' \/ request'[n].method = "REPLY")
      BY <1>1, <3>1 DEF Asking
    <3>2. CASE cur'[u] = cur[u] /\ pc'[u] = pc[u]
      <4>1. cur[u] \in Ids /\ cur[u] # n
        BY <1>0, <2>1, <3>2, TemplateConstants DEF CallInv, CallOf, TypeInv, Ids
      <4>2. Asking(cur[u]) \/ request[cur[u]].method = "REPLY"
        BY <3>2 DEF TokenInv
      <4>3. request'[cur[u]] = request[cur[u]]
        BY <1>1, <4>1
      <4>4. cur[u] <= calls'
        <5>1. cur[u] <= calls /\ cur[u] \in Nat
          BY <1>0, FreshCalls
        <5>2. calls' = n
          BY <1>1
        <5> QED
          BY <2>1, <5>1, <5>2
      <4> QED
        BY <3>2, <4>2, <4>3, <4>4 DEF Asking
    <3> QED
      BY <1>1, <3>1, <3>2
  <2> QED
    BY <2>5, <2>6, <2>7, <2>8, <2>9 DEF TokenInv, Asking
<1>2. ASSUME NEW t \in App,
             \/ \E call \in Calls : BuildDocument(t, call)
             \/ \E callback \in {"none", "user"} : CreateEvent(t, callback)
             \/ ControlReply(t)
      PROVE  TokenInv'
  <2>0. PICK n : n = calls + 1
    OBVIOUS
  <2>1. /\ MayCall(t) /\ calls' = n /\ UNCHANGED <<reply_list, up, down, rx>>
        /\ \A i \in Ids : i # n => request'[i] = request[i]
    BY <1>0, <1>2, <2>0 DEF BuildDocument, CreateEvent, ControlReply, NewCall, TypeInv
  <2>2. UNCHANGED <<reply_list, Carried>>
    BY <2>1 DEF Carried, Held
  <2>3. n \in Ids /\ token_num \in Nat /\ n <= n
    BY <1>0, <2>0, <2>1, FreshBegins DEF TypeInv, Ids
  <2>4. token_num # NoToken
    BY <2>3 DEF NoToken
  <2>5. ASSUME NEW call \in Calls, BuildDocument(t, call) PROVE TokenInv'
    <3>1. /\ request'[n] = [method |-> call[1], callback |-> call[2], token |-> token_num]
          /\ token_num' = token_num + 1 /\ UNCHANGED event_list
          /\ cur' = [cur EXCEPT ![t] = n] /\ pc' = [pc EXCEPT ![t] = "publish"]
      BY <1>0, <2>0, <2>3, <2>5 DEF BuildDocument, NewCall, TypeInv
    <3>2. call[1] \in {"REPORT", "GET"}
      BY TemplateConstants
    <3>3. Asking(n)' /\ request'[n].token = token_num
      BY <2>1, <2>3, <2>4, <3>1, <3>2 DEF Asking
    <3>4. \A u \in App : (cur'[u] = cur[u] /\ pc'[u] = pc[u]) \/ cur'[u] = n
      BY <1>0, <3>1 DEF TypeInv
    <3> QED
      BY <1>1, <2>0, <2>1, <2>2, <3>1, <3>3, <3>4
  <2>6. ASSUME ControlReply(t) PROVE TokenInv'
    <3>1. /\ request'[n].method = "REPLY" /\ UNCHANGED <<token_num, event_list>>
          /\ cur' = [cur EXCEPT ![t] = n] /\ pc' = [pc EXCEPT ![t] = "publish"]
      BY <1>0, <2>0, <2>3, <2>6 DEF ControlReply, NewCall, TypeInv
    <3>2. n \notin event_list
      BY <1>0, <2>0, <2>1, FreshBegins
    <3>3. ~Asking(n)'
      BY <3>1 DEF Asking
    <3>4. \A u \in App : (cur'[u] = cur[u] /\ pc'[u] = pc[u]) \/ cur'[u] = n
      BY <1>0, <3>1 DEF TypeInv
    <3> QED
      BY <1>1, <2>0, <2>1, <2>2, <3>1, <3>2, <3>3, <3>4
  <2>7. ASSUME NEW callback \in {"none", "user"}, CreateEvent(t, callback) PROVE TokenInv'
    <3>1. CASE Cardinality(event_list) < MAX_EVENT_WAIT_REPLY
      <4>1. /\ request'[n] = [method |-> "EVENT", callback |-> callback, token |-> token_num]
            /\ token_num' = token_num + 1 /\ event_list' = event_list \cup {n}
            /\ cur' = [cur EXCEPT ![t] = n] /\ pc' = [pc EXCEPT ![t] = "post"]
        BY <1>0, <2>0, <2>3, <2>7, <3>1 DEF CreateEvent, NewCall, TypeInv
      <4>2. Asking(n)' /\ request'[n].token = token_num
        BY <2>1, <2>3, <2>4, <4>1 DEF Asking
      <4>3. \A u \in App : (cur'[u] = cur[u] /\ pc'[u] = pc[u]) \/ cur'[u] = n
        BY <1>0, <4>1 DEF TypeInv
      <4> QED
        BY <1>1, <2>0, <2>1, <2>2, <4>1, <4>2, <4>3
    <3>2. CASE ~(Cardinality(event_list) < MAX_EVENT_WAIT_REPLY)
      <4>1. /\ request'[n] = [[method |-> "EVENT", callback |-> callback, token |-> token_num]
                                EXCEPT !.token = NoToken]
            /\ UNCHANGED <<token_num, event_list, cur, pc>>
        BY <1>0, <2>0, <2>3, <2>7, <3>2 DEF CreateEvent, TypeInv
      <4>2. n \notin event_list
        BY <1>0, <2>0, <2>1, FreshBegins
      <4>3. ~Asking(n)'
        BY <4>1 DEF Asking
      <4> QED
        BY <1>1, <2>0, <2>1, <2>2, <4>1, <4>2, <4>3
    <3> QED
      BY <3>1, <3>2
  <2> QED
    BY <1>2, <2>5, <2>6, <2>7
<1>3. ASSUME UNCHANGED <<request, calls, token_num>>,
             \A i \in reply_list' \cup event_list' : i \in reply_list \cup event_list \/ Asking(i),
             \A u \in App : pc'[u] \in {"publish", "add", "post"} =>
                               pc[u] \in {"publish", "add", "post"} /\ cur'[u] = cur[u]
      PROVE  TokenInv'
  <2>1. \A i : Asking(i)' <=> Asking(i)
    BY <1>3 DEF Asking
  <2>2. \A i \in Carried' \ {0} : Asking(i) \/ request[i].method = "REPLY"
    BY <1>0, CarriedStep DEF TokenInv, Publishing
  <2>3. \A u \in App : pc'[u] \in {"publish", "add", "post"} =>
                          Asking(cur'[u]) \/ request[cur'[u]].method = "REPLY"
    BY <1>3 DEF TokenInv
  <2> QED
    BY <1>3, <2>1, <2>2, <2>3 DEF TokenInv, Asking
<1>4. ASSUME NEW t \in App, AddRequest(t) PROVE TokenInv'
  <2>1. /\ UNCHANGED <<request, calls, token_num, event_list>>
        /\ reply_list' \subseteq reply_list \cup {cur[t]} /\ pc[t] = "add"
        /\ \A u \in App : pc'[u] \in {"publish", "add", "post"} =>
                             pc[u] \in {"publish", "add", "post"} /\ cur'[u] = cur[u]
    BY <1>0, <1>4 DEF AddRequest, AddUnless, Return, Goto, TypeInv
  <2>2. Asking(cur[t])
    BY <1>0, <2>1 DEF TokenInv, CallInv, CallOf
  <2> QED
    BY <1>3, <2>1, <2>2
<1>5. ASSUME NEW t \in App,
             \/ PublishRequest(t) \/ PostEvent(t) \/ WaitForAck(t) \/ Yield(t)
             \/ SweepReplies(t) \/ SweepEvents(t) \/ YieldReturn(t)
      PROVE  TokenInv'
  <2>1. /\ UNCHANGED <<request, calls, token_num>>
        /\ reply_list' \subseteq reply_list /\ event_list' \subseteq event_list
        /\ \A u \in App : pc'[u] \in {"publish", "add", "post"} =>
                             pc[u] \in {"publish", "add", "post"} /\ cur'[u] = cur[u]
    BY <1>0, <1>5 DEF PublishRequest, PostEvent, WaitForAck, WaitFor, Yield, SweepReplies,
                SweepRepliesWith, SweepEvents, SweepEventsOf, YieldReturn, Return, Goto, TypeInv
  <2> QED
    BY <1>3, <2>1
<1>6. ASSUME NEW t \in App, ConstructStep(t) PROVE TokenInv'
  <2>1. \A u \in App : pc'[u] \in {"publish", "add", "post"} => pc[u] \in {"publish", "add", "post"}
    BY <1>0, <1>6, ConstructLeaves DEF TypeInv, BuildPC
  <2>2. UNCHANGED <<request, calls, token_num, reply_list, event_list, cur>>
    BY <1>6, ConstructLeaves
  <2> QED
    BY <1>3, <2>1, <2>2
<1>7. CASE SubscriptionStep \/ StartYieldThread \/ StopYieldThread \/ DestroyReset \/ DestroyFree
  <2>1. /\ UNCHANGED <<request, calls, token_num, cur, pc>>
        /\ reply_list' \subseteq reply_list /\ event_list' \subseteq event_list
    BY <1>7 DEF SubscriptionStep, SubscriptionAnswered, AnsweredWith, StartYieldThread,
                StopYieldThread, DestroyReset, DestroyFree
  <2> QED
    BY <1>3, <2>1
<1>8. CASE ReceiveStep
  <2>1. UNCHANGED <<request, calls, token_num, cur, pc>>
    BY <1>8, ReceiveLeaves
  <2>2. reply_list' \subseteq reply_list /\ event_list' \subseteq event_list
    BY <1>8 DEF ReceiveStep, HandlerStep, Receive, HandleControl, TraverseReplies, HandleReply,
                HandleReplyCallback, TraverseEnd, HandleEventReply
  <2> QED
    BY <1>3, <2>1, <2>2
<1>9. CASE CloudStep \/ UNCHANGED vars
  <2>1. UNCHANGED <<request, calls, token_num, cur, pc, reply_list, event_list>>
    BY <1>9, CloudLeaves DEF vars
  <2> QED
    BY <1>3, <2>1
<1> QED
  BY <1>2, <1>4, <1>5, <1>6, <1>7, <1>8, <1>9, NextIs DEF RequestStep

(* So the entries that match a reply are the call that was answered, and   *)
(* the same for events.                                                    *)
LEMMA MatchingIsTheCall ==
  ASSUME BaseInv, MessageInv, TokenInv
  PROVE  /\ rx.stage = "walk" => /\ rx.msg.of \in Ids /\ Matching \subseteq {rx.msg.of}
                                 /\ rx.msg.of \in reply_list => rx.msg.of \in Matching
         /\ rx # Idle /\ rx.msg.type = "event_reply" =>
               /\ rx.msg.of \in Ids /\ request[rx.msg.of].method = "EVENT"
               /\ \A i \in event_list : request[i].token = rx.msg.token <=> i = rx.msg.of
<1>0. TypeInv /\ RxInv
  BY DEF BaseInv
<1>1. ASSUME rx # Idle, rx.msg.type \in {"reply", "event_reply"}
      PROVE  /\ rx.msg.of \in Ids /\ Asking(rx.msg.of) /\ request[rx.msg.of].token = rx.msg.token
             /\ rx.msg.type = "event_reply" => request[rx.msg.of].method = "EVENT"
  <2>1. rx.msg \in Held /\ rx.msg.of \in Carried
    BY <1>0, <1>1, HeldStep DEF Carried
  <2>2. DownTrue(rx.msg)
    BY <2>1 DEF MessageInv
  <2>3. rx.msg.of # 0 /\ request[rx.msg.of].method # "REPLY"
    BY <1>1, <2>2 DEF DownTrue
  <2>4. rx.msg.of \in Ids
    BY <1>0, <2>1, <2>3, CarriedCalls
  <2>5. Asking(rx.msg.of)
    BY <2>1, <2>3 DEF TokenInv
  <2> QED
    BY <2>2, <2>3, <2>4, <2>5 DEF DownTrue
<1>2. \A i \in reply_list \cup event_list : i \in Ids /\ Asking(i)
  BY <1>0 DEF TokenInv, TypeInv
<1>3. rx.stage = "walk" => rx # Idle /\ rx.msg.type = "reply"
  BY <1>0 DEF RxInv, Idle
<1>4. ASSUME rx.stage = "walk"
      PROVE  /\ rx.msg.of \in Ids /\ Matching \subseteq {rx.msg.of}
             /\ rx.msg.of \in reply_list => rx.msg.of \in Matching
  BY <1>1, <1>2, <1>3, <1>4 DEF Matching, SameToken, TokenInv
<1>5. ASSUME rx # Idle, rx.msg.type = "event_reply"
      PROVE  /\ rx.msg.of \in Ids /\ request[rx.msg.of].method = "EVENT"
             /\ \A i \in event_list : request[i].token = rx.msg.token <=> i = rx.msg.of
  BY <1>1, <1>2, <1>5 DEF TokenInv
<1> QED
  BY <1>4, <1>5

-----------------------------------------------------------------------------
(* The receiver and the loop thread run for a ready template only, when    *)
(* the loop is stopped before the template is destroyed.                   *)
AliveInv ==
    /\ rx # Idle => template = "ready"
    /\ yield_thread_running => template = "ready"

StoppedFirst == "destroy_while_looping" \notin Adversity /\ "keep_mqtt" \notin Adversity

LEMMA AliveStep ==
  ASSUME BaseInv, AliveInv, [Next]_vars, StoppedFirst
  PROVE  AliveInv'
<1> USE DEF life
<1>0. TypeInv /\ LifeInv /\ RxInv
  BY DEF BaseInv
<1>1. ASSUME NEW t \in App, ConstructStep(t) PROVE AliveInv'
  <2>1. UNCHANGED <<rx, yield_thread_running>> /\ template # "ready"
    BY <1>0, <1>1, ConstructLeaves DEF LifeInv
  <2> QED
    BY <2>1 DEF AliveInv
<1>2. ASSUME NEW t \in App, RequestStep(t) PROVE AliveInv'
  BY <1>0, <1>2, RequestMoves DEF AliveInv
<1>3. CASE SubscriptionStep \/ StartYieldThread \/ StopYieldThread
  BY <1>3 DEF SubscriptionStep, SubscriptionAnswered, AnsweredWith, StartYieldThread, StopYieldThread,
              AliveInv
<1>4. CASE DestroyReset
  <2>1. ~yield_thread_running /\ UNCHANGED <<rx, yield_thread_running>>
    BY <1>4 DEF DestroyReset, StoppedFirst
  <2>2. rx = Idle
    BY <1>0, <1>4, <2>1 DEF DestroyReset, AllIdle, RxInv
  <2> QED
    BY <2>1, <2>2 DEF AliveInv
<1>5. CASE DestroyFree
  BY <1>5 DEF DestroyFree, StoppedFirst, AliveInv
<1>6. CASE ReceiveStep
  <2>1. UNCHANGED <<template, yield_thread_running>>
    BY <1>6, ReceiveLeaves
  <2>2. CASE HandlerStep
    BY <1>0, <2>1, <2>2, HeldStep DEF AliveInv
  <2>3. ASSUME NEW t \in Thread, NEW msg \in down, Receive(t, msg) PROVE AliveInv'
    <3>1. template = "ready"
      BY <1>0, <2>3 DEF Receive, Receives, AliveInv, LifeInv, CallPC, AwaitPC
    <3> QED
      BY <2>1, <3>1 DEF AliveInv
  <2> QED
    BY <1>6, <2>2, <2>3 DEF ReceiveStep
<1>7. CASE CloudStep \/ UNCHANGED vars
  BY <1>7, CloudLeaves DEF vars, AliveInv
<1> QED
  BY <1>1, <1>2, <1>3, <1>4, <1>5, <1>6, <1>7, NextIs

-----------------------------------------------------------------------------
InCallback(i) == rx.stage = "callback" /\ rx.node = i

LEMMA InitMore == Init => MessageInv /\ TokenInv /\ AliveInv
<1> SUFFICES ASSUME Init PROVE MessageInv /\ TokenInv /\ AliveInv
  OBVIOUS
<1>1. Held = {} /\ Carried = {}
  BY DEF Init, Held, Carried
<1>2. \A i \in Ids : ~Asking(i)
  BY DEF Init, Asking
<1>3. \A t \in App : pc[t] \notin {"publish", "add", "post"}
  BY DEF Init
<1>4. MessageInv /\ AliveInv
  BY <1>1, <1>3 DEF Init, MessageInv, AliveInv
<1>5. TokenInv
  BY <1>1, <1>2, <1>3 DEF Init, TokenInv
<1> QED
  BY <1>4, <1>5

-----------------------------------------------------------------------------
(***************************************************************************)
(* What was said and what was heard.  A request is listed before any reply *)
(* to it is handled; what is told or stored is what a handled reply said.  *)
(***************************************************************************)
Truth(i) ==
    /\ "TIMEOUT" \in Range(told[i]) => seen[i] = {}
    /\ Stored(i) /\ (ack[i] = "ACCEPTED" \/ result[i] = "SUCCESS") => "ok" \in seen[i] \/ InCallback(i)
    /\ Stored(i) /\ (ack[i] = "REJECTED" \/ result[i] = "REJECTED") => "refused" \in seen[i]

SeenInv ==
    /\ \A i \in Ids : Stored(i) => request[i].method \in {"REPORT", "GET"}
    /\ \A i \in reply_list : seen[i] = {}
    /\ \A t \in App : pc[t] \in AskPC => seen[cur[t]] = {} /\ \A m \in Held : m.of # cur[t]
    /\ rx.stage = "callback" => rx.node = rx.msg.of /\ rx.msg.code = "ok"
    /\ \A i \in Ids : Truth(i)

LEMMA RangeOfOne ==
  /\ Range(<<>>) = {}
  /\ \A x : Range(<<x>>) = {x}
  BY DEF Range

(* Where nothing is told, stored or received and no call begins.           *)
LEMMA SeenRests ==
  ASSUME TypeInv, SeenInv, UNCHANGED <<request, told, seen, ack, rx>>,
         \A i \in reply_list' : i \in reply_list \/ seen[i] = {},
         \A t \in App : pc'[t] \in AskPC => pc[t] \in AskPC /\ cur'[t] = cur[t],
         \A i \in Ids : Stored(i) => \/ result'[i] \in {result[i], "FAILURE", "MAX_APPENDING", "TIMEOUT"}
                                     \/ result'[i] = "SUCCESS" /\ ack[i] = "ACCEPTED"
                                     \/ result'[i] = "REJECTED" /\ ack[i] = "REJECTED"
  PROVE  SeenInv'
<1>1. Held' = Held /\ (\A i : Stored(i)' <=> Stored(i)) /\ (\A i : InCallback(i)' <=> InCallback(i))
  BY DEF Held, Stored, InCallback
<1>2. \A i \in Ids : Truth(i)'
  BY <1>1 DEF SeenInv, Truth
<1>3. \A i \in reply_list' : seen'[i] = {}
  BY DEF SeenInv
<1>4. \A t \in App : pc'[t] \in AskPC => seen'[cur'[t]] = {} /\ \A m \in Held' : m.of # cur'[t]
  BY <1>1 DEF SeenInv
<1> QED
  BY <1>1, <1>2, <1>3, <1>4 DEF SeenInv

LEMMA SeenStep ==
  ASSUME BaseInv, MessageInv, TokenInv, SeenInv, [Next]_vars, "early_reply" \notin Adversity
  PROVE  SeenInv'
<1> USE DEF life, lists, callv, answer, wire
<1>0. TypeInv /\ LifeInv /\ RxInv /\ CallInv /\ FreshInv /\ ListInv
  BY DEF BaseInv
<1>1. ASSUME NEW t \in App,
             \/ \E call \in Calls : BuildDocument(t, call)
             \/ \E callback \in {"none", "user"} : CreateEvent(t, callback)
             \/ ControlReply(t)
      PROVE  SeenInv'
  <2>0. PICK n : n = calls + 1
    OBVIOUS
  <2>1. /\ MayCall(t) /\ UNCHANGED <<reply_list, told, seen, ack, rx>>
        /\ \A i \in Ids : i # n => request'[i] = request[i] /\ result'[i] = result[i]
        /\ \A u \in App : (cur'[u] = cur[u] /\ pc'[u] = pc[u]) \/ (u = t /\ cur'[u] = n)
    BY <1>0, <1>1, <2>0 DEF BuildDocument, CreateEvent, ControlReply, NewCall, TypeInv
  <2>2. n \in Ids /\ n \notin reply_list /\ told[n] = <<>> /\ n > calls
    <3>1. n > calls
      BY <1>0, <2>0 DEF TypeInv
    <3> QED
      BY <1>0, <2>0, <2>1, <3>1, FreshBegins
  <2>3. seen[n] = {} /\ ack[n] = "NONE" /\ result[n] = "none"
    BY <2>2, <1>0 DEF FreshInv, MessageInv
  <2>4. \A m \in Held : m.of # n
    BY <1>0, <2>0, CarriedCalls DEF Carried
  <2>5. result'[n] \in {"none", "FAILURE"}
    BY <1>0, <1>1, <2>0, <2>2, <2>3 DEF BuildDocument, CreateEvent, ControlReply, TypeInv
  <2>6. Stored(n)' => request'[n].method \in {"REPORT", "GET"}
    <3>1. ASSUME NEW call \in Calls, BuildDocument(t, call) PROVE request'[n].method \in {"REPORT", "GET"}
      <4>1. call[1] \in {"REPORT", "GET"}
        BY TemplateConstants
      <4> QED
        BY <1>0, <2>0, <2>2, <3>1, <4>1 DEF BuildDocument, NewCall, TypeInv
    <3>2. ControlReply(t) => ~Stored(n)'
      BY <1>0, <2>0, <2>2 DEF ControlReply, NewCall, TypeInv, Stored
    <3>3. ASSUME NEW callback \in {"none", "user"}, CreateEvent(t, callback) PROVE ~Stored(n)'
      <4>1. PICK asks : /\ asks = [method |-> "EVENT", callback |-> callback, token |-> token_num]
                        /\ \/ request' = [request EXCEPT ![n] = asks]
                           \/ request' = [request EXCEPT ![n] = [asks EXCEPT !.token = NoToken]]
        BY <2>0, <3>3 DEF CreateEvent, NewCall
      <4>2. asks.callback = callback /\ [asks EXCEPT !.token = NoToken].callback = callback
        BY <4>1
      <4>3. request'[n].callback = callback
        BY <1>0, <2>2, <4>1, <4>2 DEF TypeInv
      <4> QED
        BY <3>3, <4>3 DEF Stored
    <3> QED
      BY <1>1, <3>1, <3>2, <3>3
  <2>7. /\ Held' = Held /\ (\A i : InCallback(i)' <=> InCallback(i))
        /\ \A i \in Ids : i # n => (Stored(i)' <=> Stored(i))
    BY <2>1 DEF Held, InCallback, Stored
  <2>8. ASSUME NEW i \in Ids PROVE Truth(i)'
    <3>1. CASE i = n
      <4>1. "TIMEOUT" \notin Range(told'[i])
        BY <2>1, <2>2, <3>1, RangeOfOne
      <4>2. ack'[i] = "NONE" /\ result'[i] \in {"none", "FAILURE"}
        BY <2>1, <2>3, <2>5, <3>1
      <4> QED
        BY <4>1, <4>2 DEF Truth
    <3>2. CASE i # n
      BY <2>1, <2>7, <3>2 DEF Truth, SeenInv
    <3> QED
      BY <3>1, <3>2
  <2>9. \A i \in Ids : Stored(i)' => request'[i].method \in {"REPORT", "GET"}
    BY <2>1, <2>6, <2>7 DEF SeenInv
  <2>10. \A u \in App : pc'[u] \in AskPC => seen'[cur'[u]] = {} /\ \A m \in Held' : m.of # cur'[u]
    BY <2>1, <2>3, <2>4, <2>7 DEF SeenInv
  <2> QED
    BY <2>1, <2>8, <2>9, <2>10 DEF SeenInv
<1>2. ASSUME NEW t \in App, PublishRequest(t) \/ PostEvent(t) PROVE SeenInv'
  <2>1. /\ UNCHANGED <<request, told, seen, ack, rx, reply_list>> /\ pc[t] \in {"publish", "post"}
        /\ \A u \in App : pc'[u] \in AskPC => pc[u] \in AskPC /\ cur'[u] = cur[u]
        /\ \A i \in Ids : i # cur[t] => result'[i] = result[i]
        /\ result'[cur[t]] \in {result[cur[t]], "FAILURE"}
             \/ (pc[t] = "publish" /\ request[cur[t]].callback = "none") \/ pc[t] = "post"
    BY <1>0, <1>2 DEF PublishRequest, PostEvent, Return, Goto, TypeInv, AskPC
  <2>2. cur[t] \in Ids
    <3>1. cur[t] # 0
      BY <1>0, <2>1 DEF CallInv, CallOf
    <3> QED
      BY <1>0, <3>1, TemplateConstants DEF TypeInv, Ids
  <2>3. pc[t] = "post" => ~Stored(cur[t])
    BY <1>0, <2>2 DEF CallInv, CallOf, SeenInv
  <2> QED
    BY <1>0, <2>1, <2>2, <2>3, SeenRests DEF Stored
<1>3. ASSUME NEW t \in App, AddRequest(t) PROVE SeenInv'
  <2>1. /\ UNCHANGED <<request, told, seen, ack, rx>> /\ pc[t] = "add"
        /\ reply_list' \subseteq reply_list \cup {cur[t]}
        /\ \A u \in App : pc'[u] \in AskPC => pc[u] \in AskPC /\ cur'[u] = cur[u]
        /\ \A i \in Ids : i # cur[t] => result'[i] = result[i]
        /\ Stored(cur[t]) => \A i \in Ids : result'[i] \in {result[i], "MAX_APPENDING"}
    BY <1>0, <1>3 DEF AddRequest, AddUnless, Return, Goto, TypeInv, AskPC
  <2>2. seen[cur[t]] = {}
    BY <2>1 DEF SeenInv, AskPC
  <2> QED
    BY <1>0, <2>1, <2>2, SeenRests
<1>4. ASSUME NEW t \in App, WaitForAck(t) PROVE SeenInv'
  <2>1. /\ UNCHANGED <<request, told, seen, ack, rx, reply_list>> /\ pc[t] = "wait"
        /\ \A u \in App : pc'[u] \in AskPC => pc[u] \in AskPC /\ cur'[u] = cur[u]
    BY <1>0, <1>4 DEF WaitForAck, WaitFor, Return, Goto, TypeInv, AskPC
  <2>2. cur[t] \in Ids
    <3>1. cur[t] # 0
      BY <1>0, <2>1 DEF CallInv, CallOf
    <3> QED
      BY <1>0, <3>1, TemplateConstants DEF TypeInv, Ids
  <2>3. ack[cur[t]] \in Ack
    BY <1>0, <2>2 DEF TypeInv
  <2>4. \A i \in Ids : \/ result'[i] \in {result[i], "TIMEOUT"}
                       \/ result'[i] = "SUCCESS" /\ ack[i] = "ACCEPTED"
                       \/ result'[i] = "REJECTED" /\ ack[i] = "REJECTED"
    BY <1>0, <1>4, <2>2, <2>3 DEF WaitForAck, WaitFor, Return, Goto, TypeInv, Outcome, Ack
  <2> QED
    BY <1>0, <2>1, <2>4, SeenRests
<1>5. ASSUME NEW t \in App, Yield(t) \/ SweepEvents(t) \/ YieldReturn(t) PROVE SeenInv'
  <2>1. /\ UNCHANGED <<request, told, seen, ack, rx, reply_list, cur, result>>
        /\ \A u \in App : pc'[u] \in AskPC => pc[u] \in AskPC
    BY <1>0, <1>5 DEF Yield, SweepEvents, SweepEventsOf, YieldReturn, Goto, TypeInv, AskPC
  <2> QED
    BY <1>0, <2>1, SeenRests
<1>6. ASSUME NEW t \in App, ConstructStep(t) PROVE SeenInv'
  <2>1. \A u \in App : pc'[u] \in AskPC => pc[u] \in AskPC
    BY <1>0, <1>6, ConstructLeaves DEF TypeInv, BuildPC, AskPC
  <2>2. UNCHANGED <<request, told, seen, ack, rx, reply_list, cur, result>>
    BY <1>6, ConstructLeaves
  <2> QED
    BY <1>0, <2>1, <2>2, SeenRests
<1>7. CASE SubscriptionStep \/ StartYieldThread \/ StopYieldThread \/ DestroyReset \/ DestroyFree
  <2>1. UNCHANGED <<request, told, seen, ack, rx, cur, pc, result>> /\ reply_list' \subseteq reply_list
    BY <1>7 DEF SubscriptionStep, SubscriptionAnswered, AnsweredWith, StartYieldThread,
                StopYieldThread, DestroyReset, DestroyFree
  <2> QED
    BY <1>0, <2>1, SeenRests
<1>8. CASE CloudStep \/ UNCHANGED vars
  <2>1. UNCHANGED <<request, told, seen, ack, rx, cur, pc, result, reply_list>>
    BY <1>8, CloudLeaves DEF vars
  <2> QED
    BY <1>0, <2>1, SeenRests
<1>9. ASSUME NEW t \in App, SweepReplies(t) PROVE SeenInv'
  <2>1. /\ UNCHANGED <<request, seen, rx, cur, result>> /\ reply_list' = reply_list \ Late
        /\ \A u \in App : pc'[u] \in AskPC => pc[u] \in AskPC
        /\ Late \subseteq reply_list /\ Late \in SUBSET Ids
    BY <1>0, <1>9 DEF SweepReplies, SweepRepliesWith, Late, Notify, Goto, TypeInv, AskPC
  <2>2. Notify(Late, "TIMEOUT") /\ "TIMEOUT" \in Ack /\ \A i \in Late : told[i] = <<>>
    BY <1>0, <1>9, <2>1, LabelType DEF SweepReplies, SweepRepliesWith, ListInv, Answerable
  <2>3. \A i \in Ids : /\ told'[i] = IF i \in Late THEN <<"TIMEOUT">> ELSE told[i]
                       /\ ack'[i] = IF i \in Late /\ Stored(i) THEN "TIMEOUT" ELSE ack[i]
    BY <1>0, <2>1, <2>2, FirstAnswer
  <2>4. Held' = Held /\ (\A i : Stored(i)' <=> Stored(i)) /\ (\A i : InCallback(i)' <=> InCallback(i))
    BY <2>1 DEF Held, Stored, InCallback
  <2>5. ASSUME NEW i \in Ids PROVE Truth(i)'
    <3>1. CASE i \in Late
      <4>1. seen'[i] = {} /\ (Stored(i) => ack'[i] = "TIMEOUT") /\ Truth(i)
        BY <2>1, <2>3, <3>1 DEF SeenInv
      <4> QED
        BY <2>1, <2>4, <4>1 DEF Truth
    <3>2. CASE i \notin Late
      BY <2>1, <2>3, <2>4, <3>2 DEF Truth, SeenInv
    <3> QED
      BY <3>1, <3>2
  <2> QED
    BY <2>1, <2>4, <2>5 DEF SeenInv
<1>10. ASSUME NEW t \in Thread, NEW msg \in down, Receive(t, msg) PROVE SeenInv'
  <2>1. /\ UNCHANGED <<request, told, seen, ack, reply_list, cur, pc, result>> /\ Meets(t, msg)
        /\ rx = Idle /\ rx'.stage = "start" /\ rx'.msg = msg
        /\ t \in App => pc[t] = "mqtt_yield"
    BY <1>10, TemplateConstants DEF Receive, Receives
  <2>2. /\ Held' \subseteq {msg} /\ \A i : Stored(i)' <=> Stored(i)
        /\ \A i : ~InCallback(i)
    BY <2>1 DEF Held, Stored, Idle, InCallback
  <2>3. ASSUME NEW u \in App, pc[u] \in AskPC PROVE msg.of # cur[u]
    <3>0. msg.of \in Carried /\ DownTrue(msg) /\ cur[u] # 0
      BY <1>0, <2>3 DEF Carried, MessageInv, CallInv, CallOf, AskPC
    <3>1. CASE pc[u] = "publish"
      BY <3>0, <3>1 DEF MessageInv
    <3>2. CASE pc[u] = "add"
      <4>1. u # t /\ request[cur[u]].method \in {"REPORT", "GET"}
        BY <1>0, <2>1, <3>2 DEF CallInv, CallOf
      <4>2. msg.type = "reply" => msg.of # cur[u]
        BY <2>1, <3>2, <4>1 DEF Meets
      <4>3. msg.type \in {"reply", "control", "event_reply"}
        BY <1>0, <1>10 DEF TypeInv, Message
      <4> QED
        BY <3>0, <4>1, <4>2, <4>3 DEF DownTrue
    <3> QED
      BY <2>3, <3>1, <3>2 DEF AskPC
  <2>4. \A i \in Ids : Truth(i)'
    BY <2>1, <2>2 DEF SeenInv, Truth
  <2> QED
    BY <2>1, <2>2, <2>3, <2>4 DEF SeenInv
<1>11. CASE HandleControl \/ TraverseReplies
  <2>1. /\ UNCHANGED <<request, told, seen, ack, reply_list, cur, pc, result>> /\ rx.stage = "start"
        /\ rx' = Idle \/ rx' = [stage |-> "walk", by |-> rx.by, msg |-> rx.msg]
    BY <1>0, <1>11, RxShape DEF HandleControl, TraverseReplies, TypeInv
  <2>2. Held' \subseteq Held
    BY <1>0, <1>11, HeldStep DEF HandlerStep
  <2>3. rx'.stage # "callback" /\ (\A i : Stored(i)' <=> Stored(i)) /\ \A i : ~InCallback(i)
    BY <2>1 DEF Stored, Idle, InCallback
  <2>4. \A i \in Ids : Truth(i)'
    BY <2>1, <2>3 DEF SeenInv, Truth
  <2> QED
    BY <2>1, <2>2, <2>3, <2>4 DEF SeenInv
<1>12. CASE HandleReply
  <2>1. /\ UNCHANGED <<request, cur, pc, result>> /\ rx.stage = "walk" /\ rx # Idle
        /\ (\A i : Stored(i)' <=> Stored(i)) /\ \A i : ~InCallback(i)
    BY <1>12 DEF HandleReply, Stored, Idle, InCallback
  <2>2. PICK i \in Matching :
            \/ /\ rx.msg.control /\ rx.msg.code = "ok"
               /\ rx' = [stage |-> "callback", by |-> rx.by, msg |-> rx.msg, node |-> i]
               /\ UNCHANGED <<reply_list, told, seen>>
               /\ \A j \in Ids : ack'[j] = IF j = i THEN "ACCEPTED" ELSE ack[j]
            \/ /\ rx.msg.code = "bad" /\ reply_list' = reply_list \ {i}
               /\ UNCHANGED <<rx, ack, told>> /\ Noted(rx.msg)
            \/ /\ rx.msg.code # "bad" /\ reply_list' = reply_list \ {i}
               /\ UNCHANGED rx /\ Noted(rx.msg)
               /\ LET outcome == IF rx.msg.code = "ok" THEN "ACCEPTED" ELSE "REJECTED" IN
                  \A j \in Ids : /\ told'[j] = IF j = i THEN <<outcome>> ELSE told[j]
                                 /\ ack'[j] = IF j = i /\ Stored(j) THEN outcome ELSE ack[j]
    BY <1>0, <1>12, ReplyAnswer
  <2>3. i = rx.msg.of /\ i \in reply_list /\ i \in Ids /\ i # 0
    BY <1>0, <2>1, MatchingIsTheCall DEF Matching, TypeInv, Ids
  <2>4. /\ told[i] = <<>> /\ seen[i] = {} /\ rx.msg.code \in Code
        /\ \A u \in App : pc[u] \in AskPC => cur[u] # i
    BY <1>0, <2>1, <2>3, HeldStep DEF ListInv, Answerable, SeenInv, Message, Code
  <2>5. Stored(i) => ack[i] \notin {"ACCEPTED", "REJECTED"} /\ result[i] \notin {"SUCCESS", "REJECTED"}
    BY <2>1, <2>3, <2>4 DEF SeenInv, Truth
  <2>6. rx # Idle /\ Held' \subseteq Held
    BY <1>0, <1>12, HeldStep DEF HandlerStep
  <2>7. \A j \in Ids : j # i => seen'[j] = seen[j]
    BY <1>0, <1>12, <2>1, <2>3, NotedOne DEF HandlerStep
  <2>8. \A j \in Ids : j # i => told'[j] = told[j] /\ ack'[j] = ack[j]
    BY <2>2
  <2>9. ASSUME NEW j \in Ids, j # i PROVE Truth(j)'
    BY <2>1, <2>7, <2>8, <2>9 DEF SeenInv, Truth
  <2>10. \A u \in App : pc'[u] \in AskPC => seen'[cur'[u]] = {} /\ \A m \in Held' : m.of # cur'[u]
    <3> SUFFICES ASSUME NEW u \in App, pc[u] \in AskPC
                 PROVE  seen'[cur[u]] = {} /\ \A m \in Held' : m.of # cur[u]
      BY <2>1
    <3>1. cur[u] # 0 /\ cur[u] # i
      BY <1>0, <2>4 DEF CallInv, CallOf, AskPC
    <3>2. cur[u] \in Ids
      BY <1>0, <3>1, TemplateConstants DEF TypeInv, Ids
    <3> QED
      BY <2>6, <2>7, <3>1, <3>2 DEF SeenInv
  <2>11. rx.msg.code # "bad" => seen'[i] = {rx.msg.code} \/ rx'.stage = "callback"
    <3>1. Noted(rx.msg) => seen'[i] = {rx.msg.code}
      BY <1>0, <2>3, <2>4 DEF Noted, TypeInv
    <3> QED
      BY <2>2, <3>1
  <2>12. CASE /\ rx.msg.control /\ rx.msg.code = "ok"
              /\ rx' = [stage |-> "callback", by |-> rx.by, msg |-> rx.msg, node |-> i]
              /\ UNCHANGED <<reply_list, told, seen>>
              /\ \A j \in Ids : ack'[j] = IF j = i THEN "ACCEPTED" ELSE ack[j]
    <3>1. rx'.stage = "callback" /\ rx'.node = i /\ rx'.msg = rx.msg /\ InCallback(i)'
      BY <2>12 DEF InCallback
    <3>2. Stored(i) => ack'[i] = "ACCEPTED"
      BY <2>3, <2>12
    <3>3. "TIMEOUT" \notin Range(told'[i])
      BY <2>4, <2>12, RangeOfOne
    <3>4. Truth(i)'
      BY <2>1, <2>5, <3>1, <3>2, <3>3 DEF Truth
    <3> QED
      BY <2>1, <2>3, <2>9, <2>10, <2>12, <3>1, <3>4 DEF SeenInv
  <2>13. CASE rx.msg.code = "bad" /\ reply_list' = reply_list \ {i} /\ UNCHANGED <<rx, ack, told>>
    <3>1. "TIMEOUT" \notin Range(told'[i])
      BY <2>4, <2>13, RangeOfOne
    <3>2. Truth(i)'
      BY <2>1, <2>5, <2>13, <3>1 DEF Truth
    <3>3. rx'.stage # "callback"
      BY <2>1, <2>13
    <3>4. \A j \in reply_list' : seen'[j] = {}
      BY <1>0, <2>7, <2>13 DEF SeenInv, TypeInv
    <3> QED
      BY <2>1, <2>9, <2>10, <3>2, <3>3, <3>4 DEF SeenInv
  <2>14. CASE /\ rx.msg.code # "bad" /\ reply_list' = reply_list \ {i} /\ UNCHANGED rx
              /\ LET outcome == IF rx.msg.code = "ok" THEN "ACCEPTED" ELSE "REJECTED" IN
                 \A j \in Ids : /\ told'[j] = IF j = i THEN <<outcome>> ELSE told[j]
                                /\ ack'[j] = IF j = i /\ Stored(j) THEN outcome ELSE ack[j]
    <3>1. seen'[i] = {rx.msg.code} /\ rx'.stage # "callback"
      BY <2>1, <2>11, <2>14
    <3>2. PICK outcome : /\ outcome = IF rx.msg.code = "ok" THEN "ACCEPTED" ELSE "REJECTED"
                         /\ told'[i] = <<outcome>> /\ (Stored(i) => ack'[i] = outcome)
      BY <2>3, <2>14
    <3>3. "TIMEOUT" \notin Range(told'[i])
      <4>1. Range(told'[i]) = {outcome}
        BY <3>2, RangeOfOne
      <4> QED
        BY <3>2, <4>1
    <3>4. Truth(i)'
      BY <2>1, <2>4, <2>5, <2>14, <3>1, <3>2, <3>3 DEF Truth, Code
    <3>5. \A j \in reply_list' : seen'[j] = {}
      BY <1>0, <2>7, <2>14 DEF SeenInv, TypeInv
    <3> QED
      BY <2>1, <2>9, <2>10, <3>1, <3>4, <3>5 DEF SeenInv
  <2> QED
    BY <2>2, <2>12, <2>13, <2>14
<1>13. CASE HandleReplyCallback
  <2>0. PICK i : i = rx.node
    OBVIOUS
  <2>1. /\ UNCHANGED <<request, cur, pc, result>> /\ rx.stage = "callback" /\ rx # Idle
        /\ reply_list' = reply_list \ {i} /\ rx' = [stage |-> "walk", by |-> rx.by, msg |-> rx.msg]
        /\ Noted(rx.msg) /\ \A j : Stored(j)' <=> Stored(j)
    BY <1>13, <2>0 DEF HandleReplyCallback, Stored, Idle
  <2>2. /\ i \in Ids
        /\ \A j \in Ids : /\ told'[j] = IF j = i THEN <<"ACCEPTED">> ELSE told[j]
                          /\ \/ ack'[j] = ack[j]
                             \/ j = i /\ Stored(j) /\ ack'[j] = "ACCEPTED"
    BY <1>0, <1>13, <2>0, CallbackAnswer
  <2>3. i = rx.msg.of /\ rx.msg.code = "ok" /\ i # 0 /\ told[i] = <<>>
    BY <1>0, <2>0, <2>1, <2>2 DEF SeenInv, ListInv, Answerable, Ids
  <2>4. seen'[i] = seen[i] \cup {"ok"} /\ \A j \in Ids : j # i => seen'[j] = seen[j]
    BY <1>0, <2>1, <2>2, <2>3 DEF Noted, TypeInv
  <2>5. Held' \subseteq Held
    BY <1>0, <1>13, HeldStep DEF HandlerStep
  <2>6. ASSUME NEW u \in App, pc[u] \in AskPC PROVE cur[u] \in Ids /\ cur[u] # i
    <3>1. cur[u] # 0 /\ cur[u] # i
      BY <1>0, <2>0, <2>1, <2>6 DEF CallInv, CallOf, AskPC, ListInv, Answerable
    <3> QED
      BY <1>0, <3>1, TemplateConstants DEF TypeInv, Ids
  <2>7. Truth(i)'
    <3>1. "TIMEOUT" \notin Range(told'[i])
      BY <2>2, RangeOfOne
    <3>2. ack'[i] = "REJECTED" => ack[i] = "REJECTED"
      BY <2>2
    <3>3. Stored(i) /\ (ack[i] = "REJECTED" \/ result[i] = "REJECTED") => "refused" \in seen[i]
      BY <2>2 DEF SeenInv, Truth
    <3> QED
      BY <2>1, <2>4, <3>1, <3>2, <3>3 DEF Truth
  <2>8. ASSUME NEW j \in Ids, j # i PROVE Truth(j)'
    <3>1. ~InCallback(j)
      BY <2>0, <2>8 DEF InCallback
    <3> QED
      BY <2>1, <2>2, <2>4, <2>8, <3>1 DEF SeenInv, Truth
  <2>9. \A j \in reply_list' : seen'[j] = {}
    BY <1>0, <2>1, <2>4 DEF SeenInv, TypeInv
  <2>10. \A u \in App : pc'[u] \in AskPC => seen'[cur'[u]] = {} /\ \A m \in Held' : m.of # cur'[u]
    BY <2>1, <2>4, <2>5, <2>6 DEF SeenInv
  <2> QED
    BY <2>1, <2>7, <2>8, <2>9, <2>10 DEF SeenInv
<1>14. ASSUME \/ TraverseEnd
              \/ HandleEventReply /\ rx.msg.code = "bad"
       PROVE  SeenInv'
  <2>1. /\ UNCHANGED <<request, told, ack, reply_list, cur, pc, result>> /\ rx # Idle /\ rx' = Idle
        /\ rx.stage \in {"start", "walk"} /\ \A j : Stored(j)' <=> Stored(j)
        /\ UNCHANGED seen \/ (TraverseEnd /\ Noted(rx.msg))
    BY <1>14 DEF TraverseEnd, HandleEventReply, Stored, Idle
  <2>2. Held' = {} /\ rx'.stage # "callback" /\ \A i : ~InCallback(i)
    BY <2>1 DEF Held, Idle, InCallback
  <2>3. CASE UNCHANGED seen
    <3>1. \A i \in Ids : Truth(i)'
      BY <2>1, <2>2, <2>3 DEF SeenInv, Truth
    <3> QED
      BY <2>1, <2>2, <2>3, <3>1 DEF SeenInv
  <2>4. CASE TraverseEnd /\ Noted(rx.msg)
    <3>0. PICK i : i = rx.msg.of
      OBVIOUS
    <3>1. rx.stage = "walk" /\ Matching = {}
      BY <2>4 DEF TraverseEnd
    <3>2. i \in Ids /\ i \notin reply_list
      BY <3>0, <3>1, MatchingIsTheCall
    <3>3. seen[i] \subseteq seen'[i] /\ (seen'[i] = seen[i] \/ told[i] = <<>>)
      BY <1>0, <2>4, <3>0, <3>2 DEF Noted, TypeInv
    <3>4. \A j \in Ids : j # i => seen'[j] = seen[j]
      BY <1>0, <2>4, <3>0, <3>2 DEF Noted, TypeInv
    <3>5. \A u \in App : pc[u] \in AskPC => cur[u] \in Ids /\ cur[u] # i
      <4> SUFFICES ASSUME NEW u \in App, pc[u] \in AskPC PROVE cur[u] \in Ids /\ cur[u] # i
        OBVIOUS
      <4>1. cur[u] # 0
        BY <1>0 DEF CallInv, CallOf, AskPC
      <4>2. rx.msg \in Held
        BY <1>0, <2>1, HeldStep
      <4>3. cur[u] # i
        BY <3>0, <4>2 DEF SeenInv
      <4> QED
        BY <1>0, <4>1, <4>3, TemplateConstants DEF TypeInv, Ids
    <3>6. "TIMEOUT" \in Range(told[i]) => seen'[i] = {}
      <4>1. told[i] = <<>> => "TIMEOUT" \notin Range(told[i])
        BY RangeOfOne
      <4> QED
        BY <3>2, <3>3, <4>1 DEF SeenInv, Truth
    <3>7. Truth(i)'
      BY <2>1, <2>2, <3>2, <3>3, <3>6 DEF SeenInv, Truth
    <3>8. ASSUME NEW j \in Ids, j # i PROVE Truth(j)'
      BY <2>1, <2>2, <3>4, <3>8 DEF SeenInv, Truth
    <3>9. \A j \in reply_list' : seen'[j] = {}
      BY <1>0, <2>1, <3>2, <3>4 DEF SeenInv, TypeInv
    <3>10. \A u \in App : pc'[u] \in AskPC => seen'[cur'[u]] = {} /\ \A m \in Held' : m.of # cur'[u]
      BY <2>1, <2>2, <3>4, <3>5 DEF SeenInv
    <3> QED
      BY <2>1, <2>2, <3>7, <3>8, <3>9, <3>10 DEF SeenInv
  <2> QED
    BY <2>1, <2>3, <2>4
<1>15. CASE HandleEventReply /\ rx.msg.code # "bad"
  <2>0. PICK i : i = rx.msg.of
    OBVIOUS
  <2>1. /\ UNCHANGED <<request, reply_list, cur, pc, result>> /\ rx # Idle /\ rx' = Idle
        /\ rx.stage = "start" /\ rx.msg.type = "event_reply" /\ \A j : Stored(j)' <=> Stored(j)
        /\ Noted(rx.msg)
    BY <1>15 DEF HandleEventReply, Stored, Idle
  <2>2. Held' = {} /\ rx'.stage # "callback" /\ \A j : ~InCallback(j)
    BY <2>1 DEF Held, Idle, InCallback
  <2>3. /\ i \in Ids /\ request[i].method = "EVENT" /\ ~Stored(i)
        /\ \A j \in event_list : request[j].token = rx.msg.token <=> j = i
    <3>1. /\ i \in Ids /\ request[i].method = "EVENT"
          /\ \A j \in event_list : request[j].token = rx.msg.token <=> j = i
      BY <2>0, <2>1, MatchingIsTheCall
    <3> QED
      BY <3>1 DEF SeenInv
  <2>4. \E I \in SUBSET (event_list \cap {i}) : Notify(I, "ACCEPTED")
    <3>1. PICK I : /\ I = {j \in event_list : request[j].token = rx.msg.token /\ request[j].callback = "user"}
                   /\ Notify(I, "ACCEPTED")
      BY <1>15 DEF HandleEventReply
    <3> QED
      BY <2>3, <3>1
  <2>5. PICK I \in SUBSET (event_list \cap {i}) : Notify(I, "ACCEPTED")
    BY <2>4
  <2>6. \A j \in Ids : /\ told'[j] = IF j \in I THEN <<"ACCEPTED">> ELSE told[j]
                       /\ ack'[j] = IF j \in I /\ Stored(j) THEN "ACCEPTED" ELSE ack[j]
    <3>1. I \in SUBSET Ids /\ "ACCEPTED" \in Ack /\ \A j \in I : told[j] = <<>>
      BY <1>0, <2>5 DEF TypeInv, ListInv, Ack
    <3> QED
      BY <1>0, <2>5, <3>1, FirstAnswer
  <2>7. \A j \in Ids : j # i => seen'[j] = seen[j] /\ told'[j] = told[j] /\ ack'[j] = ack[j]
    BY <1>0, <2>0, <2>1, <2>3, <2>5, <2>6 DEF Noted, TypeInv
  <2>8. ASSUME NEW j \in Ids, j # i PROVE Truth(j)'
    BY <2>1, <2>2, <2>7, <2>8 DEF SeenInv, Truth
  <2>9. Truth(i)'
    <3>1. seen'[i] = seen[i] \/ told[i] = <<>>
      BY <1>0, <2>0, <2>1, <2>3 DEF Noted, TypeInv
    <3>2. told'[i] \in {told[i], <<"ACCEPTED">>} /\ (told[i] # <<>> => told'[i] = told[i])
      <4>1. i \in I => told[i] = <<>>
        BY <1>0, <2>5 DEF ListInv
      <4> QED
        BY <2>3, <2>6, <4>1
    <3>3. "TIMEOUT" \in Range(told'[i]) => seen'[i] = {}
      <4>1. "TIMEOUT" \notin Range(<<"ACCEPTED">>) /\ "TIMEOUT" \notin Range(<<>>)
        BY RangeOfOne
      <4> QED
        BY <2>3, <3>1, <3>2, <4>1 DEF SeenInv, Truth
    <3> QED
      BY <2>1, <2>3, <3>3 DEF Truth
  <2>10. \A j \in reply_list' : seen'[j] = {}
    BY <1>0, <2>1, <2>3, <2>7 DEF SeenInv, TypeInv, ListInv, Answerable
  <2>11. \A u \in App : pc'[u] \in AskPC => seen'[cur'[u]] = {} /\ \A m \in Held' : m.of # cur'[u]
    <3> SUFFICES ASSUME NEW u \in App, pc[u] \in AskPC PROVE seen'[cur[u]] = {}
      BY <2>1, <2>2
    <3>1. cur[u] # 0 /\ cur[u] # i
      BY <1>0, <2>3 DEF CallInv, CallOf, AskPC
    <3>2. cur[u] \in Ids
      BY <1>0, <3>1, TemplateConstants DEF TypeInv, Ids
    <3> QED
      BY <2>7, <3>1, <3>2 DEF SeenInv
  <2> QED
    BY <2>1, <2>2, <2>8, <2>9, <2>10, <2>11 DEF SeenInv
<1> QED
  BY <1>1, <1>2, <1>3, <1>4, <1>5, <1>6, <1>7, <1>8, <1>9, <1>10, <1>11, <1>12, <1>13, <1>14, <1>15, NextIs
     DEF RequestStep, ReceiveStep, HandlerStep

-----------------------------------------------------------------------------
(***************************************************************************)
(* An event with a callback is on event_list from before its publication   *)
(* until the callback is called or its timer has run out.                  *)
(***************************************************************************)
Loud(i)    == request[i].method = "EVENT" /\ request[i].callback = "user"
Posted(i)  == i \in Carried \/ \E t \in App : pc[t] = "post" /\ cur[t] = i
Settled(i) == told[i] # <<>> \/ i \in ran_out

EventInv ==
    /\ template \in {"none", "constructing"} => calls = 0
    /\ \A i \in Ids : Loud(i) /\ Posted(i) /\ template = "ready" => i \in event_list \/ Settled(i)
    /\ \A i \in Ids : Loud(i) /\ seen[i] # {} => Settled(i)

(* Where no call begins: what leaves event_list, and what a handler heard, *)
(* is settled.                                                             *)
LEMMA EventRests ==
  ASSUME BaseInv, MessageInv, EventInv, [Next]_vars, UNCHANGED <<request, calls>>,
         ran_out \subseteq ran_out', \A i \in Ids : told[i] # <<>> => told'[i] # <<>>,
         template' \in {"none", "constructing"} => template \in {"none", "constructing"},
         template' = "ready" => template \in {"constructing", "ready"},
         \A i \in event_list : Loud(i) => i \in event_list' \/ Settled(i)' \/ template' # "ready",
         \A i \in Ids : Loud(i) => seen'[i] = seen[i] \/ Settled(i)',
         \A t \in App : pc'[t] = "post" => pc[t] = "post" /\ cur'[t] = cur[t]
  PROVE  EventInv'
<1>0. TypeInv /\ CallInv /\ FreshInv
  BY DEF BaseInv
<1>1. \A i \in Ids : (Loud(i)' <=> Loud(i)) /\ (Settled(i) => Settled(i)')
  BY DEF Loud, Settled
<1>2. ASSUME NEW i \in Ids, Loud(i), Posted(i)' PROVE Posted(i)
  <2>1. i # 0
    BY DEF Ids
  <2>2. Carried' \subseteq Carried \cup {0} \cup {cur[u] : u \in Publishing}
    BY <1>0, CarriedStep
  <2>3. ASSUME NEW u \in Publishing, cur[u] = i PROVE Posted(i)
    BY <1>0, <1>2, <2>3 DEF Publishing, CallInv, CallOf, Loud, Posted
  <2> QED
    BY <1>2, <2>1, <2>2, <2>3 DEF Posted
<1>3. ASSUME NEW i \in Ids, Loud(i) PROVE template # "constructing"
  <2>1. calls # 0
    <3>1. ~(i > calls)
      BY <1>0, <1>3 DEF FreshInv, Loud
    <3> QED
      BY <1>0, <3>1, TemplateConstants DEF TypeInv, Ids
  <2> QED
    BY <2>1 DEF EventInv
<1>4. ASSUME NEW i \in Ids, Loud(i), Posted(i)', template' = "ready" PROVE i \in event_list' \/ Settled(i)'
  BY <1>1, <1>2, <1>3, <1>4 DEF EventInv
<1>5. ASSUME NEW i \in Ids, Loud(i), seen'[i] # {} PROVE Settled(i)'
  BY <1>1, <1>5 DEF EventInv
<1> QED
  BY <1>1, <1>4, <1>5 DEF EventInv

LEMMA EventStep ==
  ASSUME BaseInv, MessageInv, TokenInv, AliveInv, EventInv, [Next]_vars
  PROVE  EventInv'
<1> USE DEF life, lists, callv, answer, wire
<1>0. TypeInv /\ LifeInv /\ RxInv /\ CallInv /\ FreshInv /\ ListInv
  BY DEF BaseInv
<1>1. ASSUME NEW t \in App,
             \/ \E call \in Calls : BuildDocument(t, call)
             \/ \E callback \in {"none", "user"} : CreateEvent(t, callback)
             \/ ControlReply(t)
      PROVE  EventInv'
  <2>0. PICK n : n = calls + 1
    OBVIOUS
  <2>1. /\ MayCall(t) /\ UNCHANGED <<told, seen, ran_out, template, up, down, rx>>
        /\ event_list' \in {event_list, event_list \cup {n}}
        /\ \A i \in Ids : i # n => request'[i] = request[i]
        /\ \A u \in App : (cur'[u] = cur[u] /\ pc'[u] = pc[u]) \/ (u = t /\ cur'[u] = n)
    BY <1>0, <1>1, <2>0 DEF BuildDocument, CreateEvent, ControlReply, NewCall, TypeInv
  <2>2. n \in Ids /\ n > calls /\ \A u \in App : cur[u] # n
    <3>1. n > calls
      BY <1>0, <2>0 DEF TypeInv
    <3> QED
      BY <1>0, <2>0, <2>1, <3>1, FreshBegins
  <2>3. seen[n] = {} /\ template = "ready" /\ n \notin Carried
    BY <1>0, <2>0, <2>1, <2>2, CarriedCalls DEF MessageInv, MayCall
  <2>4. Carried' = Carried /\ \A i \in Ids : Settled(i)' <=> Settled(i)
    BY <2>1 DEF Carried, Held, Settled
  <2>5. Loud(n)' => n \in event_list' \/ UNCHANGED <<cur, pc>>
    <3>1. ASSUME NEW call \in Calls, BuildDocument(t, call) PROVE ~Loud(n)'
      <4>1. call[1] # "EVENT"
        BY TemplateConstants
      <4> QED
        BY <1>0, <2>0, <2>2, <3>1, <4>1 DEF BuildDocument, NewCall, TypeInv, Loud
    <3>2. ControlReply(t) => ~Loud(n)'
      BY <1>0, <2>0, <2>2 DEF ControlReply, NewCall, TypeInv, Loud
    <3>3. ASSUME NEW callback \in {"none", "user"}, CreateEvent(t, callback)
          PROVE  n \in event_list' \/ UNCHANGED <<cur, pc>>
      BY <2>0, <3>3 DEF CreateEvent
    <3> QED
      BY <1>1, <3>1, <3>2, <3>3
  <2>6. Loud(n)' /\ Posted(n)' => n \in event_list'
    <3>1. UNCHANGED <<cur, pc>> => ~Posted(n)'
      BY <2>2, <2>3, <2>4 DEF Posted
    <3> QED
      BY <2>5, <3>1
  <2>7. ASSUME NEW i \in Ids, i # n
        PROVE  (Loud(i)' <=> Loud(i)) /\ (Posted(i)' => Posted(i))
    BY <2>1, <2>4, <2>7 DEF Loud, Posted
  <2>8. ASSUME NEW i \in Ids, Loud(i)', Posted(i)' PROVE i \in event_list' \/ Settled(i)'
    BY <2>1, <2>3, <2>4, <2>6, <2>7, <2>8 DEF EventInv
  <2>9. ASSUME NEW i \in Ids, Loud(i)', seen'[i] # {} PROVE Settled(i)'
    BY <2>1, <2>3, <2>4, <2>7, <2>9 DEF EventInv
  <2> QED
    BY <2>1, <2>3, <2>8, <2>9 DEF EventInv
<1>2. ASSUME NEW t \in App,
             \/ PublishRequest(t) \/ PostEvent(t) \/ AddRequest(t) \/ WaitForAck(t)
             \/ Yield(t) \/ YieldReturn(t)
      PROVE  EventInv'
  <2>1. /\ UNCHANGED <<request, calls, ran_out, told, seen, template, event_list>>
        /\ \A u \in App : pc'[u] = "post" => pc[u] = "post" /\ cur'[u] = cur[u]
    BY <1>0, <1>2 DEF PublishRequest, PostEvent, AddRequest, AddUnless, WaitForAck, WaitFor, Yield,
       YieldReturn, Return, Goto, TypeInv
  <2> QED
    BY <1>0, <2>1, EventRests DEF TypeInv
<1>3. ASSUME NEW t \in App, SweepReplies(t) \/ SweepEvents(t) PROVE EventInv'
  <2>1. /\ UNCHANGED <<request, calls, ran_out, seen, template>>
        /\ event_list \ ran_out \subseteq event_list'
        /\ \A u \in App : pc'[u] = "post" => pc[u] = "post" /\ cur'[u] = cur[u]
    BY <1>0, <1>3 DEF SweepReplies, SweepRepliesWith, SweepEvents, SweepEventsOf, Goto, TypeInv
  <2>2. \A i \in Ids : told[i] # <<>> => told'[i] # <<>>
    <3>1. CASE SweepReplies(t)
      <4>1. Notify(Late, "TIMEOUT") /\ "TIMEOUT" \in Ack /\ Late \in SUBSET Ids /\ \A i \in Late : told[i] = <<>>
        BY <1>0, <3>1, LabelType DEF SweepReplies, SweepRepliesWith, ListInv, Answerable, Late, TypeInv
      <4>2. \A i \in Ids : told'[i] = IF i \in Late THEN <<"TIMEOUT">> ELSE told[i]
        BY <1>0, <4>1, FirstAnswer
      <4>3. <<"TIMEOUT">> # <<>>
        OBVIOUS
      <4> QED
        BY <4>2, <4>3
    <3>2. CASE SweepEvents(t)
      BY <3>2 DEF SweepEvents, SweepEventsOf
    <3> QED
      BY <1>3, <3>1, <3>2
  <2> QED
    BY <1>0, <2>1, <2>2, EventRests DEF TypeInv, Settled
<1>4. ASSUME NEW t \in App, ConstructStep(t) PROVE EventInv'
  <2>1. UNCHANGED <<request, calls, ran_out, told, seen, event_list, cur>>
    BY <1>4, ConstructLeaves
  <2>2. \A u \in App : pc'[u] = "post" => pc[u] = "post"
    BY <1>0, <1>4, ConstructLeaves DEF TypeInv, BuildPC
  <2>3. template \in {"none", "constructing"}
    BY <1>0, <1>4, ConstructLeaves DEF LifeInv
  <2>4. template' = "ready" => template = "constructing"
    BY <1>0, <1>4 DEF ConstructStep, ConstructBegin, ConstructSubscribe, ConstructSetStatus,
       ConstructCheck, ConstructYieldFails, ConstructFail, LifeInv, BuildPC
  <2> QED
    BY <1>0, <2>1, <2>2, <2>3, <2>4, EventRests DEF TypeInv
<1>5. CASE SubscriptionStep \/ StartYieldThread \/ StopYieldThread \/ DestroyReset \/ DestroyFree
  <2>1. /\ UNCHANGED <<request, calls, ran_out, told, seen, cur, pc>>
        /\ template' = template \/ template' \in {"reset", "freed"}
        /\ template' = "ready" => event_list' = event_list
    BY <1>5 DEF SubscriptionStep, SubscriptionAnswered, AnsweredWith, StartYieldThread,
                StopYieldThread, DestroyReset, DestroyFree
  <2> QED
    BY <1>0, <2>1, EventRests DEF TypeInv
<1>6. CASE CloudStep \/ UNCHANGED vars
  <2>1. UNCHANGED <<request, calls, told, seen, cur, pc, template, event_list>>
    BY <1>6, CloudLeaves DEF vars
  <2>2. ran_out \subseteq ran_out'
    BY <1>6 DEF CloudStep, Cloud, CloudReplies, CloudOrders, RunOut, vars
  <2> QED
    BY <1>0, <2>1, <2>2, EventRests DEF TypeInv
<1>7. ASSUME \/ \E t \in Thread : \E msg \in down : Receive(t, msg)
             \/ HandleControl \/ TraverseReplies
             \/ HandleEventReply /\ rx.msg.code = "bad"
      PROVE  EventInv'
  <2>1. UNCHANGED <<request, calls, told, seen, cur, pc, template, event_list, ran_out>>
    BY <1>7 DEF Receive, HandleControl, TraverseReplies, HandleEventReply
  <2> QED
    BY <1>0, <2>1, EventRests DEF TypeInv
<1>8. CASE HandleReply \/ HandleReplyCallback \/ TraverseEnd
  <2>1. /\ UNCHANGED <<request, calls, cur, pc, template, event_list, ran_out>> /\ HandlerStep
        /\ rx.stage \in {"walk", "callback"}
    BY <1>8 DEF HandleReply, HandleReplyCallback, TraverseEnd, HandlerStep
  <2>2. rx # Idle /\ rx.msg \in Held /\ rx.msg.type = "reply"
    BY <1>0, <2>1, HeldStep DEF RxInv
  <2>3. ~Loud(rx.msg.of)
    BY <2>2 DEF MessageInv, DownTrue, Loud
  <2>4. \A i \in Ids : Loud(i) => seen'[i] = seen[i]
    BY <1>0, <2>1, <2>2, <2>3, NotedOne
  <2>5. \A i \in Ids : told[i] # <<>> => told'[i] # <<>>
    <3>1. HandleReply => \A i \in Ids : told'[i] = told[i] \/ \E x : told'[i] = <<x>>
      BY <1>0, ReplyAnswer
    <3>2. HandleReplyCallback => \A i \in Ids : told'[i] = told[i] \/ told'[i] = <<"ACCEPTED">>
      BY <1>0, CallbackAnswer
    <3>3. TraverseEnd => told' = told
      BY DEF TraverseEnd
    <3> QED
      BY <1>8, <3>1, <3>2, <3>3
  <2> QED
    BY <1>0, <2>1, <2>4, <2>5, EventRests DEF TypeInv
<1>9. CASE HandleEventReply /\ rx.msg.code # "bad"
  <2>0. PICK i : i = rx.msg.of
    OBVIOUS
  <2>1. /\ UNCHANGED <<request, calls, cur, pc, template, ran_out>> /\ HandlerStep
        /\ rx.stage = "start" /\ rx.msg.type = "event_reply"
    BY <1>9 DEF HandleEventReply, HandlerStep
  <2>2. rx # Idle /\ rx.msg \in Held /\ template = "ready"
    BY <1>0, <2>1, HeldStep DEF AliveInv
  <2>3. i \in Ids /\ \A j \in event_list : request[j].token = rx.msg.token <=> j = i
    BY <2>0, <2>1, <2>2, MatchingIsTheCall
  <2>4. PICK I : /\ I = {j \in event_list : request[j].token = rx.msg.token /\ request[j].callback = "user"}
                 /\ Notify(I, "ACCEPTED") /\ event_list' = event_list \ I
    BY <1>9 DEF HandleEventReply
  <2>5. \A j \in Ids : told'[j] = IF j \in I THEN <<"ACCEPTED">> ELSE told[j]
    <3>1. I \in SUBSET Ids /\ "ACCEPTED" \in Ack /\ \A j \in I : told[j] = <<>>
      BY <1>0, <2>4 DEF TypeInv, ListInv, Ack
    <3> QED
      BY <1>0, <2>4, <3>1, FirstAnswer
  <2>6. \A j \in Ids : told[j] # <<>> \/ j \in I => told'[j] # <<>>
    BY <2>5
  <2>7. ASSUME NEW j \in Ids, Loud(j) PROVE seen'[j] = seen[j] \/ Settled(j)'
    <3>1. CASE j # i
      BY <1>0, <2>0, <2>1, <2>2, <3>1, NotedOne
    <3>2. CASE j = i
      <4>1. Posted(i)
        BY <2>0, <2>2 DEF Posted, Carried
      <4>2. i \in event_list \/ Settled(i)
        BY <2>2, <2>3, <2>7, <3>2, <4>1 DEF EventInv
      <4>3. i \in event_list => i \in I
        BY <2>3, <2>4, <2>7, <3>2 DEF Loud
      <4> QED
        BY <2>1, <2>3, <2>6, <3>2, <4>2, <4>3 DEF Settled
    <3> QED
      BY <3>1, <3>2
  <2>8. \A j \in event_list : j \in event_list' \/ Settled(j)'
    BY <1>0, <2>4, <2>6 DEF TypeInv, Settled
  <2> QED
    BY <1>0, <2>1, <2>6, <2>7, <2>8, EventRests DEF TypeInv
<1> QED
  BY <1>1, <1>2, <1>3, <1>4, <1>5, <1>6, <1>7, <1>8, <1>9, NextIs
     DEF RequestStep, ReceiveStep, HandlerStep

-----------------------------------------------------------------------------
LEMMA InitHeard == Init => SeenInv /\ EventInv
<1> SUFFICES ASSUME Init PROVE SeenInv /\ EventInv
  OBVIOUS
<1>1. \A i \in Ids : told[i] = <<>> /\ seen[i] = {} /\ ack[i] = "NONE" /\ result[i] = "none"
                     /\ request[i].callback = "none"
  BY DEF Init
<1>2. \A i \in Ids : Truth(i)
  BY <1>1, RangeOfOne DEF Truth
<1>3. reply_list = {} /\ rx.stage # "callback" /\ calls = 0 /\ \A t \in App : pc[t] \notin AskPC
  BY DEF Init, Idle, AskPC
<1>4. SeenInv
  BY <1>1, <1>2, <1>3 DEF SeenInv, Stored
<1>5. EventInv
  BY <1>1, <1>3 DEF EventInv, Loud
<1> QED
  BY <1>4, <1>5

(* What the application is told is true, for every number of threads,      *)
(* calls and places on the lists and whatever is refused, lost or late: a  *)
(* request that handle_template_expired_reply gives up has not had a reply *)
(* handled, success and refusal of IOT_Template_Report_Sync and            *)
(* IOT_Template_GetStatus_sync are what the cloud answered to that very    *)
(* request, and a handled reply to an event reaches its callback unless    *)
(* the event had timed out.  No thread handles a reply between the publish *)
(* of a request and its listing in send_template_request, no two threads   *)
(* draw a client token at once, and the loop is stopped and the MQTT       *)
(* client destroyed with the template; without any one of these TLC finds  *)
(* the property broken.                                                    *)
THEOREM OutcomesAreTrue ==
  ASSUME "early_reply" \notin Adversity, "racing_tokens" \notin Adversity,
         "destroy_while_looping" \notin Adversity, "keep_mqtt" \notin Adversity
  PROVE  Spec => []OutcomesTrue
<1> DEFINE Inv == BaseInv /\ MessageInv /\ TokenInv /\ AliveInv /\ SeenInv /\ EventInv
<1>1. Init => Inv
  BY InitBase, InitMore, InitHeard
<1>2. Inv /\ [Next]_vars => Inv'
  <2> SUFFICES ASSUME Inv, [Next]_vars PROVE Inv'
    OBVIOUS
  <2>1. BaseInv'
    BY NextBase
  <2>2. MessageInv' /\ TokenInv'
    BY MessageStep, TokenStep
  <2>3. AliveInv'
    BY AliveStep DEF StoppedFirst
  <2>4. SeenInv' /\ EventInv'
    BY SeenStep, EventStep
  <2> QED
    BY <2>1, <2>2, <2>3, <2>4
<1>3. Inv => OutcomesTrue
  BY DEF SeenInv, Truth, InCallback, EventInv, Loud, Settled, OutcomesTrue
<1> QED
  BY <1>1, <1>2, <1>3, PTL DEF Spec

=============================================================================
