------------------------- MODULE MqttSession_proofs -------------------------
(***************************************************************************)
(* Theorems about MqttSession for every range of intervals, every number   *)
(* of pings and auto-reconnect on or off.                                  *)
(***************************************************************************)
EXTENDS MqttSession, TLAPS

PcInv ==
    /\ pc = [t \in Activity |-> pc[t]]
    /\ rc = [t \in Runner |-> rc[t]]

-----------------------------------------------------------------------------
(***************************************************************************)
(* The keep-alive.                                                         *)
(***************************************************************************)
(* The client counts no more pings without an answer than were sent since  *)
(* the last packet was read on this connection.                            *)
PingInv ==
    /\ is_ping_outstanding \in 0 .. MQTT_PING_RETRY_TIMES
    /\ quiet \in 0 .. MQTT_PING_RETRY_TIMES
    /\ is_ping_outstanding <= quiet

LEMMA PingStep ==
  ASSUME PingInv, [Next]_vars
  PROVE  PingInv'
<1> USE SessionConstants DEF PingInv
<1>1. ASSUME UNCHANGED alive PROVE PingInv'
  BY <1>1 DEF alive
<1>2. CASE Construct
  BY <1>2 DEF Construct
<1>3. CASE Destroy \/ StartLoop \/ StopLoop \/ StopLoopReturn \/ Yield \/ Reconnect
  BY <1>1, <1>3 DEF Destroy, StartLoop, StopLoop, StopLoopReturn, StopLoopWhen, Yield, Reconnect
<1>4. CASE LoopStep
  BY <1>1, <1>4 DEF LoopStep, LoopStart, LoopTop, LoopTopIf, LoopReturned, LoopEnd, LoopExit
<1>5. ASSUME NEW t \in Runner, YieldStep(t) PROVE PingInv'
  <2>1. CASE Enter(t) \/ Body(t) \/ Again(t) \/ Expired(t) \/ ReadFails(t)
    BY <1>1, <2>1 DEF Enter, Body, Again, Expired, ReadFails
  <2>2. CASE ReadAck(t) \/ ReadPublish(t) \/ ReadNothing(t)
    BY <2>2 DEF ReadAck, ReadPublish, ReadPublishThen, ReadNothing, ReadNothingThen
  <2>3. CASE Ping(t)
    <3>1. \/ UNCHANGED alive
          \/ /\ ~(is_ping_outstanding >= MQTT_PING_RETRY_TIMES)
             /\ is_ping_outstanding' = is_ping_outstanding + 1
             /\ quiet' = IF quiet < MQTT_PING_RETRY_TIMES THEN quiet + 1 ELSE quiet
      BY <2>3 DEF Ping, PingThen
    <3> QED
      BY <1>1, <3>1
  <2>4. CASE Drop(t) \/ Bye(t) \/ Close(t) \/ Notify(t) \/ Lost(t)
    BY <1>1, <2>4 DEF Drop, Bye, Close, CloseThen, Notify, NotifyThen, Lost
  <2>5. CASE Redial(t) \/ Dial(t) \/ Resub(t) \/ Backoff(t)
    BY <1>1, <2>5 DEF Redial, Dial, Resub, ResubThen, Backoff, BackoffBy
  <2>6. CASE Hello(t)
    <3>1. UNCHANGED alive \/ (is_ping_outstanding' = 0 /\ quiet' = 0)
      BY <2>6 DEF Hello, HelloThen
    <3> QED
      BY <1>1, <3>1
  <2> QED
    BY <1>5, <2>1, <2>2, <2>3, <2>4, <2>5, <2>6 DEF YieldStep
<1>6. CASE WriterChecks \/ WriterStep
  BY <1>1, <1>6 DEF WriterChecks, WriterStep, WriterWrites, WriterDone
<1>7. CASE PingTimer \/ DelayTimer \/ FallSilent
  BY <1>1, <1>7 DEF PingTimer, DelayTimer, FallSilent
<1>8. CASE UNCHANGED vars
  BY <1>1, <1>8 DEF vars
<1> QED
  BY <1>2, <1>3, <1>4, <1>5, <1>6, <1>7, <1>8 DEF Next

(* _mqtt_keep_alive gives a connection up for want of an answer only after *)
(* MQTT_PING_RETRY_TIMES PINGREQs on this very connection with nothing     *)
(* read since, for every number of retries: a reconnection, a PUBLISH or   *)
(* an acknowledgement in between starts the count again.                   *)
THEOREM QuietLinksOnly == Spec => DropsOnlyQuietLinks
<1>1. Init => PingInv
  BY SessionConstants DEF Init, PingInv
<1>2. PingInv /\ [Next]_vars =>
        [\A t \in Runner : /\ pc[t] = "ping" /\ pc'[t] = "drop"
                           /\ is_ping_outstanding >= MQTT_PING_RETRY_TIMES
                           => quiet >= MQTT_PING_RETRY_TIMES]_vars
  BY SessionConstants DEF PingInv
<1> QED
  BY <1>1, <1>2, PingStep, PTL DEF Spec, DropsOnlyQuietLinks

-----------------------------------------------------------------------------
(***************************************************************************)
(* Who runs: the loop thread, or one call of the application thread.       *)
(***************************************************************************)
OneRunner ==
    {"reconnect_while_looping", "late_start", "slow_stop"} \cap Adversity = {}

AppInv ==
    /\ pc["yield"] # "idle" =>
          pc["reconnect"] = "idle" /\ pc["stop"] = "idle" /\ pc["loop"] \in {"none", "ended"}
    /\ pc["reconnect"] # "idle" => pc["stop"] = "idle" /\ pc["loop"] = "none"

LoopInv ==
    /\ pc["loop"] # "none" => loop_used
    /\ yield_thread_exit => pc["loop"] \in {"none", "start"}
    /\ ~yield_thread_running /\ pc["stop"] = "idle" => pc["loop"] \in {"none", "ended"}

LiveInv ==
    /\ client \in {"none", "live"}
    /\ client = "none" => /\ ~loop_used /\ ~is_connected
                          /\ \A t \in Activity \ {"loop"} : pc[t] = "idle"

CoreInv == PcInv /\ AppInv /\ LoopInv /\ LiveInv

(* Where qcloud_iot_mqtt_yield and qcloud_iot_mqtt_reconnect go.           *)
Out(t) == IF t = "loop" THEN "returned" ELSE "idle"

LEMMA YieldMoves ==
  ASSUME PcInv, NEW t \in Runner, YieldStep(t)
  PROVE  /\ pc[t] \in InYield
         /\ PcInv'
         /\ (\A u \in Activity \ {t} : pc'[u] = pc[u]) /\ pc'[t] \in InYield \cup {Out(t)}
         /\ UNCHANGED <<client, thread>>
<1> USE DEF PcInv, Goto, GotoWith, Return, Out, InYield, Activity
<1>1. CASE Enter(t)
  BY <1>1 DEF Enter
<1>2. CASE Body(t)
  BY <1>2 DEF Body
<1>3. CASE Again(t) \/ Expired(t)
  BY <1>3 DEF Again, Expired
<1>4. CASE ReadAck(t) \/ ReadPublish(t) \/ ReadNothing(t) \/ ReadFails(t)
  BY <1>4 DEF ReadAck, ReadPublish, ReadPublishThen, ReadNothing, ReadNothingThen, ReadFails
<1>5. CASE Ping(t)
  BY <1>5 DEF Ping, PingThen
<1>6. CASE Drop(t) \/ Bye(t)
  BY <1>6 DEF Drop, Bye
<1>7. CASE Close(t) \/ Notify(t)
  BY <1>7 DEF Close, CloseThen, Notify, NotifyThen
<1>8. CASE Lost(t)
  BY <1>8 DEF Lost
<1>9. CASE Redial(t)
  BY <1>9 DEF Redial
<1>10. CASE Dial(t)
  BY <1>10 DEF Dial
<1>11. CASE Hello(t)
  BY <1>11 DEF Hello, HelloThen
<1>12. CASE Resub(t)
  BY <1>12 DEF Resub, ResubThen
<1>13. CASE Backoff(t)
  BY <1>13 DEF Backoff, BackoffBy
<1> QED
  BY <1>1, <1>2, <1>3, <1>4, <1>5, <1>6, <1>7, <1>8, <1>9, <1>10, <1>11, <1>12, <1>13
     DEF YieldStep

(* Nobody else is inside qcloud_iot_mqtt_yield or _reconnect.              *)
LEMMA Alone ==
  ASSUME AppInv, NEW t \in Runner, pc[t] \in InYield
  PROVE  /\ \A u \in Runner \ {t} : pc[u] \in {"idle", "none", "ended"}
         /\ t = "loop" => pc["yield"] = "idle" /\ pc["reconnect"] = "idle"
  BY DEF AppInv, Runner, InYield

LEMMA CoreStep ==
  ASSUME OneRunner, CoreInv, [Next]_vars
  PROVE  CoreInv'
<1> USE DEF CoreInv
<1>1. CASE Construct
  BY <1>1 DEF Construct, PcInv, AppInv, LoopInv, LiveInv, AppIdle
<1>2. CASE Destroy
  <2>1. UNCHANGED <<pc, rc, loop_used, yield_thread_exit, yield_thread_running>>
        /\ client' = "none" /\ ~is_connected' /\ ~loop_used
        /\ AppIdle /\ pc["writer"] = "idle"
    BY <1>2 DEF Destroy, thread
  <2> QED
    BY <2>1 DEF PcInv, AppInv, LoopInv, LiveInv, AppIdle, Activity, Runner
<1>3. CASE StartLoop
  <2>1. /\ client = "live" /\ AppIdle /\ pc["loop"] = "none" /\ UNCHANGED <<client, rc, yield_thread_exit>>
        /\ yield_thread_running' = TRUE /\ loop_used' = TRUE
        /\ UNCHANGED pc \/ pc' = [pc EXCEPT !["loop"] = "start"]
    BY <1>3 DEF StartLoop, Goto
  <2> QED
    BY <2>1 DEF PcInv, AppInv, LoopInv, LiveInv, AppIdle, Activity, Runner
<1>4. CASE StopLoop
  <2>1. /\ client = "live" /\ AppIdle /\ UNCHANGED <<client, rc, yield_thread_exit, loop_used>>
        /\ pc' = [pc EXCEPT !["stop"] = "wait"]
    BY <1>4 DEF StopLoop, Goto
  <2> QED
    BY <2>1 DEF PcInv, AppInv, LoopInv, LiveInv, AppIdle, Activity, Runner
<1>5. CASE StopLoopReturn
  <2>1. /\ pc["stop"] = "wait" /\ loop_used' = FALSE
        /\ UNCHANGED <<client, rc, is_connected, yield_thread_running, yield_thread_exit>>
        /\ pc' = [pc EXCEPT !["stop"] = "idle"]
    BY <1>5 DEF StopLoopReturn, StopLoopWhen, Goto, link
  <2>2. pc["loop"] = "none"
    BY <1>5 DEF StopLoopReturn, StopLoopWhen, OneRunner, LoopInv
  <2> QED
    BY <2>1, <2>2 DEF PcInv, AppInv, LoopInv, LiveInv, Activity, Runner
<1>6. CASE Yield
  <2>1. /\ client = "live" /\ AppIdle /\ ~yield_thread_running
        /\ pc' = [pc EXCEPT !["yield"] = "entry"]
        /\ UNCHANGED <<client, rc, thread>>
    BY <1>6 DEF Yield, Goto
  <2> QED
    BY <2>1 DEF PcInv, AppInv, LoopInv, LiveInv, AppIdle, Activity, Runner, thread
<1>7. CASE Reconnect
  <2>1. /\ client = "live" /\ AppIdle /\ pc["loop"] = "none"
        /\ pc' = [pc EXCEPT !["reconnect"] = "drop"]
        /\ UNCHANGED <<client, rc, thread>>
    BY <1>7 DEF Reconnect, Goto, OneRunner
  <2> QED
    BY <2>1 DEF PcInv, AppInv, LoopInv, LiveInv, AppIdle, Activity, Runner, thread
<1>8. CASE LoopStep
  <2>1. /\ pc["loop"] \notin {"none", "ended"} \/ yield_thread_exit'
        /\ pc["loop"] \in {"start", "top", "returned", "end", "ended"}
        /\ (\A u \in Activity \ {"loop"} : pc'[u] = pc[u]) /\ PcInv'
        /\ pc'["loop"] \in {"top", "entry", "end", "ended", "none"}
        /\ UNCHANGED <<client, is_connected, loop_used>>
        /\ pc["loop"] = "end" => pc'["loop"] = "ended"
        /\ pc["loop"] = "ended" <=> pc'["loop"] = "none"
        /\ yield_thread_exit' => pc'["loop"] = "none"
        /\ pc["loop"] # "end" => UNCHANGED yield_thread_running
    BY <1>8 DEF LoopStep, LoopStart, LoopTop, LoopTopIf, LoopReturned, LoopEnd, LoopExit,
                Goto, GotoWith, PcInv, LoopInv, Activity, Runner, link, thread
  <2> QED
    BY <2>1 DEF PcInv, AppInv, LoopInv, LiveInv, Activity, Runner
<1>9. ASSUME NEW t \in Runner, YieldStep(t) PROVE CoreInv'
  <2>1. /\ pc[t] \in InYield
        /\ PcInv'
        /\ (\A u \in Activity \ {t} : pc'[u] = pc[u]) /\ pc'[t] \in InYield \cup {Out(t)}
        /\ UNCHANGED <<client, thread>>
    BY <1>9, YieldMoves
  <2>2. client # "none"
    BY <2>1 DEF LiveInv, LoopInv, Runner, Activity, InYield
  <2>3. AppInv'
    BY <2>1, Alone DEF AppInv, PcInv, Out, Runner, Activity, InYield
  <2>4. LoopInv'
    BY <2>1 DEF LoopInv, PcInv, Out, Runner, Activity, InYield, thread
  <2> QED
    BY <2>1, <2>2, <2>3, <2>4 DEF LiveInv, PcInv
<1>10. CASE WriterChecks \/ WriterStep
  <2>1. /\ client = "live" \/ pc["writer"] # "idle"
        /\ (\A u \in Activity \ {"writer"} : pc'[u] = pc[u]) /\ PcInv'
        /\ UNCHANGED <<client, rc, thread>>
    BY <1>10 DEF WriterChecks, WriterStep, WriterWrites, WriterDone, Goto, PcInv, Activity
  <2> QED
    BY <2>1 DEF PcInv, AppInv, LoopInv, LiveInv, Activity, Runner, thread
<1>11. CASE PingTimer \/ DelayTimer \/ FallSilent
  BY <1>11 DEF PingTimer, DelayTimer, FallSilent, PcInv, AppInv, LoopInv, LiveInv, thread, link
<1>12. CASE UNCHANGED vars
  BY <1>12 DEF vars, PcInv, AppInv, LoopInv, LiveInv, thread, link
<1> QED
  BY <1>1, <1>2, <1>3, <1>4, <1>5, <1>6, <1>7, <1>8, <1>9, <1>10, <1>11, <1>12 DEF Next

-----------------------------------------------------------------------------
(***************************************************************************)
(* The connection and the network handle.                                  *)
(***************************************************************************)
LinkInv ==
    /\ is_connected \in BOOLEAN
    /\ is_connected => handle = "open"
    /\ \A t \in Runner :
         /\ pc[t] \in {"read", "ping", "bye", "close_sent", "close_forced", "resub"} => is_connected
         /\ pc[t] \in {"notify", "lost", "redial", "dial", "hello"} => ~is_connected
         /\ pc[t] = "hello" => handle = "open"

WriterInv == pc["writer"] # "idle" => is_connected

(* A runner takes a step and leaves the connection as it is.               *)
LEMMA SteadyMoves ==
  ASSUME PcInv, LinkInv, NEW t \in Runner, YieldStep(t), ~Close(t), ~Notify(t), ~Dial(t), ~Hello(t)
  PROVE  /\ UNCHANGED link /\ pc'[t] # "hello"
         /\ pc'[t] \in {"read", "ping", "bye", "close_sent", "close_forced", "resub"} => is_connected
         /\ pc'[t] \in {"notify", "lost", "redial", "dial", "hello"} => ~is_connected
<1> USE DEF PcInv, LinkInv, Goto, GotoWith, Return, Activity, Runner
<1>1. CASE Enter(t) \/ Again(t) \/ Expired(t)
  BY <1>1 DEF Enter, Again, Expired
<1>2. CASE Body(t)
  BY <1>2 DEF Body, Reconnects
<1>3. CASE ReadAck(t) \/ ReadPublish(t) \/ ReadNothing(t) \/ ReadFails(t)
  BY <1>3 DEF ReadAck, ReadPublish, ReadPublishThen, ReadNothing, ReadNothingThen, ReadFails
<1>4. CASE Ping(t)
  BY <1>4 DEF Ping, PingThen
<1>5. CASE Drop(t) \/ Bye(t)
  BY <1>5 DEF Drop, Bye
<1>6. CASE Lost(t)
  BY <1>6 DEF Lost
<1>7. CASE Redial(t)
  BY <1>7 DEF Redial
<1>8. CASE Resub(t) \/ Backoff(t)
  BY <1>8 DEF Resub, ResubThen, Backoff, BackoffBy
<1> QED
  BY <1>1, <1>2, <1>3, <1>4, <1>5, <1>6, <1>7, <1>8 DEF YieldStep

LEMMA LinkStep ==
  ASSUME OneRunner, CoreInv, LinkInv, [Next]_vars
  PROVE  LinkInv'
<1> USE DEF CoreInv
<1>1. CASE Construct
  BY <1>1 DEF Construct, AppIdle, LinkInv, Runner, LoopInv, LiveInv
<1>2. CASE Destroy
  <2>1. pc["loop"] = "none" /\ AppIdle /\ UNCHANGED pc /\ is_connected' = FALSE
    BY <1>2 DEF Destroy, LoopInv
  <2> QED
    BY <2>1 DEF LinkInv, AppIdle, Runner
<1>3. CASE StartLoop
  <2>1. /\ UNCHANGED link
        /\ UNCHANGED pc \/ pc' = [pc EXCEPT !["loop"] = "start"]
    BY <1>3 DEF StartLoop, Goto
  <2> QED
    BY <2>1 DEF LinkInv, PcInv, Runner, Activity, link
<1>4. CASE StopLoop \/ StopLoopReturn
  BY <1>4 DEF StopLoop, StopLoopReturn, StopLoopWhen, Goto, LinkInv, PcInv, Runner, Activity, link
<1>5. CASE Yield \/ Reconnect
  BY <1>5 DEF Yield, Reconnect, Goto, LinkInv, PcInv, Runner, Activity, link
<1>6. CASE LoopStep
  <2>1. /\ UNCHANGED link
        /\ \A u \in Activity \ {"loop"} : pc'[u] = pc[u]
        /\ pc'["loop"] \in {"top", "entry", "end", "ended", "none"}
    BY <1>6 DEF LoopStep, LoopStart, LoopTop, LoopTopIf, LoopReturned, LoopEnd, LoopExit,
                Goto, GotoWith, PcInv, Activity, Runner
  <2> QED
    BY <2>1 DEF LinkInv, Activity, Runner, link
<1>7. ASSUME NEW t \in Runner, YieldStep(t) PROVE LinkInv'
  <2>1. /\ pc[t] \in InYield /\ PcInv'
        /\ \A u \in Activity \ {t} : pc'[u] = pc[u]
    BY <1>7, YieldMoves
  <2>2. \A u \in Runner \ {t} : pc'[u] \in {"idle", "none", "ended"}
    BY <2>1, Alone DEF Activity
  <2>3. is_connected' \in {is_connected, TRUE, FALSE}
    BY <1>7, SteadyMoves
       DEF Close, CloseThen, Notify, NotifyThen, Dial, Hello, HelloThen, link
  <2>4. SUFFICES /\ is_connected' => handle' = "open"
                 /\ pc'[t] \in {"read", "ping", "bye", "close_sent", "close_forced", "resub"}
                       => is_connected'
                 /\ pc'[t] \in {"notify", "lost", "redial", "dial", "hello"} => ~is_connected'
                 /\ pc'[t] = "hello" => handle' = "open"
    BY <2>2, <2>3 DEF LinkInv
  <2>5. CASE Close(t) \/ Notify(t)
    BY <2>5 DEF Close, CloseThen, Notify, NotifyThen, LinkInv, Goto, PcInv, Activity
  <2>6. CASE Dial(t)
    BY <2>6 DEF Dial, LinkInv, Goto, PcInv, Activity
  <2>7. CASE Hello(t)
    <3>1. pc[t] = "hello" /\ ~is_connected /\ handle = "open"
      BY <2>7 DEF Hello, HelloThen, LinkInv
    <3>2. \/ is_connected' = TRUE /\ pc'[t] = "resub" /\ UNCHANGED handle
          \/ is_connected' = is_connected /\ pc'[t] = "backoff"
      BY <2>7, <3>1 DEF Hello, HelloThen, Goto, PcInv, Activity
    <3> QED
      BY <3>1, <3>2
  <2>8. CASE ~Close(t) /\ ~Notify(t) /\ ~Dial(t) /\ ~Hello(t)
    BY <1>7, <2>8, SteadyMoves DEF link, LinkInv
  <2> QED
    BY <2>5, <2>6, <2>7, <2>8
<1>8. CASE WriterChecks \/ WriterStep
  BY <1>8 DEF WriterChecks, WriterStep, WriterWrites, WriterDone, Goto, PcInv, Activity, Runner,
              LinkInv, link
<1>9. CASE PingTimer \/ DelayTimer \/ FallSilent
  BY <1>9 DEF PingTimer, DelayTimer, FallSilent, LinkInv, link
<1>10. CASE UNCHANGED vars
  BY <1>10 DEF vars, LinkInv, link
<1> QED
  BY <1>1, <1>2, <1>3, <1>4, <1>5, <1>6, <1>7, <1>8, <1>9, <1>10 DEF Next

LEMMA WriterStepInv ==
  ASSUME "publish_while_dropping" \notin Adversity, CoreInv, LinkInv, WriterInv, [Next]_vars
  PROVE  WriterInv'
<1> USE DEF CoreInv
<1>1. CASE Construct
  BY <1>1 DEF Construct, WriterInv
<1>2. CASE Destroy
  BY <1>2 DEF Destroy, WriterInv
<1>3. CASE StartLoop \/ StopLoop \/ StopLoopReturn \/ Yield \/ Reconnect
  BY <1>3 DEF StartLoop, StopLoop, StopLoopReturn, StopLoopWhen, Yield, Reconnect, Goto, WriterInv,
              PcInv, Activity, Runner, link
<1>4. CASE LoopStep
  BY <1>4 DEF LoopStep, LoopStart, LoopTop, LoopTopIf, LoopReturned, LoopEnd, LoopExit,
              Goto, GotoWith, WriterInv, PcInv, Activity, Runner, link
<1>5. ASSUME NEW t \in Runner, YieldStep(t) PROVE WriterInv'
  <2>1. pc'["writer"] = pc["writer"]
    BY <1>5, YieldMoves DEF Activity, Runner
  <2>2. CASE Close(t)
    BY <2>1, <2>2 DEF Close, CloseThen, WriterInv
  <2>3. CASE Notify(t) \/ Dial(t)
    BY <2>1, <2>3 DEF Notify, NotifyThen, Dial, WriterInv
  <2>4. CASE Hello(t)
    <3>1. is_connected' \/ UNCHANGED is_connected
      BY <2>4 DEF Hello, HelloThen
    <3> QED
      BY <2>1, <3>1 DEF WriterInv
  <2>5. CASE ~Close(t) /\ ~Notify(t) /\ ~Dial(t) /\ ~Hello(t)
    BY <1>5, <2>1, <2>5, SteadyMoves DEF link, WriterInv
  <2> QED
    BY <2>2, <2>3, <2>4, <2>5
<1>6. CASE WriterChecks \/ WriterStep
  BY <1>6 DEF WriterChecks, WriterStep, WriterWrites, WriterDone, Goto, WriterInv, PcInv, Activity,
              link
<1>7. CASE PingTimer \/ DelayTimer \/ FallSilent
  BY <1>7 DEF PingTimer, DelayTimer, FallSilent, WriterInv, link
<1>8. CASE UNCHANGED vars
  BY <1>8 DEF vars, WriterInv, link
<1> QED
  BY <1>1, <1>2, <1>3, <1>4, <1>5, <1>6, <1>7, <1>8 DEF Next

LEMMA InitCore == Init => CoreInv /\ LinkInv /\ WriterInv
<1> SUFFICES ASSUME Init PROVE CoreInv /\ LinkInv /\ WriterInv
  OBVIOUS
<1>1. /\ pc = [t \in Activity |-> IF t = "loop" THEN "none" ELSE "idle"]
      /\ rc = [t \in Runner |-> "SUCCESS"]
  BY DEF Init
<1>2. PcInv /\ AppInv
  BY <1>1 DEF PcInv, AppInv, Activity, Runner
<1>3. LoopInv /\ LiveInv /\ LinkInv /\ WriterInv
  BY <1>1 DEF Init, LoopInv, LiveInv, LinkInv, WriterInv, Activity, Runner
<1> QED
  BY <1>2, <1>3 DEF CoreInv

(* No thread reads from, pings or writes to a network handle that another  *)
(* thread has closed, and the loop thread does not outlive the client:     *)
(* whatever fails and whenever the connection drops, provided the          *)
(* application does not call IOT_MQTT_Reconnect beside the loop thread, no *)
(* writer is past its connection check when the connection is dropped, and *)
(* the loop thread starts and ends within the times StopLoop allows it.    *)
THEOREM HandlesSafe ==
  ASSUME OneRunner, "publish_while_dropping" \notin Adversity
  PROVE  Spec => []NoUseAfterFree
<1>1. CoreInv /\ LinkInv /\ WriterInv /\ [Next]_vars => (CoreInv /\ LinkInv /\ WriterInv)'
  BY CoreStep, LinkStep, WriterStepInv
<1>2. CoreInv /\ LinkInv /\ WriterInv => NoUseAfterFree
  BY DEF CoreInv, LoopInv, LiveInv, LinkInv, WriterInv, NoUseAfterFree, HandleLive
<1> QED
  BY <1>1, <1>2, InitCore, PTL DEF Spec

-----------------------------------------------------------------------------
(***************************************************************************)
(* Why the loop thread ends, and what the application is told.             *)
(***************************************************************************)
(* A disconnection counts as manual only until it is reported.             *)
ManualInv ==
    client = "live" /\ was_manually_disconnected => \E t \in Runner : pc[t] = "notify"

EndInv ==
    /\ rc["loop"] # "MANUALLY_DISCONNECTED"
    /\ pc["loop"] = "end" => ~yield_thread_running \/ rc["loop"] = "RECONNECT_TIMEOUT"

BackoffInv == \A t \in Runner : pc[t] = "backoff" => ~is_connected

TimeoutInv ==
    rc["loop"] = "RECONNECT_TIMEOUT" /\ pc["loop"] \in {"head", "body", "returned", "top", "end"}
        => ~is_connected

ToldInv ==
    client = "live" /\ (\A t \in Runner : pc[t] \notin {"notify", "resub"})
        => (told = "up") = is_connected

ReportInv == ManualInv /\ EndInv /\ BackoffInv /\ TimeoutInv /\ ToldInv

LEMMA ReportYield ==
  ASSUME "resubscribe_fails" \notin Adversity, CoreInv, LinkInv, ReportInv,
         NEW t \in Runner, YieldStep(t)
  PROVE  ReportInv'
<1> USE DEF CoreInv, ReportInv
<1>1. /\ pc[t] \in InYield /\ PcInv' /\ pc'[t] \in InYield \cup {Out(t)}
      /\ \A u \in Activity \ {t} : pc'[u] = pc[u]
      /\ UNCHANGED <<client, yield_thread_running>>
  BY YieldMoves DEF thread
<1>2. /\ \A u \in Runner \ {t} : pc[u] \in {"idle", "none", "ended"} /\ pc'[u] = pc[u]
      /\ \A u \in Runner \ {t} : rc'[u] = rc[u]
  <2>1. \A u \in Runner \ {t} : rc'[u] = rc[u]
    BY DEF YieldStep, Enter, Body, Again, Expired, ReadAck, ReadPublish, ReadPublishThen,
           ReadNothing, ReadNothingThen, ReadFails, Ping, PingThen, Drop, Bye, Close, CloseThen,
           Notify, NotifyThen, Lost, Redial, Dial, Hello, HelloThen, Resub, ResubThen, Backoff,
           BackoffBy, Goto, GotoWith, Return, PcInv
  <2> QED
    BY <1>1, <2>1, Alone DEF Activity
<1>3. SUFFICES /\ client = "live" /\ was_manually_disconnected' => pc'[t] = "notify"
               /\ t = "loop" => rc'[t] # "MANUALLY_DISCONNECTED"
               /\ pc'[t] = "backoff" => ~is_connected'
               /\ t = "loop" /\ rc'[t] = "RECONNECT_TIMEOUT"
                     /\ pc'[t] \in {"head", "body", "returned"} => ~is_connected'
               /\ client = "live" /\ pc'[t] \notin {"notify", "resub"}
                     => (told' = "up") = is_connected'
  <2>1. ManualInv' /\ BackoffInv' /\ ToldInv'
    BY <1>1, <1>2, <1>3 DEF ManualInv, BackoffInv, ToldInv
  <2>2. CASE t = "loop"
    BY <1>1, <1>3, <2>1, <2>2 DEF EndInv, TimeoutInv, InYield, Out
  <2>3. CASE t # "loop"
    <3>1. pc["loop"] \in {"none", "ended"} /\ pc'["loop"] = pc["loop"] /\ rc'["loop"] = rc["loop"]
      <4>1. "loop" \in Runner \ {t}
        BY <2>3 DEF Runner
      <4>2. pc["loop"] \in {"idle", "none", "ended"} /\ pc'["loop"] = pc["loop"]
            /\ rc'["loop"] = rc["loop"]
        BY <1>2, <4>1
      <4>3. pc["loop"] # "idle"
        BY <1>1, <2>3 DEF AppInv, Runner, InYield
      <4> QED
        BY <4>2, <4>3
    <3> QED
      BY <2>1, <3>1 DEF EndInv, TimeoutInv
  <2> QED
    BY <2>2, <2>3
<1>4. /\ client = "live" /\ was_manually_disconnected => pc[t] = "notify"
      /\ client = "live" /\ pc[t] \notin {"notify", "resub"} => (told = "up") = is_connected
      /\ t = "loop" => rc[t] # "MANUALLY_DISCONNECTED"
      /\ pc[t] = "backoff" => ~is_connected
      /\ t = "loop" /\ rc[t] = "RECONNECT_TIMEOUT" /\ pc[t] \in {"head", "body", "returned"}
            => ~is_connected
  BY <1>2 DEF ManualInv, ToldInv, EndInv, BackoffInv, TimeoutInv
<1>5. client = "live"
  BY <1>1 DEF LiveInv, LoopInv, Runner, Activity, InYield
<1> USE DEF PcInv, Goto, GotoWith, Return, Activity, Runner, link
<1>6. CASE Enter(t)
  BY <1>4, <1>5, <1>6 DEF Enter
<1>7. CASE Body(t)
  BY <1>4, <1>5, <1>7 DEF Body
<1>8. CASE Again(t) \/ Expired(t)
  BY <1>4, <1>5, <1>8 DEF Again, Expired
<1>9. CASE ReadAck(t) \/ ReadPublish(t) \/ ReadNothing(t) \/ ReadFails(t)
  BY <1>4, <1>5, <1>9
     DEF ReadAck, ReadPublish, ReadPublishThen, ReadNothing, ReadNothingThen, ReadFails
<1>10. CASE Ping(t)
  BY <1>4, <1>5, <1>10 DEF Ping, PingThen
<1>11. CASE Drop(t) \/ Bye(t)
  BY <1>4, <1>5, <1>11 DEF Drop, Bye
<1>12. CASE Close(t)
  BY <1>4, <1>5, <1>12 DEF Close, CloseThen
<1>13. CASE Notify(t)
  BY <1>4, <1>5, <1>13 DEF Notify, NotifyThen, LinkInv
<1>14. CASE Lost(t)
  BY <1>4, <1>5, <1>14 DEF Lost
<1>15. CASE Redial(t)
  BY <1>4, <1>5, <1>15 DEF Redial, LinkInv
<1>16. CASE Dial(t)
  BY <1>4, <1>5, <1>16 DEF Dial
<1>17. CASE Hello(t)
  BY <1>4, <1>5, <1>17 DEF Hello, HelloThen
<1>18. CASE Resub(t)
  BY <1>4, <1>5, <1>18 DEF Resub, ResubThen, LinkInv
<1>19. CASE Backoff(t)
  BY <1>4, <1>5, <1>19 DEF Backoff, BackoffBy
<1> QED
  BY <1>6, <1>7, <1>8, <1>9, <1>10, <1>11, <1>12, <1>13, <1>14, <1>15, <1>16, <1>17, <1>18, <1>19
     DEF YieldStep

LEMMA ReportStep ==
  ASSUME OneRunner, "resubscribe_fails" \notin Adversity, CoreInv, LinkInv, ReportInv, [Next]_vars
  PROVE  ReportInv'
<1> USE DEF CoreInv, ReportInv
<1>0. ASSUME UNCHANGED <<client, is_connected, was_manually_disconnected, told, rc>>,
             \A t \in Runner : pc'[t] = pc[t], UNCHANGED yield_thread_running
      PROVE  ReportInv'
  BY <1>0 DEF ManualInv, EndInv, BackoffInv, TimeoutInv, ToldInv, Runner
<1>1. CASE Construct
  <2>1. /\ UNCHANGED <<pc, rc>> /\ \A t \in Runner : pc[t] \in {"idle", "none"}
        /\ is_connected' = TRUE /\ was_manually_disconnected' = FALSE /\ told' = "up"
    BY <1>1 DEF Construct, AppIdle, LoopInv, LiveInv, Runner
  <2> QED
    BY <2>1 DEF ManualInv, EndInv, BackoffInv, TimeoutInv, ToldInv, Runner
<1>2. CASE Destroy
  <2>1. /\ UNCHANGED <<pc, rc>> /\ \A t \in Runner : pc[t] \in {"idle", "none"}
        /\ client' = "none" /\ is_connected' = FALSE
    BY <1>2 DEF Destroy, AppIdle, LoopInv, Runner
  <2> QED
    BY <2>1 DEF ManualInv, EndInv, BackoffInv, TimeoutInv, ToldInv, Runner
<1>3. CASE StartLoop
  <2>1. /\ UNCHANGED <<client, is_connected, was_manually_disconnected, told, rc>>
        /\ pc["loop"] = "none" /\ pc'["loop"] \in {"none", "start"}
        /\ \A t \in Runner \ {"loop"} : pc'[t] = pc[t]
    BY <1>3 DEF StartLoop, Goto, PcInv, Activity, Runner, link
  <2> QED
    BY <2>1 DEF ManualInv, EndInv, BackoffInv, TimeoutInv, ToldInv, Runner
<1>4. CASE StopLoop
  <2>1. /\ UNCHANGED <<client, is_connected, was_manually_disconnected, told, rc>>
        /\ ~yield_thread_running' /\ \A t \in Runner : pc'[t] = pc[t]
    BY <1>4 DEF StopLoop, Goto, PcInv, Activity, Runner, link
  <2> QED
    BY <2>1 DEF ManualInv, EndInv, BackoffInv, TimeoutInv, ToldInv, Runner
<1>5. CASE StopLoopReturn
  BY <1>0, <1>5 DEF StopLoopReturn, StopLoopWhen, Goto, PcInv, Activity, Runner, link
<1>6. CASE Yield \/ Reconnect
  <2>1. /\ UNCHANGED <<client, is_connected, was_manually_disconnected, told, rc,
                       yield_thread_running>>
        /\ pc["yield"] = "idle" /\ pc["reconnect"] = "idle" /\ pc'["loop"] = pc["loop"]
        /\ pc'["yield"] \in {"idle", "entry"} /\ pc'["reconnect"] \in {"idle", "drop"}
    BY <1>6 DEF Yield, Reconnect, AppIdle, Goto, PcInv, Activity, Runner, link, thread
  <2> QED
    BY <2>1 DEF ManualInv, EndInv, BackoffInv, TimeoutInv, ToldInv, Runner
<1>7. CASE LoopStep
  <2>1. /\ UNCHANGED <<client, is_connected, was_manually_disconnected, told>>
        /\ pc["loop"] \in {"start", "top", "returned", "end", "ended"}
        /\ pc'["loop"] \in {"top", "entry", "end", "ended", "none"}
        /\ \A t \in Runner \ {"loop"} : pc'[t] = pc[t]
    BY <1>7 DEF LoopStep, LoopStart, LoopTop, LoopTopIf, LoopReturned, LoopEnd, LoopExit,
                Goto, GotoWith, PcInv, Activity, Runner, link
  <2>2. /\ rc'["loop"] \in {rc["loop"], "SUCCESS"}
        /\ pc'["loop"] = "end" => /\ UNCHANGED <<rc, yield_thread_running>>
                                  /\ pc["loop"] \in {"top", "returned"}
                                  /\ ~yield_thread_running \/ (pc["loop"] = "returned" /\
                                       rc["loop"] \in {"MANUALLY_DISCONNECTED", "RECONNECT_TIMEOUT"})
    BY <1>7 DEF LoopStep, LoopStart, LoopTop, LoopTopIf, LoopReturned, LoopEnd, LoopExit,
                Goto, GotoWith, PcInv, Activity, Runner, thread
  <2>3. pc'["loop"] = "top" => rc'["loop"] # "RECONNECT_TIMEOUT"
    BY <1>7 DEF LoopStep, LoopStart, LoopTop, LoopTopIf, LoopReturned, LoopEnd, LoopExit,
                Goto, GotoWith, PcInv, Activity, Runner
  <2>4. EndInv'
    BY <2>2 DEF EndInv
  <2>5. TimeoutInv'
    BY <2>1, <2>2, <2>3 DEF TimeoutInv
  <2>6. ManualInv' /\ BackoffInv' /\ ToldInv'
    BY <2>1 DEF ManualInv, BackoffInv, ToldInv, Runner
  <2> QED
    BY <2>4, <2>5, <2>6
<1>8. ASSUME NEW t \in Runner, YieldStep(t) PROVE ReportInv'
  BY <1>8, ReportYield
<1>9. CASE WriterChecks \/ WriterStep
  BY <1>0, <1>9 DEF WriterChecks, WriterStep, WriterWrites, WriterDone, Goto, PcInv, Activity,
                    Runner, link, thread
<1>10. CASE PingTimer \/ DelayTimer \/ FallSilent
  BY <1>0, <1>10 DEF PingTimer, DelayTimer, FallSilent, link, thread
<1>11. CASE UNCHANGED vars
  BY <1>0, <1>11 DEF vars, link, thread
<1> QED
  BY <1>1, <1>2, <1>3, <1>4, <1>5, <1>6, <1>7, <1>8, <1>9, <1>10, <1>11 DEF Next

LEMMA InitReport == Init => ReportInv
<1> SUFFICES ASSUME Init PROVE ReportInv
  OBVIOUS
<1>1. /\ pc = [t \in Activity |-> IF t = "loop" THEN "none" ELSE "idle"]
      /\ rc = [t \in Runner |-> "SUCCESS"]
  BY DEF Init
<1> QED
  BY <1>1 DEF Init, ReportInv, ManualInv, EndInv, BackoffInv, TimeoutInv, ToldInv, Activity, Runner

(* The loop thread ends because StopLoop asked it to, or because the       *)
(* back-off is exhausted and the client is still not connected.  It never  *)
(* ends for a manual disconnection of its own making: _handle_disconnect   *)
(* takes the flag back.  Provided no subscription fails to be renewed      *)
(* after a reconnection, in which case the back-off goes on although the   *)
(* client is connected, and only one thread runs the loop.                 *)
THEOREM LoopEndsRightly ==
  ASSUME OneRunner, "resubscribe_fails" \notin Adversity
  PROVE  Spec => []LoopEndsForAReason
<1>1. CoreInv /\ LinkInv /\ ReportInv /\ [Next]_vars => (CoreInv /\ LinkInv /\ ReportInv)'
  BY CoreStep, LinkStep, ReportStep
<1>2. ReportInv => LoopEndsForAReason
  BY DEF ReportInv, EndInv, TimeoutInv, LoopEndsForAReason
<1> QED
  BY <1>1, <1>2, InitCore, InitReport, PTL DEF Spec

(* Whenever nobody is dropping or restoring the connection, the last       *)
(* MQTT_EVENT_DISCONNECT or MQTT_EVENT_RECONNECT told the application the  *)
(* truth, under the same assumptions.                                      *)
THEOREM EventsTrue ==
  ASSUME OneRunner, "resubscribe_fails" \notin Adversity
  PROVE  Spec => []EventsTellState
<1>1. CoreInv /\ LinkInv /\ ReportInv /\ [Next]_vars => (CoreInv /\ LinkInv /\ ReportInv)'
  BY CoreStep, LinkStep, ReportStep
<1>2. ReportInv => EventsTellState
  BY DEF ReportInv, ToldInv, EventsTellState
<1> QED
  BY <1>1, <1>2, InitCore, InitReport, PTL DEF Spec

=============================================================================
