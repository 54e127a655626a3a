---------------------------- MODULE MqttSession ----------------------------
(***************************************************************************)
(* The session of one MQTT client: the yield loop and its thread, the      *)
(* keep-alive, exceptional disconnection, reconnection with exponential    *)
(* back-off, the forced reconnection of IOT_MQTT_Reconnect, and the life   *)
(* cycle construct, start loop, stop loop, destroy.                        *)
(*                                                                         *)
(* Activities, and pc where each one is: "loop" is the thread that runs    *)
(* _mqtt_yield_thread; "yield", "reconnect" and "stop" are calls of        *)
(* IOT_MQTT_Yield, IOT_MQTT_Reconnect and IOT_MQTT_StopLoop by the one     *)
(* application thread that may construct, yield and destroy (docs: no two  *)
(* threads may); "writer" stands for a thread that publishes or            *)
(* subscribes.  rc is the local variable of that name, gone after the      *)
(* return.                                                                 *)
(*                                                                         *)
(* Data abstraction.  A timer is the flag that it has expired.  What       *)
(* arrives is a kind of packet: its handling is in MqttPublish and         *)
(* MqttSubscribe.  A section under lock_write_buf with no other visible    *)
(* effect is one step that needs the lock free.  The outcome of a network  *)
(* call is a choice.                                                       *)
(***************************************************************************)
EXTENDS Integers

CONSTANTS
    RandomIntervals,               \* what _get_random_interval may return
    MAX_RECONNECT_WAIT_INTERVAL,
    MQTT_PING_RETRY_TIMES,         \* 2 in mqtt_client_yield.c
    auto_connect_enable,
    Adversity                      \* which of the circumstances below may occur

Circumstance ==
    { "publish_while_dropping",    \* a writer is past its connection check
                                   \* when the connection is dropped
      "reconnect_while_looping",   \* IOT_MQTT_Reconnect beside the loop thread
      "resubscribe_fails",         \* connected again, a subscription is not renewed
      "create_fails",              \* HAL_ThreadCreate fails
      "late_start",                \* the new thread does not run within 100 ms
      "slow_stop" }                \* the loop thread needs more than 18 s to end

ASSUME SessionConstants ==
    /\ RandomIntervals \subseteq Nat \ {0} /\ RandomIntervals # {}
    /\ MAX_RECONNECT_WAIT_INTERVAL \in Nat
    /\ \A i \in RandomIntervals : i <= MAX_RECONNECT_WAIT_INTERVAL
    /\ MQTT_PING_RETRY_TIMES \in Nat \ {0}
    /\ auto_connect_enable \in BOOLEAN
    /\ Adversity \subseteq Circumstance

VARIABLES
    client,                        \* "live" from construct to destroy
    is_connected, was_manually_disconnected,
    current_reconnect_wait_interval,
    delay_expired,                 \* reconnect_delay_timer
    is_ping_outstanding,
    ping_expired,                  \* ping_timer
    yield_thread_running, yield_thread_exit,
    handle,                        \* the handle of the network stack
    silent,                        \* the peer of this connection sends nothing
    pc, rc,
    loop_used,                     \* a StartLoop without its StopLoop
    told,                          \* what the last event said of the connection
    quiet                          \* PINGREQs since the last packet read,
                                   \* counted up to MQTT_PING_RETRY_TIMES

link   == <<is_connected, was_manually_disconnected, handle, silent>>
backup == <<current_reconnect_wait_interval, delay_expired>>
alive  == <<is_ping_outstanding, ping_expired, quiet>>
thread == <<yield_thread_running, yield_thread_exit, loop_used>>
vars == <<client, link, backup, alive, thread, pc, rc, told>>

Runner == {"loop", "yield", "reconnect"}
Activity == Runner \cup {"stop", "writer"}
Code   == {"SUCCESS", "ERROR", "NO_CONN", "ATTEMPTING_RECONNECT", "RECONNECTED",
           "RECONNECT_TIMEOUT", "MANUALLY_DISCONNECTED"}
InYield == {"entry", "body", "head", "read", "ping", "drop", "bye", "close_sent",
            "close_forced", "notify", "lost", "redial", "dial", "hello", "resub",
            "backoff"}

TypeOK ==
    /\ client \in {"none", "live"}
    /\ is_connected \in BOOLEAN /\ was_manually_disconnected \in BOOLEAN
    /\ current_reconnect_wait_interval \in Nat /\ delay_expired \in BOOLEAN
    /\ is_ping_outstanding \in 0 .. MQTT_PING_RETRY_TIMES /\ ping_expired \in BOOLEAN
    /\ yield_thread_running \in BOOLEAN /\ yield_thread_exit \in BOOLEAN
    /\ loop_used \in BOOLEAN
    /\ handle \in {"closed", "open"} /\ silent \in BOOLEAN
    /\ pc["loop"] \in {"none", "start", "top", "returned", "end", "ended"} \cup InYield
    /\ pc["yield"] \in {"idle"} \cup InYield /\ pc["reconnect"] \in {"idle"} \cup InYield
    /\ pc["stop"] \in {"idle", "wait"}
    /\ pc["writer"] \in {"idle", "checked", "write"}
    /\ rc \in [Runner -> Code]
    /\ told \in {"up", "down"} /\ quiet \in 0 .. MQTT_PING_RETRY_TIMES

Init ==
    /\ client = "none" /\ is_connected = FALSE /\ handle = "closed"
    /\ was_manually_disconnected = FALSE
    /\ current_reconnect_wait_interval = 0 /\ delay_expired = TRUE
    /\ is_ping_outstanding = 0 /\ ping_expired = FALSE /\ quiet = 0
    /\ yield_thread_running = FALSE /\ yield_thread_exit = FALSE
    /\ loop_used = FALSE
    /\ silent = FALSE /\ told = "up"
    /\ pc = [t \in Activity |-> CASE t = "loop" -> "none" [] OTHER -> "idle"]
    /\ rc = [t \in Runner |-> "SUCCESS"]

-----------------------------------------------------------------------------
Goto(t, label) == pc' = [pc EXCEPT ![t] = label] /\ UNCHANGED rc

GotoWith(t, label, code) ==
    /\ pc' = [pc EXCEPT ![t] = label]
    /\ rc' = [rc EXCEPT ![t] = code]

(* qcloud_iot_mqtt_yield or qcloud_iot_mqtt_reconnect returns code.        *)
Return(t, code) == IF t = "loop" THEN GotoWith(t, "returned", code)
                                 ELSE GotoWith(t, "idle", "SUCCESS")

(* t runs the loop of qcloud_iot_mqtt_reconnect, not the one of yield.     *)
Reconnects(t) == t = "reconnect"

(* The application thread is in none of its calls.                         *)
AppIdle == \A t \in {"yield", "reconnect", "stop"} : pc[t] = "idle"

WriteBufFree == pc["writer"] # "write"

(* countdown_ms(&reconnect_delay_timer, current_reconnect_wait_interval).  *)
WaitFor(interval) ==
    /\ current_reconnect_wait_interval' = interval
    /\ delay_expired' = FALSE

-----------------------------------------------------------------------------
(***************************************************************************)
(* Life cycle, called by the application thread.                           *)
(***************************************************************************)
(* IOT_MQTT_Construct that succeeds: memory cleared, connected.  One that  *)
(* fails returns NULL.                                                     *)
Construct ==
    /\ client = "none" /\ AppIdle
    /\ client' = "live" /\ is_connected' = TRUE /\ handle' = "open"
    /\ was_manually_disconnected' = FALSE
    /\ current_reconnect_wait_interval' = 0 /\ delay_expired' = TRUE
    /\ is_ping_outstanding' = 0 /\ ping_expired' = FALSE /\ quiet' = 0
    /\ yield_thread_running' = FALSE /\ yield_thread_exit' = FALSE
    /\ silent' = FALSE /\ told' = "up"
    /\ UNCHANGED <<loop_used, pc, rc>>

(* IOT_MQTT_Destroy: DISCONNECT, close, free.  Called after IOT_MQTT_      *)
(* StopLoop when a loop was started, and with no writer at work.           *)
Destroy ==
    /\ client = "live" /\ AppIdle /\ ~loop_used /\ pc["writer"] = "idle"
    /\ client' = "none" /\ is_connected' = FALSE /\ handle' = "closed" /\ silent' = FALSE
    /\ was_manually_disconnected' \in {TRUE, was_manually_disconnected}
    /\ UNCHANGED <<backup, alive, thread, pc, rc, told>>

(* IOT_MQTT_StartLoop.  yield_thread_running is set before the thread is   *)
(* created, and stays set when the creation fails.                         *)
StartLoop ==
    /\ client = "live" /\ AppIdle /\ pc["loop"] = "none"
    /\ yield_thread_running' = TRUE /\ loop_used' = TRUE
    /\ \/ Goto("loop", "start")
       \/ "create_fails" \in Adversity /\ UNCHANGED <<pc, rc>>
    /\ UNCHANGED <<client, link, backup, alive, yield_thread_exit, told>>

(* IOT_MQTT_StopLoop: ask, then look every 100 ms at yield_thread_exit.    *)
StopLoop ==
    /\ client = "live" /\ AppIdle /\ loop_used
    /\ yield_thread_running' = FALSE
    /\ Goto("stop", "wait")
    /\ UNCHANGED <<client, link, backup, alive, yield_thread_exit,
                   loop_used, told>>

StopLoopWhen(seen) ==
    /\ pc["stop"] = "wait" /\ seen
    /\ loop_used' = FALSE
    /\ Goto("stop", "idle")
    /\ UNCHANGED <<client, link, backup, alive, yield_thread_running, yield_thread_exit,
                   told>>

StopLoopReturn ==
    StopLoopWhen(IF yield_thread_exit
                 THEN pc["loop"] # "start" \/ "late_start" \in Adversity
                 ELSE pc["loop"] = "none" \/ "slow_stop" \in Adversity)

(* IOT_MQTT_Yield; while the loop thread runs it only sleeps.              *)
Yield ==
    /\ client = "live" /\ AppIdle /\ ~yield_thread_running
    /\ Goto("yield", "entry")
    /\ UNCHANGED <<client, link, backup, alive, thread, told>>

(* IOT_MQTT_Reconnect.  When not connected and auto-reconnect is on it     *)
(* returns QCLOUD_ERR_MQTT_RECONNECTING at once.                           *)
Reconnect ==
    /\ client = "live" /\ AppIdle
    /\ pc["loop"] = "none" \/ "reconnect_while_looping" \in Adversity
    /\ is_connected \/ ~auto_connect_enable
    /\ Goto("reconnect", "drop")
    /\ UNCHANGED <<client, link, backup, alive, thread, told>>

-----------------------------------------------------------------------------
(***************************************************************************)
(* _mqtt_yield_thread.                                                     *)
(***************************************************************************)
LoopStart ==
    /\ pc["loop"] = "start"
    /\ yield_thread_exit' = FALSE
    /\ GotoWith("loop", "top", "SUCCESS")
    /\ UNCHANGED <<client, link, backup, alive, yield_thread_running,
                   loop_used, told>>

LoopTopIf(go_on) ==
    /\ pc["loop"] = "top"
    /\ Goto("loop", IF go_on THEN "entry" ELSE "end")
    /\ UNCHANGED <<client, link, backup, alive, thread, told>>

LoopTop_Retries == LoopTopIf(yield_thread_running \/ rc["loop"] = "ATTEMPTING_RECONNECT")

(* while (yield_thread_running)                                            *)
LoopTop == LoopTopIf(yield_thread_running)

(* Only a manual disconnection and the end of the back-off end the thread. *)
LoopReturned ==
    /\ pc["loop"] = "returned"
    /\ Goto("loop", IF rc["loop"] \in {"MANUALLY_DISCONNECTED", "RECONNECT_TIMEOUT"}
                    THEN "end" ELSE "top")
    /\ UNCHANGED <<client, link, backup, alive, thread, told>>

LoopEnd ==
    /\ pc["loop"] = "end"
    /\ yield_thread_running' = FALSE
    /\ Goto("loop", "ended")
    /\ UNCHANGED <<client, link, backup, alive, yield_thread_exit,
                   loop_used, told>>

LoopExit ==
    /\ pc["loop"] = "ended"
    /\ yield_thread_exit' = TRUE
    /\ GotoWith("loop", "none", "SUCCESS")
    /\ UNCHANGED <<client, link, backup, alive, yield_thread_running, loop_used, told>>

-----------------------------------------------------------------------------
(***************************************************************************)
(* qcloud_iot_mqtt_yield.                                                  *)
(***************************************************************************)
Enter(t) ==
    /\ pc[t] = "entry"
    /\ IF ~is_connected /\ was_manually_disconnected
       THEN Return(t, "MANUALLY_DISCONNECTED")
       ELSE IF ~is_connected /\ ~auto_connect_enable
            THEN Return(t, "NO_CONN")
            ELSE GotoWith(t, "body", "SUCCESS")
    /\ UNCHANGED <<client, link, backup, alive, thread, told>>

(* One iteration of the loop of yield, or of reconnect.                    *)
Body(t) ==
    /\ pc[t] = "body"
    /\ \/ /\ is_connected
          /\ IF Reconnects(t) THEN Return(t, "RECONNECTED") ELSE Goto(t, "read")
       \/ /\ ~is_connected
          /\ IF current_reconnect_wait_interval > MAX_RECONNECT_WAIT_INTERVAL
             THEN Return(t, "RECONNECT_TIMEOUT")
             ELSE Goto(t, "redial")
    /\ UNCHANGED <<client, link, backup, alive, thread, told>>

(* The timer of yield has not expired; reconnect has none.                 *)
Again(t) ==
    /\ pc[t] = "head"
    /\ Goto(t, "body")
    /\ UNCHANGED <<client, link, backup, alive, thread, told>>

Expired(t) ==
    /\ pc[t] = "head" /\ ~Reconnects(t)
    /\ Return(t, rc[t])
    /\ UNCHANGED <<client, link, backup, alive, thread, told>>

(* cycle_for_read handled PUBACK, SUBACK, UNSUBACK or PINGRESP.            *)
ReadAck(t) ==
    /\ pc[t] = "read" /\ ~silent
    /\ is_ping_outstanding' = 0 /\ ping_expired' = FALSE /\ quiet' = 0
    /\ Goto(t, "ping")
    /\ UNCHANGED <<client, link, backup, thread, told>>

ReadPublishThen(t, outstanding) ==
    /\ pc[t] = "read" /\ ~silent
    /\ is_ping_outstanding' = outstanding /\ quiet' = 0
    /\ Goto(t, "ping")
    /\ UNCHANGED <<client, link, backup, ping_expired, thread, told>>

ReadPublish_KeepsPings(t) == ReadPublishThen(t, is_ping_outstanding)

(* A PUBLISH shows that the link works, the next ping is still due.        *)
ReadPublish(t) == ReadPublishThen(t, 0)

ReadNothingThen(t, outstanding) ==
    /\ pc[t] = "read"
    /\ is_ping_outstanding' = outstanding
    /\ Goto(t, "ping")
    /\ UNCHANGED <<client, link, backup, ping_expired, quiet, thread, told>>

ReadNothing_CountsAsAnswer(t) == ReadNothingThen(t, 0)

(* Nothing to read within the time-out: cycle_for_read returns success.    *)
ReadNothing(t) == ReadNothingThen(t, is_ping_outstanding)

(* The read fails: the connection is given up for a network error, yield   *)
(* returns for any other error.                                            *)
ReadFails(t) ==
    /\ pc[t] = "read"
    /\ \/ Goto(t, "drop")
       \/ ~silent /\ Return(t, "ERROR")
    /\ UNCHANGED <<client, link, backup, alive, thread, told>>

PingThen(t, drop) ==
    /\ pc[t] = "ping"
    /\ \/ /\ ~ping_expired
          /\ GotoWith(t, "head", "SUCCESS") /\ UNCHANGED alive
       \/ /\ ping_expired /\ drop
          /\ Goto(t, "drop") /\ UNCHANGED alive
       \/ /\ ping_expired /\ ~drop /\ WriteBufFree
          /\ \/ /\ is_ping_outstanding' = is_ping_outstanding + 1
                /\ ping_expired' = FALSE
                /\ quiet' = IF quiet < MQTT_PING_RETRY_TIMES THEN quiet + 1 ELSE quiet
                /\ GotoWith(t, "head", "SUCCESS")
             \/ Goto(t, "drop") /\ UNCHANGED alive
    /\ UNCHANGED <<client, link, backup, thread, told>>

(* _mqtt_keep_alive: give the connection up after two pings without any    *)
(* answer or when no attempt to send a ping succeeds, else send one.       *)
Ping(t) == PingThen(t, is_ping_outstanding >= MQTT_PING_RETRY_TIMES)

-----------------------------------------------------------------------------
(***************************************************************************)
(* _handle_disconnect.                                                     *)
(***************************************************************************)
Drop(t) ==
    /\ pc[t] = "drop"
    /\ Goto(t, IF is_connected THEN "bye" ELSE "lost")
    /\ UNCHANGED <<client, link, backup, alive, thread, told>>

(* qcloud_iot_mqtt_disconnect writes DISCONNECT under lock_write_buf, or   *)
(* fails and the caller forces the disconnection.                          *)
Bye(t) ==
    /\ pc[t] = "bye" /\ WriteBufFree
    /\ \/ is_connected /\ Goto(t, "close_sent")
       \/ Goto(t, "close_forced")
    /\ UNCHANGED <<client, link, backup, alive, thread, told>>

CloseThen(t, connected) ==
    /\ pc[t] \in {"close_sent", "close_forced"}
    /\ pc["writer"] = "idle" \/ "publish_while_dropping" \in Adversity
    /\ handle' = "closed" /\ silent' = FALSE /\ is_connected' = connected
    /\ was_manually_disconnected' = (pc[t] = "close_sent" \/ was_manually_disconnected)
    /\ Goto(t, "notify")
    /\ UNCHANGED <<client, backup, alive, thread, told>>

Close_StaysConnected(t) == CloseThen(t, is_connected /\ pc[t] = "close_forced")

(* network_stack.disconnect and NOTCONNECTED, the lock released before.    *)
Close(t) == CloseThen(t, FALSE)

NotifyThen(t, manually) ==
    /\ pc[t] = "notify"
    /\ told' = "down" /\ was_manually_disconnected' = manually
    /\ Goto(t, "lost")
    /\ UNCHANGED <<client, is_connected, handle, silent, backup, alive, thread>>

Notify_StaysManual(t) == NotifyThen(t, was_manually_disconnected)

(* MQTT_EVENT_DISCONNECT, and the disconnection counts as exceptional.     *)
Notify(t) == NotifyThen(t, FALSE)

(* The caller: yield with auto-reconnect off returns, else the back-off    *)
(* starts from a random interval.                                          *)
Lost(t) ==
    /\ pc[t] = "lost"
    /\ IF ~Reconnects(t) /\ ~auto_connect_enable
       THEN Return(t, "NO_CONN") /\ UNCHANGED backup
       ELSE /\ GotoWith(t, "head", "ATTEMPTING_RECONNECT")
            /\ \E i \in RandomIntervals : WaitFor(i)
    /\ UNCHANGED <<client, link, alive, thread, told>>

-----------------------------------------------------------------------------
(***************************************************************************)
(* _handle_reconnect and _mqtt_connect.                                    *)
(***************************************************************************)
Redial(t) ==
    /\ pc[t] = "redial"
    /\ IF ~delay_expired THEN GotoWith(t, "head", "ATTEMPTING_RECONNECT")
       ELSE Goto(t, IF is_connected THEN "backoff" ELSE "dial")
    /\ UNCHANGED <<client, link, backup, alive, thread, told>>

(* network_stack.connect; its failure closes the handle again.             *)
Dial(t) ==
    /\ pc[t] = "dial"
    /\ \/ handle' = "open" /\ Goto(t, "hello")
       \/ handle' = "closed" /\ Goto(t, IF is_connected THEN "resub" ELSE "backoff")
    /\ silent' = FALSE
    /\ UNCHANGED <<client, is_connected, was_manually_disconnected, backup, alive, thread, told>>

HelloThen(t, outstanding) ==
    /\ pc[t] = "hello" /\ WriteBufFree
    /\ \/ /\ is_connected' = TRUE /\ was_manually_disconnected' = FALSE
          /\ is_ping_outstanding' = outstanding /\ ping_expired' = FALSE /\ quiet' = 0
          /\ Goto(t, "resub")
          /\ UNCHANGED <<handle, silent>>
       \/ /\ handle' = "closed" /\ silent' = FALSE
          /\ Goto(t, IF is_connected THEN "resub" ELSE "backoff")
          /\ UNCHANGED <<is_connected, was_manually_disconnected, alive>>
    /\ UNCHANGED <<client, backup, thread, told>>

Hello_KeepsPings(t) == HelloThen(t, is_ping_outstanding)

(* CONNECT sent and CONNACK accepted; or not sent, refused or not in time. *)
Hello(t) == HelloThen(t, 0)

ResubThen(t, event) ==
    /\ pc[t] = "resub"
    /\ \/ told' = event /\ GotoWith(t, "head", "RECONNECTED")
       \/ /\ "resubscribe_fails" \in Adversity
          /\ Goto(t, "backoff") /\ UNCHANGED told
    /\ UNCHANGED <<client, link, backup, alive, thread>>

Resub_Mute(t) == ResubThen(t, told)

(* qcloud_iot_mqtt_resubscribe (see MqttSubscribe), MQTT_EVENT_RECONNECT.  *)
Resub(t) == ResubThen(t, "up")

BackoffBy(t, factor) ==
    /\ pc[t] = "backoff"
    /\ LET next == factor * current_reconnect_wait_interval
       IN IF MAX_RECONNECT_WAIT_INTERVAL < next
          THEN /\ current_reconnect_wait_interval' = next
               /\ GotoWith(t, "head", "RECONNECT_TIMEOUT")
               /\ UNCHANGED delay_expired
          ELSE WaitFor(next) /\ GotoWith(t, "head", "ATTEMPTING_RECONNECT")
    /\ UNCHANGED <<client, link, alive, thread, told>>

(* The end of _handle_reconnect after a failed attempt.                    *)
Backoff(t) == BackoffBy(t, 2)

-----------------------------------------------------------------------------
(***************************************************************************)
(* A publish or subscribe call: connection check, lock, network write.     *)
(***************************************************************************)
WriterChecks ==
    /\ client = "live" /\ pc["writer"] = "idle" /\ is_connected
    /\ Goto("writer", "checked")
    /\ UNCHANGED <<client, link, backup, alive, thread, told>>

WriterWrites ==
    /\ pc["writer"] = "checked"
    /\ Goto("writer", "write")
    /\ UNCHANGED <<client, link, backup, alive, thread, told>>

WriterDone ==
    /\ pc["writer"] = "write"
    /\ Goto("writer", "idle")
    /\ UNCHANGED <<client, link, backup, alive, thread, told>>

(* Timers run out and the peer of the connection falls silent.             *)
PingTimer ==
    /\ client = "live" /\ ~ping_expired
    /\ ping_expired' = TRUE
    /\ UNCHANGED <<client, link, backup, is_ping_outstanding, quiet, thread, pc, rc, told>>

DelayTimer ==
    /\ client = "live" /\ ~delay_expired
    /\ delay_expired' = TRUE
    /\ UNCHANGED <<client, link, current_reconnect_wait_interval, alive, thread, pc, rc, told>>

FallSilent ==
    /\ client = "live" /\ is_connected /\ ~silent
    /\ silent' = TRUE
    /\ UNCHANGED <<client, is_connected, was_manually_disconnected, handle, backup, alive,
                   thread, pc, rc, told>>

-----------------------------------------------------------------------------
YieldStep(t) ==
    \/ Enter(t) \/ Body(t) \/ Again(t) \/ Expired(t)
    \/ ReadAck(t) \/ ReadPublish(t) \/ ReadNothing(t) \/ ReadFails(t) \/ Ping(t)
    \/ Drop(t) \/ Bye(t) \/ Close(t) \/ Notify(t) \/ Lost(t)
    \/ Redial(t) \/ Dial(t) \/ Hello(t) \/ Resub(t) \/ Backoff(t)

LoopStep   == LoopStart \/ LoopTop \/ LoopReturned \/ LoopEnd \/ LoopExit
WriterStep == WriterWrites \/ WriterDone

Next ==
    \/ Construct \/ Destroy \/ StartLoop \/ StopLoop \/ StopLoopReturn
    \/ Yield \/ Reconnect
    \/ LoopStep
    \/ \E t \in Runner : YieldStep(t)
    \/ WriterChecks \/ WriterStep
    \/ PingTimer \/ DelayTimer \/ FallSilent

Spec == Init /\ [][Next]_vars

(* A thread that can go on does, and gets lock_write_buf in the end;       *)
(* timers run out, the one of yield included; the application yields again *)
(* and again unless the loop thread does (docs: Yield must be given time   *)
(* to run).                                                                *)
Fairness ==
    /\ WF_vars(LoopStep) /\ WF_vars(WriterStep) /\ WF_vars(StopLoopReturn)
    /\ \A t \in Runner : SF_vars(YieldStep(t)) /\ SF_vars(Expired(t))
    /\ WF_vars(PingTimer) /\ WF_vars(DelayTimer)
    /\ SF_vars(Yield)

FairSpec == Spec /\ Fairness

-----------------------------------------------------------------------------
(***************************************************************************)
(* Properties.                                                             *)
(***************************************************************************)
(* No thread uses the network handle after another thread, or itself, has  *)
(* closed it: the TLS context behind it is freed (HAL_TLS_Disconnect).     *)
HandleLive ==
    /\ \A t \in Runner : pc[t] \in {"read", "ping", "bye"} => handle = "open"
    /\ pc["writer"] = "write" => handle = "open"

(* Nor does the loop thread outlive the client it works on: once StopLoop  *)
(* has returned, Destroy may free the memory (mqtt_client.c:361, 190).     *)
NoUseAfterFree == HandleLive /\ (client = "none" => pc["loop"] = "none")

(* The loop thread ends because StopLoop asked it to, or because the       *)
(* back-off is exhausted and the client is still not connected; never for  *)
(* a passing error, and never while the connection is up.                  *)
LoopEndsForAReason ==
    pc["loop"] = "end" =>
        \/ ~yield_thread_running
        \/ rc["loop"] = "RECONNECT_TIMEOUT" /\ ~is_connected

(* Whenever no thread is in the middle of dropping or restoring the        *)
(* connection, the last DISCONNECT or RECONNECT event told the application *)
(* the truth about it.                                                     *)
EventsTellState ==
    /\ client = "live"
    /\ \A t \in Runner : pc[t] \notin {"notify", "resub", "backoff"}
    => (told = "up") = is_connected

(* _mqtt_keep_alive gives a connection up for want of an answer only if    *)
(* two PINGREQs were sent on that very connection and nothing was read     *)
(* since.                                                                  *)
DropsOnlyQuietLinks ==
    [][\A t \in Runner :
         /\ pc[t] = "ping" /\ pc'[t] = "drop"
         /\ is_ping_outstanding >= MQTT_PING_RETRY_TIMES
         => quiet >= MQTT_PING_RETRY_TIMES]_vars

(* A peer that falls silent is noticed: the connection is dropped although *)
(* no read or write ever fails.                                            *)
SilentPeerNoticed == silent ~> ~silent

(* A lost connection is restored, or the back-off is exhausted, whatever   *)
(* the attempts meet; the client never just stays offline.                 *)
ComesBack ==
    client = "live" /\ ~is_connected /\ auto_connect_enable
    ~> \/ is_connected
       \/ current_reconnect_wait_interval > MAX_RECONNECT_WAIT_INTERVAL
       \/ client = "none"

(* IOT_MQTT_Reconnect returns even if the network never comes back, and    *)
(* IOT_MQTT_StopLoop because the loop thread ends, in whatever state of    *)
(* the connection it is asked to.                                          *)
CallsReturn ==
    /\ pc["reconnect"] # "idle" ~> pc["reconnect"] = "idle"
    /\ pc["stop"] = "wait" ~> pc["stop"] = "idle"
============================================================================
