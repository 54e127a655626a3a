# TLA+ models of the IoT Explorer device SDK

This directory holds a TLA+ development of the C SDK under `sdk_src/`: models of
its concurrent core, TLC configurations that check them on small instances, and
TLAPS proofs that the invariants they check, all but one, hold for every number of threads,
requests, identifiers, sub-devices or bytes. `PROJECT.json` lists the components, the runs,
the lines of source behind every definition, the hazards and the theorems.

## 1. The system

A device program links the SDK, constructs one MQTT client over TCP or TLS, and
works with services on top of it: the data template (properties, events,
actions), OTA, gateway, resources, files, logs. Everything downstream enters
through one place, `qcloud_iot_mqtt_yield`, which reads a packet at a time and
calls the handler of its topic. Who runs yield is a choice of the program: its
own thread calls `IOT_MQTT_Yield`, or `IOT_MQTT_StartLoop` gives it a thread.
Publish, subscribe and unsubscribe may be called from any thread
(docs/C-SDK_API, line 59). So the shared state of the client meets at least two
threads, and user callbacks run in the middle of it.

| component | state | operations | hard behaviour | what makes it correct |
|---|---|---|---|---|
| MQTT publish (`mqtt_client_publish.c`, `_common.c`, `_yield.c`) | `write_buf`, `next_packet_id`, `list_pub_wait_ack` and its nodes, `lock_write_buf`, `lock_list_pub`, `lock_generic` | publish, PUBACK, time-out sweep, user event callback | sweep gives its lock away in mid-iteration; error path frees a node; three callbacks under a mutex; partial writes | nothing freed is used, identifiers are distinct, one truthful verdict for each call |
| MQTT subscribe (`_subscribe.c`, `_unsubscribe.c`, `_common.c`, `_yield.c`) | `sub_handles`, `list_sub_wait_ack`, heap copies of topic filters | subscribe, unsubscribe, SUBACK, UNSUBACK, sweep, resubscribe | ownership of the copy moves between call, list and table; renewal reads the table without a lock | one owner for each copy, table = what the user asked for, broker knows the table |
| MQTT session (`mqtt_client.c`, `_connect.c`, `_yield.c`) | `is_connected`, `was_manually_disconnected`, back-off interval, ping counter, loop thread flags, network handle | construct, destroy, yield, reconnect, start and stop loop | exceptional disconnection against writers, back-off, stop against a busy loop thread | no use after close or free, truthful events, comes back or gives up as documented |
| data template client (`data_template_client*.c`, `data_template_event.c`) | `reply_list`, `event_list`, client tokens, `sync_status`, the MQTT subscriptions | construct, report, get status and their waiting forms, post event, control reply, yield, destroy | a reply races its registration, its time-out and the stack variable of a waiting call; destruction races handlers | outcome told once, true, and in the end; nothing runs on a freed template |
| template registries (`data_template_client_common.c`, `data_template_action.c`) | property and action lists | register, remove, dispatch | removal while a handler walks the list | dispatch to what is registered |
| message delivery (`_common.c`) | buffer of repeated identifiers, the subscription table | `_handle_publish_packet`, `_deliver_message`, `_is_topic_matched` | handler read, then called after unlocking; identifiers that come back after a reconnection | MQTT's definition of a match; a resent message is delivered once, a new one is delivered |
| OTA (`ota_client.c`, `ota_mqtt.c`, `ota_lib.c`, `ota_fetch.c`, `utils_url_download.c`, `samples/ota`) | download state, offset, digest; image file and progress record | report version, upgrade message, fetch, save, record, check, report, resume | power failure between two writes, resumption, republished images, a server that sends something else | an image reported as installed is the image announced; the client comes back to listening |
| gateway (`gateway_api.c`, `gateway_common.c`) | session list, bind list, one result slot for each kind of call | online, offline, bind, unbind, bind list, messages of the cloud | no lock, not even around the linked lists; answers matched by "the slot has changed" | a call reports the verdict on its own request; the lists agree with the cloud |
| AT client (`at_client.c`, `at_device_esp8266.c`) | `resp`, semaphore, end sign, flags, receive buffer | command, data, parser thread, unsolicited lines | a late line meets the next command | a command gets its own answer |
| ring buffer (`utils_ringbuff.c`) | two indices and a buffer | push, pop, flush | interrupt and parser without a lock | a bounded queue of bytes |
| HTTP, log upload, resources, files, speech, service topics | read windows, log buffer, request lists | fetch, upload, request and time-out | buffers at their limit, retries | bounded buffers, no lost tail |
| codec, timers, list, JSON, crypto, platform, Wi-Fi provisioning, music | | | byte layout, third-party or board-specific | unit tests |

Interaction: services call publish and subscribe, and are called back from
yield; the template waits for subscriptions by yielding itself or, when the loop
thread runs, by sleeping; log upload publishes from inside the MQTT client; a
gateway shares one client between templates; OTA, resources and files fetch with
the HTTP client over the network interface, which is sockets, TLS or the AT
client.

## 2. Modules

| module | what it models |
|---|---|
| `MqttPublish` | the QoS 1 publish path, the wait list, PUBACK and the sweep |
| `PublishContract` | what the publish API promises about one call (abstract) |
| `MqttSubscribe` | subscription table, SUBSCRIBE/UNSUBSCRIBE wait list, renewal |
| `MqttSession` | yield loop, keep-alive, back-off, loop thread, life cycle |
| `DataTemplate` | template client: requests, waiting calls, events, construction, destruction |
| `TopicMatch` | `_is_topic_matched` as a function of characters, and MQTT's definition of a match |
| `MqttDeliver` | downlink messages: repeated identifiers, search of the table, handler, PUBACK |
| `OtaUpgrade` | OTA client, range requests, and the application that saves and resumes |
| `ByteFifo` | what a ring buffer promises (abstract) |
| `RingBuffer` | the ring buffer, one step for each access to a shared field |
| `AtClient` | AT commands against the parser thread, and the send of the ESP8266 driver |
| `Gateway` | sub-device sessions, bindings and the bind list |
| `MC...` | instances for TLC: symmetry sets, sets of calls, topics and sizes |
| `MqttPublish_proofs`, `MqttSubscribe_proofs`, `MqttSession_proofs`, `MqttDeliver_proofs`, `DataTemplate_proofs`, `OtaUpgrade_proofs`, `Gateway_proofs` | theorems about the module of that name (section 6) |
| `AtTransport_proofs` | theorems about `RingBuffer` and `AtClient` |

The layers are composed by assumption. `MqttSubscribe` takes identifiers to be
unique (`IdentifiersUnique`); `MqttSession` sees a write or a read
as one step of the network, whose content is the business of the two modules
below; in the table of `MqttDeliver`
no entry stands twice (`TableIsWhatUserWants`); `DataTemplate` uses a client that answers every
subscription (`SubscribeAnswered`) and may lose any message; `AtClient` reads
whole lines from a buffer that keeps order (`IsFifo`).

Common conventions. A mutex is the thread that holds it; mutexes are not
recursive. A section under a mutex whose intermediate states nobody can see is
one step that needs the mutex free. A timer is the fact that it ran out, so
every duration is covered. Loss needs no action: a message may never be read.
Operators with a suffix (`Push_OverLimit`, `Sweep_NoTimeout`) are deliberately
wrong versions of the definition they stand before; `PROJECT.json` pairs each
with the property that notices it.

`Adversity` is a constant of all other modules: a set of circumstances that
the code admits but does not survive, or that another property needs absent. A
passing run names the circumstances it includes; section 5 says what each
excluded one breaks. `TimelySender` plays this part in `MqttPublish`,
and `RingAdversity` in `RingBuffer`.

### MqttPublish

Each thread has a place `pc` in `qcloud_iot_mqtt_publish`: check the connection,
lock, advance the identifier, read it (after `lock_generic` is released),
serialise, push, send, and on failure unlink and free. The yield thread has a
place `ypc`: read, success callback, sweep with iterator and `temp_node`, the
window in which `lock_list_pub` is released, time-out callback. A callback may
publish: `CallbackPublishes` says on which events. Two of these callbacks run with
`lock_generic` held, the one for an UNSUBACK in the yield thread (`HandleUnsuback`) and
the one in `qcloud_iot_mqtt_unsubscribe` in the application's thread
(`UnsubscribeBegin`), and the connection check of publish takes that mutex
(`PublishCheck`). Of unsubscribe itself no more is modelled here than these callbacks,
its identifier and its packet. A node is identified with its call and list order with the order of
identifiers. The send is complete, cut short, or followed by stray bytes (each
write of the loop asks for the full length again); after the last two the broker
cannot frame the stream.

### MqttSubscribe

A call stands for its identifier, its list node and its heap copy of the topic.
`Owners` says who will free that copy. `HandleSuback` has one disjunct for each
way the code goes: unknown identifier, refusal, identical handle, free entry, full
table. `HandleUnsuback` without a node frees whatever the uninitialised local
variable points to: a choice among past allocations. `Unsubscribe` clears every
entry for a filter with a wildcard, as the code does. `Reconnected` starts the
renewal, which walks the table, entry by entry, without the lock. The sweep tells a
subscriber of its time-out only if the program set an event handler for the client
(`HasEventHandler`).

### MqttSession

One application thread constructs, yields, reconnects, stops and destroys; the
loop thread runs `_mqtt_yield_thread`; a writer stands for the threads that
publish. `YieldStep(t)` is shared by the three runners of the yield code, the
forced reconnection included. Dropping a connection is five steps (`Drop`, `Bye`,
`Close`, `Notify`, `Lost`), restoring one four, and a writer may be between its
connection check and its write during all of them.

### DataTemplate

Application threads and one receiver, which is the loop thread or the
application thread inside `IOT_Template_Yield`. `PublishRequest` and `AddRequest`
are two steps: the request is published before it is listed. A waiting call owns
a local variable (`ack`) that the receiver writes. `HandleReply` writes ACCEPTED through
the user context of every get-status request that is answered with control data, as
data_template_client_manager.c:461 does, whether that context is the variable of a
waiting call or the user's own; of the latter, which the SDK has no business to write,
the model keeps nothing. `msg.of` records which call a
cloud message really answers; the model, like the code, compares tokens.

### MqttDeliver and TopicMatch

The broker (external) numbers messages, sends them, and sends again after a
reconnection what has no PUBACK. The reading thread takes a packet, looks its
identifier up in the circular buffer, searches the table under `lock_generic`,
unlocks, and only then reads the entry again to call its handler; an
unsubscribe is a step of its own. `TopicMatched` is the character loop on the
string of the levels, with its tests one character past the filter and one
before the name; `Accepts` is the definition of MQTT 3.1.1, level by level.

### OtaUpgrade

An image is a sequence of blocks and a digest is the sequence of blocks it has
seen, so equal digests mean equal contents. `flash` (image file and progress
record) survives `Crash`; everything else is lost. Saving a block, opening the
record (which empties it) and writing it are separate steps. A write that fails may
leave the block in the file all the same (`Written`), and the next attempt appends
behind it. `FetchBlocks` may deliver junk: the response parser refuses only 403 and 404.
A fetch that brings nothing ends the download when the offset has already reached the
size announced (`PastEnd`). The counters of the
sample, of the client and of the download are separate variables, as in the code.

### RingBuffer

`PushAdvance` and `PushStore`, and on the other side `PopAdvance` and `PopRead`,
are separate steps, because the index moves before the byte. `Contents` is the refinement
mapping: the bytes between the indices, the one in the producer's hand included.

### AtClient

A caller creates a response object, takes `client->lock`, publishes the object
in `client->resp`, sends, waits on the semaphore and gives the object up; the
parser takes a line at a time and looks `client->resp` up for each. `said`
records what the module (external) really answered to each call.

### Gateway

A call writes the name of its sub-device and "pending" into the slot of its kind,
publishes, and polls. The handler compares names by prefix, as `strncmp` with the
length of one of them does, and writes the slot; it frees sessions and edits the
bind list on the notices of the cloud. `verdict`, `online` and `bound` record what
the cloud has decided. The session list is linked and has no lock: `in_list` says who is
inside one of its functions, `Enter` and `Leaves` are the two ends of a visit, and a
visit that overlaps a change (circumstance `list_race`) may lose an entry or meet a freed
one.

## 3. Runs

Properties are stated at the end of their module, each with its comment.

| run | instance | states | shows |
|---|---|---|---|
| `publish_safety` | 2 threads + yield, 3 calls, ids 1..4, list of 2 | 1.3 M (with symmetry) | no dangling node in sweep or error path, the buffer belongs to the caller, identifiers collide only after a full turn, the list is bounded, nobody waits for itself |
| `publish_live` | 2 threads + yield, 2 calls, list of 1 | 82 k | refinement of `PublishContract`; every call returns; on a connection that stays up every accepted call is reported |
| `subscribe_settled` | 4 calls, 2 topics, 1 handler, table and list of 4 | 500 k (with symmetry) | the table is what the user asked for, and the broker knows all of it once all is quiet |
| `subscribe_adverse` | 3 calls, 1 topic, 2 handlers, table and list of 2 | 314 k | with failing sends, refused renewals and early unsubscription: one owner for each copy, no leak, one answer, and an answer in the end |
| `session` | back-off 1000 or 1990 doubling to 4000, two ping tries | 23 k | seven properties of the session, see below |
| `template` | loop thread or own yield, 2 calls, lists of 1, a control message | 594 k | four properties of the template, see below |
| `deliver` | 2 entries, 3 filters, 4 names, ids 1..3, repeat buffer of 2 | 1.4 M | an acknowledged message was delivered exactly once; every message goes to a live subscription that accepts it |
| `ota` | images of 3 and 2 blocks, segments of 2, 2 retries | 164 k | file, record, digest and range in step; only the announced image is reported as installed; the client never stays deaf |
| `ring_buffer` | 4 slots, items of 2, 3 byte values | 389 k | the ring buffer implements `ByteFifo` without a lock |
| `at_client` | 2 callers, 3 calls, 1 unsolicited line | 163 k | each call gets the answer of the module to it; no object is used after it is given up; every call returns |
| `gateway` | 2 callers, 2 sub-devices, one name a prefix of the other, 3 calls, 2 notices | 3.2 M (with symmetry) | each call gets its own verdict; sessions and bind list agree with the cloud |
| `session_write_after_close` | as `session` | | the violation of section 3.1 |

Why the bounds are enough. Publish: two callers and the yield thread are all
roles there are at any of the three mutexes; the third call lets the list be full while
another call unlinks; four identifiers with three calls and one foreign packet
let the counter wrap. Subscribe: three calls are subscribe, its renewal and an
unsubscribe, or a full list. `subscribe_adverse` has two handlers of one topic, which
one unsubscription removes together. In `subscribe_settled` two subscriptions, of
two topics, leave two calls to renew them, so that a renewal that stops early or
skips an entry shows; the list is as long as there are calls, since
`TableIsSubscribed` fails when the renewal meets a list still full from before
the loss. Session: the back-off passes its limit at the third doubling or at the
second (1000, 2000, 4000 reaches the limit exactly; 1990, 3980 stays below it);
two ping tries is the real constant. Template: two calls make a reply to one meet
the other in both orders, and a list of one is full at once; the real limits (10)
add only longer lists. The calls are report and get status, each in its plain and its
waiting form, and the receiver is the loop thread or the caller's own yield: the
configuration of `data_template_sample`, a loop thread beside waiting calls that
control data answers, is part of the run.
Deliver: three identifiers and a buffer of two make the buffer go round and a
message fall out of it; two entries can both accept a topic. The matching is not
a matter of the run's few filters: `MatchAssumption` in `MCMqttDeliver` compares
the character loop with the definition of MQTT for all 104 filters and 38 names
of up to three levels over three literal levels, one of them empty. OTA: the image takes more
than one segment and the last one is shorter; two images of one version differ in
size. Ring buffer: an item of two bytes crosses the end of four slots at every
offset, and the buffer gets full and empty. AT client: a query and a send of two
packets by two threads, with one line nobody asked for at any moment. Gateway: two
calls meet in every order, the third comes after both, and two notices change a
binding and change it back.

`session` checks: nothing is used after free or close (`NoUseAfterFree`), the
loop ends for a reason, events tell the state of the connection, keep-alive drops
only links that were quiet for two pings and notices every silent one, a lost
connection comes back or the back-off ends, `IOT_MQTT_Reconnect` and
`IOT_MQTT_StopLoop` return (`CallsReturn`).

`template` checks: the outcomes told are true (`OutcomesTrue`: `ACK_TIMEOUT` only
if no reply was handled, a waiting call returns what the cloud said to this
request, a reply to a listed event is heard), each callback is called at most once,
construction and waiting calls return, and listed requests are answered. That no handler
runs on a reset template and none writes the local variable of a call that has returned
(`NoUseAfterFree`) is not checked by a run, because the code does not ensure it: it fails
in the run's own configuration (section 5) and in the one of `DataTemplate_keep_mqtt`. What
a write into the stack of a returned call does to whoever uses that memory now is not
modelled.

Deadlock is checked except in `template`, `ota` and `at_client`: a destroyed
template, a finished upgrade and a used-up number of calls have no further step.

### 3.1 Where code and documentation disagree

The run `session_write_after_close` shows that a publishing thread writes to a
handle the yield thread has closed, although the API document allows publishing
from any thread. These configurations, to be run by hand, show eight more:

| configuration, module | violates | what happens | what is written |
|---|---|---|---|
| `MqttPublish_callback`, `MCMqttPublish` | `NoSelfDeadlock` | publishing in the time-out callback locks `lock_list_pub` a second time (mqtt_client_yield.c:359); the same happens with `lock_generic` in the event handlers of an UNSUBACK (mqtt_client_common.c:1040) and of unsubscribe (mqtt_client_unsubscribe.c:119), with `CallbackPublishes` set to `UNSUBCRIBE_SUCCESS` or `UNSUBSCRIBE` | mqtt_client_yield.c:348 "It is up to user to do republishing or not" |
| `MqttSubscribe_wildcard`, `MCMqttSubscribe` | `TableIsWhatUserWants` | unsubscribing a filter with a wildcard clears the whole table (mqtt_client_unsubscribe.c:123) | export_mqtt.h:325 "Unsubscribe MQTT topic" |
| `MqttSubscribe_late_unsuback`, `MCMqttSubscribe` | `TopicFilterValid` | an UNSUBACK after the time-out frees an uninitialised pointer (mqtt_client_common.c:1037) | the comment at mqtt_client_common.c:1042 "Free the topic filter malloced in qcloud_iot_mqtt_unsubscribe" |
| `MqttSession_ends_connected`, `MCMqttSession` | `LoopEndsForAReason` | a reconnection whose renewal fails counts as failed, and the loop may end although connected (mqtt_client_yield.c:130) | docs/C-SDK_API及可变参数说明.md:12: it ends when the wait exceeds the maximum (当超过该最大等待时间则退出重连) |
| `DataTemplate_keep_mqtt`, `MCDataTemplate` | `NoUseAfterFree` | after `IOT_Template_Destroy_Except_MQTT` the event handler still has the freed template (data_template_client_manager.c:275) | export_data_template.h:274 "Only release Data_Template Client resource, retain mqtt client for multi-thread case" |
| `OtaUpgrade_resume`, `MCOtaUpgrade` | `VerifiedIsImage` | after a crash between block and record, "ab+" appends the block again while the digest is right (ota_mqtt_sample.c:346) | docs/设备固件升级.md:123 "断点续传就是从文件上次中断的地方开始重新下载或上传" |
| `RingBuffer_items`, `RingBuffer` | `ItemsWhole` | a full queue takes part of an item (HAL_OS_linux.c:170) | HAL_OS_linux.c:122 "error ring buff size error" |
| `Gateway_bind_list`, `MCGateway` | `BindListObtained` | the answer to the bind list request is not put into the slot the call waits on (gateway_api.c:353, gateway_common.c:450) | export_gateway.h:284 "get sub-device bind list from cloud platform" |

Besides, the filter "a/#" matches the name "ab" (mqtt_client_common.c:733), and
"a/+/b" the name "a/": `MatchAssumption` says that these two forms are the only
differences from MQTT.

## 4. Fairness

- A thread inside the SDK goes on (weak fairness); a mutex that is free again and
  again is obtained in the end (strong fairness of the locking steps; in `MqttPublish`
  of all steps of a publish call, whose mutexes the other threads keep taking).
- An event handler of the program that runs under `lock_generic` returns
  (`UnsubscribeEnd`, `UnsubackReturns`).
- Timers run out.
- Yield is called again and again, by the loop thread or by the application:
  docs/C-SDK_API, line 60, asks for it, and the main loop of every sample does
  it, with `IOT_Template_Yield` for the template also beside the loop thread.
- The OTA program runs on and is started again after a crash.
- The AT module answers a command or has lost it after some time, and the waits
  of the driver end by their time-outs.
- Nothing is assumed about broker, cloud, network, image server or the calls of
  the user, with one exception: in `DataTemplate` every subscription is
  answered, as `SubscribeAnswered` states for the client below.

`AcceptedIsNotified` and `SubscribeAnswered` start from "the connection stays up
from some time on"; the sweep does not touch a node while disconnected.

## 5. What the passing runs leave out, and what it breaks

Each line was confirmed with the same model and the circumstance switched on.

| module | circumstance | breaks |
|---|---|---|
| MqttPublish | `TimelySender = FALSE` (the node's timer runs out while its own call still sends) | `ErrorPathHoldsLiveNode`, `SweepHoldsLiveNodes`, contract: the node is freed twice |
| | a callback that publishes on a time-out, on an UNSUBACK or in unsubscribe (`CallbackPublishes`) | `NoSelfDeadlock` (section 3.1) |
| MqttSubscribe | `unsubscribe_while_pending` | `TableIsWhatUserWants`, `TableIsSubscribed`: the late SUBACK restores the handler (included in `subscribe_adverse`, harmless to memory) |
| | `unsubscribe_while_renewing` | `TopicFilterValid`: the renewal copies a freed topic; `TableIsSubscribed`: the unsubscription overtakes the renewal |
| | two application threads | `TableIsSubscribed`: an unsubscription overtakes a subscription of the same topic |
| | a wait list still full when the renewal starts | `TableIsSubscribed`: the renewal fails and the session goes on |
| | `late_unsuback` | `TopicFilterValid` (section 3.1) |
| | `send_fails`, `renewal_refused` | `TableIsSubscribed` (included in `subscribe_adverse`) |
| | `slow_send` (the node's timer runs out while its own call still sends) | `TopicFilterValid`: sweep and error path free the same copy; `OneAnswer`: a call that was told a time-out returns an error |
| | `HasEventHandler = FALSE` | `SubscribeAnswered`: without a handler for the client the sweep tells nobody (mqtt_client_yield.c:444) |
| | more handles than table entries | `NoTopicLeak`, `SubscribeAnswered`: the copy is neither stored nor freed and no event is sent |
| MqttSession | `publish_while_dropping` | `HandleLive` (section 3.1), and so `NoUseAfterFree` |
| | `reconnect_while_looping` | `LoopEndsForAReason`: the loop takes the forced disconnection for one by the user |
| | `resubscribe_fails` | `LoopEndsForAReason` (section 3.1), `EventsTellState` |
| | `create_fails` | `SilentPeerNoticed`: the running flag stays set, yield only sleeps |
| | `late_start`, `slow_stop` | `NoUseAfterFree`: a stale exit flag, or 18 s of patience against four tries of 5 s |
| DataTemplate | `early_reply` | `OutcomesTrue`: the reply finds no listed request, a time-out is told |
| | `control_to_waiter` (in the run, which therefore leaves `NoUseAfterFree` out) | `NoUseAfterFree`: the callback writes the local variable of a call that has returned |
| | `bad_reply` | `CallsReturn`, `RequestsAnswered` |
| | `racing_tokens` | `OutcomesTrue`, `NoUseAfterFree`: two requests carry the same token |
| | `shared_loop` | `CallsReturn` |
| | `destroy_while_looping`, `keep_mqtt` | `NoUseAfterFree`, `OutcomesTrue`: a handler runs on a destroyed template |
| MqttDeliver | `id_reused` | `ExactlyOnce`: a new message with an identifier of the buffer is acknowledged and dropped |
| | `far_ahead` | `ExactlyOnce`: the identifier has left the buffer before the packet is sent again |
| | `unsubscribe_in_gap` | `RightHandler`: the entry changes between search and call |
| | `longer_level`, `ends_early` | `RightHandler`: the two forms of a wrong match |
| OtaUpgrade | `crash_behind`, `record_fails` | `InStep`, `VerifiedIsImage`: the file is longer than its record says |
| | `partial_write` | `InStep`, `VerifiedIsImage`: a failed write left bytes that the next attempt appends to |
| | `nothing_past_end` | `NotDeaf`: resumed behind the end of a smaller image, the download counts as fetched and nothing follows |
| | `lucky_stack` | `VerifiedIsImage`: the uninitialised `firmware_valid` passes an image that was not checked |
| | `last_save_fails`, `yield_error`, `publish_fails`, `version_refused` | `NotDeaf`: the attempt ends in FETCHING, FETCHED or a state after them, and nothing resets it |
| RingBuffer | `unstored` | `IsFifo`: the old byte of the slot is popped |
| | `push_in_flush` | `IsFifo`: a byte pushed during the flush is lost or the indices disagree |
| AtClient | `late`, `leftover` | `ResultTrue`: a line of an earlier command is taken for an answer |
| | `race` | `ResultTrue`, `RespLive`, `CallsReturn`: the parser works on a response object that is gone |
| | `long_answer` | `ResultTrue`: "buffer full" is overwritten by the final OK |
| | `overlap`, `send_refused`, `stray_in_send` | `ResultTrue`: the shared end sign ends the wait of another command |
| | `send_fail` | `ResultTrue`: a packet that failed is counted as sent |
| | a response buffer of fewer than `MaxUnsolicited + 3` lines | `ResultTrue`: lines that came unasked fill it before the answer |
| Gateway | `late`, `answer_lost`, `overlap` | `ResultTrue`, `SessionTrue`: the answer ends another wait, or the cloud goes on without the gateway |
| | `list_race` | `SessionTrue`: two threads in the unlocked session list lose an entry or walk into a freed one (gateway_common.c:599-676) |
| | `unbind_all_in_call` | `SessionTrue`: the call writes to a freed session |
| | `unbind_online` | `SessionTrue`: the session outlives the binding |
| | `unbind_listed`, `change_repeated` | `BindListTrue`: the list keeps an unbound sub-device, or has one twice |

## 6. Proofs

Each theorem holds for every value of the constants that satisfies the named
assumption on constants of its module. Where it needs a circumstance of section 5
to be absent, that is an `ASSUME` about `Adversity` in its statement, and section 5
says what the circumstance breaks. (`NoLeak` and `TableTrue` exclude `slow_send` because
their invariants have one owner for each copy; TLC finds that `NoTopicLeak` survives it.)
An invariant `X` is proved by an inductive `I` with `Init => I`, `I /\ [Next]_vars => I'`
and `I => X`; each inductive invariant was checked by TLC on the instance of section 3
first. A step proof has one case per action.

| module | theorem | states | for every | assumes absent |
|---|---|---|---|---|
| `MqttPublish_proofs` | `TypeCorrect` | `TypeOK` | threads, calls, identifier range, list limit | |
| | `IdentifiersUnique` | `IdsUniqueUntilWrap` | same | |
| | `ListBounded` | `WaitListBounded` | same | |
| | `WireOrdered` | `WireMatchesCaller` | same | |
| | `SweepSafe` | `SweepHoldsLiveNodes` | same | a slow sender (`TimelySender`) |
| | `ErrorPathSafe` | `ErrorPathHoldsLiveNode` | same | a slow sender; a full turn of the identifiers |
| | `MutexesSafe` | `NoSelfDeadlock` | same | callbacks that publish on anything but a PUBACK |
| | `ContractKept` | `ImplementsContract` | same | a slow sender; a full turn of the identifiers |
| `MqttSubscribe_proofs` | `AnsweredOnce` | `OneAnswer` | calls, threads, topics, table and list sizes | `slow_send` (`Prompt`) |
| | `TopicsValid` | `TopicFilterValid` | same | `slow_send`, `late_unsuback`, `unsubscribe_while_renewing` (`Calm`) |
| | `NoLeak` | `NoTopicLeak` | same | `slow_send`; more handles than entries (`HandlesFit`) |
| | `TableTrue` | `TableIsWhatUserWants` | same | filters with wildcards, `slow_send`, `unsubscribe_while_pending`, `unsubscribe_while_renewing` (`PlainUse`) |
| | `TableRenewed` | `TableIsSubscribed` | same | `slow_send`, `send_fails`, `renewal_refused`, `unsubscribe_while_pending`, `unsubscribe_while_renewing`, a second application thread (`SettledUse`); a full list at the renewal (`RenewalHasRoom`) |
| | `TableRenewedFewCalls` | `TableIsSubscribed` | same, lists as long as there are calls | `SettledUse` only |
| `MqttSession_proofs` | `QuietLinksOnly` | `DropsOnlyQuietLinks` | intervals, ping tries, auto-reconnect on or off | nothing |
| | `HandlesSafe` | `NoUseAfterFree` | same | `publish_while_dropping`; a second runner (`OneRunner`) |
| | `LoopEndsRightly` | `LoopEndsForAReason` | same | `resubscribe_fails`; a second runner |
| | `EventsTrue` | `EventsTellState` | same | `resubscribe_fails`; a second runner |
| `DataTemplate_proofs` | `AnsweredOnce` | `OneAnswer` | threads, calls, tokens, list sizes | nothing |
| | `OutcomesAreTrue` | `OutcomesTrue` | same | `early_reply`, `racing_tokens`, `destroy_while_looping`, `keep_mqtt` |
| `MqttDeliver_proofs` | `DeliverTypeCorrect` | its `TypeOK` | table, identifiers, repeat buffer, message count | nothing |
| | `DeliveredOnce` | `ExactlyOnce` | same | `id_reused`, `far_ahead` |
| | `HandlerIsRight` | `RightHandler` | same, and filters and names on which the loop agrees with MQTT (`LoopMatches`) | `unsubscribe_in_gap`, `longer_level`, `ends_early` (`Settled`) |
| `OtaUpgrade_proofs` | `OtaTypeCorrect` | its `TypeOK` | images, segment size, retries | nothing |
| | `DownloadInStep` | `InStep` | same | `crash_behind`, `record_fails`, `partial_write` (`RecordKept`) |
| | `VerifiedImage` | `VerifiedIsImage` | same | those and `lucky_stack` |
| `AtTransport_proofs` | `RingIsFifo` | `IsFifo` | size, byte values, item lengths | `unstored`, `push_in_flush`, unless `queue_mutex` is held |
| | `ResponseLive` | `RespLive` | callers, calls, lines | `race` |
| `Gateway_proofs` | `ResultsTrue` | `ResultTrue` | threads, sub-devices, prefixes among names, calls, notices | `late`, `overlap`, `answer_lost` (`InTime`) |
| | `SessionsTrue` | `SessionTrue` | same | those, `list_race`, `unbind_all_in_call`, `unbind_online` (`Orderly`) |
| | `BindListRight` | `BindListTrue` | same | `unbind_listed`, `change_repeated` |

### MqttPublish

`TypeOK` is not inductive: that the identifier of a call is stored for a request
needs the call to have one. `CallInv` adds that a thread runs a call iff it has a
request, that no two share one, and that the holder of `lock_write_buf` is the
thread between lock and unlock, with its packet in the buffer.

The counter is a number modulo the range; `Ahead(a, d, b)` says that `b` is `a`
moved on `d` times, for `d` less than a full turn. `CounterInv` keeps it between
each carried packet and the counter, and between each two packets; `LatestInv`
says that the holder of the write buffer has the latest identifier, which is why
reading it outside `lock_generic` is harmless. `WireInv` then orders the packets on
the wire by the moment their identifiers were taken.

Sweep and error path: a call can free only its own node, which is the youngest; the
iterator walks from young to old, and a node found timed out belongs to a call that
has returned. `SweepInv` puts this as: the iterator is older than the node to
remove, and that node's call is over whenever the lock is away. Conversely the error
path finds its node unless a PUBACK acknowledged a packet that was never sent; with
fewer calls than identifiers (`FirstTurn`) `SeqInv`, `WireInv` and `UnsentInv` exclude
that. After a full turn the PUBACK of an old call may carry the identifier of the new
one, so the condition is needed.

`ContractKept` is the safety part of the refinement: the outcome and the return value
that `PublishContract` speaks about are functions of the state, and each action maps to
one of its actions or a stutter. `ToldInv`, `AckInv`, `NodeInv` and `AcceptedInv` relate
what was told about a request to where its packet, its PUBACK and its node are.

### MqttSubscribe

`BaseInv`, which holds in every circumstance, carries the weight: a call has one packet
at most under way (`DistinctInv`), its node is NORMAL as long as it is unanswered
(`ListInv`), a packet under way meets an unmasked node (`NetInv`), the entries of the
table are settled accepted calls with different handles (`TableInv`). Who comes first,
SUBACK or sweep, masks the node, and the other finds it masked: `OneAnswer`.

`HeapInv` says that whoever holds a copy (call, waiting node, table, renewal) finds it
live; with `BaseInv` the holders exclude each other, so that `Owners` is a singleton.
`LeakInv` is the converse, every live copy has a holder; that a granted subscription
finds an entry is a pigeonhole argument over the table and is where `HandlesFit` is
needed. `WantInv` equates the table with the history variable `wanted`, and
`RenewalsInv` shows that the renewal asks only for what the table has.

`TableRenewed` follows the renewal entry by entry. `CoverInv`: while connected, the topic
of an entry is subscribed at the broker, on its way there in a SUBSCRIBE of the renewal,
or in an entry the renewal has not reached. What could take it away again is an
unsubscription that reaches the broker later; `OrderInv` says that an unsubscription not
yet with the broker precedes every request for its topic that may still be granted, and
that its topic has left the table. `LoopInv` keeps the renewal at its entry until the
call for it is over. `RenewalHasRoom` is a condition on the behaviour and not on the
constants, because the list may still hold requests from before the loss; with a list as
long as there are calls it holds by counting, which is `TableRenewedFewCalls`.

### MqttSession

`PingInv` bounds the ping counter by the pings sent since the last read on this
connection. `CoreInv` says who runs the yield code: the loop thread, or one call of
the application, and how the flags of the loop thread follow from where it is.
`LinkInv` and `WriterInv` tell for each place of dropping and restoring a connection
whether it is up and the handle open. `ReportInv` does the same for the manual
disconnection flag, the loop's return code and the last event told.

### DataTemplate

`BaseInv`, which holds in every circumstance, says who runs, who holds the list mutex, and
that a listed request, like the one in the callback on control data, has been told nothing
(`ListInv`): reply and sweep take it off the list in the step in which they tell, and so
`OneAnswer` needs no assumption.

`OutcomesAreTrue` is about tokens, since the code compares nothing else. `TokenInv`:
among the requests that are listed, waiting, or spoken of by a message under way, a token
names one. `MessageInv` adds that a message carries the token of the call it answers.
`AliveInv` ties the receiver to a ready template. `SeenInv` and `EventInv` connect what
was told, returned or left unset with the replies handled so far.

### MqttDeliver

The buffer filters a repetition only as long as its identifier has not been pushed
out. `AgeInv` is the measure: the identifiers remembered after one, together with those
still to come, belong to messages sent after it, and those are fewer than the buffer
is long. It rests on the order of the wire (`WireOrderInv`, `HandFirstInv`): what
is undelivered is on the wire or in hand, in the order of the broker.

`HandlerIsRight` divides the work: what the character loop computes for a filter and a
name stays with TLC (`LoopMatches`, which `MatchAssumption` of `MCMqttDeliver` evaluates for
every filter and name of up to three levels), and the proof is about the search around it.
`SearchInv` says that every entry passed over either does not match, has no handler, or
was touched since the packet was read; it survives an unsubscribe from another thread
between two looks because that removes the entry from `steady`.

### OtaUpgrade

`DigestInv` states at every place of an attempt, crash and resumption included, which of
file, record, counters and digest already have the current block. `VerifiedImage` then
needs only that equal digests mean equal contents, the abstraction of section 2.

### RingBuffer and AtClient

`ApartInv`: the slot being stored is never the slot being read, although the index moves
before the byte. `RingIsFifo` maps each step to one of `ByteFifo` or a stutter. In
`AtClient`, `RespInv` ties `client->resp` and the semaphore to the command that holds the
lock, which is what replaces the lock the parser does not take.

### Gateway

`WayInv` and `SlotInv` connect a call, its slot and its one request or answer under way:
while either is under way the call waits and its slot is pending, and a verdict that is
not in the slot is in a message. `ApartInv` (calls differ in kind and sub-device) makes
the slots private, which is why comparing names by prefix does no harm. `CallAgrees` says
for each kind of call how session and cloud may differ until it ends; `AgreeInv` that
otherwise they are equal. For the bind list the messages under way matter: `ChangeInv`
says that for each sub-device bindings and unbindings alternate in the way that keeps the
list free of duplicates, and that what the cloud has unbound is unbound here by a
message still to come.

### Only model-checked

- Liveness (`PublishReturns`, `AcceptedIsNotified`, `SubscribeAnswered`, `SilentPeerNoticed`,
  `ComesBack`, `CallsReturn`, `RequestsAnswered`, `NotDeaf`): out of the prover's reach, and with it
  the liveness of `PublishContract`.
- `LoopMatches`, on which `HandlerIsRight` rests: the character loop of `TopicMatched` for
  filters and names of any length needs induction over data.
- `ResultTrue` of `AtClient`: it holds only while none of the circumstances of that module
  occurs, each of which section 5 shows to break it, and so little is left to prove.

Every other invariant of the runs is stated by a theorem. The action and temporal properties that
no theorem states are the ones above.

## 7. Not modelled

The components marked `not_modelled` in `PROJECT.json`, each with its reason.
Inside the modelled ones: packet bytes, CONNECT options, log output, allocation
failures other than the push of a node, and JSON layout.

The models cover about 5,200 lines of source. The repository has some
154,000, of which 89,000 are mbedtls and cJSON, 28,000 samples and board
adaptations that repeat one another, and 31,000 the SDK itself with its stateless
parts (codec, JSON, cryptography, formatting). A share of the whole near a third
would need models of vendored cryptography, where a model checker has nothing to
say.

Known hazards without a property: after the loop gave up, `IOT_MQTT_Reconnect`
answers "reconnecting" although nobody reconnects (mqtt_client_yield.c:495); the
error path of `IOT_Template_Construct` frees the template twice
(data_template_client.c:926); one static client token serves every template of the
process (data_template_client_manager.c:262); an event that cannot be published
stays listed until its timer runs out (data_template_event.c:402); the sweep of the
subscribe list calls the event handler of a topic with `lock_list_sub` held
(mqtt_client_yield.c:440), and one that publishes then waits for `lock_write_buf`, whose
holder may be a subscribing thread that waits for `lock_list_sub`.

## 8. Plan

1. `LogUpload` (buffer under `lock_buf`, reload of logs that could not be sent) and
   `TemplateRegistry` (property and action lists, dispatch).
2. `FileManage` with the service topics, then resources and speech, which repeat
   the patterns of `DataTemplate` and `OtaUpgrade`.
