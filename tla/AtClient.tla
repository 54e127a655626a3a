------------------------------ MODULE AtClient ------------------------------
(***************************************************************************)
(* The AT client (network/at_socket/at_client.c, AT_OS_USED) and the       *)
(* commands the ESP8266 driver runs through it.                            *)
(*                                                                         *)
(* Actors: the threads that call the driver, the parser thread             *)
(* client_parser, and the communication module (external), which takes     *)
(* commands in order, answers each with some lines or not at all, and      *)
(* says things nobody asked for.  client->lock covers one command; the     *)
(* response object, end_sign, the flags and the semaphore are shared with  *)
(* the parser without it.                                                  *)
(*                                                                         *)
(* Data abstraction.  A line is the number of the command it belongs to (0 *)
(* for none) and what it is: "data", "OK", "ERROR", ">", "blank", an URC.  *)
(* A response buffer counts lines, not bytes.  A query stands for every    *)
(* driver call that runs one command and waits for OK: esp8266_connect,    *)
(* esp8266_close, esp8266_parse_domain.                                    *)
(***************************************************************************)
EXTENDS Integers, Sequences, SequencesExt

CONSTANTS
    Caller,           \* threads that use the driver
    BufLines,         \* lines a response buffer holds
    MaxCalls,         \* bound on the driver calls
    MaxUnsolicited,   \* bound on the lines nobody asked for
    Adversity         \* which of the circumstances below may occur

Circumstance ==
    { "late",             \* a wait times out while lines of its answer are on the way
      "leftover",         \* a stray line comes in for a command the module lost
      "race",             \* a wait times out while the parser handles a line
      "long_answer",      \* an answer does not fit its response buffer
      "overlap",          \* another thread uses the module between the setting of
                          \* end_sign and the sending of the data
      "send_refused",     \* AT+CIPSEND is refused or lost on the first packet
      "send_fail",        \* the data of a packet is not acknowledged by SEND OK
      "stray_in_send" }   \* a stray line during a send

ASSUME AtConstants ==
    /\ "none" \notin Caller       \* the value None of lock and resp
    /\ BufLines \in Nat \ {0} /\ MaxCalls \in Nat /\ MaxUnsolicited \in Nat
    /\ Adversity \subseteq Circumstance

VARIABLES
    lock, resp, resp_status, end_sign, resp_sem,   \* the at_client object
    flags,            \* sg_flags
    pc, packets,      \* of each caller; packets left to send, 0 in a query
    result,           \* ret of the driver call
    live,             \* callers whose response object is allocated
    buf, lines,       \* the response objects: buf and line_counts
    parser, line,     \* the parser: "read", "handle" or "exit"; its line
    resp_buf_len, line_counts,                     \* its locals
    asked, answer,    \* module: commands to answer, the lines left of an answer
    uart,             \* lines received and not yet read
    mine,             \* the number of the command of each caller
    said,             \* what the module answered to the command of each caller
    started, issued, unsolicited,                  \* counters
    fault             \* the parser used no response or a freed one

client == <<lock, resp, resp_status, end_sign, resp_sem, flags>>
caller == <<pc, packets, result, live>>
object == <<buf, lines>>
reader == <<parser, line, resp_buf_len, line_counts>>
module == <<asked, answer, uart, mine, said>>
count  == <<started, issued, unsolicited>>
vars   == <<client, caller, object, reader, module, count, fault>>

None == "none"
Urc  == {"SEND_OK", "SEND_FAIL", "urc"}
Text == Urc \cup {"data", "OK", "ERROR", ">", "blank"}
Line == [of : Nat, text : Text]
Unset == [of |-> 0, text |-> "data"]     \* a part of a buffer nobody wrote
Command == [of : Nat, by : Caller, kind : {"query", "packet", "data"}]

TypeOK ==
    /\ lock \in Caller \cup {None} /\ resp \in Caller \cup {None}
    /\ resp_status \in {"OK", "ERROR", "BUFF_FULL"} /\ end_sign \in BOOLEAN
    /\ resp_sem \in Nat /\ flags \subseteq {"SEND_OK", "SEND_FAIL"}
    /\ pc \in [Caller -> {"idle", "lock", "wait", "exit", "data", "flag", "delete"}]
    /\ packets \in [Caller -> 0 .. 2] /\ result \in [Caller -> BOOLEAN]
    /\ live \subseteq Caller
    /\ buf \in [Caller -> Seq(Line)] /\ lines \in [Caller -> Nat]
    /\ parser \in {"read", "handle", "exit"} /\ line \in Line
    /\ resp_buf_len \in 0 .. BufLines /\ line_counts \in 0 .. BufLines
    /\ asked \in Seq(Command) /\ answer \in Seq(Line) /\ uart \in Seq(Line)
    /\ mine \in [Caller -> Nat] /\ said \in [Caller -> Seq(Line)]
    /\ started \in 0 .. MaxCalls /\ issued \in Nat
    /\ unsolicited \in 0 .. MaxUnsolicited /\ fault \in BOOLEAN

(* at_client_para_init                                                     *)
Init ==
    /\ lock = None /\ resp = None /\ resp_status = "OK" /\ end_sign = FALSE
    /\ resp_sem = 0 /\ flags = {}
    /\ pc = [c \in Caller |-> "idle"] /\ packets = [c \in Caller |-> 0]
    /\ result = [c \in Caller |-> TRUE] /\ live = {}
    /\ buf = [c \in Caller |-> <<>>] /\ lines = [c \in Caller |-> 0]
    /\ parser = "read" /\ line = Unset /\ resp_buf_len = 0 /\ line_counts = 0
    /\ asked = <<>> /\ answer = <<>> /\ uart = <<>>
    /\ mine = [c \in Caller |-> 0] /\ said = [c \in Caller |-> <<>>]
    /\ started = 0 /\ issued = 0 /\ unsolicited = 0 /\ fault = FALSE

(* Caller c has set end_sign or been prompted, and not yet sent its data.  *)
InSend(c) == packets[c] > 0 /\ pc[c] \in {"lock", "wait", "exit", "data"}
Alone(c) == "overlap" \in Adversity \/ \A d \in Caller \ {c} : ~InSend(d)

(* Something of the command or the data of c is still on its way.          *)
UnderWay(c) ==
    \/ \E cmd \in Range(asked) : cmd.by = c
    \/ \E l \in Range(answer) \cup Range(uart) : l.of = mine[c]

(* A line without meaning (blank, or the prompt of a later packet, which   *)
(* nobody waits for) is on its way to the parser.                          *)
Stray ==
    \E l \in Range(uart) \cup Range(answer) : l.text \in {"blank", ">"}

-----------------------------------------------------------------------------
(***************************************************************************)
(* The driver.                                                             *)
(***************************************************************************)
(* at_create_resp of a query.                                              *)
Query(c) ==
    /\ pc[c] = "idle" /\ started < MaxCalls
    /\ started' = started + 1 /\ live' = live \cup {c}
    /\ pc' = [pc EXCEPT ![c] = "lock"]
    /\ UNCHANGED <<client, packets, result, object, reader, module, issued, unsolicited, fault>>

(* esp8266_send of n packets: the end sign is set outside the lock.        *)
Send(c, n) ==
    /\ pc[c] = "idle" /\ started < MaxCalls
    /\ Alone(c) /\ ("overlap" \in Adversity \/ lock = None)
    /\ "stray_in_send" \in Adversity \/ ~Stray
    /\ started' = started + 1 /\ live' = live \cup {c}
    /\ end_sign' = TRUE /\ flags' = {}
    /\ packets' = [packets EXCEPT ![c] = n]
    /\ pc' = [pc EXCEPT ![c] = "lock"]
    /\ UNCHANGED <<lock, resp, resp_status, resp_sem, result, object, reader, module, issued,
                   unsolicited, fault>>

(* at_obj_exec_cmd up to the wait.                                         *)
Exec(c) ==
    /\ pc[c] = "lock" /\ lock = None /\ Alone(c)
    /\ lock' = c /\ resp' = c /\ resp_status' = "OK"
    /\ lines' = [lines EXCEPT ![c] = 0]
    /\ issued' = issued + 1 /\ mine' = [mine EXCEPT ![c] = issued']
    /\ asked' = Append(asked, [of |-> issued', by |-> c,
                               kind |-> IF packets[c] = 0 THEN "query" ELSE "packet"])
    /\ said' = [said EXCEPT ![c] = <<>>]
    /\ pc' = [pc EXCEPT ![c] = "wait"]
    /\ UNCHANGED <<end_sign, resp_sem, flags, packets, result, live, buf, reader, answer, uart,
                   started, unsolicited, fault>>

(* HAL_SemaphoreWait succeeds.                                             *)
Wakes(c) ==
    /\ pc[c] = "wait" /\ resp_sem > 0
    /\ resp_sem' = resp_sem - 1
    /\ result' = [result EXCEPT ![c] = resp_status = "OK"]
    /\ pc' = [pc EXCEPT ![c] = "exit"]
    /\ UNCHANGED <<lock, resp, resp_status, end_sign, flags, packets, live, object, reader,
                   module, count, fault>>

(* HAL_SemaphoreWait times out.                                            *)
TimesOut(c) ==
    /\ pc[c] = "wait" /\ resp_sem = 0
    /\ "late" \in Adversity \/ ~UnderWay(c)
    /\ "race" \in Adversity \/ parser = "read"
    /\ result' = [result EXCEPT ![c] = FALSE]
    /\ pc' = [pc EXCEPT ![c] = "exit"]
    /\ UNCHANGED <<client, packets, live, object, reader, module, count, fault>>

(* client->resp and client->lock after a command.                          *)
ReleasedResp_Kept == resp
ReleasedResp == None

LockAfter_OnSuccess(c) == IF result[c] THEN None ELSE lock
LockAfter(c) == None

(* The exit of at_obj_exec_cmd; after a failed AT+CIPSEND esp8266_send     *)
(* leaves with the end sign set.                                           *)
Exits(c) ==
    /\ pc[c] = "exit"
    /\ resp' = ReleasedResp /\ lock' = LockAfter(c)
    /\ pc' = [pc EXCEPT ![c] = IF packets[c] > 0 /\ result[c] THEN "data" ELSE "delete"]
    /\ UNCHANGED <<resp_status, end_sign, resp_sem, flags, packets, result, live, object, reader,
                   module, count, fault>>

(* at_set_end_sign(0) and at_client_send.                                  *)
SendData(c) ==
    /\ pc[c] = "data"
    /\ end_sign' = FALSE
    /\ asked' = Append(asked, [of |-> mine[c], by |-> c, kind |-> "data"])
    /\ said' = [said EXCEPT ![c] = <<>>]
    /\ pc' = [pc EXCEPT ![c] = "flag"]
    /\ UNCHANGED <<lock, resp, resp_status, resp_sem, flags, packets, result, live, object,
                   reader, answer, uart, mine, count, fault>>

(* at_waitFlag(SEND_OK_FLAG | SEND_FAIL_FLAG): true when both are set,     *)
(* else it ends by time-out, which counts as success.                      *)
FlagWaited(c) ==
    /\ pc[c] = "flag"
    /\ {"SEND_OK", "SEND_FAIL"} \subseteq flags \/ "late" \in Adversity \/ ~UnderWay(c)
    /\ LET failed == {"SEND_OK", "SEND_FAIL"} \subseteq flags
           more   == ~failed /\ packets[c] > 1
       IN  /\ result' = [result EXCEPT ![c] = ~failed]
           /\ pc' = [pc EXCEPT ![c] = IF more THEN "lock" ELSE "delete"]
           /\ packets' = [packets EXCEPT ![c] = IF more THEN @ - 1 ELSE @]
           /\ flags' = IF more THEN {} ELSE flags
           /\ more => /\ Alone(c) /\ ("overlap" \in Adversity \/ lock = None)
                      /\ "stray_in_send" \in Adversity \/ ~Stray
    /\ UNCHANGED <<lock, resp, resp_status, end_sign, resp_sem, live, object, reader, module,
                   count, fault>>

(* at_delete_resp and the return of the driver call.                       *)
Delete(c) ==
    /\ pc[c] = "delete"
    /\ live' = live \ {c} /\ pc' = [pc EXCEPT ![c] = "idle"]
    /\ packets' = [packets EXCEPT ![c] = 0] /\ result' = [result EXCEPT ![c] = TRUE]
    /\ buf' = [buf EXCEPT ![c] = <<>>] /\ lines' = [lines EXCEPT ![c] = 0]
    /\ mine' = [mine EXCEPT ![c] = 0] /\ said' = [said EXCEPT ![c] = <<>>]
    /\ UNCHANGED <<client, reader, asked, answer, uart, count, fault>>

-----------------------------------------------------------------------------
(***************************************************************************)
(* client_parser                                                           *)
(***************************************************************************)
(* at_recv_readline, get_urc_obj and the handlers of the URC table.        *)
ReadLine ==
    /\ parser = "read" /\ uart # <<>>
    /\ LET l == Head(uart) IN
         /\ flags' = IF l.text \in {"SEND_OK", "SEND_FAIL"} THEN flags \cup {l.text} ELSE flags
         /\ IF l.text \in Urc \/ resp = None THEN UNCHANGED <<parser, line>>
            ELSE /\ "race" \in Adversity \/ pc[resp] = "wait"
                 /\ parser' = "handle" /\ line' = l
    /\ uart' = Tail(uart)
    /\ UNCHANGED <<lock, resp, resp_status, end_sign, resp_sem, caller, object, resp_buf_len,
                   line_counts, asked, answer, mine, said, count, fault>>

(* Line l at position n of a buffer; what lies between was never written.  *)
Stored(b, n, l) ==
    [i \in 1 .. (IF Len(b) > n THEN Len(b) ELSE n + 1) |->
       IF i = n + 1 THEN l ELSE IF i <= Len(b) THEN b[i] ELSE Unset]

(* line_num of at_create_resp: 2 in esp8266_send, else 0.                  *)
LineNum(c) == IF packets[c] > 0 THEN 2 ELSE 0

(* The line is copied if it fits, and the end of the answer is looked for. *)
StatusAfter(l, fits, n) ==
    CASE l.text = "OK" /\ LineNum(resp) = 0           -> "OK"
      [] l.text = "ERROR"                             -> "ERROR"
      [] l.text # "ERROR" /\ n = LineNum(resp) /\ n > 0 -> "OK"
      [] OTHER -> IF fits THEN resp_status ELSE "BUFF_FULL"

EndsAnswer(l, n) ==
    l.text = "ERROR" \/ (IF LineNum(resp) = 0 THEN l.text = "OK" ELSE n = LineNum(resp))

HandleLine ==
    /\ parser = "handle"
    /\ \/ /\ resp \notin live
          /\ fault' = TRUE
          /\ UNCHANGED <<resp_status, buf, parser, resp_buf_len, line_counts>>
       \/ /\ resp \in live /\ end_sign
          /\ parser' = IF line.text = ">" THEN "exit" ELSE "read"
          /\ UNCHANGED <<resp_status, buf, resp_buf_len, line_counts, fault>>
       \/ /\ resp \in live /\ ~end_sign
          /\ LET fits == resp_buf_len < BufLines
                 n    == IF fits THEN line_counts + 1 ELSE line_counts
             IN  /\ buf' = IF fits THEN [buf EXCEPT ![resp] = Stored(@, resp_buf_len, line)]
                           ELSE buf
                 /\ resp_buf_len' = IF fits THEN resp_buf_len + 1 ELSE resp_buf_len
                 /\ line_counts' = n
                 /\ resp_status' = StatusAfter(line, fits, n)
                 /\ parser' = IF EndsAnswer(line, n) THEN "exit" ELSE "read"
          /\ UNCHANGED fault
    /\ UNCHANGED <<lock, resp, end_sign, resp_sem, flags, caller, lines, line, module, count>>

(* The end of an answer.                                                   *)
LocalsAfter_Kept == <<resp_buf_len, line_counts>>
LocalsAfter == <<0, 0>>

ExitLine ==
    /\ parser = "exit"
    /\ IF resp \notin live THEN fault' = TRUE /\ UNCHANGED lines
       ELSE lines' = [lines EXCEPT ![resp] = line_counts] /\ UNCHANGED fault
    /\ resp' = None /\ parser' = "read"
    /\ resp_buf_len' = LocalsAfter[1] /\ line_counts' = LocalsAfter[2]
    /\ resp_sem' = resp_sem + 1
    /\ UNCHANGED <<lock, resp_status, end_sign, flags, caller, buf, line, module, count>>

-----------------------------------------------------------------------------
(***************************************************************************)
(* The communication module.                                               *)
(***************************************************************************)
Answers(kind) ==
    CASE kind = "query"  -> {<<"data", "OK">>, <<"OK">>, <<"ERROR">>} \cup
                            (IF "long_answer" \in Adversity
                             THEN {[n \in 1 .. BufLines + 1 |-> IF n > BufLines THEN "OK" ELSE "data"]}
                             ELSE {})
      [] kind = "packet" -> {<<"blank", "OK", ">">>} \cup
                            (IF end_sign /\ "send_refused" \notin Adversity THEN {} ELSE {<<"ERROR">>})
      [] OTHER           -> {<<"SEND_OK">>} \cup
                            (IF "send_fail" \in Adversity THEN {<<"SEND_FAIL">>} ELSE {})

(* The module begins to answer a command.                                  *)
ModuleAnswers(text) ==
    /\ asked # <<>> /\ answer = <<>> /\ text \in Answers(Head(asked).kind)
    /\ LET cmd == Head(asked)
       IN  /\ answer' = [n \in DOMAIN text |-> [of |-> cmd.of, text |-> text[n]]]
           /\ said' = IF cmd.of = mine[cmd.by] THEN [said EXCEPT ![cmd.by] = answer'] ELSE said
    /\ asked' = Tail(asked)
    /\ UNCHANGED <<client, caller, object, reader, uart, mine, count, fault>>

(* It takes no notice of one (it is busy).                                 *)
ModuleLoses ==
    /\ asked # <<>> /\ answer = <<>>
    /\ Head(asked).kind = "data" => "send_fail" \in Adversity
    /\ Head(asked).kind = "packet" /\ end_sign => "send_refused" \in Adversity
    /\ "leftover" \in Adversity \/ (resp_buf_len = 0 /\ parser = "read" /\ ~Stray)
    /\ asked' = Tail(asked)
    /\ UNCHANGED <<client, caller, object, reader, answer, uart, mine, said, count, fault>>

ModuleEmits ==
    /\ answer # <<>>
    /\ uart' = Append(uart, Head(answer)) /\ answer' = Tail(answer)
    /\ UNCHANGED <<client, caller, object, reader, asked, mine, said, count, fault>>

(* An URC or an empty line.                                                *)
Unsolicited(text) ==
    /\ unsolicited < MaxUnsolicited
    /\ text = "blank" => "stray_in_send" \in Adversity \/ \A c \in Caller : packets[c] = 0
    /\ text = "blank" => "leftover" \in Adversity \/ \A c \in Caller : pc[c] = "wait" => UnderWay(c)
    /\ unsolicited' = unsolicited + 1
    /\ uart' = Append(uart, [of |-> 0, text |-> text])
    /\ UNCHANGED <<client, caller, object, reader, asked, answer, mine, said, started, issued, fault>>

-----------------------------------------------------------------------------
CallerStep(c) ==
    Exec(c) \/ Wakes(c) \/ TimesOut(c) \/ Exits(c) \/ SendData(c) \/ FlagWaited(c) \/ Delete(c)

ParserStep == ReadLine \/ HandleLine \/ ExitLine
ModuleStep ==
    \/ \E kind \in {"query", "packet", "data"} : \E text \in Answers(kind) : ModuleAnswers(text)
    \/ ModuleLoses \/ ModuleEmits

Next ==
    /\ ~fault
    /\ \/ \E c \in Caller : Query(c) \/ (\E n \in 1 .. 2 : Send(c, n)) \/ CallerStep(c)
       \/ ParserStep \/ ModuleStep
       \/ \E text \in {"urc", "blank"} : Unsolicited(text)

Spec == Init /\ [][Next]_vars

(* The threads run, the waits are bounded by time-outs, and the module     *)
(* answers or has lost a command after some time.                          *)
Fairness ==
    /\ \A c \in Caller : WF_vars(~fault /\ CallerStep(c))
    /\ WF_vars(~fault /\ ParserStep) /\ WF_vars(~fault /\ ModuleStep)

FairSpec == Spec /\ Fairness

-----------------------------------------------------------------------------
(* The lines that mean something, by their positions up to n.              *)
Speaks(l) == l.text \notin {"blank", ">"}
Words(s, n) == {i \in DOMAIN s : i <= n /\ Speaks(s[i])}

(* Position i has the last word of s.                                      *)
LastWord(s, i) == i \in Words(s, Len(s)) /\ \A j \in Words(s, Len(s)) : j <= i

(* The words of t are those of s up to n, each one once and in order.      *)
SameWords(s, n, t) ==
    \E place \in [Words(s, n) -> Words(t, Len(t))] :
        /\ \A j \in Words(t, Len(t)) : \E i \in Words(s, n) : place[i] = j
        /\ \A i \in Words(s, n) : s[i] = t[place[i]]
        /\ \A i, j \in Words(s, n) : i < j => place[i] < place[j]

(* What a driver call returns is what the module said to it: success only  *)
(* with a final OK (SEND OK for data) and, in a query, with the lines of   *)
(* this very answer in the response buffer, unsolicited blank lines aside; *)
(* failure only if the module refused the command or never answered it.    *)
ResultTrue ==
    \A c \in Caller : pc[c] = "delete" =>
        IF result[c]
        THEN /\ \E i \in DOMAIN said[c] :
                   LastWord(said[c], i) /\ said[c][i].text \in {"OK", "SEND_OK"}
             /\ packets[c] = 0 => SameWords(buf[c], lines[c], said[c])
        ELSE \A i \in DOMAIN said[c] :
                LastWord(said[c], i) => said[c][i].text \in {"ERROR", "SEND_FAIL"}

(* The parser never works on a response object that its command has given  *)
(* up or freed: client->resp is looked at again for every line, and the    *)
(* command that owns it may have gone between two lines.                   *)
RespLive == ~fault /\ (resp # None => resp \in live)

(* Every driver call returns: the lock of a command that got no answer is  *)
(* released, and a lost answer blocks nobody.                              *)
CallsReturn == \A c \in Caller : pc[c] # "idle" ~> pc[c] = "idle"
=============================================================================
