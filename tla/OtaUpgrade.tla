----------------------------- MODULE OtaUpgrade -----------------------------
(***************************************************************************)
(* A firmware upgrade: the OTA client, its download by HTTP range requests *)
(* and the application of samples/ota, which keeps the image and a record  *)
(* of its progress in two files and resumes after a restart.               *)
(*                                                                         *)
(* One thread runs everything (the sample has no loop thread), so a        *)
(* message of the cloud is handled inside IOT_MQTT_Yield only.  A step     *)
(* ends where a crash, a failure or a message can make a difference.       *)
(*                                                                         *)
(* Data abstraction.  An image is a sequence of blocks, <<image, n>> for   *)
(* block n; Junk is a block of an error page or of another range, which    *)
(* _http_client_response_parse takes for data (it only refuses 403 and     *)
(* 404).  A digest is the sequence of the blocks it covers.  The version   *)
(* string is the same for all images: the file names are made from it, so  *)
(* different versions do not meet, one version published again does.       *)
(***************************************************************************)
EXTENDS Integers, Sequences, SequencesExt

CONSTANTS
    Image,                         \* images published under the version
    Size,                          \* blocks of each image
    OTA_HTTP_MAX_FETCHED_SIZE,     \* blocks asked for by one range request
    OTA_BUF_LEN,                   \* blocks one fetch may return
    MAX_OTA_RETRY_CNT,             \* 5
    MaxBlocks,                     \* bound on the length of the image file
    Adversity                      \* which of the circumstances below may occur

Circumstance ==
    { "crash_behind",              \* a crash between saving a block and its record
      "record_fails",              \* the progress record cannot be opened
      "lucky_stack",               \* the uninitialised firmware_valid is not 0
      "partial_write",             \* a write leaves a part of the blocks in the file
      "last_save_fails",           \* the last block cannot be saved
      "nothing_past_end",          \* a fetch past the end of the image returns 0
      "yield_error",               \* IOT_MQTT_Yield fails on a live connection
      "publish_fails",             \* so does a publish
      "version_refused" }          \* the cloud refuses the reported version

ASSUME OtaConstants ==
    /\ Size \in [Image -> Nat \ {0}]
    /\ OTA_HTTP_MAX_FETCHED_SIZE \in Nat \ {0} /\ OTA_BUF_LEN \in Nat \ {0}
    /\ MAX_OTA_RETRY_CNT \in Nat /\ MaxBlocks \in Nat
    /\ Adversity \subseteq Circumstance

VARIABLES
    state, version,                \* h_ota->state; the image announced, None when
                                   \* version and purl are freed
    size_fetched, md5,
    seg,                           \* h_ota->ch_fetch: the range request under way
    connected,                     \* IOT_MQTT_IsConnected
    pc,                            \* position in main and process_ota
    buf_ota,                       \* the blocks fetched and not yet saved
    downloaded_size, last_downloaded_size, ota_fail_cnt,
    upgrade_fetch_success,
    file, info                     \* flash: the image file; the size in the
                                   \* progress record, 0 if there is none

ota   == <<state, version, size_fetched, md5, seg>>
app   == <<buf_ota, downloaded_size, last_downloaded_size, ota_fail_cnt, upgrade_fetch_success>>
flash == <<file, info>>
vars  == <<ota, connected, pc, app, flash>>

None == "none"
Junk == <<"junk", 0>>
NoSeg == [offset |-> 0, fetch_size |-> 0, fetched_size |-> 0, open |-> FALSE]
Content(image) == [n \in 1 .. Size[image] |-> <<image, n>>]
Block == {Junk} \cup UNION {Range(Content(image)) : image \in Image}
Label == {"off", "main", "report", "wait", "begin", "start", "fetch", "save", "record",
          "write", "yield", "check", "end", "ack", "done"}

TypeOK ==
    /\ state \in {"UNINITED", "INITED", "FETCHING", "FETCHED"} /\ version \in Image \cup {None}
    /\ size_fetched \in Nat /\ md5 \in Seq(Block)
    /\ seg \in [offset : Nat, fetch_size : Nat, fetched_size : Nat, open : BOOLEAN]
    /\ connected \in BOOLEAN /\ pc \in Label /\ buf_ota \in Seq(Block)
    /\ downloaded_size \in Nat /\ last_downloaded_size \in Nat
    /\ ota_fail_cnt \in 0 .. MAX_OTA_RETRY_CNT /\ upgrade_fetch_success \in BOOLEAN
    /\ file \in Seq(Block) /\ info \in Nat

Off ==
    /\ state' = "UNINITED" /\ version' = None /\ size_fetched' = 0 /\ md5' = <<>>
    /\ seg' = NoSeg /\ connected' = FALSE /\ pc' = "off" /\ buf_ota' = <<>>
    /\ downloaded_size' = 0 /\ last_downloaded_size' = 0 /\ ota_fail_cnt' = 0
    /\ upgrade_fetch_success' = TRUE

Init ==
    /\ state = "UNINITED" /\ version = None /\ size_fetched = 0 /\ md5 = <<>>
    /\ seg = NoSeg /\ connected = FALSE /\ pc = "off" /\ buf_ota = <<>>
    /\ downloaded_size = 0 /\ last_downloaded_size = 0 /\ ota_fail_cnt = 0
    /\ upgrade_fetch_success = TRUE
    /\ file = <<>> /\ info = 0

-----------------------------------------------------------------------------
(***************************************************************************)
(* The OTA client.                                                         *)
(***************************************************************************)
(* IOT_OTA_ResetStatus                                                     *)
ResetStatus == state' = "INITED" /\ version' = None

(* A report at QoS 1: whether _otamqtt_publish accepts it.                 *)
Publishes(ok) == IF ok THEN connected ELSE ~connected \/ "publish_fails" \in Adversity

(* IOT_OTA_ReportUpgradeResult with a final result.  Without a version     *)
(* (freed by an earlier report) nothing is sent.                           *)
ReportResult(ok) == IF ok /\ version # None THEN ResetStatus ELSE UNCHANGED <<state, version>>

(* Where IOT_MQTT_Yield is called.                                         *)
Yielding == pc \in {"main", "wait", "yield", "ack"}

(* _ota_callback on an update message or on the refusal of the reported    *)
(* version; messages are dropped in the states FETCHING and FETCHED.       *)
CloudMessage(message) ==
    /\ Yielding /\ connected /\ state = "INITED"
    /\ message = "refusal" => "version_refused" \in Adversity /\ pc = "wait"
    /\ state' = IF message = "refusal" THEN "FETCHED" ELSE "FETCHING"
    /\ version' = IF message = "refusal" THEN version ELSE message
    /\ UNCHANGED <<size_fetched, md5, seg, connected, pc, app, flash>>

(* ofc_set_request_range: the next range from offset; the comparison is    *)
(* unsigned, so an offset past the end asks for a whole segment.           *)
RangeFrom(offset) ==
    LET remain == Size[version] - offset
        fetch  == IF remain < 0 \/ OTA_HTTP_MAX_FETCHED_SIZE < remain
                  THEN OTA_HTTP_MAX_FETCHED_SIZE ELSE remain
    IN  [offset |-> offset + fetch, fetch_size |-> fetch, fetched_size |-> 0, open |-> TRUE]

(* The first block the range request still owes.                           *)
Position == seg.offset - seg.fetch_size + seg.fetched_size

(* qcloud_url_download_fetch after n blocks: the next request when the     *)
(* range is complete; a failed one only shows at the next fetch.           *)
Advance(n, sent) ==
    LET got == [seg EXCEPT !.fetched_size = @ + n]
    IN  IF got.fetched_size # got.fetch_size \/ got.offset = Size[version] THEN got
        ELSE [RangeFrom(got.offset) EXCEPT !.open = sent]

-----------------------------------------------------------------------------
(***************************************************************************)
(* main of the sample.                                                     *)
(***************************************************************************)
(* IOT_MQTT_Construct and IOT_OTA_Init succeed.                            *)
Boot ==
    /\ pc = "off" /\ pc' = "main" /\ state' = "INITED" /\ connected' = TRUE
    /\ UNCHANGED <<version, size_fetched, md5, seg, app, flash>>

(* process_ota is entered when the yield succeeds; it reports the version. *)
MainYield ==
    /\ pc = "main" /\ connected
    /\ pc' = "report" /\ upgrade_fetch_success' = TRUE /\ last_downloaded_size' = 0
    /\ UNCHANGED <<ota, connected, buf_ota, downloaded_size, ota_fail_cnt, flash>>

(* QCLOUD_ERR_MQTT_RECONNECT_TIMEOUT ends the program.                     *)
MainExit ==
    /\ pc = "main" /\ ~connected
    /\ Off /\ UNCHANGED flash

ReportVersion(ok) ==
    /\ pc = "report" /\ Publishes(ok)
    /\ ResetStatus
    /\ pc' = IF ok THEN "wait" ELSE "end"
    /\ upgrade_fetch_success' = ok
    /\ UNCHANGED <<size_fetched, md5, seg, connected, buf_ota, downloaded_size,
                   last_downloaded_size, ota_fail_cnt, flash>>

(* The yield of the waiting loop ends, whatever its outcome.               *)
WaitYield ==
    /\ pc = "wait" /\ pc' = "begin"
    /\ UNCHANGED <<ota, connected, app, flash>>

-----------------------------------------------------------------------------
(***************************************************************************)
(* process_ota from begin_of_ota on.                                       *)
(***************************************************************************)
NotFetching ==
    /\ pc = "begin" /\ state # "FETCHING" /\ pc' = "wait"
    /\ UNCHANGED <<ota, connected, app, flash>>

(* _update_fw_downloaded_size: the size found before this attempt, not the *)
(* recorded one, is compared with the size of the image.  A file shorter   *)
(* than the record says makes the record worthless.                        *)
Resumable == info # 0 /\ downloaded_size <= Size[version]
Resume ==
    /\ pc = "begin" /\ state = "FETCHING"
    /\ downloaded_size' = IF Resumable /\ info <= Len(file) THEN info ELSE 0
    /\ md5' = IF ~Resumable THEN md5
              ELSE IF info <= Len(file) THEN SubSeq(file, 1, info) ELSE file
    /\ info' = IF Resumable /\ info > Len(file) THEN 0 ELSE info
    /\ pc' = IF downloaded_size' = Size[version] THEN "check" ELSE "start"
    /\ UNCHANGED <<state, version, size_fetched, seg, connected, buf_ota, last_downloaded_size,
                   ota_fail_cnt, upgrade_fetch_success, file>>

(* IOT_OTA_StartDownload; a download from the start needs a new digest.    *)
DigestAtStart_Kept == md5
DigestAtStart == IF downloaded_size = 0 THEN <<>> ELSE md5
StartDownload(ok) ==
    /\ pc = "start"
    /\ size_fetched' = downloaded_size
    /\ md5' = DigestAtStart
    /\ seg' = [RangeFrom(downloaded_size) EXCEPT !.open = ok]
    /\ upgrade_fetch_success' = ok
    /\ pc' = IF ok THEN "fetch" ELSE "end"
    /\ UNCHANGED <<state, version, connected, buf_ota, downloaded_size, last_downloaded_size,
                   ota_fail_cnt, flash>>

(* IOT_OTA_FetchYield returns n blocks: the ones asked for, or Junk.       *)
Served(n, junk) ==
    IF junk THEN [i \in 1 .. n |-> Junk] ELSE SubSeq(Content(version), Position + 1, Position + n)
FetchBlocks(n, junk, sent) ==
    /\ pc = "fetch" /\ seg.open /\ size_fetched + n <= MaxBlocks
    /\ ~junk => seg.fetched_size + n <= seg.fetch_size /\ Position + n <= Size[version]
    /\ buf_ota' = Served(n, junk) /\ pc' = "save"
    /\ seg' = Advance(n, sent)
    /\ size_fetched' = size_fetched + n
    /\ state' = IF size_fetched' >= Size[version] THEN "FETCHED" ELSE state
    /\ md5' = md5 \o buf_ota'
    /\ UNCHANGED <<version, connected, downloaded_size, last_downloaded_size, ota_fail_cnt,
                   upgrade_fetch_success, flash>>

(* It returns 0 (nothing to read), an error, or 403 or 404, which the      *)
(* sample does not retry.  With 0 the size is compared as after a block: a *)
(* download resumed past the end of a smaller image is then FETCHED, and   *)
(* the sample, which takes 0 for a failure, waits for another message.     *)
PastEnd(why) == why = "nothing" /\ size_fetched >= Size[version]
FetchFails(why) ==
    /\ pc = "fetch" /\ (~seg.open => why = "error")
    /\ PastEnd(why) => "nothing_past_end" \in Adversity
    /\ state' = IF PastEnd(why) THEN "FETCHED" ELSE state
    /\ seg' = IF why = "nothing" THEN seg ELSE [seg EXCEPT !.open = FALSE]
    /\ upgrade_fetch_success' = FALSE /\ pc' = "end"
    /\ ota_fail_cnt' = IF why = "refused" THEN MAX_OTA_RETRY_CNT ELSE ota_fail_cnt
    /\ UNCHANGED <<version, size_fetched, md5, connected, buf_ota, downloaded_size,
                   last_downloaded_size, flash>>

(* _save_fw_data_to_file: "wb+" empties the file, "ab+" writes at its end  *)
(* whatever the offset.                                                    *)
SaveAt(offset, blocks) == (IF offset > 0 THEN file ELSE <<>>) \o blocks

(* What the write leaves of the blocks: all, or with "partial_write" fewer *)
(* than it should, which flush and close may notice and nobody reads.      *)
Written(m) == SaveAt(downloaded_size, SubSeq(buf_ota, 1, m))

Save(m) ==
    /\ pc = "save" /\ (m # Len(buf_ota) => "partial_write" \in Adversity)
    /\ file' = Written(m)
    /\ buf_ota' = <<>> /\ pc' = "record"
    /\ UNCHANGED <<ota, connected, downloaded_size, last_downloaded_size, ota_fail_cnt,
                   upgrade_fetch_success, info>>

(* The file cannot be opened, or fwrite fails, after any part of its work. *)
SaveFails(m) ==
    /\ pc = "save" /\ (state = "FETCHED" => "last_save_fails" \in Adversity)
    /\ m # 0 => "partial_write" \in Adversity
    /\ file' \in {file, Written(m)}
    /\ buf_ota' = <<>> /\ pc' = "end"
    /\ upgrade_fetch_success' = FALSE /\ ota_fail_cnt' = MAX_OTA_RETRY_CNT
    /\ UNCHANGED <<ota, connected, downloaded_size, last_downloaded_size, info>>

(* _update_local_fw_info opens the record, which empties it, and writes    *)
(* it; a failure is logged.                                                *)
OpenRecord(ok) ==
    /\ pc = "record" /\ (~ok => "record_fails" \in Adversity)
    /\ downloaded_size' = size_fetched
    /\ info' = IF ok THEN 0 ELSE info
    /\ pc' = IF ok THEN "write" ELSE "yield"
    /\ UNCHANGED <<ota, connected, buf_ota, last_downloaded_size, ota_fail_cnt,
                   upgrade_fetch_success, file>>

WriteRecord ==
    /\ pc = "write"
    /\ info' \in {0, downloaded_size} /\ pc' = "yield"
    /\ UNCHANGED <<ota, connected, app, file>>

(* The yield between two fetches ends; an error ends the attempt.          *)
YieldReturns(error) ==
    /\ pc = "yield"
    /\ error => ~connected \/ "yield_error" \in Adversity
    /\ ~error => connected
    /\ upgrade_fetch_success' = ~error
    /\ pc' = IF error THEN "end" ELSE IF state = "FETCHED" THEN "check" ELSE "fetch"
    /\ UNCHANGED <<ota, connected, buf_ota, downloaded_size, last_downloaded_size, ota_fail_cnt,
                   flash>>

(* end_of_download: the record is deleted and the digest compared.  In the *)
(* state FETCHING (the image was complete before this attempt) the command *)
(* fails and firmware_valid keeps whatever the stack held.                 *)
DigestMatches_Length == Len(md5) = Size[version]
DigestMatches == md5 = Content(version)
CheckFirmware(valid, ok) ==
    /\ pc = "check" /\ Publishes(ok)
    /\ valid \in IF state = "FETCHED" THEN {DigestMatches}
                 ELSE {FALSE} \cup (IF "lucky_stack" \in Adversity THEN {TRUE} ELSE {})
    /\ IF state = "FETCHED" /\ ~valid THEN ReportResult(ok) ELSE UNCHANGED <<state, version>>
    /\ info' = 0 /\ upgrade_fetch_success' = valid /\ pc' = "end"
    /\ UNCHANGED <<size_fetched, md5, seg, connected, buf_ota, downloaded_size,
                   last_downloaded_size, ota_fail_cnt, file>>

-----------------------------------------------------------------------------
(***************************************************************************)
(* end_of_ota.                                                             *)
(***************************************************************************)
(* An attempt that got exactly one segment further does not count.         *)
FailCount_Never == ota_fail_cnt
FailCount == IF downloaded_size - last_downloaded_size # OTA_HTTP_MAX_FETCHED_SIZE
             THEN ota_fail_cnt + 1 ELSE ota_fail_cnt
Retry ==
    /\ pc = "end" /\ ~upgrade_fetch_success /\ connected /\ FailCount <= MAX_OTA_RETRY_CNT
    /\ ota_fail_cnt' = FailCount
    /\ upgrade_fetch_success' = TRUE /\ last_downloaded_size' = downloaded_size
    /\ pc' = "begin"
    /\ UNCHANGED <<ota, connected, buf_ota, downloaded_size, flash>>

ReportFail(ok) ==
    /\ pc = "end" /\ ~upgrade_fetch_success /\ connected /\ FailCount > MAX_OTA_RETRY_CNT
    /\ Publishes(ok) /\ ReportResult(ok)
    /\ ota_fail_cnt' = 0 /\ pc' = "ack"
    /\ UNCHANGED <<size_fetched, md5, seg, connected, buf_ota, downloaded_size,
                   last_downloaded_size, upgrade_fetch_success, flash>>

(* Without a connection nothing is reported.                               *)
GiveUp ==
    /\ pc = "end" /\ ~upgrade_fetch_success /\ ~connected
    /\ pc' = "ack" /\ UNCHANGED <<ota, connected, app, flash>>

ReportSuccess(ok) ==
    /\ pc = "end" /\ upgrade_fetch_success
    /\ Publishes(ok) /\ ReportResult(ok)
    /\ ota_fail_cnt' = 0 /\ pc' = "ack"
    /\ UNCHANGED <<size_fetched, md5, seg, connected, buf_ota, downloaded_size,
                   last_downloaded_size, upgrade_fetch_success, flash>>

(* _wait_for_pub_ack ends and process_ota returns.                         *)
Return ==
    /\ pc = "ack" /\ pc' = IF upgrade_fetch_success THEN "done" ELSE "main"
    /\ UNCHANGED <<ota, connected, app, flash>>

-----------------------------------------------------------------------------
(* The connection breaks or comes back inside IOT_MQTT_Yield.              *)
LinkChanges ==
    /\ Yielding /\ connected' = ~connected
    /\ UNCHANGED <<ota, pc, app, flash>>

(* Power fails.                                                            *)
RecordBehind == pc = "record" /\ info # 0
Crash ==
    /\ pc \notin {"off", "done"}
    /\ RecordBehind => "crash_behind" \in Adversity
    /\ Off /\ UNCHANGED flash

Step ==
    \/ MainYield \/ MainExit \/ WaitYield \/ NotFetching \/ Resume \/ WriteRecord
    \/ Retry \/ GiveUp \/ Return
    \/ \E ok \in BOOLEAN :
           \/ ReportVersion(ok) \/ StartDownload(ok) \/ OpenRecord(ok) \/ YieldReturns(ok)
           \/ ReportFail(ok) \/ ReportSuccess(ok)
           \/ \E valid \in BOOLEAN : CheckFirmware(valid, ok)
    \/ \E m \in 0 .. Len(buf_ota) : Save(m) \/ SaveFails(m)
    \/ \E n \in 1 .. OTA_BUF_LEN, junk, sent \in BOOLEAN : FetchBlocks(n, junk, sent)
    \/ \E why \in {"nothing", "error", "refused"} : FetchFails(why)

Next ==
    \/ Boot \/ Step
    \/ \E message \in Image \cup {"refusal"} : CloudMessage(message)
    \/ LinkChanges \/ Crash

Spec == Init /\ [][Next]_vars

(* The program runs on and is started again; the cloud, the server and the *)
(* network owe nothing.                                                    *)
FairSpec == Spec /\ WF_vars(Step) /\ WF_vars(Boot)

-----------------------------------------------------------------------------
(***************************************************************************)
(* Properties.                                                             *)
(***************************************************************************)
(* Before every fetch the digest, the file as the next block will find it, *)
(* the counters of sample, client and download, and the range asked for    *)
(* agree on how much of the image there is, after any mix of failed        *)
(* attempts, restarts and republished images (_update_fw_downloaded_size,  *)
(* IOT_OTA_StartDownload, qcloud_url_download_fetch,                       *)
(* _save_fw_data_to_file).                                                 *)
InStep ==
    pc = "fetch" =>
        /\ md5 = SaveAt(downloaded_size, <<>>) /\ Len(md5) = downloaded_size
        /\ size_fetched = downloaded_size /\ Position = downloaded_size

(* An upgrade is reported as successful only if the file holds the         *)
(* announced image, whatever the server sent and wherever the download     *)
(* broke off.                                                              *)
VerifiedIsImage ==
    pc = "end" /\ upgrade_fetch_success => file = Content(version)

(* The client drops the messages of the cloud in the states FETCHING and   *)
(* FETCHED, so it always leaves them: the retries end, and no failure      *)
(* leaves it deaf for ever.                                                *)
NotDeaf == state \in {"FETCHING", "FETCHED"} ~> state \notin {"FETCHING", "FETCHED"} \/ pc = "done"
=============================================================================
