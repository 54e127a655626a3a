------------------------- MODULE OtaUpgrade_proofs -------------------------
(***************************************************************************)
(* Theorems about OtaUpgrade for every set of images of any size, every    *)
(* range size and buffer length and every number of retries: the digest    *)
(* that is verified is that of the file, over failed attempts, restarts    *)
(* and power failures.                                                     *)
(***************************************************************************)
EXTENDS OtaUpgrade, SequenceTheorems, TLAPS

SegType == [offset : Nat, fetch_size : Nat, fetched_size : Nat, open : BOOLEAN]

(* From the first range request to the end of the digest check.            *)
Download == {"fetch", "save", "record", "write", "yield"}

(* An image is announced as long as the client is fetching; a download     *)
(* keeps the client in that state, where messages of the cloud are dropped.*)
AttemptInv ==
    /\ state = "FETCHING" => version \in Image
    /\ pc \in {"start", "fetch"} => state = "FETCHING"
    /\ pc \in {"save", "record", "write", "yield", "check"} =>
          version \in Image /\ state \in {"FETCHING", "FETCHED"}

(* The range request owes the block behind the last one that was fetched.  *)
SegInv == pc \in Download => Position = size_fetched

TypeInv == TypeOK /\ AttemptInv /\ SegInv

-----------------------------------------------------------------------------
(***************************************************************************)
(* Operators.                                                              *)
(***************************************************************************)
LEMMA ContentType ==
  ASSUME NEW image \in Image
  PROVE  /\ Content(image) \in Seq(Block) /\ Len(Content(image)) = Size[image]
         /\ \A n \in 1 .. Size[image] : Content(image)[n] \in Block
         /\ Size[image] \in Nat
<1>1. Size[image] \in Nat
  BY OtaConstants
<1>2. \A n \in 1 .. Size[image] : Content(image)[n] \in Block
  <2>1. \A n \in 1 .. Size[image] : Content(image)[n] \in Range(Content(image))
    BY DEF Content, Range
  <2> QED
    BY <2>1 DEF Block
<1>3. Content(image) \in Seq(Block) /\ Len(Content(image)) = Size[image]
  <2>1. Content(image) \in [1 .. Size[image] -> Block] /\ DOMAIN Content(image) = 1 .. Size[image]
    BY <1>2 DEF Content
  <2>2. Content(image) \in Seq(Block)
    BY <1>1, <2>1, SeqDef
  <2>3. Len(Content(image)) \in Nat /\ DOMAIN Content(image) = 1 .. Len(Content(image))
    BY <2>2, LenProperties
  <2> QED
    BY <1>1, <2>1, <2>2, <2>3
<1> QED
  BY <1>1, <1>2, <1>3

(* A fetch returns as many blocks as it says.                              *)
LEMMA ServedType ==
  ASSUME NEW n \in 1 .. OTA_BUF_LEN, NEW junk \in BOOLEAN, version \in Image,
         Position \in Nat, ~junk => Position + n <= Size[version]
  PROVE  Served(n, junk) \in Seq(Block) /\ Len(Served(n, junk)) = n
<1>0. n \in Nat \ {0}
  BY OtaConstants
<1>1. CASE junk
  <2>1. Junk \in Block
    BY DEF Block
  <2>2. [i \in 1 .. n |-> Junk] \in Seq(Block) /\ Len([i \in 1 .. n |-> Junk]) = n
    BY <1>0, <2>1
  <2> QED
    BY <1>1, <2>2 DEF Served
<1>2. CASE ~junk
  <2>1. \A i \in Position + 1 .. Position + n : Content(version)[i] \in Block
    BY <1>0, <1>2, ContentType
  <2>2. /\ SubSeq(Content(version), Position + 1, Position + n) \in Seq(Block)
        /\ Len(SubSeq(Content(version), Position + 1, Position + n)) =
             IF Position + 1 <= Position + n THEN (Position + n) - (Position + 1) + 1 ELSE 0
    <3> HIDE DEF Position
    <3> QED
      BY <1>0, <2>1, SubSeqProperties
  <2> QED
    BY <1>0, <1>2, <2>2 DEF Served
<1> QED
  BY <1>1, <1>2

(* A write adds the first m blocks of the buffer to the file or to nothing.*)
LEMMA WrittenType ==
  ASSUME file \in Seq(Block), buf_ota \in Seq(Block), NEW m \in 0 .. Len(buf_ota)
  PROVE  /\ Written(m) \in Seq(Block)
         /\ m = 0 => Written(m) \in {file, <<>>}
         /\ m = Len(buf_ota) => Written(m) = SaveAt(downloaded_size, buf_ota)
<1>1. Len(buf_ota) \in Nat /\ m \in Nat
  BY LenProperties
<1>2. \A i \in 1 .. m : buf_ota[i] \in Block
  BY <1>1, ElementOfSeq
<1>3. /\ SubSeq(buf_ota, 1, m) \in Seq(Block)
      /\ Len(SubSeq(buf_ota, 1, m)) = IF 1 <= m THEN m - 1 + 1 ELSE 0
  BY <1>1, <1>2, SubSeqProperties
<1>4. Written(m) \in Seq(Block)
  BY <1>3, ConcatProperties, EmptySeq DEF Written, SaveAt
<1>5. ASSUME m = 0 PROVE Written(m) \in {file, <<>>}
  <2>1. SubSeq(buf_ota, 1, m) = <<>>
    BY <1>1, <1>3, <1>5, EmptySeq
  <2>2. file \o <<>> = file /\ <<>> \o <<>> = <<>>
    BY ConcatEmptySeq, EmptySeq
  <2> QED
    BY <2>1, <2>2 DEF Written, SaveAt
<1>6. ASSUME m = Len(buf_ota) PROVE Written(m) = SaveAt(downloaded_size, buf_ota)
  BY <1>6, SubSeqFull DEF Written
<1> QED
  BY <1>4, <1>5, <1>6

(* A range request starts where it is told to, also past the end.          *)
LEMMA RangeFromType ==
  ASSUME NEW offset \in Nat, version \in Image, NEW sent \in BOOLEAN
  PROVE  /\ [RangeFrom(offset) EXCEPT !.open = sent] \in SegType
         /\ RangeFrom(offset).offset - RangeFrom(offset).fetch_size = offset
         /\ RangeFrom(offset).fetched_size = 0
  BY OtaConstants DEF RangeFrom, SegType

LEMMA AdvanceType ==
  ASSUME NEW n \in Nat, NEW sent \in BOOLEAN, version \in Image, seg \in SegType
  PROVE  /\ Advance(n, sent) \in SegType
         /\ Advance(n, sent).offset - Advance(n, sent).fetch_size + Advance(n, sent).fetched_size
              = Position + n
<1> DEFINE got == [seg EXCEPT !.fetched_size = @ + n]
<1>1. /\ got \in SegType /\ got.offset = seg.offset /\ got.fetch_size = seg.fetch_size
      /\ got.fetched_size = seg.fetched_size + n /\ got.offset \in Nat
  BY DEF SegType
<1>2. CASE got.fetched_size # got.fetch_size \/ got.offset = Size[version]
  <2>1. Advance(n, sent) = got
    BY <1>2 DEF Advance
  <2> HIDE DEF got
  <2> QED
    BY <1>1, <2>1 DEF SegType, Position
<1>3. CASE ~(got.fetched_size # got.fetch_size \/ got.offset = Size[version])
  <2>1. Advance(n, sent) = [RangeFrom(got.offset) EXCEPT !.open = sent]
    BY <1>3 DEF Advance
  <2> HIDE DEF got
  <2>2. Position + n = got.offset
    BY <1>1, <1>3 DEF SegType, Position
  <2>3. /\ [RangeFrom(got.offset) EXCEPT !.open = sent] \in SegType
        /\ RangeFrom(got.offset).offset - RangeFrom(got.offset).fetch_size = got.offset
        /\ RangeFrom(got.offset).fetched_size = 0
    BY <1>1, RangeFromType
  <2>4. /\ [RangeFrom(got.offset) EXCEPT !.open = sent].offset = RangeFrom(got.offset).offset
        /\ [RangeFrom(got.offset) EXCEPT !.open = sent].fetch_size = RangeFrom(got.offset).fetch_size
        /\ [RangeFrom(got.offset) EXCEPT !.open = sent].fetched_size = 0
    BY <1>1, <2>3 DEF RangeFrom
  <2> QED
    BY <1>1, <2>1, <2>2, <2>3, <2>4 DEF SegType
<1> QED
  BY <1>2, <1>3

-----------------------------------------------------------------------------
(***************************************************************************)
(* Types.                                                                  *)
(***************************************************************************)
LEMMA NoSegType == NoSeg \in SegType
  BY DEF NoSeg, SegType

LEMMA InitTypeInv == Init => TypeInv
<1> SUFFICES ASSUME Init PROVE TypeInv
  OBVIOUS
<1>1. <<>> \in Seq(Block) /\ 0 \in 0 .. MAX_OTA_RETRY_CNT
  BY OtaConstants, EmptySeq
<1>2. seg \in SegType /\ connected \in BOOLEAN /\ upgrade_fetch_success \in BOOLEAN
  BY NoSegType DEF Init
<1>3. TypeOK
  BY <1>1, <1>2 DEF Init, TypeOK, Label, SegType
<1> QED
  BY <1>3 DEF Init, TypeInv, AttemptInv, SegInv, Download

LEMMA OffTypeInv ==
  ASSUME TypeInv, Off, UNCHANGED flash
  PROVE  TypeInv'
<1>1. TypeOK'
  <2>1. <<>> \in Seq(Block) /\ 0 \in 0 .. MAX_OTA_RETRY_CNT
    BY OtaConstants, EmptySeq
  <2>2. seg' \in SegType /\ connected' \in BOOLEAN /\ upgrade_fetch_success' \in BOOLEAN
    BY NoSegType DEF Off
  <2> QED
    BY <2>1, <2>2 DEF TypeInv, TypeOK, Off, flash, Label, SegType
<1> QED
  BY <1>1 DEF TypeInv, AttemptInv, SegInv, Download, Off

LEMMA NextTypeInv == TypeInv /\ [Next]_vars => TypeInv'
<1> SUFFICES ASSUME TypeInv, [Next]_vars PROVE TypeInv'
  OBVIOUS
<1> USE DEF TypeInv, AttemptInv, SegInv, Download
<1>0. /\ TypeOK /\ seg \in SegType /\ OTA_BUF_LEN \in Nat /\ MAX_OTA_RETRY_CNT \in Nat
      /\ ota_fail_cnt \in 0 .. MAX_OTA_RETRY_CNT
  BY OtaConstants DEF TypeOK, SegType
<1>1. CASE Boot
  BY <1>1 DEF Boot, TypeOK, Label, app, flash
<1>2. CASE MainYield
  BY <1>2 DEF MainYield, TypeOK, Label, ota, flash, Position
<1>3. CASE MainExit
  BY <1>3, OffTypeInv DEF MainExit
<1>4. ASSUME NEW ok \in BOOLEAN, ReportVersion(ok) PROVE TypeInv'
  BY <1>4 DEF ReportVersion, ResetStatus, TypeOK, Label, None, flash
<1>5. CASE WaitYield
  BY <1>5 DEF WaitYield, TypeOK, Label, ota, app, flash
<1>6. CASE NotFetching
  BY <1>6 DEF NotFetching, TypeOK, Label, ota, app, flash
<1>7. CASE Resume
  <2>1. /\ state = "FETCHING" /\ pc' \in {"check", "start"}
        /\ UNCHANGED <<state, version, size_fetched, seg, connected, buf_ota,
                       last_downloaded_size, ota_fail_cnt, upgrade_fetch_success, file>>
    BY <1>7 DEF Resume
  <2>2. downloaded_size' \in Nat /\ info' \in Nat
    BY <1>7 DEF Resume, TypeOK
  <2>3. md5' \in Seq(Block)
    <3>1. CASE info <= Len(file)
      <4>1. \A i \in 1 .. info : file[i] \in Block
        BY <3>1, ElementOfSeq, LenProperties DEF TypeOK
      <4>2. SubSeq(file, 1, info) \in Seq(Block)
        BY <4>1, SubSeqProperties DEF TypeOK
      <4> QED
        BY <1>7, <4>2 DEF Resume, TypeOK
    <3>2. CASE ~(info <= Len(file))
      BY <1>7, <3>2 DEF Resume, TypeOK
    <3> QED
      BY <3>1, <3>2
  <2> QED
    BY <2>1, <2>2, <2>3 DEF TypeOK, Label
<1>8. ASSUME NEW ok \in BOOLEAN, StartDownload(ok) PROVE TypeInv'
  <2>1. /\ pc = "start" /\ pc' = (IF ok THEN "fetch" ELSE "end") /\ size_fetched' = downloaded_size
        /\ upgrade_fetch_success' = ok /\ md5' = DigestAtStart
        /\ seg' = [RangeFrom(downloaded_size) EXCEPT !.open = ok]
        /\ UNCHANGED <<state, version, connected, buf_ota, downloaded_size, last_downloaded_size,
                       ota_fail_cnt, file, info>>
    BY <1>8 DEF StartDownload, flash
  <2>2. md5' \in Seq(Block)
    BY <2>1, EmptySeq DEF DigestAtStart, TypeOK
  <2>3. state = "FETCHING" /\ version \in Image /\ downloaded_size \in Nat
    BY <2>1 DEF TypeOK
  <2>4. /\ seg' \in SegType /\ seg'.offset - seg'.fetch_size = downloaded_size
        /\ seg'.fetched_size = 0
    <3>1. /\ seg'.offset = RangeFrom(downloaded_size).offset
          /\ seg'.fetch_size = RangeFrom(downloaded_size).fetch_size
          /\ seg'.fetched_size = RangeFrom(downloaded_size).fetched_size
      BY <2>1 DEF RangeFrom
    <3> QED
      BY <2>1, <2>3, <3>1, RangeFromType
  <2>5. Position' = size_fetched'
    BY <2>1, <2>3, <2>4 DEF Position, SegType
  <2> QED
    BY <2>1, <2>2, <2>3, <2>4, <2>5 DEF TypeOK, Label, SegType
<1>9. ASSUME NEW n \in 1 .. OTA_BUF_LEN, NEW junk \in BOOLEAN, NEW sent \in BOOLEAN,
             FetchBlocks(n, junk, sent)
      PROVE  TypeInv'
  <2>1. /\ pc = "fetch" /\ pc' = "save" /\ buf_ota' = Served(n, junk)
        /\ seg' = Advance(n, sent) /\ size_fetched' = size_fetched + n
        /\ state' \in {"FETCHED", state} /\ md5' = md5 \o buf_ota'
        /\ ~junk => Position + n <= Size[version]
        /\ UNCHANGED <<version, connected, downloaded_size, last_downloaded_size, ota_fail_cnt,
                       upgrade_fetch_success, file, info>>
    BY <1>9 DEF FetchBlocks, flash
  <2>2. version \in Image /\ state = "FETCHING" /\ Position = size_fetched /\ Position \in Nat
        /\ n \in Nat
    BY <1>0, <2>1 DEF TypeOK
  <2>3. buf_ota' \in Seq(Block)
    BY <2>1, <2>2, ServedType
  <2>4. md5' \in Seq(Block)
    BY <2>1, <2>3, ConcatProperties DEF TypeOK
  <2>5. seg' \in SegType /\ Position' = Position + n
    BY <1>0, <2>1, <2>2, AdvanceType DEF Position
  <2>6. Position' = size_fetched' /\ size_fetched' \in Nat
    BY <2>1, <2>2, <2>5 DEF TypeOK
  <2> QED
    BY <2>1, <2>2, <2>3, <2>4, <2>5, <2>6 DEF TypeOK, Label, SegType
<1>10. ASSUME NEW why \in {"nothing", "error", "refused"}, FetchFails(why) PROVE TypeInv'
  <2>1. seg' \in SegType
    BY <1>0, <1>10 DEF FetchFails, SegType
  <2>2. ota_fail_cnt' \in 0 .. MAX_OTA_RETRY_CNT
    BY <1>0, <1>10 DEF FetchFails
  <2>3. upgrade_fetch_success' = FALSE
    BY <1>10 DEF FetchFails
  <2>4. /\ pc = "fetch" /\ pc' = "end" /\ state' \in {state, "FETCHED"}
        /\ UNCHANGED <<version, size_fetched, md5, connected, buf_ota, downloaded_size,
                       last_downloaded_size, file, info>>
    BY <1>10 DEF FetchFails, flash
  <2> QED
    BY <2>1, <2>2, <2>3, <2>4 DEF TypeOK, Label, SegType
<1>11. ASSUME NEW m \in 0 .. Len(buf_ota), Save(m) \/ SaveFails(m) PROVE TypeInv'
  <2>1. Written(m) \in Seq(Block)
    BY WrittenType DEF TypeOK
  <2>2. /\ pc = "save" /\ pc' \in {"record", "end"} /\ file' \in Seq(Block) /\ buf_ota' = <<>>
        /\ UNCHANGED <<state, version, size_fetched, md5, seg, connected, downloaded_size,
                       last_downloaded_size, info>>
    BY <1>11, <2>1 DEF Save, SaveFails, ota, TypeOK
  <2>3. ota_fail_cnt' \in 0 .. MAX_OTA_RETRY_CNT
    BY <1>0, <1>11 DEF Save, SaveFails
  <2>4. upgrade_fetch_success' \in BOOLEAN
    BY <1>11 DEF Save, SaveFails, TypeOK
  <2> QED
    BY <2>2, <2>3, <2>4, EmptySeq DEF TypeOK, Label, Position
<1>12. ASSUME NEW ok \in BOOLEAN, OpenRecord(ok) PROVE TypeInv'
  BY <1>12 DEF OpenRecord, TypeOK, Label, ota, Position
<1>13. CASE WriteRecord
  BY <1>13 DEF WriteRecord, TypeOK, Label, ota, app, Position
<1>14. ASSUME NEW error \in BOOLEAN, YieldReturns(error) PROVE TypeInv'
  BY <1>14 DEF YieldReturns, TypeOK, Label, ota, flash, Position
<1>15. ASSUME NEW valid \in BOOLEAN, NEW ok \in BOOLEAN, CheckFirmware(valid, ok) PROVE TypeInv'
  BY <1>15 DEF CheckFirmware, ReportResult, ResetStatus, TypeOK, Label, None
<1>16. CASE Retry
  <2>1. FailCount \in 0 .. MAX_OTA_RETRY_CNT
    BY <1>0, <1>16 DEF Retry, FailCount
  <2> QED
    BY <1>16, <2>1 DEF Retry, TypeOK, Label, ota, flash
<1>17. ASSUME NEW ok \in BOOLEAN, ReportFail(ok) \/ ReportSuccess(ok) PROVE TypeInv'
  BY <1>0, <1>17 DEF ReportFail, ReportSuccess, ReportResult, ResetStatus, TypeOK, Label, None, flash
<1>18. CASE GiveUp \/ Return
  BY <1>18 DEF GiveUp, Return, TypeOK, Label, ota, app, flash
<1>19. ASSUME NEW message \in Image \cup {"refusal"}, CloudMessage(message) PROVE TypeInv'
  BY <1>19 DEF CloudMessage, Yielding, TypeOK, app, flash
<1>20. CASE LinkChanges
  BY <1>20 DEF LinkChanges, TypeOK, ota, app, flash, Position
<1>21. CASE Crash
  BY <1>21, OffTypeInv DEF Crash
<1>22. CASE UNCHANGED vars
  BY <1>22 DEF vars, TypeOK, ota, app, flash, Position
<1> QED
  BY <1>1, <1>2, <1>3, <1>4, <1>5, <1>6, <1>7, <1>8, <1>9, <1>10, <1>11, <1>12, <1>13, <1>14,
     <1>15, <1>16, <1>17, <1>18, <1>19, <1>20, <1>21, <1>22 DEF Next, Step

(* Every variable keeps its type, whatever fails: the number of blocks a   *)
(* fetch returns and the offsets of the range requests included.           *)
THEOREM OtaTypeCorrect == Spec => []TypeOK
<1>1. TypeInv => TypeOK
  BY DEF TypeInv
<1> QED
  BY <1>1, InitTypeInv, NextTypeInv, PTL DEF Spec

-----------------------------------------------------------------------------
(***************************************************************************)
(* The digest and the file.                                                *)
(***************************************************************************)
(* The progress record is written whenever the file has grown, nothing     *)
(* stops the device between the two, and a write is all or nothing.        *)
RecordKept == {"crash_behind", "record_fails", "partial_write"} \cap Adversity = {}

(* What the record says is the length of the file, unless the file was     *)
(* emptied for a new download whose first block could not be saved.        *)
RecordInv == pc # "record" => info = 0 \/ info = Len(file) \/ file = <<>>

(* The digest covers the file, at every point of an attempt.               *)
DigestInv ==
    /\ pc = "start" => downloaded_size = 0 \/ (md5 = file /\ downloaded_size = Len(file))
    /\ InStep
    /\ pc = "save" => /\ md5 = SaveAt(downloaded_size, buf_ota)
                      /\ Len(md5) = size_fetched /\ size_fetched > 0
    /\ pc \in {"record", "write", "yield"} =>
          file = md5 /\ Len(file) = size_fetched /\ size_fetched > 0
    /\ pc \in {"write", "yield"} => downloaded_size = size_fetched
    /\ pc = "check" /\ state = "FETCHED" => file = md5

OtaInv == TypeInv /\ RecordInv /\ DigestInv

LEMMA InitOtaInv == Init => OtaInv
  BY InitTypeInv DEF Init, OtaInv, RecordInv, DigestInv, InStep

(* A step outside an attempt, or one that ends it.                         *)
LEMMA AttemptOver ==
  ASSUME RecordInv, pc # "record", pc' \notin {"start", "fetch", "save", "record", "write", "yield", "check"},
         UNCHANGED file \/ file' = <<>>, info' \in {0, info}
  PROVE  RecordInv' /\ DigestInv'
  BY DEF RecordInv, DigestInv, InStep

LEMMA NextOtaInv ==
  ASSUME RecordKept, OtaInv, [Next]_vars
  PROVE  OtaInv'
<1> SUFFICES RecordInv' /\ DigestInv'
  BY NextTypeInv DEF OtaInv
<1>0. /\ TypeOK /\ AttemptInv /\ SegInv /\ RecordInv /\ DigestInv
      /\ file \in Seq(Block) /\ md5 \in Seq(Block) /\ buf_ota \in Seq(Block)
      /\ Len(file) \in Nat /\ Len(md5) \in Nat /\ Len(buf_ota) \in Nat
      /\ info \in Nat /\ downloaded_size \in Nat /\ size_fetched \in Nat
  BY LenProperties DEF OtaInv, TypeInv, TypeOK
<1>e. ASSUME NEW s \in Seq(Block) PROVE s \o <<>> = s /\ <<>> \o s = s
  BY <1>e, ConcatEmptySeq
<1>1. CASE \/ Boot \/ MainYield \/ MainExit \/ WaitYield \/ NotFetching \/ GiveUp \/ Return
           \/ Retry
  BY <1>0, <1>1, AttemptOver DEF Boot, MainYield, MainExit, WaitYield, NotFetching, GiveUp,
                                 Return, Retry, Off, flash
<1>2. ASSUME NEW ok \in BOOLEAN, ReportVersion(ok) \/ ReportFail(ok) \/ ReportSuccess(ok)
      PROVE  RecordInv' /\ DigestInv'
  BY <1>0, <1>2, AttemptOver DEF ReportVersion, ReportFail, ReportSuccess, flash
<1>3. CASE Resume
  <2>1. /\ pc = "begin" /\ state = "FETCHING" /\ pc' \in {"check", "start"}
        /\ downloaded_size' = (IF Resumable /\ info <= Len(file) THEN info ELSE 0)
        /\ md5' = (IF ~Resumable THEN md5
                   ELSE IF info <= Len(file) THEN SubSeq(file, 1, info) ELSE file)
        /\ info' \in {0, info} /\ UNCHANGED <<state, file>>
    BY <1>3 DEF Resume
  <2>2. RecordInv'
    BY <1>0, <2>1 DEF RecordInv
  <2>3. downloaded_size' = 0 \/ (md5' = file /\ downloaded_size' = Len(file))
    <3>1. CASE Resumable /\ info <= Len(file)
      <4>1. info = Len(file)
        BY <1>0, <2>1, <3>1, EmptySeq DEF Resumable, RecordInv
      <4>2. SubSeq(file, 1, Len(file)) = file
        BY <1>0, SubSeqFull
      <4> QED
        BY <2>1, <3>1, <4>1, <4>2
    <3>2. CASE ~(Resumable /\ info <= Len(file))
      BY <2>1, <3>2
    <3> QED
      BY <3>1, <3>2
  <2> QED
    BY <2>1, <2>2, <2>3 DEF DigestInv, InStep
<1>4. ASSUME NEW ok \in BOOLEAN, StartDownload(ok) PROVE RecordInv' /\ DigestInv'
  <2>1. /\ pc = "start" /\ pc' = (IF ok THEN "fetch" ELSE "end") /\ size_fetched' = downloaded_size
        /\ md5' = DigestAtStart /\ UNCHANGED <<downloaded_size, file, info>>
    BY <1>4 DEF StartDownload, flash
  <2>2. RecordInv'
    BY <1>0, <2>1 DEF RecordInv
  <2>3. md5' = SaveAt(downloaded_size, <<>>) /\ Len(md5') = downloaded_size
    <3>1. CASE downloaded_size = 0
      BY <1>e, <2>1, <3>1, EmptySeq DEF DigestAtStart, SaveAt
    <3>2. CASE downloaded_size # 0
      BY <1>0, <1>e, <2>1, <3>2 DEF DigestInv, DigestAtStart, SaveAt
    <3> QED
      BY <3>1, <3>2
  <2>4. (SegInv)'
    BY NextTypeInv DEF OtaInv, TypeInv
  <2>5. pc' = "fetch" => /\ SaveAt(downloaded_size, <<>>)' = SaveAt(downloaded_size, <<>>)
                         /\ Position' = downloaded_size
    BY <2>1, <2>4 DEF SaveAt, SegInv, Download
  <2> QED
    BY <2>1, <2>2, <2>3, <2>5 DEF DigestInv, InStep
<1>5. ASSUME NEW n \in 1 .. OTA_BUF_LEN, NEW junk \in BOOLEAN, NEW sent \in BOOLEAN,
             FetchBlocks(n, junk, sent)
      PROVE  RecordInv' /\ DigestInv'
  <2>1. /\ pc = "fetch" /\ pc' = "save" /\ buf_ota' = Served(n, junk)
        /\ size_fetched' = size_fetched + n /\ md5' = md5 \o buf_ota'
        /\ ~junk => Position + n <= Size[version]
        /\ UNCHANGED <<downloaded_size, file, info>>
    BY <1>5 DEF FetchBlocks, flash
  <2>2. /\ version \in Image /\ Position = size_fetched /\ n \in Nat \ {0}
        /\ size_fetched = downloaded_size /\ Len(md5) = downloaded_size
        /\ md5 = SaveAt(downloaded_size, <<>>)
    BY <1>0, <2>1, OtaConstants DEF AttemptInv, SegInv, Download, DigestInv, InStep
  <2>3. buf_ota' \in Seq(Block) /\ Len(buf_ota') = n
    BY <1>0, <2>1, <2>2, ServedType
  <2>4. Len(md5') = size_fetched' /\ size_fetched' > 0
    <3>1. Len(md5 \o buf_ota') = Len(md5) + Len(buf_ota')
      BY <1>0, <2>3, ConcatProperties
    <3> QED
      BY <1>0, <2>1, <2>2, <2>3, <3>1
  <2>5. md5' = SaveAt(downloaded_size, buf_ota')
    BY <1>0, <1>e, <2>1, <2>2, <2>3, EmptySeq DEF SaveAt
  <2>6. SaveAt(downloaded_size, buf_ota)' = SaveAt(downloaded_size, buf_ota')
    BY <2>1 DEF SaveAt
  <2> QED
    BY <1>0, <2>1, <2>4, <2>5, <2>6 DEF RecordInv, DigestInv, InStep
<1>6. ASSUME NEW why \in {"nothing", "error", "refused"}, FetchFails(why)
      PROVE  RecordInv' /\ DigestInv'
  BY <1>0, <1>6, AttemptOver DEF FetchFails, flash
<1>7. ASSUME NEW m \in 0 .. Len(buf_ota), Save(m) PROVE RecordInv' /\ DigestInv'
  <2>1. m = Len(buf_ota) /\ file' = Written(m) /\ pc = "save" /\ pc' = "record"
        /\ UNCHANGED <<md5, size_fetched>>
    BY <1>7 DEF Save, RecordKept, ota
  <2>2. file' = SaveAt(downloaded_size, buf_ota)
    BY <1>0, <1>7, <2>1, WrittenType
  <2> QED
    BY <1>0, <2>1, <2>2 DEF RecordInv, DigestInv, InStep
<1>8. ASSUME NEW m \in 0 .. Len(buf_ota), SaveFails(m) PROVE RecordInv' /\ DigestInv'
  <2>1. m = 0 /\ file' \in {file, Written(m)} /\ pc = "save" /\ pc' = "end" /\ UNCHANGED info
    BY <1>8 DEF SaveFails, RecordKept
  <2>2. Written(m) \in {file, <<>>}
    BY <1>0, <1>8, <2>1, WrittenType
  <2> QED
    BY <1>0, <2>1, <2>2, AttemptOver
<1>9. ASSUME NEW ok \in BOOLEAN, OpenRecord(ok) PROVE RecordInv' /\ DigestInv'
  <2>1. /\ pc = "record" /\ pc' = "write" /\ downloaded_size' = size_fetched /\ info' = 0
        /\ UNCHANGED <<file, md5, size_fetched>>
    BY <1>9 DEF OpenRecord, RecordKept, ota
  <2> QED
    BY <1>0, <2>1 DEF RecordInv, DigestInv, InStep
<1>10. CASE WriteRecord
  <2>1. /\ pc = "write" /\ pc' = "yield" /\ info' \in {0, downloaded_size}
        /\ UNCHANGED <<file, md5, size_fetched, downloaded_size>>
    BY <1>10 DEF WriteRecord, ota, app
  <2> QED
    BY <1>0, <2>1 DEF RecordInv, DigestInv, InStep
<1>11. ASSUME NEW error \in BOOLEAN, YieldReturns(error) PROVE RecordInv' /\ DigestInv'
  <2>1. /\ pc = "yield" /\ pc' \in {"end", "check", "fetch"}
        /\ UNCHANGED <<file, info, md5, size_fetched, seg, downloaded_size>>
    BY <1>11 DEF YieldReturns, ota, flash
  <2>2. RecordInv'
    BY <1>0, <2>1 DEF RecordInv
  <2>3. /\ file = md5 /\ Len(file) = size_fetched /\ size_fetched > 0
        /\ downloaded_size = size_fetched /\ Position = size_fetched
    BY <1>0, <2>1 DEF DigestInv, SegInv, Download
  <2>4. SaveAt(downloaded_size, <<>>)' = file /\ Position' = Position
    BY <1>0, <1>e, <2>1, <2>3 DEF SaveAt, Position
  <2> QED
    BY <2>1, <2>2, <2>3, <2>4 DEF DigestInv, InStep
<1>12. ASSUME NEW valid \in BOOLEAN, NEW ok \in BOOLEAN, CheckFirmware(valid, ok)
       PROVE  RecordInv' /\ DigestInv'
  BY <1>0, <1>12, AttemptOver DEF CheckFirmware
<1>13. CASE Crash
  <2>1. pc' = "off" /\ UNCHANGED <<file, info>> /\ (pc = "record" => info = 0)
    BY <1>13 DEF Crash, Off, RecordBehind, RecordKept, flash
  <2> QED
    BY <1>0, <2>1 DEF RecordInv, DigestInv, InStep
<1>14. ASSUME NEW message \in Image \cup {"refusal"}, CloudMessage(message)
       PROVE  RecordInv' /\ DigestInv'
  <2>1. pc \in {"main", "wait", "ack"} /\ UNCHANGED <<pc, file, info>>
    BY <1>0, <1>14 DEF CloudMessage, Yielding, AttemptInv, flash
  <2> QED
    BY <1>0, <2>1, AttemptOver
<1>15. CASE LinkChanges \/ UNCHANGED vars
  <2>1. UNCHANGED <<ota, pc, app, flash>>
    BY <1>15 DEF LinkChanges, vars
  <2> QED
    BY <1>0, <2>1 DEF RecordInv, DigestInv, InStep, SaveAt, Position, ota, app, flash
<1> QED
  BY <1>1, <1>2, <1>3, <1>4, <1>5, <1>6, <1>7, <1>8, <1>9, <1>10, <1>11, <1>12, <1>13, <1>14,
     <1>15 DEF Next, Step

(* Before every fetch digest, file, counters and the range asked for agree *)
(* on how much of the image there is, for images of any size and after any *)
(* number of failed attempts, restarts and republished images, as long as  *)
(* the progress record keeps up with the file (OtaUpgrade_resume.cfg shows *)
(* what a power failure between the two does) and a write that fails has   *)
(* left no part of its blocks behind.                                      *)
THEOREM DownloadInStep ==
  ASSUME RecordKept
  PROVE  Spec => []InStep
<1>1. OtaInv => InStep
  BY DEF OtaInv, DigestInv
<1>2. OtaInv /\ [Next]_vars => OtaInv'
  BY NextOtaInv
<1> QED
  BY <1>1, <1>2, InitOtaInv, PTL DEF Spec

LEMMA NextVerified ==
  ASSUME "lucky_stack" \notin Adversity, OtaInv, VerifiedIsImage, [Next]_vars
  PROVE  VerifiedIsImage'
<1>1. ASSUME NEW valid \in BOOLEAN, NEW ok \in BOOLEAN, CheckFirmware(valid, ok)
      PROVE  VerifiedIsImage'
  <2>1. /\ pc = "check" /\ upgrade_fetch_success' = valid /\ UNCHANGED file
        /\ valid => state = "FETCHED" /\ md5 = Content(version) /\ UNCHANGED version
    BY <1>1 DEF CheckFirmware, DigestMatches
  <2>2. state = "FETCHED" => file = md5
    BY <2>1 DEF OtaInv, DigestInv
  <2>3. CASE valid
    BY <2>1, <2>2, <2>3 DEF VerifiedIsImage, Content
  <2>4. CASE ~valid
    BY <2>1, <2>4 DEF VerifiedIsImage
  <2> QED
    BY <2>3, <2>4
<1>2. CASE \/ Boot \/ MainYield \/ MainExit \/ WaitYield \/ NotFetching \/ Resume
           \/ WriteRecord \/ Retry \/ GiveUp \/ Return \/ Crash
           \/ \E m \in 0 .. Len(buf_ota) : Save(m) \/ SaveFails(m)
  BY <1>2 DEF VerifiedIsImage, Boot, MainYield, MainExit, WaitYield, NotFetching, Resume, Save,
              SaveFails, WriteRecord, Retry, GiveUp, Return, Crash, Off
<1>3. ASSUME NEW ok \in BOOLEAN, \/ ReportVersion(ok) \/ StartDownload(ok) \/ OpenRecord(ok)
                                 \/ YieldReturns(ok) \/ ReportFail(ok) \/ ReportSuccess(ok)
      PROVE  VerifiedIsImage'
  BY <1>3 DEF VerifiedIsImage, ReportVersion, StartDownload, OpenRecord, YieldReturns,
              ReportFail, ReportSuccess
<1>4. ASSUME NEW n \in 1 .. OTA_BUF_LEN, NEW junk \in BOOLEAN, NEW sent \in BOOLEAN,
             FetchBlocks(n, junk, sent)
      PROVE  VerifiedIsImage'
  BY <1>4 DEF VerifiedIsImage, FetchBlocks
<1>5. ASSUME NEW why \in {"nothing", "error", "refused"}, FetchFails(why)
      PROVE  VerifiedIsImage'
  BY <1>5 DEF VerifiedIsImage, FetchFails
<1>6. ASSUME NEW message \in Image \cup {"refusal"}, CloudMessage(message)
      PROVE  VerifiedIsImage'
  BY <1>6 DEF VerifiedIsImage, CloudMessage, Yielding
<1>7. CASE LinkChanges \/ UNCHANGED vars
  <2>1. UNCHANGED <<pc, version, file, upgrade_fetch_success>>
    BY <1>7 DEF LinkChanges, vars, ota, app, flash
  <2> QED
    BY <2>1 DEF VerifiedIsImage, Content
<1> QED
  BY <1>1, <1>2, <1>3, <1>4, <1>5, <1>6, <1>7 DEF Next, Step

(* An upgrade is reported as successful only if the file holds the         *)
(* announced image, block for block, whatever the server sent.  Besides    *)
(* the progress record and whole writes this rests on firmware_valid,      *)
(* which process_ota does not initialise, being 0 when the check of the    *)
(* digest is refused.                                                      *)
THEOREM VerifiedImage ==
  ASSUME RecordKept, "lucky_stack" \notin Adversity
  PROVE  Spec => []VerifiedIsImage
<1>1. Init => VerifiedIsImage
  BY DEF Init, VerifiedIsImage
<1>2. OtaInv /\ VerifiedIsImage /\ [Next]_vars => (OtaInv /\ VerifiedIsImage)'
  BY NextOtaInv, NextVerified
<1> QED
  BY <1>1, <1>2, InitOtaInv, PTL DEF Spec

=============================================================================
