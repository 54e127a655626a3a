--------------------------- MODULE Gateway_proofs ---------------------------
(***************************************************************************)
(* Theorems about Gateway for every number of threads, sub-devices, calls  *)
(* and notices, and whatever names are prefixes of each other.             *)
(***************************************************************************)
EXTENDS Gateway, Integers, SequenceTheorems, FiniteSetTheorems, WellFoundedInduction, TLAPS

Subject == [kind : Kind \ {"list"}, device : Device] \cup {NoCall}
Change  == {"change_bind", "change_unbind"}
Request == [call : Subject, by : Caller]
Message == [type : Kind \cup Change \cup {"unbind_all", "search", "describe"},
            device : Device \cup {NoDevice}, result : {"ok", "refused"},
            by : Caller \cup {"none"}]

TypeInv ==
    /\ up \in BOOLEAN /\ session \in [Device -> {"none", "init", "online"}]
    /\ bind_list \in Seq(Device)
    /\ slot \in [Kind -> [client_id : Device \cup {NoDevice}, result : Result]]
    /\ pc \in [Caller -> {"idle", "publish", "wait", "finish"}]
    /\ call \in [Caller -> Subject]
    /\ rc \in [Caller -> {"ok", "refused", "timeout", "failed"}]
    /\ held \in [Caller -> {"none", "live", "freed"}] /\ in_list \subseteq Caller
    /\ verdict \in [Caller -> {"none", "ok", "refused"}]
    /\ requests \in Seq(Request) /\ messages \in Seq(Message)
    /\ online \subseteq Device /\ bound \subseteq Device

(* What the cloud says by itself has other types than its answers.         *)
MessageInv ==
    \A i \in DOMAIN messages :
        /\ messages[i].by = "none" <=> messages[i].type \notin Kind
        /\ messages[i].type \in Change => messages[i].device \in Device

-----------------------------------------------------------------------------
(***************************************************************************)
(* Sequences.                                                              *)
(***************************************************************************)
LEMMA AppendElements ==
  ASSUME NEW S, NEW s \in Seq(S), NEW e \in S
  PROVE  /\ Append(s, e) \in Seq(S)
         /\ DOMAIN s = 1 .. Len(s) /\ Len(s) \in Nat /\ Len(Append(s, e)) = Len(s) + 1
         /\ DOMAIN Append(s, e) = 1 .. Len(s) + 1
         /\ \A i \in 1 .. Len(s) : Append(s, e)[i] = s[i]
         /\ Append(s, e)[Len(s) + 1] = e
  BY AppendProperties, LenProperties

LEMMA TailElements ==
  ASSUME NEW S, NEW s \in Seq(S), s # <<>>
  PROVE  /\ Tail(s) \in Seq(S) /\ Head(s) \in S
         /\ Head(s) = s[1] /\ 1 \in DOMAIN s
         /\ DOMAIN s = 1 .. Len(s) /\ DOMAIN Tail(s) = 1 .. Len(s) - 1 /\ Len(s) \in Nat \ {0}
         /\ \A i \in DOMAIN Tail(s) : i + 1 \in DOMAIN s /\ Tail(s)[i] = s[i + 1]
         /\ \A i \in DOMAIN s : i = 1 \/ (i - 1 \in DOMAIN Tail(s) /\ Tail(s)[i - 1] = s[i])
<1>1. Len(s) \in Nat \ {0} /\ DOMAIN s = 1 .. Len(s)
  BY EmptySeq, LenProperties
<1>2. Tail(s) \in Seq(S) /\ Head(s) \in S /\ Len(Tail(s)) = Len(s) - 1
      /\ \A i \in 1 .. Len(Tail(s)) : Tail(s)[i] = s[i + 1]
  BY HeadTailProperties
<1>3. DOMAIN Tail(s) = 1 .. Len(Tail(s))
  BY <1>2, LenProperties
<1>4. \A i \in DOMAIN s : i = 1 \/ (i - 1 \in DOMAIN Tail(s) /\ Tail(s)[i - 1] = s[i])
  <2> SUFFICES ASSUME NEW i \in DOMAIN s, i # 1
               PROVE  i - 1 \in DOMAIN Tail(s) /\ Tail(s)[i - 1] = s[i]
    OBVIOUS
  <2>1. i - 1 \in 1 .. Len(Tail(s)) /\ (i - 1) + 1 = i
    BY <1>1, <1>2
  <2> QED
    BY <1>2, <1>3, <2>1
<1> QED
  BY <1>1, <1>2, <1>3, <1>4

(* Where element k of the sequence without element i was.                  *)
Before(k, i) == IF k < i THEN k ELSE k + 1

LEMMA RemoveAtElements ==
  ASSUME NEW S, NEW s \in Seq(S), NEW i \in DOMAIN s
  PROVE  /\ RemoveAt(s, i) \in Seq(S) /\ DOMAIN s = 1 .. Len(s) /\ Len(s) \in Nat \ {0}
         /\ Len(RemoveAt(s, i)) = Len(s) - 1
         /\ DOMAIN RemoveAt(s, i) = 1 .. Len(s) - 1
         /\ \A k \in 1 .. Len(s) - 1 : RemoveAt(s, i)[k] = s[Before(k, i)]
<1> DEFINE l == SubSeq(s, 1, i - 1)
           r == SubSeq(s, i + 1, Len(s))
<1>1. DOMAIN s = 1 .. Len(s) /\ Len(s) \in Nat \ {0} /\ i \in 1 .. Len(s)
      /\ \A k \in 1 .. Len(s) : s[k] \in S
  BY LenProperties, ElementOfSeq
<1>2. l \in Seq(S) /\ Len(l) = i - 1 /\ \A k \in 1 .. i - 1 : l[k] = s[k]
  <2>1. /\ l \in Seq(S) /\ Len(l) = (IF 1 <= i - 1 THEN (i - 1) - 1 + 1 ELSE 0)
        /\ \A k \in 1 .. (i - 1) - 1 + 1 : l[k] = s[1 + k - 1]
    BY <1>1, SubSeqProperties
  <2> HIDE DEF l
  <2> QED
    BY <1>1, <2>1
<1>3. r \in Seq(S) /\ Len(r) = Len(s) - i /\ \A k \in 1 .. Len(s) - i : r[k] = s[i + k]
  <2>1. /\ r \in Seq(S) /\ Len(r) = (IF i + 1 <= Len(s) THEN Len(s) - (i + 1) + 1 ELSE 0)
        /\ \A k \in 1 .. Len(s) - (i + 1) + 1 : r[k] = s[(i + 1) + k - 1]
    BY SMTT(30), <1>1, SubSeqProperties
  <2> HIDE DEF r
  <2>2. ASSUME NEW k \in 1 .. Len(s) - i PROVE r[k] = s[i + k]
    <3>1. k \in 1 .. Len(s) - (i + 1) + 1 /\ (i + 1) + k - 1 = i + k
      BY <1>1
    <3> QED
      BY <2>1, <3>1
  <2> QED
    BY <1>1, <2>1, <2>2
<1> HIDE DEF l, r
<1>4. /\ l \o r \in Seq(S) /\ Len(l \o r) = Len(l) + Len(r)
      /\ \A k \in 1 .. Len(l) + Len(r) :
            (l \o r)[k] = IF k <= Len(l) THEN l[k] ELSE r[k - Len(l)]
  BY <1>2, <1>3, ConcatProperties
<1>5. RemoveAt(s, i) = l \o r
  BY DEF RemoveAt, l, r
<1>6. Len(l \o r) = Len(s) - 1 /\ DOMAIN (l \o r) = 1 .. Len(s) - 1
  <2>1. Len(l \o r) = Len(s) - 1
    BY <1>1, <1>2, <1>3, <1>4
  <2>2. DOMAIN (l \o r) = 1 .. Len(l \o r)
    BY <1>4, LenProperties
  <2> QED
    BY <2>1, <2>2
<1>7. ASSUME NEW k \in 1 .. Len(s) - 1 PROVE (l \o r)[k] = s[Before(k, i)]
  <2>1. CASE k < i
    BY SMTT(30), <1>1, <1>2, <1>3, <1>4, <2>1 DEF Before
  <2>2. CASE ~(k < i)
    <3>1. (l \o r)[k] = r[k - (i - 1)] /\ k - (i - 1) \in 1 .. Len(s) - i
      BY SMTT(30), <1>1, <1>2, <1>3, <1>4, <2>2
    <3>2. i + (k - (i - 1)) = k + 1
      BY <1>1
    <3> QED
      BY <1>3, <2>2, <3>1, <3>2 DEF Before
  <2> QED
    BY <2>1, <2>2
<1> QED
  BY <1>1, <1>4, <1>5, <1>6, <1>7

LEMMA LeastOf ==
  ASSUME NEW S \in SUBSET Nat, S # {}
  PROVE  \E m \in S : \A k \in S : m <= k
<1> DEFINE R == {p \in Nat \X Nat : p[1] < p[2]}
<1>1. IsWellFoundedOn(R, Nat)
  BY NatLessThanWellFounded, Zenon DEF OpToRel
<1> HIDE DEF R
<1>2. \E m \in S : \A k \in S : <<k, m>> \notin R
  BY <1>1, WFMin
<1>3. \A m, k \in Nat : k < m => <<k, m>> \in R
  BY DEF R
<1>4. \A m, k \in Nat : ~(k < m) => m <= k
  OBVIOUS
<1> QED
  BY <1>2, <1>3, <1>4

(***************************************************************************)
(* The bind list.                                                          *)
(***************************************************************************)
Once(s) == \A i, j \in DOMAIN s : s[i] = s[j] => i = j

LEMMA InFront ==
  ASSUME NEW S, NEW s \in Seq(S), NEW d \in S
  PROVE  /\ <<d>> \o s \in Seq(S)
         /\ Range(<<d>> \o s) = Range(s) \cup {d}
         /\ Once(s) /\ d \notin Range(s) => Once(<<d>> \o s)
<1> DEFINE r == <<d>> \o s
<1>1. <<d>> \in Seq(S) /\ Len(<<d>>) = 1 /\ <<d>>[1] = d
  OBVIOUS
<1>2. /\ r \in Seq(S) /\ Len(r) = 1 + Len(s)
      /\ \A k \in 1 .. 1 + Len(s) : r[k] = IF k <= 1 THEN <<d>>[k] ELSE s[k - 1]
  BY <1>1, ConcatProperties
<1>3. DOMAIN s = 1 .. Len(s) /\ Len(s) \in Nat /\ DOMAIN r = 1 .. Len(r)
  BY <1>2, LenProperties
<1> HIDE DEF r
<1>4. /\ r[1] = d /\ 1 \in DOMAIN r
      /\ \A k \in DOMAIN r : k = 1 \/ (k - 1 \in DOMAIN s /\ r[k] = s[k - 1])
      /\ \A k \in DOMAIN s : k + 1 \in DOMAIN r /\ r[k + 1] = s[k]
  <2>1. r[1] = d /\ 1 \in DOMAIN r
    BY <1>1, <1>2, <1>3
  <2>2. \A k \in DOMAIN r : k = 1 \/ (k - 1 \in DOMAIN s /\ r[k] = s[k - 1])
    BY <1>2, <1>3
  <2>3. \A k \in DOMAIN s : k + 1 \in DOMAIN r /\ (k + 1) - 1 = k /\ ~(k + 1 <= 1)
    BY <1>2, <1>3
  <2>4. \A k \in DOMAIN s : r[k + 1] = s[k]
    BY <1>2, <1>3, <2>3
  <2> QED
    BY <2>1, <2>2, <2>3, <2>4
<1>5. Range(r) = Range(s) \cup {d}
  <2>1. ASSUME NEW x \in Range(r) PROVE x \in Range(s) \cup {d}
    <3>1. PICK k \in DOMAIN r : x = r[k]
      BY DEF Range
    <3> QED
      BY <1>4, <3>1 DEF Range
  <2>2. ASSUME NEW x \in Range(s) PROVE x \in Range(r)
    <3>1. PICK k \in DOMAIN s : x = s[k]
      BY DEF Range
    <3>2. k + 1 \in DOMAIN r /\ x = r[k + 1]
      BY <1>4, <3>1
    <3> QED
      BY <3>2, Zenon DEF Range
  <2>3. d \in Range(r)
    BY <1>4 DEF Range
  <2> QED
    BY <2>1, <2>2, <2>3
<1>6. ASSUME Once(s), d \notin Range(s) PROVE Once(r)
  <2> SUFFICES ASSUME NEW i \in DOMAIN r, NEW j \in DOMAIN r, r[i] = r[j] PROVE i = j
    BY DEF Once
  <2>1. \A k \in DOMAIN s : s[k] # d
    BY <1>6 DEF Range
  <2>2. CASE i = 1 \/ j = 1
    BY <1>4, <2>1, <2>2
  <2>3. CASE i # 1 /\ j # 1
    <3>1. i - 1 \in DOMAIN s /\ j - 1 \in DOMAIN s /\ s[i - 1] = s[j - 1]
      BY <1>4, <2>3
    <3>2. i - 1 = j - 1
      BY <1>6, <3>1 DEF Once
    <3> QED
      BY <1>2, <1>3, <3>2
  <2> QED
    BY <2>2, <2>3
<1> QED
  BY <1>2, <1>5, <1>6 DEF r

LEMMA Without ==
  ASSUME NEW S, NEW s \in Seq(S), NEW n \in DOMAIN s
  PROVE  /\ RemoveAt(s, n) \in Seq(S)
         /\ Once(s) => Once(RemoveAt(s, n)) /\ Range(RemoveAt(s, n)) \subseteq Range(s) \ {s[n]}
<1> DEFINE r == RemoveAt(s, n)
<1>1. /\ r \in Seq(S) /\ DOMAIN s = 1 .. Len(s) /\ Len(s) \in Nat \ {0}
      /\ DOMAIN r = 1 .. Len(s) - 1
      /\ \A k \in 1 .. Len(s) - 1 : r[k] = s[Before(k, n)]
  BY RemoveAtElements
<1> HIDE DEF r
<1>2. /\ \A k \in DOMAIN r : Before(k, n) \in DOMAIN s /\ Before(k, n) # n /\ r[k] = s[Before(k, n)]
      /\ \A k, l \in DOMAIN r : Before(k, n) = Before(l, n) => k = l
  BY <1>1 DEF Before
<1>3. ASSUME Once(s) PROVE Once(r) /\ Range(r) \subseteq Range(s) \ {s[n]}
  <2>1. Once(r)
    BY <1>2, <1>3 DEF Once
  <2>2. \A k \in DOMAIN r : r[k] \in Range(s) /\ r[k] # s[n]
    BY <1>2, <1>3 DEF Once, Range
  <2> QED
    BY <2>1, <2>2 DEF Range
<1> QED
  BY <1>1, <1>3 DEF r

LEMMA ListChanges ==
  ASSUME bind_list \in Seq(Device), NEW type, NEW d, type \in Change => d \in Device
  PROVE  /\ ListAfter(type, d) \in Seq(Device)
         /\ type = "change_bind" => Range(ListAfter(type, d)) = Range(bind_list) \cup {d}
         /\ type = "change_unbind" /\ Once(bind_list) =>
               Range(ListAfter(type, d)) \subseteq Range(bind_list) \ {d}
         /\ type \notin Change => ListAfter(type, d) = bind_list
         /\ Once(bind_list) /\ (type = "change_bind" => d \notin Range(bind_list)) =>
               Once(ListAfter(type, d))
<1>1. CASE type = "change_bind"
  <2>1. ListAfter(type, d) = <<d>> \o bind_list /\ d \in Device
    BY <1>1 DEF ListAfter, Change
  <2>2. /\ <<d>> \o bind_list \in Seq(Device)
        /\ Range(<<d>> \o bind_list) = Range(bind_list) \cup {d}
        /\ Once(bind_list) /\ d \notin Range(bind_list) => Once(<<d>> \o bind_list)
    BY <2>1, InFront
  <2> QED
    BY <1>1, <2>1, <2>2, Zenon DEF Change
<1>2. CASE type = "change_unbind" /\ Contains(bind_list, d)
  <2> DEFINE First(n) == bind_list[n] = d /\ \A k \in 1 .. n - 1 : bind_list[k] # d
             n == CHOOSE x \in DOMAIN bind_list : First(x)
             P == {x \in DOMAIN bind_list : bind_list[x] = d}
  <2>1. DOMAIN bind_list = 1 .. Len(bind_list) /\ Len(bind_list) \in Nat
    BY LenProperties
  <2>2. P \in SUBSET Nat /\ P # {}
    BY <1>2, <2>1 DEF Contains
  <2>3. PICK m \in P : \A k \in P : m <= k
    BY <2>2, LeastOf
  <2>4. \A k \in 1 .. m - 1 : k \in DOMAIN bind_list /\ ~(m <= k)
    BY <2>1, <2>3
  <2>5. m \in DOMAIN bind_list /\ First(m)
    BY <2>3, <2>4
  <2>6. n \in DOMAIN bind_list /\ First(n)
    <3> HIDE DEF First
    <3> QED
      BY <2>5, Zenon
  <2>7. bind_list[n] = d
    BY <2>6
  <2>8. ListAfter(type, d) = RemoveAt(bind_list, n)
    BY <1>2 DEF ListAfter
  <2> HIDE DEF n
  <2> QED
    BY <1>2, <2>6, <2>7, <2>8, Without DEF Change
<1>3. CASE type = "change_unbind" /\ ~Contains(bind_list, d)
  <2>1. d \notin Range(bind_list)
    <3>1. DOMAIN bind_list = 1 .. Len(bind_list)
      BY LenProperties
    <3> QED
      BY <1>3, <3>1 DEF Contains, Range
  <2>2. ListAfter(type, d) = bind_list
    BY <1>3 DEF ListAfter
  <2> QED
    BY <1>3, <2>1, <2>2 DEF Change
<1>4. CASE type \notin Change
  BY <1>4 DEF ListAfter, Change
<1> QED
  BY <1>1, <1>2, <1>3, <1>4 DEF Change

-----------------------------------------------------------------------------
(***************************************************************************)
(* Types, and what is left behind by a gateway that is down.               *)
(***************************************************************************)
(* A gateway that is down has no call under way and nothing on the wire.   *)
UpInv == ~up => Idle /\ requests = <<>> /\ messages = <<>> /\ online = {}

BaseInv == TypeInv /\ MessageInv /\ UpInv

(* The message that answers a request, and the one nobody asked for.       *)
Answer(r, result) == [type |-> r.call.kind, device |-> r.call.device, result |-> result, by |-> r.by]
Note(type, d) == [type |-> type, device |-> d, result |-> "ok", by |-> "none"]

LEMMA AnswerIsMessage ==
  ASSUME NEW r \in Request, NEW result \in {"ok", "refused"}
  PROVE  /\ Answer(r, result) \in Message
         /\ r.call.kind \in Kind /\ r.by \in Caller
         /\ r.call.kind = "list" => r.call.device = NoDevice
         /\ r.call.kind # "list" => r.call.device \in Device
<1>1. r.call \in Subject /\ r.by \in Caller
  BY DEF Request
<1>2. r.call.kind \in Kind /\ r.call.device \in Device \cup {NoDevice}
  BY <1>1 DEF Subject, NoCall, Kind, NoDevice
<1>3. r.call.kind = "list" => r.call.device = NoDevice
  BY <1>1 DEF Subject, NoCall, NoDevice
<1>4. r.call.kind # "list" => r.call.device \in Device
  BY <1>1 DEF Subject, NoCall, NoDevice
<1> QED
  BY <1>1, <1>2, <1>3, <1>4 DEF Answer, Message

Noticed(type, d) ==
    \/ type \in Change /\ d \in Device
    \/ type \in {"unbind_all", "search", "describe"} /\ d = NoDevice

LEMMA NoteIsMessage ==
  ASSUME NEW type, NEW d, Noticed(type, d)
  PROVE  /\ Note(type, d) \in Message /\ type \notin Kind
         /\ type \in Change => d \in Device
  BY DEF Noticed, Note, Message, Change, Kind

LEMMA MessageAppended ==
  ASSUME MessageInv, messages \in Seq(Message), NEW m \in Message,
         messages' = Append(messages, m),
         m.by = "none" <=> m.type \notin Kind, m.type \in Change => m.device \in Device
  PROVE  MessageInv'
<1>1. /\ DOMAIN messages' = 1 .. Len(messages) + 1 /\ DOMAIN messages = 1 .. Len(messages)
      /\ \A i \in 1 .. Len(messages) : messages'[i] = messages[i]
      /\ messages'[Len(messages) + 1] = m
  BY AppendElements
<1>2. Len(messages) \in Nat
  BY LenProperties
<1>3. \A i \in DOMAIN messages' :
        \/ i \in DOMAIN messages /\ messages'[i] = messages[i]
        \/ messages'[i] = m
  BY <1>1, <1>2
<1> QED
  BY <1>3 DEF MessageInv

LEMMA MessageTaken ==
  ASSUME MessageInv, messages \in Seq(Message), messages # <<>>, messages' = Tail(messages)
  PROVE  MessageInv'
<1>1. \A i \in DOMAIN messages' : i + 1 \in DOMAIN messages /\ messages'[i] = messages[i + 1]
  BY TailElements
<1> QED
  BY <1>1 DEF MessageInv

LEMMA CallTypes ==
  ASSUME TypeInv, NEW c \in Caller
  PROVE  /\ call[c] \in Subject /\ call[c].kind \in Kind
         /\ call[c].kind # "list" => call[c].device \in Device
         /\ call[c].kind = "list" => call[c].device = "none"
         /\ slot[call[c].kind].result \in Result
<1>1. call[c] \in Subject
  BY DEF TypeInv
<1>2. call[c].kind \in Kind /\ (call[c].kind # "list" => call[c].device \in Device)
      /\ (call[c].kind = "list" => call[c].device = "none")
  BY <1>1 DEF Subject, NoCall, Kind
<1> QED
  BY <1>1, <1>2 DEF TypeInv

(* The session list.                                                       *)
Status == {"none", "init", "online"}

LEMMA LeavesType ==
  ASSUME TypeInv, NEW c \in Caller, NEW after \in [Device -> Status], NEW bad, Leaves(c, after, bad)
  PROVE  session' \in [Device -> Status] /\ in_list' \subseteq in_list
<1>1. in_list' \subseteq in_list
  BY DEF Leaves
<1>2. \/ session' = after
      \/ \E lost \in SUBSET Device :
           session' = [d \in Device |-> IF d \in lost THEN "none" ELSE after[d]]
  BY DEF Leaves
<1>3. "none" \in Status
  BY DEF Status
<1> QED
  BY <1>1, <1>2, <1>3

(* With nobody else in the list the change is made.                        *)
LEMMA LeavesAlone ==
  ASSUME NEW c, NEW after, NEW bad, Leaves(c, after, bad), c \in in_list => in_list = {c}
  PROVE  session' = after /\ fault' = bad /\ in_list' \subseteq in_list
  BY DEF Leaves

LEMMA BaseInit == Init => BaseInv
<1> SUFFICES ASSUME Init PROVE BaseInv
  OBVIOUS
<1>1. \A T : <<>> \in Seq(T) /\ DOMAIN <<>> = {}
  BY EmptySeq
<1>2. NoCall \in Subject /\ EmptySlot \in [client_id : Device \cup {NoDevice}, result : Result]
  BY DEF Subject, EmptySlot, Result
<1>3. /\ up \in BOOLEAN /\ session \in [Device -> {"none", "init", "online"}]
      /\ slot \in [Kind -> [client_id : Device \cup {NoDevice}, result : Result]]
      /\ pc \in [Caller -> {"idle", "publish", "wait", "finish"}]
      /\ call \in [Caller -> Subject]
      /\ rc \in [Caller -> {"ok", "refused", "timeout", "failed"}]
      /\ held \in [Caller -> {"none", "live", "freed"}] /\ in_list \subseteq Caller
      /\ verdict \in [Caller -> {"none", "ok", "refused"}]
      /\ online \subseteq Device /\ bound \subseteq Device
  BY <1>2 DEF Init
<1>4. TypeInv
  BY <1>1, <1>3 DEF TypeInv, Init
<1>5. MessageInv
  BY <1>1 DEF MessageInv, Init
<1>6. UpInv
  BY DEF UpInv, Init, Idle
<1> QED
  BY <1>4, <1>5, <1>6 DEF BaseInv

LEMMA BaseStep == BaseInv /\ [Next]_vars => BaseInv'
<1> SUFFICES ASSUME BaseInv, [Next]_vars PROVE BaseInv'
  OBVIOUS
<1> USE DEF gateway, caller, cloud, count
<1>0. TypeInv /\ MessageInv /\ UpInv
  BY DEF BaseInv
<1>1. ASSUME NEW subscribed \in BOOLEAN, Construct(subscribed) PROVE BaseInv'
  <2>1. <<>> \in Seq(Device)
    BY EmptySeq
  <2>2. [k \in Kind |-> EmptySlot] \in [Kind -> [client_id : Device \cup {NoDevice}, result : Result]]
    BY DEF EmptySlot, Result
  <2>3. TypeInv'
    BY <1>0, <1>1, <2>1, <2>2 DEF TypeInv, Construct
  <2>4. MessageInv' /\ UpInv'
    BY <1>0, <1>1 DEF MessageInv, UpInv, Construct, Idle
  <2> QED
    BY <2>3, <2>4 DEF BaseInv
<1>2. ASSUME Destroy PROVE BaseInv'
  <2>1. <<>> \in Seq(Request) /\ <<>> \in Seq(Message) /\ DOMAIN <<>> = {}
    BY EmptySeq
  <2>2. TypeInv'
    BY <1>0, <1>2, <2>1 DEF TypeInv, Destroy
  <2>3. MessageInv'
    BY <1>2, <2>1 DEF MessageInv, Destroy
  <2>4. UpInv'
    BY <1>2 DEF UpInv, Destroy, Idle
  <2> QED
    BY <2>2, <2>3, <2>4 DEF BaseInv
<1>3. ASSUME NEW c \in Caller, NEW kind \in Kind \ {"list"}, NEW d \in Device, Begin(c, kind, d)
      PROVE  BaseInv'
  <2>1. SlotAtStart(kind, d) \in [client_id : Device \cup {NoDevice}, result : Result]
        /\ [kind |-> kind, device |-> d] \in Subject
    BY DEF SlotAtStart, Result, Subject
  <2>2. /\ held' \in [Caller -> {"none", "live", "freed"}]
        /\ pc' \in [Caller -> {"idle", "publish", "wait", "finish"}]
    BY <1>0, <1>3 DEF TypeInv, Begin
  <2> DEFINE after == IF kind = "online" /\ session[d] = "none"
                      THEN [session EXCEPT ![d] = "init"] ELSE session
  <2>6. after \in [Device -> Status] /\ Leaves(c, after, fault)
    BY <1>0, <1>3 DEF TypeInv, Begin, Status
  <2> HIDE DEF after
  <2>7. session' \in [Device -> Status] /\ in_list' \subseteq Caller
    BY <1>0, <2>6, LeavesType DEF TypeInv
  <2>3. /\ slot' \in [Kind -> [client_id : Device \cup {NoDevice}, result : Result]]
        /\ call' \in [Caller -> Subject]
        /\ verdict' \in [Caller -> {"none", "ok", "refused"}]
    BY <1>0, <1>3, <2>1 DEF TypeInv, Begin
  <2>4. UNCHANGED <<up, bind_list, rc, online, bound, requests, messages>> /\ up
    BY <1>3 DEF Begin
  <2>5. TypeInv'
    BY <1>0, <2>2, <2>3, <2>4, <2>7 DEF TypeInv, Status
  <2> QED
    BY <1>0, <2>4, <2>5 DEF MessageInv, UpInv, BaseInv
<1>4. ASSUME NEW c \in Caller, BeginList(c) PROVE BaseInv'
  <2>1. SlotAtStart("list", NoDevice) \in [client_id : Device \cup {NoDevice}, result : Result]
        /\ NoCall \in Subject /\ <<>> \in Seq(Device) /\ "list" \in Kind
    BY EmptySeq DEF SlotAtStart, Result, Subject, Kind
  <2>2. /\ slot' \in [Kind -> [client_id : Device \cup {NoDevice}, result : Result]]
        /\ call' \in [Caller -> Subject]
        /\ verdict' \in [Caller -> {"none", "ok", "refused"}]
        /\ pc' \in [Caller -> {"idle", "publish", "wait", "finish"}]
    BY <1>0, <1>4, <2>1 DEF TypeInv, BeginList
  <2>3. UNCHANGED <<up, session, rc, held, in_list, online, bound, requests, messages>> /\ up
        /\ bind_list' = <<>>
    BY <1>4 DEF BeginList
  <2>4. TypeInv'
    BY <1>0, <2>1, <2>2, <2>3 DEF TypeInv
  <2> QED
    BY <1>0, <2>3, <2>4 DEF MessageInv, UpInv, BaseInv
<1>5. ASSUME NEW c \in Caller, NEW sent \in BOOLEAN, Publish(c, sent) PROVE BaseInv'
  <2>1. [call |-> call[c], by |-> c] \in Request
    BY <1>0 DEF TypeInv, Request
  <2>2. Append(requests, [call |-> call[c], by |-> c]) \in Seq(Request)
    BY <1>0, <2>1, AppendProperties DEF TypeInv
  <2>3. /\ requests' \in Seq(Request)
        /\ pc' \in [Caller -> {"idle", "publish", "wait", "finish"}]
        /\ rc' \in [Caller -> {"ok", "refused", "timeout", "failed"}]
    BY <1>0, <1>5, <2>2 DEF TypeInv, Publish
  <2>4. UNCHANGED <<gateway, call, held, in_list, cloud, messages>> /\ pc[c] = "publish"
    BY <1>5 DEF Publish
  <2>5. TypeInv'
    BY <1>0, <2>3, <2>4 DEF TypeInv
  <2>6. MessageInv' /\ UpInv'
    BY <1>0, <2>4 DEF MessageInv, UpInv, Idle
  <2> QED
    BY <2>5, <2>6 DEF BaseInv
<1>6. ASSUME NEW c \in Caller, Hears(c) \/ GivesUp(c) PROVE BaseInv'
  <2>1. slot[call[c].kind].result # "pending" => slot[call[c].kind].result \in {"ok", "refused"}
    BY <1>0, CallTypes DEF Result
  <2>2. /\ pc' \in [Caller -> {"idle", "publish", "wait", "finish"}]
        /\ rc' \in [Caller -> {"ok", "refused", "timeout", "failed"}]
        /\ UNCHANGED <<gateway, call, held, in_list, cloud, requests, messages>> /\ pc[c] = "wait"
    <3>1. CASE Hears(c)
      BY <1>0, <2>1, <3>1 DEF TypeInv, Hears
    <3>2. CASE GivesUp(c)
      BY <1>0, <3>2 DEF TypeInv, GivesUp
    <3> QED
      BY <1>6, <3>1, <3>2
  <2>3. TypeInv'
    BY <1>0, <2>2 DEF TypeInv
  <2>4. MessageInv' /\ UpInv'
    BY <1>0, <2>2 DEF MessageInv, UpInv, Idle
  <2> QED
    BY <2>3, <2>4 DEF BaseInv
<1>7. ASSUME NEW c \in Caller, Finish(c) PROVE BaseInv'
  <2>1. <<>> \in Seq(Device) /\ NoCall \in Subject
    BY EmptySeq DEF Subject
  <2>2. \A k \in Kind, ok \in BOOLEAN, s \in Status : SessionAfter(k, ok, s) \in Status
    BY DEF SessionAfter, Status
  <2> DEFINE after == IF call[c].kind = "list" THEN session
                      ELSE [session EXCEPT ![call[c].device] =
                              SessionAfter(call[c].kind, rc[c] = "ok", @)]
             bad == fault \/ (rc[c] = "ok" /\ held[c] = "freed")
  <2>3. after \in [Device -> Status]
    <3>0. session \in [Device -> Status]
      BY <1>0 DEF TypeInv, Status
    <3>1. CASE call[c].kind = "list"
      BY <3>0, <3>1
    <3>2. CASE call[c].kind # "list"
      <4>1. after = [session EXCEPT ![call[c].device] =
                          SessionAfter(call[c].kind, rc[c] = "ok", @)]
        BY <3>2
      <4>2. call[c].kind \in Kind /\ call[c].device \in Device
        BY <1>0, <3>2, CallTypes
      <4>3. SessionAfter(call[c].kind, rc[c] = "ok", session[call[c].device]) \in Status
        <5>1. session[call[c].device] \in Status
          BY <3>0, <4>2
        <5>2. (rc[c] = "ok") \in BOOLEAN
          OBVIOUS
        <5> QED
          BY <2>2, <4>2, <5>1, <5>2
      <4> HIDE DEF after
      <4> QED
        BY <3>0, <4>1, <4>2, <4>3
    <3> QED
      BY <3>1, <3>2
  <2>8. Leaves(c, after, bad)
    BY <1>7 DEF Finish
  <2> HIDE DEF after, bad
  <2>9. session' \in [Device -> Status] /\ in_list' \subseteq Caller
    BY <1>0, <2>3, <2>8, LeavesType DEF TypeInv
  <2>4. /\ bind_list' \in Seq(Device)
        /\ pc' \in [Caller -> {"idle", "publish", "wait", "finish"}]
        /\ rc' \in [Caller -> {"ok", "refused", "timeout", "failed"}]
        /\ held' \in [Caller -> {"none", "live", "freed"}]
        /\ call' \in [Caller -> Subject]
        /\ verdict' \in [Caller -> {"none", "ok", "refused"}]
    BY <1>0, <1>7, <2>1 DEF TypeInv, Finish
  <2>5. UNCHANGED <<up, slot, online, bound, requests, messages>> /\ pc[c] = "finish"
    BY <1>7 DEF Finish
  <2>6. TypeInv'
    BY <1>0, <2>4, <2>5, <2>9 DEF TypeInv, Status
  <2>7. MessageInv' /\ UpInv'
    BY <1>0, <2>5 DEF MessageInv, UpInv, Idle
  <2> QED
    BY <2>6, <2>7 DEF BaseInv
<1>8. ASSUME NEW result \in {"ok", "refused"}, Answers(result) PROVE BaseInv'
  <2> DEFINE r == Head(requests)
  <2>1. r \in Request /\ Tail(requests) \in Seq(Request) /\ requests # <<>>
    BY <1>0, <1>8, TailElements DEF TypeInv, Answers
  <2>2. /\ Answer(r, result) \in Message /\ r.call.kind \in Kind /\ r.by \in Caller
        /\ r.call.kind # "list" => r.call.device \in Device
    BY <2>1, AnswerIsMessage
  <2>3. messages' = Append(messages, Answer(r, result))
    BY <1>8 DEF Answers, Answer
  <2>4. messages' \in Seq(Message)
    BY <1>0, <2>2, <2>3, AppendProperties DEF TypeInv
  <2>5. verdict' \in [Caller -> {"none", "ok", "refused"}]
    <3>1. verdict' = [verdict EXCEPT ![r.by] = result]
      BY <1>8 DEF Answers
    <3> QED
      BY <1>0, <3>1 DEF TypeInv
  <2>6. online' \subseteq Device /\ bound' \subseteq Device
    BY <1>0, <1>8, <2>2 DEF TypeInv, Answers
  <2>7. UNCHANGED <<gateway, caller>> /\ requests' = Tail(requests)
    BY <1>8 DEF Answers
  <2>8. TypeInv'
    BY <1>0, <2>1, <2>4, <2>5, <2>6, <2>7 DEF TypeInv
  <2>9. MessageInv'
    <3>1. Answer(r, result).type \in Kind /\ Answer(r, result).by \in Caller
      BY <2>2 DEF Answer
    <3>2. Answer(r, result).by # "none" /\ Answer(r, result).type \notin Change
      BY <3>1, GatewayConstants DEF Kind, Change
    <3> HIDE DEF r
    <3> QED
      BY <1>0, <2>2, <2>3, <3>1, <3>2, MessageAppended DEF TypeInv
  <2>10. UpInv'
    BY <1>0, <2>1, <2>7 DEF UpInv
  <2> QED
    BY <2>8, <2>9, <2>10 DEF BaseInv
<1>9. ASSUME RequestLost PROVE BaseInv'
  <2>1. Tail(requests) \in Seq(Request) /\ requests # <<>>
    BY <1>0, <1>9, TailElements DEF TypeInv, RequestLost
  <2>2. TypeInv'
    BY <1>0, <1>9, <2>1 DEF TypeInv, RequestLost
  <2>3. MessageInv' /\ UpInv'
    BY <1>0, <1>9, <2>1 DEF MessageInv, UpInv, RequestLost
  <2> QED
    BY <2>2, <2>3 DEF BaseInv
<1>10. ASSUME NEW type, NEW d, Noticed(type, d), Notice(type, d) PROVE BaseInv'
  <2>1. Note(type, d) \in Message /\ type \notin Kind /\ (type \in Change => d \in Device)
    BY <1>10, NoteIsMessage
  <2>2. messages' = Append(messages, Note(type, d))
    BY <1>10 DEF Notice, Note
  <2>3. messages' \in Seq(Message)
    BY <1>0, <2>1, <2>2, AppendProperties DEF TypeInv
  <2>4. online' \subseteq Device /\ bound' \subseteq Device
    <3>1. online' \in {{}, online \ {d}, online}
      BY <1>10 DEF Notice
    <3>2. CASE type = "change_bind"
      BY <1>0, <1>10, <3>1, <3>2 DEF TypeInv, Notice, Noticed, Change
    <3>3. CASE type # "change_bind"
      BY <1>0, <1>10, <3>1, <3>3 DEF TypeInv, Notice
    <3> QED
      BY <3>2, <3>3
  <2>5. UNCHANGED <<gateway, caller, verdict, requests>> /\ up
    BY <1>10 DEF Notice
  <2>6. TypeInv'
    BY <1>0, <2>3, <2>4, <2>5 DEF TypeInv
  <2>7. MessageInv'
    <3>1. Note(type, d).by = "none" /\ Note(type, d).type = type /\ Note(type, d).device = d
      BY DEF Note
    <3> QED
      BY <1>0, <2>1, <2>2, <3>1, MessageAppended DEF TypeInv
  <2> QED
    BY <2>5, <2>6, <2>7 DEF BaseInv, UpInv
<1>11. ASSUME NEW lost \in BOOLEAN, Deliver(lost) PROVE BaseInv'
  <2> DEFINE m == Head(messages)
  <2>1. /\ m \in Message /\ Tail(messages) \in Seq(Message) /\ messages # <<>> /\ up
        /\ m = messages[1] /\ 1 \in DOMAIN messages
    BY <1>0, <1>11, TailElements DEF TypeInv, Deliver
  <2>2. UNCHANGED <<up, pc, call, rc, in_list, cloud, requests>> /\ messages' = Tail(messages)
    BY <1>11 DEF Deliver
  <2>3. /\ session' \in [Device -> {"none", "init", "online"}]
        /\ held' \in [Caller -> {"none", "live", "freed"}]
    <3>1. UNCHANGED <<session, held>>
          \/ /\ session' = [d \in Device |-> "none"]
             /\ held' = [c \in Caller |-> IF held[c] = "live" THEN "freed" ELSE held[c]]
      BY <1>11 DEF Deliver, Handle
    <3> QED
      BY <1>0, <3>1 DEF TypeInv
  <2>4. bind_list' \in Seq(Device)
    <3>1. bind_list' = bind_list \/ bind_list' = ListAfter(m.type, m.device)
      BY <1>11 DEF Deliver, Handle
    <3>2. m.type \in Change => m.device \in Device
      BY <1>0, <2>1 DEF MessageInv
    <3>3. bind_list \in Seq(Device)
      BY <1>0 DEF TypeInv
    <3> HIDE DEF m
    <3>4. ListAfter(m.type, m.device) \in Seq(Device)
      BY <3>2, <3>3, ListChanges
    <3> QED
      BY <3>1, <3>3, <3>4
  <2>5. slot' \in [Kind -> [client_id : Device \cup {NoDevice}, result : Result]]
    <3>1. slot' = slot \/ (m.type \in Kind /\ slot' = [slot EXCEPT ![m.type].result = m.result])
      BY <1>11 DEF Deliver, Handle
    <3>2. m.result \in Result
      BY <2>1 DEF Message, Result
    <3> DEFINE Held == [client_id : Device \cup {NoDevice}, result : Result]
    <3>3. slot \in [Kind -> Held]
      BY <1>0 DEF TypeInv
    <3>4. CASE slot' = slot
      BY <3>3, <3>4
    <3>5. ASSUME NEW k \in Kind, NEW r \in Result, slot' = [slot EXCEPT ![k].result = r]
          PROVE  slot' \in [Kind -> Held]
      <4>1. slot[k] \in Held
        BY <3>3
      <4>2. [slot[k] EXCEPT !.result = r] \in Held
        BY <4>1
      <4>3. slot' = [slot EXCEPT ![k] = [slot[k] EXCEPT !.result = r]]
        BY <3>5
      <4> HIDE DEF Held
      <4> QED
        BY <3>3, <4>2, <4>3
    <3> HIDE DEF m
    <3> QED
      BY <3>1, <3>2, <3>4, <3>5
  <2>6. TypeInv'
    BY <1>0, <2>1, <2>2, <2>3, <2>4, <2>5 DEF TypeInv
  <2>7. MessageInv'
    BY <1>0, <2>1, <2>2, MessageTaken DEF TypeInv
  <2> QED
    BY <2>1, <2>2, <2>6, <2>7 DEF BaseInv, UpInv
<1>15. ASSUME NEW c \in Caller, Enter(c) PROVE BaseInv'
  <2>1. /\ UNCHANGED <<gateway, pc, call, rc, held, cloud, requests, messages>>
        /\ in_list' = in_list \cup {c} /\ (up \/ pc[c] = "finish")
    BY <1>15 DEF Enter, Removes
  <2>2. TypeInv'
    BY <1>0, <2>1 DEF TypeInv
  <2>3. MessageInv' /\ UpInv'
    BY <1>0, <2>1 DEF MessageInv, UpInv, Idle
  <2> QED
    BY <2>2, <2>3 DEF BaseInv
<1>16. ASSUME NEW c \in Caller, TurnsBack(c) PROVE BaseInv'
  <2>1. UNCHANGED <<up, bind_list, slot, pc, call, rc, held, cloud, requests, messages>>
        /\ c \in in_list /\ Leaves(c, session, fault)
    BY <1>16 DEF TurnsBack
  <2>2. session' \in [Device -> Status] /\ in_list' \subseteq Caller
    BY <1>0, <2>1, LeavesType DEF TypeInv, Status
  <2>3. TypeInv'
    BY <1>0, <2>1, <2>2 DEF TypeInv, Status
  <2>4. MessageInv' /\ UpInv'
    BY <1>0, <2>1 DEF MessageInv, UpInv, Idle
  <2> QED
    BY <2>3, <2>4 DEF BaseInv
<1>12. CASE UNCHANGED vars
  <2>1. TypeInv'
    BY <1>0, <1>12 DEF vars, TypeInv
  <2>2. MessageInv' /\ UpInv'
    BY <1>0, <1>12 DEF vars, MessageInv, UpInv, Idle
  <2> QED
    BY <2>1, <2>2 DEF BaseInv
<1>13. CASE \/ \E type \in {"change_bind", "change_unbind"}, d \in Device : Notice(type, d)
            \/ \E type \in {"unbind_all", "search", "describe"} : Notice(type, NoDevice)
  BY <1>10, <1>13 DEF Noticed, Change
<1>14. CASE \E c \in Caller :
              \/ \E kind \in Kind \ {"list"}, d \in Device : Begin(c, kind, d)
              \/ Enter(c) \/ TurnsBack(c) \/ BeginList(c) \/ (\E sent \in BOOLEAN : Publish(c, sent))
              \/ Hears(c) \/ GivesUp(c) \/ Finish(c)
  BY <1>3, <1>4, <1>5, <1>6, <1>7, <1>14, <1>15, <1>16
<1> HIDE DEF gateway, caller, cloud, count
<1> QED
  BY <1>1, <1>2, <1>8, <1>9, <1>11, <1>12, <1>13, <1>14 DEF Next

(* BaseInv is an invariant of every behaviour.                             *)
THEOREM BaseHolds == Spec => []BaseInv
  BY BaseInit, BaseStep, PTL DEF Spec

-----------------------------------------------------------------------------
(***************************************************************************)
(* The bind list.                                                          *)
(***************************************************************************)
Binds(i, d)   == messages[i].type = "change_bind" /\ messages[i].device = d
Unbinds(i, d) == messages[i].type = "change_unbind" /\ messages[i].device = d

(* What is on the way agrees with the list and with the cloud: between two *)
(* bindings of a sub-device there is an unbinding, a binding of one that   *)
(* is in the list comes after an unbinding, and one that the cloud has     *)
(* unbound is unbound again after every binding, and if it is in the list. *)
ChangeInv(d) ==
    /\ \A i, j \in DOMAIN messages : i < j /\ Binds(i, d) /\ Binds(j, d) =>
         \E k \in DOMAIN messages : i < k /\ k < j /\ Unbinds(k, d)
    /\ d \in Range(bind_list) => \A j \in DOMAIN messages : Binds(j, d) =>
         \E k \in DOMAIN messages : k < j /\ Unbinds(k, d)
    /\ d \notin bound => \A i \in DOMAIN messages : Binds(i, d) =>
         \E k \in DOMAIN messages : i < k /\ Unbinds(k, d)
    /\ d \notin bound /\ d \in Range(bind_list) => \E k \in DOMAIN messages : Unbinds(k, d)

ListInv == Once(bind_list) /\ (up => \A d \in Device : ChangeInv(d))

LEMMA EmptyList == Once(<<>>) /\ Range(<<>>) = {}
  BY DEF Once, Range

LEMMA NotListed ==
  ASSUME TypeInv, NEW d, ~Listed(d)
  PROVE  d \notin Range(bind_list) /\ \A i \in DOMAIN messages : ~Binds(i, d)
<1>1. DOMAIN bind_list = 1 .. Len(bind_list)
  BY LenProperties DEF TypeInv
<1>2. d \notin Range(bind_list)
  BY <1>1 DEF Listed, Contains, Range
<1>3. ASSUME NEW i \in DOMAIN messages PROVE ~Binds(i, d)
  <2>1. messages[i] \in Range(messages)
    BY DEF Range
  <2> QED
    BY <2>1 DEF Listed, Binds
<1> QED
  BY <1>2, <1>3

(* A step that only shortens the list and only binds.                      *)
LEMMA ListQuiet ==
  ASSUME ListInv, UNCHANGED <<up, messages>>, Once(bind_list'),
         Range(bind_list') \subseteq Range(bind_list), bound \subseteq bound'
  PROVE  ListInv'
  BY DEF ListInv, ChangeInv, Binds, Unbinds

(* A message is sent.                                                      *)
LEMMA ListAppend ==
  ASSUME TypeInv, ListInv, NEW m \in Message, messages' = Append(messages, m),
         UNCHANGED <<up, bind_list>>,
         \A d \in Device : m.type = "change_bind" /\ m.device = d => d \notin bound /\ d \in bound',
         \A d \in Device : d \in bound' \/ d \notin bound \/ ~Listed(d)
                           \/ (m.type = "change_unbind" /\ m.device = d)
  PROVE  ListInv'
<1> DEFINE n == Len(messages)
<1>1. /\ DOMAIN messages' = 1 .. n + 1 /\ DOMAIN messages = 1 .. n /\ n \in Nat
      /\ \A i \in 1 .. n : messages'[i] = messages[i]
      /\ messages'[n + 1] = m
  BY AppendElements DEF TypeInv
<1> HIDE DEF n
<1>2. Once(bind_list') /\ bind_list' = bind_list
  BY DEF ListInv, Once
<1>3. ASSUME NEW d \in Device, up PROVE ChangeInv(d)'
  <2> DEFINE B(i) == messages'[i].type = "change_bind" /\ messages'[i].device = d
             U(i) == messages'[i].type = "change_unbind" /\ messages'[i].device = d
             D == DOMAIN messages'
             new == n + 1
  <2>1. ChangeInv(d)
    BY <1>3 DEF ListInv
  <2>2. /\ \A i \in DOMAIN messages : i \in D /\ i < new /\ (B(i) <=> Binds(i, d)) /\ (U(i) <=> Unbinds(i, d))
        /\ \A i \in D : i \in DOMAIN messages \/ i = new
        /\ \A i \in D : i < new => i \in DOMAIN messages
        /\ \A i, j \in D : i < j => i \in DOMAIN messages
        /\ new \in D
    BY <1>1 DEF Binds, Unbinds
  <2>3. B(new) => d \notin bound /\ d \in bound'
    BY <1>1
  <2>4. \/ d \in bound' \/ d \notin bound \/ U(new)
        \/ d \notin Range(bind_list) /\ \A i \in DOMAIN messages : ~Binds(i, d)
    BY <1>1, NotListed
  <2>5. ~(B(new) /\ U(new))
    OBVIOUS
  <2> HIDE DEF B, U, D, new
  <2>6. ASSUME NEW i \in D, NEW j \in D, i < j, B(i), B(j)
        PROVE  \E k \in D : i < k /\ k < j /\ U(k)
    <3>1. i \in DOMAIN messages /\ Binds(i, d)
      BY <2>2, <2>6
    <3>2. CASE j \in DOMAIN messages
      BY <2>1, <2>2, <2>6, <3>1, <3>2 DEF ChangeInv
    <3>3. CASE j = new
      <4>1. PICK k \in DOMAIN messages : i < k /\ Unbinds(k, d)
        BY <2>1, <2>3, <2>6, <3>1, <3>3 DEF ChangeInv
      <4> QED
        BY <2>2, <3>3, <4>1
    <3> QED
      BY <2>2, <3>2, <3>3
  <2>7. ASSUME d \in Range(bind_list), NEW j \in D, B(j) PROVE \E k \in D : k < j /\ U(k)
    <3>1. CASE j \in DOMAIN messages
      BY <2>1, <2>2, <2>7, <3>1 DEF ChangeInv
    <3>2. CASE j = new
      <4>1. PICK k \in DOMAIN messages : Unbinds(k, d)
        BY <2>1, <2>3, <2>7, <3>2 DEF ChangeInv
      <4> QED
        BY <2>2, <3>2, <4>1
    <3> QED
      BY <2>2, <3>1, <3>2
  <2>8. ASSUME d \notin bound', NEW i \in D, B(i) PROVE \E k \in D : i < k /\ U(k)
    <3>1. i \in DOMAIN messages /\ i < new /\ Binds(i, d)
      BY <2>2, <2>3, <2>8
    <3>2. CASE U(new)
      BY <2>2, <3>1, <3>2
    <3>3. CASE ~U(new)
      BY <2>1, <2>2, <2>4, <2>8, <3>1, <3>3 DEF ChangeInv
    <3> QED
      BY <3>2, <3>3
  <2>9. ASSUME d \notin bound', d \in Range(bind_list) PROVE \E k \in D : U(k)
    BY <2>1, <2>2, <2>4, <2>9 DEF ChangeInv
  <2> QED
    BY <1>2, <2>6, <2>7, <2>8, <2>9 DEF ChangeInv, Binds, Unbinds, B, U, D
<1> QED
  BY <1>2, <1>3 DEF ListInv

(* The first message is handled, or lost.                                  *)
LEMMA ListTake ==
  ASSUME TypeInv, MessageInv, ListInv, NEW lost \in BOOLEAN, Deliver(lost)
  PROVE  ListInv'
<1> DEFINE m == Head(messages)
<1>1. /\ messages # <<>> /\ m = messages[1] /\ 1 \in DOMAIN messages /\ messages' = Tail(messages)
      /\ DOMAIN messages = 1 .. Len(messages) /\ DOMAIN messages' = 1 .. Len(messages) - 1
      /\ Len(messages) \in Nat \ {0}
      /\ \A i \in DOMAIN messages' : i + 1 \in DOMAIN messages /\ messages'[i] = messages[i + 1]
      /\ \A i \in DOMAIN messages : i = 1 \/ (i - 1 \in DOMAIN messages' /\ messages'[i - 1] = messages[i])
  BY TailElements DEF TypeInv, Deliver
<1>2. UNCHANGED <<bound>> /\ up /\ up' = up
  BY DEF Deliver, cloud
<1>3. m.type \in Change => m.device \in Device /\ ~lost
  BY <1>1 DEF MessageInv, Deliver, Change, Kind
<1>4. bind_list' = bind_list \/ bind_list' = ListAfter(m.type, m.device)
  BY DEF Deliver, Handle
<1>5. m.type \in Change => bind_list' = ListAfter(m.type, m.device)
  BY <1>3 DEF Deliver, Handle
<1> HIDE DEF m
<1>6. /\ m.type = "change_bind" => Range(bind_list') = Range(bind_list) \cup {m.device}
      /\ m.type = "change_unbind" => Range(bind_list') \subseteq Range(bind_list) \ {m.device}
      /\ m.type \notin Change => bind_list' = bind_list
      /\ (m.type = "change_bind" => m.device \notin Range(bind_list)) => Once(bind_list')
  <2>1. bind_list \in Seq(Device) /\ Once(bind_list)
    BY DEF TypeInv, ListInv
  <2> DEFINE after == ListAfter(m.type, m.device)
  <2>2. /\ m.type = "change_bind" => Range(after) = Range(bind_list) \cup {m.device}
        /\ m.type = "change_unbind" /\ Once(bind_list) =>
              Range(after) \subseteq Range(bind_list) \ {m.device}
        /\ m.type \notin Change => after = bind_list
        /\ Once(bind_list) /\ (m.type = "change_bind" => m.device \notin Range(bind_list)) =>
              Once(after)
    BY <1>3, <2>1, ListChanges
  <2> HIDE DEF after
  <2>3. bind_list' = after
    BY <1>4, <1>5, <2>2 DEF after
  <2> QED
    BY <2>1, <2>2, <2>3
<1>7. m.type = "change_bind" => m.device \notin Range(bind_list)
  <2> SUFFICES ASSUME m.type = "change_bind", m.device \in Range(bind_list) PROVE FALSE
    OBVIOUS
  <2>1. m.device \in Device /\ Binds(1, m.device)
    BY <1>1, <1>3 DEF Binds, Change
  <2>2. \E k \in DOMAIN messages : k < 1
    BY <1>1, <1>2, <2>1 DEF ListInv, ChangeInv
  <2> QED
    BY <1>1, <2>2
<1>8. ASSUME NEW d \in Device PROVE ChangeInv(d)'
  <2> DEFINE B(i) == messages'[i].type = "change_bind" /\ messages'[i].device = d
             U(i) == messages'[i].type = "change_unbind" /\ messages'[i].device = d
             D == DOMAIN messages'
             E == DOMAIN messages
  <2>1. ChangeInv(d)
    BY <1>2 DEF ListInv
  <2>2. /\ \A i \in D : i \in Int /\ i + 1 \in E /\ (B(i) <=> Binds(i + 1, d))
        /\ \A i \in E : i \in Int /\ (i = 1 \/ (i - 1 \in D /\ (U(i - 1) <=> Unbinds(i, d))))
        /\ \A i \in D : 1 < i + 1 /\ i \in Nat
    BY <1>1 DEF Binds, Unbinds
  <2>3. 1 \in E /\ (Binds(1, d) <=> m.type = "change_bind" /\ m.device = d)
        /\ (Unbinds(1, d) <=> m.type = "change_unbind" /\ m.device = d)
    BY <1>1 DEF Binds, Unbinds
  <2>4. /\ ~Binds(1, d) /\ d \in Range(bind_list') => d \in Range(bind_list)
        /\ Unbinds(1, d) => d \notin Range(bind_list')
    BY <1>6, <2>3 DEF Change
  <2> HIDE DEF B, U, D, E
  <2>5. ASSUME NEW i \in D, NEW j \in D, i < j, B(i), B(j)
        PROVE  \E k \in D : i < k /\ k < j /\ U(k)
    <3>1. PICK k \in E : i + 1 < k /\ k < j + 1 /\ Unbinds(k, d)
      <4>1. i + 1 < j + 1
        BY <2>2, <2>5
      <4> QED
        BY <2>1, <2>2, <2>5, <4>1 DEF ChangeInv, E
    <3>2. k # 1 /\ i < k - 1 /\ k - 1 < j
      BY <2>2, <3>1
    <3> QED
      BY <2>2, <3>1, <3>2
  <2>6. ASSUME d \in Range(bind_list'), NEW j \in D, B(j) PROVE \E k \in D : k < j /\ U(k)
    <3>1. PICK k \in E : k < j + 1 /\ Unbinds(k, d) /\ k # 1
      <4>1. CASE Binds(1, d)
        BY <2>1, <2>2, <2>3, <2>6, <4>1 DEF ChangeInv, E
      <4>2. CASE ~Binds(1, d)
        BY <2>1, <2>2, <2>4, <2>6, <4>2 DEF ChangeInv, E
      <4> QED
        BY <4>1, <4>2
    <3>2. k - 1 < j
      BY <2>2, <3>1
    <3> QED
      BY <2>2, <3>1, <3>2
  <2>7. ASSUME d \notin bound', NEW i \in D, B(i) PROVE \E k \in D : i < k /\ U(k)
    <3>1. PICK k \in E : i + 1 < k /\ Unbinds(k, d)
      BY <1>2, <2>1, <2>2, <2>7 DEF ChangeInv, E
    <3>2. k # 1 /\ i < k - 1
      BY <2>2, <3>1
    <3> QED
      BY <2>2, <3>1, <3>2
  <2>8. ASSUME d \notin bound', d \in Range(bind_list') PROVE \E k \in D : U(k)
    <3>1. PICK k \in E : Unbinds(k, d) /\ k # 1
      <4>1. CASE Binds(1, d)
        <5>1. PICK k \in E : 1 < k /\ Unbinds(k, d)
          BY <1>2, <2>1, <2>3, <2>8, <4>1 DEF ChangeInv, E
        <5> QED
          BY <5>1
      <4>2. CASE ~Binds(1, d)
        BY <1>2, <2>1, <2>4, <2>8, <4>2 DEF ChangeInv, E
      <4> QED
        BY <4>1, <4>2
    <3> QED
      BY <2>2, <3>1
  <2> QED
    BY <2>5, <2>6, <2>7, <2>8 DEF ChangeInv, Binds, Unbinds, B, U, D
<1> QED
  BY <1>6, <1>7, <1>8 DEF ListInv

LEMMA ListStep ==
  ASSUME Adversity \cap {"unbind_listed", "change_repeated"} = {}
  PROVE  BaseInv /\ ListInv /\ [Next]_vars => ListInv'
<1> SUFFICES ASSUME BaseInv, ListInv, [Next]_vars PROVE ListInv'
  OBVIOUS
<1>0. TypeInv /\ MessageInv /\ UpInv /\ Once(bind_list)
  BY DEF BaseInv, ListInv
<1> USE DEF gateway, caller, cloud, count
<1>1. ASSUME NEW subscribed \in BOOLEAN, Construct(subscribed) PROVE ListInv'
  <2>1. messages' = <<>> /\ bind_list' = <<>>
    BY <1>0, <1>1 DEF UpInv, Construct
  <2>2. ASSUME NEW d \in Device PROVE ChangeInv(d)'
    <3>1. d \notin Range(bind_list') /\ DOMAIN messages' = {}
      BY <2>1, EmptyList
    <3> QED
      BY <3>1 DEF ChangeInv
  <2> QED
    BY <2>1, <2>2, EmptyList DEF ListInv
<1>2. ASSUME Destroy PROVE ListInv'
  BY <1>0, <1>2 DEF Destroy, ListInv, Once
<1>3. ASSUME bind_list' \in {bind_list, <<>>}, UNCHANGED <<up, messages, bound>> PROVE ListInv'
  <2>1. Once(bind_list') /\ Range(bind_list') \subseteq Range(bind_list)
    BY <1>0, <1>3, EmptyList
  <2> QED
    BY <1>3, <2>1, ListQuiet
<1>4. CASE \E c \in Caller :
              \/ \E kind \in Kind \ {"list"}, d \in Device : Begin(c, kind, d)
              \/ Enter(c) \/ TurnsBack(c) \/ BeginList(c) \/ (\E sent \in BOOLEAN : Publish(c, sent))
              \/ Hears(c) \/ GivesUp(c) \/ Finish(c)
  <2>1. PICK c \in Caller :
              \/ \E kind \in Kind \ {"list"}, d \in Device : Begin(c, kind, d)
              \/ Enter(c) \/ TurnsBack(c) \/ BeginList(c) \/ (\E sent \in BOOLEAN : Publish(c, sent))
              \/ Hears(c) \/ GivesUp(c) \/ Finish(c)
    BY <1>4
  <2>2. CASE \E kind \in Kind \ {"list"}, d \in Device : Begin(c, kind, d)
    BY <1>3, <2>2 DEF Begin
  <2>3. CASE Enter(c) \/ TurnsBack(c)
    BY <1>3, <2>3 DEF Enter, TurnsBack
  <2>4. CASE BeginList(c)
    BY <1>3, <2>4 DEF BeginList
  <2>5. CASE (\E sent \in BOOLEAN : Publish(c, sent)) \/ Hears(c) \/ GivesUp(c)
    BY <1>3, <2>5 DEF Publish, Hears, GivesUp
  <2>6. CASE Finish(c)
    BY <1>3, <2>6 DEF Finish
  <2> QED
    BY <2>1, <2>2, <2>3, <2>4, <2>5, <2>6
<1>5. CASE RequestLost \/ UNCHANGED vars
  BY <1>3, <1>5 DEF RequestLost, vars
<1>6. ASSUME NEW result \in {"ok", "refused"}, Answers(result) PROVE ListInv'
  <2> DEFINE r == Head(requests)
             e == r.call.device
  <2>1. r \in Request
    BY <1>0, <1>6, TailElements DEF TypeInv, Answers
  <2>2. Answer(r, result) \in Message /\ r.call.kind \in Kind
    BY <2>1, AnswerIsMessage
  <2>3. messages' = Append(messages, Answer(r, result)) /\ UNCHANGED <<up, bind_list>>
    BY <1>6 DEF Answers, Answer
  <2>4. Answer(r, result).type \notin Change
    BY <2>2 DEF Answer, Kind, Change
  <2>5. bound \subseteq bound' \/ (bound' = bound \ {e} /\ ~Listed(e))
    BY <1>6 DEF Answers
  <2> HIDE DEF r, e
  <2>6. \A d \in Device : d \in bound' \/ d \notin bound \/ ~Listed(d)
    BY <2>5
  <2> QED
    BY <1>0, <2>2, <2>3, <2>4, <2>6, ListAppend DEF Change
<1>7. ASSUME NEW type, NEW d, Noticed(type, d), Notice(type, d) PROVE ListInv'
  <2> DEFINE m == Note(type, d)
  <2>1. m \in Message /\ m.type = type /\ m.device = d
    BY <1>7, NoteIsMessage DEF Note
  <2>2. messages' = Append(messages, m) /\ UNCHANGED <<up, bind_list>>
    BY <1>7 DEF Notice, Note
  <2>3. type = "change_bind" => d \notin bound /\ bound' = bound \cup {d}
    BY <1>7 DEF Notice
  <2>4. type = "change_unbind" => bound' = bound \ {d}
    BY <1>7 DEF Notice
  <2>5. type = "unbind_all" => \A e \in Device : ~Listed(e)
    BY <1>7 DEF Notice
  <2>6. type \notin Change \cup {"unbind_all"} => bound' = bound
    BY <1>7 DEF Notice, Change
  <2> HIDE DEF m
  <2>7. \A e \in Device : m.type = "change_bind" /\ m.device = e => e \notin bound /\ e \in bound'
    BY <2>1, <2>3
  <2>8. \A e \in Device : \/ e \in bound' \/ e \notin bound \/ ~Listed(e)
                          \/ (m.type = "change_unbind" /\ m.device = e)
    BY <2>1, <2>3, <2>4, <2>5, <2>6 DEF Change
  <2> QED
    BY <1>0, <2>1, <2>2, <2>7, <2>8, ListAppend
<1>8. ASSUME NEW lost \in BOOLEAN, Deliver(lost) PROVE ListInv'
  BY <1>0, <1>8, ListTake
<1>9. CASE \/ \E type \in {"change_bind", "change_unbind"}, d \in Device : Notice(type, d)
           \/ \E type \in {"unbind_all", "search", "describe"} : Notice(type, NoDevice)
  BY <1>7, <1>9 DEF Noticed, Change
<1> HIDE DEF gateway, caller, cloud, count
<1> QED
  BY <1>1, <1>2, <1>4, <1>5, <1>6, <1>8, <1>9 DEF Next

LEMMA OnceCounted ==
  ASSUME NEW S, NEW s \in Seq(S), Once(s)
  PROVE  Cardinality(Range(s)) = Len(s)
<1> DEFINE n == Len(s)
           R == Range(s)
<1>1. DOMAIN s = 1 .. n /\ n \in Nat /\ s \in [1 .. n -> S]
  BY LenProperties
<1>2. s \in [1 .. n -> R] /\ \A y \in R : \E x \in 1 .. n : s[x] = y
  BY <1>1 DEF Range
<1>3. IsFiniteSet(1 .. n) /\ Cardinality(1 .. n) = n
  BY <1>1, FS_Interval
<1> HIDE DEF n, R
<1>4. s \in Surjection(1 .. n, R) /\ s \in Injection(1 .. n, R)
  BY <1>1, <1>2 DEF Surjection, Injection, IsInjective, Once
<1> QED
  BY <1>3, <1>4, FS_Surjection DEF n, R

(* The bind list that the gateway reports (_gateway_message_handler,       *)
(* subdev_bindlist) never holds a sub-device twice and, once every message *)
(* has been handled, none that the cloud has unbound, whatever answers     *)
(* come late or are lost, whichever calls overlap and whatever is unbound  *)
(* while online: as long as the cloud announces a binding once, and        *)
(* unbinds what is listed through change_unbind only.                      *)
THEOREM BindListRight ==
  ASSUME Adversity \cap {"unbind_listed", "change_repeated"} = {}
  PROVE  Spec => []BindListTrue
<1>1. Init => ListInv
  BY EmptyList DEF Init, ListInv
<1>2. BaseInv /\ ListInv => BindListTrue
  <2> SUFFICES ASSUME BaseInv, ListInv PROVE BindListTrue
    OBVIOUS
  <2>1. bind_list \in Seq(Device) /\ Once(bind_list)
    BY DEF BaseInv, TypeInv, ListInv
  <2>2. Cardinality(Range(bind_list)) = Len(bind_list)
    BY <2>1, OnceCounted
  <2>3. Range(bind_list) \subseteq Device
    BY <2>1, RangeOfSeq
  <2>4. ASSUME up, messages = <<>>, NEW d \in Range(bind_list) PROVE d \in bound
    BY <2>3, <2>4 DEF ListInv, ChangeInv
  <2> QED
    BY <2>2, <2>4 DEF BindListTrue
<1>3. BaseInv /\ ListInv /\ [Next]_vars => ListInv'
  BY ListStep
<1> QED
  BY <1>1, <1>2, <1>3, BaseHolds, PTL DEF Spec

-----------------------------------------------------------------------------
(***************************************************************************)
(* What a call returns.                                                    *)
(***************************************************************************)
About(c)   == pc[c] # "idle" /\ call[c].kind # "list"
Pending(c) == slot[call[c].kind].result = "pending"

(* Each caller has at most one request or answer on the way, and waits for *)
(* it with an unchanged slot.                                              *)
RequestFits(i) ==
    LET c == requests[i].by
    IN  pc[c] = "wait" /\ call[c] = requests[i].call /\ verdict[c] = "none" /\ Pending(c)
AnswerFits(i) ==
    LET c == messages[i].by
    IN  /\ pc[c] = "wait" /\ messages[i].type = call[c].kind /\ messages[i].device = call[c].device
        /\ verdict[c] = messages[i].result /\ Pending(c)

WayInv ==
    /\ \A i, j \in DOMAIN requests : requests[i].by = requests[j].by => i = j
    /\ \A i, j \in DOMAIN messages : messages[i].by = messages[j].by /\ messages[i].by # "none" => i = j
    /\ \A i \in DOMAIN requests, j \in DOMAIN messages : requests[i].by # messages[j].by
    /\ \A i \in DOMAIN requests : RequestFits(i)
    /\ \A i \in DOMAIN messages : messages[i].by # "none" => AnswerFits(i)

(* Two threads are in calls of different kinds about different sub-devices.*)
ApartInv ==
    \A c, e \in Caller : c # e /\ pc[c] # "idle" /\ pc[e] # "idle" =>
        call[c].kind # call[e].kind /\ call[c].device # call[e].device

(* A call finds in its slot its own sub-device and either no result yet or *)
(* the verdict on its request, and a verdict not in the slot is on the way.*)
SlotInv(c) ==
    /\ About(c) => slot[call[c].kind].client_id = call[c].device
    /\ pc[c] = "publish" => Pending(c) /\ verdict[c] = "none"
    /\ pc[c] = "wait" => slot[call[c].kind].result \in {"pending", verdict[c]}
    /\ pc[c] = "wait" /\ About(c) /\ Pending(c) /\ verdict[c] # "none" =>
         \E i \in DOMAIN messages : messages[i].by = c
    /\ pc[c] = "finish" /\ call[c].kind # "list" =>
         /\ rc[c] \in {"ok", "refused"} => verdict[c] = rc[c]
         /\ rc[c] \notin {"ok", "refused"} => verdict[c] = "none"

CallInv == ApartInv /\ \A c \in Caller : SlotInv(c)

(* The step leaves the call of e alone.                                    *)
Same(e) ==
    /\ pc'[e] = pc[e]
    /\ pc[e] # "idle" => /\ call'[e] = call[e] /\ rc'[e] = rc[e] /\ verdict'[e] = verdict[e]
                         /\ slot'[call[e].kind] = slot[call[e].kind]

LEMMA Senders ==
  ASSUME TypeInv
  PROVE  /\ \A i \in DOMAIN requests : requests[i] \in Request /\ requests[i].by \in Caller
         /\ \A i \in DOMAIN messages :
              /\ messages[i] \in Message /\ messages[i].by \in Caller \cup {"none"}
              /\ messages[i].result \in {"ok", "refused"}
<1>1. requests \in Seq(Request) /\ messages \in Seq(Message)
  BY DEF TypeInv
<1>2. DOMAIN requests = 1 .. Len(requests) /\ DOMAIN messages = 1 .. Len(messages)
  BY <1>1, LenProperties
<1>3. /\ \A i \in DOMAIN requests : requests[i] \in Request
      /\ \A i \in DOMAIN messages : messages[i] \in Message
  BY <1>1, <1>2, ElementOfSeq
<1> QED
  BY <1>3 DEF Request, Message

LEMMA WayKept ==
  ASSUME TypeInv, WayInv, UNCHANGED <<requests, messages>>, NEW S \in SUBSET Caller,
         \A e \in Caller \ S : Same(e),
         \A i \in DOMAIN requests : requests[i].by \notin S,
         \A i \in DOMAIN messages : messages[i].by \notin S
  PROVE  WayInv'
<1>1. /\ \A i \in DOMAIN requests : requests[i].by \in Caller
      /\ \A i \in DOMAIN messages : messages[i].by \in Caller \cup {"none"}
  BY Senders
<1>2. ASSUME NEW i \in DOMAIN requests PROVE RequestFits(i)'
  <2>1. Same(requests[i].by) /\ RequestFits(i)
    BY <1>1 DEF WayInv
  <2> QED
    BY <2>1 DEF Same, RequestFits, Pending
<1>3. ASSUME NEW i \in DOMAIN messages, messages[i].by # "none" PROVE AnswerFits(i)'
  <2>1. Same(messages[i].by) /\ AnswerFits(i)
    BY <1>1, <1>3 DEF WayInv
  <2> QED
    BY <2>1 DEF Same, AnswerFits, Pending
<1> QED
  BY <1>2, <1>3 DEF WayInv

LEMMA CallKept ==
  ASSUME CallInv, NEW S \in SUBSET Caller,
         \A e \in Caller \ S : Same(e),
         \A e \in Caller \ S : (\E i \in DOMAIN messages : messages[i].by = e) =>
                               (\E i \in DOMAIN messages' : messages'[i].by = e),
         \A c \in S : SlotInv(c)',
         \A c \in S, e \in Caller : c # e /\ pc'[c] # "idle" /\ pc'[e] # "idle" =>
                               call'[c].kind # call'[e].kind /\ call'[c].device # call'[e].device
  PROVE  CallInv'
<1>1. ASSUME NEW e \in Caller \ S PROVE SlotInv(e)'
  <2>1. Same(e) /\ SlotInv(e)
    BY DEF CallInv
  <2>2. CASE pc[e] = "idle"
    BY <2>1, <2>2 DEF Same, SlotInv, About
  <2>3. CASE pc[e] # "idle"
    BY <2>1, <2>3 DEF Same, SlotInv, About, Pending
  <2> QED
    BY <2>2, <2>3
<1>2. ApartInv'
  <2> SUFFICES ASSUME NEW c \in Caller, NEW e \in Caller, c # e, pc'[c] # "idle", pc'[e] # "idle"
               PROVE  call'[c].kind # call'[e].kind /\ call'[c].device # call'[e].device
    BY DEF ApartInv
  <2>1. CASE c \in S \/ e \in S
    BY <2>1
  <2>2. CASE c \notin S /\ e \notin S
    BY <2>2 DEF Same, CallInv, ApartInv
  <2> QED
    BY <2>1, <2>2
<1> QED
  BY <1>1, <1>2 DEF CallInv

(* The circumstances a call cannot cope with do not occur: every answer    *)
(* comes in before its call gives up, and calls of one kind, or about one  *)
(* sub-device, do not overlap.                                             *)
InTime == Adversity \cap {"late", "overlap", "answer_lost"} = {}

LEMMA NothingUnderWay ==
  ASSUME WayInv, NEW c \in Caller, pc[c] # "wait" \/ ~Pending(c) \/ ~UnderWay(c)
  PROVE  /\ \A i \in DOMAIN requests : requests[i].by \notin {c}
         /\ \A i \in DOMAIN messages : messages[i].by \notin {c}
<1>1. c # "none"
  BY GatewayConstants
<1>2. CASE pc[c] # "wait" \/ ~Pending(c)
  BY <1>1, <1>2 DEF WayInv, RequestFits, AnswerFits
<1>3. CASE ~UnderWay(c)
  BY <1>3 DEF UnderWay, Range
<1> QED
  BY <1>2, <1>3

(* A step of one caller that says nothing.                                 *)
LEMMA CallerQuiet ==
  ASSUME TypeInv, WayInv, CallInv, NEW c \in Caller, UNCHANGED <<requests, messages>>,
         pc[c] # "wait" \/ ~Pending(c) \/ ~UnderWay(c),
         \A e \in Caller \ {c} : Same(e), SlotInv(c)',
         \A e \in Caller \ {c} : pc'[c] # "idle" /\ pc[e] # "idle" =>
                          call'[c].kind # call[e].kind /\ call'[c].device # call[e].device
  PROVE  WayInv' /\ CallInv'
<1> DEFINE S == {c}
<1>1. /\ \A i \in DOMAIN requests : requests[i].by \notin S
      /\ \A i \in DOMAIN messages : messages[i].by \notin S
  BY NothingUnderWay
<1>2. S \in SUBSET Caller /\ (\A e \in Caller \ S : Same(e)) /\ \A e \in S : SlotInv(e)'
  OBVIOUS
<1>3. \A e \in S, f \in Caller : e # f /\ pc'[e] # "idle" /\ pc'[f] # "idle" =>
            call'[e].kind # call'[f].kind /\ call'[e].device # call'[f].device
  BY DEF Same
<1>4. \A e \in Caller \ S : (\E i \in DOMAIN messages : messages[i].by = e) =>
                            (\E i \in DOMAIN messages' : messages'[i].by = e)
  OBVIOUS
<1> HIDE DEF S
<1>5. WayInv'
  BY <1>1, <1>2, WayKept
<1>6. CallInv'
  BY <1>2, <1>3, <1>4, CallKept
<1> QED
  BY <1>5, <1>6

LEMMA BeginResult ==
  ASSUME InTime, BaseInv, WayInv, CallInv,
         NEW c \in Caller, NEW kind \in Kind \ {"list"}, NEW d \in Device, Begin(c, kind, d)
  PROVE  WayInv' /\ CallInv'
<1>0. TypeInv
  BY DEF BaseInv
<1>1. /\ pc' = [pc EXCEPT ![c] = "publish"] /\ pc[c] = "idle" /\ rc' = rc
      /\ call' = [call EXCEPT ![c] = [kind |-> kind, device |-> d]]
      /\ verdict' = [verdict EXCEPT ![c] = "none"]
      /\ slot' = [slot EXCEPT ![kind] = SlotAtStart(kind, d)]
      /\ UNCHANGED <<requests, messages>>
  BY DEF Begin
<1>2. \A e \in Caller : pc[e] = "idle" \/ (call[e].kind # kind /\ call[e].device # d)
  BY DEF Begin, InTime
<1>3. ASSUME NEW e \in Caller \ {c} PROVE Same(e)
  BY <1>0, <1>1, <1>2, CallTypes DEF Same, TypeInv
<1>4. /\ pc'[c] = "publish" /\ verdict'[c] = "none"
      /\ call'[c].kind = kind /\ call'[c].device = d
      /\ slot'[kind].client_id = d /\ slot'[kind].result = "pending"
  BY <1>0, <1>1 DEF TypeInv, SlotAtStart
<1>5. SlotInv(c)'
  BY <1>4 DEF SlotInv, About, Pending
<1> QED
  BY <1>0, <1>1, <1>2, <1>3, <1>4, <1>5, CallerQuiet

LEMMA BeginListResult ==
  ASSUME InTime, BaseInv, WayInv, CallInv, NEW c \in Caller, BeginList(c)
  PROVE  WayInv' /\ CallInv'
<1>0. TypeInv
  BY DEF BaseInv
<1>1. /\ pc' = [pc EXCEPT ![c] = "publish"] /\ pc[c] = "idle" /\ rc' = rc
      /\ call' = [call EXCEPT ![c] = NoCall]
      /\ verdict' = [verdict EXCEPT ![c] = "none"]
      /\ slot' = [slot EXCEPT !["list"] = SlotAtStart("list", NoDevice)]
      /\ UNCHANGED <<requests, messages>>
  BY DEF BeginList
<1>2. \A e \in Caller : pc[e] = "idle" \/ (call[e].kind # "list" /\ call[e].device # "none")
  <2>1. \A e \in Caller : pc[e] = "idle" \/ call[e].kind # "list"
    BY DEF BeginList, InTime
  <2> QED
    BY <1>0, <2>1, CallTypes, GatewayConstants
<1>3. ASSUME NEW e \in Caller \ {c} PROVE Same(e)
  BY <1>0, <1>1, <1>2, CallTypes DEF Same, TypeInv
<1>4. /\ pc'[c] = "publish" /\ verdict'[c] = "none"
      /\ call'[c].kind = "list" /\ call'[c].device = "none"
      /\ slot'["list"].result = "pending"
  <2>1. "list" \in Kind
    BY DEF Kind
  <2> QED
    BY <1>0, <1>1, <2>1 DEF TypeInv, SlotAtStart, NoCall
<1>5. SlotInv(c)'
  BY <1>4 DEF SlotInv, About, Pending
<1> QED
  BY <1>0, <1>1, <1>2, <1>3, <1>4, <1>5, CallerQuiet

(* A call that is left alone by the others keeps apart from them.          *)
LEMMA StaysApart ==
  ASSUME CallInv, NEW c \in Caller, pc[c] # "idle", call'[c] = call[c]
  PROVE  \A e \in Caller \ {c} : pc'[c] # "idle" /\ pc[e] # "idle" =>
            call'[c].kind # call[e].kind /\ call'[c].device # call[e].device
  BY DEF CallInv, ApartInv

LEMMA HearsResult ==
  ASSUME InTime, BaseInv, WayInv, CallInv, NEW c \in Caller, Hears(c) \/ GivesUp(c)
  PROVE  WayInv' /\ CallInv'
<1>0. TypeInv /\ SlotInv(c) /\ c # "none"
  BY GatewayConstants DEF BaseInv, CallInv
<1>1. /\ pc' = [pc EXCEPT ![c] = "finish"] /\ pc[c] = "wait"
      /\ UNCHANGED <<call, slot, verdict, requests, messages>>
  BY DEF Hears, GivesUp, gateway, cloud
<1>2. \/ rc' = [rc EXCEPT ![c] = slot[call[c].kind].result] /\ ~Pending(c)
      \/ rc' = [rc EXCEPT ![c] = "timeout"] /\ Pending(c) /\ ~UnderWay(c)
  BY DEF Hears, GivesUp, Pending, InTime
<1>3. ASSUME NEW e \in Caller \ {c} PROVE Same(e)
  BY <1>0, <1>1, <1>2 DEF Same, TypeInv
<1>4. pc'[c] = "finish" /\ call'[c] = call[c] /\ verdict'[c] = verdict[c] /\ slot' = slot
  BY <1>0, <1>1 DEF TypeInv
<1>5. SlotInv(c)'
  <2>1. CASE ~Pending(c)
    <3>1. rc'[c] = slot[call[c].kind].result
      BY <1>0, <1>2, <2>1 DEF TypeInv
    <3>2. rc'[c] = verdict[c] /\ rc'[c] \in {"ok", "refused"}
      BY <1>0, <1>1, <2>1, <3>1, CallTypes DEF SlotInv, Pending, Result
    <3> QED
      BY <1>0, <1>1, <1>4, <3>2 DEF SlotInv, About, Pending
  <2>2. CASE Pending(c)
    <3>1. rc'[c] = "timeout"
      BY <1>0, <1>2, <2>2 DEF TypeInv
    <3>2. \A i \in DOMAIN messages : messages[i].by # c
      BY <1>2, <2>2 DEF UnderWay, Range
    <3>3. About(c) => verdict[c] = "none"
      BY <1>0, <1>1, <2>2, <3>2 DEF SlotInv
    <3> QED
      BY <1>0, <1>1, <1>4, <3>1, <3>3 DEF SlotInv, About, Pending
  <2> QED
    BY <2>1, <2>2
<1>6. \A e \in Caller \ {c} : pc'[c] # "idle" /\ pc[e] # "idle" =>
            call'[c].kind # call[e].kind /\ call'[c].device # call[e].device
  BY <1>1, <1>4, StaysApart
<1> QED
  BY <1>0, <1>1, <1>2, <1>3, <1>5, <1>6, CallerQuiet

LEMMA FinishResult ==
  ASSUME BaseInv, WayInv, CallInv, NEW c \in Caller, Finish(c)
  PROVE  WayInv' /\ CallInv'
<1>0. TypeInv
  BY DEF BaseInv
<1>1. /\ pc' = [pc EXCEPT ![c] = "idle"] /\ pc[c] = "finish"
      /\ call' = [call EXCEPT ![c] = NoCall] /\ rc' = [rc EXCEPT ![c] = "ok"]
      /\ verdict' = [verdict EXCEPT ![c] = "none"]
      /\ UNCHANGED <<slot, requests, messages>>
  BY DEF Finish
<1>2. ASSUME NEW e \in Caller \ {c} PROVE Same(e)
  BY <1>0, <1>1 DEF Same, TypeInv
<1>3. pc'[c] = "idle"
  BY <1>0, <1>1 DEF TypeInv
<1>4. SlotInv(c)'
  BY <1>3 DEF SlotInv, About
<1> QED
  BY <1>0, <1>1, <1>2, <1>3, <1>4, CallerQuiet

LEMMA PublishResult ==
  ASSUME BaseInv, WayInv, CallInv, NEW c \in Caller, NEW sent \in BOOLEAN, Publish(c, sent)
  PROVE  WayInv' /\ CallInv'
<1>0. TypeInv /\ SlotInv(c) /\ c # "none"
  BY GatewayConstants DEF BaseInv, CallInv
<1>1. pc[c] = "publish" /\ UNCHANGED <<call, slot, verdict, messages>>
  BY DEF Publish, gateway, cloud
<1>2. ASSUME NEW e \in Caller \ {c} PROVE Same(e)
  BY <1>0, <1>1 DEF Same, TypeInv, Publish
<1>3. Pending(c) /\ verdict[c] = "none"
  BY <1>0, <1>1 DEF SlotInv
<1>4. SlotInv(c)'
  <2>1. CASE sent
    <3>1. pc'[c] = "wait"
      BY <1>0, <2>1 DEF TypeInv, Publish
    <3> QED
      BY <1>0, <1>1, <1>3, <3>1 DEF SlotInv, About, Pending
  <2>2. CASE ~sent
    <3>1. pc'[c] = "finish" /\ rc'[c] = "failed"
      BY <1>0, <2>2 DEF TypeInv, Publish
    <3> QED
      BY <1>0, <1>1, <1>3, <3>1 DEF SlotInv, About, Pending
  <2> QED
    BY <2>1, <2>2
<1>5. \A e \in Caller \ {c} : pc'[c] # "idle" /\ pc[e] # "idle" =>
            call'[c].kind # call[e].kind /\ call'[c].device # call[e].device
  BY <1>1, StaysApart
<1>6. CASE ~sent
  <2>1. requests' = requests
    BY <1>6 DEF Publish
  <2> QED
    BY <1>0, <1>1, <1>2, <1>4, <1>5, <2>1, CallerQuiet
<1>7. CASE sent
  <2> DEFINE r == [call |-> call[c], by |-> c]
             n == Len(requests)
             S == {c}
  <2>1. requests' = Append(requests, r) /\ pc' = [pc EXCEPT ![c] = "wait"]
    BY <1>7 DEF Publish
  <2>2. r \in Request
    BY <1>0 DEF TypeInv, Request
  <2>3. /\ DOMAIN requests' = 1 .. n + 1 /\ DOMAIN requests = 1 .. n /\ n \in Nat
        /\ \A i \in 1 .. n : requests'[i] = requests[i]
        /\ requests'[n + 1] = r
    <3> HIDE DEF r
    <3> QED
      BY <1>0, <2>1, <2>2, AppendElements DEF TypeInv
  <2>4. /\ \A i \in DOMAIN requests' : \/ i \in DOMAIN requests /\ requests'[i] = requests[i]
                                       \/ i = n + 1 /\ requests'[i] = r
        /\ r.by = c /\ r.call = call[c]
    BY <2>3
  <2>5. /\ \A i \in DOMAIN requests : requests[i].by # c
        /\ \A i \in DOMAIN messages : messages[i].by # c
    BY <1>1, NothingUnderWay
  <2> HIDE DEF n, r
  <2>6. ASSUME NEW i \in DOMAIN requests' PROVE RequestFits(i)'
    <3>1. CASE i \in DOMAIN requests /\ requests'[i] = requests[i]
      <4>1. requests[i].by \in Caller \ S /\ RequestFits(i) /\ Same(requests[i].by)
        BY <1>0, <1>2, <2>5, <3>1, Senders DEF WayInv
      <4> QED
        BY <3>1, <4>1 DEF RequestFits, Same, Pending
    <3>2. CASE i = n + 1 /\ requests'[i] = r
      <4>1. pc'[c] = "wait"
        BY <1>0, <2>1 DEF TypeInv
      <4> QED
        BY <1>1, <1>3, <2>4, <3>2, <4>1 DEF RequestFits, Pending
    <3> QED
      BY <2>4, <3>1, <3>2
  <2>7. ASSUME NEW i \in DOMAIN messages, messages[i].by # "none" PROVE AnswerFits(i)'
    <3>1. messages[i].by \in Caller \ S /\ AnswerFits(i) /\ Same(messages[i].by)
      BY <1>0, <1>2, <2>5, <2>7, Senders DEF WayInv
    <3> QED
      BY <1>1, <3>1 DEF AnswerFits, Same, Pending
  <2>8. /\ \A i, j \in DOMAIN requests' : requests'[i].by = requests'[j].by => i = j
        /\ \A i \in DOMAIN requests', j \in DOMAIN messages : requests'[i].by # messages[j].by
    BY <2>4, <2>5 DEF WayInv
  <2>9. WayInv'
    BY <1>1, <2>6, <2>7, <2>8 DEF WayInv
  <2>10. /\ S \in SUBSET Caller /\ (\A e \in Caller \ S : Same(e)) /\ \A e \in S : SlotInv(e)'
         /\ \A e \in S, f \in Caller : e # f /\ pc'[e] # "idle" /\ pc'[f] # "idle" =>
              call'[e].kind # call'[f].kind /\ call'[e].device # call'[f].device
    BY <1>1, <1>2, <1>4, <1>5 DEF Same
  <2> HIDE DEF S
  <2> QED
    BY <1>1, <2>9, <2>10, CallKept
<1> QED
  BY <1>6, <1>7

LEMMA AnswersResult ==
  ASSUME BaseInv, WayInv, CallInv, NEW result \in {"ok", "refused"}, Answers(result)
  PROVE  WayInv' /\ CallInv'
<1> DEFINE r == Head(requests)
           m == Answer(r, result)
           n == Len(messages)
<1>0. TypeInv
  BY DEF BaseInv
<1>1. /\ r = requests[1] /\ 1 \in DOMAIN requests /\ r \in Request
      /\ requests' = Tail(requests)
      /\ \A i \in DOMAIN requests' : i \in Nat /\ i + 1 \in DOMAIN requests /\ requests'[i] = requests[i + 1]
      /\ \A i \in DOMAIN requests' : i + 1 # 1
  BY <1>0, TailElements DEF TypeInv, Answers
<1>2. m \in Message /\ r.by \in Caller
  BY <1>1, AnswerIsMessage
<1>c. PICK c \in Caller : c = r.by
  BY <1>2
<1> DEFINE S == {c}
<1>3. m.by = c /\ m.type = r.call.kind /\ m.device = r.call.device /\ m.result = result /\ c # "none"
  BY <1>c, GatewayConstants DEF Answer
<1>4. UNCHANGED <<pc, call, rc, slot>> /\ verdict' = [verdict EXCEPT ![c] = result]
      /\ messages' = Append(messages, m)
  BY <1>c DEF Answers, Answer, gateway, caller
<1> HIDE DEF m
<1>5. /\ DOMAIN messages' = 1 .. n + 1 /\ DOMAIN messages = 1 .. n /\ n \in Nat
      /\ \A i \in 1 .. n : messages'[i] = messages[i]
      /\ messages'[n + 1] = m
  BY <1>0, <1>2, <1>4, AppendElements DEF TypeInv
<1>6. /\ \A i \in DOMAIN messages' : \/ i \in DOMAIN messages /\ messages'[i] = messages[i]
                                     \/ i = n + 1 /\ messages'[i] = m
      /\ \A i \in DOMAIN messages : i \in DOMAIN messages' /\ messages'[i] = messages[i]
      /\ n + 1 \in DOMAIN messages'
  BY <1>5
<1>7. pc[c] = "wait" /\ call[c] = r.call /\ verdict[c] = "none" /\ Pending(c)
  BY <1>1, <1>c DEF WayInv, RequestFits
<1>8. /\ \A i \in DOMAIN messages : messages[i].by # c
      /\ \A i \in DOMAIN requests' : requests'[i].by # c
  BY <1>1, <1>c DEF WayInv
<1> HIDE DEF n, r
<1>9. ASSUME NEW e \in Caller \ {c} PROVE Same(e)
  BY <1>0, <1>4 DEF Same, TypeInv
<1>10. verdict'[c] = result
  BY <1>0, <1>2, <1>4 DEF TypeInv
<1>11. ASSUME NEW i \in DOMAIN requests' PROVE RequestFits(i)'
  <2>1. requests'[i].by \in Caller \ {c} /\ RequestFits(i + 1) /\ Same(requests'[i].by)
    BY <1>0, <1>1, <1>8, <1>9, Senders DEF WayInv
  <2> QED
    BY <1>1, <2>1 DEF RequestFits, Same, Pending
<1>12. ASSUME NEW i \in DOMAIN messages', messages'[i].by # "none" PROVE AnswerFits(i)'
  <2>1. CASE i \in DOMAIN messages /\ messages'[i] = messages[i]
    <3>1. messages[i].by \in Caller \ {c} /\ AnswerFits(i) /\ Same(messages[i].by)
      BY <1>0, <1>8, <1>9, <1>12, <2>1, Senders DEF WayInv
    <3> QED
      BY <2>1, <3>1 DEF AnswerFits, Same, Pending
  <2>2. CASE messages'[i] = m
    BY <1>3, <1>4, <1>7, <1>10, <2>2 DEF AnswerFits, Pending
  <2> QED
    BY <1>6, <2>1, <2>2
<1>13. WayInv'
  <2>1. \A i, j \in DOMAIN requests' : requests'[i].by = requests'[j].by => i = j
    <3> SUFFICES ASSUME NEW i \in DOMAIN requests', NEW j \in DOMAIN requests',
                        requests'[i].by = requests'[j].by
                 PROVE  i = j
      OBVIOUS
    <3>1. i + 1 = j + 1
      BY <1>1 DEF WayInv
    <3> QED
      BY <1>1, <3>1
  <2>2. \A i, j \in DOMAIN messages' : messages'[i].by = messages'[j].by /\ messages'[i].by # "none" => i = j
    BY <1>3, <1>6, <1>8 DEF WayInv
  <2>3. \A i \in DOMAIN requests', j \in DOMAIN messages' : requests'[i].by # messages'[j].by
    BY <1>1, <1>3, <1>6, <1>8 DEF WayInv
  <2> QED
    BY <1>11, <1>12, <2>1, <2>2, <2>3 DEF WayInv
<1>14. SlotInv(c)'
  <2>1. \E i \in DOMAIN messages' : messages'[i].by = c
    BY <1>3, <1>5, <1>6
  <2>2. SlotInv(c)
    BY <1>2 DEF CallInv
  <2> QED
    BY <1>4, <1>7, <2>1, <2>2 DEF SlotInv, About, Pending
<1>15. /\ S \in SUBSET Caller /\ (\A e \in Caller \ S : Same(e)) /\ \A e \in S : SlotInv(e)'
       /\ \A e \in Caller \ S : (\E i \in DOMAIN messages : messages[i].by = e) =>
                                (\E i \in DOMAIN messages' : messages'[i].by = e)
  BY <1>2, <1>6, <1>9, <1>14
<1>16. \A e \in S, f \in Caller : e # f /\ pc'[e] # "idle" /\ pc'[f] # "idle" =>
              call'[e].kind # call'[f].kind /\ call'[e].device # call'[f].device
  BY <1>2, <1>4 DEF CallInv, ApartInv
<1> HIDE DEF S
<1> QED
  BY <1>13, <1>15, <1>16, CallKept

LEMMA RequestLostResult ==
  ASSUME BaseInv, WayInv, CallInv, RequestLost
  PROVE  WayInv' /\ CallInv'
<1>0. TypeInv
  BY DEF BaseInv
<1>1. /\ UNCHANGED <<pc, call, rc, slot, verdict, messages>>
      /\ \A i \in DOMAIN requests' : i \in Nat /\ i + 1 \in DOMAIN requests /\ requests'[i] = requests[i + 1]
  BY <1>0, TailElements DEF TypeInv, RequestLost, gateway, caller, cloud
<1>2. \A i \in DOMAIN requests' : RequestFits(i)'
  BY <1>1 DEF WayInv, RequestFits, Pending
<1>3. \A i \in DOMAIN messages : messages[i].by # "none" => AnswerFits(i)'
  BY <1>1 DEF WayInv, AnswerFits, Pending
<1>4. \A i, j \in DOMAIN requests' : requests'[i].by = requests'[j].by => i = j
  <2> SUFFICES ASSUME NEW i \in DOMAIN requests', NEW j \in DOMAIN requests',
                      requests'[i].by = requests'[j].by
               PROVE  i = j
    OBVIOUS
  <2>1. i + 1 = j + 1
    BY <1>1 DEF WayInv
  <2> QED
    BY <1>1, <2>1
<1>5. WayInv'
  BY <1>1, <1>2, <1>3, <1>4 DEF WayInv
<1> QED
  BY <1>1, <1>5 DEF CallInv, ApartInv, SlotInv, About, Pending

LEMMA NoticeResult ==
  ASSUME BaseInv, WayInv, CallInv, NEW type, NEW d, Noticed(type, d), Notice(type, d)
  PROVE  WayInv' /\ CallInv'
<1> DEFINE m == Note(type, d)
           n == Len(messages)
<1>0. TypeInv
  BY DEF BaseInv
<1>1. UNCHANGED <<pc, call, rc, slot, verdict, requests>> /\ messages' = Append(messages, m)
  BY DEF Notice, Note, gateway, caller
<1>2. m \in Message /\ m.by = "none"
  BY NoteIsMessage DEF Note
<1> HIDE DEF m
<1>3. /\ DOMAIN messages' = 1 .. n + 1 /\ DOMAIN messages = 1 .. n /\ n \in Nat
      /\ \A i \in 1 .. n : messages'[i] = messages[i]
      /\ messages'[n + 1] = m
  BY <1>0, <1>1, <1>2, AppendElements DEF TypeInv
<1>4. /\ \A i \in DOMAIN messages' : \/ i \in DOMAIN messages /\ messages'[i] = messages[i]
                                     \/ messages'[i].by = "none"
      /\ \A i \in DOMAIN messages : i \in DOMAIN messages' /\ messages'[i] = messages[i]
  BY <1>2, <1>3
<1> HIDE DEF n
<1>5. \A i \in DOMAIN requests : requests[i].by # "none" /\ RequestFits(i)'
  BY <1>0, <1>1, Senders, GatewayConstants DEF WayInv, RequestFits, Pending
<1>6. \A i \in DOMAIN messages' : messages'[i].by # "none" => AnswerFits(i)'
  BY <1>1, <1>4 DEF WayInv, AnswerFits, Pending
<1>7. WayInv'
  <2>1. \A i, j \in DOMAIN messages' : messages'[i].by = messages'[j].by /\ messages'[i].by # "none" => i = j
    BY <1>4 DEF WayInv
  <2>2. \A i \in DOMAIN requests, j \in DOMAIN messages' : requests[i].by # messages'[j].by
    BY <1>4, <1>5 DEF WayInv
  <2> QED
    BY <1>1, <1>5, <1>6, <2>1, <2>2 DEF WayInv
<1>8. \A e \in Caller : Same(e) /\ ((\E i \in DOMAIN messages : messages[i].by = e) =>
                                    (\E i \in DOMAIN messages' : messages'[i].by = e))
  BY <1>1, <1>4 DEF Same
<1> DEFINE S == {}
<1>9. /\ S \in SUBSET Caller /\ \A e \in S : SlotInv(e)'
      /\ \A e \in Caller \ S : Same(e) /\ ((\E i \in DOMAIN messages : messages[i].by = e) =>
                                           (\E i \in DOMAIN messages' : messages'[i].by = e))
      /\ \A e \in S, f \in Caller : e # f /\ pc'[e] # "idle" /\ pc'[f] # "idle" =>
              call'[e].kind # call'[f].kind /\ call'[e].device # call'[f].device
  BY <1>8
<1> HIDE DEF S
<1> QED
  BY <1>7, <1>9, CallKept

LEMMA DeliverResult ==
  ASSUME InTime, BaseInv, WayInv, CallInv, NEW lost \in BOOLEAN, Deliver(lost)
  PROVE  WayInv' /\ CallInv'
<1> DEFINE m == messages[1]
<1>0. TypeInv /\ MessageInv
  BY DEF BaseInv
<1>1. /\ m = Head(messages) /\ 1 \in DOMAIN messages /\ messages' = Tail(messages)
      /\ \A i \in DOMAIN messages' : i \in Nat /\ i + 1 \in DOMAIN messages /\ messages'[i] = messages[i + 1]
      /\ \A i \in DOMAIN messages' : i + 1 # 1
      /\ \A i \in DOMAIN messages : i = 1 \/ (i - 1 \in DOMAIN messages' /\ messages'[i - 1] = messages[i])
  BY <1>0, TailElements DEF TypeInv, Deliver
<1>2. UNCHANGED <<pc, call, rc, verdict, requests>>
  BY DEF Deliver, cloud
<1>3. slot' = IF m.type \in Kind \ {"list"} /\ Matches(m.device, slot[m.type].client_id)
              THEN [slot EXCEPT ![m.type].result = m.result] ELSE slot
  BY <1>1 DEF Deliver, Handle, InTime
<1>4. m.by \in Caller \cup {"none"} /\ (m.by = "none" <=> m.type \notin Kind)
  BY <1>0, <1>1, Senders DEF MessageInv
<1>5. m.by # "none" => AnswerFits(1)
  BY <1>1 DEF WayInv
<1>6. ASSUME NEW e \in Caller, e # m.by PROVE Same(e)
  <2>1. CASE m.by = "none"
    BY <1>2, <1>3, <1>4, <2>1 DEF Same
  <2>2. CASE m.by # "none"
    <3>1. m.by \in Caller /\ pc[m.by] = "wait" /\ m.type = call[m.by].kind
      BY <1>4, <1>5, <2>2 DEF AnswerFits
    <3>2. pc[e] # "idle" => call[e].kind # m.type
      BY <1>6, <3>1 DEF CallInv, ApartInv
    <3> QED
      BY <1>0, <1>2, <1>3, <3>2, CallTypes DEF Same, TypeInv
  <2> QED
    BY <2>1, <2>2
<1>7. ASSUME NEW i \in DOMAIN requests PROVE RequestFits(i)' /\ requests[i].by # "none"
  <2>1. requests[i].by \in Caller /\ requests[i].by # m.by /\ RequestFits(i) /\ Same(requests[i].by)
    BY <1>0, <1>1, <1>6, Senders DEF WayInv
  <2> QED
    BY <1>2, <2>1, GatewayConstants DEF RequestFits, Same, Pending
<1>8. ASSUME NEW i \in DOMAIN messages', messages'[i].by # "none" PROVE AnswerFits(i)' /\ messages'[i].by # m.by
  <2>1. i + 1 \in DOMAIN messages /\ messages'[i] = messages[i + 1] /\ i + 1 # 1
    BY <1>1
  <2>2. messages'[i].by \in Caller /\ messages'[i].by # m.by /\ AnswerFits(i + 1)
    BY <1>0, <1>1, <1>8, <2>1, Senders DEF WayInv
  <2>3. Same(messages'[i].by)
    BY <1>6, <2>2
  <2> QED
    BY <2>1, <2>2, <2>3 DEF AnswerFits, Same, Pending
<1>9. WayInv'
  <2>1. ASSUME NEW i \in DOMAIN messages', NEW j \in DOMAIN messages',
               messages'[i].by = messages'[j].by, messages'[i].by # "none"
        PROVE  i = j
    <3>1. i + 1 = j + 1
      BY <1>1, <2>1 DEF WayInv
    <3> QED
      BY <1>1, <3>1
  <2>2. \A i \in DOMAIN requests, j \in DOMAIN messages' : requests[i].by # messages'[j].by
    BY <1>1 DEF WayInv
  <2> QED
    BY <1>2, <1>7, <1>8, <2>1, <2>2 DEF WayInv
<1>10. ASSUME NEW e \in Caller, e # m.by, NEW i \in DOMAIN messages, messages[i].by = e
       PROVE  \E j \in DOMAIN messages' : messages'[j].by = e
  BY <1>1, <1>10
<1>11. CASE m.by = "none"
  <2> DEFINE S == {}
  <2>1. /\ S \in SUBSET Caller /\ \A e \in S : SlotInv(e)'
        /\ \A e \in Caller \ S : Same(e) /\ ((\E i \in DOMAIN messages : messages[i].by = e) =>
                                             (\E i \in DOMAIN messages' : messages'[i].by = e))
        /\ \A e \in S, f \in Caller : e # f /\ pc'[e] # "idle" /\ pc'[f] # "idle" =>
              call'[e].kind # call'[f].kind /\ call'[e].device # call'[f].device
    BY <1>6, <1>10, <1>11, GatewayConstants
  <2> HIDE DEF S
  <2> QED
    BY <1>9, <2>1, CallKept
<1>12. CASE m.by # "none"
  <2>1. PICK c \in Caller : c = m.by
    BY <1>4, <1>12
  <2> DEFINE S == {c}
  <2>2. /\ pc[c] = "wait" /\ m.type = call[c].kind /\ m.device = call[c].device
        /\ verdict[c] = m.result /\ Pending(c) /\ SlotInv(c)
    BY <1>5, <1>12, <2>1 DEF AnswerFits, CallInv
  <2>3. SlotInv(c)'
    <3>1. CASE call[c].kind = "list"
      <4>1. slot' = slot
        BY <1>3, <2>2, <3>1
      <4> QED
        BY <1>2, <2>2, <3>1, <4>1 DEF SlotInv, About, Pending
    <3>2. CASE call[c].kind # "list"
      <4>1. m.type \in Kind \ {"list"} /\ slot[m.type].client_id = m.device
        BY <1>0, <2>2, <3>2, CallTypes DEF SlotInv, About
      <4>2. slot' = [slot EXCEPT ![m.type].result = m.result]
        BY <1>3, <4>1 DEF Matches
      <4>3. slot'[m.type].client_id = m.device /\ slot'[m.type].result = m.result
        BY <1>0, <4>1, <4>2 DEF TypeInv
      <4>4. m.result # "pending"
        BY <1>0, <1>1, Senders
      <4> QED
        BY <1>2, <2>2, <4>3, <4>4 DEF SlotInv, About, Pending
    <3> QED
      BY <3>1, <3>2
  <2>4. /\ S \in SUBSET Caller /\ \A e \in S : SlotInv(e)'
        /\ \A e \in Caller \ S : Same(e) /\ ((\E i \in DOMAIN messages : messages[i].by = e) =>
                                             (\E i \in DOMAIN messages' : messages'[i].by = e))
    BY <1>6, <1>10, <2>1, <2>3
  <2>5. \A e \in S, f \in Caller : e # f /\ pc'[e] # "idle" /\ pc'[f] # "idle" =>
              call'[e].kind # call'[f].kind /\ call'[e].device # call'[f].device
    BY <1>2 DEF CallInv, ApartInv
  <2> HIDE DEF S
  <2> QED
    BY <1>9, <2>4, <2>5, CallKept
<1> QED
  BY <1>11, <1>12

LEMMA ResultStep == InTime /\ BaseInv /\ WayInv /\ CallInv /\ [Next]_vars => WayInv' /\ CallInv'
<1> SUFFICES ASSUME InTime, BaseInv, WayInv, CallInv, [Next]_vars PROVE WayInv' /\ CallInv'
  OBVIOUS
<1>1. ASSUME Idle', requests' = <<>>, messages' = <<>> PROVE WayInv' /\ CallInv'
  <2>1. DOMAIN <<>> = {}
    OBVIOUS
  <2>2. WayInv'
    BY <1>1, <2>1 DEF WayInv
  <2>3. CallInv'
    BY <1>1 DEF CallInv, ApartInv, SlotInv, Idle, About
  <2> QED
    BY <2>2, <2>3
<1>2. CASE \E subscribed \in BOOLEAN : Construct(subscribed)
  BY <1>1, <1>2 DEF Construct, BaseInv, UpInv, Idle, caller
<1>3. CASE Destroy
  BY <1>1, <1>3 DEF Destroy, Idle, caller
<1>10. ASSUME UNCHANGED <<pc, call, rc, verdict, slot, requests, messages>>
       PROVE  WayInv' /\ CallInv'
  BY <1>10 DEF WayInv, RequestFits, AnswerFits, CallInv, ApartInv, SlotInv, About, Pending
<1>11. ASSUME NEW c \in Caller, Enter(c) \/ TurnsBack(c) PROVE WayInv' /\ CallInv'
  BY <1>10, <1>11 DEF Enter, TurnsBack, gateway, cloud
<1>4. CASE \E c \in Caller :
              \/ \E kind \in Kind \ {"list"}, d \in Device : Begin(c, kind, d)
              \/ Enter(c) \/ TurnsBack(c) \/ BeginList(c) \/ (\E sent \in BOOLEAN : Publish(c, sent))
              \/ Hears(c) \/ GivesUp(c) \/ Finish(c)
  BY <1>4, <1>11, BeginResult, BeginListResult, PublishResult, HearsResult, FinishResult
<1>5. CASE \/ \E type \in {"change_bind", "change_unbind"}, d \in Device : Notice(type, d)
           \/ \E type \in {"unbind_all", "search", "describe"} : Notice(type, NoDevice)
  BY <1>5, NoticeResult DEF Noticed, Change
<1>6. CASE \E result \in {"ok", "refused"} : Answers(result)
  BY <1>6, AnswersResult
<1>7. CASE RequestLost
  BY <1>7, RequestLostResult
<1>8. CASE \E lost \in BOOLEAN : Deliver(lost)
  BY <1>8, DeliverResult
<1>9. CASE UNCHANGED vars
  BY <1>9, <1>10 DEF vars, gateway, caller, cloud
<1> QED
  BY <1>2, <1>3, <1>4, <1>5, <1>6, <1>7, <1>8, <1>9 DEF Next

(* A call about a sub-device (gateway_publish_sync, subdev_online.c,       *)
(* subdev_offline.c, subdev_bind.c, subdev_unbind.c) returns the verdict   *)
(* of the cloud on its own request, or a failure if there is none, for any *)
(* number of threads, whichever names are prefixes of others and whatever  *)
(* the cloud says meanwhile, unbind_all included: as long as answers       *)
(* come in time and calls of a kind or about a sub-device do not overlap.  *)
THEOREM ResultsTrue ==
  ASSUME InTime
  PROVE  Spec => []ResultTrue
<1>1. Init => WayInv /\ CallInv
  <2>1. DOMAIN <<>> = {}
    OBVIOUS
  <2> QED
    BY <2>1 DEF Init, WayInv, CallInv, ApartInv, SlotInv, About
<1>2. BaseInv /\ CallInv => ResultTrue
  <2> SUFFICES ASSUME BaseInv, CallInv, NEW c \in Caller, pc[c] = "finish", call[c].kind # "list"
               PROVE  CASE rc[c] = "ok"      -> verdict[c] = "ok"
                        [] rc[c] = "refused" -> verdict[c] = "refused"
                        [] OTHER             -> verdict[c] = "none"
    BY DEF ResultTrue
  <2>1. SlotInv(c)
    BY DEF CallInv
  <2> QED
    BY <2>1 DEF SlotInv
<1>3. BaseInv /\ WayInv /\ CallInv /\ [Next]_vars => WayInv' /\ CallInv'
  BY ResultStep
<1> QED
  BY <1>1, <1>2, <1>3, BaseHolds, PTL DEF Spec

-----------------------------------------------------------------------------
(***************************************************************************)
(* The sessions.                                                           *)
(***************************************************************************)
(* Beside InTime: sub-devices are unbound while no call is under way and   *)
(* when they are not online, and the application lets one thread at a time *)
(* into the session list.                                                  *)
Orderly == InTime /\ Adversity \cap {"unbind_all_in_call", "unbind_online", "list_race"} = {}

AllPending == \E i \in DOMAIN messages : messages[i].type = "unbind_all"

(* A session is held inside a call only, and not freed there.              *)
FreeInv == ~fault /\ \A c \in Caller : held[c] # "freed" /\ (held[c] = "live" => About(c))

(* While unbind_all is on its way nothing is online, no call under way and *)
(* nobody in the session list.                                             *)
AllInv == AllPending => online = {} /\ in_list = {} /\ \A c \in Caller : ~About(c)

AloneInv == \A c, e \in in_list : c = e

(* The session of a sub-device is what the cloud holds, unless a call is   *)
(* about it; then the verdict tells how the two differ.                    *)
Agrees(d) == session[d] = IF d \in online THEN "online" ELSE "none"

CallAgrees(c) ==
    LET d == call[c].device
    IN  CASE call[c].kind = "online"  -> session[d] = "init" /\ (d \in online <=> verdict[c] = "ok")
          [] call[c].kind = "offline" -> session[d] = "online" /\ (d \in online <=> verdict[c] # "ok")
          [] call[c].kind = "bind"    -> Agrees(d)
          [] OTHER                    -> session[d] = "none" /\ d \notin online

AgreeInv ==
    /\ \A d \in Device : ~AllPending /\ (\A c \in Caller : About(c) => call[c].device # d) => Agrees(d)
    /\ \A c \in Caller : About(c) => CallAgrees(c)

SessionInv == FreeInv /\ AllInv /\ AloneInv /\ AgreeInv

(* A step that is about no sub-device.                                     *)
LEMMA SessionQuiet ==
  ASSUME SessionInv, UNCHANGED <<session, online, held>>, ~fault', AllPending' <=> AllPending,
         in_list' \subseteq in_list,
         \A e \in Caller : /\ About(e)' <=> About(e)
                           /\ About(e) => call'[e] = call[e] /\ verdict'[e] = verdict[e]
  PROVE  SessionInv'
<1>1. FreeInv' /\ AllInv' /\ AloneInv'
  BY DEF SessionInv, FreeInv, AllInv, AloneInv
<1>2. \A d \in Device : Agrees(d)' <=> Agrees(d)
  BY DEF Agrees
<1>3. ASSUME NEW c \in Caller, About(c) PROVE CallAgrees(c)'
  <2>1. CallAgrees(c) /\ call'[c] = call[c] /\ verdict'[c] = verdict[c]
    BY <1>3 DEF SessionInv, AgreeInv
  <2> QED
    BY <2>1 DEF CallAgrees, Agrees
<1> QED
  BY <1>1, <1>2, <1>3 DEF SessionInv, AgreeInv

(* A step of one call and the sub-device it is about.                      *)
LEMMA SessionMoves ==
  ASSUME SessionInv, NEW c \in Caller, NEW d \in Device, ~AllPending', FreeInv',
         ~AllPending, in_list' \subseteq in_list,
         \A f \in Device \ {d} : session'[f] = session[f] /\ (f \in online' <=> f \in online),
         \A e \in Caller \ {c} :
            /\ About(e)' <=> About(e)
            /\ About(e) => /\ call'[e] = call[e] /\ verdict'[e] = verdict[e]
                           /\ call[e].device # d /\ call[e].device \in Device,
         About(c) => call[c].device = d,
         About(c)' => call'[c].device = d /\ CallAgrees(c)',
         ~About(c)' => Agrees(d)'
  PROVE  SessionInv'
<1>1. ASSUME NEW f \in Device, \A e \in Caller : About(e)' => call'[e].device # f
      PROVE  Agrees(f)'
  <2>1. CASE f = d
    BY <1>1, <2>1
  <2>2. CASE f # d
    <3>1. \A e \in Caller : About(e) => call[e].device # f
      BY <1>1, <2>2
    <3>2. Agrees(f)
      BY <3>1 DEF SessionInv, AgreeInv
    <3> QED
      BY <2>2, <3>2 DEF Agrees
  <2> QED
    BY <2>1, <2>2
<1>2. ASSUME NEW e \in Caller \ {c}, About(e)' PROVE CallAgrees(e)'
  <2>1. /\ CallAgrees(e) /\ call'[e] = call[e] /\ verdict'[e] = verdict[e]
        /\ call[e].device \in Device \ {d}
    BY <1>2 DEF SessionInv, AgreeInv
  <2> QED
    BY <2>1 DEF CallAgrees, Agrees
<1> QED
  BY <1>1, <1>2 DEF SessionInv, AgreeInv, AllInv, AloneInv

(* A thread enters the list or turns back.                                 *)
LEMMA ListSession ==
  ASSUME Orderly, BaseInv, SessionInv, NEW c \in Caller, Enter(c) \/ TurnsBack(c)
  PROVE  SessionInv'
<1>1. UNCHANGED <<pc, call, held, verdict, online, messages>>
  BY DEF Enter, TurnsBack, cloud
<1>2. (AllPending' <=> AllPending) /\ \A e \in Caller : About(e)' <=> About(e)
  BY <1>1 DEF AllPending, About
<1>3. CASE Enter(c)
  <2>1. in_list = {} /\ in_list' = {c} /\ UNCHANGED <<session, fault>>
    BY <1>3 DEF Enter, Orderly, gateway
  <2>2. ~AllPending
    <3>1. CASE Removes(c)
      <4>1. About(c)
        BY <3>1 DEF Removes, About
      <4> QED
        BY <4>1 DEF SessionInv, AllInv
    <3>2. CASE ~Removes(c)
      <4>1. \A m \in Range(messages) : m.type # "unbind_all"
        BY <1>3, <3>2 DEF Enter, Orderly
      <4> QED
        BY <4>1 DEF AllPending, Range
    <3> QED
      BY <3>1, <3>2
  <2>3. AloneInv' /\ AllInv' /\ FreeInv'
    BY <1>1, <1>2, <2>1, <2>2 DEF AloneInv, AllInv, SessionInv, FreeInv
  <2>4. AgreeInv'
    BY <1>1, <1>2, <2>1 DEF SessionInv, AgreeInv, Agrees, CallAgrees
  <2> QED
    BY <2>3, <2>4 DEF SessionInv
<1>4. CASE TurnsBack(c)
  <2>1. c \in in_list => in_list = {c}
    BY DEF SessionInv, AloneInv
  <2>2. Leaves(c, session, fault)
    BY <1>4 DEF TurnsBack
  <2>3. session' = session /\ fault' = fault /\ in_list' \subseteq in_list
    BY <2>1, <2>2, LeavesAlone
  <2>4. ~fault'
    BY <2>3 DEF SessionInv, FreeInv
  <2> QED
    BY <1>1, <1>2, <2>3, <2>4, SessionQuiet
<1> QED
  BY <1>3, <1>4

LEMMA BeginSession ==
  ASSUME Orderly, BaseInv, CallInv, SessionInv,
         NEW c \in Caller, NEW kind \in Kind \ {"list"}, NEW d \in Device, Begin(c, kind, d)
  PROVE  SessionInv'
<1>0. TypeInv
  BY DEF BaseInv
<1>1. /\ pc' = [pc EXCEPT ![c] = "publish"] /\ pc[c] = "idle"
      /\ call' = [call EXCEPT ![c] = [kind |-> kind, device |-> d]]
      /\ verdict' = [verdict EXCEPT ![c] = "none"]
      /\ held' = [held EXCEPT ![c] = IF kind \in {"online", "offline"} THEN "live" ELSE "none"]
      /\ session' = IF kind = "online" /\ session[d] = "none"
                    THEN [session EXCEPT ![d] = "init"] ELSE session
      /\ UNCHANGED <<online, messages, fault>> /\ in_list' \subseteq in_list
  <2> DEFINE after == IF kind = "online" /\ session[d] = "none"
                      THEN [session EXCEPT ![d] = "init"] ELSE session
  <2>1. c \in in_list => in_list = {c}
    BY DEF SessionInv, AloneInv
  <2>2. Leaves(c, after, fault)
    BY DEF Begin
  <2> HIDE DEF after
  <2>3. session' = after /\ fault' = fault /\ in_list' \subseteq in_list
    BY <2>1, <2>2, LeavesAlone
  <2> QED
    BY <2>3 DEF Begin, after
<1>2. \A e \in Caller : pc[e] = "idle" \/ call[e].device # d
  BY DEF Begin, Orderly, InTime
<1>3. ~AllPending /\ ~AllPending'
  <2>1. \A i \in DOMAIN messages : messages[i].type # "unbind_all"
    BY DEF Begin, Orderly, Range
  <2> QED
    BY <1>1, <2>1 DEF AllPending
<1>4. Agrees(d)
  BY <1>2, <1>3 DEF SessionInv, AgreeInv, About
<1>5. pc'[c] = "publish" /\ call'[c].kind = kind /\ call'[c].device = d /\ verdict'[c] = "none"
  BY <1>0, <1>1 DEF TypeInv
<1>6. CallAgrees(c)'
  <2>1. CASE kind = "online"
    <3>1. session[d] = "none" /\ d \notin online
      BY <1>4, <2>1 DEF Begin, Refuses, Agrees
    <3>2. session'[d] = "init"
      BY <1>0, <1>1, <2>1, <3>1 DEF TypeInv
    <3> QED
      BY <1>1, <1>5, <2>1, <3>1, <3>2 DEF CallAgrees
  <2>2. CASE kind = "offline"
    <3>1. session[d] = "online" /\ d \in online
      BY <1>4, <2>2 DEF Begin, Refuses, Agrees
    <3> QED
      BY <1>1, <1>5, <2>2, <3>1 DEF CallAgrees
  <2>3. CASE kind = "bind"
    BY <1>1, <1>4, <1>5, <2>3 DEF CallAgrees, Agrees
  <2>4. CASE kind = "unbind"
    <3>1. session[d] = "none" /\ d \notin online
      BY <1>4, <2>4 DEF Begin, Orderly, Agrees
    <3> QED
      BY <1>1, <1>5, <2>4, <3>1 DEF CallAgrees
  <2> QED
    BY <2>1, <2>2, <2>3, <2>4 DEF Kind
<1>7. ASSUME NEW e \in Caller \ {c}
      PROVE  /\ About(e)' <=> About(e)
             /\ About(e) => /\ call'[e] = call[e] /\ verdict'[e] = verdict[e]
                            /\ call[e].device # d /\ call[e].device \in Device
  <2>1. pc'[e] = pc[e] /\ call'[e] = call[e] /\ verdict'[e] = verdict[e]
    BY <1>0, <1>1 DEF TypeInv
  <2> QED
    BY <1>0, <1>2, <2>1, CallTypes DEF About
<1>8. About(c)' /\ ~About(c)
  BY <1>1, <1>5 DEF About
<1>9. FreeInv'
  <2>1. held'[c] # "freed" /\ \A e \in Caller \ {c} : held'[e] = held[e]
    BY <1>0, <1>1 DEF TypeInv
  <2> QED
    BY <1>1, <1>7, <1>8, <2>1 DEF SessionInv, FreeInv
<1>10. \A f \in Device \ {d} : session'[f] = session[f] /\ (f \in online' <=> f \in online)
  BY <1>0, <1>1 DEF TypeInv
<1> QED
  BY <1>1, <1>3, <1>5, <1>6, <1>7, <1>8, <1>9, <1>10, SessionMoves

LEMMA FinishSession ==
  ASSUME BaseInv, CallInv, SessionInv, NEW c \in Caller, Finish(c)
  PROVE  SessionInv'
<1>0. TypeInv /\ SlotInv(c)
  BY DEF BaseInv, CallInv
<1> DEFINE kind == call[c].kind
<1>1. /\ pc' = [pc EXCEPT ![c] = "idle"] /\ pc[c] = "finish"
      /\ call' = [call EXCEPT ![c] = NoCall]
      /\ held' = [held EXCEPT ![c] = "none"] /\ verdict' = [verdict EXCEPT ![c] = "none"]
      /\ UNCHANGED <<online, messages>>
  BY DEF Finish
<1> DEFINE after == IF kind = "list" THEN session
                    ELSE [session EXCEPT ![call[c].device] = SessionAfter(kind, rc[c] = "ok", @)]
           bad == fault \/ (rc[c] = "ok" /\ held[c] = "freed")
<1>8. session' = after /\ fault' = bad /\ in_list' \subseteq in_list
  <2>1. c \in in_list => in_list = {c}
    BY DEF SessionInv, AloneInv
  <2>2. Leaves(c, after, bad)
    BY DEF Finish
  <2> HIDE DEF after, bad
  <2> QED
    BY <2>1, <2>2, LeavesAlone
<1>2. ~fault'
  <2>1. ~fault /\ held[c] # "freed"
    BY DEF SessionInv, FreeInv
  <2> QED
    BY <1>8, <2>1
<1>3. pc'[c] = "idle" /\ ~About(c)'
  BY <1>0, <1>1 DEF TypeInv, About
<1>4. ASSUME NEW e \in Caller \ {c}
      PROVE  /\ About(e)' <=> About(e)
             /\ call'[e] = call[e] /\ verdict'[e] = verdict[e] /\ held'[e] = held[e]
  BY <1>0, <1>1 DEF TypeInv, About
<1>5. AllPending' <=> AllPending
  BY <1>1 DEF AllPending
<1>6. CASE kind = "list"
  <2>1. ~About(c) /\ held[c] = "none"
    BY <1>0, <1>6 DEF About, SessionInv, FreeInv, TypeInv
  <2>2. held' = held
    BY <1>0, <1>1, <2>1 DEF TypeInv
  <2>3. session' = session
    BY <1>6, <1>8
  <2> HIDE DEF after, bad
  <2> QED
    BY <1>1, <1>2, <1>3, <1>4, <1>5, <1>8, <2>1, <2>2, <2>3, SessionQuiet
<1>7. CASE kind # "list"
  <2>1. PICK d \in Device : d = call[c].device
    BY <1>0, <1>7, CallTypes
  <2>2. About(c) /\ CallAgrees(c) /\ ~AllPending
    BY <1>1, <1>7 DEF About, SessionInv, AgreeInv, AllInv
  <2>3. session' = [session EXCEPT ![d] = SessionAfter(kind, rc[c] = "ok", @)]
    BY <1>7, <1>8, <2>1
  <2> HIDE DEF after, bad
  <2>4. (rc[c] = "ok") <=> (verdict[c] = "ok")
    BY <1>0, <1>1, <1>7 DEF SlotInv
  <2>5. session'[d] = SessionAfter(kind, rc[c] = "ok", session[d])
    BY <1>0, <2>3 DEF TypeInv
  <2>6. Agrees(d)'
    <3>1. CASE kind = "online"
      BY <1>1, <2>1, <2>2, <2>4, <2>5, <3>1 DEF Agrees, CallAgrees, SessionAfter
    <3>2. CASE kind = "offline"
      BY <1>1, <2>1, <2>2, <2>4, <2>5, <3>2 DEF Agrees, CallAgrees, SessionAfter
    <3>3. CASE kind = "bind"
      BY <1>1, <2>1, <2>2, <2>5, <3>3 DEF Agrees, CallAgrees, SessionAfter
    <3>4. CASE kind = "unbind"
      BY <1>1, <2>1, <2>2, <2>5, <3>4 DEF Agrees, CallAgrees, SessionAfter
    <3> QED
      BY <1>0, <1>7, <3>1, <3>2, <3>3, <3>4, CallTypes DEF Kind
  <2>7. \A f \in Device \ {d} : session'[f] = session[f] /\ (f \in online' <=> f \in online)
    BY <1>0, <1>1, <2>3 DEF TypeInv
  <2>8. \A e \in Caller \ {c} : About(e) => call[e].device # d /\ call[e].device \in Device
    BY <1>0, <2>1, <2>2, CallTypes DEF CallInv, ApartInv, About
  <2>9. FreeInv'
    <3>1. held'[c] = "none"
      BY <1>0, <1>1 DEF TypeInv
    <3> QED
      BY <1>2, <1>4, <3>1 DEF SessionInv, FreeInv
  <2> QED
    BY <1>3, <1>4, <1>5, <1>8, <2>1, <2>2, <2>6, <2>7, <2>8, <2>9, SessionMoves
<1> QED
  BY <1>6, <1>7

LEMMA BeginListSession ==
  ASSUME BaseInv, SessionInv, NEW c \in Caller, BeginList(c)
  PROVE  SessionInv'
<1>0. TypeInv /\ ~fault
  BY DEF BaseInv, SessionInv, FreeInv
<1>1. /\ pc' = [pc EXCEPT ![c] = "publish"] /\ pc[c] = "idle"
      /\ call' = [call EXCEPT ![c] = NoCall] /\ verdict' = [verdict EXCEPT ![c] = "none"]
      /\ UNCHANGED <<session, online, held, in_list, messages>> /\ ~fault'
  BY <1>0 DEF BeginList
<1>2. call'[c].kind = "list"
  BY <1>0, <1>1 DEF TypeInv, NoCall
<1>3. \A e \in Caller : /\ About(e)' <=> About(e)
                        /\ About(e) => call'[e] = call[e] /\ verdict'[e] = verdict[e]
  BY <1>0, <1>1, <1>2 DEF TypeInv, About
<1> QED
  BY <1>1, <1>3, SessionQuiet DEF AllPending

LEMMA WaitSession ==
  ASSUME BaseInv, SessionInv, NEW c \in Caller,
         (\E sent \in BOOLEAN : Publish(c, sent)) \/ Hears(c) \/ GivesUp(c)
  PROVE  SessionInv'
<1>1. /\ UNCHANGED <<session, call, held, in_list, online, verdict, messages, fault>>
      /\ pc[c] # "idle"
      /\ \E p \in {"wait", "finish"} : pc' = [pc EXCEPT ![c] = p]
  BY DEF Publish, Hears, GivesUp, gateway, cloud
<1>2. \A e \in Caller : pc'[e] = "idle" <=> pc[e] = "idle"
  BY <1>1 DEF BaseInv, TypeInv
<1> QED
  BY <1>1, <1>2, SessionQuiet DEF About, AllPending, SessionInv, FreeInv

LEMMA AnswersSession ==
  ASSUME BaseInv, WayInv, CallInv, SessionInv, NEW result \in {"ok", "refused"}, Answers(result)
  PROVE  SessionInv'
<1> DEFINE r == Head(requests)
           m == Answer(r, result)
<1>0. TypeInv
  BY DEF BaseInv
<1>1. r \in Request /\ r = requests[1] /\ 1 \in DOMAIN requests
  BY <1>0, TailElements DEF TypeInv, Answers
<1>2. m \in Message /\ m.type \in Kind /\ r.by \in Caller
  BY <1>1, AnswerIsMessage DEF Answer
<1>3. PICK c \in Caller : c = r.by
  BY <1>2
<1>4. /\ UNCHANGED <<pc, call, rc, held, in_list, session, fault>> /\ verdict' = [verdict EXCEPT ![c] = result]
      /\ messages' = Append(messages, m)
  BY <1>3 DEF Answers, Answer, gateway, caller
<1>5. pc[c] = "wait" /\ call[c] = r.call /\ verdict[c] = "none"
  BY <1>1, <1>3 DEF WayInv, RequestFits
<1>6. online' = IF r.call.kind = "online" /\ result = "ok" THEN online \cup {r.call.device}
                ELSE IF r.call.kind \in {"offline", "unbind"} /\ result = "ok"
                     THEN online \ {r.call.device} ELSE online
  BY DEF Answers
<1> HIDE DEF m
<1>7. AllPending' <=> AllPending
  <2>1. /\ DOMAIN messages' = 1 .. Len(messages) + 1 /\ DOMAIN messages = 1 .. Len(messages)
        /\ \A i \in 1 .. Len(messages) : messages'[i] = messages[i]
        /\ messages'[Len(messages) + 1] = m /\ Len(messages) \in Nat
    BY <1>0, <1>2, <1>4, AppendElements DEF TypeInv
  <2>2. /\ \A i \in DOMAIN messages' : \/ i \in DOMAIN messages /\ messages'[i] = messages[i]
                                       \/ messages'[i] = m
        /\ \A i \in DOMAIN messages : i \in DOMAIN messages' /\ messages'[i] = messages[i]
    BY <2>1
  <2>3. m.type # "unbind_all"
    BY <1>2 DEF Kind
  <2> QED
    BY <2>2, <2>3 DEF AllPending
<1>8. /\ \A e \in Caller : About(e)' <=> About(e)
      /\ \A e \in Caller \ {c} : call'[e] = call[e] /\ verdict'[e] = verdict[e]
      /\ call'[c] = call[c] /\ verdict'[c] = result
      /\ FreeInv'
  BY <1>0, <1>4 DEF TypeInv, About, SessionInv, FreeInv
<1> HIDE DEF r
<1>9. CASE call[c].kind = "list"
  <2>1. online' = online /\ ~About(c) /\ ~fault'
    BY <1>4, <1>5, <1>6, <1>9 DEF About, SessionInv, FreeInv
  <2> QED
    BY <1>4, <1>7, <1>8, <2>1, SessionQuiet
<1>10. CASE call[c].kind # "list"
  <2>1. PICK d \in Device : d = call[c].device
    BY <1>0, <1>10, CallTypes
  <2>2. About(c) /\ CallAgrees(c) /\ ~AllPending
    BY <1>5, <1>10 DEF About, SessionInv, AgreeInv, AllInv
  <2>3. online' = IF call[c].kind = "online" /\ result = "ok" THEN online \cup {d}
                  ELSE IF call[c].kind \in {"offline", "unbind"} /\ result = "ok"
                       THEN online \ {d} ELSE online
    BY <1>5, <1>6, <2>1
  <2>4. CallAgrees(c)'
    <3>1. CASE call[c].kind = "online"
      BY <1>4, <1>5, <1>8, <2>1, <2>2, <2>3, <3>1 DEF CallAgrees
    <3>2. CASE call[c].kind = "offline"
      BY <1>4, <1>5, <1>8, <2>1, <2>2, <2>3, <3>2 DEF CallAgrees
    <3>3. CASE call[c].kind = "bind"
      BY <1>4, <1>5, <1>8, <2>1, <2>2, <2>3, <3>3 DEF CallAgrees, Agrees
    <3>4. CASE call[c].kind = "unbind"
      BY <1>4, <1>5, <1>8, <2>1, <2>2, <2>3, <3>4 DEF CallAgrees
    <3> QED
      BY <1>0, <1>10, <3>1, <3>2, <3>3, <3>4, CallTypes DEF Kind
  <2>5. \A f \in Device \ {d} : session'[f] = session[f] /\ (f \in online' <=> f \in online)
    BY <1>4, <2>3
  <2>6. \A e \in Caller \ {c} : About(e) => call[e].device # d /\ call[e].device \in Device
    BY <1>0, <2>1, <2>2, CallTypes DEF CallInv, ApartInv, About
  <2> QED
    BY <1>4, <1>7, <1>8, <2>1, <2>2, <2>4, <2>5, <2>6, SessionMoves
<1> QED
  BY <1>9, <1>10

LEMMA NoticeSession ==
  ASSUME Orderly, BaseInv, SessionInv, NEW type, NEW d, Noticed(type, d), Notice(type, d)
  PROVE  SessionInv'
<1> DEFINE m == Note(type, d)
<1>0. TypeInv /\ ~fault
  BY DEF BaseInv, SessionInv, FreeInv
<1>1. UNCHANGED <<pc, call, held, in_list, session, verdict, fault>> /\ messages' = Append(messages, m)
  BY DEF Notice, Note, gateway, caller
<1>2. m \in Message /\ m.type = type
  BY NoteIsMessage DEF Note
<1> HIDE DEF m
<1>3. /\ DOMAIN messages' = 1 .. Len(messages) + 1 /\ DOMAIN messages = 1 .. Len(messages)
      /\ \A i \in 1 .. Len(messages) : messages'[i] = messages[i]
      /\ messages'[Len(messages) + 1] = m /\ Len(messages) \in Nat
  BY <1>0, <1>1, <1>2, AppendElements DEF TypeInv
<1>4. /\ \A i \in DOMAIN messages' : \/ i \in DOMAIN messages /\ messages'[i] = messages[i]
                                     \/ messages'[i] = m
      /\ \A i \in DOMAIN messages : i \in DOMAIN messages' /\ messages'[i] = messages[i]
      /\ \E i \in DOMAIN messages' : messages'[i] = m
  BY <1>3
<1>5. \A e \in Caller : About(e)' <=> About(e)
  BY <1>1 DEF About
<1>6. CASE type = "unbind_all"
  <2>1. Idle /\ online' = {}
    BY <1>6 DEF Notice, Orderly
  <2>2. AllPending' /\ in_list' = {} /\ \A e \in Caller : ~About(e)'
    BY <1>1, <1>2, <1>4, <1>5, <1>6, <2>1 DEF AllPending, Idle, About
  <2> QED
    BY <1>0, <1>1, <1>5, <2>1, <2>2 DEF SessionInv, FreeInv, AllInv, AloneInv, AgreeInv
<1>7. CASE type # "unbind_all"
  <2>1. online' = online
    BY <1>7 DEF Notice, Orderly
  <2>2. AllPending' <=> AllPending
    BY <1>2, <1>4, <1>7 DEF AllPending
  <2> QED
    BY <1>0, <1>1, <1>5, <2>1, <2>2, SessionQuiet
<1> QED
  BY <1>6, <1>7

LEMMA DeliverSession ==
  ASSUME Orderly, BaseInv, SessionInv, NEW lost \in BOOLEAN, Deliver(lost)
  PROVE  SessionInv'
<1> DEFINE m == messages[1]
<1>0. TypeInv /\ ~fault
  BY DEF BaseInv, SessionInv, FreeInv
<1>1. /\ m = Head(messages) /\ 1 \in DOMAIN messages
      /\ \A i \in DOMAIN messages' : i + 1 \in DOMAIN messages /\ messages'[i] = messages[i + 1]
      /\ \A i \in DOMAIN messages : i = 1 \/ (i - 1 \in DOMAIN messages' /\ messages'[i - 1] = messages[i])
  BY <1>0, TailElements DEF TypeInv, Deliver
<1>2. UNCHANGED <<pc, call, verdict, in_list, online, fault>>
  <2>1. m.type = "unbind_all" => in_list = {}
    BY <1>1 DEF AllPending, SessionInv, AllInv
  <2>2. fault' = fault
    BY <1>1, <2>1 DEF Deliver
  <2> QED
    BY <2>2 DEF Deliver, cloud
<1>3. IF m.type # "unbind_all" THEN UNCHANGED <<session, held>>
      ELSE /\ session' = [d \in Device |-> "none"]
           /\ held' = [c \in Caller |-> IF held[c] = "live" THEN "freed" ELSE held[c]]
  BY <1>1 DEF Deliver, Handle, Orderly, InTime
<1>4. AllPending' => AllPending
  BY <1>1 DEF AllPending
<1>5. \A e \in Caller : About(e)' <=> About(e)
  BY <1>2 DEF About
<1>6. CASE m.type = "unbind_all"
  <2>1. online = {} /\ in_list = {} /\ \A e \in Caller : ~About(e)
    BY <1>1, <1>6 DEF AllPending, SessionInv, AllInv
  <2>2. \A e \in Caller : held'[e] = held[e]
    BY <1>3, <1>6, <2>1 DEF SessionInv, FreeInv
  <2>3. \A d \in Device : Agrees(d)'
    BY <1>2, <1>3, <1>6, <2>1 DEF Agrees
  <2> QED
    BY <1>0, <1>2, <1>5, <2>1, <2>2, <2>3 DEF SessionInv, FreeInv, AllInv, AloneInv, AgreeInv
<1>7. CASE m.type # "unbind_all"
  <2>1. AllPending' <=> AllPending
    BY <1>1, <1>4, <1>7 DEF AllPending
  <2> QED
    BY <1>0, <1>2, <1>3, <1>5, <1>7, <2>1, SessionQuiet
<1> QED
  BY <1>6, <1>7

LEMMA SessionStep ==
  Orderly /\ BaseInv /\ WayInv /\ CallInv /\ SessionInv /\ [Next]_vars => SessionInv'
<1> SUFFICES ASSUME Orderly, BaseInv, WayInv, CallInv, SessionInv, [Next]_vars PROVE SessionInv'
  OBVIOUS
<1>1. ASSUME Idle, Idle', ~fault', UNCHANGED held, session' = [d \in Device |-> "none"], online' = {}
      PROVE  SessionInv'
  <2>1. \A e \in Caller : ~About(e) /\ ~About(e)'
    BY <1>1 DEF Idle, About
  <2>2. \A d \in Device : Agrees(d)'
    BY <1>1 DEF Agrees
  <2> QED
    BY <1>1, <2>1, <2>2 DEF SessionInv, FreeInv, AllInv, AloneInv, AgreeInv, Idle
<1>2. ~fault
  BY DEF SessionInv, FreeInv
<1>3. CASE \E subscribed \in BOOLEAN : Construct(subscribed)
  BY <1>1, <1>2, <1>3 DEF Construct, BaseInv, UpInv, Idle, caller, cloud
<1>4. CASE Destroy
  BY <1>1, <1>2, <1>4 DEF Destroy, Idle, caller
<1>5. CASE \E c \in Caller :
              \/ \E kind \in Kind \ {"list"}, d \in Device : Begin(c, kind, d)
              \/ Enter(c) \/ TurnsBack(c) \/ BeginList(c) \/ (\E sent \in BOOLEAN : Publish(c, sent))
              \/ Hears(c) \/ GivesUp(c) \/ Finish(c)
  BY <1>5, ListSession, BeginSession, BeginListSession, WaitSession, FinishSession
<1>6. CASE \/ \E type \in {"change_bind", "change_unbind"}, d \in Device : Notice(type, d)
           \/ \E type \in {"unbind_all", "search", "describe"} : Notice(type, NoDevice)
  BY <1>6, NoticeSession DEF Noticed, Change
<1>7. CASE \E result \in {"ok", "refused"} : Answers(result)
  BY <1>7, AnswersSession
<1>8. CASE \E lost \in BOOLEAN : Deliver(lost)
  BY <1>8, DeliverSession
<1>9. CASE RequestLost \/ UNCHANGED vars
  <2>1. UNCHANGED <<pc, call, held, in_list, session, verdict, online, messages, fault>>
    BY <1>9 DEF RequestLost, vars, gateway, caller, cloud
  <2> QED
    BY <1>2, <2>1, SessionQuiet DEF About, AllPending
<1> QED
  BY <1>3, <1>4, <1>5, <1>6, <1>7, <1>8, <1>9 DEF Next

(* Whenever no call is under way and everything said has been heard, the   *)
(* session list (subdev_add_session, subdev_remove_session, the status     *)
(* written by IOT_Gateway_Subdev_Online and _Offline) is what the cloud    *)
(* holds online, and no thread has read or written a session freed by      *)
(* another or by _gateway_message_handler, for any number of threads, sub- *)
(* devices and calls: as long as answers come in time, calls of one kind   *)
(* or about one sub-device do not overlap, the threads take turns in the   *)
(* session list, which has no lock, and the cloud unbinds between calls    *)
(* only.                                                                   *)
THEOREM SessionsTrue ==
  ASSUME Orderly
  PROVE  Spec => []SessionTrue
<1>1. Init => WayInv /\ CallInv /\ SessionInv
  <2> SUFFICES ASSUME Init PROVE WayInv /\ CallInv /\ SessionInv
    OBVIOUS
  <2>1. DOMAIN <<>> = {}
    OBVIOUS
  <2>2. WayInv /\ CallInv
    BY <2>1 DEF Init, WayInv, CallInv, ApartInv, SlotInv, About
  <2>3. \A e \in Caller : ~About(e) /\ held[e] = "none"
    BY DEF Init, About
  <2>4. \A d \in Device : Agrees(d)
    BY DEF Init, Agrees
  <2> QED
    BY <2>2, <2>3, <2>4 DEF Init, SessionInv, FreeInv, AllInv, AloneInv, AgreeInv
<1>2. BaseInv /\ SessionInv => SessionTrue
  <2> SUFFICES ASSUME BaseInv, SessionInv PROVE SessionTrue
    OBVIOUS
  <2>1. ~fault
    BY DEF SessionInv, FreeInv
  <2>2. ASSUME Idle, messages = <<>>, NEW d \in Device PROVE Agrees(d)
    <3>1. ~AllPending /\ \A e \in Caller : ~About(e)
      BY <2>2 DEF AllPending, Idle, About
    <3> QED
      BY <3>1 DEF SessionInv, AgreeInv
  <2> QED
    BY <2>1, <2>2 DEF SessionTrue, Agrees
<1>3. BaseInv /\ WayInv /\ CallInv /\ [Next]_vars => WayInv' /\ CallInv'
  BY ResultStep DEF Orderly
<1>4. BaseInv /\ WayInv /\ CallInv /\ SessionInv /\ [Next]_vars => SessionInv'
  BY SessionStep
<1> QED
  BY <1>1, <1>2, <1>3, <1>4, BaseHolds, PTL DEF Spec

=============================================================================
