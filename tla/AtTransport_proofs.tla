------------------------- MODULE AtTransport_proofs -------------------------
(***************************************************************************)
(* The two ends of the AT transport.  First the ring buffer under it       *)
(* implements ByteFifo, for every buffer size, item size and alphabet,     *)
(* with or without the lock of the HAL queue; then the AT client and its   *)
(* parser, which takes its bytes from such a buffer, for any number of     *)
(* callers and whatever the communication module answers.                  *)
(***************************************************************************)
EXTENDS RingBuffer, AtClient, SequenceTheorems, FunctionTheorems, FiniteSetTheorems, TLAPS

(* The calls hold queue_mutex, or neither of the two circumstances occurs  *)
(* under which the code breaks the promise (see RingCircumstance): the     *)
(* producer is an interrupt, and nothing is pushed during a flush.         *)
Calm == Locked \/ ("unstored" \notin RingAdversity /\ "push_in_flush" \notin RingAdversity)

(* The two sides: a push under way has bytes left and a pop under way has  *)
(* bytes to fetch; the steps of a flush are in order.                      *)
SidesInv ==
    /\ producer # "idle" => pData # <<>>
    /\ consumer \in {"pop", "read"} => want >= 1
    /\ consumer = "flush_write" => readpoint = 0
    /\ consumer = "flush_clear" => readpoint = 0 /\ writepoint = 0

(* The slot being stored is never the slot being read, although neither    *)
(* side sees more of the other than its index.                             *)
ApartInv == producer = "store" /\ consumer = "read" => readpoint # writepoint

(* queue_mutex keeps one of the two sides out.                             *)
MutexInv == Locked => producer = "idle" \/ consumer = "idle"

RingInv == RingTypeOK /\ SidesInv /\ ApartInv /\ MutexInv

-----------------------------------------------------------------------------
(* Reducing an index that ran past the end at most once.                   *)
LEMMA ModOnce ==
  ASSUME NEW s \in Nat, s > 0, NEW x \in Nat, x < s + s
  PROVE  x % s = IF x < s THEN x ELSE x - s
<1>1. (x % s) \in 0 .. s - 1 /\ x = s * (x \div s) + (x % s) /\ x \div s \in Int
  OBVIOUS
<1>2. CASE x < s
  BY <1>1, <1>2
<1>3. CASE x >= s
  BY <1>1, <1>3
<1> QED
  BY <1>2, <1>3

(* What the full test of ring_buff_push_data says about the next slot.     *)
LEMMA NoRoomIsLast ==
  ASSUME readpoint \in Slot, writepoint \in Slot
  PROVE  /\ NoRoom <=> Succ(writepoint) = readpoint
         /\ Succ(writepoint) \in Slot /\ Succ(readpoint) \in Slot
         /\ Succ(writepoint) # writepoint
<1>1. writepoint \in Nat /\ writepoint < size /\ size \in Nat /\ size > 1
  BY RingConstants DEF Slot
<1>2. writepoint + 1 < size => (writepoint + 1) % size = writepoint + 1
  BY <1>1, ModOnce
<1>3. writepoint + 1 = size => (writepoint + 1) % size = 0
  BY <1>1, ModOnce
<1> QED
  BY <1>1, <1>2, <1>3 DEF NoRoom, Succ, Slot

(* The last byte of a push leaves nothing behind.                          *)
LEMMA TailLeft ==
  ASSUME NEW S, NEW s \in Seq(S), s # <<>>, Len(s) # 1
  PROVE  Tail(s) # <<>>
<1>1. Len(Tail(s)) = Len(s) - 1 /\ Len(s) \in Nat
  BY HeadTailProperties
<1>2. Len(Tail(s)) # 0
  BY <1>1
<1> QED
  BY <1>2, EmptySeq, Zenon

LEMMA InitRingInv == RingInit => RingInv
  BY RingConstants DEF RingInit, RingInv, RingTypeOK, SidesInv, ApartInv, MutexInv, Slot

LEMMA NextRingInv ==
  ASSUME Calm
  PROVE  RingInv /\ [RingNext]_rvars => RingInv'
<1> SUFFICES ASSUME RingInv, [RingNext]_rvars PROVE RingInv'
  OBVIOUS
<1> USE RingConstants DEF RingInv, RingTypeOK, SidesInv, ApartInv, MutexInv, ring
<1>0. 0 \in Slot
  BY DEF Slot
<1>1. ASSUME NEW data \in [1 .. ItemSize -> Byte], Push(data) PROVE RingInv'
  <2>1. data \in Seq(Byte) /\ data # <<>>
    <3>1. data \in Seq(Byte) /\ ItemSize \in Nat \ {0}
      OBVIOUS
    <3>2. DOMAIN data = 1 .. ItemSize /\ 1 \in DOMAIN data
      BY <3>1
    <3> QED
      BY <3>1, <3>2
  <2> QED
    BY <1>1, <2>1 DEF Push
<1>2. CASE PushFull
  BY <1>2 DEF PushFull
<1>3. CASE PushAdvance
  BY <1>3, NoRoomIsLast, Calm DEF PushAdvance, Flushing, Calm
<1>4. CASE PushStore
  <2>1. /\ Head(pData) \in Byte /\ Tail(pData) \in Seq(Byte)
        /\ Len(pData) # 1 => Tail(pData) # <<>>
    BY <1>4, HeadTailProperties, TailLeft DEF PushStore
  <2>2. buffer' \in [Slot -> Byte]
    BY <1>4, <2>1 DEF PushStore
  <2> QED
    BY <1>4, <2>1, <2>2 DEF PushStore
<1>5. CASE Pop(ItemSize)
  BY <1>5 DEF Pop
<1>6. CASE PopEmpty
  BY <1>6 DEF PopEmpty
<1>7. CASE PopAdvance
  BY <1>7, NoRoomIsLast, Calm DEF PopAdvance, Calm
<1>8. CASE PopRead
  BY <1>8 DEF PopRead
<1>9. CASE FlushRead
  BY <1>9, <1>0 DEF FlushRead
<1>10. CASE FlushWrite
  BY <1>10, <1>0 DEF FlushWrite
<1>11. CASE FlushClear
  <2>1. buffer' \in [Slot -> Byte]
    BY <1>11 DEF FlushClear
  <2> QED
    BY <1>11, <2>1 DEF FlushClear
<1>12. CASE UNCHANGED rvars
  BY <1>12 DEF rvars
<1> QED
  BY <1>1, <1>2, <1>3, <1>4, <1>5, <1>6, <1>7, <1>8, <1>9, <1>10, <1>11, <1>12 DEF RingNext

-----------------------------------------------------------------------------
(***************************************************************************)
(* The refinement mapping.                                                 *)
(***************************************************************************)

(* The bytes waiting are the slots after readpoint up to writepoint, and   *)
(* writepoint is the last of them and no other.                            *)
WaitingSlots ==
    /\ Waiting \in 0 .. size - 1
    /\ \A n \in 1 .. size - 1 :
          /\ (readpoint + n) % size = IF readpoint + n < size THEN readpoint + n
                                                              ELSE readpoint + n - size
          /\ (readpoint + n) % size \in Slot
          /\ (readpoint + n) % size = writepoint <=> n = Waiting

LEMMA WaitingIs == RingInv => WaitingSlots
<1> SUFFICES ASSUME RingInv PROVE WaitingSlots
  OBVIOUS
<1>1. /\ readpoint \in Nat /\ readpoint < size /\ size \in Nat /\ size > 1
      /\ writepoint \in Nat /\ writepoint < size
  BY RingConstants DEF Slot, RingInv, RingTypeOK
<1>2. Waiting \in 0 .. size - 1
  BY <1>1 DEF Waiting
<1>3. ASSUME NEW n \in 1 .. size - 1
      PROVE  (readpoint + n) % size = IF readpoint + n < size THEN readpoint + n
                                                              ELSE readpoint + n - size
  <2>1. CASE readpoint + n < size
    BY <1>1, <2>1, ModOnce
  <2>2. CASE readpoint + n >= size
    <3>1. (readpoint + n) % size = readpoint + n - size
      BY <1>1, <2>2, ModOnce
    <3> QED
      BY <1>1, <2>2, <3>1
  <2> QED
    BY <1>1, <2>1, <2>2
<1> QED
  BY <1>1, <1>2, <1>3 DEF Waiting, Slot, WaitingSlots

ContentsType ==
    /\ Contents \in Seq(Byte)
    /\ ~Flushing => Len(Contents) = Waiting

LEMMA ContentsIs == RingInv => ContentsType
<1> SUFFICES ASSUME RingInv PROVE ContentsType
  OBVIOUS
<1> USE DEF ContentsType
<1>1. CASE Flushing
  BY <1>1, EmptySeq DEF Contents
<1>2. CASE ~Flushing
  <2>1. Waiting \in Nat /\ Waiting <= size - 1 /\ size \in Nat
    BY WaitingIs, RingConstants DEF WaitingSlots
  <2>2. ASSUME NEW n \in 1 .. Waiting PROVE ByteAt((readpoint + n) % size) \in Byte
    <3>1. (readpoint + n) % size \in Slot
      BY <2>1, WaitingIs DEF WaitingSlots
    <3>2. producer = "store" => Head(pData) \in Byte
      BY HeadTailProperties DEF RingInv, RingTypeOK, SidesInv
    <3> QED
      BY <3>1, <3>2 DEF ByteAt, RingInv, RingTypeOK
  <2>3. Contents \in [1 .. Waiting -> Byte]
    BY <1>2, <2>2 DEF Contents
  <2> QED
    BY <1>2, <2>1, <2>3
<1> QED
  BY <1>1, <1>2

(* An advance of writepoint appends the byte the producer holds.           *)
LEMMA AdvancePuts ==
  ASSUME Calm, RingInv, RingInv', PushAdvance
  PROVE  Fifo!Put(Head(pData))
<1>0. WaitingSlots /\ WaitingSlots' /\ ContentsType /\ ContentsType'
  BY WaitingIs, ContentsIs, PTL
<1>1. /\ ~Flushing /\ ~Flushing' /\ producer = "push" /\ producer' = "store"
      /\ writepoint' = Succ(writepoint) /\ Succ(writepoint) # readpoint
      /\ UNCHANGED <<readpoint, buffer, full, pData, consumer, got>>
  BY NoRoomIsLast DEF Calm, PushAdvance, Flushing, RingInv, RingTypeOK, MutexInv
<1>2. /\ readpoint \in Slot /\ writepoint \in Slot /\ Succ(writepoint) \in Slot
      /\ size \in Nat /\ size > 1
  BY NoRoomIsLast, RingConstants DEF RingInv, RingTypeOK
<1>3. Waiting' = Waiting + 1 /\ Waiting \in 0 .. size - 2
  BY <1>1, <1>2 DEF Waiting, Succ, Slot
<1>4. /\ Contents \in Seq(Byte) /\ Len(Contents) = Waiting
      /\ Contents' \in Seq(Byte) /\ Len(Contents') = Waiting + 1
  BY <1>1, <1>3, <1>0 DEF ContentsType
<1>5. Head(pData) \in Byte
  BY <1>1, HeadTailProperties DEF RingInv, RingTypeOK, SidesInv
<1>6. ASSUME NEW n \in 1 .. Waiting + 1
      PROVE  Contents'[n] = Append(Contents, Head(pData))[n]
  <2>1. Contents'[n] = ByteAt((readpoint + n) % size)'
    BY <1>1, <1>3 DEF Contents
  <2>2. n \in 1 .. size - 1
    BY <1>2, <1>3
  <2>3. (readpoint + n) % size = Succ(writepoint) <=> n = Waiting + 1
    BY <1>1, <1>2, <1>3, <2>2, <1>0 DEF WaitingSlots
  <2>4. CASE n = Waiting + 1
    <3>1. Contents'[n] = Head(pData)
      BY <1>1, <2>1, <2>3, <2>4 DEF ByteAt
    <3> QED
      BY <3>1, <2>4, <1>4, <1>5, AppendProperties
  <2>5. CASE n # Waiting + 1
    <3>1. n \in 1 .. Waiting
      BY <1>2, <1>3, <2>5
    <3>2. Contents[n] = buffer[(readpoint + n) % size]
      BY <1>1, <3>1 DEF Contents, ByteAt
    <3>3. Contents'[n] = buffer[(readpoint + n) % size]
      BY <1>1, <2>1, <2>3, <2>5 DEF ByteAt
    <3>4. Append(Contents, Head(pData))[n] = Contents[n]
      BY <1>4, <1>5, <3>1, AppendProperties
    <3> QED
      BY <3>2, <3>3, <3>4
  <2> QED
    BY <2>4, <2>5
<1>7. /\ Append(Contents, Head(pData)) \in Seq(Byte)
      /\ Len(Append(Contents, Head(pData))) = Waiting + 1
  BY <1>4, <1>5, AppendProperties
<1>8. Contents' = Append(Contents, Head(pData))
  BY <1>4, <1>6, <1>7, SeqEqual
<1> QED
  BY <1>1, <1>2, <1>3, <1>4, <1>8 DEF Fifo!Put

(* An advance of readpoint takes the first byte, which no producer touches *)
(* before the read that follows.                                           *)
LEMMA AdvanceGets ==
  ASSUME Calm, RingInv, RingInv', PopAdvance
  PROVE  Fifo!Get
<1>0. WaitingSlots /\ WaitingSlots' /\ ContentsType /\ ContentsType'
  BY WaitingIs, ContentsIs, PTL
<1>1. /\ ~Flushing /\ ~Flushing' /\ consumer = "pop" /\ consumer' = "read"
      /\ readpoint' = Succ(readpoint) /\ readpoint # writepoint
      /\ producer = "store" => Succ(readpoint) # writepoint
      /\ UNCHANGED <<writepoint, buffer, full, producer, pData, got>>
  BY DEF Calm, PopAdvance, Flushing, RingInv, MutexInv
<1>2. /\ readpoint \in Slot /\ writepoint \in Slot /\ Succ(readpoint) \in Slot
      /\ size \in Nat /\ size > 1
  BY NoRoomIsLast, RingConstants DEF RingInv, RingTypeOK
<1>3. Waiting' = Waiting - 1 /\ Waiting \in 1 .. size - 1
  BY <1>1, <1>2 DEF Waiting, Succ, Slot
<1>4. /\ Contents \in Seq(Byte) /\ Len(Contents) = Waiting
      /\ Contents' \in Seq(Byte) /\ Len(Contents') = Waiting - 1
  BY <1>1, <1>3, <1>0 DEF ContentsType
<1>5. /\ Contents # <<>>
      /\ Tail(Contents) \in Seq(Byte) /\ Len(Tail(Contents)) = Waiting - 1
      /\ \A n \in 1 .. Waiting - 1 : Tail(Contents)[n] = Contents[n + 1]
  <2>1. Contents # <<>>
    BY <1>3, <1>4, EmptySeq
  <2> QED
    BY <1>3, <1>4, <2>1, HeadTailProperties
<1>6. Head(Contents) = buffer[Succ(readpoint)]
  <2>1. 1 \in 1 .. Waiting /\ 1 \in 1 .. size - 1
    BY <1>2, <1>3
  <2>2. (readpoint + 1) % size = Succ(readpoint)
    BY <1>2, <2>1, <1>0 DEF WaitingSlots, Succ, Slot
  <2>3. Contents[1] = ByteAt(Succ(readpoint))
    BY <1>1, <2>1, <2>2 DEF Contents
  <2>4. Head(Contents) = Contents[1]
    BY <1>4, <1>5, HeadTailProperties
  <2> QED
    BY <1>1, <2>3, <2>4 DEF ByteAt
<1>7. ASSUME NEW n \in 1 .. Waiting - 1
      PROVE  Contents'[n] = Tail(Contents)[n]
  <2>1. /\ n \in 1 .. size - 1 /\ n + 1 \in 1 .. size - 1
        /\ n \in 1 .. Waiting' /\ n + 1 \in 1 .. Waiting
    BY <1>2, <1>3
  <2>2. (readpoint' + n) % size = (readpoint + (n + 1)) % size
    <3>1. (readpoint + (n + 1)) % size
             = IF readpoint + (n + 1) < size THEN readpoint + (n + 1)
                                             ELSE readpoint + (n + 1) - size
      BY <1>2, <2>1, <1>0 DEF WaitingSlots
    <3>2. (readpoint' + n) % size
             = IF readpoint' + n < size THEN readpoint' + n ELSE readpoint' + n - size
      BY <1>1, <1>2, <2>1, <1>0 DEF WaitingSlots
    <3> QED
      BY <1>1, <1>2, <2>1, <3>1, <3>2 DEF Succ, Slot
  <2>3. Contents'[n] = ByteAt((readpoint + n) % size)'
    BY <1>1, <2>1 DEF Contents
  <2>4. Contents[n + 1] = ByteAt((readpoint + (n + 1)) % size)
    BY <1>1, <2>1 DEF Contents
  <2> QED
    BY <1>1, <1>5, <2>2, <2>3, <2>4 DEF ByteAt
<1>8. Contents' = Tail(Contents)
  BY <1>4, <1>5, <1>7, SeqEqual
<1> QED
  BY <1>1, <1>5, <1>6, <1>8 DEF Fifo!Get

(* A store changes neither the bytes waiting nor the one being read.       *)
LEMMA StoreHides ==
  ASSUME RingInv, RingInv', PushStore
  PROVE  UNCHANGED Fifo!fvars
<1>0. WaitingSlots /\ ContentsType /\ ContentsType'
  BY WaitingIs, ContentsIs, PTL
<1>1. /\ producer = "store" /\ producer' # "store"
      /\ buffer' = [buffer EXCEPT ![writepoint] = Head(pData)]
      /\ UNCHANGED <<readpoint, writepoint, full, consumer, got>>
      /\ buffer \in [Slot -> Byte] /\ readpoint \in Slot /\ writepoint \in Slot
  BY DEF PushStore, RingInv, RingTypeOK
<1>2. Waiting' = Waiting /\ Flushing' = Flushing /\ Waiting \in 0 .. size - 1
  BY <1>0, <1>1 DEF Waiting, Flushing, WaitingSlots
<1>3. Contents' = Contents
  <2>1. CASE Flushing
    BY <1>2, <2>1 DEF Contents
  <2>2. CASE ~Flushing
    <3>1. ASSUME NEW n \in 1 .. Waiting PROVE Contents'[n] = Contents[n]
      <4>1. n \in 1 .. size - 1
        BY <1>2, RingConstants
      <4>2. (readpoint + n) % size \in Slot
        BY <4>1, <1>0 DEF WaitingSlots
      <4>3. Contents[n] = ByteAt((readpoint + n) % size)
        BY <2>2 DEF Contents
      <4>4. Contents'[n] = buffer'[(readpoint + n) % size]
        BY <1>1, <1>2, <2>2 DEF Contents, ByteAt
      <4> QED
        BY <1>1, <4>2, <4>3, <4>4 DEF ByteAt
    <3>2. Len(Contents) = Waiting /\ Len(Contents') = Waiting
      BY <1>0, <1>2, <2>2 DEF ContentsType
    <3> QED
      BY <1>0, <3>1, <3>2, SeqEqual DEF ContentsType
  <2> QED
    BY <2>1, <2>2
<1>4. consumer = "read" => buffer'[readpoint'] = buffer[readpoint]
  BY <1>1 DEF RingInv, ApartInv
<1> QED
  BY <1>1, <1>2, <1>3, <1>4 DEF Fifo!fvars

(* A buffer whose two indices meet is empty.                               *)
LEMMA EmptyRing ==
  ASSUME NEW r \in Slot, readpoint = r, writepoint = r
  PROVE  Contents = <<>>
<1>1. Waiting = 0
  BY RingConstants DEF Waiting, Slot
<1>2. Contents = [n \in 1 .. 0 |-> ByteAt((readpoint + n) % size)] \/ Contents = <<>>
  BY <1>1 DEF Contents
<1>3. 1 .. 0 = {} /\ DOMAIN <<>> = {}
  OBVIOUS
<1> QED
  BY <1>2, <1>3

(* Every step of the code is a step of the buffer it promises, or none.    *)
LEMMA StepImplements ==
  ASSUME Calm, RingInv, RingInv', [RingNext]_rvars
  PROVE  [Fifo!Next]_(Fifo!fvars)
<1> DEFINE Hidden == UNCHANGED Fifo!fvars
<1>1. ASSUME NEW data \in [1 .. ItemSize -> Byte], Push(data) PROVE Hidden
  BY <1>1 DEF Push, ring, Fifo!fvars, Contents, Waiting, ByteAt, Flushing
<1>2. CASE PushFull
  <2>1. ~Flushing /\ ~Flushing' /\ NoRoom /\ full' = TRUE
        /\ UNCHANGED <<readpoint, writepoint, buffer, consumer, got>>
        /\ producer = "push" /\ producer' = "idle"
    BY <1>2 DEF PushFull, Flushing, Calm, RingInv, MutexInv
  <2>2. Waiting = size - 1
    BY <2>1, NoRoomIsLast, RingConstants DEF RingInv, RingTypeOK, Waiting, Succ, Slot
  <2>3. Len(Contents) = size - 1
    BY <2>1, <2>2, ContentsIs DEF ContentsType
  <2>4. Contents' = Contents
    BY <2>1 DEF Contents, Waiting, ByteAt
  <2> QED
    BY <2>1, <2>3, <2>4 DEF Fifo!Next, Fifo!Refuse
<1>3. CASE PushAdvance
  <2>1. Head(pData) \in Byte
    BY <1>3, HeadTailProperties DEF PushAdvance, RingInv, RingTypeOK, SidesInv
  <2> QED
    BY <1>3, <2>1, AdvancePuts DEF Fifo!Next
<1>4. CASE PushStore
  BY <1>4, StoreHides
<1>5. CASE Pop(ItemSize)
  BY <1>5 DEF Pop, ring, Fifo!fvars, Contents, Waiting, ByteAt, Flushing
<1>6. CASE PopEmpty
  BY <1>6 DEF PopEmpty, ring, Fifo!fvars, Contents, Waiting, ByteAt, Flushing
<1>7. CASE PopAdvance
  BY <1>7, AdvanceGets DEF Fifo!Next
<1>8. CASE PopRead
  BY <1>8 DEF PopRead, ring, Fifo!fvars, Contents, Waiting, ByteAt, Flushing
<1>9. CASE FlushRead
  <2>1. Contents' = <<>> /\ Flushing'
    BY <1>9 DEF FlushRead, Contents, Flushing
  <2> QED
    BY <1>9, <2>1 DEF FlushRead, Fifo!Next, Fifo!Clear
<1>10. CASE FlushWrite
  BY <1>10 DEF FlushWrite, Fifo!fvars, Contents, Flushing
<1>11. CASE FlushClear
  <2>1. Flushing /\ Contents = <<>> /\ ~Flushing'
    BY <1>11 DEF FlushClear, Flushing, Contents
  <2>2. readpoint' = 0 /\ writepoint' = 0 /\ 0 \in Slot
    BY <1>11, RingConstants DEF FlushClear, RingInv, SidesInv, Slot
  <2>3. Contents' = <<>>
    <3>1. Waiting' = 0
      BY <2>2, RingConstants DEF Waiting
    <3>2. 1 .. 0 = {} /\ DOMAIN <<>> = {}
      OBVIOUS
    <3> QED
      BY <2>1, <3>1, <3>2 DEF Contents
  <2> QED
    BY <1>11, <2>1, <2>3 DEF FlushClear, Fifo!fvars
<1>12. CASE UNCHANGED rvars
  BY <1>12 DEF rvars, ring, Fifo!fvars, Contents, Waiting, ByteAt, Flushing
<1> QED
  BY <1>1, <1>2, <1>3, <1>4, <1>5, <1>6, <1>7, <1>8, <1>9, <1>10, <1>11, <1>12 DEF RingNext

(* The ring buffer of utils_ringbuff.c is a FIFO of size - 1 bytes: with   *)
(* one producer and one consumer, each seeing only the other's index, no   *)
(* byte is lost, repeated, reordered or overwritten before it is read, and *)
(* none is refused while there is room: for the HAL queue always, and for  *)
(* the UART unless a byte is popped before it is stored or pushed during a *)
(* flush.                                                                  *)
THEOREM RingIsFifo ==
  ASSUME Calm
  PROVE  RingSpec => IsFifo
<1>1. RingInit => Fifo!Init
  <2> SUFFICES ASSUME RingInit PROVE Fifo!Init
    OBVIOUS
  <2>1. Contents = <<>>
    BY EmptyRing, RingConstants DEF RingInit, Slot
  <2> QED
    BY <2>1, RingConstants DEF RingInit, Fifo!Init, Flushing
<1>2. RingInv /\ RingInv' /\ [RingNext]_rvars => [Fifo!Next]_(Fifo!fvars)
  BY StepImplements
<1> QED
  BY <1>1, <1>2, InitRingInv, NextRingInv, PTL DEF RingSpec, IsFifo, Fifo!Spec

-----------------------------------------------------------------------------
(***************************************************************************)
(* The AT client.                                                          *)
(***************************************************************************)
(* The types of the fields the two sides share.                            *)
CallPC == {"idle", "lock", "wait", "exit", "data", "flag", "delete"}

SharedTypes ==
    /\ lock \in Caller \cup {None} /\ resp \in Caller \cup {None}
    /\ pc \in [Caller -> CallPC] /\ live \subseteq Caller
    /\ resp_sem \in Nat /\ parser \in {"read", "handle", "exit"}

(* A call owns its response object from its start to its return, and the   *)
(* lock while its command is under way.                                    *)
OwnInv ==
    /\ \A c \in Caller : pc[c] # "idle" <=> c \in live
    /\ \A c \in Caller : pc[c] \in {"wait", "exit"} => lock = c

(* client->resp is the object of the command that holds the lock; the      *)
(* parser handles a line only while that command waits; the semaphore is   *)
(* posted at most once, for the command that still waits for it, and no    *)
(* response is set until it has been taken.                                *)
RespInv ==
    /\ resp # None => pc[resp] \in {"wait", "exit"}
    /\ parser # "read" => resp # None /\ pc[resp] = "wait"
    /\ resp_sem > 0 => /\ resp_sem = 1 /\ resp = None
                       /\ lock # None /\ pc[lock] = "wait"

AtInv == SharedTypes /\ OwnInv /\ RespInv /\ ~fault

LEMMA InitAtInv ==
  ASSUME "none" \notin Caller
  PROVE  Init => AtInv
  BY DEF Init, AtInv, SharedTypes, OwnInv, RespInv, CallPC, None

LEMMA NextAtInv ==
  ASSUME "none" \notin Caller, "race" \notin Adversity
  PROVE  AtInv /\ [Next]_vars => AtInv'
<1> SUFFICES ASSUME AtInv, [Next]_vars PROVE AtInv'
  OBVIOUS
<1>0. None \notin Caller
  BY DEF None
<1> USE DEF AtInv, SharedTypes, OwnInv, RespInv, CallPC, client, caller, object,
        reader, module, count
<1>1. ASSUME NEW c \in Caller, Query(c) PROVE AtInv'
  BY <1>0, <1>1 DEF Query
<1>2. ASSUME NEW c \in Caller, NEW n \in 1 .. 2, Send(c, n) PROVE AtInv'
  BY <1>0, <1>2 DEF Send
<1>3. ASSUME NEW c \in Caller, Exec(c) PROVE AtInv'
  BY <1>0, <1>3 DEF Exec
<1>4. ASSUME NEW c \in Caller, Wakes(c) PROVE AtInv'
  BY <1>0, <1>4 DEF Wakes
<1>5. ASSUME NEW c \in Caller, TimesOut(c) PROVE AtInv'
  BY <1>0, <1>5 DEF TimesOut
<1>6. ASSUME NEW c \in Caller, Exits(c) PROVE AtInv'
  BY <1>0, <1>6 DEF Exits, ReleasedResp, LockAfter
<1>7. ASSUME NEW c \in Caller, SendData(c) PROVE AtInv'
  BY <1>0, <1>7 DEF SendData
<1>8. ASSUME NEW c \in Caller, FlagWaited(c) PROVE AtInv'
  BY <1>0, <1>8 DEF FlagWaited
<1>9. ASSUME NEW c \in Caller, Delete(c) PROVE AtInv'
  BY <1>0, <1>9 DEF Delete
<1>10. CASE ReadLine
  BY <1>0, <1>10 DEF ReadLine
<1>11. CASE HandleLine
  BY <1>0, <1>11 DEF HandleLine
<1>12. CASE ExitLine
  BY <1>0, <1>12 DEF ExitLine
<1>13. CASE ModuleStep
  BY <1>13 DEF ModuleStep, ModuleAnswers, ModuleLoses, ModuleEmits
<1>14. ASSUME NEW text \in {"urc", "blank"}, Unsolicited(text) PROVE AtInv'
  BY <1>14 DEF Unsolicited
<1>15. CASE UNCHANGED vars
  BY <1>15 DEF vars
<1> QED
  BY <1>1, <1>2, <1>3, <1>4, <1>5, <1>6, <1>7, <1>8, <1>9, <1>10, <1>11, <1>12, <1>13, <1>14,
     <1>15 DEF Next, CallerStep, ParserStep

(* client_parser never works on a response object that the command has     *)
(* given up or freed, although it looks client->resp up again for each line*)
(* and holds no lock, as long as no wait times out while a line is handled.*)
THEOREM ResponseLive ==
  ASSUME "race" \notin Adversity
  PROVE  Spec => []RespLive
<1>0. "none" \notin Caller
  BY AtConstants
<1>1. AtInv => RespLive
  BY DEF AtInv, SharedTypes, OwnInv, RespInv, RespLive, None
<1> QED
  BY <1>0, <1>1, InitAtInv, NextAtInv, PTL DEF Spec
=============================================================================
