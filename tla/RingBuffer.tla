----------------------------- MODULE RingBuffer -----------------------------
(***************************************************************************)
(* utils_ringbuff.c, the byte buffer between the UART and the AT parser    *)
(* and under the message queue of the HAL, one step per access to a shared *)
(* field.  The producer is the UART interrupt (FreeRTOS, bare metal), a    *)
(* thread (at_uart_irq_recv on Linux) or a caller of HAL_QueueItemPush;    *)
(* the consumer is the parser or a caller of HAL_QueueItemPop.  One        *)
(* producer and one consumer: each side has one caller in the code.        *)
(***************************************************************************)
EXTENDS Naturals, Sequences

CONSTANTS
    Byte, Zero,       \* the bytes; the byte memset writes
    size,             \* of the buffer; one byte of it is never used
    ItemSize,         \* bytes pushed or popped by one call: 1 to 64 for the
                      \* UART, 1 for the parser, queue_item_size for the queue
    Locked,           \* whether the calls hold queue_mutex (the HAL queue)
    RingAdversity     \* which of the circumstances below may occur

RingCircumstance ==
    { "unstored",         \* a byte is popped between the advance of writepoint and
                          \* the store (the producer is a thread and takes no lock)
      "push_in_flush" }   \* a byte is pushed while the parser flushes the buffer

ASSUME RingConstants ==
    /\ Zero \in Byte /\ size \in Nat /\ size > 1
    /\ ItemSize \in 1 .. size /\ Locked \in BOOLEAN
    /\ RingAdversity \subseteq RingCircumstance

VARIABLES
    readpoint, writepoint, buffer, full,
    producer,         \* "idle", "push" (next byte), "store" (after the advance)
    pData,            \* the bytes the push under way has left
    consumer,         \* "idle", "pop" (next byte), "read" (after the advance),
                      \* "flush_write", "flush_clear"
    want,             \* the bytes the pop under way has left
    got               \* the byte popped last

ring == <<readpoint, writepoint, buffer, full>>
rvars == <<ring, producer, pData, consumer, want, got>>

Slot == 0 .. size - 1

RingTypeOK ==
    /\ readpoint \in Slot /\ writepoint \in Slot
    /\ buffer \in [Slot -> Byte] /\ full \in BOOLEAN
    /\ producer \in {"idle", "push", "store"} /\ pData \in Seq(Byte)
    /\ consumer \in {"idle", "pop", "read", "flush_write", "flush_clear"}
    /\ want \in 0 .. ItemSize /\ got \in Byte

(* ring_buff_init                                                          *)
RingInit ==
    /\ readpoint = 0 /\ writepoint = 0
    /\ buffer = [i \in Slot |-> Zero] /\ full = FALSE
    /\ producer = "idle" /\ pData = <<>>
    /\ consumer = "idle" /\ want = 0 /\ got = Zero

Succ(i) == IF i < size - 1 THEN i + 1 ELSE 0

NoRoom_Never == FALSE
NoRoom == (writepoint + 1) % size = readpoint

Flushing == consumer \in {"flush_write", "flush_clear"}

-----------------------------------------------------------------------------
(***************************************************************************)
(* ring_buff_push_data                                                     *)
(***************************************************************************)
Push(data) ==
    /\ producer = "idle" /\ (Locked => consumer = "idle")
    /\ pData' = data /\ producer' = "push"
    /\ UNCHANGED <<ring, consumer, want, got>>

(* The buffer is full: the rest of the bytes is lost.                      *)
PushFull ==
    /\ producer = "push" /\ NoRoom
    /\ Flushing => "push_in_flush" \in RingAdversity
    /\ full' = TRUE /\ producer' = "idle" /\ pData' = <<>>
    /\ UNCHANGED <<readpoint, writepoint, buffer, consumer, want, got>>

PushAdvance ==
    /\ producer = "push" /\ ~NoRoom
    /\ Flushing => "push_in_flush" \in RingAdversity
    /\ writepoint' = Succ(writepoint) /\ producer' = "store"
    /\ UNCHANGED <<readpoint, buffer, full, pData, consumer, want, got>>

PushStore ==
    /\ producer = "store"
    /\ buffer' = [buffer EXCEPT ![writepoint] = Head(pData)]
    /\ pData' = Tail(pData)
    /\ producer' = IF Len(pData) = 1 THEN "idle" ELSE "push"
    /\ UNCHANGED <<readpoint, writepoint, full, consumer, want, got>>

-----------------------------------------------------------------------------
(***************************************************************************)
(* ring_buff_pop_data                                                      *)
(***************************************************************************)
Pop(len) ==
    /\ consumer = "idle" /\ (Locked => producer = "idle")
    /\ want' = len /\ consumer' = "pop"
    /\ UNCHANGED <<ring, producer, pData, got>>

PopEmpty ==
    /\ consumer = "pop" /\ writepoint = readpoint
    /\ consumer' = "idle" /\ want' = 0
    /\ UNCHANGED <<ring, producer, pData, got>>

PopAdvance ==
    /\ consumer = "pop" /\ writepoint # readpoint
    /\ producer = "store" /\ Succ(readpoint) = writepoint => "unstored" \in RingAdversity
    /\ readpoint' = Succ(readpoint) /\ consumer' = "read"
    /\ UNCHANGED <<writepoint, buffer, full, producer, pData, want, got>>

PopRead ==
    /\ consumer = "read"
    /\ got' = buffer[readpoint] /\ want' = want - 1
    /\ consumer' = IF want = 1 THEN "idle" ELSE "pop"
    /\ UNCHANGED <<ring, producer, pData>>

-----------------------------------------------------------------------------
(***************************************************************************)
(* ring_buff_flush, called by the consumer                                 *)
(***************************************************************************)
FlushRead ==
    /\ consumer = "idle" /\ (Locked => producer = "idle")
    /\ readpoint' = 0 /\ consumer' = "flush_write"
    /\ UNCHANGED <<writepoint, buffer, full, producer, pData, want, got>>

FlushWrite ==
    /\ consumer = "flush_write"
    /\ writepoint' = 0 /\ consumer' = "flush_clear"
    /\ UNCHANGED <<readpoint, buffer, full, producer, pData, want, got>>

FlushClear ==
    /\ consumer = "flush_clear"
    /\ buffer' = [i \in Slot |-> Zero] /\ full' = FALSE /\ consumer' = "idle"
    /\ UNCHANGED <<readpoint, writepoint, producer, pData, want, got>>

RingNext ==
    \/ \E data \in [1 .. ItemSize -> Byte] : Push(data)
    \/ PushFull \/ PushAdvance \/ PushStore
    \/ Pop(ItemSize) \/ PopEmpty \/ PopAdvance \/ PopRead
    \/ FlushRead \/ FlushWrite \/ FlushClear

RingSpec == RingInit /\ [][RingNext]_rvars

-----------------------------------------------------------------------------
(* HAL_QueueItemWaitingCount: the bytes waiting.                           *)
Waiting ==
    IF readpoint > writepoint THEN size - readpoint + writepoint
                              ELSE writepoint - readpoint

(* The byte of a slot, which the producer still holds before its store.    *)
ByteAt(i) == IF producer = "store" /\ i = writepoint THEN Head(pData) ELSE buffer[i]

Contents ==
    IF Flushing THEN <<>>
    ELSE [n \in 1 .. Waiting |-> ByteAt((readpoint + n) % size)]

(* The ring buffer keeps the promise of ByteFifo although the two sides    *)
(* take no lock: with one side storing, the other reading and both         *)
(* wrapping round, no byte is lost, repeated, reordered or overwritten     *)
(* before it is read, and none is refused while there is room.             *)
Fifo == INSTANCE ByteFifo WITH
    Capacity <- size - 1,
    queue    <- Contents,
    got      <- IF consumer = "read" THEN buffer[readpoint] ELSE got,
    overflow <- IF Flushing THEN FALSE ELSE full

IsFifo == Fifo!Spec

(* HAL_QueueItemWaitingCount reports an error when the bytes waiting are   *)
(* no whole number of items.                                               *)
ItemsWhole ==
    producer = "idle" /\ consumer = "idle" => Waiting % ItemSize = 0
=============================================================================
