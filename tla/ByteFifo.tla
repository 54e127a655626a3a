------------------------------ MODULE ByteFifo ------------------------------
(***************************************************************************)
(* What a ring buffer promises: the bytes it took come out once each and   *)
(* in order; a byte is refused only when Capacity bytes are waiting, and   *)
(* the overflow flag then stands until the buffer is cleared.              *)
(***************************************************************************)
EXTENDS Naturals, Sequences

CONSTANTS Byte, Capacity

VARIABLES
    queue,      \* the bytes waiting
    got,        \* the byte taken last
    overflow    \* a byte was refused since the last Clear

fvars == <<queue, got, overflow>>

Init == queue = <<>> /\ got \in Byte /\ overflow = FALSE

Put(b) ==
    /\ Len(queue) < Capacity
    /\ queue' = Append(queue, b)
    /\ UNCHANGED <<got, overflow>>

Refuse ==
    /\ Len(queue) = Capacity
    /\ overflow' = TRUE
    /\ UNCHANGED <<queue, got>>

Get ==
    /\ queue # <<>>
    /\ got' = Head(queue) /\ queue' = Tail(queue)
    /\ UNCHANGED overflow

Clear == queue' = <<>> /\ overflow' = FALSE /\ UNCHANGED got

Next == (\E b \in Byte : Put(b)) \/ Refuse \/ Get \/ Clear

Spec == Init /\ [][Next]_fvars
============================================================================
