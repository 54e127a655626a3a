-------------------------- MODULE PublishContract --------------------------
(***************************************************************************)
(* What the publish API promises about one QoS 1 publish call: the call    *)
(* returns once; a call that returned an error is over and the user hears  *)
(* no more of it; otherwise the user is told about a success or about a    *)
(* time-out, each at most once, and about a time-out never after success.  *)
(* A PUBACK may be reported before the call has returned, and after the    *)
(* time-out was reported.                                                  *)
(***************************************************************************)
CONSTANT Request

VARIABLES
    answer,   \* what the call returned
    outcome   \* what the events said

cvars == <<answer, outcome>>

Init ==
    /\ answer = [r \in Request |-> "none"]
    /\ outcome = [r \in Request |-> "open"]

Reject(r) ==
    /\ answer[r] = "none" /\ outcome[r] = "open"
    /\ answer' = [answer EXCEPT ![r] = "rejected"]
    /\ UNCHANGED outcome

Accept(r) ==
    /\ answer[r] = "none"
    /\ answer' = [answer EXCEPT ![r] = "accepted"]
    /\ UNCHANGED outcome

Acked(r) ==
    /\ answer[r] # "rejected"
    /\ \/ outcome[r] = "open"    /\ outcome' = [outcome EXCEPT ![r] = "acked"]
       \/ outcome[r] = "expired" /\ outcome' = [outcome EXCEPT ![r] = "acked_late"]
    /\ UNCHANGED answer

Expired(r) ==
    /\ answer[r] = "accepted" /\ outcome[r] = "open"
    /\ outcome' = [outcome EXCEPT ![r] = "expired"]
    /\ UNCHANGED answer

Next == \E r \in Request : Reject(r) \/ Accept(r) \/ Acked(r) \/ Expired(r)

Spec == Init /\ [][Next]_cvars
============================================================================
