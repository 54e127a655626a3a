-------------------------- MODULE MCMqttSubscribe --------------------------
(* Instances of MqttSubscribe for TLC.                                     *)
EXTENDS MqttSubscribe, TLC

(* Calls are interchangeable, and so are application threads.              *)
Symmetry == Permutations(Call) \cup Permutations(AppThread)

(* Without wildcards so are topics and handlers.                           *)
PlainSymmetry == Symmetry \cup Permutations(Topic) \cup Permutations(Handler)
============================================================================
