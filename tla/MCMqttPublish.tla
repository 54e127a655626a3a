--------------------------- MODULE MCMqttPublish ---------------------------
(* Instances of MqttPublish for TLC.                                       *)
EXTENDS MqttPublish, TLC

(* Application threads and requests are interchangeable.                   *)
Symmetry == Permutations(AppThread) \cup Permutations(Request)
============================================================================
