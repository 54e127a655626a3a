---------------------------- MODULE MCOtaUpgrade ----------------------------
(* Instances of OtaUpgrade for TLC.                                        *)
EXTENDS OtaUpgrade

(* The image published first is larger than one range request, the one     *)
(* that replaces it smaller than the first.                                *)
MCSize == [image \in Image |-> IF image = "first" THEN 3 ELSE 2]
=============================================================================
