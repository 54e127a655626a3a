----------------------------- MODULE MCGateway -----------------------------
(***************************************************************************)
(* Instance of Gateway: two sub-devices of one product, the name of the    *)
(* first a prefix of the name of the second; the threads are alike.        *)
(***************************************************************************)
EXTENDS Gateway, TLC

MCPrefixOf == {<<"d1", "d10">>}
MCSymmetry == Permutations(Caller)
=============================================================================
