---------------------------- MODULE MCSerialGraph ----------------------------
(***************************************************************************)
(* SerialGraph on every simple graph of four nodes with up to four edges,  *)
(* the edges listed in every order: trees, cycles and unconnected nodes.   *)
(***************************************************************************)
EXTENDS SerialGraph, TLC

MaxEdges == 4

AllEdges == {<<0, 1>>, <<2, 0>>, <<3, 0>>, <<1, 2>>, <<3, 1>>, <<2, 3>>}

MCEdgeLists ==
    UNION {{s \in [1 .. k -> AllEdges] : \A i, j \in 1 .. k : s[i] = s[j] => i = j} :
           k \in 0 .. MaxEdges}

(* Every node has a bit of its own in the sum. *)
MCInfo == <<2, 4, 8>> @@ (0 :> 1)
=============================================================================
