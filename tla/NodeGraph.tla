------------------------------ MODULE NodeGraph ------------------------------
(***************************************************************************)
(* The graph both programs of src/parallel-graph work on, as               *)
(* create_graph_from_data leaves it (module OsGraph builds it): each node  *)
(* has an info value and a list of neighbours.  It never changes while     *)
(* the nodes are being visited.                                            *)
(***************************************************************************)
EXTENDS Integers, Sequences, FiniteSetsExt

CONSTANTS Nodes,
          Root,         \* node 0, where both programs start
          Info,         \* node->info
          Neighbours    \* node->neighbours, num_neighbours entries long

ASSUME GraphAssumption == /\ Root \in Nodes
                          /\ Info \in [Nodes -> Int]
                          /\ Neighbours \in [Nodes -> Seq(Nodes)]

Adjacent(n) == {Neighbours[n][i] : i \in 1 .. Len(Neighbours[n])}

Closed(S) == Root \in S /\ \A n \in S : Adjacent(n) \subseteq S

(* The nodes connected to the root: the least closed set. *)
Reachable == {n \in Nodes : \A S \in SUBSET Nodes : Closed(S) => n \in S}

InfoSum(S) == MapThenSumSet(LAMBDA n : Info[n], S)
=============================================================================
