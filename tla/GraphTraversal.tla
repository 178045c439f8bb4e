--------------------------- MODULE GraphTraversal ---------------------------
(***************************************************************************)
(* What both graph programs promise (src/parallel-graph/README.md):        *)
(* starting from a root node, visit every node connected to it exactly     *)
(* once, adding the node's value to a sum, and report the sum when nothing *)
(* is left to visit.  serial.c and parallel.c are two implementations.     *)
(***************************************************************************)
EXTENDS NodeGraph

VARIABLES visited,   \* the nodes whose value has been added
          sum,
          finished   \* the sum has been reported

vars == <<visited, sum, finished>>

Init == visited = {} /\ sum = 0 /\ finished = FALSE

Visit(n) ==
    /\ ~finished
    /\ n \notin visited
    /\ n = Root \/ \E m \in visited : n \in Adjacent(m)
    /\ visited' = visited \cup {n}
    /\ sum' = sum + Info[n]
    /\ UNCHANGED finished

Finish ==
    /\ ~finished
    /\ Closed(visited)
    /\ finished' = TRUE
    /\ UNCHANGED <<visited, sum>>

Next == (\E n \in Nodes : Visit(n)) \/ Finish

Spec == Init /\ [][Next]_vars

-----------------------------------------------------------------------------
(***************************************************************************)
(* Only nodes connected to the root are ever visited, and when the sum is  *)
(* reported they have all been: neither program may count a node of        *)
(* another component, or stop before the root's component is exhausted.    *)
(***************************************************************************)
VisitsTheComponent == /\ visited \subseteq Reachable
                      /\ finished => visited = Reachable

(* Each of them counts once. *)
ReportsTheSum == finished => sum = InfoSum(Reachable)
=============================================================================
