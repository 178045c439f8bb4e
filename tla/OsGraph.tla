------------------------------- MODULE OsGraph -------------------------------
(***************************************************************************)
(* create_graph_from_data of src/parallel-graph/src/os_graph.c: it turns a *)
(* list of edges into neighbour lists, in arrays of num_nodes entries, and *)
(* then marks every node NOT_VISITED.                                      *)
(***************************************************************************)
EXTENDS Integers, Sequences, FiniteSets

CONSTANTS NumNodes,     \* num_nodes; the nodes are 0 .. NumNodes - 1
          EdgeLists     \* the sequences of edges an input file may hold

Nodes == 0 .. NumNodes - 1

ASSUME InputAssumption == /\ NumNodes \in Nat \ {0}
                          /\ EdgeLists \subseteq Seq(Nodes \X Nodes)

VARIABLES edges,        \* the edges read from the file
          edge,         \* i of the loop over them, from 1
          neighbours,   \* nodes[n]->neighbours, up to num_neighbours
          visited       \* graph->visited, once it is allocated

graphVars == <<edges, edge, neighbours, visited>>

GraphInit ==
    /\ edges \in EdgeLists
    /\ edge = 1
    /\ neighbours = [n \in Nodes |-> <<>>]
    /\ visited = <<>>

Link(lists, from, to) == [lists EXCEPT ![from] = Append(@, to)]

(* mutant: the edge is entered at its first end only *)
AddDirectedEdge ==
    /\ edge <= Len(edges)
    /\ neighbours' = Link(neighbours, edges[edge][1], edges[edge][2])
    /\ edge' = edge + 1
    /\ UNCHANGED <<edges, visited>>

AddEdge ==
    /\ edge <= Len(edges)
    /\ LET isrc == edges[edge][1]
           idst == edges[edge][2]
       IN  neighbours' = Link(Link(neighbours, isrc, idst), idst, isrc)
    /\ edge' = edge + 1
    /\ UNCHANGED <<edges, visited>>

GraphCreated ==
    /\ edge = Len(edges) + 1
    /\ edge' = edge + 1
    /\ visited' = [n \in Nodes |-> "NOT_VISITED"]
    /\ UNCHANGED <<edges, neighbours>>

-----------------------------------------------------------------------------
Occurrences(n, m) == {i \in 1 .. Len(neighbours[n]) : neighbours[n][i] = m}

(* The edges seen so far that the file gives as n and m, in this order.    *)
Joins(n, m) == {j \in 1 .. Len(edges) : j < edge /\ edges[j] = <<n, m>>}

SimpleFile ==           \* no loops, and no edge twice
    \A i, j \in 1 .. Len(edges) :
        /\ edges[i][1] # edges[i][2]
        /\ edges[j] \in {edges[i], <<edges[i][2], edges[i][1]>>} => i = j

(***************************************************************************)
(* The reference definition of the lists: n's has m once for each edge     *)
(* seen so far that joins them, whichever end the file names first, and    *)
(* fits into its array when no two edges of the file join the same nodes.  *)
(***************************************************************************)
ListsMatchEdges ==
    /\ \A n, m \in Nodes :
          Cardinality(Occurrences(n, m)) = Cardinality(Joins(n, m)) + Cardinality(Joins(m, n))
    /\ SimpleFile => \A n \in Nodes : Len(neighbours[n]) <= NumNodes
=============================================================================
