----------------------------- MODULE SerialGraph -----------------------------
(***************************************************************************)
(* The program of src/parallel-graph/src/serial.c: it builds the graph of  *)
(* its input file (module OsGraph) and traverses it depth first, process_  *)
(* node calling itself.  The call stack is a sequence of frames, the       *)
(* running one last.                                                       *)
(***************************************************************************)
EXTENDS OsGraph

CONSTANT Info           \* node->info

ASSUME InfoAssumption == Info \in [Nodes -> Int]

VARIABLES sum,
          stack,        \* the active calls: idx and i of each, i from 1
          mainPc

vars == <<graphVars, sum, stack, mainPc>>

Init == /\ GraphInit
        /\ sum = 0
        /\ stack = <<>>
        /\ mainPc = "create"

Create ==
    /\ mainPc = "create"
    /\ AddEdge \/ GraphCreated
    /\ mainPc' = IF visited' = <<>> THEN "create" ELSE "process"
    /\ UNCHANGED <<sum, stack>>

Top == stack[Len(stack)]
Pop == SubSeq(stack, 1, Len(stack) - 1)
SameFrame == Top         \* mutant: i is not incremented
NextFrame == [Top EXCEPT !.i = @ + 1]
Neighbour == neighbours[Top.idx][Top.i]

(* mutant: the node is not marked before its neighbours are visited *)
CallUnmarked(n, frames) ==
    /\ sum' = sum + Info[n]
    /\ stack' = Append(frames, [idx |-> n, i |-> 1])
    /\ UNCHANGED graphVars

(* The call of process_node(n) from frames, up to its loop. *)
Call(n, frames) ==
    /\ sum' = sum + Info[n]
    /\ visited' = [visited EXCEPT ![n] = "DONE"]
    /\ stack' = Append(frames, [idx |-> n, i |-> 1])
    /\ UNCHANGED <<edges, edge, neighbours>>

CallRoot ==
    /\ mainPc = "process"
    /\ mainPc' = "running"
    /\ Call(0, <<>>)

(* mutant: the last neighbour is left out *)
LoopingButOne == stack # <<>> /\ Top.i < Len(neighbours[Top.idx])

Looping == stack # <<>> /\ Top.i <= Len(neighbours[Top.idx])

Skip ==
    /\ Looping
    /\ visited[Neighbour] # "NOT_VISITED"
    /\ stack' = Append(Pop, NextFrame)
    /\ UNCHANGED <<graphVars, sum, mainPc>>

Recurse ==
    /\ Looping
    /\ visited[Neighbour] = "NOT_VISITED"
    /\ Call(Neighbour, Append(Pop, NextFrame))
    /\ UNCHANGED mainPc

Return ==
    /\ stack # <<>> /\ ~Looping
    /\ stack' = Pop
    /\ UNCHANGED <<graphVars, sum, mainPc>>

PrintSum ==
    /\ mainPc = "running" /\ stack = <<>>
    /\ mainPc' = "exit"
    /\ UNCHANGED <<graphVars, sum, stack>>

Next == Create \/ CallRoot \/ Skip \/ Recurse \/ Return \/ PrintSum

Spec == Init /\ [][Next]_vars

FairSpec == Spec /\ WF_vars(Next)       \* one thread, which runs

-----------------------------------------------------------------------------
Graph == INSTANCE NodeGraph WITH Root <- 0, Neighbours <- neighbours

Done == {n \in Nodes : visited[n] = "DONE"}

(***************************************************************************)
(* The calls that are active are of distinct nodes, each a neighbour its   *)
(* caller has just moved past: the recursion is never deeper than the      *)
(* graph has nodes, whatever its cycles.                                   *)
(***************************************************************************)
CallsFollowAPath ==
    /\ \A f, g \in 1 .. Len(stack) : stack[f].idx = stack[g].idx => f = g
    /\ \A f \in 1 .. Len(stack) - 1 :
          /\ stack[f].i > 1
          /\ stack[f + 1].idx = neighbours[stack[f].idx][stack[f].i - 1]

(***************************************************************************)
(* A call that has returned leaves no neighbour of its node unvisited.     *)
(***************************************************************************)
ReturnedCallsAreComplete ==
    mainPc \in {"running", "exit"} =>
        \A n \in Done \ {stack[f].idx : f \in 1 .. Len(stack)} :
            Graph!Adjacent(n) \subseteq Done

(* The traversal keeps to the root's component, and in the end it has      *)
(* visited all of it.                                                      *)
VisitsTheComponent ==
    /\ mainPc \in {"running", "exit"} => Done \subseteq Graph!Reachable
    /\ mainPc = "exit" => Done = Graph!Reachable

(* The recursion follows a path of the graph and leaves nothing behind it. *)
RecursionInv == CallsFollowAPath /\ ReturnedCallsAreComplete /\ VisitsTheComponent

(***************************************************************************)
(* The sum printed counts every node of the root's component, and no other *)
(* one, exactly once: the reference is the least set of nodes that has the *)
(* root and is closed under the edges.                                     *)
(***************************************************************************)
PrintedSum == mainPc = "exit" => sum = Graph!InfoSum(Graph!Reachable)

Frame == [idx : Nodes, i : Nat \ {0}]

TypeOK ==
    /\ edges \in EdgeLists /\ edge \in 1 .. Len(edges) + 2
    /\ neighbours \in [Nodes -> Seq(Nodes)]
    /\ mainPc \in {"create", "process", "running", "exit"}
    /\ IF mainPc = "create" THEN visited = <<>>
                            ELSE visited \in [Nodes -> {"NOT_VISITED", "DONE"}]
    /\ sum \in Int /\ stack \in Seq(Frame)

(* An active call has visited its node and the neighbours it has passed.   *)
CallsHaveVisited ==
    \A f \in 1 .. Len(stack) :
        /\ stack[f].idx \in Done
        /\ stack[f].i <= Len(neighbours[stack[f].idx]) + 1
        /\ \A j \in 1 .. stack[f].i - 1 : neighbours[stack[f].idx][j] \in Done

MainInv ==
    /\ mainPc # "running" => stack = <<>>
    /\ mainPc = "process" => Done = {}
    /\ mainPc \in {"running", "exit"} => 0 \in Done

(* The inductive invariant.                                                *)
SerialInv == TypeOK /\ RecursionInv /\ CallsHaveVisited /\ MainInv

(* The recursion comes to its end. *)
Terminates == <>(mainPc = "exit")
=============================================================================
