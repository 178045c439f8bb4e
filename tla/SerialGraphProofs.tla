-------------------------- MODULE SerialGraphProofs --------------------------
(***************************************************************************)
(* The serial traversal, for any number of nodes and any input: proofs of  *)
(* SerialInv and so of RecursionInv.                                       *)
(***************************************************************************)
EXTENDS SerialGraph, SequenceTheorems, SetLemmas, TLAPS

-----------------------------------------------------------------------------
(* The call stack as a sequence *)

LEMMA Popped ==
    ASSUME NEW S, NEW s \in Seq(S), s # <<>>
    PROVE  LET t == SubSeq(s, 1, Len(s) - 1)
           IN  /\ Len(s) \in Nat \ {0} /\ s[Len(s)] \in S
               /\ t \in Seq(S) /\ Len(t) = Len(s) - 1
               /\ \A f \in 1 .. Len(s) - 1 : t[f] = s[f]
<1>1. Len(s) \in Nat \ {0}
  BY LenProperties, EmptySeq
<1>2. \A f \in 1 .. Len(s) : s[f] \in S
  BY <1>1, ElementOfSeq
<1>3. \A f \in 1 .. Len(s) - 1 : s[f] \in S
  BY <1>1, <1>2
<1>k. PICK k \in Nat : k = Len(s) - 1
  BY <1>1
<1> DEFINE t == SubSeq(s, 1, k)
<1>5. /\ t \in Seq(S) /\ Len(t) = (IF 1 <= k THEN k - 1 + 1 ELSE 0)
      /\ \A f \in 1 .. k - 1 + 1 : t[f] = s[1 + f - 1]
  BY <1>3, <1>k, SubSeqProperties
<1> HIDE DEF t
<1>6. Len(t) = k /\ \A f \in 1 .. k : t[f] = s[f]
  <2>1. ASSUME NEW f \in 1 .. k PROVE t[f] = s[f]
    <3>1. f \in 1 .. k - 1 + 1 /\ 1 + f - 1 = f
      OBVIOUS
    <3> QED BY <1>5, <3>1
  <2>2. Len(t) = k
    BY <1>5
  <2> QED BY <2>1, <2>2
<1> QED BY <1>1, <1>2, <1>k, <1>5, <1>6 DEF t

LEMMA TopReplaced ==
    ASSUME NEW S, NEW s \in Seq(S), s # <<>>, NEW x \in S
    PROVE  LET t == Append(SubSeq(s, 1, Len(s) - 1), x)
           IN  /\ t \in Seq(S) /\ Len(t) = Len(s)
               /\ \A f \in 1 .. Len(s) : t[f] = IF f = Len(s) THEN x ELSE s[f]
<1> DEFINE p == SubSeq(s, 1, Len(s) - 1)
<1>1. /\ Len(s) \in Nat \ {0} /\ p \in Seq(S) /\ Len(p) = Len(s) - 1
      /\ \A f \in 1 .. Len(s) - 1 : p[f] = s[f]
  BY Popped
<1> HIDE DEF p
<1>2. /\ Append(p, x) \in Seq(S) /\ Len(Append(p, x)) = Len(p) + 1
      /\ \A f \in 1 .. Len(p) : Append(p, x)[f] = p[f]
      /\ Append(p, x)[Len(p) + 1] = x
  BY <1>1, AppendProperties
<1>3. Len(p) + 1 = Len(s)
  BY <1>1
<1>4. ASSUME NEW f \in 1 .. Len(s)
      PROVE  Append(p, x)[f] = IF f = Len(s) THEN x ELSE s[f]
  <2>1. CASE f = Len(s)
    BY <1>2, <1>3, <2>1
  <2>2. CASE f # Len(s)
    <3>1. f \in 1 .. Len(p) /\ f \in 1 .. Len(s) - 1
      BY <1>1, <2>2
    <3> QED BY <1>1, <1>2, <2>2, <3>1
  <2> QED BY <2>1, <2>2
<1> QED BY <1>2, <1>3, <1>4 DEF p

-----------------------------------------------------------------------------
(* The graph *)

LEMMA NeighbourIsNode ==
    ASSUME TypeOK, NEW n \in Nodes
    PROVE  /\ Len(neighbours[n]) \in Nat
           /\ \A i \in 1 .. Len(neighbours[n]) : neighbours[n][i] \in Nodes
<1>1. neighbours[n] \in Seq(Nodes)
  BY DEF TypeOK
<1> QED BY <1>1, LenProperties, ElementOfSeq

LEMMA RootIsNode == 0 \in Nodes /\ Nodes \subseteq Int
  BY InputAssumption DEF Nodes

(* The component is closed under the edges, and least such.                *)
LEMMA ReachableIsLeast ==
    ASSUME TypeOK
    PROVE  /\ 0 \in Graph!Reachable /\ Graph!Reachable \subseteq Nodes
           /\ \A n \in Graph!Reachable : \A i \in 1 .. Len(neighbours[n]) :
                 neighbours[n][i] \in Graph!Reachable
           /\ \A S \in SUBSET Nodes :
                 0 \in S /\ (\A n \in S : Graph!Adjacent(n) \subseteq S)
                    => Graph!Reachable \subseteq S
<1>1. 0 \in Graph!Reachable /\ Graph!Reachable \subseteq Nodes
  BY RootIsNode DEF Graph!Reachable, Graph!Closed
<1>2. ASSUME NEW n \in Graph!Reachable, NEW i \in 1 .. Len(neighbours[n])
      PROVE  neighbours[n][i] \in Graph!Reachable
  <2>1. n \in Nodes /\ neighbours[n][i] \in Nodes
    BY <1>1, NeighbourIsNode
  <2>2. ASSUME NEW S \in SUBSET Nodes, Graph!Closed(S) PROVE neighbours[n][i] \in S
    <3>1. n \in S
      BY <2>2 DEF Graph!Reachable
    <3> QED BY <2>2, <3>1 DEF Graph!Closed, Graph!Adjacent
  <2> QED BY <2>1, <2>2 DEF Graph!Reachable
<1>3. ASSUME NEW S \in SUBSET Nodes, 0 \in S, \A n \in S : Graph!Adjacent(n) \subseteq S
      PROVE  Graph!Reachable \subseteq S
  BY <1>3 DEF Graph!Reachable, Graph!Closed
<1> QED BY <1>1, <1>2, <1>3

(* It is fixed once the lists are.                                         *)
LEMMA GraphFixed ==
    ASSUME neighbours' = neighbours
    PROVE  /\ Graph!Reachable' = Graph!Reachable
           /\ \A n : Graph!Adjacent(n)' = Graph!Adjacent(n)
  BY DEF Graph!Reachable, Graph!Closed, Graph!Adjacent

-----------------------------------------------------------------------------
(* The steps *)

LEMMA InitInv == ASSUME Init PROVE SerialInv
<1>1. TypeOK
  <2>1. edges \in EdgeLists /\ Len(edges) \in Nat
    BY InputAssumption, LenProperties DEF Init, GraphInit
  <2>2. <<>> \in Seq(Nodes) /\ <<>> \in Seq(Frame)
    BY EmptySeq
  <2> QED BY <2>1, <2>2 DEF Init, GraphInit, TypeOK
<1> QED BY <1>1, EmptySeq DEF Init, SerialInv, RecursionInv, CallsFollowAPath,
           ReturnedCallsAreComplete, VisitsTheComponent, CallsHaveVisited, MainInv

LEMMA CreateStep ==
    ASSUME SerialInv, Create
    PROVE  SerialInv'
<1> USE DEF graphVars
<1>0. /\ TypeOK /\ mainPc = "create" /\ stack = <<>> /\ visited = <<>>
      /\ neighbours \in [Nodes -> Seq(Nodes)] /\ edges \in EdgeLists
      /\ edge \in 1 .. Len(edges) + 2 /\ sum \in Int
  BY DEF SerialInv, MainInv, TypeOK, Create
<1>1. Len(edges) \in Nat /\ edges \in Seq(Nodes \X Nodes)
  BY <1>0, InputAssumption, LenProperties
<1>e. <<>> \in Seq(Frame) /\ Len(<<>>) = 0
  BY EmptySeq
<1>2. CASE AddEdge
  <2>1. edge \in 1 .. Len(edges) /\ edge' = edge + 1
    BY <1>0, <1>1, <1>2 DEF AddEdge
  <2>2. PICK isrc \in Nodes, idst \in Nodes :
           neighbours' = Link(Link(neighbours, isrc, idst), idst, isrc)
    <3>1. edges[edge] \in Nodes \X Nodes
      BY <1>1, <2>1, ElementOfSeq
    <3> QED BY <1>2, <3>1 DEF AddEdge
  <2>3. ASSUME NEW lists \in [Nodes -> Seq(Nodes)], NEW from \in Nodes, NEW to \in Nodes
        PROVE  Link(lists, from, to) \in [Nodes -> Seq(Nodes)]
    BY AppendProperties DEF Link
  <2>4. neighbours' \in [Nodes -> Seq(Nodes)]
    <3>1. Link(neighbours, isrc, idst) \in [Nodes -> Seq(Nodes)]
      BY <1>0, <2>3
    <3> QED BY <2>2, <2>3, <3>1
  <2>5. visited' = <<>> /\ mainPc' = "create" /\ stack' = <<>> /\ sum' = sum /\ edges' = edges
    BY <1>0, <1>2 DEF Create, AddEdge
  <2>6. edge' \in 1 .. Len(edges') + 2
    BY <1>1, <2>1, <2>5
  <2>7. TypeOK'
    BY <1>0, <1>e, <2>4, <2>5, <2>6 DEF TypeOK
  <2> QED BY <1>e, <2>5, <2>7 DEF SerialInv, RecursionInv, CallsFollowAPath,
           ReturnedCallsAreComplete, VisitsTheComponent, CallsHaveVisited, MainInv
<1>3. CASE GraphCreated
  <2>1. /\ edge' = Len(edges) + 2
        /\ visited' = [n \in Nodes |-> "NOT_VISITED"] /\ edges' = edges
        /\ neighbours' = neighbours /\ stack' = <<>> /\ sum' = sum
    BY <1>0, <1>1, <1>3 DEF Create, GraphCreated
  <2>2. visited' # <<>>
    <3>1. 0 \in DOMAIN visited' /\ 0 \notin DOMAIN <<>>
      BY <2>1, RootIsNode
    <3> QED BY <3>1
  <2>3. mainPc' = "process"
    BY <2>2 DEF Create
  <2>4. TypeOK'
    <3>1. edge' \in 1 .. Len(edges') + 2
      BY <1>1, <2>1
    <3> QED BY <1>0, <1>e, <2>1, <2>3, <3>1 DEF TypeOK
  <2>5. Done' = {}
    BY <2>1 DEF Done
  <2> QED BY <1>e, <2>1, <2>3, <2>4, <2>5 DEF SerialInv, RecursionInv, CallsFollowAPath,
           ReturnedCallsAreComplete, VisitsTheComponent, CallsHaveVisited, MainInv
<1> QED BY <1>2, <1>3 DEF Create

LEMMA CallRootStep ==
    ASSUME SerialInv, CallRoot
    PROVE  SerialInv'
<1> USE DEF graphVars
<1> DEFINE root == [idx |-> 0, i |-> 1]
<1>0. /\ TypeOK /\ mainPc = "process" /\ mainPc' = "running" /\ Done = {}
      /\ visited \in [Nodes -> {"NOT_VISITED", "DONE"}]
      /\ visited' = [visited EXCEPT ![0] = "DONE"]
      /\ sum' = sum + Info[0] /\ stack' = Append(<<>>, root)
      /\ UNCHANGED <<edges, edge, neighbours>>
  BY DEF SerialInv, MainInv, TypeOK, CallRoot, Call
<1>1. /\ stack' \in Seq(Frame) /\ Len(stack') = 1 /\ stack'[1] = root
  <2>1. root \in Frame /\ <<>> \in Seq(Frame) /\ Len(<<>>) = 0
    BY RootIsNode, EmptySeq DEF Frame
  <2> QED BY <1>0, <2>1, AppendProperties
<1>2. Done' = {0}
  BY <1>0, RootIsNode DEF Done
<1>3. TypeOK'
  <2>1. visited' \in [Nodes -> {"NOT_VISITED", "DONE"}] /\ sum' \in Int
    BY <1>0, RootIsNode, InfoAssumption DEF TypeOK
  <2> QED BY <1>0, <1>1, <2>1 DEF TypeOK
<1>4. RecursionInv'
  <2>1. CallsFollowAPath'
    BY <1>1 DEF CallsFollowAPath
  <2>2. ReturnedCallsAreComplete'
    BY <1>1, <1>2 DEF ReturnedCallsAreComplete
  <2>3. VisitsTheComponent'
    BY <1>0, <1>2, GraphFixed, ReachableIsLeast DEF VisitsTheComponent
  <2> QED BY <2>1, <2>2, <2>3 DEF RecursionInv
<1>5. CallsHaveVisited'
  <2>1. Len(neighbours[0]) \in Nat
    BY <1>0, RootIsNode, NeighbourIsNode
  <2> QED BY <1>0, <1>1, <1>2, <2>1 DEF CallsHaveVisited
<1>6. MainInv'
  BY <1>0, <1>2 DEF MainInv
<1> QED BY <1>3, <1>4, <1>5, <1>6 DEF SerialInv

(* What a call in its loop, or about to return, may rely on.               *)
LEMMA AtTheTop ==
    ASSUME SerialInv, stack # <<>>
    PROVE  /\ mainPc = "running" /\ stack \in Seq(Frame) /\ Len(stack) \in Nat \ {0}
           /\ visited \in [Nodes -> {"NOT_VISITED", "DONE"}]
           /\ Top = stack[Len(stack)] /\ Top \in Frame /\ Top.idx \in Nodes /\ Top.i \in Nat \ {0}
           /\ Top.idx \in Done /\ Top.i <= Len(neighbours[Top.idx]) + 1
           /\ Len(neighbours[Top.idx]) \in Nat
           /\ \A j \in 1 .. Top.i - 1 : neighbours[Top.idx][j] \in Done
           /\ \A f \in 1 .. Len(stack) : stack[f] \in Frame
<1>1. mainPc = "running" /\ stack \in Seq(Frame) /\ TypeOK /\ CallsHaveVisited
  BY DEF SerialInv, MainInv, TypeOK
<1>2. Len(stack) \in Nat \ {0} /\ stack[Len(stack)] \in Frame
  BY <1>1, Popped
<1>3. Len(stack) \in 1 .. Len(stack)
  BY <1>2
<1>4. Top \in Frame /\ Top.idx \in Nodes /\ Top.i \in Nat \ {0}
  BY <1>2 DEF Top, Frame
<1>5. /\ Top.idx \in Done /\ Top.i <= Len(neighbours[Top.idx]) + 1
      /\ \A j \in 1 .. Top.i - 1 : neighbours[Top.idx][j] \in Done
  BY <1>1, <1>3 DEF CallsHaveVisited, Top
<1>6. visited \in [Nodes -> {"NOT_VISITED", "DONE"}]
  BY <1>1 DEF TypeOK
<1>7. \A f \in 1 .. Len(stack) : stack[f] \in Frame
  BY <1>1, ElementOfSeq
<1> QED BY <1>1, <1>2, <1>4, <1>5, <1>6, <1>7, NeighbourIsNode DEF Top

(* The stack once the running call has moved past a neighbour.             *)
LEMMA MovedOn ==
    ASSUME SerialInv, Looping
    PROVE  LET frames == Append(Pop, NextFrame)
           IN  /\ frames \in Seq(Frame) /\ Len(frames) = Len(stack)
               /\ \A f \in 1 .. Len(stack) :
                     frames[f] = IF f = Len(stack) THEN NextFrame ELSE stack[f]
               /\ NextFrame.idx = Top.idx /\ NextFrame.i = Top.i + 1
               /\ Top.i \in 1 .. Len(neighbours[Top.idx]) /\ Neighbour \in Nodes
<1>1. stack # <<>> /\ Top.i <= Len(neighbours[Top.idx])
  BY DEF Looping
<1>2. /\ stack \in Seq(Frame) /\ Top \in Frame /\ Top.idx \in Nodes /\ Top.i \in Nat \ {0}
      /\ Len(neighbours[Top.idx]) \in Nat
  BY <1>1, AtTheTop
<1>3. NextFrame \in Frame /\ NextFrame.idx = Top.idx /\ NextFrame.i = Top.i + 1
  BY <1>2 DEF NextFrame, Frame
<1>4. Top.i \in 1 .. Len(neighbours[Top.idx])
  BY <1>1, <1>2
<1>5. Neighbour \in Nodes
  BY <1>2, <1>4, NeighbourIsNode DEF Neighbour, SerialInv
<1> QED BY <1>1, <1>2, <1>3, <1>4, <1>5, TopReplaced DEF Pop

LEMMA SkipStep ==
    ASSUME SerialInv, Skip
    PROVE  SerialInv'
<1> USE DEF graphVars
<1>1. /\ Looping /\ stack # <<>> /\ visited[Neighbour] # "NOT_VISITED"
      /\ stack' = Append(Pop, NextFrame)
      /\ UNCHANGED <<edges, edge, neighbours, visited, sum, mainPc>>
  BY DEF Skip, Looping
<1>2. /\ stack' \in Seq(Frame) /\ Len(stack') = Len(stack)
      /\ \A f \in 1 .. Len(stack) :
            stack'[f] = IF f = Len(stack) THEN NextFrame ELSE stack[f]
      /\ NextFrame.idx = Top.idx /\ NextFrame.i = Top.i + 1
      /\ Top.i \in 1 .. Len(neighbours[Top.idx]) /\ Neighbour \in Nodes
  BY <1>1, MovedOn
<1>3. /\ mainPc = "running" /\ Len(stack) \in Nat \ {0} /\ Top = stack[Len(stack)]
      /\ visited \in [Nodes -> {"NOT_VISITED", "DONE"}]
      /\ Top.idx \in Done /\ Top.i \in Nat \ {0} /\ Len(neighbours[Top.idx]) \in Nat
      /\ \A j \in 1 .. Top.i - 1 : neighbours[Top.idx][j] \in Done
  BY <1>1, AtTheTop
<1>4. Done' = Done /\ Neighbour \in Done
  BY <1>1, <1>2, <1>3 DEF Done
<1>5. \A f \in 1 .. Len(stack) : stack'[f].idx = stack[f].idx
  BY <1>2, <1>3
<1>6. TypeOK'
  BY <1>1, <1>2 DEF SerialInv, TypeOK
<1>7. CallsFollowAPath'
  <2>1. \A f \in 1 .. Len(stack) - 1 :
           /\ f \in 1 .. Len(stack) /\ f + 1 \in 1 .. Len(stack) /\ stack'[f] = stack[f]
    BY <1>2, <1>3
  <2> QED BY <1>1, <1>2, <1>5, <2>1 DEF SerialInv, RecursionInv, CallsFollowAPath
<1>8. ReturnedCallsAreComplete' /\ VisitsTheComponent'
  <2>1. {stack'[f].idx : f \in 1 .. Len(stack')} = {stack[f].idx : f \in 1 .. Len(stack)}
    BY <1>2, <1>5
  <2> QED BY <1>1, <1>3, <1>4, <2>1, GraphFixed
          DEF SerialInv, RecursionInv, ReturnedCallsAreComplete, VisitsTheComponent
<1>9. CallsHaveVisited'
  <2>1. ASSUME NEW f \in 1 .. Len(stack), f # Len(stack)
        PROVE  /\ stack'[f].idx \in Done
               /\ stack'[f].i <= Len(neighbours[stack'[f].idx]) + 1
               /\ \A j \in 1 .. stack'[f].i - 1 : neighbours[stack'[f].idx][j] \in Done
    BY <1>2, <2>1 DEF SerialInv, CallsHaveVisited
  <2>2. /\ NextFrame.idx \in Done
        /\ NextFrame.i <= Len(neighbours[NextFrame.idx]) + 1
        /\ \A j \in 1 .. NextFrame.i - 1 : neighbours[NextFrame.idx][j] \in Done
    <3>1. NextFrame.i - 1 = Top.i /\ Top.i + 1 <= Len(neighbours[Top.idx]) + 1
      BY <1>2, <1>3
    <3>2. \A j \in 1 .. Top.i : j \in 1 .. Top.i - 1 \/ j = Top.i
      BY <1>3
    <3> QED BY <1>2, <1>3, <1>4, <3>1, <3>2 DEF Neighbour
  <2>3. \A f \in 1 .. Len(stack) : f # Len(stack) \/ stack'[f] = NextFrame
    BY <1>2
  <2> QED BY <1>1, <1>2, <1>4, <2>1, <2>2, <2>3 DEF CallsHaveVisited
<1>10. MainInv'
  BY <1>1, <1>3, <1>4 DEF SerialInv, MainInv
<1> QED BY <1>6, <1>7, <1>8, <1>9, <1>10 DEF SerialInv, RecursionInv

LEMMA RecurseStep ==
    ASSUME SerialInv, Recurse
    PROVE  SerialInv'
<1> USE DEF graphVars
<1> DEFINE callee == [idx |-> Neighbour, i |-> 1]
           frames == Append(Pop, NextFrame)
<1>1. /\ Looping /\ stack # <<>> /\ visited[Neighbour] = "NOT_VISITED"
      /\ stack' = Append(frames, callee)
      /\ visited' = [visited EXCEPT ![Neighbour] = "DONE"]
      /\ sum' = sum + Info[Neighbour]
      /\ UNCHANGED <<edges, edge, neighbours, mainPc>>
  BY DEF Recurse, Call, Looping
<1>2. /\ frames \in Seq(Frame) /\ Len(frames) = Len(stack)
      /\ \A f \in 1 .. Len(stack) :
            frames[f] = IF f = Len(stack) THEN NextFrame ELSE stack[f]
      /\ NextFrame.idx = Top.idx /\ NextFrame.i = Top.i + 1
      /\ Top.i \in 1 .. Len(neighbours[Top.idx]) /\ Neighbour \in Nodes
  BY <1>1, MovedOn
<1>3. /\ mainPc = "running" /\ Len(stack) \in Nat \ {0} /\ Top = stack[Len(stack)]
      /\ visited \in [Nodes -> {"NOT_VISITED", "DONE"}]
      /\ Top.idx \in Done /\ Top.i \in Nat \ {0} /\ Len(neighbours[Top.idx]) \in Nat
      /\ \A j \in 1 .. Top.i - 1 : neighbours[Top.idx][j] \in Done
  BY <1>1, AtTheTop
<1> HIDE DEF frames
<1>4. /\ stack' \in Seq(Frame) /\ Len(stack') = Len(stack) + 1
      /\ \A f \in 1 .. Len(stack) : stack'[f] = frames[f]
      /\ stack'[Len(stack) + 1] = callee
  <2>1. callee \in Frame
    BY <1>2 DEF Frame
  <2> QED BY <1>1, <1>2, <2>1, AppendProperties
<1>5. Done' = Done \cup {Neighbour} /\ Neighbour \notin Done
  BY <1>1, <1>2, <1>3 DEF Done
<1>6. \A f \in 1 .. Len(stack) : stack'[f].idx = stack[f].idx /\ stack[f].idx \in Done
  BY <1>2, <1>3, <1>4 DEF SerialInv, CallsHaveVisited
<1>7. \A f \in 1 .. Len(stack) + 1 : f \in 1 .. Len(stack) \/ f = Len(stack) + 1
  BY <1>3
<1>8. TypeOK'
  <2>1. visited' \in [Nodes -> {"NOT_VISITED", "DONE"}] /\ sum' \in Int
    <3>1. Info[Neighbour] \in Int /\ sum \in Int
      BY <1>2, InfoAssumption DEF SerialInv, TypeOK
    <3>2. sum' \in Int
      BY <1>1, <3>1
    <3> QED BY <1>1, <1>2, <1>3, <3>2
  <2> QED BY <1>1, <1>3, <1>4, <2>1 DEF SerialInv, TypeOK
<1>9. CallsFollowAPath'
  <2>1. ASSUME NEW f \in 1 .. Len(stack'), NEW g \in 1 .. Len(stack'),
               stack'[f].idx = stack'[g].idx
        PROVE  f = g
    <3>1. CASE f \in 1 .. Len(stack) /\ g \in 1 .. Len(stack)
      BY <1>6, <2>1, <3>1 DEF SerialInv, RecursionInv, CallsFollowAPath
    <3>2. CASE f = Len(stack) + 1 \/ g = Len(stack) + 1
      BY <1>4, <1>5, <1>6, <1>7, <2>1, <3>2
    <3> QED BY <1>4, <1>7, <3>1, <3>2
  <2>2. ASSUME NEW f \in 1 .. Len(stack), f # Len(stack)
        PROVE  /\ stack'[f].i > 1
               /\ stack'[f + 1].idx = neighbours[stack'[f].idx][stack'[f].i - 1]
    <3>1. f \in 1 .. Len(stack) - 1 /\ f + 1 \in 1 .. Len(stack)
      BY <1>3, <2>2
    <3>2. stack'[f] = stack[f] /\ stack'[f + 1].idx = stack[f + 1].idx
      BY <1>2, <1>4, <1>6, <2>2, <3>1
    <3> QED BY <3>1, <3>2 DEF SerialInv, RecursionInv, CallsFollowAPath
  <2>3. ASSUME NEW f \in 1 .. Len(stack), f = Len(stack)
        PROVE  /\ stack'[f].i > 1
               /\ stack'[f + 1].idx = neighbours[stack'[f].idx][stack'[f].i - 1]
    <3>1. stack'[f] = NextFrame /\ stack'[f + 1] = callee
      BY <1>2, <1>4, <2>3
    <3>2. Top.i + 1 > 1 /\ Top.i + 1 - 1 = Top.i
      BY <1>3
    <3> QED BY <1>2, <3>1, <3>2 DEF Neighbour
  <2>4. Len(stack') - 1 = Len(stack)
    BY <1>3, <1>4
  <2> QED BY <1>1, <2>1, <2>2, <2>3, <2>4 DEF CallsFollowAPath
<1>10. ReturnedCallsAreComplete'
  <2>1. ASSUME NEW n \in Done', n \notin {stack'[f].idx : f \in 1 .. Len(stack')}
        PROVE  Graph!Adjacent(n) \subseteq Done
    <3>1. n # Neighbour
      <4>1. Len(stack) + 1 \in 1 .. Len(stack')
        BY <1>3, <1>4
      <4> QED BY <1>4, <2>1, <4>1
    <3>2. n \notin {stack[f].idx : f \in 1 .. Len(stack)}
      <4>1. \A f \in 1 .. Len(stack) : f \in 1 .. Len(stack')
        BY <1>3, <1>4
      <4> QED BY <1>6, <2>1, <4>1
    <3> QED BY <1>3, <1>5, <2>1, <3>1, <3>2
            DEF SerialInv, RecursionInv, ReturnedCallsAreComplete
  <2> QED BY <1>1, <1>5, <2>1, GraphFixed DEF ReturnedCallsAreComplete
<1>11. VisitsTheComponent'
  <2>1. Done \subseteq Graph!Reachable /\ TypeOK
    BY <1>3 DEF SerialInv, RecursionInv, VisitsTheComponent
  <2>2. Neighbour \in Graph!Reachable
    BY <1>2, <1>3, <2>1, ReachableIsLeast DEF Neighbour
  <2> QED BY <1>1, <1>3, <1>5, <2>1, <2>2, GraphFixed DEF VisitsTheComponent
<1>12. CallsHaveVisited'
  <2>1. ASSUME NEW f \in 1 .. Len(stack), f # Len(stack)
        PROVE  /\ stack'[f].idx \in Done
               /\ stack'[f].i <= Len(neighbours[stack'[f].idx]) + 1
               /\ \A j \in 1 .. stack'[f].i - 1 : neighbours[stack'[f].idx][j] \in Done
    BY <1>2, <1>4, <2>1 DEF SerialInv, CallsHaveVisited
  <2>2. /\ NextFrame.idx \in Done
        /\ NextFrame.i <= Len(neighbours[NextFrame.idx]) + 1
        /\ \A j \in 1 .. NextFrame.i - 1 : neighbours[NextFrame.idx][j] \in Done'
    <3>1. NextFrame.i - 1 = Top.i /\ Top.i + 1 <= Len(neighbours[Top.idx]) + 1
      BY <1>2, <1>3
    <3>2. \A j \in 1 .. Top.i : j \in 1 .. Top.i - 1 \/ j = Top.i
      BY <1>3
    <3> QED BY <1>2, <1>3, <1>5, <3>1, <3>2 DEF Neighbour
  <2>3. Len(neighbours[Neighbour]) \in Nat
    BY <1>2, NeighbourIsNode DEF SerialInv
  <2>4. /\ callee.idx \in Done' /\ callee.i <= Len(neighbours[callee.idx]) + 1
        /\ \A j \in 1 .. callee.i - 1 : neighbours[callee.idx][j] \in Done'
    BY <1>5, <2>3
  <2>5. \A f \in 1 .. Len(stack') :
           \/ f \in 1 .. Len(stack) /\ f # Len(stack)
           \/ stack'[f] = NextFrame \/ stack'[f] = callee
    BY <1>2, <1>4, <1>7
  <2> HIDE DEF callee
  <2> QED BY <1>1, <1>5, <2>1, <2>2, <2>4, <2>5 DEF CallsHaveVisited
<1>13. MainInv'
  BY <1>1, <1>3, <1>5 DEF SerialInv, MainInv
<1> QED BY <1>8, <1>9, <1>10, <1>11, <1>12, <1>13 DEF SerialInv, RecursionInv

LEMMA ReturnStep ==
    ASSUME SerialInv, Return
    PROVE  SerialInv'
<1> USE DEF graphVars
<1>1. /\ stack # <<>> /\ ~(Top.i <= Len(neighbours[Top.idx])) /\ stack' = Pop
      /\ UNCHANGED <<edges, edge, neighbours, visited, sum, mainPc>>
  BY DEF Return, Looping
<1>2. /\ mainPc = "running" /\ Len(stack) \in Nat \ {0} /\ Top = stack[Len(stack)]
      /\ Top.idx \in Done /\ Top.i \in Nat \ {0} /\ Len(neighbours[Top.idx]) \in Nat
      /\ Top.i <= Len(neighbours[Top.idx]) + 1
      /\ \A j \in 1 .. Top.i - 1 : neighbours[Top.idx][j] \in Done
      /\ stack \in Seq(Frame)
  BY <1>1, AtTheTop
<1>3. /\ stack' \in Seq(Frame) /\ Len(stack') = Len(stack) - 1
      /\ \A f \in 1 .. Len(stack) - 1 : stack'[f] = stack[f]
  BY <1>1, <1>2, Popped DEF Pop
<1>4. Done' = Done
  BY <1>1 DEF Done
<1>5. \A f \in 1 .. Len(stack') :
         /\ f \in 1 .. Len(stack) /\ f \in 1 .. Len(stack) - 1 /\ stack'[f] = stack[f]
         /\ f \in 1 .. Len(stack') - 1 =>
               f + 1 \in 1 .. Len(stack') /\ stack'[f + 1] = stack[f + 1]
  BY <1>2, <1>3
<1>6. TypeOK'
  BY <1>1, <1>3 DEF SerialInv, TypeOK
<1>7. CallsFollowAPath'
  <2>1. \A f \in 1 .. Len(stack') - 1 : f \in 1 .. Len(stack') /\ f \in 1 .. Len(stack) - 1
    BY <1>2, <1>3
  <2>2. ASSUME NEW f \in 1 .. Len(stack'), NEW g \in 1 .. Len(stack'),
               stack'[f].idx = stack'[g].idx
        PROVE  f = g
    BY <1>5, <2>2 DEF SerialInv, RecursionInv, CallsFollowAPath
  <2>3. ASSUME NEW f \in 1 .. Len(stack') - 1
        PROVE  /\ stack'[f].i > 1
               /\ stack'[f + 1].idx = neighbours[stack'[f].idx][stack'[f].i - 1]
    BY <1>5, <2>1, <2>3 DEF SerialInv, RecursionInv, CallsFollowAPath
  <2> QED BY <1>1, <2>2, <2>3 DEF CallsFollowAPath
<1>8. ReturnedCallsAreComplete'
  <2>1. Graph!Adjacent(Top.idx) \subseteq Done
    <3>1. ~(Top.i <= Len(neighbours[Top.idx])) /\ Top.i <= Len(neighbours[Top.idx]) + 1
      BY <1>1, <1>2
    <3>2. Top.i - 1 = Len(neighbours[Top.idx])
      BY <1>2, <3>1
    <3> QED BY <1>2, <3>2 DEF Graph!Adjacent
  <2>2. ASSUME NEW n \in Done, n \notin {stack'[f].idx : f \in 1 .. Len(stack')}, n # Top.idx
        PROVE  n \notin {stack[f].idx : f \in 1 .. Len(stack)}
    <3> SUFFICES ASSUME NEW f \in 1 .. Len(stack), n = stack[f].idx PROVE FALSE
      OBVIOUS
    <3>1. f # Len(stack)
      BY <1>2, <2>2
    <3>2. f \in 1 .. Len(stack')
      BY <1>2, <1>3, <3>1
    <3> QED BY <1>5, <2>2, <3>2
  <2>3. ASSUME NEW n \in Done, n \notin {stack'[f].idx : f \in 1 .. Len(stack')}
        PROVE  Graph!Adjacent(n) \subseteq Done
    BY <1>2, <2>1, <2>2, <2>3 DEF SerialInv, RecursionInv, ReturnedCallsAreComplete
  <2> QED BY <1>1, <1>4, <2>3, GraphFixed DEF ReturnedCallsAreComplete
<1>9. VisitsTheComponent'
  BY <1>1, <1>4, GraphFixed DEF SerialInv, RecursionInv, VisitsTheComponent
<1>10. CallsHaveVisited'
  BY <1>1, <1>4, <1>5 DEF SerialInv, CallsHaveVisited
<1>11. MainInv'
  BY <1>1, <1>2, <1>4 DEF SerialInv, MainInv
<1> QED BY <1>6, <1>7, <1>8, <1>9, <1>10, <1>11 DEF SerialInv, RecursionInv

LEMMA PrintStep ==
    ASSUME SerialInv, PrintSum
    PROVE  SerialInv'
<1> USE DEF graphVars
<1>1. /\ mainPc = "running" /\ mainPc' = "exit" /\ stack = <<>>
      /\ UNCHANGED <<edges, edge, neighbours, visited, sum, stack>>
  BY DEF PrintSum
<1>2. Done' = Done /\ Len(stack) = 0
  BY <1>1, EmptySeq DEF Done
<1>3. TypeOK'
  BY <1>1 DEF SerialInv, TypeOK
<1>4. Done = Graph!Reachable
  <2>1. /\ Done \subseteq Graph!Reachable /\ 0 \in Done /\ Done \subseteq Nodes
        /\ \A n \in Done : Graph!Adjacent(n) \subseteq Done
    BY <1>1, <1>2 DEF SerialInv, RecursionInv, VisitsTheComponent, MainInv,
       ReturnedCallsAreComplete, Done
  <2>2. Graph!Reachable \subseteq Done
    BY <2>1, ReachableIsLeast DEF SerialInv
  <2> QED BY <2>1, <2>2
<1>5. RecursionInv'
  BY <1>1, <1>2, <1>4, GraphFixed DEF SerialInv, RecursionInv, CallsFollowAPath,
     ReturnedCallsAreComplete, VisitsTheComponent
<1>6. CallsHaveVisited' /\ MainInv'
  BY <1>1, <1>2 DEF SerialInv, CallsHaveVisited, MainInv
<1> QED BY <1>3, <1>5, <1>6 DEF SerialInv

LEMMA StutterStep ==
    ASSUME SerialInv, UNCHANGED vars
    PROVE  SerialInv'
<1> USE DEF vars, graphVars
<1>1. Done' = Done
  BY DEF Done
<1> QED BY <1>1, GraphFixed DEF SerialInv, TypeOK, RecursionInv, CallsFollowAPath,
           ReturnedCallsAreComplete, VisitsTheComponent, CallsHaveVisited, MainInv

(* process_node's recursion follows a path of distinct nodes, so that it   *)
(* is never deeper than the graph has nodes; a call that has returned has  *)
(* left no neighbour behind; and when the sum is printed the nodes visited *)
(* are exactly those connected to the root.                                *)
THEOREM SerialInvariant == Spec => []SerialInv
<1>1. Init => SerialInv
  BY InitInv
<1>2. SerialInv /\ [Next]_vars => SerialInv'
  BY CreateStep, CallRootStep, SkipStep, RecurseStep, ReturnStep, PrintStep, StutterStep
     DEF Next
<1> QED BY <1>1, <1>2, PTL DEF Spec

THEOREM RecursionIsSound == Spec => []RecursionInv
<1>1. SerialInv => RecursionInv
  BY DEF SerialInv
<1> QED BY <1>1, SerialInvariant, PTL

-----------------------------------------------------------------------------
(* The lists are those of the edges *)

EntriesIn(lists, n, m) == {i \in 1 .. Len(lists[n]) : lists[n][i] = m}

(* What the edge from -> to adds to the entries of m that n has.           *)
Adds(from, to, n, m) == IF n = from /\ m = to THEN 1 ELSE 0

LEMMA AddsEitherWay ==
    \A a, b, n, m : Adds(a, b, n, m) \in Nat /\ Adds(a, b, n, m) = Adds(b, a, m, n)
  BY DEF Adds

LEMMA FiniteEntries ==
    ASSUME NEW len \in Nat, NEW S \in SUBSET (1 .. len)
    PROVE  IsFiniteSet(S) /\ Cardinality(S) \in Nat
<1>1. IsFiniteSet(1 .. len)
  BY FS_Interval
<1> QED BY <1>1, FS_Subset, FS_CardinalityType

(* Entering an edge in one list adds one entry, and to no other list.      *)
LEMMA LinkAddsAnEntry ==
    ASSUME NEW lists \in [Nodes -> Seq(Nodes)], NEW from \in Nodes, NEW to \in Nodes,
           NEW n \in Nodes, NEW m \in Nodes
    PROVE  /\ Link(lists, from, to) \in [Nodes -> Seq(Nodes)]
           /\ Cardinality(EntriesIn(lists, n, m)) \in Nat
           /\ Cardinality(EntriesIn(Link(lists, from, to), n, m)) =
                 Cardinality(EntriesIn(lists, n, m)) + Adds(from, to, n, m)
<1> DEFINE S == EntriesIn(lists, n, m)
           T == EntriesIn(Link(lists, from, to), n, m)
           s == lists[n]
<1>1. s \in Seq(Nodes) /\ Len(s) \in Nat /\ Link(lists, from, to) \in [Nodes -> Seq(Nodes)]
  BY LenProperties, AppendProperties DEF Link
<1>2. S \in SUBSET (1 .. Len(s)) /\ IsFiniteSet(S) /\ Cardinality(S) \in Nat
  <2>1. S \in SUBSET (1 .. Len(s))
    BY DEF EntriesIn
  <2> QED BY <1>1, <2>1, FiniteEntries
<1>3. CASE n # from
  <2>1. Link(lists, from, to)[n] = lists[n]
    BY <1>3 DEF Link
  <2>2. T = S
    BY <2>1 DEF EntriesIn
  <2> QED BY <1>1, <1>2, <1>3, <2>2 DEF Adds
<1>4. CASE n = from
  <2>1. Link(lists, from, to)[n] = Append(s, to)
    BY <1>4 DEF Link
  <2>2. /\ Len(Append(s, to)) = Len(s) + 1
        /\ \A i \in 1 .. Len(s) : Append(s, to)[i] = s[i]
        /\ Append(s, to)[Len(s) + 1] = to
    BY <1>1, AppendProperties
  <2>3. T = {i \in 1 .. Len(s) + 1 : Append(s, to)[i] = m}
    BY <2>1, <2>2 DEF EntriesIn
  <2>4. \A i : i \in 1 .. Len(s) + 1 <=> i \in 1 .. Len(s) \/ i = Len(s) + 1
    BY <1>1
  <2>5. CASE m = to
    <3>1. T = S \cup {Len(s) + 1}
      BY <2>2, <2>3, <2>4, <2>5 DEF EntriesIn
    <3>2. Len(s) + 1 \notin S
      BY <1>1, <1>2
    <3>3. Cardinality(T) = Cardinality(S) + 1
      BY <1>2, <3>1, <3>2, FS_AddElement
    <3> QED BY <1>1, <1>2, <1>4, <2>5, <3>3 DEF Adds
  <2>6. CASE m # to
    <3>1. T = S
      BY <2>2, <2>3, <2>4, <2>6 DEF EntriesIn
    <3> QED BY <1>1, <1>2, <2>6, <3>1 DEF Adds
  <2> QED BY <2>5, <2>6
<1> QED BY <1>3, <1>4

LEMMA EdgeIsCounted ==
    ASSUME TypeOK, edge \in 1 .. Len(edges), edges' = edges, edge' = edge + 1,
           NEW src \in Nodes, NEW dst \in Nodes, edges[edge] = <<src, dst>>,
           NEW n \in Nodes, NEW m \in Nodes
    PROVE  /\ Cardinality(Joins(n, m)) \in Nat
           /\ Cardinality(Joins(n, m)') =
                 Cardinality(Joins(n, m)) + Adds(src, dst, n, m)
<1>1. Len(edges) \in Nat
  BY InputAssumption, LenProperties DEF TypeOK
<1>2. IsFiniteSet(Joins(n, m)) /\ Cardinality(Joins(n, m)) \in Nat
  <2>1. Joins(n, m) \in SUBSET (1 .. Len(edges))
    BY DEF Joins
  <2> QED BY <1>1, <2>1, FiniteEntries
<1>3. \A j \in 1 .. Len(edges) : j < edge + 1 <=> j < edge \/ j = edge
  BY <1>1
<1>4. edge \notin Joins(n, m)
  BY <1>1 DEF Joins
<1>5. CASE edges[edge] = <<n, m>>
  <2>1. Joins(n, m)' = Joins(n, m) \cup {edge}
    BY <1>3, <1>5 DEF Joins
  <2>2. Cardinality(Joins(n, m) \cup {edge}) = Cardinality(Joins(n, m)) + 1
    BY <1>2, <1>4, FS_AddElement
  <2> QED BY <1>2, <1>5, <2>1, <2>2 DEF Adds
<1>6. CASE edges[edge] # <<n, m>>
  <2>1. Joins(n, m)' = Joins(n, m)
    BY <1>3, <1>6 DEF Joins
  <2> QED BY <1>2, <1>6, <2>1 DEF Adds
<1> QED BY <1>5, <1>6

CountsAgree ==
    \A n, m \in Nodes :
        Cardinality(Occurrences(n, m)) = Cardinality(Joins(n, m)) + Cardinality(Joins(m, n))

LEMMA CountsInit ==
    ASSUME Init
    PROVE  CountsAgree
<1> SUFFICES ASSUME NEW n \in Nodes, NEW m \in Nodes
             PROVE  Cardinality(Occurrences(n, m)) =
                       Cardinality(Joins(n, m)) + Cardinality(Joins(m, n))
  BY DEF CountsAgree
<1>1. edge = 1 /\ neighbours[n] = <<>> /\ Len(<<>>) = 0
  BY EmptySeq DEF Init, GraphInit
<1>2. Occurrences(n, m) = {} /\ Joins(n, m) = {} /\ Joins(m, n) = {}
  BY <1>1 DEF Occurrences, Joins
<1> QED BY <1>2, FS_EmptySet

LEMMA CountsStep ==
    ASSUME TypeOK, CountsAgree, [Next]_vars
    PROVE  CountsAgree'
<1> USE DEF graphVars
<1>1. CASE AddEdge
  <2>0. Len(edges) \in Nat /\ edges \in Seq(Nodes \X Nodes)
    BY InputAssumption, LenProperties DEF TypeOK
  <2>1. edge \in 1 .. Len(edges) /\ edge' = edge + 1 /\ edges' = edges
    BY <1>1, <2>0 DEF AddEdge, TypeOK
  <2>2. PICK isrc \in Nodes, idst \in Nodes :
           /\ edges[edge] = <<isrc, idst>>
           /\ neighbours' = Link(Link(neighbours, isrc, idst), idst, isrc)
    <3>1. edges[edge] \in Nodes \X Nodes
      BY <2>0, <2>1, ElementOfSeq
    <3> QED BY <1>1, <3>1 DEF AddEdge
  <2> SUFFICES ASSUME NEW n \in Nodes, NEW m \in Nodes
               PROVE  Cardinality(Occurrences(n, m)') =
                         Cardinality(Joins(n, m)') + Cardinality(Joins(m, n)')
    BY DEF CountsAgree
  <2> DEFINE one == Adds(isrc, idst, n, m)
             two == Adds(idst, isrc, n, m)
  <2>3. /\ Cardinality(Occurrences(n, m)) \in Nat
        /\ Cardinality(Occurrences(n, m)') = Cardinality(Occurrences(n, m)) + one + two
    <3>1. neighbours \in [Nodes -> Seq(Nodes)]
      BY DEF TypeOK
    <3>0. PICK first : first = Link(neighbours, isrc, idst)
      OBVIOUS
    <3>2. /\ first \in [Nodes -> Seq(Nodes)]
          /\ Cardinality(EntriesIn(neighbours, n, m)) \in Nat
          /\ Cardinality(EntriesIn(first, n, m)) =
                Cardinality(EntriesIn(neighbours, n, m)) + one
      BY <3>0, <3>1, LinkAddsAnEntry
    <3>3. Cardinality(EntriesIn(Link(first, idst, isrc), n, m)) =
             Cardinality(EntriesIn(first, n, m)) + two
      <4>1. first \in [Nodes -> Seq(Nodes)]
        BY <3>2
      <4> QED BY <4>1, LinkAddsAnEntry
    <3>4. /\ Occurrences(n, m) = EntriesIn(neighbours, n, m)
          /\ Occurrences(n, m)' = EntriesIn(Link(first, idst, isrc), n, m)
      BY <2>2, <3>0 DEF Occurrences, EntriesIn
    <3> QED BY <3>2, <3>3, <3>4
  <2>4. /\ Cardinality(Joins(n, m)) \in Nat
        /\ Cardinality(Joins(n, m)') = Cardinality(Joins(n, m)) + one
    BY <2>1, <2>2, EdgeIsCounted
  <2>5. /\ Cardinality(Joins(m, n)) \in Nat
        /\ Cardinality(Joins(m, n)') = Cardinality(Joins(m, n)) + two
    BY <2>1, <2>2, EdgeIsCounted, AddsEitherWay
  <2>6. Cardinality(Occurrences(n, m)) = Cardinality(Joins(n, m)) + Cardinality(Joins(m, n))
    BY DEF CountsAgree
  <2>7. one \in Nat /\ two \in Nat
    BY AddsEitherWay
  <2> HIDE DEF one, two
  <2> QED BY <2>3, <2>4, <2>5, <2>6, <2>7
<1>2. CASE GraphCreated
  <2>1. Len(edges) \in Nat
    BY InputAssumption, LenProperties DEF TypeOK
  <2>2. /\ neighbours' = neighbours /\ edges' = edges
        /\ edge = Len(edges) + 1 /\ edge' = edge + 1
    BY <1>2 DEF GraphCreated
  <2>3. \A j \in 1 .. Len(edges) : j < edge /\ j < edge'
    BY <2>1, <2>2
  <2>4. \A n, m : Joins(n, m)' = Joins(n, m) /\ Occurrences(n, m)' = Occurrences(n, m)
    BY <2>2, <2>3 DEF Joins, Occurrences
  <2> QED BY <2>4 DEF CountsAgree
<1>3. CASE UNCHANGED <<edges, edge, neighbours>>
  <2>1. \A n, m : Joins(n, m)' = Joins(n, m) /\ Occurrences(n, m)' = Occurrences(n, m)
    BY <1>3 DEF Joins, Occurrences
  <2> QED BY <2>1 DEF CountsAgree
<1>4. AddEdge \/ GraphCreated \/ UNCHANGED <<edges, edge, neighbours>>
  BY DEF Next, Create, CallRoot, Call, Skip, Recurse, Return, PrintSum, vars
<1> QED BY <1>1, <1>2, <1>3, <1>4

LEMMA NoMoreThanNodes ==
    ASSUME NEW len \in Nat, NEW f \in [1 .. len -> Nodes],
           \A i, j \in 1 .. len : f[i] = f[j] => i = j
    PROVE  len <= NumNodes
<1>1. IsFiniteSet(Nodes) /\ Cardinality(Nodes) = NumNodes
  <2>1. NumNodes \in Nat \ {0} /\ 0 \in Int /\ NumNodes - 1 \in Int
    BY InputAssumption
  <2>2. /\ IsFiniteSet(0 .. NumNodes - 1)
        /\ Cardinality(0 .. NumNodes - 1) =
              IF 0 > NumNodes - 1 THEN 0 ELSE (NumNodes - 1) - 0 + 1
    BY <2>1, FS_Interval
  <2> QED BY <2>1, <2>2 DEF Nodes
<1>2. IsFiniteSet(1 .. len) /\ Cardinality(1 .. len) = len
  <2>1. /\ IsFiniteSet(1 .. len)
        /\ Cardinality(1 .. len) = IF 1 > len THEN 0 ELSE len - 1 + 1
    <3>1. 1 \in Int /\ len \in Int
      OBVIOUS
    <3> QED BY <3>1, FS_Interval
  <2> QED BY <2>1
<1>3. ~(NumNodes < len)
  <2> SUFFICES ASSUME NumNodes < len PROVE FALSE
    OBVIOUS
  <2>1. Cardinality(Nodes) < Cardinality(1 .. len)
    BY <1>1, <1>2
  <2>2. \E x, y \in 1 .. len : x # y /\ f[x] = f[y]
    BY <1>1, <1>2, <2>1, FS_PigeonHole
  <2> QED BY <2>2
<1> QED BY <1>3, InputAssumption

(* A file that names no edge twice has no entry twice in a list, so that   *)
(* no list has more entries than there are nodes.                          *)
LEMMA SimpleListsFit ==
    ASSUME TypeOK, CountsAgree, SimpleFile, NEW n \in Nodes
    PROVE  Len(neighbours[n]) <= NumNodes
<1>0. Len(neighbours[n]) \in Nat/\ \A i \in 1 .. Len(neighbours[n]) : neighbours[n][i] \in Nodes
  BY NeighbourIsNode
<1>e. Len(edges) \in Nat
  BY InputAssumption, LenProperties DEF TypeOK
<1>1. ASSUME NEW a, NEW b
      PROVE  /\ IsFiniteSet(Joins(a, b)) /\ Cardinality(Joins(a, b)) \in Nat
             /\ Cardinality(Joins(a, b)) <= 1
             /\ Joins(a, b) # {} => Joins(b, a) = {}
  <2>1. IsFiniteSet(Joins(a, b)) /\ Cardinality(Joins(a, b)) \in Nat
    <3>1. Joins(a, b) \in SUBSET (1 .. Len(edges))
      BY DEF Joins
    <3> QED BY <1>e, <3>1, FiniteEntries
  <2>2. \A i, j \in Joins(a, b) : i = j
    BY DEF Joins, SimpleFile
  <2>3. Joins(a, b) # {} => \E i : Joins(a, b) = {i}
    BY <2>2
  <2>4. Joins(a, b) # {} => Joins(b, a) = {}
    <3> SUFFICES ASSUME NEW i \in Joins(a, b), NEW j \in Joins(b, a) PROVE FALSE
      OBVIOUS
    <3>1. /\ i \in 1 .. Len(edges) /\ edges[i] = <<a, b>>
          /\ j \in 1 .. Len(edges) /\ edges[j] = <<b, a>>
      BY DEF Joins
    <3>2. edges[i][1] = a /\ edges[i][2] = b
      BY <3>1
    <3>3. a # b /\ (edges[j] = <<b, a>> => i = j)
      BY <3>1, <3>2 DEF SimpleFile
    <3> QED BY <3>1, <3>3
  <2>5. Cardinality(Joins(a, b)) <= 1
    BY <2>1, <2>3, FS_EmptySet, FS_Singleton
  <2> QED BY <2>1, <2>4, <2>5
<1>2. ASSUME NEW m \in Nodes PROVE Cardinality(Occurrences(n, m)) <= 1
  <2>1. Cardinality(Occurrences(n, m)) = Cardinality(Joins(n, m)) + Cardinality(Joins(m, n))
    BY DEF CountsAgree
  <2>2. CASE Joins(n, m) = {}
    <3>1. Cardinality(Joins(n, m)) = 0
      BY <2>2, FS_EmptySet
    <3> QED BY <1>1, <2>1, <3>1
  <2>3. CASE Joins(n, m) # {}
    <3>1. Cardinality(Joins(m, n)) = 0
      BY <1>1, <2>3, FS_EmptySet
    <3> QED BY <1>1, <2>1, <3>1
  <2> QED BY <2>2, <2>3
<1>3. ASSUME NEW i \in 1 .. Len(neighbours[n]), NEW j \in 1 .. Len(neighbours[n]),
             neighbours[n][i] = neighbours[n][j], i # j
      PROVE  FALSE
  <2> DEFINE S == Occurrences(n, neighbours[n][i])
  <2>1. S \in SUBSET (1 .. Len(neighbours[n])) /\ i \in S /\ j \in S
    BY <1>3 DEF Occurrences
  <2>2. IsFiniteSet(S) /\ Cardinality(S) \in Nat
    BY <1>0, <2>1, FiniteEntries
  <2>3. Cardinality(S) <= 1
    BY <1>0, <1>2
  <2> HIDE DEF S
  <2>4. Cardinality(S) # 0 /\ Cardinality(S) # 1
    <3>1. S # {} /\ ~(\E x : S = {x})
      BY <1>3, <2>1
    <3> QED BY <2>2, <3>1, FS_EmptySet, FS_Singleton
  <2> QED BY <2>2, <2>3, <2>4
<1> DEFINE entry == [i \in 1 .. Len(neighbours[n]) |-> neighbours[n][i]]
<1>4. /\ entry \in [1 .. Len(neighbours[n]) -> Nodes]
      /\ \A i, j \in 1 .. Len(neighbours[n]) : entry[i] = entry[j] => i = j
  BY <1>0, <1>3
<1> HIDE DEF entry
<1> QED BY <1>0, <1>4, NoMoreThanNodes

(* create_graph_from_data, for any file: the list of a node has each other *)
(* one once for every edge that joins them, and fits into its array if the *)
(* file names no edge twice.                                               *)
THEOREM ListsAreTheEdges == Spec => []ListsMatchEdges
<1>1. Init => CountsAgree
  BY CountsInit
<1>2. SerialInv /\ CountsAgree /\ [Next]_vars => CountsAgree'
  BY CountsStep DEF SerialInv
<1>3. SerialInv /\ CountsAgree => ListsMatchEdges
  BY SimpleListsFit DEF SerialInv, ListsMatchEdges, CountsAgree
<1> QED BY <1>1, <1>2, <1>3, SerialInvariant, PTL DEF Spec

(* process_node never calls itself deeper than the graph has nodes.        *)
THEOREM RecursionDepth == Spec => [](Len(stack) <= NumNodes)
<1>1. ASSUME SerialInv PROVE Len(stack) <= NumNodes
  <2>1. Len(stack) \in Nat /\ \A f \in 1 .. Len(stack) : stack[f] \in Frame
    BY <1>1, LenProperties, ElementOfSeq DEF SerialInv, TypeOK
  <2> DEFINE node == [f \in 1 .. Len(stack) |-> stack[f].idx]
  <2>2. /\ node \in [1 .. Len(stack) -> Nodes]
        /\ \A f, g \in 1 .. Len(stack) : node[f] = node[g] => f = g
    BY <1>1, <2>1 DEF Frame, SerialInv, RecursionInv, CallsFollowAPath
  <2> HIDE DEF node
  <2> QED BY <2>1, <2>2, NoMoreThanNodes
<1> QED BY <1>1, SerialInvariant, PTL

-----------------------------------------------------------------------------
(* The sum *)

SumInv == /\ mainPc \in {"create", "process"} => sum = 0
          /\ mainPc \in {"running", "exit"} => sum = Total(Info, Done)

LEMMA CallAdds ==
    ASSUME TypeOK, visited \in [Nodes -> {"NOT_VISITED", "DONE"}],
           NEW n \in Nodes, visited[n] = "NOT_VISITED", NEW frames, Call(n, frames)
    PROVE  sum' = sum + Info[n] /\ Total(Info, Done') = Total(Info, Done) + Info[n]
<1>1. n \notin Done /\ Done' = Done \cup {n}
  BY DEF Done, Call
<1>2. IsFiniteSet(Done)
  <2>1. IsFiniteSet(Nodes) /\ Done \subseteq Nodes
    BY FS_Interval, InputAssumption DEF Nodes, Done
  <2> QED  BY <2>1, FS_Subset
<1>3. Info[n] \in Int /\ \A m \in Done : Info[m] \in Int
  BY InfoAssumption DEF Done
<1> QED  BY <1>1, <1>2, <1>3, TotalAdds DEF Call

LEMMA SumStep == SerialInv /\ SumInv /\ [Next]_vars => SumInv'
<1> SUFFICES ASSUME TypeOK, MainInv, SumInv, [Next]_vars PROVE SumInv'
  BY DEF SerialInv
<1> USE DEF SumInv
<1>1. CASE Create
  BY <1>1 DEF Create
<1>2. CASE CallRoot
  <2>1. visited \in [Nodes -> {"NOT_VISITED", "DONE"}] /\ Done = {} /\ sum = 0
    BY <1>2 DEF CallRoot, TypeOK, MainInv
  <2>2. 0 \in Nodes /\ visited[0] = "NOT_VISITED"
    BY <2>1, RootIsNode DEF Done
  <2>3. sum' = sum + Info[0] /\ Total(Info, Done') = Total(Info, Done) + Info[0]
    BY <1>2, <2>1, <2>2, CallAdds DEF CallRoot
  <2> QED  BY <1>2, <2>1, <2>3, TotalOfNone DEF CallRoot
<1>3. CASE Recurse
  <2>1. mainPc = "running" /\ visited \in [Nodes -> {"NOT_VISITED", "DONE"}]
    BY <1>3 DEF Recurse, Looping, MainInv, TypeOK
  <2>2. Neighbour \in Nodes
    <3>1. Len(stack) \in 1 .. Len(stack) /\ Top \in Frame
      BY <1>3, LenProperties, EmptySeq, ElementOfSeq DEF Recurse, Looping, Top, TypeOK
    <3> QED  BY <1>3, <3>1, NeighbourIsNode DEF Recurse, Looping, Neighbour, Frame
  <2>3. sum' = sum + Info[Neighbour] /\ Total(Info, Done') = Total(Info, Done) + Info[Neighbour]
    BY <1>3, <2>1, <2>2, CallAdds DEF Recurse
  <2> QED  BY <1>3, <2>1, <2>3 DEF Recurse
<1>4. CASE Skip \/ Return
  BY <1>4 DEF Skip, Return, graphVars, Done
<1>5. CASE PrintSum
  BY <1>5 DEF PrintSum, graphVars, Done
<1>6. CASE UNCHANGED vars
  BY <1>6 DEF vars, graphVars, Done
<1> QED  BY <1>1, <1>2, <1>3, <1>4, <1>5, <1>6 DEF Next

(***************************************************************************)
(* main prints the sum of the values of the nodes that edges join to node  *)
(* 0, each counted once: a node is marked before its value is added again. *)
(***************************************************************************)
THEOREM PrintsTheSum == Spec => []PrintedSum
<1>1. Init => SumInv
  BY DEF Init, SumInv
<1>2. \A S : Graph!InfoSum(S) = Total(Info, S)
  BY DEF Graph!InfoSum, Graph!MapThenSumSet, Graph!MapThenFoldSet,
         Total, MapThenSumSet, MapThenFoldSet
<1>3. SerialInv /\ SumInv => PrintedSum
  BY <1>2 DEF SumInv, PrintedSum, SerialInv, RecursionInv, VisitsTheComponent
<1> QED  BY <1>1, <1>3, SumStep, SerialInvariant, PTL DEF Spec
=============================================================================
