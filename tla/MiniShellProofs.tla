-------------------------- MODULE MiniShellProofs ---------------------------
(***************************************************************************)
(* The processes of a line and its pipes, for any lines, files, statuses,  *)
(* sizes of pipes and failed forks: proofs of TypeOK, of NothingOutlives   *)
(* and of PipeDelivers.                                                    *)
(***************************************************************************)
EXTENDS MiniShell, SetLemmas, TLAPS

-----------------------------------------------------------------------------
(* The tree of a line: nodes are intervals of its commands.                *)
NodesOf(l) == {n \in Nat \X Nat : 1 <= n[1] /\ n[1] <= n[2] /\ n[2] <= Len(l.cmds)}
Sub(m, n) == n[1] <= m[1] /\ m[2] <= n[2]

LEMMA LineIs ==
  ASSUME NEW l \in Lines
  PROVE  /\ l.cmds \in Seq(Commands) /\ l.ops \in Seq(Operators)
         /\ Len(l.cmds) \in Nat /\ Len(l.ops) \in Nat /\ Len(l.cmds) = Len(l.ops) + 1
  BY LinesAssumption

LEMMA Precedence == \A op \in Operators : Priority[op] \in Nat
  BY DEF Priority, Operators

LEMMA SplitIs ==
  ASSUME NEW l \in Lines, NEW n \in NodesOf(l), ~IsLeaf(n)
  PROVE  /\ Split(l, n) \in n[1]..(n[2] - 1) /\ l.ops[Split(l, n)] \in Operators
         /\ Split(l, n) \in Lowest(l, n) /\ \A m \in Lowest(l, n) : m <= Split(l, n)
<1>1. /\ n[1] \in Nat /\ n[2] \in Nat /\ 1 <= n[1] /\ n[1] < n[2] /\ n[2] <= Len(l.ops) + 1
      /\ l.ops \in Seq(Operators) /\ Len(l.ops) \in Nat
  BY LineIs DEF NodesOf, IsLeaf
<1>2. \A k \in n[1]..(n[2] - 1) : k \in Nat /\ l.ops[k] \in Operators
  BY <1>1
<1> DEFINE P == {Priority[l.ops[k]] : k \in n[1]..(n[2] - 1)}
<1>3. P \in SUBSET Nat /\ P # {}
  BY SMTT(30), <1>1, <1>2, Precedence
<1> HIDE DEF P
<1>a. PICK least \in P : \A x \in P : least <= x
  BY <1>3, HasALeast
<1>4. PICK k \in n[1]..(n[2] - 1) : \A m \in n[1]..(n[2] - 1) : Priority[l.ops[k]] <= Priority[l.ops[m]]
  BY <1>a DEF P
<1>5. Lowest(l, n) # {} /\ Lowest(l, n) \in SUBSET (0..n[2]) /\ Lowest(l, n) \subseteq n[1]..(n[2] - 1)
  BY <1>1, <1>4 DEF Lowest
<1>6. PICK s \in Lowest(l, n) : \A m \in Lowest(l, n) : m <= s
  BY <1>1, <1>5, HasAGreatest
<1>7. Split(l, n) \in Lowest(l, n) /\ \A m \in Lowest(l, n) : m <= Split(l, n)
  BY <1>6 DEF Split
<1> QED  BY <1>2, <1>5, <1>7

LEMMA NodeIs ==
  ASSUME NEW l, NEW n \in NodesOf(l)
  PROVE  /\ n = <<n[1], n[2]>> /\ n[1] \in Nat /\ n[2] \in Nat /\ 1 <= n[1] /\ n[1] <= n[2]
         /\ n[2] <= Len(l.cmds)
  BY DEF NodesOf

LEMMA OperandsAre ==
  ASSUME NEW l \in Lines, NEW n \in NodesOf(l), ~IsLeaf(n)
  PROVE  /\ Cmd1(l, n) \in NodesOf(l) /\ Cmd2(l, n) \in NodesOf(l)
         /\ Sub(Cmd1(l, n), n) /\ Sub(Cmd2(l, n), n)
         /\ Cmd1(l, n)[2] < Cmd2(l, n)[1]
         /\ Cmd1(l, n)[2] < n[2] /\ n[1] < Cmd2(l, n)[1]
         /\ Op(l, n) \in Operators
<1> DEFINE s == Split(l, n)
<1>1. s \in n[1]..(n[2] - 1) /\ l.ops[s] \in Operators
  BY SplitIs
<1> HIDE DEF s
<1>2. /\ n[1] \in Nat /\ n[2] \in Nat /\ 1 <= n[1] /\ n[1] <= n[2] /\ n[2] <= Len(l.cmds)
      /\ Len(l.cmds) \in Nat
  BY NodeIs, LineIs
<1>3. Cmd1(l, n) = <<n[1], s>> /\ Cmd2(l, n) = <<s + 1, n[2]>> /\ Op(l, n) = l.ops[s]
  BY DEF Cmd1, Cmd2, Op, s
<1> QED  BY <1>1, <1>2, <1>3 DEF NodesOf, Sub

LEMMA NotALeaf == ASSUME NEW l, NEW n, Op(l, n) # None PROVE ~IsLeaf(n)
  BY DEF Op

-----------------------------------------------------------------------------
(* What one process p, described by r, is while line "no" is the last one  *)
(* and "ps" are the pipes there are.                                       *)
Fields == {"pc", "path", "status", "no", "line", "in", "out", "err", "held", "pipe",
           "cwd", "env", "was", "left", "got", "eof"}
Ended == {"exited", "killed"}
Evaluating == {"eval", "wait", "fork2", "setup", "close", "wait1", "wait2", "return"}
Top(r) == r.path[Len(r.path)]

(* The calls on the stack are for ever smaller parts of the line.          *)
StackInv(r) ==
  /\ r.path \in Seq(NodesOf(r.line))
  /\ \A k \in 1..(Len(r.path) - 1) :
        ~IsLeaf(r.path[k]) /\ r.path[k + 1] \in {Cmd1(r.line, r.path[k]), Cmd2(r.line, r.path[k])}
  /\ \A k, m \in 1..Len(r.path) : k <= m => Sub(r.path[m], r.path[k])

PlaceInv(r, no) ==
  /\ DOMAIN r = Fields /\ r.pc \in Pcs /\ r.no \in 0..no /\ r.left \in Int
  /\ r.path # <<>> => r.line \in Lines /\ r.no = no
  /\ r.pc \in Evaluating \cup {"exec", "run"} => r.path # <<>>
  /\ r.pc \in {"prompt", "free"} => r.path = <<>>
  /\ r.pc \in {"fork2", "close", "wait1", "wait2"} => Op(r.line, Top(r)) \in {"&", "|"}
  /\ r.pc = "close" => Op(r.line, Top(r)) = "|"
  /\ r.pc = "wait" => IsLeaf(Top(r))

(* A copy evaluates the node that its pid names, a command is a leaf's.    *)
PidInv(p, r, no) ==
  \/ p = Shell /\ r.pc \notin {"setup", "exec", "run"}
  \/ /\ r.path # <<>> /\ r.pc \in Evaluating \cup Ended
     /\ p = <<no, r.path[1][1], r.path[1][2]>>
  \/ /\ Len(r.path) = 1 /\ IsLeaf(r.path[1]) /\ r.pc \in {"exec", "run"} \cup Ended
     /\ p = <<no, r.path[1][1]>>

(* Descriptors are ends of pipes that are there.                           *)
PipeOf(r) == <<r.no, Top(r)[1], Top(r)[2]>>

FdInv(p, r, ps) ==
  /\ r.held \subseteq UNION {Ends(e) : e \in ps}
  /\ r.pc \notin Ended => \A fd \in {r.in, r.out} : IsPipe(fd) => fd \in ps
  /\ r.pc \in Ended /\ p # Shell => r.held = {}
  /\ r.pc = "setup" => Ends(r.pipe) \subseteq r.held
  /\ r.pc \in {"fork2", "close"} /\ Op(r.line, Top(r)) = "|" => Ends(PipeOf(r)) \subseteq r.held

ProcInv(p, r, no, ps) == StackInv(r) /\ PlaceInv(r, no) /\ PidInv(p, r, no) /\ FdInv(p, r, ps)

Contents == Seq(Seq(Nat) \X Int)
PipesInv == \A e \in DOMAIN pipes : pipes[e] \in Contents /\ Len(pipes[e]) <= PipeCap

ProcsInv ==
  /\ Shell \in DOMAIN procs /\ fails \in 0..MaxFails /\ freed \in BOOLEAN /\ lineNo \in Nat
  /\ PipesInv
  /\ \A p \in DOMAIN procs : ProcInv(p, procs[p], lineNo, DOMAIN pipes)

-----------------------------------------------------------------------------
(* The processes are a tree.  While p is where r says, the processes it    *)
(* started, and those that these started, are only where Below says: a     *)
(* part of the line that has been waited for, or not begun, has none.      *)
Below(r, q) ==
  \/ r.pc \in {"fork2", "close", "wait1"} /\ Within(q, Cmd1(r.line, Top(r)))
  \/ r.pc \in {"close", "wait1", "wait2"} /\ Within(q, Cmd2(r.line, Top(r)))
  \/ r.pc = "wait" /\ q = <<r.no, Top(r)[1]>>

Scope(p) == <<p[2], p[Len(p)]>>
Covers(p, q) == p = Shell \/ (Len(p) = 3 /\ Within(q, Scope(p)))
Apart(p, q) == p[Len(p)] < q[2] \/ q[Len(q)] < p[2]

OwnInv ==
  \A p \in DOMAIN procs : \A q \in DOMAIN procs \ {Shell, p} :
     Covers(p, q) => Below(procs[p], q)
Nested ==
  \A p, q \in DOMAIN procs \ {Shell} : Within(p, Scope(q)) \/ Within(q, Scope(p)) \/ Apart(p, q)

ShellHolds ==
  LET s == procs[Shell] IN
  s.held = IF s.pc \in {"fork2", "close"} /\ Op(s.line, Top(s)) = "|" THEN Ends(PipeOf(s)) ELSE {}

TreeInv == OwnInv /\ Nested /\ ShellHolds

ShellInv == ProcsInv /\ (fails = 0 => TreeInv)

-----------------------------------------------------------------------------
LEMMA ProcIs ==
  ASSUME ProcsInv, NEW p \in DOMAIN procs
  PROVE  /\ StackInv(procs[p]) /\ PlaceInv(procs[p], lineNo) /\ PidInv(p, procs[p], lineNo)
         /\ FdInv(p, procs[p], DOMAIN pipes) /\ lineNo \in Nat
  BY DEF ProcsInv, ProcInv

LEMMA TopIs ==
  ASSUME NEW r, StackInv(r), r.path # <<>>
  PROVE  /\ Len(r.path) \in Nat \ {0} /\ Top(r) \in NodesOf(r.line)
         /\ r.path[1] \in NodesOf(r.line) /\ Sub(Top(r), r.path[1])
<1>1. r.path \in Seq(NodesOf(r.line)) /\ Len(r.path) \in Nat \ {0}
  BY DEF StackInv
<1>2. Top(r) \in NodesOf(r.line) /\ r.path[1] \in NodesOf(r.line)
  BY <1>1 DEF Top
<1>3. Sub(r.path[Len(r.path)], r.path[1])
  BY <1>1 DEF StackInv
<1> QED  BY <1>1, <1>2, <1>3 DEF Top

LEMMA SubItself == ASSUME NEW l, NEW n \in NodesOf(l) PROVE Sub(n, n)
  BY NodeIs DEF Sub

(* A process with one call on its stack.                                   *)
LEMMA OneCall ==
  ASSUME NEW r, NEW n \in NodesOf(r.line), r.path = <<n>>
  PROVE  StackInv(r) /\ Top(r) = n /\ r.path # <<>> /\ Len(r.path) = 1 /\ r.path[1] = n
<1>1. Len(r.path) = 1 /\ r.path[1] = n /\ r.path \in Seq(NodesOf(r.line)) /\ r.path # <<>>
  OBVIOUS
<1>2. Sub(n, n)
  BY SubItself
<1> QED  BY <1>1, <1>2 DEF StackInv, Top

LEMMA SubOfSub ==
  ASSUME NEW l, NEW a \in NodesOf(l), NEW b \in NodesOf(l), NEW c \in NodesOf(l), Sub(a, b), Sub(b, c)
  PROVE  Sub(a, c)
  BY NodeIs DEF Sub

(* parse_command calls itself for an operand of its node,                  *)
LEMMA Deeper ==
  ASSUME NEW r, StackInv(r), r.path # <<>>, r.line \in Lines, ~IsLeaf(Top(r)),
         NEW n \in {Cmd1(r.line, Top(r)), Cmd2(r.line, Top(r))},
         NEW r2, r2.line = r.line, r2.path = Append(r.path, n)
  PROVE  StackInv(r2) /\ r2.path # <<>> /\ Top(r2) = n /\ r2.path[1] = r.path[1]
<1> DEFINE d == Len(r.path)
<1>1. /\ d \in Nat \ {0} /\ Top(r) \in NodesOf(r.line) /\ n \in NodesOf(r.line) /\ Sub(n, Top(r))
      /\ Top(r) = r.path[d] /\ r.path \in Seq(NodesOf(r.line))
  BY TopIs, OperandsAre DEF Top, StackInv
<1> HIDE DEF d
<1>2. /\ r2.path \in Seq(NodesOf(r.line)) /\ Len(r2.path) = d + 1 /\ r2.path[d + 1] = n
      /\ \A k \in 1..d : r2.path[k] = r.path[k] /\ r.path[k] \in NodesOf(r.line)
  BY <1>1 DEF d
<1>a. d \in Nat /\ d > 0
  BY <1>1
<1>3. ASSUME NEW k \in 1..d
      PROVE  ~IsLeaf(r2.path[k]) /\ r2.path[k + 1] \in {Cmd1(r.line, r2.path[k]), Cmd2(r.line, r2.path[k])}
  <2>1. CASE k = d
    BY <1>1, <1>2, <2>1
  <2>2. CASE k < d
    BY <1>1, <1>2, <2>2 DEF StackInv, d
  <2>3. k = d \/ k < d
    BY <1>a
  <2> QED  BY <2>1, <2>2, <2>3
<1>4. ASSUME NEW k \in 1..(d + 1), NEW m \in 1..(d + 1), k <= m PROVE Sub(r2.path[m], r2.path[k])
  <2>1. CASE m <= d
    BY <1>1, <1>2, <1>4, <2>1 DEF StackInv, d
  <2>2. CASE m = d + 1 /\ k <= d
    <3>1. Sub(r.path[d], r.path[k])
      BY <1>1, <2>2 DEF StackInv, d
    <3> QED  BY <1>1, <1>2, <2>2, <3>1, SubOfSub
  <2>3. CASE m = d + 1 /\ k = d + 1
    <3>1. Sub(n, n)
      BY <1>1, SubItself
    <3> QED  BY <1>2, <2>3, <3>1
  <2>4. m <= d \/ (m = d + 1 /\ (k <= d \/ k = d + 1))
    BY <1>a
  <2> QED  BY <2>1, <2>2, <2>3, <2>4
<1> QED  BY SMTT(30), <1>1, <1>2, <1>3, <1>4 DEF StackInv, Top

(* ... returns, and goes on with the other operand of the node above.      *)
LEMMA Shallower ==
  ASSUME NEW r, StackInv(r), Len(r.path) > 1,
         NEW r2, r2.line = r.line, r2.path = SubSeq(r.path, 1, Len(r.path) - 1)
  PROVE  /\ StackInv(r2) /\ r2.path # <<>> /\ Top(r2) = r.path[Len(r.path) - 1]
         /\ r2.path[1] = r.path[1] /\ ~IsLeaf(Top(r2))
<1> DEFINE d == Len(r.path)
<1>1. d \in Nat /\ d > 1 /\ r.path \in Seq(NodesOf(r.line))
  BY DEF StackInv
<1> HIDE DEF d
<1>2. /\ r2.path \in Seq(NodesOf(r.line)) /\ Len(r2.path) = d - 1
      /\ \A k \in 1..(d - 1) : r2.path[k] = r.path[k]
  BY <1>1 DEF d
<1>3. ASSUME NEW k \in 1..(d - 2)
      PROVE  ~IsLeaf(r2.path[k]) /\ r2.path[k + 1] \in {Cmd1(r.line, r2.path[k]), Cmd2(r.line, r2.path[k])}
  BY <1>1, <1>2 DEF StackInv, d
<1>4. ASSUME NEW k \in 1..(d - 1), NEW m \in 1..(d - 1), k <= m PROVE Sub(r2.path[m], r2.path[k])
  <2>1. Sub(r.path[m], r.path[k])
    BY SMTT(30), <1>1, <1>4 DEF StackInv, d
  <2>2. r2.path[m] = r.path[m] /\ r2.path[k] = r.path[k]
    BY <1>2
  <2> QED  BY <2>1, <2>2
<1>5. ~IsLeaf(r.path[d - 1])
  BY <1>1 DEF StackInv, d
<1>a. d - 1 \in Nat \ {0} /\ (d - 1) - 1 = d - 2
  BY <1>1
<1>6. Top(r2) = r.path[d - 1] /\ r2.path # <<>> /\ r2.path[1] = r.path[1]
  <2>1. r2.path[d - 1] = r.path[d - 1] /\ r2.path[1] = r.path[1]
    BY <1>a, <1>2
  <2> QED  BY <2>1, <1>2, <1>a DEF Top
<1>7. StackInv(r2)
  <2>1. Len(r2.path) = d - 1 /\ Len(r2.path) - 1 = d - 2
    BY <1>2, <1>a
  <2> QED  BY <1>2, <1>3, <1>4, <2>1 DEF StackInv
<1> QED  BY <1>5, <1>6, <1>7 DEF d

LEMMA Onward ==
  ASSUME NEW r, StackInv(r), Len(r.path) > 1, r.line \in Lines,
         NEW r2, r2.line = r.line,
         r2.path = ThenCmd2(r.path, Cmd2(r.line, r.path[Len(r.path) - 1]))
  PROVE  /\ StackInv(r2) /\ r2.path # <<>> /\ r2.path[1] = r.path[1]
         /\ Top(r2) = Cmd2(r.line, r.path[Len(r.path) - 1])
<1> DEFINE d == Len(r.path)
           n == Cmd2(r.line, r.path[d - 1])
<1>1. d \in Nat /\ d > 1 /\ r.path \in Seq(NodesOf(r.line))
  BY DEF StackInv
<1>2. \A k \in 1..(d - 1) : r.path[k] \in NodesOf(r.line)
  BY <1>1
<1>3. /\ ~IsLeaf(r.path[d - 1]) /\ r.path[d - 1] \in NodesOf(r.line)
      /\ n \in NodesOf(r.line) /\ Sub(n, r.path[d - 1])
  <2>1. ~IsLeaf(r.path[d - 1]) /\ r.path[d - 1] \in NodesOf(r.line)
    BY <1>1, <1>2 DEF StackInv
  <2> QED  BY <2>1, OperandsAre
<1> HIDE DEF d, n
<1>4. /\ r2.path \in Seq(NodesOf(r.line)) /\ Len(r2.path) = d /\ r2.path[d] = n
      /\ \A k \in 1..(d - 1) : r2.path[k] = r.path[k]
  BY <1>1, <1>3 DEF ThenCmd2, d, n
<1>5. ASSUME NEW k \in 1..(d - 1)
      PROVE  ~IsLeaf(r2.path[k]) /\ r2.path[k + 1] \in {Cmd1(r.line, r2.path[k]), Cmd2(r.line, r2.path[k])}
  <2>1. CASE k = d - 1
    BY <1>1, <1>3, <1>4, <2>1 DEF n
  <2>2. CASE k < d - 1
    BY <1>1, <1>4, <2>2 DEF StackInv, d
  <2> QED  BY <1>1, <2>1, <2>2
<1>6. ASSUME NEW k \in 1..d, NEW m \in 1..d, k <= m PROVE Sub(r2.path[m], r2.path[k])
  <2>1. CASE m < d
    BY <1>1, <1>4, <1>6, <2>1 DEF StackInv, d
  <2>2. CASE m = d /\ k < d
    <3>1. Sub(r.path[d - 1], r.path[k])
      BY <1>1, <2>2 DEF StackInv, d
    <3> QED  BY <1>2, <1>3, <1>4, <2>2, <3>1, SubOfSub
  <2>3. CASE m = d /\ k = d
    <3>1. Sub(n, n)
      BY <1>3, SubItself
    <3> QED  BY <1>4, <2>3, <3>1
  <2> QED  BY <1>1, <1>6, <2>1, <2>2, <2>3
<1>7. r2.path # <<>> /\ r2.path[1] = r.path[1] /\ Top(r2) = n
  BY <1>1, <1>4 DEF Top
<1>8. StackInv(r2)
  BY <1>1, <1>4, <1>5, <1>6 DEF StackInv
<1> QED  BY <1>7, <1>8 DEF n, d

-----------------------------------------------------------------------------
(* A process that goes on without leaving its node.                        *)
SameNode(r, r2) ==
  DOMAIN r2 = Fields /\ r2.path = r.path /\ r2.line = r.line /\ r2.no = r.no /\ r2.left \in Int

LEMMA SameNodeIs ==
  ASSUME NEW r, NEW r2, SameNode(r, r2), StackInv(r)
  PROVE  StackInv(r2) /\ Top(r2) = Top(r) /\ PipeOf(r2) = PipeOf(r)
  BY DEF SameNode, StackInv, Top, PipeOf

LEMMA Agreeing ==
  ASSUME NEW p, NEW r, NEW r2, NEW no \in Nat, NEW ps, ProcInv(p, r, no, ps), SameNode(r, r2),
         r2.pc = r.pc, r2.in = r.in, r2.out = r.out, r2.held = r.held, r2.pipe = r.pipe
  PROVE  ProcInv(p, r2, no, ps)
<1>1. StackInv(r2) /\ Top(r2) = Top(r) /\ PipeOf(r2) = PipeOf(r)
  BY SameNodeIs DEF ProcInv
<1>2. PlaceInv(r2, no)
  BY <1>1 DEF ProcInv, PlaceInv, SameNode
<1>3. PidInv(p, r2, no)
  BY DEF ProcInv, PidInv, SameNode
<1>4. FdInv(p, r2, ps)
  BY <1>1 DEF ProcInv, FdInv, SameNode
<1> QED  BY <1>1, <1>2, <1>3, <1>4 DEF ProcInv

LEMMA ReturnsIs ==
  ASSUME NEW r, DOMAIN r = Fields, r.left \in Int, NEW s
  PROVE  /\ SameNode(r, Returns(r, s)) /\ Returns(r, s).pc = "return"
         /\ Returns(r, s).in = r.in /\ Returns(r, s).out = r.out
         /\ Returns(r, s).held = r.held /\ Returns(r, s).pipe = r.pipe
  BY DEF Returns, SameNode, Fields

LEMMA ExitsIs ==
  ASSUME NEW r, DOMAIN r = Fields, r.left \in Int, NEW s
  PROVE  SameNode(r, Exits(r, s)) /\ Exits(r, s).pc = "exited" /\ Exits(r, s).held = {}
  BY DEF Exits, SameNode, Fields

LEMMA ReturnKeeps ==
  ASSUME NEW p, NEW r, NEW no \in Nat, NEW ps, ProcInv(p, r, no, ps), r.pc \in Evaluating, NEW s
  PROVE  ProcInv(p, Returns(r, s), no, ps)
<1> DEFINE r2 == Returns(r, s)
<1>1. /\ SameNode(r, r2) /\ r2.pc = "return" /\ r2.in = r.in /\ r2.out = r.out
      /\ r2.held = r.held /\ r2.pipe = r.pipe
  BY ReturnsIs DEF ProcInv, PlaceInv
<1> HIDE DEF r2
<1>2. StackInv(r2) /\ Top(r2) = Top(r) /\ PipeOf(r2) = PipeOf(r)
  BY <1>1, SameNodeIs DEF ProcInv
<1>3. PlaceInv(r2, no)
  BY <1>1, <1>2 DEF ProcInv, PlaceInv, SameNode, Pcs
<1>4. PidInv(p, r2, no)
  BY <1>1 DEF ProcInv, PidInv, SameNode, Evaluating, Ended
<1>5. FdInv(p, r2, ps)
  BY <1>1, <1>2 DEF ProcInv, FdInv, SameNode, Evaluating, Ended
<1> QED  BY <1>2, <1>3, <1>4, <1>5 DEF ProcInv, r2

(* One that ends has closed its descriptors.                               *)
LEMMA EndKeeps ==
  ASSUME NEW p, NEW r, NEW no \in Nat, NEW ps, ProcInv(p, r, no, ps),
         NEW r2, SameNode(r, r2), r2.pc \in Ended, r2.held = {}
  PROVE  ProcInv(p, r2, no, ps)
<1>1. StackInv(r2)
  BY SameNodeIs DEF ProcInv
<1>2. PlaceInv(r2, no)
  BY DEF ProcInv, PlaceInv, SameNode, Pcs, Ended, Evaluating
<1>3. PidInv(p, r2, no)
  BY DEF ProcInv, PidInv, SameNode, Evaluating, Ended
<1>4. FdInv(p, r2, ps)
  BY DEF FdInv, Ended
<1> QED  BY <1>1, <1>2, <1>3, <1>4 DEF ProcInv

LEMMA ExitKeeps ==
  ASSUME NEW p, NEW r, NEW no \in Nat, NEW ps, ProcInv(p, r, no, ps), NEW s
  PROVE  ProcInv(p, Exits(r, s), no, ps)
  BY EndKeeps, ExitsIs DEF ProcInv, PlaceInv, Ended

(* All processes are as they should be if those that changed are.          *)
LEMMA ProcsKept ==
  ASSUME ProcsInv, lineNo' = lineNo, fails' \in 0..MaxFails, freed' \in BOOLEAN,
         Shell \in DOMAIN procs', PipesInv', DOMAIN pipes \subseteq DOMAIN pipes',
         \A q \in DOMAIN procs' : \/ q \in DOMAIN procs /\ procs'[q] = procs[q]
                                  \/ ProcInv(q, procs'[q], lineNo, DOMAIN pipes')
  PROVE  ProcsInv'
<1>1. ASSUME NEW q \in DOMAIN procs' PROVE ProcInv(q, procs'[q], lineNo, DOMAIN pipes')
  <2>1. CASE q \in DOMAIN procs /\ procs'[q] = procs[q]
    <3>1. ProcInv(q, procs[q], lineNo, DOMAIN pipes)
      BY <2>1 DEF ProcsInv
    <3>2. FdInv(q, procs[q], DOMAIN pipes')
      BY <3>1 DEF ProcInv, FdInv
    <3> QED  BY <2>1, <3>1, <3>2 DEF ProcInv
  <2> QED  BY <2>1
<1> QED  BY <1>1 DEF ProcsInv

LEMMA OneChanges ==
  ASSUME ProcsInv, UNCHANGED <<pipes, lineNo>>, fails' \in 0..MaxFails, freed' \in BOOLEAN,
         NEW p \in DOMAIN procs, NEW r, Becomes(p, r), ProcInv(p, r, lineNo, DOMAIN pipes)
  PROVE  ProcsInv'
<1>1. /\ DOMAIN procs' = DOMAIN procs /\ procs'[p] = r
      /\ \A q \in DOMAIN procs \ {p} : procs'[q] = procs[q]
  BY DEF Becomes
<1>2. PipesInv' /\ Shell \in DOMAIN procs
  BY DEF ProcsInv, PipesInv
<1> QED  BY <1>1, <1>2, ProcsKept

-----------------------------------------------------------------------------
(* Children: the copy of a process that begins with node n, or the command *)
(* of leaf n.                                                              *)
LEMMA Started ==
  ASSUME NEW p, NEW r, NEW no \in Nat, NEW ps, ProcInv(p, r, no, ps), r.pc \in Evaluating,
         NEW n \in NodesOf(r.line),
         NEW c, DOMAIN c = Fields, c.path = <<n>>, c.line = r.line, c.no = r.no, c.left \in Int,
         c.in = r.in, c.out = r.out, c.held \subseteq UNION {Ends(e) : e \in ps},
         c.pc \in {"eval", "setup", "exec"},
         c.pc = "setup" => Ends(c.pipe) \subseteq c.held,
         c.pc = "exec" => IsLeaf(n),
         NEW q, q = IF c.pc = "exec" THEN <<no, n[1]>> ELSE <<no, n[1], n[2]>>
  PROVE  ProcInv(q, c, no, ps)
<1>1. /\ StackInv(c) /\ Top(c) = n /\ c.path # <<>> /\ Len(c.path) = 1 /\ c.path[1] = n
  BY OneCall
<1>2. PlaceInv(c, no)
  BY <1>1 DEF ProcInv, PlaceInv, Pcs, Evaluating
<1>3. PidInv(q, c, no)
  BY <1>1 DEF PidInv, Evaluating
<1>4. FdInv(q, c, ps)
  BY <1>1 DEF ProcInv, FdInv, Evaluating, Ended
<1> QED  BY <1>1, <1>2, <1>3, <1>4 DEF ProcInv

(* What a process in parse_command or in a command is about.               *)
LEMMA AtNode ==
  ASSUME ProcsInv, NEW p \in DOMAIN procs, procs[p].pc \in Evaluating \cup {"exec", "run"}
  PROVE  LET r == procs[p] IN
         /\ r.path # <<>> /\ r.line \in Lines /\ r.no = lineNo /\ lineNo \in Nat
         /\ Top(r) \in NodesOf(r.line) /\ Node(p) = Top(r) /\ NodeOp(p) = Op(r.line, Top(r))
         /\ PipeOf(r) = Pid(p, Node(p)) /\ CommandPid(p) = <<lineNo, Top(r)[1]>>
         /\ \A n : Pid(p, n) = <<lineNo, n[1], n[2]>>
         /\ Operand(p, 1) = Cmd1(r.line, Top(r)) /\ Operand(p, 2) = Cmd2(r.line, Top(r))
         /\ Command(p) \in Commands /\ Alive(p) /\ DOMAIN r = Fields /\ r.left \in Int
<1> DEFINE r == procs[p]
<1>1. StackInv(r) /\ PlaceInv(r, lineNo) /\ lineNo \in Nat
  BY ProcIs
<1>2. r.path # <<>> /\ r.line \in Lines /\ r.no = lineNo /\ DOMAIN r = Fields /\ r.left \in Int
  BY <1>1 DEF PlaceInv
<1>3. Top(r) \in NodesOf(r.line)
  BY <1>1, <1>2, TopIs
<1>4. Node(p) = Top(r) /\ NodeOp(p) = Op(r.line, Top(r))
  BY DEF Node, NodeOp, Top
<1>5. /\ PipeOf(r) = Pid(p, Node(p)) /\ CommandPid(p) = <<lineNo, Top(r)[1]>>
      /\ \A n : Pid(p, n) = <<lineNo, n[1], n[2]>>
  BY <1>2, <1>4 DEF PipeOf, Pid, CommandPid
<1>6. Operand(p, 1) = Cmd1(r.line, Top(r)) /\ Operand(p, 2) = Cmd2(r.line, Top(r))
  BY <1>4 DEF Operand
<1>7. Command(p) \in Commands
  <2>1. Top(r)[1] \in 1..Len(r.line.cmds) /\ r.line.cmds \in Seq(Commands)
    BY <1>2, <1>3, NodeIs, LineIs
  <2> QED  BY <2>1, <1>4 DEF Command
<1>8. Alive(p)
  BY DEF Alive, Evaluating
<1> QED  BY <1>1, <1>2, <1>3, <1>4, <1>5, <1>6, <1>7, <1>8

LEMMA ChildIs ==
  ASSUME NEW p, DOMAIN procs[p] = Fields, procs[p].left \in Int, NEW pc, NEW n
  PROVE  LET r == procs[p]
             c == Child(p, pc, n)
         IN  /\ DOMAIN c = Fields /\ c.pc = pc /\ c.path = <<n>> /\ c.line = r.line /\ c.no = r.no
             /\ c.left \in Int /\ c.in = r.in /\ c.out = r.out /\ c.held = r.held
             /\ c.pipe = Pid(p, Node(p))
  BY DEF Child, Fields

(* A process is waited for, or started, or could not be.                   *)
LEMMA OneGoes ==
  ASSUME ProcsInv, UNCHANGED <<pipes, lineNo, fails, freed>>,
         NEW p \in DOMAIN procs, NEW child, child # Shell, NEW r, Wait(p, child, r),
         ProcInv(p, r, lineNo, DOMAIN pipes)
  PROVE  ProcsInv'
<1>1. /\ DOMAIN procs' = DOMAIN procs \ {child}
      /\ \A q \in DOMAIN procs' : procs'[q] = IF q = p THEN r ELSE procs[q]
  BY DEF Wait
<1>2. PipesInv' /\ Shell \in DOMAIN procs' /\ fails' \in 0..MaxFails /\ freed' \in BOOLEAN
  BY <1>1 DEF ProcsInv, PipesInv
<1>3. \A q \in DOMAIN procs' : \/ q \in DOMAIN procs /\ procs'[q] = procs[q]
                               \/ ProcInv(q, procs'[q], lineNo, DOMAIN pipes')
  BY <1>1
<1> QED  BY <1>2, <1>3, ProcsKept

LEMMA OneComes ==
  ASSUME ProcsInv, UNCHANGED <<lineNo, freed>>, PipesInv', DOMAIN pipes \subseteq DOMAIN pipes',
         NEW p \in DOMAIN procs, NEW child, NEW c, NEW parent, NEW failed,
         Fork(p, child, c, parent, failed),
         ProcInv(p, parent, lineNo, DOMAIN pipes'), ProcInv(p, failed, lineNo, DOMAIN pipes'),
         ProcInv(child, c, lineNo, DOMAIN pipes')
  PROVE  ProcsInv'
<1>1. fails \in 0..MaxFails /\ freed \in BOOLEAN /\ Shell \in DOMAIN procs /\ MaxFails \in Nat
  BY BoundsAssumption DEF ProcsInv
<1>2. CASE procs' = With([procs EXCEPT ![p] = parent], child, c) /\ UNCHANGED fails
  <2>1. DOMAIN procs' = DOMAIN procs \cup {child}
    BY <1>2 DEF With
  <2>2. \A q \in DOMAIN procs' :
          procs'[q] = IF q = child THEN c ELSE IF q = p THEN parent ELSE procs[q]
    BY <1>2 DEF With
  <2>3. \A q \in DOMAIN procs' : \/ q \in DOMAIN procs /\ procs'[q] = procs[q]
                                 \/ ProcInv(q, procs'[q], lineNo, DOMAIN pipes')
    BY <2>1, <2>2
  <2> QED  BY <1>1, <1>2, <2>1, <2>3, ProcsKept
<1>3. CASE fails < MaxFails /\ fails' = fails + 1 /\ Becomes(p, failed)
  <2>1. /\ DOMAIN procs' = DOMAIN procs
        /\ \A q \in DOMAIN procs : procs'[q] = IF q = p THEN failed ELSE procs[q]
    BY <1>3 DEF Becomes
  <2>2. fails' \in 0..MaxFails
    BY <1>1, <1>3
  <2>3. \A q \in DOMAIN procs' : \/ q \in DOMAIN procs /\ procs'[q] = procs[q]
                                 \/ ProcInv(q, procs'[q], lineNo, DOMAIN pipes')
    BY <2>1
  <2> QED  BY <1>1, <2>1, <2>2, <2>3, ProcsKept
<1> QED  BY <1>2, <1>3 DEF Fork

-----------------------------------------------------------------------------
(* Each step leaves the processes as they should be.                       *)
LEMMA BuiltinProcs ==
  ASSUME ProcsInv, NEW p \in DOMAIN procs, Builtin(p)
  PROVE  ProcsInv'
<1> DEFINE r == procs[p]
<1>1. r.pc = "eval" /\ UNCHANGED <<pipes, lineNo, fails>> /\ freed \in BOOLEAN /\ fails \in 0..MaxFails
  BY DEF Builtin, ProcsInv
<1>2. ProcInv(p, r, lineNo, DOMAIN pipes) /\ DOMAIN r = Fields /\ r.left \in Int /\ lineNo \in Nat
  BY DEF ProcsInv, ProcInv, PlaceInv
<1>3. r.pc \in Evaluating
  BY <1>1 DEF Evaluating
<1>4. ASSUME NEW s, NEW t, t = r \/ (\E x : t = [r EXCEPT !.cwd = x] \/ t = [r EXCEPT !.env = x])
      PROVE  ProcInv(p, Returns(t, s), lineNo, DOMAIN pipes)
  <2>1. SameNode(r, t) /\ t.pc = r.pc /\ t.in = r.in /\ t.out = r.out /\ t.held = r.held /\ t.pipe = r.pipe
    BY <1>2, <1>4 DEF SameNode, Fields
  <2>2. ProcInv(p, t, lineNo, DOMAIN pipes)
    BY <1>2, <2>1, Agreeing
  <2> QED  BY <1>2, <1>3, <2>1, <2>2, ReturnKeeps
<1>5. CASE ShellCd(p)
  <2>1. PICK s, x : Becomes(p, Returns([r EXCEPT !.cwd = x], s)) /\ UNCHANGED freed
    BY <1>5 DEF ShellCd
  <2>2. ProcInv(p, Returns([r EXCEPT !.cwd = x], s), lineNo, DOMAIN pipes)
    BY <1>4
  <2> QED  BY <1>1, <2>1, <2>2, OneChanges
<1>6. CASE ShellPwd(p)
  <2>1. PICK s : Becomes(p, Returns(r, s)) /\ UNCHANGED freed
    BY <1>6 DEF ShellPwd
  <2>2. ProcInv(p, Returns(r, s), lineNo, DOMAIN pipes)
    BY <1>4
  <2> QED  BY <1>1, <2>1, <2>2, OneChanges
<1>7. CASE SetVariable(p)
  <2>1. PICK s, x : Becomes(p, Returns([r EXCEPT !.env = x], s)) /\ freed' = (freed \/ p = Shell)
    BY <1>7 DEF SetVariable
  <2>2. ProcInv(p, Returns([r EXCEPT !.env = x], s), lineNo, DOMAIN pipes)
    BY <1>4
  <2>3. freed' \in BOOLEAN
    BY <2>1
  <2> QED  BY <1>1, <2>1, <2>2, <2>3, OneChanges
<1>8. CASE ShellExit(p)
  <2>1. Becomes(p, Exits(r, 0)) /\ UNCHANGED freed
    BY <1>8 DEF ShellExit
  <2>2. ProcInv(p, Exits(r, 0), lineNo, DOMAIN pipes)
    BY <1>2, ExitKeeps
  <2> QED  BY <1>1, <2>1, <2>2, OneChanges
<1> QED  BY <1>5, <1>6, <1>7, <1>8 DEF Builtin

(* A process that changes its place, but neither node nor descriptors.     *)
LEMMA PlaceKeeps ==
  ASSUME NEW p, NEW r, NEW no \in Nat, NEW ps, ProcInv(p, r, no, ps),
         NEW r2, SameNode(r, r2), r2.in = r.in, r2.out = r.out, r2.held \subseteq r.held,
         r2.pipe = r.pipe, r.pc \in Evaluating, r2.pc \in Evaluating \ {"setup"},
         r2.pc \in {"fork2", "close", "wait1", "wait2"} => Op(r.line, Top(r)) \in {"&", "|"},
         r2.pc = "close" => Op(r.line, Top(r)) = "|",
         r2.pc = "wait" => IsLeaf(Top(r)),
         r2.pc \in {"fork2", "close"} /\ Op(r.line, Top(r)) = "|" => Ends(PipeOf(r)) \subseteq r2.held
  PROVE  ProcInv(p, r2, no, ps)
<1>1. StackInv(r2) /\ Top(r2) = Top(r) /\ PipeOf(r2) = PipeOf(r)
  BY SameNodeIs DEF ProcInv
<1>2. PlaceInv(r2, no)
  BY <1>1 DEF ProcInv, PlaceInv, SameNode, Evaluating, Pcs
<1>3. PidInv(p, r2, no)
  BY DEF ProcInv, PidInv, SameNode, Evaluating, Ended
<1>4. FdInv(p, r2, ps)
  BY <1>1 DEF ProcInv, FdInv, SameNode, Evaluating, Ended
<1> QED  BY <1>1, <1>2, <1>3, <1>4 DEF ProcInv

LEMMA ForkCommandProcs ==
  ASSUME ProcsInv, NEW p \in DOMAIN procs, ForkCommand(p)
  PROVE  ProcsInv'
<1> DEFINE r == procs[p]
           c == Child(p, "exec", Node(p))
           r2 == [r EXCEPT !.pc = "wait"]
           r3 == Returns(r, Failure)
<1>1. /\ r.pc = "eval" /\ IsLeaf(Node(p)) /\ Fork(p, CommandPid(p), c, r2, r3)
      /\ UNCHANGED <<pipes, lineNo, freed>> /\ r.pc \in Evaluating
  BY DEF ForkCommand, Evaluating
<1>2. /\ ProcInv(p, r, lineNo, DOMAIN pipes) /\ lineNo \in Nat /\ PipesInv'
  BY <1>1 DEF ProcsInv, PipesInv
<1>3. /\ DOMAIN r = Fields /\ r.left \in Int /\ Node(p) = Top(r) /\ Node(p) \in NodesOf(r.line)
      /\ CommandPid(p) = <<lineNo, Node(p)[1]>>
  BY <1>1, AtNode
<1>4. ProcInv(p, r3, lineNo, DOMAIN pipes)
  BY <1>1, <1>2, ReturnKeeps
<1>5. ProcInv(p, r2, lineNo, DOMAIN pipes)
  <2>1. /\ SameNode(r, r2) /\ r2.pc = "wait" /\ r2.in = r.in /\ r2.out = r.out
        /\ r2.held = r.held /\ r2.pipe = r.pipe
    BY <1>3 DEF SameNode, Fields
  <2> HIDE DEF r2
  <2> QED  BY <1>1, <1>2, <1>3, <2>1, PlaceKeeps DEF Evaluating
<1>6. ProcInv(CommandPid(p), c, lineNo, DOMAIN pipes)
  <2>1. /\ DOMAIN c = Fields /\ c.pc = "exec" /\ c.path = <<Node(p)>> /\ c.line = r.line /\ c.no = r.no
        /\ c.left \in Int /\ c.in = r.in /\ c.out = r.out /\ c.held = r.held
    BY <1>3, ChildIs
  <2>2. r.held \subseteq UNION {Ends(e) : e \in DOMAIN pipes}
    BY <1>2 DEF ProcInv, FdInv
  <2> HIDE DEF c
  <2> QED  BY <1>1, <1>2, <1>3, <2>1, <2>2, Started
<1> QED  BY <1>1, <1>2, <1>4, <1>5, <1>6, OneComes

LEMMA WaitCommandProcs ==
  ASSUME ProcsInv, NEW p \in DOMAIN procs, WaitCommand(p)
  PROVE  ProcsInv'
<1> DEFINE r == procs[p]
           r2 == Returns(r, procs[CommandPid(p)].status)
<1>1. r.pc = "wait" /\ Wait(p, CommandPid(p), r2) /\ UNCHANGED <<pipes, lineNo, fails, freed>>
  BY DEF WaitCommand
<1>2. ProcInv(p, r, lineNo, DOMAIN pipes) /\ lineNo \in Nat /\ r.pc \in Evaluating
  BY <1>1 DEF ProcsInv, Evaluating
<1>3. ProcInv(p, r2, lineNo, DOMAIN pipes)
  BY <1>2, ReturnKeeps
<1>4. CommandPid(p) # Shell
  BY DEF CommandPid, Shell
<1> QED  BY <1>1, <1>3, <1>4, OneGoes

LEMMA ForkOperand1Procs ==
  ASSUME ProcsInv, NEW p \in DOMAIN procs, ForkOperand1(p)
  PROVE  ProcsInv'
<1> DEFINE r == procs[p]
           pipe == Pid(p, Node(p))
           n == Operand(p, 1)
           held == IF NodeOp(p) = "|" THEN Ends(pipe) ELSE {}
           pc == IF NodeOp(p) = "|" THEN "setup" ELSE "eval"
           k == Child(p, pc, n)
           c == [k EXCEPT !.held = @ \cup held]
           r2 == [r EXCEPT !.pc = "fork2", !.held = @ \cup held]
           r3 == IF NodeOp(p) = "|" THEN Exits(r, Failure) ELSE Returns(r, 0)
<1>1. /\ r.pc = "eval" /\ NodeOp(p) \in {"&", "|"} /\ Fork(p, Pid(p, n), c, r2, r3)
      /\ pipes' = (IF NodeOp(p) = "|" THEN With(pipes, pipe, <<>>) ELSE pipes)
      /\ UNCHANGED <<lineNo, freed>> /\ r.pc \in Evaluating
  BY DEF ForkOperand1, Evaluating
<1>2. /\ ProcInv(p, r, lineNo, DOMAIN pipes) /\ lineNo \in Nat
  BY DEF ProcsInv
<1>3. /\ DOMAIN r = Fields /\ r.left \in Int /\ Node(p) = Top(r) /\ Node(p) \in NodesOf(r.line)
      /\ r.line \in Lines /\ NodeOp(p) = Op(r.line, Top(r)) /\ n = Cmd1(r.line, Top(r))
      /\ pipe = PipeOf(r) /\ Pid(p, n) = <<lineNo, n[1], n[2]>>
  BY <1>1, AtNode
<1>4. n \in NodesOf(r.line)
  <2>1. ~IsLeaf(Top(r))
    BY <1>1, <1>3, NotALeaf DEF None
  <2> QED  BY <1>3, <2>1, OperandsAre
<1>5. PipesInv' /\ DOMAIN pipes \subseteq DOMAIN pipes' /\ (NodeOp(p) = "|" => pipe \in DOMAIN pipes')
  <2>1. CASE NodeOp(p) = "|"
    <3>1. /\ DOMAIN pipes' = DOMAIN pipes \cup {pipe}
          /\ \A e \in DOMAIN pipes' : pipes'[e] = IF e = pipe THEN <<>> ELSE pipes[e]
      <4>1. pipes' = With(pipes, pipe, <<>>)
        BY <1>1, <2>1
      <4> HIDE DEF pipe
      <4> QED  BY <4>1 DEF With
    <3>2. <<>> \in Contents /\ Len(<<>>) <= PipeCap
      BY BoundsAssumption DEF Contents
    <3> QED  BY <3>1, <3>2 DEF ProcsInv, PipesInv
  <2>2. CASE NodeOp(p) # "|"
    BY <1>1, <2>2 DEF ProcsInv, PipesInv
  <2> QED  BY <2>1, <2>2
<1>6. ProcInv(p, r, lineNo, DOMAIN pipes')
  BY <1>2, <1>5 DEF ProcInv, FdInv
<1>7. r.held \cup held \subseteq UNION {Ends(e) : e \in DOMAIN pipes'}
  <2>1. r.held \subseteq UNION {Ends(e) : e \in DOMAIN pipes'}
    BY <1>6 DEF ProcInv, FdInv
  <2>2. held \subseteq UNION {Ends(e) : e \in DOMAIN pipes'}
    BY <1>5
  <2> QED  BY <2>1, <2>2
<1>8. ProcInv(p, r3, lineNo, DOMAIN pipes')
  BY <1>1, <1>2, <1>6, ReturnKeeps, ExitKeeps
<1>9. ProcInv(p, r2, lineNo, DOMAIN pipes')
  <2>1. /\ SameNode(r, r2) /\ r2.pc = "fork2" /\ r2.in = r.in /\ r2.out = r.out
        /\ r2.held = r.held \cup held /\ r2.pipe = r.pipe
    BY <1>3 DEF SameNode, Fields
  <2>2. Op(r.line, Top(r)) = "|" => held = Ends(PipeOf(r))
    BY <1>3
  <2> HIDE DEF r2, held
  <2>3. StackInv(r2) /\ Top(r2) = Top(r) /\ PipeOf(r2) = PipeOf(r)
    BY <1>2, <2>1, SameNodeIs DEF ProcInv
  <2>4. PlaceInv(r2, lineNo)
    BY <1>1, <1>2, <1>3, <2>1, <2>3 DEF ProcInv, PlaceInv, SameNode, Evaluating, Pcs
  <2>5. PidInv(p, r2, lineNo)
    BY <1>1, <1>2, <2>1 DEF ProcInv, PidInv, SameNode, Evaluating, Ended
  <2>6. FdInv(p, r2, DOMAIN pipes')
    BY <1>1, <1>6, <1>7, <2>1, <2>2, <2>3 DEF ProcInv, FdInv, SameNode, Evaluating, Ended
  <2> QED  BY <2>3, <2>4, <2>5, <2>6 DEF ProcInv
<1>10. ProcInv(Pid(p, n), c, lineNo, DOMAIN pipes')
  <2>1. /\ DOMAIN k = Fields /\ k.pc = pc /\ k.path = <<n>> /\ k.line = r.line /\ k.no = r.no
        /\ k.left \in Int /\ k.in = r.in /\ k.out = r.out /\ k.held = r.held /\ k.pipe = pipe
    BY <1>3, ChildIs
  <2> HIDE DEF k
  <2>2. /\ DOMAIN c = Fields /\ c.pc = pc /\ c.path = <<n>> /\ c.line = r.line /\ c.no = r.no
        /\ c.left \in Int /\ c.in = r.in /\ c.out = r.out /\ c.held = r.held \cup held /\ c.pipe = pipe
    BY <2>1 DEF Fields
  <2>3. pc \in {"eval", "setup"} /\ (pc = "setup" => held = Ends(pipe))
    OBVIOUS
  <2> HIDE DEF c, pc, held, n, pipe
  <2> QED  BY <1>1, <1>2, <1>3, <1>4, <1>6, <1>7, <2>2, <2>3, Started
<1> QED  BY <1>1, <1>5, <1>8, <1>9, <1>10, OneComes

LEMMA ForkOperand2Procs ==
  ASSUME ProcsInv, NEW p \in DOMAIN procs, ForkOperand2(p)
  PROVE  ProcsInv'
<1> DEFINE r == procs[p]
           n == Operand(p, 2)
           pc == IF NodeOp(p) = "|" THEN "setup" ELSE "eval"
           c == Child(p, pc, n)
           pc2 == IF NodeOp(p) = "|" THEN "close" ELSE "wait1"
           r2 == [r EXCEPT !.pc = pc2]
           r3 == Returns(r, 0)
<1>1. /\ r.pc = "fork2" /\ Fork(p, Pid(p, n), c, r2, r3)
      /\ UNCHANGED <<pipes, lineNo, freed>> /\ r.pc \in Evaluating
  BY DEF ForkOperand2, Evaluating
<1>2. /\ ProcInv(p, r, lineNo, DOMAIN pipes) /\ lineNo \in Nat /\ PipesInv'
  BY <1>1 DEF ProcsInv, PipesInv
<1>3. /\ DOMAIN r = Fields /\ r.left \in Int /\ Node(p) = Top(r) /\ Node(p) \in NodesOf(r.line)
      /\ r.line \in Lines /\ NodeOp(p) = Op(r.line, Top(r)) /\ n = Cmd2(r.line, Top(r))
      /\ Pid(p, Node(p)) = PipeOf(r) /\ Pid(p, n) = <<lineNo, n[1], n[2]>>
  BY <1>1, AtNode
<1>4. NodeOp(p) \in {"&", "|"} /\ n \in NodesOf(r.line)
  <2>1. NodeOp(p) \in {"&", "|"}
    BY <1>1, <1>2, <1>3 DEF ProcInv, PlaceInv
  <2>2. ~IsLeaf(Top(r))
    BY <1>3, <2>1, NotALeaf DEF None
  <2> QED  BY <1>3, <2>1, <2>2, OperandsAre
<1>5. NodeOp(p) = "|" => Ends(PipeOf(r)) \subseteq r.held
  BY <1>1, <1>2, <1>3 DEF ProcInv, FdInv
<1>6. ProcInv(p, r3, lineNo, DOMAIN pipes)
  BY <1>1, <1>2, ReturnKeeps
<1>7. ProcInv(p, r2, lineNo, DOMAIN pipes)
  <2>1. /\ SameNode(r, r2) /\ r2.pc = pc2 /\ r2.in = r.in /\ r2.out = r.out
        /\ r2.held = r.held /\ r2.pipe = r.pipe
    BY <1>3 DEF SameNode, Fields
  <2>2. pc2 \in {"close", "wait1"} /\ (pc2 = "close" <=> NodeOp(p) = "|")
    OBVIOUS
  <2> HIDE DEF r2, pc2
  <2> QED  BY <1>1, <1>2, <1>3, <1>4, <1>5, <2>1, <2>2, PlaceKeeps DEF Evaluating
<1>8. ProcInv(Pid(p, n), c, lineNo, DOMAIN pipes)
  <2>1. /\ DOMAIN c = Fields /\ c.pc = pc /\ c.path = <<n>> /\ c.line = r.line /\ c.no = r.no
        /\ c.left \in Int /\ c.in = r.in /\ c.out = r.out /\ c.held = r.held /\ c.pipe = PipeOf(r)
    BY <1>3, ChildIs
  <2>2. r.held \subseteq UNION {Ends(e) : e \in DOMAIN pipes}
    BY <1>2 DEF ProcInv, FdInv
  <2>3. pc \in {"eval", "setup"} /\ (pc = "setup" => NodeOp(p) = "|")
    OBVIOUS
  <2> HIDE DEF c, pc, n
  <2> QED  BY <1>1, <1>2, <1>3, <1>4, <1>5, <2>1, <2>2, <2>3, Started
<1> QED  BY <1>1, <1>2, <1>6, <1>7, <1>8, OneComes

LEMMA SetUpEndProcs ==
  ASSUME ProcsInv, NEW p \in DOMAIN procs, SetUpEnd(p)
  PROVE  ProcsInv'
<1> DEFINE r == procs[p]
           r2 == [Dup2(p, r) EXCEPT !.pc = "eval", !.held = @ \ Closed(r.pipe)]
<1>1. r.pc = "setup" /\ Becomes(p, r2) /\ UNCHANGED <<pipes, lineNo, fails, freed>>
  BY DEF SetUpEnd
<1>2. /\ StackInv(r) /\ PlaceInv(r, lineNo) /\ PidInv(p, r, lineNo) /\ FdInv(p, r, DOMAIN pipes)
      /\ lineNo \in Nat
  BY ProcIs
<1>3. DOMAIN r = Fields /\ r.left \in Int
  BY <1>2 DEF PlaceInv
<1>4. r.pipe \in DOMAIN pipes
  <2>1. <<r.pipe, "r">> \in UNION {Ends(e) : e \in DOMAIN pipes}
    BY <1>1, <1>2 DEF FdInv, Ends
  <2> QED  BY <2>1 DEF Ends
<1>5. /\ SameNode(r, r2) /\ r2.pc = "eval" /\ r2.held \subseteq r.held
      /\ r2.in \in {r.in, r.pipe} /\ r2.out \in {r.out, r.pipe}
  <2>1. CASE IsCmd1(p, r.pipe)
    BY <1>3, <2>1 DEF Dup2, SameNode, Fields
  <2>2. CASE ~IsCmd1(p, r.pipe)
    BY <1>3, <2>2 DEF Dup2, SameNode, Fields
  <2> QED  BY <2>1, <2>2
<1> HIDE DEF r2
<1>6. StackInv(r2) /\ Top(r2) = Top(r)
  BY <1>2, <1>5, SameNodeIs
<1>7. PlaceInv(r2, lineNo)
  BY <1>1, <1>2, <1>5, <1>6 DEF PlaceInv, SameNode, Pcs, Evaluating
<1>8. PidInv(p, r2, lineNo)
  BY <1>1, <1>2, <1>5 DEF PidInv, SameNode, Evaluating, Ended
<1>9. FdInv(p, r2, DOMAIN pipes)
  BY <1>1, <1>2, <1>4, <1>5 DEF FdInv, Ended
<1>10. ProcInv(p, r2, lineNo, DOMAIN pipes)
  BY <1>6, <1>7, <1>8, <1>9 DEF ProcInv
<1>11. fails' \in 0..MaxFails /\ freed' \in BOOLEAN
  BY <1>1 DEF ProcsInv
<1> QED  BY <1>1, <1>10, <1>11, OneChanges

LEMMA ClosePipeProcs ==
  ASSUME ProcsInv, NEW p \in DOMAIN procs, ClosePipe(p)
  PROVE  ProcsInv'
<1> DEFINE r == procs[p]
           r2 == [r EXCEPT !.pc = "wait1", !.held = @ \ Closed(Pid(p, Node(p)))]
<1>1. r.pc = "close" /\ Becomes(p, r2) /\ UNCHANGED <<pipes, lineNo, fails, freed>> /\ r.pc \in Evaluating
  BY DEF ClosePipe, Evaluating
<1>2. ProcInv(p, r, lineNo, DOMAIN pipes) /\ lineNo \in Nat
  BY DEF ProcsInv
<1>3. DOMAIN r = Fields /\ r.left \in Int /\ Op(r.line, Top(r)) = "|"
  BY <1>1, <1>2 DEF ProcInv, PlaceInv
<1>4. /\ SameNode(r, r2) /\ r2.pc = "wait1" /\ r2.in = r.in /\ r2.out = r.out
      /\ r2.held \subseteq r.held /\ r2.pipe = r.pipe
  BY <1>3 DEF SameNode, Fields
<1> HIDE DEF r2
<1>5. ProcInv(p, r2, lineNo, DOMAIN pipes)
  BY <1>1, <1>2, <1>3, <1>4, PlaceKeeps DEF Evaluating
<1>6. fails' \in 0..MaxFails /\ freed' \in BOOLEAN
  BY <1>1 DEF ProcsInv
<1> QED  BY <1>1, <1>5, <1>6, OneChanges

LEMMA WaitOperand1Procs ==
  ASSUME ProcsInv, NEW p \in DOMAIN procs, WaitOperand1(p)
  PROVE  ProcsInv'
<1> DEFINE r == procs[p]
           child == Pid(p, Operand(p, 1))
           r2 == [r EXCEPT !.pc = "wait2"]
<1>1. r.pc = "wait1" /\ Wait(p, child, r2) /\ UNCHANGED <<pipes, lineNo, fails, freed>> /\ r.pc \in Evaluating
  BY DEF WaitOperand1, Evaluating
<1>2. ProcInv(p, r, lineNo, DOMAIN pipes) /\ lineNo \in Nat
  BY DEF ProcsInv
<1>3. DOMAIN r = Fields /\ r.left \in Int /\ Op(r.line, Top(r)) \in {"&", "|"}
  BY <1>1, <1>2 DEF ProcInv, PlaceInv
<1>4. /\ SameNode(r, r2) /\ r2.pc = "wait2" /\ r2.in = r.in /\ r2.out = r.out
      /\ r2.held = r.held /\ r2.pipe = r.pipe
  BY <1>3 DEF SameNode, Fields
<1> HIDE DEF r2
<1>5. ProcInv(p, r2, lineNo, DOMAIN pipes)
  BY <1>1, <1>2, <1>3, <1>4, PlaceKeeps DEF Evaluating
<1>6. child # Shell
  BY DEF Pid, Shell
<1> QED  BY <1>1, <1>5, <1>6, OneGoes

LEMMA WaitOperand2Procs ==
  ASSUME ProcsInv, NEW p \in DOMAIN procs, WaitOperand2(p)
  PROVE  ProcsInv'
<1> DEFINE r == procs[p]
           child == Pid(p, Operand(p, 2))
<1>1. PICK r2 : /\ \E s : r2 = Returns(r, s) \/ r2 = Exits(r, s)
                /\ r.pc = "wait2" /\ Wait(p, child, r2) /\ UNCHANGED <<pipes, lineNo, fails, freed>>
  <2> DEFINE r3 == IF NodeOp(p) = "&" THEN Returns(r, 0)
                   ELSE IF procs[child].pc = "killed" THEN Exits(r, Failure)
                   ELSE Returns(r, procs[child].status)
  <2>1. r.pc = "wait2" /\ Wait(p, child, r3) /\ UNCHANGED <<pipes, lineNo, fails, freed>>
    BY DEF WaitOperand2
  <2>2. \E s : r3 = Returns(r, s) \/ r3 = Exits(r, s)
    OBVIOUS
  <2> HIDE DEF r3
  <2> QED  BY <2>1, <2>2
<1>2. ProcInv(p, r, lineNo, DOMAIN pipes) /\ lineNo \in Nat /\ r.pc \in Evaluating
  BY <1>1 DEF ProcsInv, Evaluating
<1>3. ProcInv(p, r2, lineNo, DOMAIN pipes)
  BY <1>1, <1>2, ReturnKeeps, ExitKeeps
<1>4. child # Shell
  BY DEF Pid, Shell
<1> QED  BY <1>1, <1>3, <1>4, OneGoes

LEMMA EvalCmd1Procs ==
  ASSUME ProcsInv, NEW p \in DOMAIN procs, EvalCmd1(p)
  PROVE  ProcsInv'
<1> DEFINE r == procs[p]
           n == Operand(p, 1)
           r2 == [r EXCEPT !.path = Append(@, n)]
<1>1. /\ r.pc = "eval" /\ NodeOp(p) \in Sequential /\ Becomes(p, r2)
      /\ UNCHANGED <<pipes, lineNo, fails, freed>>
  BY DEF EvalCmd1
<1>2. /\ StackInv(r) /\ PlaceInv(r, lineNo) /\ PidInv(p, r, lineNo) /\ FdInv(p, r, DOMAIN pipes)
      /\ lineNo \in Nat
  BY ProcIs
<1>3. /\ DOMAIN r = Fields /\ r.left \in Int /\ NodeOp(p) = Op(r.line, Top(r))
      /\ n = Cmd1(r.line, Top(r)) /\ r.path # <<>> /\ r.line \in Lines
  BY <1>1, AtNode DEF Evaluating
<1>4. ~IsLeaf(Top(r))
  BY <1>1, <1>3, NotALeaf DEF None, Sequential
<1>5. /\ DOMAIN r2 = Fields /\ r2.pc = "eval" /\ r2.path = Append(r.path, n) /\ r2.line = r.line
      /\ r2.no = r.no /\ r2.left = r.left /\ r2.in = r.in /\ r2.out = r.out /\ r2.held = r.held
  BY <1>1, <1>3 DEF Fields
<1> HIDE DEF r2, n
<1>6. StackInv(r2) /\ r2.path # <<>> /\ r2.path[1] = r.path[1]
  BY <1>2, <1>3, <1>4, <1>5, Deeper
<1>7. PlaceInv(r2, lineNo)
  BY <1>1, <1>2, <1>3, <1>5, <1>6 DEF PlaceInv, Pcs, Evaluating
<1>8. PidInv(p, r2, lineNo)
  BY <1>1, <1>2, <1>5, <1>6 DEF PidInv, Evaluating, Ended
<1>9. FdInv(p, r2, DOMAIN pipes)
  BY <1>1, <1>2, <1>5 DEF FdInv, Ended
<1>10. ProcInv(p, r2, lineNo, DOMAIN pipes)
  BY <1>6, <1>7, <1>8, <1>9 DEF ProcInv
<1>11. fails' \in 0..MaxFails /\ freed' \in BOOLEAN
  BY <1>1 DEF ProcsInv
<1> QED  BY <1>1, <1>10, <1>11, OneChanges

LEMMA ReturnFromCommandProcs ==
  ASSUME ProcsInv, NEW p \in DOMAIN procs, ReturnFromCommand(p)
  PROVE  ProcsInv'
<1> DEFINE r == procs[p]
           depth == Len(r.path)
           above == r.path[depth - 1]
           onward == Node(p) = Cmd1(r.line, above) /\ RunsCmd2(Op(r.line, above), r.status)
           r1 == IF p = Shell THEN [r EXCEPT !.pc = "free", !.path = <<>>] ELSE Exits(r, r.status)
           r2 == [r EXCEPT !.pc = "eval", !.path = ThenCmd2(@, Cmd2(r.line, above))]
           r3 == [r EXCEPT !.path = SubSeq(@, 1, depth - 1)]
<1>1. /\ r.pc = "return" /\ UNCHANGED <<pipes, lineNo, fails, freed>>
      /\ Becomes(p, IF depth = 1 THEN r1 ELSE IF onward THEN r2 ELSE r3)
  BY DEF ReturnFromCommand
<1>2. /\ StackInv(r) /\ PlaceInv(r, lineNo) /\ PidInv(p, r, lineNo) /\ FdInv(p, r, DOMAIN pipes)
      /\ lineNo \in Nat /\ ProcInv(p, r, lineNo, DOMAIN pipes)
  BY DEF ProcsInv, ProcInv
<1>3. /\ DOMAIN r = Fields /\ r.left \in Int /\ r.path # <<>> /\ r.line \in Lines
  BY <1>1, AtNode DEF Evaluating
<1>4. depth \in Nat \ {0}
  BY <1>2, <1>3, TopIs
<1>5. fails' \in 0..MaxFails /\ freed' \in BOOLEAN
  BY <1>1 DEF ProcsInv
<1>9. depth = 1 \/ depth > 1
  <2> HIDE DEF depth
  <2> QED  BY <1>4
<1>6. CASE depth = 1
  <2>1. ASSUME p = Shell PROVE ProcInv(p, r1, lineNo, DOMAIN pipes)
    <3>1. /\ DOMAIN r1 = Fields /\ r1.pc = "free" /\ r1.path = <<>> /\ r1.no = r.no /\ r1.line = r.line
          /\ r1.left = r.left /\ r1.in = r.in /\ r1.out = r.out /\ r1.held = r.held
      BY <1>3, <2>1 DEF Fields
    <3> HIDE DEF r1
    <3>2. StackInv(r1)
      BY <3>1 DEF StackInv
    <3>3. PlaceInv(r1, lineNo)
      BY <1>2, <3>1 DEF PlaceInv, Pcs, Evaluating
    <3>4. PidInv(p, r1, lineNo)
      BY <2>1, <3>1 DEF PidInv
    <3>5. FdInv(p, r1, DOMAIN pipes)
      BY <1>1, <1>2, <3>1 DEF FdInv, Ended
    <3> QED  BY <3>2, <3>3, <3>4, <3>5 DEF ProcInv
  <2>2. ASSUME p # Shell PROVE ProcInv(p, r1, lineNo, DOMAIN pipes)
    BY <1>2, <2>2, ExitKeeps
  <2>3. Becomes(p, r1)
    BY <1>1, <1>6
  <2> HIDE DEF r1
  <2> QED  BY <1>1, <1>5, <2>1, <2>2, <2>3, OneChanges
<1>7. CASE depth # 1 /\ onward
  <2>1. /\ DOMAIN r2 = Fields /\ r2.pc = "eval" /\ r2.path = ThenCmd2(r.path, Cmd2(r.line, above))
        /\ r2.no = r.no /\ r2.line = r.line
        /\ r2.left = r.left /\ r2.in = r.in /\ r2.out = r.out /\ r2.held = r.held
    BY <1>3 DEF Fields
  <2>2. Becomes(p, r2)
    BY <1>1, <1>7
  <2> HIDE DEF r2
  <2>d. Len(r.path) > 1 /\ r2.path = ThenCmd2(r.path, Cmd2(r.line, r.path[Len(r.path) - 1]))
    BY <1>9, <1>7, <2>1
  <2>3. StackInv(r2) /\ r2.path # <<>> /\ r2.path[1] = r.path[1]
    <3> HIDE DEF r, above
    <3> QED  BY <1>2, <1>3, <2>1, <2>d, Onward
  <2>4. PlaceInv(r2, lineNo)
    BY <1>1, <1>2, <1>3, <2>1, <2>3 DEF PlaceInv, Pcs, Evaluating
  <2>5. PidInv(p, r2, lineNo)
    BY <1>1, <1>2, <2>1, <2>3 DEF PidInv, Evaluating, Ended
  <2>6. FdInv(p, r2, DOMAIN pipes)
    BY <1>1, <1>2, <2>1 DEF FdInv, Ended
  <2>7. ProcInv(p, r2, lineNo, DOMAIN pipes)
    BY <2>3, <2>4, <2>5, <2>6 DEF ProcInv
  <2> QED  BY <1>1, <1>5, <2>2, <2>7, OneChanges
<1>8. CASE depth # 1 /\ ~onward
  <2>1. /\ DOMAIN r3 = Fields /\ r3.pc = "return" /\ r3.path = SubSeq(r.path, 1, Len(r.path) - 1)
        /\ r3.no = r.no /\ r3.line = r.line
        /\ r3.left = r.left /\ r3.in = r.in /\ r3.out = r.out /\ r3.held = r.held
    BY <1>1, <1>3 DEF Fields
  <2>2. Becomes(p, r3)
    BY <1>1, <1>8
  <2> HIDE DEF r3
  <2>d. Len(r.path) > 1
    BY <1>9, <1>8
  <2>3. StackInv(r3) /\ r3.path # <<>> /\ r3.path[1] = r.path[1]
    <3> HIDE DEF r
    <3> QED  BY <1>2, <2>1, <2>d, Shallower
  <2>4. PlaceInv(r3, lineNo)
    BY <1>1, <1>2, <1>3, <2>1, <2>3 DEF PlaceInv, Pcs, Evaluating
  <2>5. PidInv(p, r3, lineNo)
    BY <1>1, <1>2, <2>1, <2>3 DEF PidInv, Evaluating, Ended
  <2>6. FdInv(p, r3, DOMAIN pipes)
    BY <1>1, <1>2, <2>1 DEF FdInv, Ended
  <2>7. ProcInv(p, r3, lineNo, DOMAIN pipes)
    BY <2>3, <2>4, <2>5, <2>6 DEF ProcInv
  <2> QED  BY <1>1, <1>5, <2>2, <2>7, OneChanges
<1> QED  BY <1>6, <1>7, <1>8

(* A command that runs, or ends.                                           *)
LEMMA CommandKeeps ==
  ASSUME ProcsInv, NEW p \in DOMAIN procs, procs[p].pc \in {"exec", "run"},
         NEW r2, SameNode(procs[p], r2), r2.held = procs[p].held,
         r2.in = procs[p].in \/ ~IsPipe(r2.in), r2.out = procs[p].out \/ ~IsPipe(r2.out),
         r2.pc = "run"
  PROVE  ProcInv(p, r2, lineNo, DOMAIN pipes)
<1> DEFINE r == procs[p]
<1>2. /\ StackInv(r) /\ PlaceInv(r, lineNo) /\ PidInv(p, r, lineNo) /\ FdInv(p, r, DOMAIN pipes)
  BY ProcIs
<1>3. StackInv(r2) /\ Top(r2) = Top(r)
  BY <1>2, SameNodeIs
<1>4. PlaceInv(r2, lineNo)
  BY <1>2 DEF PlaceInv, SameNode, Pcs, Evaluating
<1>5. PidInv(p, r2, lineNo)
  BY <1>2 DEF PidInv, SameNode, Evaluating, Ended
<1>6. FdInv(p, r2, DOMAIN pipes)
  BY <1>2 DEF FdInv, Ended
<1> QED  BY <1>3, <1>4, <1>5, <1>6 DEF ProcInv

LEMMA FileIsNoPipe == \A f : ~IsPipe(<<f>>)
  BY DEF IsPipe

LEMMA ExecCommandProcs ==
  ASSUME ProcsInv, NEW p \in DOMAIN procs, ExecCommand(p)
  PROVE  ProcsInv'
<1> DEFINE r == procs[p]
           c == Command(p)
           r1 == RedirectFds(r, c)
           r2 == [r1 EXCEPT !.pc = "run", !.left = c.writes, !.eof = ~c.reads]
<1>1. /\ r.pc = "exec" /\ UNCHANGED <<pipes, lineNo, fails, freed>>
      /\ Becomes(p, r2) \/ Becomes(p, Exits(r, Failure))
  BY DEF ExecCommand
<1>2. DOMAIN r = Fields /\ r.left \in Int /\ c \in Commands
  BY <1>1, AtNode
<1>3. ProcInv(p, Exits(r, Failure), lineNo, DOMAIN pipes)
  BY ExitKeeps DEF ProcsInv
<1>4. /\ DOMAIN r1 = Fields /\ r1.path = r.path /\ r1.line = r.line /\ r1.no = r.no /\ r1.held = r.held
      /\ r1.in = r.in \/ r1.in = <<c.in>>
      /\ r1.out = r.out \/ r1.out = <<c.out>>
  BY <1>2 DEF RedirectFds, Fields
<1> HIDE DEF r1
<1>5. c.writes \in Int
  BY <1>2 DEF Commands
<1>6. /\ SameNode(r, r2) /\ r2.held = r.held /\ r2.pc = "run" /\ r2.in = r1.in /\ r2.out = r1.out
  BY <1>4, <1>5 DEF SameNode, Fields
<1>7. ProcInv(p, r2, lineNo, DOMAIN pipes)
  <2> HIDE DEF r2
  <2> QED  BY <1>1, <1>4, <1>6, CommandKeeps, FileIsNoPipe
<1>8. fails' \in 0..MaxFails /\ freed' \in BOOLEAN
  BY <1>1 DEF ProcsInv
<1> HIDE DEF r2
<1> QED  BY <1>1, <1>3, <1>7, <1>8, OneChanges

(* A step of a command, with what it does to the pipes.                    *)
LEMMA RunKeeps ==
  ASSUME ProcsInv, NEW p \in DOMAIN procs, procs[p].pc = "run",
         NEW r2, SameNode(procs[p], r2), r2.held = procs[p].held, r2.pc = "run",
         r2.in = procs[p].in, r2.out = procs[p].out,
         Becomes(p, r2), UNCHANGED <<lineNo, fails, freed>>,
         PipesInv', DOMAIN pipes' = DOMAIN pipes
  PROVE  ProcsInv'
<1>1. ProcInv(p, r2, lineNo, DOMAIN pipes)
  BY CommandKeeps
<1>2. /\ DOMAIN procs' = DOMAIN procs /\ procs'[p] = r2
      /\ \A q \in DOMAIN procs \ {p} : procs'[q] = procs[q]
  BY DEF Becomes
<1>3. Shell \in DOMAIN procs /\ fails' \in 0..MaxFails /\ freed' \in BOOLEAN
  BY DEF ProcsInv
<1> QED  BY <1>1, <1>2, <1>3, ProcsKept

LEMMA ReadUnitProcs ==
  ASSUME ProcsInv, NEW p \in DOMAIN procs, ReadUnit(p)
  PROVE  ProcsInv'
<1> DEFINE r == procs[p]
           r2 == [r EXCEPT !.got = Append(@, Head(pipes[r.in]))]
<1>1. /\ r.pc = "run" /\ IsPipe(r.in) /\ pipes[r.in] # <<>> /\ Becomes(p, r2)
      /\ pipes' = [pipes EXCEPT ![r.in] = Tail(@)] /\ UNCHANGED <<lineNo, fails, freed>>
  BY DEF ReadUnit
<1>2. DOMAIN r = Fields /\ r.left \in Int
  BY <1>1, AtNode
<1>3. r.in \in DOMAIN pipes
  BY <1>1, ProcIs DEF FdInv, Ended
<1>4. DOMAIN pipes' = DOMAIN pipes /\ PipesInv'
  <2>1. /\ DOMAIN pipes' = DOMAIN pipes
        /\ \A e \in DOMAIN pipes : pipes'[e] = IF e = r.in THEN Tail(pipes[e]) ELSE pipes[e]
    BY <1>1
  <2>2. /\ \A e \in DOMAIN pipes : pipes[e] \in Contents /\ Len(pipes[e]) <= PipeCap
        /\ PipeCap \in Nat
    BY BoundsAssumption DEF ProcsInv, PipesInv
  <2>3. Tail(pipes[r.in]) \in Contents /\ Len(Tail(pipes[r.in])) <= PipeCap
    BY <1>1, <1>3, <2>2 DEF Contents
  <2> QED  BY <2>1, <2>2, <2>3 DEF PipesInv
<1>5. SameNode(r, r2) /\ r2.held = r.held /\ r2.pc = "run" /\ r2.in = r.in /\ r2.out = r.out
  BY <1>1, <1>2 DEF SameNode, Fields
<1> HIDE DEF r2
<1> QED  BY <1>1, <1>4, <1>5, RunKeeps

LEMMA SeeEndProcs ==
  ASSUME ProcsInv, NEW p \in DOMAIN procs, SeeEnd(p)
  PROVE  ProcsInv'
<1> DEFINE r == procs[p]
           r2 == [r EXCEPT !.eof = TRUE]
<1>1. r.pc = "run" /\ Becomes(p, r2) /\ UNCHANGED <<pipes, lineNo, fails, freed>>
  BY DEF SeeEnd
<1>2. DOMAIN r = Fields /\ r.left \in Int
  BY <1>1, AtNode
<1>3. PipesInv'
  BY <1>1 DEF ProcsInv, PipesInv
<1>4. SameNode(r, r2) /\ r2.held = r.held /\ r2.pc = "run" /\ r2.in = r.in /\ r2.out = r.out
  BY <1>1, <1>2 DEF SameNode, Fields
<1> HIDE DEF r2
<1> QED  BY <1>1, <1>3, <1>4, RunKeeps

LEMMA PidIs ==
  ASSUME ProcsInv, NEW p \in DOMAIN procs
  PROVE  /\ p \in Seq(Nat) /\ Len(p) \in 1..3 /\ (p = Shell <=> Len(p) = 1)
         /\ p # Shell => /\ p[1] = lineNo /\ p[2] \in Nat /\ p[Len(p)] \in Nat /\ p[2] <= p[Len(p)]
                         /\ procs[p].path # <<>>
                         /\ Scope(p) = procs[p].path[1]
         /\ Len(p) = 2 => Len(procs[p].path) = 1 /\ procs[p].pc \in {"exec", "run"} \cup Ended
         /\ Len(p) = 3 => procs[p].pc \in Evaluating \cup Ended
<1> DEFINE r == procs[p]
<1>1. StackInv(r) /\ PidInv(p, r, lineNo) /\ lineNo \in Nat
  BY ProcIs
<1>2. CASE p = Shell
  BY <1>2 DEF Shell
<1>3. CASE r.path # <<>> /\ r.pc \in Evaluating \cup Ended /\ p = <<lineNo, r.path[1][1], r.path[1][2]>>
  <2>1. PICK n \in NodesOf(r.line) : n = r.path[1]
    BY <1>1, <1>3, TopIs
  <2>2. n[1] \in Nat /\ n[2] \in Nat /\ n[1] <= n[2] /\ n = <<n[1], n[2]>> /\ p = <<lineNo, n[1], n[2]>>
    BY <1>3, <2>1, NodeIs
  <2>3. Len(p) = 3 /\ p[1] = lineNo /\ p[2] = n[1] /\ p[3] = n[2] /\ p \in Seq(Nat) /\ p # Shell
    BY <1>1, <2>2 DEF Shell
  <2>4. Scope(p) = <<n[1], n[2]>>
    BY <2>3 DEF Scope
  <2>5. p[Len(p)] = n[2]
    BY <2>3
  <2>6. Len(p) \in 1..3 /\ Len(p) # 1 /\ Len(p) # 2
    BY <2>3
  <2> QED  BY <1>3, <2>1, <2>2, <2>3, <2>4, <2>5, <2>6
<1>4. CASE /\ Len(r.path) = 1 /\ IsLeaf(r.path[1]) /\ r.pc \in {"exec", "run"} \cup Ended
           /\ p = <<lineNo, r.path[1][1]>>
  <2>0. r.path # <<>>
    BY <1>4
  <2>1. PICK n \in NodesOf(r.line) : n = r.path[1]
    BY <1>1, <2>0, TopIs
  <2>2. n[1] \in Nat /\ n[2] \in Nat /\ n[1] = n[2] /\ n = <<n[1], n[2]>> /\ p = <<lineNo, n[1]>>
    BY <1>4, <2>1, NodeIs DEF IsLeaf
  <2>3. Len(p) = 2 /\ p[1] = lineNo /\ p[2] = n[1] /\ p \in Seq(Nat) /\ p # Shell
    BY <1>1, <2>2 DEF Shell
  <2>4. Scope(p) = <<n[1], n[2]>>
    BY <2>2, <2>3 DEF Scope
  <2>5. p[Len(p)] = n[2]
    BY <2>2, <2>3
  <2>6. Len(p) \in 1..3 /\ Len(p) # 1 /\ Len(p) # 3
    BY <2>3
  <2>7. Scope(p) = r.path[1] /\ p[2] <= p[Len(p)] /\ p[Len(p)] \in Nat
    <3> HIDE DEF r
    <3> QED  BY <2>1, <2>2, <2>3, <2>4, <2>5
  <2> HIDE DEF r
  <2> QED  BY <1>4, <2>0, <2>2, <2>3, <2>6, <2>7 DEF r
<1> QED  BY <1>1, <1>2, <1>3, <1>4 DEF PidInv

LEMMA WriteUnitProcs ==
  ASSUME ProcsInv, NEW p \in DOMAIN procs, WriteUnit(p)
  PROVE  ProcsInv'
<1> DEFINE r == procs[p]
           r2 == [r EXCEPT !.left = @ - 1]
<1>1. r.pc = "run" /\ Becomes(p, r2) /\ UNCHANGED <<lineNo, fails, freed>>
  BY DEF WriteUnit
<1>2. DOMAIN r = Fields /\ r.left \in Int /\ Command(p) \in Commands
  BY <1>1, AtNode
<1>3. SameNode(r, r2) /\ r2.held = r.held /\ r2.pc = "run" /\ r2.in = r.in /\ r2.out = r.out
  BY <1>1, <1>2 DEF SameNode, Fields
<1>4. CASE /\ Len(pipes[r.out]) < PipeCap /\ IsPipe(r.out)
           /\ pipes' = [pipes EXCEPT ![r.out] = Append(@, Unit(p))]
  <2>1. r.out \in DOMAIN pipes
    BY <1>1, <1>4, ProcIs DEF FdInv, Ended
  <2>2. Unit(p) \in Seq(Nat) \X Int
    <3>1. p \in Seq(Nat)
      BY PidIs
    <3>2. Command(p).writes - r.left + 1 \in Int
      BY <1>2 DEF Commands
    <3> QED  BY <3>1, <3>2 DEF Unit
  <2>3. /\ DOMAIN pipes' = DOMAIN pipes
        /\ \A e \in DOMAIN pipes : pipes'[e] = IF e = r.out THEN Append(pipes[e], Unit(p)) ELSE pipes[e]
    BY <1>4
  <2>4. /\ \A e \in DOMAIN pipes : pipes[e] \in Contents /\ Len(pipes[e]) <= PipeCap
        /\ PipeCap \in Nat
    BY BoundsAssumption DEF ProcsInv, PipesInv
  <2>5. Append(pipes[r.out], Unit(p)) \in Contents /\ Len(Append(pipes[r.out], Unit(p))) <= PipeCap
    BY <1>4, <2>1, <2>2, <2>4 DEF Contents
  <2>6. PipesInv'
    BY <2>3, <2>4, <2>5 DEF PipesInv
  <2> HIDE DEF r2
  <2> QED  BY <1>1, <1>3, <2>3, <2>6, RunKeeps
<1>5. CASE UNCHANGED pipes
  <2>1. PipesInv'
    BY <1>5 DEF ProcsInv, PipesInv
  <2> HIDE DEF r2
  <2> QED  BY <1>1, <1>3, <1>5, <2>1, RunKeeps
<1> QED  BY <1>4, <1>5 DEF WriteUnit

LEMMA CommandEnds ==
  ASSUME ProcsInv, NEW p \in DOMAIN procs, BrokenPipe(p) \/ Terminate(p)
  PROVE  ProcsInv'
<1> DEFINE r == procs[p]
<1>1. /\ r.pc = "run" /\ UNCHANGED <<pipes, lineNo, fails, freed>>
      /\ \/ Becomes(p, [r EXCEPT !.pc = "killed", !.status = SigPipe, !.held = {}])
         \/ \E s \in Statuses : Becomes(p, Exits(r, s))
  BY DEF BrokenPipe, Terminate
<1>2. DOMAIN r = Fields /\ r.left \in Int /\ ProcInv(p, r, lineNo, DOMAIN pipes) /\ lineNo \in Nat
  BY <1>1, AtNode DEF ProcsInv
<1>3. fails' \in 0..MaxFails /\ freed' \in BOOLEAN
  BY <1>1 DEF ProcsInv
<1>4. CASE Becomes(p, [r EXCEPT !.pc = "killed", !.status = SigPipe, !.held = {}])
  <2> DEFINE r2 == [r EXCEPT !.pc = "killed", !.status = SigPipe, !.held = {}]
  <2>1. SameNode(r, r2) /\ r2.pc \in Ended /\ r2.held = {}
    BY <1>2 DEF SameNode, Fields, Ended
  <2>2. Becomes(p, r2)
    BY <1>4
  <2> HIDE DEF r2
  <2>3. ProcInv(p, r2, lineNo, DOMAIN pipes)
    BY <1>2, <2>1, EndKeeps
  <2> QED  BY <1>1, <1>3, <2>2, <2>3, OneChanges
<1>5. ASSUME NEW s \in Statuses, Becomes(p, Exits(r, s)) PROVE ProcsInv'
  <2>1. ProcInv(p, Exits(r, s), lineNo, DOMAIN pipes)
    BY <1>2, ExitKeeps
  <2> QED  BY <1>1, <1>3, <1>5, <2>1, OneChanges
<1> QED  BY <1>1, <1>4, <1>5

-----------------------------------------------------------------------------
(* The main loop.                                                          *)
LEMMA EndOfInputProcs ==
  ASSUME ProcsInv, EndOfInput
  PROVE  ProcsInv'
<1> DEFINE r2 == Exits(procs[Shell], 0)
<1>1. Shell \in DOMAIN procs /\ Becomes(Shell, r2) /\ UNCHANGED <<pipes, lineNo, fails, freed>>
  BY DEF EndOfInput, ProcsInv
<1>2. ProcInv(Shell, r2, lineNo, DOMAIN pipes) /\ fails' \in 0..MaxFails /\ freed' \in BOOLEAN
  BY <1>1, ExitKeeps DEF ProcsInv
<1> HIDE DEF r2
<1> QED  BY <1>1, <1>2, OneChanges

(* The pipes that are gone are those that no process has an end of.        *)
LEMMA OpenStay ==
  ASSUME ProcsInv, NEW q \in DOMAIN procs, procs[q].pc \notin Ended
  PROVE  LET open == {e \in DOMAIN pipes : \E p \in DOMAIN procs : CanRead(p, e) \/ CanWrite(p, e)}
         IN  FdInv(q, procs[q], open)
<1> DEFINE open == {e \in DOMAIN pipes : \E p \in DOMAIN procs : CanRead(p, e) \/ CanWrite(p, e)}
           r == procs[q]
<1>1. Alive(q) /\ FdInv(q, r, DOMAIN pipes)
  BY ProcIs DEF Alive, Ended
<1>2. ASSUME NEW x \in r.held PROVE x \in UNION {Ends(e) : e \in open}
  <2>1. PICK e \in DOMAIN pipes : x \in Ends(e)
    BY <1>1 DEF FdInv
  <2>2. x = <<e, "r">> \/ x = <<e, "w">>
    BY <2>1 DEF Ends
  <2>3. CanRead(q, e) \/ CanWrite(q, e)
    BY <1>1, <1>2, <2>2 DEF CanRead, CanWrite
  <2> QED  BY <2>1, <2>3
<1>3. ASSUME NEW fd \in {r.in, r.out}, IsPipe(fd) PROVE fd \in open
  <2>1. fd \in DOMAIN pipes
    BY <1>1, <1>3 DEF FdInv
  <2>2. CanRead(q, fd) \/ CanWrite(q, fd)
    BY <1>1, <1>3 DEF CanRead, CanWrite
  <2> QED  BY <2>1, <2>2
<1> HIDE DEF open
<1>4. FdInv(q, r, open)
  BY <1>1, <1>2, <1>3 DEF FdInv
<1> QED  BY <1>4 DEF open

LEMMA FreeParseMemoryProcs ==
  ASSUME ProcsInv, FreeParseMemory
  PROVE  ProcsInv'
<1> DEFINE s == procs[Shell]
           open == {e \in DOMAIN pipes : \E p \in DOMAIN procs : CanRead(p, e) \/ CanWrite(p, e)}
           s2 == [s EXCEPT !.pc = IF freed THEN "killed" ELSE "prompt", !.status = 0,
                           !.line = NoLine, !.no = 0]
<1>1. /\ s.pc = "free" /\ Becomes(Shell, s2) /\ pipes' = [e \in open |-> pipes[e]] /\ freed' = FALSE
      /\ UNCHANGED <<lineNo, fails>>
  BY DEF FreeParseMemory
<1>2. /\ Shell \in DOMAIN procs /\ StackInv(s) /\ PlaceInv(s, lineNo) /\ FdInv(Shell, s, open)
      /\ lineNo \in Nat /\ s.pc \notin Ended
  <2>1. Shell \in DOMAIN procs
    BY DEF ProcsInv
  <2> QED  BY <1>1, <2>1, ProcIs, OpenStay DEF Ended
<1>3. DOMAIN s = Fields /\ s.left \in Int /\ s.path = <<>>
  BY <1>1, <1>2 DEF PlaceInv
<1>4. /\ DOMAIN s2 = Fields /\ s2.pc \in {"killed", "prompt"} /\ s2.path = <<>> /\ s2.no = 0
      /\ s2.left \in Int /\ s2.in = s.in /\ s2.out = s.out /\ s2.held = s.held
  BY <1>3 DEF Fields
<1> HIDE DEF s2, open
<1>5. ProcInv(Shell, s2, lineNo, open)
  <2>1. StackInv(s2)
    BY <1>4 DEF StackInv
  <2>2. PlaceInv(s2, lineNo)
    BY <1>2, <1>4 DEF PlaceInv, Pcs, Evaluating
  <2>3. PidInv(Shell, s2, lineNo)
    BY <1>4 DEF PidInv
  <2>4. FdInv(Shell, s2, open)
    BY <1>2, <1>4 DEF FdInv
  <2> QED  BY <2>1, <2>2, <2>3, <2>4 DEF ProcInv
<1>6. DOMAIN pipes' = open /\ open \subseteq DOMAIN pipes /\ \A e \in open : pipes'[e] = pipes[e]
  BY <1>1 DEF open
<1>7. /\ DOMAIN procs' = DOMAIN procs /\ procs'[Shell] = s2
      /\ \A q \in DOMAIN procs \ {Shell} : procs'[q] = procs[q]
  BY <1>1, <1>2 DEF Becomes
<1>8. ASSUME NEW q \in DOMAIN procs \ {Shell} PROVE ProcInv(q, procs[q], lineNo, open)
  <2>1. /\ StackInv(procs[q]) /\ PlaceInv(procs[q], lineNo) /\ PidInv(q, procs[q], lineNo)
        /\ FdInv(q, procs[q], DOMAIN pipes)
    BY ProcIs
  <2>2. CASE procs[q].pc \in Ended
    <3>1. FdInv(q, procs[q], open)
      BY <2>1, <2>2 DEF FdInv, Ended
    <3> QED  BY <2>1, <3>1 DEF ProcInv
  <2>3. CASE procs[q].pc \notin Ended
    <3>1. FdInv(q, procs[q], open)
      BY <2>3, OpenStay DEF open
    <3> QED  BY <2>1, <3>1 DEF ProcInv
  <2> QED  BY <2>2, <2>3
<1>9. PipesInv'
  BY <1>6 DEF ProcsInv, PipesInv
<1>10. fails' \in 0..MaxFails /\ freed' \in BOOLEAN /\ lineNo' \in Nat
  BY <1>1 DEF ProcsInv
<1>11. \A q \in DOMAIN procs' : ProcInv(q, procs'[q], lineNo', DOMAIN pipes')
  BY <1>1, <1>5, <1>6, <1>7, <1>8
<1> QED  BY <1>2, <1>7, <1>9, <1>10, <1>11 DEF ProcsInv

(* At the prompt the shell is alone and holds no pipe.                     *)
LEMMA AloneAtPrompt ==
  ASSUME ProcsInv, TreeInv, procs[Shell].pc = "prompt"
  PROVE  DOMAIN procs = {Shell} /\ procs[Shell].held = {}
<1>1. Shell \in DOMAIN procs
  BY DEF ProcsInv
<1>2. ASSUME NEW q \in DOMAIN procs, q # Shell PROVE FALSE
  <2>1. Below(procs[Shell], q)
    BY <1>1, <1>2 DEF TreeInv, OwnInv, Covers
  <2> QED  BY <2>1 DEF Below
<1> QED  BY <1>1, <1>2 DEF TreeInv, ShellHolds

LEMMA ReadLineProcs ==
  ASSUME ProcsInv, TreeInv, NEW l \in Lines, ReadLine(l)
  PROVE  ProcsInv'
<1> DEFINE s == procs[Shell]
           s2 == [s EXCEPT !.pc = "eval", !.path = <<Root(l)>>, !.no = lineNo + 1, !.line = l,
                           !.was = [cwd |-> s.cwd, env |-> s.env]]
<1>1. /\ s.pc = "prompt" /\ lineNo' = lineNo + 1 /\ Becomes(Shell, s2)
      /\ UNCHANGED <<pipes, fails, freed>>
  BY DEF ReadLine
<1>2. DOMAIN procs = {Shell} /\ s.held = {}
  BY <1>1, AloneAtPrompt
<1>3. PlaceInv(s, lineNo) /\ FdInv(Shell, s, DOMAIN pipes) /\ lineNo \in Nat /\ Shell \in DOMAIN procs
  BY <1>2, ProcIs
<1>4. DOMAIN s = Fields /\ s.left \in Int
  BY <1>3 DEF PlaceInv
<1>5. /\ DOMAIN s2 = Fields /\ s2.pc = "eval" /\ s2.path = <<Root(l)>> /\ s2.no = lineNo + 1
      /\ s2.line = l /\ s2.left \in Int /\ s2.in = s.in /\ s2.out = s.out /\ s2.held = {}
  BY <1>2, <1>4 DEF Fields
<1> HIDE DEF s2
<1>6. Root(l) \in NodesOf(l)
  BY LineIs DEF NodesOf, Root
<1>7. StackInv(s2) /\ Top(s2) = Root(l) /\ s2.path # <<>>
  BY <1>5, <1>6, OneCall
<1>8. PlaceInv(s2, lineNo + 1)
  BY <1>3, <1>5, <1>7 DEF PlaceInv, Pcs
<1>9. PidInv(Shell, s2, lineNo + 1)
  BY <1>5 DEF PidInv
<1>10. FdInv(Shell, s2, DOMAIN pipes)
  BY <1>1, <1>3, <1>5 DEF FdInv, Ended
<1>11. DOMAIN procs' = {Shell} /\ procs'[Shell] = s2
  BY <1>1, <1>2 DEF Becomes
<1>12. PipesInv' /\ fails' \in 0..MaxFails /\ freed' \in BOOLEAN /\ lineNo' \in Nat
  BY <1>1, <1>3 DEF ProcsInv, PipesInv
<1>13. ProcInv(Shell, s2, lineNo + 1, DOMAIN pipes)
  BY <1>7, <1>8, <1>9, <1>10 DEF ProcInv
<1> QED  BY <1>1, <1>11, <1>12, <1>13 DEF ProcsInv

-----------------------------------------------------------------------------
(* The parts of the line that processes are about, as intervals.           *)
IsPid(q) == /\ Len(q) \in {2, 3} /\ q[2] \in Nat /\ q[Len(q)] \in Nat /\ q[2] <= q[Len(q)]

LEMMA IsAPid ==
  ASSUME ProcsInv, NEW q \in DOMAIN procs, q # Shell
  PROVE  IsPid(q)
<1>1. /\ Len(q) \in 1..3 /\ Len(q) # 1 /\ q[2] \in Nat /\ q[Len(q)] \in Nat /\ q[2] <= q[Len(q)]
  BY PidIs
<1>2. \A k \in 1..3 : k # 1 => k \in {2, 3}
  OBVIOUS
<1> QED  BY <1>1, <1>2 DEF IsPid

LEMMA WithinIs ==
  ASSUME NEW q, IsPid(q), NEW n
  PROVE  /\ Within(q, n) <=> n[1] <= q[2] /\ q[Len(q)] <= n[2]
         /\ Scope(q)[1] = q[2] /\ Scope(q)[2] = q[Len(q)]
  BY DEF Within, Scope, IsPid

LEMMA WithinItself == ASSUME NEW q, IsPid(q) PROVE Within(q, Scope(q))
  BY WithinIs DEF IsPid

LEMMA WithinScope ==
  ASSUME NEW a, NEW b, IsPid(a), IsPid(b), Within(a, Scope(b)),
         NEW n, n[1] \in Nat, n[2] \in Nat, Within(b, n)
  PROVE  Within(a, n)
<1>1. b[2] <= a[2] /\ a[Len(a)] <= b[Len(b)] /\ n[1] <= b[2] /\ b[Len(b)] <= n[2]
  BY WithinIs
<1>2. n[1] <= a[2] /\ a[Len(a)] <= n[2]
  BY <1>1 DEF IsPid
<1> QED  BY <1>2, WithinIs

LEMMA WithinTwice ==
  ASSUME NEW a, NEW b, NEW c, IsPid(a), IsPid(b), IsPid(c), Within(a, Scope(b)), Within(b, Scope(c))
  PROVE  Within(a, Scope(c))
<1>1. Scope(c)[1] \in Nat /\ Scope(c)[2] \in Nat
  BY WithinIs DEF IsPid
<1> QED  BY <1>1, WithinScope

LEMMA WithinIsNotApart ==
  ASSUME NEW a, NEW b, IsPid(a), IsPid(b), Within(a, Scope(b))
  PROVE  ~Apart(a, b) /\ ~Apart(b, a)
<1>1. b[2] <= a[2] /\ a[Len(a)] <= b[Len(b)]
  BY WithinIs
<1> QED  BY <1>1 DEF Apart, IsPid

LEMMA ApartFromParts ==
  ASSUME NEW a, NEW b, NEW c, IsPid(a), IsPid(b), IsPid(c), Within(a, Scope(b)),
         Apart(b, c) \/ Apart(c, b)
  PROVE  Apart(a, c) /\ Apart(c, a)
<1>1. b[2] <= a[2] /\ a[Len(a)] <= b[Len(b)]
  BY WithinIs
<1> QED  BY SMTT(30), <1>1 DEF Apart, IsPid

(* What is below a process is below what that one is below.                *)
BelowIs(r) ==
  r.pc \in {"fork2", "close", "wait1", "wait2"} =>
    \A n \in {Cmd1(r.line, Top(r)), Cmd2(r.line, Top(r))} : n[1] \in Nat /\ n[2] \in Nat

LEMMA BelowBelow ==
  ASSUME NEW r, NEW a, NEW b, BelowIs(r), IsPid(a), IsPid(b), Len(b) = 3, Below(r, b), Within(a, Scope(b))
  PROVE  Below(r, a)
<1>1. b # <<r.no, Top(r)[1]>>
  OBVIOUS
<1>2. CASE r.pc \in {"fork2", "close", "wait1"} /\ Within(b, Cmd1(r.line, Top(r)))
  <2>1. Within(a, Cmd1(r.line, Top(r)))
    BY <1>2, WithinScope DEF BelowIs
  <2> QED  BY <1>2, <2>1 DEF Below
<1>3. CASE r.pc \in {"close", "wait1", "wait2"} /\ Within(b, Cmd2(r.line, Top(r)))
  <2>1. Within(a, Cmd2(r.line, Top(r)))
    BY <1>3, WithinScope DEF BelowIs
  <2> QED  BY <1>3, <2>1 DEF Below
<1> QED  BY <1>1, <1>2, <1>3 DEF Below

LEMMA OperandsOf ==
  ASSUME ProcsInv, NEW p \in DOMAIN procs, procs[p].pc \in {"fork2", "close", "wait1", "wait2"}
  PROVE  LET r == procs[p]
             n == Top(r)
             n1 == Cmd1(r.line, n)
             n2 == Cmd2(r.line, n)
         IN  /\ n1 \in NodesOf(r.line) /\ n2 \in NodesOf(r.line) /\ n \in NodesOf(r.line)
             /\ n[1] \in Nat /\ n[2] \in Nat /\ n1[1] \in Nat /\ n1[2] \in Nat
             /\ n2[1] \in Nat /\ n2[2] \in Nat
             /\ n1[1] <= n1[2] /\ n2[1] <= n2[2] /\ n[1] <= n1[1] /\ n2[2] <= n[2]
             /\ n1[2] < n2[1] /\ n1[2] < n[2] /\ n[1] < n2[1]
<1> DEFINE r == procs[p]
           n == Top(r)
           n1 == Cmd1(r.line, n)
           n2 == Cmd2(r.line, n)
<1>1. n \in NodesOf(r.line) /\ r.line \in Lines
  BY AtNode DEF Evaluating
<1>2. ~IsLeaf(n)
  <2>1. Op(r.line, n) \in {"&", "|"}
    BY ProcIs DEF PlaceInv
  <2> QED  BY <2>1, NotALeaf DEF None
<1>3. /\ n1 \in NodesOf(r.line) /\ n2 \in NodesOf(r.line) /\ Sub(n1, n) /\ Sub(n2, n)
      /\ n1[2] < n2[1] /\ n1[2] < n[2] /\ n[1] < n2[1]
  BY <1>1, <1>2, OperandsAre
<1> HIDE DEF n1, n2, n, r
<1>4. /\ n[1] \in Nat /\ n[2] \in Nat /\ n1[1] \in Nat /\ n1[2] \in Nat /\ n2[1] \in Nat /\ n2[2] \in Nat
      /\ n1[1] <= n1[2] /\ n2[1] <= n2[2]
  BY <1>1, <1>3, NodeIs
<1> QED  BY <1>1, <1>3, <1>4 DEF Sub, n1, n2, n, r

LEMMA BelowIsThere ==
  ASSUME ProcsInv, NEW p \in DOMAIN procs
  PROVE  BelowIs(procs[p])
  BY OperandsOf DEF BelowIs

-----------------------------------------------------------------------------
(* A step of p that starts nothing.                                        *)
LEMMA TreeShrinks ==
  ASSUME ProcsInv, OwnInv, Nested, DOMAIN procs' \subseteq DOMAIN procs, NEW p \in DOMAIN procs,
         \A q \in DOMAIN procs' \ {p} : procs'[q] = procs[q],
         \A q \in DOMAIN procs' \ {Shell, p} :
            Covers(p, q) /\ Below(procs[p], q) => Below(procs'[p], q)
  PROVE  OwnInv' /\ Nested'
<1>1. ASSUME NEW a \in DOMAIN procs', NEW b \in DOMAIN procs' \ {Shell, a}, Covers(a, b)
      PROVE  Below(procs'[a], b)
  <2>1. Below(procs[a], b)
    BY <1>1 DEF OwnInv
  <2> QED  BY <1>1, <2>1
<1>2. OwnInv'
  BY <1>1 DEF OwnInv
<1>3. Nested'
  BY DEF Nested
<1> QED  BY <1>2, <1>3

(* A process that waits for nothing has nothing below it.                  *)
Alone == {"prompt", "eval", "setup", "return", "free", "exec", "run", "exited", "killed"}

LEMMA NoneBelow == ASSUME NEW r, r.pc \in Alone, NEW q PROVE ~Below(r, q)
  BY DEF Below, Alone

LEMMA TreeStays ==
  ASSUME ProcsInv, TreeInv, NEW p \in DOMAIN procs, procs[p].pc \in Alone, NEW r, Becomes(p, r),
         p = Shell => \/ r.held = procs[p].held /\ r.pc \in Alone
                      \/ r.held = {} /\ r.pc \in Alone
  PROVE  TreeInv'
<1>1. /\ DOMAIN procs' = DOMAIN procs /\ procs'[p] = r
      /\ \A q \in DOMAIN procs' \ {p} : procs'[q] = procs[q]
  BY DEF Becomes
<1>2. OwnInv' /\ Nested'
  BY <1>1, NoneBelow, TreeShrinks DEF TreeInv
<1>3. ShellHolds'
  <2>1. CASE p = Shell
    <3>1. procs[Shell].held = {}
      BY <2>1 DEF TreeInv, ShellHolds, Alone
    <3>2. r.held = {} /\ r.pc \in Alone
      BY <2>1, <3>1
    <3> QED  BY <1>1, <2>1, <3>2 DEF ShellHolds, Alone
  <2>2. CASE p # Shell
    <3>1. procs'[Shell] = procs[Shell]
      BY <1>1, <2>2 DEF ProcsInv
    <3> QED  BY <3>1 DEF TreeInv, ShellHolds, Top, PipeOf
  <2> QED  BY <2>1, <2>2
<1> QED  BY <1>2, <1>3 DEF TreeInv

(* A step of p that starts c in its part of the line, apart from what p    *)
(* started before.                                                         *)
LEMMA TreeGrows ==
  ASSUME ProcsInv, OwnInv, Nested, NEW p \in DOMAIN procs, NEW c, IsPid(c), c # p, c # Shell,
         Covers(p, c), Len(c) = 3 => p = Shell \/ ~Within(p, Scope(c)),
         DOMAIN procs' = DOMAIN procs \cup {c},
         \A q \in DOMAIN procs \ {p, c} : procs'[q] = procs[q],
         procs'[c].pc \in Alone, Below(procs'[p], c),
         \A q \in DOMAIN procs \ {Shell, p} : Covers(p, q) => Apart(q, c) /\ Below(procs'[p], q)
  PROVE  OwnInv' /\ Nested'
<1>1. \A q \in DOMAIN procs \ {Shell} : IsPid(q)
  BY IsAPid
<1>2. \A q \in DOMAIN procs \ {Shell, p} : Covers(p, q) => Apart(q, c)
  OBVIOUS
<1>3. ASSUME p # Shell PROVE Len(p) = 3 /\ Within(c, Scope(p)) /\ IsPid(p)
  BY <1>1, <1>3 DEF Covers
<1>4. ASSUME NEW q \in DOMAIN procs \ {Shell, p}, Len(c) = 3, Within(q, Scope(c)) PROVE FALSE
  <2>1. Covers(p, q)
    <3>1. CASE p = Shell
      BY <3>1 DEF Covers
    <3>2. CASE p # Shell
      <4>1. Within(q, Scope(p))
        BY <1>1, <1>3, <1>4, <3>2, WithinTwice
      <4> QED  BY <1>3, <3>2, <4>1 DEF Covers
    <3> QED  BY <3>1, <3>2
  <2>2. ~Apart(q, c)
    BY <1>1, <1>4, WithinIsNotApart
  <2> QED  BY <1>2, <2>1, <2>2
<1>5. ASSUME NEW a \in DOMAIN procs \ {Shell, p, c}, Len(a) = 3, Within(c, Scope(a))
      PROVE  p # Shell /\ Within(p, Scope(a))
  <2>1. ~Apart(a, c)
    BY <1>1, <1>5, WithinIsNotApart
  <2>2. ~Covers(p, a)
    BY <1>2, <2>1
  <2>3. p # Shell /\ ~Within(a, Scope(p))
    BY <1>3, <2>2 DEF Covers
  <2>4. ~Apart(p, a)
    <3>1. ASSUME Apart(p, a) PROVE FALSE
      <4>1. Apart(a, c)
        BY <1>1, <1>3, <2>3, <3>1, ApartFromParts
      <4> QED  BY <2>1, <4>1
    <3> QED  BY <3>1
  <2>5. Within(p, Scope(a)) \/ Within(a, Scope(p)) \/ Apart(p, a)
    BY <2>3 DEF Nested
  <2> QED  BY <2>3, <2>4, <2>5
<1>6. ASSUME NEW a \in DOMAIN procs', NEW b \in DOMAIN procs' \ {Shell, a}, Covers(a, b)
      PROVE  Below(procs'[a], b)
  <2>1. CASE a = c
    <3>1. Len(c) = 3 /\ Within(b, Scope(c)) /\ b \in DOMAIN procs \ {Shell}
      BY <1>6, <2>1 DEF Covers
    <3>2. b # p
      BY <3>1
    <3> QED  BY <1>4, <3>1, <3>2
  <2>2. CASE a = p
    <3>1. CASE b = c
      BY <2>2, <3>1
    <3>2. CASE b # c
      BY <1>6, <2>2, <3>2
    <3> QED  BY <3>1, <3>2
  <2>3. CASE a \notin {p, c} /\ b # c
    <3>1. Below(procs[a], b) /\ procs'[a] = procs[a]
      BY <1>6, <2>3 DEF OwnInv
    <3> QED  BY <3>1
  <2>4. CASE a \notin {p, c} /\ b = c
    <3>1. procs'[a] = procs[a] /\ a \in DOMAIN procs
      BY <1>6, <2>4
    <3>2. p # Shell /\ Covers(a, p)
      <4>1. CASE a = Shell
        BY <2>4, <4>1 DEF Covers
      <4>2. CASE a # Shell
        BY <1>5, <1>6, <2>4, <3>1, <4>2 DEF Covers
      <4> QED  BY <4>1, <4>2
    <3>3. Below(procs[a], p) /\ BelowIs(procs[a])
      BY <2>4, <3>1, <3>2, BelowIsThere DEF OwnInv
    <3>4. Below(procs[a], c)
      BY <1>3, <3>2, <3>3, BelowBelow
    <3> QED  BY <2>4, <3>1, <3>4
  <2> QED  BY <2>1, <2>2, <2>3, <2>4
<1>7. OwnInv'
  BY <1>6 DEF OwnInv
<1>8. ASSUME NEW b \in DOMAIN procs \ {Shell, c}
      PROVE  Within(c, Scope(b)) \/ Within(b, Scope(c)) \/ (Apart(c, b) /\ Apart(b, c))
  <2>1. CASE b = p
    BY <1>3, <1>8, <2>1
  <2>2. CASE b # p /\ Covers(p, b)
    BY <1>2, <1>8, <2>2 DEF Apart
  <2>3. CASE b # p /\ ~Covers(p, b)
    <3>1. p # Shell /\ ~Within(b, Scope(p)) /\ Within(c, Scope(p)) /\ IsPid(p) /\ IsPid(b)
      BY <1>1, <1>3, <1>8, <2>3 DEF Covers
    <3>2. Within(p, Scope(b)) \/ Apart(b, p) \/ Apart(p, b)
      BY <1>8, <3>1 DEF Nested
    <3>3. CASE Within(p, Scope(b))
      BY <3>1, <3>3, WithinTwice
    <3>4. CASE Apart(b, p) \/ Apart(p, b)
      BY <3>1, <3>4, ApartFromParts
    <3> QED  BY <3>2, <3>3, <3>4
  <2> QED  BY <2>1, <2>2, <2>3
<1>9. ASSUME NEW a \in DOMAIN procs' \ {Shell}, NEW b \in DOMAIN procs' \ {Shell}
      PROVE  Within(a, Scope(b)) \/ Within(b, Scope(a)) \/ Apart(a, b)
  <2>1. CASE a = c /\ b = c
    BY <2>1, WithinItself
  <2>2. CASE a = c /\ b # c
    BY <1>8, <1>9, <2>2
  <2>3. CASE a # c /\ b = c
    BY <1>8, <1>9, <2>3
  <2>4. CASE a # c /\ b # c
    BY <1>9, <2>4 DEF Nested
  <2> QED  BY <2>1, <2>2, <2>3, <2>4
<1>10. Nested'
  BY <1>9 DEF Nested
<1> QED  BY <1>7, <1>10

(* A copy is about the node it began with and what is below that.          *)
LEMMA CoversItsNode ==
  ASSUME ProcsInv, NEW p \in DOMAIN procs, procs[p].pc \in Evaluating,
         NEW c, IsPid(c), Within(c, Top(procs[p]))
  PROVE  /\ Covers(p, c)
         /\ p # Shell => /\ IsPid(p) /\ Len(p) = 3 /\ p[2] <= Top(procs[p])[1]
                         /\ Top(procs[p])[2] <= p[3] /\ p[3] \in Nat
<1> DEFINE r == procs[p]
           n == Top(r)
<1>1. ASSUME p # Shell
      PROVE  /\ IsPid(p) /\ Len(p) = 3 /\ p[2] <= n[1] /\ n[2] <= p[3] /\ p[3] \in Nat
             /\ Within(c, Scope(p))
  <2>1. Len(p) = 3 /\ Scope(p) = r.path[1] /\ IsPid(p)
    <3>1. /\ Len(p) \in 1..3 /\ Len(p) # 1 /\ Scope(p) = r.path[1]
          /\ Len(p) = 2 => r.pc \in {"exec", "run"} \cup Ended
      BY <1>1, PidIs
    <3>2. Len(p) # 2
      BY <3>1 DEF Evaluating, Ended
    <3>3. \A k \in 1..3 : k # 1 /\ k # 2 => k = 3
      OBVIOUS
    <3> QED  BY <1>1, <3>1, <3>2, <3>3, IsAPid
  <2>2. /\ StackInv(r) /\ r.path # <<>>
    BY ProcIs, AtNode
  <2>3. Sub(n, r.path[1]) /\ n \in NodesOf(r.line) /\ r.path[1] \in NodesOf(r.line)
    BY <2>2, TopIs
  <2>4. /\ n[1] \in Nat /\ n[2] \in Nat /\ Scope(p)[1] = p[2] /\ Scope(p)[2] = p[3]
        /\ p[2] \in Nat /\ p[3] \in Nat
    BY <2>1, <2>3, NodeIs, WithinIs DEF IsPid
  <2>5. p[2] <= n[1] /\ n[2] <= p[3]
    BY <2>1, <2>3, <2>4 DEF Sub
  <2>6. n[1] <= c[2] /\ c[Len(c)] <= n[2] /\ c[2] \in Nat /\ c[Len(c)] \in Nat
    BY WithinIs DEF IsPid
  <2> HIDE DEF n, r
  <2>7. Scope(p)[1] <= c[2] /\ c[Len(c)] <= Scope(p)[2]
    BY <2>4, <2>5, <2>6
  <2>8. Within(c, Scope(p))
    BY <2>7, WithinIs
  <2> QED  BY <2>1, <2>4, <2>5, <2>8
<1> QED  BY <1>1 DEF Covers

-----------------------------------------------------------------------------
(* Each step keeps the tree, unless a fork fails.                          *)
LEMMA OthersHold ==
  ASSUME ProcsInv, TreeInv, procs'[Shell] = procs[Shell]
  PROVE  ShellHolds'
  BY DEF TreeInv, ShellHolds, Top, PipeOf

LEMMA Forked ==
  ASSUME ProcsInv, NEW p \in DOMAIN procs, NEW c, c # p, NEW k, NEW r, NEW failed,
         Fork(p, c, k, r, failed), fails' = fails
  PROVE  /\ DOMAIN procs' = DOMAIN procs \cup {c} /\ procs'[c] = k /\ procs'[p] = r
         /\ \A q \in DOMAIN procs \ {p, c} : procs'[q] = procs[q]
<1>1. fails \in Nat
  BY BoundsAssumption DEF ProcsInv
<1>2. fails' # fails + 1
  BY <1>1
<1>3. procs' = With([procs EXCEPT ![p] = r], c, k)
  BY <1>2 DEF Fork
<1> QED  BY <1>3 DEF With

LEMMA CopyIsPid ==
  ASSUME NEW no \in Nat, NEW a \in Nat, NEW b \in Nat, a <= b, NEW c, c = <<no, a, b>>
  PROVE  /\ IsPid(c) /\ Len(c) = 3 /\ c # Shell /\ c[2] = a /\ c[3] = b /\ c[Len(c)] = b
         /\ Scope(c)[1] = a /\ Scope(c)[2] = b
  BY DEF IsPid, Shell, Scope

LEMMA ForkCommandTree ==
  ASSUME ProcsInv, TreeInv, NEW p \in DOMAIN procs, ForkCommand(p), fails' = fails
  PROVE  TreeInv'
<1> DEFINE r == procs[p]
           n == Top(r)
           c == CommandPid(p)
           k == Child(p, "exec", Node(p))
           r2 == [r EXCEPT !.pc = "wait"]
<1>1. /\ r.pc = "eval" /\ IsLeaf(Node(p)) /\ Fork(p, c, k, r2, Returns(r, Failure))
      /\ r.pc \in Evaluating /\ r.pc \in Alone
  BY DEF ForkCommand, Evaluating, Alone
<1>2. /\ DOMAIN r = Fields /\ r.left \in Int /\ n \in NodesOf(r.line) /\ r.no = lineNo
      /\ c = <<lineNo, n[1]>> /\ lineNo \in Nat
  BY <1>1, AtNode
<1>3. n[1] \in Nat /\ n[2] \in Nat /\ n[1] <= n[2]
  BY <1>2, NodeIs
<1>4. /\ Len(c) = 2 /\ c[2] = n[1] /\ IsPid(c) /\ c # Shell /\ Within(c, n)
  <2>1. Len(c) = 2 /\ c[2] = n[1] /\ c # Shell
    BY <1>2 DEF Shell
  <2> HIDE DEF c, n
  <2>2. c[Len(c)] = n[1]
    BY <2>1
  <2>3. IsPid(c)
    BY <1>3, <2>1, <2>2 DEF IsPid
  <2> QED  BY <1>3, <2>1, <2>2, <2>3, WithinIs
<1>5. Covers(p, c) /\ c # p
  <2>1. Covers(p, c) /\ (p # Shell => Len(p) = 3)
    BY <1>1, <1>4, CoversItsNode
  <2> QED  BY <1>4, <2>1
<1>6. /\ r2.pc = "wait" /\ r2.no = r.no /\ Top(r2) = n /\ r2.held = r.held /\ k.pc \in Alone
  <2>1. k.pc = "exec"
    BY <1>2, ChildIs
  <2> QED  BY <1>2, <2>1 DEF Fields, Top, Alone
<1> HIDE DEF r2, k, c
<1>7. /\ DOMAIN procs' = DOMAIN procs \cup {c} /\ procs'[c] = k /\ procs'[p] = r2
      /\ \A q \in DOMAIN procs \ {p, c} : procs'[q] = procs[q]
  BY <1>1, <1>5, Forked
<1>8. Below(r2, c)
  BY <1>2, <1>6 DEF Below
<1>9. \A q \in DOMAIN procs \ {Shell, p} : ~Covers(p, q)
  BY <1>1, NoneBelow DEF TreeInv, OwnInv
<1>10. OwnInv' /\ Nested'
  BY <1>4, <1>5, <1>6, <1>7, <1>8, <1>9, TreeGrows DEF TreeInv
<1>11. ShellHolds'
  <2>1. CASE p = Shell
    <3>1. r.held = {}
      BY <1>1, <2>1 DEF TreeInv, ShellHolds
    <3> QED  BY <1>6, <1>7, <2>1, <3>1 DEF ShellHolds
  <2>2. CASE p # Shell
    <3>1. procs'[Shell] = procs[Shell]
      BY <1>4, <1>7, <2>2 DEF ProcsInv
    <3> QED  BY <3>1, OthersHold
  <2> QED  BY <2>1, <2>2
<1> QED  BY <1>10, <1>11 DEF TreeInv

LEMMA ForkOperand1Tree ==
  ASSUME ProcsInv, TreeInv, NEW p \in DOMAIN procs, ForkOperand1(p), fails' = fails
  PROVE  TreeInv'
<1> DEFINE r == procs[p]
           n == Top(r)
           n1 == Cmd1(r.line, n)
           c == Pid(p, Operand(p, 1))
           held == IF NodeOp(p) = "|" THEN Ends(Pid(p, Node(p))) ELSE {}
           pc == IF NodeOp(p) = "|" THEN "setup" ELSE "eval"
           k0 == Child(p, pc, Operand(p, 1))
           k == [k0 EXCEPT !.held = @ \cup held]
           r2 == [r EXCEPT !.pc = "fork2", !.held = @ \cup held]
           r3 == IF NodeOp(p) = "|" THEN Exits(r, Failure) ELSE Returns(r, 0)
<1>1. /\ r.pc = "eval" /\ NodeOp(p) \in {"&", "|"} /\ Fork(p, c, k, r2, r3)
      /\ r.pc \in Evaluating /\ r.pc \in Alone
  BY DEF ForkOperand1, Evaluating, Alone
<1>2. /\ DOMAIN r = Fields /\ r.left \in Int /\ n \in NodesOf(r.line) /\ r.no = lineNo
      /\ r.line \in Lines /\ NodeOp(p) = Op(r.line, n) /\ Pid(p, Node(p)) = PipeOf(r)
      /\ c = <<lineNo, n1[1], n1[2]>> /\ lineNo \in Nat
  BY <1>1, AtNode
<1>3. /\ n[1] \in Nat /\ n[2] \in Nat /\ n1[1] \in Nat /\ n1[2] \in Nat
      /\ n1[1] <= n1[2] /\ n[1] <= n1[1] /\ n1[2] <= n[2] /\ n1[2] < n[2]
  <2>1. ~IsLeaf(n)
    BY <1>1, <1>2, NotALeaf DEF None
  <2>2. n1 \in NodesOf(r.line) /\ Sub(n1, n) /\ n1[2] < n[2]
    BY <1>2, <2>1, OperandsAre
  <2> HIDE DEF n1, n
  <2> QED  BY <1>2, <2>2, NodeIs DEF Sub
<1>4. /\ IsPid(c) /\ Len(c) = 3 /\ c # Shell /\ Scope(c)[2] = n1[2]
      /\ Within(c, n) /\ Within(c, n1)
  <2> HIDE DEF c, n1, n
  <2>1. /\ IsPid(c) /\ Len(c) = 3 /\ c # Shell /\ c[2] = n1[1] /\ c[Len(c)] = n1[2]
        /\ Scope(c)[2] = n1[2]
    BY <1>2, <1>3, CopyIsPid
  <2> QED  BY <1>3, <2>1, WithinIs
<1>5. Covers(p, c) /\ (p = Shell \/ ~Within(p, Scope(c))) /\ c # p
  <2>1. /\ Covers(p, c)
        /\ p # Shell => IsPid(p) /\ Len(p) = 3 /\ n[2] <= p[3] /\ p[3] \in Nat
    BY <1>1, <1>4, CoversItsNode
  <2> HIDE DEF c, n1, n
  <2>2. ASSUME p # Shell, Within(p, Scope(c)) PROVE FALSE
    <3>1. p[3] <= n1[2]
      BY <1>4, <2>1, <2>2, WithinIs
    <3> QED  BY <1>3, <2>1, <2>2, <3>1
  <2>3. Within(c, Scope(c))
    BY <1>4, WithinItself
  <2> QED  BY <1>4, <2>1, <2>2, <2>3
<1>6. /\ r2.pc = "fork2" /\ Top(r2) = n /\ r2.line = r.line /\ r2.no = r.no
      /\ r2.held = r.held \cup held /\ k.pc \in Alone
  <2>1. k0.pc = pc /\ DOMAIN k0 = Fields
    BY <1>2, ChildIs
  <2> HIDE DEF k0
  <2>2. k.pc = pc
    BY <2>1 DEF Fields
  <2> QED  BY <1>2, <2>2 DEF Fields, Top, Alone
<1> HIDE DEF r2, r3, k, c
<1>7. /\ DOMAIN procs' = DOMAIN procs \cup {c} /\ procs'[c] = k /\ procs'[p] = r2
      /\ \A q \in DOMAIN procs \ {p, c} : procs'[q] = procs[q]
  BY <1>1, <1>5, Forked
<1>8. Below(r2, c)
  BY <1>4, <1>6 DEF Below
<1>9. \A q \in DOMAIN procs \ {Shell, p} : ~Covers(p, q)
  BY <1>1, NoneBelow DEF TreeInv, OwnInv
<1>10. OwnInv' /\ Nested'
  BY <1>4, <1>5, <1>6, <1>7, <1>8, <1>9, TreeGrows DEF TreeInv
<1>11. ShellHolds'
  <2>1. CASE p = Shell
    <3>1. r.held = {}
      BY <1>1, <2>1 DEF TreeInv, ShellHolds
    <3>2. PipeOf(r2) = PipeOf(r)
      BY <1>6 DEF PipeOf
    <3>3. r2.held = IF Op(r2.line, Top(r2)) = "|" THEN Ends(PipeOf(r2)) ELSE {}
      BY <1>2, <1>6, <3>1, <3>2
    <3>4. procs'[Shell] = r2
      BY <1>7, <2>1
    <3> QED  BY <1>6, <3>3, <3>4 DEF ShellHolds
  <2>2. CASE p # Shell
    <3>1. procs'[Shell] = procs[Shell]
      BY <1>4, <1>7, <2>2 DEF ProcsInv
    <3> QED  BY <3>1, OthersHold
  <2> QED  BY <2>1, <2>2
<1> QED  BY <1>10, <1>11 DEF TreeInv

LEMMA ForkOperand2Tree ==
  ASSUME ProcsInv, TreeInv, NEW p \in DOMAIN procs, ForkOperand2(p), fails' = fails
  PROVE  TreeInv'
<1> DEFINE r == procs[p]
           n == Top(r)
           n1 == Cmd1(r.line, n)
           n2 == Cmd2(r.line, n)
           c == Pid(p, Operand(p, 2))
           pc == IF NodeOp(p) = "|" THEN "setup" ELSE "eval"
           k == Child(p, pc, Operand(p, 2))
           pc2 == IF NodeOp(p) = "|" THEN "close" ELSE "wait1"
           r2 == [r EXCEPT !.pc = pc2]
<1>1. /\ r.pc = "fork2" /\ Fork(p, c, k, r2, Returns(r, 0)) /\ r.pc \in Evaluating
  BY DEF ForkOperand2, Evaluating
<1>2. /\ DOMAIN r = Fields /\ r.left \in Int /\ r.no = lineNo /\ NodeOp(p) = Op(r.line, n)
      /\ c = <<lineNo, n2[1], n2[2]>> /\ lineNo \in Nat
  BY <1>1, AtNode
<1>3. /\ n[1] \in Nat /\ n[2] \in Nat /\ n1[1] \in Nat /\ n1[2] \in Nat
      /\ n2[1] \in Nat /\ n2[2] \in Nat /\ n2[1] <= n2[2] /\ n2[2] <= n[2]
      /\ n1[2] < n2[1] /\ n[1] < n2[1]
  BY <1>1, OperandsOf
<1>4. /\ IsPid(c) /\ Len(c) = 3 /\ c # Shell /\ c[2] = n2[1] /\ Scope(c)[1] = n2[1]
      /\ Within(c, n) /\ Within(c, n2)
  <2> HIDE DEF c, n1, n2, n
  <2>1. /\ IsPid(c) /\ Len(c) = 3 /\ c # Shell /\ c[2] = n2[1] /\ c[Len(c)] = n2[2]
        /\ Scope(c)[1] = n2[1]
    BY <1>2, <1>3, CopyIsPid
  <2> QED  BY <1>3, <2>1, WithinIs
<1>5. Covers(p, c) /\ (p = Shell \/ ~Within(p, Scope(c))) /\ c # p
  <2>1. /\ Covers(p, c)
        /\ p # Shell => IsPid(p) /\ p[2] <= n[1]
    BY <1>1, <1>4, CoversItsNode
  <2> HIDE DEF c, n1, n2, n
  <2>2. ASSUME p # Shell, Within(p, Scope(c)) PROVE FALSE
    <3>1. n2[1] <= p[2] /\ p[2] \in Nat
      BY <1>4, <2>1, <2>2, WithinIs DEF IsPid
    <3> QED  BY <1>3, <2>1, <2>2, <3>1
  <2>3. Within(c, Scope(c))
    BY <1>4, WithinItself
  <2> QED  BY <1>4, <2>1, <2>2, <2>3
<1>6. /\ r2.pc = pc2 /\ Top(r2) = n /\ r2.line = r.line /\ r2.no = r.no
      /\ r2.held = r.held /\ k.pc \in Alone
  <2>1. k.pc = pc
    BY <1>2, ChildIs
  <2> QED  BY <1>2, <2>1 DEF Fields, Top, Alone
<1> HIDE DEF r2, k, c
<1>7. /\ DOMAIN procs' = DOMAIN procs \cup {c} /\ procs'[c] = k /\ procs'[p] = r2
      /\ \A q \in DOMAIN procs \ {p, c} : procs'[q] = procs[q]
  BY <1>1, <1>5, Forked
<1>a. pc2 \in {"close", "wait1"} /\ (pc2 = "close" <=> NodeOp(p) = "|")
  OBVIOUS
<1>8. Below(r2, c)
  BY <1>4, <1>6, <1>a DEF Below
<1>9. ASSUME NEW q \in DOMAIN procs \ {Shell, p}, Covers(p, q)
      PROVE  Apart(q, c) /\ Below(r2, q)
  <2>1. Below(r, q)
    BY <1>9 DEF TreeInv, OwnInv
  <2>2. Within(q, n1)
    BY <1>1, <2>1 DEF Below
  <2>3. IsPid(q) /\ q[Len(q)] <= n1[2]
    BY <1>9, <2>2, IsAPid, WithinIs
  <2>4. Apart(q, c)
    <3> HIDE DEF n1, n2, n
    <3>1. q[Len(q)] < c[2]
      BY <1>3, <1>4, <2>3 DEF IsPid
    <3> QED  BY <3>1 DEF Apart
  <2> QED  BY <1>6, <1>a, <2>2, <2>4 DEF Below
<1>10. OwnInv' /\ Nested'
  BY <1>4, <1>5, <1>6, <1>7, <1>8, <1>9, TreeGrows DEF TreeInv
<1>11. ShellHolds'
  <2>1. CASE p = Shell
    <3>1. r.held = IF Op(r.line, n) = "|" THEN Ends(PipeOf(r)) ELSE {}
      BY <1>1, <2>1 DEF TreeInv, ShellHolds
    <3>2. PipeOf(r2) = PipeOf(r)
      BY <1>6 DEF PipeOf
    <3>3. procs'[Shell] = r2
      BY <1>7, <2>1
    <3> QED  BY <1>2, <1>6, <1>a, <3>1, <3>2, <3>3 DEF ShellHolds
  <2>2. CASE p # Shell
    <3>1. procs'[Shell] = procs[Shell]
      BY <1>4, <1>7, <2>2 DEF ProcsInv
    <3> QED  BY <3>1, OthersHold
  <2> QED  BY <2>1, <2>2
<1> QED  BY <1>10, <1>11 DEF TreeInv

LEMMA ClosePipeTree ==
  ASSUME ProcsInv, TreeInv, NEW p \in DOMAIN procs, ClosePipe(p)
  PROVE  TreeInv'
<1> DEFINE r == procs[p]
           r2 == [r EXCEPT !.pc = "wait1", !.held = @ \ Closed(Pid(p, Node(p)))]
<1>1. r.pc = "close" /\ Becomes(p, r2)
  BY DEF ClosePipe
<1>2. DOMAIN r = Fields /\ PipeOf(r) = Pid(p, Node(p)) /\ Op(r.line, Top(r)) = "|"
  BY <1>1, AtNode, ProcIs DEF Evaluating, PlaceInv
<1>3. /\ r2.pc = "wait1" /\ Top(r2) = Top(r) /\ r2.line = r.line /\ r2.no = r.no
      /\ r2.held = r.held \ Ends(PipeOf(r))
  BY <1>2 DEF Fields, Top, Closed
<1> HIDE DEF r2
<1>4. /\ DOMAIN procs' = DOMAIN procs /\ procs'[p] = r2
      /\ \A q \in DOMAIN procs \ {p} : procs'[q] = procs[q]
  BY <1>1 DEF Becomes
<1>5. \A q : Below(r, q) => Below(r2, q)
  BY <1>1, <1>3 DEF Below
<1>6. OwnInv' /\ Nested'
  BY <1>4, <1>5, TreeShrinks DEF TreeInv
<1>7. ShellHolds'
  <2>1. CASE p = Shell
    <3>1. r.held = Ends(PipeOf(r))
      BY <1>1, <1>2, <2>1 DEF TreeInv, ShellHolds
    <3>2. r2.held = {}
      BY <1>3, <3>1
    <3> QED  BY <1>3, <1>4, <2>1, <3>2 DEF ShellHolds
  <2>2. CASE p # Shell
    BY <1>4, <2>2, OthersHold DEF ProcsInv
  <2> QED  BY <2>1, <2>2
<1> QED  BY <1>6, <1>7 DEF TreeInv

(* What has ended has left nothing behind.                                 *)
LEMMA NothingLeft ==
  ASSUME ProcsInv, OwnInv, NEW c \in DOMAIN procs, IsPid(c), Len(c) = 3, c # Shell,
         procs[c].pc \in Alone, NEW q \in DOMAIN procs \ {Shell, c}
  PROVE  ~Within(q, Scope(c))
<1>1. Covers(c, q) => Below(procs[c], q)
  BY DEF OwnInv
<1> QED  BY <1>1, NoneBelow DEF Covers

LEMMA WaitedFor ==
  ASSUME ProcsInv, TreeInv, NEW p \in DOMAIN procs, procs[p].pc \in {"wait", "wait1", "wait2"},
         NEW c, NEW r, Wait(p, c, r), c # Shell,
         \A q \in DOMAIN procs \ {Shell, c} : Below(procs[p], q) => Below(r, q),
         r.pc \notin {"fork2", "close"}, r.held = procs[p].held \/ r.held = {}
  PROVE  TreeInv'
<1>1. c # p
  BY DEF Wait, Alive
<1>2. /\ DOMAIN procs' = DOMAIN procs \ {c} /\ p \in DOMAIN procs' /\ procs'[p] = r
      /\ \A q \in DOMAIN procs' \ {p} : procs'[q] = procs[q]
  BY <1>1 DEF Wait
<1>3. OwnInv' /\ Nested'
  BY <1>2, TreeShrinks DEF TreeInv
<1>4. ShellHolds'
  <2>1. CASE p = Shell
    <3>1. procs[Shell].held = {}
      BY <2>1 DEF TreeInv, ShellHolds
    <3> QED  BY <1>2, <2>1, <3>1 DEF ShellHolds
  <2>2. CASE p # Shell
    BY <1>2, <2>2, OthersHold DEF ProcsInv
  <2> QED  BY <2>1, <2>2
<1> QED  BY <1>3, <1>4 DEF TreeInv

LEMMA WaitCommandTree ==
  ASSUME ProcsInv, TreeInv, NEW p \in DOMAIN procs, WaitCommand(p)
  PROVE  TreeInv'
<1> DEFINE r == procs[p]
           c == CommandPid(p)
           r2 == Returns(r, procs[c].status)
<1>1. r.pc = "wait" /\ Wait(p, c, r2)
  BY DEF WaitCommand
<1>2. DOMAIN r = Fields /\ r.left \in Int /\ c = <<r.no, Top(r)[1]>>
  BY <1>1, AtNode DEF Evaluating
<1>3. r2.pc = "return" /\ r2.held = r.held
  BY <1>2, ReturnsIs
<1>4. c # Shell
  BY <1>2 DEF Shell
<1> HIDE DEF r2
<1>5. \A q \in DOMAIN procs \ {Shell, c} : ~Below(r, q)
  BY <1>1, <1>2 DEF Below
<1> QED  BY <1>1, <1>3, <1>4, <1>5, WaitedFor

LEMMA WaitOperand1Tree ==
  ASSUME ProcsInv, TreeInv, NEW p \in DOMAIN procs, WaitOperand1(p)
  PROVE  TreeInv'
<1> DEFINE r == procs[p]
           n1 == Cmd1(r.line, Top(r))
           c == Pid(p, Operand(p, 1))
           r2 == [r EXCEPT !.pc = "wait2"]
<1>1. r.pc = "wait1" /\ Wait(p, c, r2)
  BY DEF WaitOperand1
<1>2. DOMAIN r = Fields /\ c = <<lineNo, n1[1], n1[2]>> /\ lineNo \in Nat
  BY <1>1, AtNode DEF Evaluating
<1>3. n1[1] \in Nat /\ n1[2] \in Nat /\ n1[1] <= n1[2]
  BY <1>1, OperandsOf
<1>4. r2.pc = "wait2" /\ r2.held = r.held /\ Top(r2) = Top(r) /\ r2.line = r.line
  BY <1>2 DEF Fields, Top
<1> HIDE DEF r2, c, n1
<1>5. IsPid(c) /\ Len(c) = 3 /\ c # Shell /\ Scope(c)[1] = n1[1] /\ Scope(c)[2] = n1[2]
  BY <1>2, <1>3, CopyIsPid
<1>6. c \in DOMAIN procs /\ procs[c].pc \in Alone
  BY <1>1 DEF Wait, Alive, Alone
<1>7. ASSUME NEW q \in DOMAIN procs \ {Shell, c}, Below(r, q) PROVE Below(r2, q)
  <2>1. ~Within(q, Scope(c))
    BY <1>5, <1>6, NothingLeft DEF TreeInv
  <2>2. IsPid(q)
    BY IsAPid
  <2>3. ~Within(q, n1)
    BY <1>5, <2>1, <2>2, WithinIs
  <2> QED  BY <1>1, <1>4, <1>7, <2>3 DEF Below, n1
<1> QED  BY <1>1, <1>4, <1>5, <1>7, WaitedFor

LEMMA WaitOperand2Tree ==
  ASSUME ProcsInv, TreeInv, NEW p \in DOMAIN procs, WaitOperand2(p)
  PROVE  TreeInv'
<1> DEFINE r == procs[p]
           n2 == Cmd2(r.line, Top(r))
           c == Pid(p, Operand(p, 2))
<1>1. PICK r2 : r.pc = "wait2" /\ Wait(p, c, r2) /\ \E s : r2 = Returns(r, s) \/ r2 = Exits(r, s)
  <2> DEFINE r3 == IF NodeOp(p) = "&" THEN Returns(r, 0)
                   ELSE IF procs[c].pc = "killed" THEN Exits(r, Failure)
                   ELSE Returns(r, procs[c].status)
  <2>1. r.pc = "wait2" /\ Wait(p, c, r3)
    BY DEF WaitOperand2
  <2>2. \E s : r3 = Returns(r, s) \/ r3 = Exits(r, s)
    OBVIOUS
  <2> HIDE DEF r3
  <2> QED  BY <2>1, <2>2
<1>2. DOMAIN r = Fields /\ r.left \in Int /\ c = <<lineNo, n2[1], n2[2]>> /\ lineNo \in Nat
  BY <1>1, AtNode DEF Evaluating
<1>3. n2[1] \in Nat /\ n2[2] \in Nat /\ n2[1] <= n2[2]
  BY <1>1, OperandsOf
<1>4. r2.pc \in {"return", "exited"} /\ (r2.held = r.held \/ r2.held = {})
  BY <1>1, <1>2, ReturnsIs, ExitsIs
<1> HIDE DEF c, n2
<1>5. IsPid(c) /\ Len(c) = 3 /\ c # Shell /\ Scope(c)[1] = n2[1] /\ Scope(c)[2] = n2[2]
  BY <1>2, <1>3, CopyIsPid
<1>6. c \in DOMAIN procs /\ procs[c].pc \in Alone
  BY <1>1 DEF Wait, Alive, Alone
<1>7. ASSUME NEW q \in DOMAIN procs \ {Shell, c} PROVE ~Below(r, q)
  <2>1. ~Within(q, Scope(c))
    BY <1>5, <1>6, NothingLeft DEF TreeInv
  <2>2. IsPid(q)
    BY IsAPid
  <2>3. ~Within(q, n2)
    BY <1>5, <2>1, <2>2, WithinIs
  <2> QED  BY <1>1, <2>3 DEF Below, n2
<1> QED  BY <1>1, <1>4, <1>5, <1>7, WaitedFor

LEMMA CommandStepTree ==
  ASSUME ProcsInv, TreeInv, NEW p \in DOMAIN procs, CommandStep(p) \/ SetUpEnd(p)
  PROVE  TreeInv'
<1>1. /\ procs[p].pc \in {"setup", "exec", "run"} /\ \E x : Becomes(p, x)
  <2>1. CASE SetUpEnd(p)
    BY <2>1 DEF SetUpEnd
  <2>2. CASE ExecCommand(p)
    BY <2>2 DEF ExecCommand
  <2>3. CASE ReadUnit(p)
    BY <2>3 DEF ReadUnit
  <2>4. CASE SeeEnd(p)
    BY <2>4 DEF SeeEnd
  <2>5. CASE WriteUnit(p)
    BY <2>5 DEF WriteUnit
  <2>6. CASE BrokenPipe(p)
    BY <2>6 DEF BrokenPipe
  <2>7. CASE Terminate(p)
    BY <2>7 DEF Terminate
  <2> QED  BY <2>1, <2>2, <2>3, <2>4, <2>5, <2>6, <2>7 DEF CommandStep
<1>2. p # Shell /\ procs[p].pc \in Alone
  <2>1. PidInv(p, procs[p], lineNo)
    BY ProcIs
  <2>2. \A a, b, c : Shell # <<a, b, c>> /\ Shell # <<a, b>>
    BY DEF Shell
  <2>3. p # Shell
    BY <1>1, <2>1, <2>2 DEF PidInv
  <2> QED  BY <1>1, <2>3 DEF Alone
<1>3. PICK x : Becomes(p, x)
  BY <1>1
<1> QED  BY <1>2, <1>3, TreeStays

LEMMA BuiltinTree ==
  ASSUME ProcsInv, TreeInv, NEW p \in DOMAIN procs, Builtin(p)
  PROVE  TreeInv'
<1> DEFINE r == procs[p]
<1>1. r.pc = "eval" /\ r.pc \in Alone
  BY DEF Builtin, Alone
<1>2. DOMAIN r = Fields /\ r.left \in Int
  BY <1>1, AtNode DEF Evaluating
<1>3. PICK x, s : \/ Becomes(p, Returns([r EXCEPT !.cwd = x], s))
                  \/ Becomes(p, Returns([r EXCEPT !.env = x], s))
                  \/ Becomes(p, Returns(r, s)) \/ Becomes(p, Exits(r, 0))
  <2>1. CASE ShellCd(p)
    BY <2>1 DEF ShellCd
  <2>2. CASE ShellPwd(p)
    BY <2>2 DEF ShellPwd
  <2>3. CASE SetVariable(p)
    BY <2>3 DEF SetVariable
  <2>4. CASE ShellExit(p)
    BY <2>4 DEF ShellExit
  <2> QED  BY <2>1, <2>2, <2>3, <2>4 DEF Builtin
<1>4. PICK r2 : Becomes(p, r2) /\ r2.pc \in {"return", "exited"} /\ (r2.held = r.held \/ r2.held = {})
  <2>1. \A t \in {r, [r EXCEPT !.cwd = x], [r EXCEPT !.env = x]} :
          Returns(t, s).pc = "return" /\ Returns(t, s).held = r.held
    BY <1>2 DEF Returns, Fields
  <2>2. Exits(r, 0).pc = "exited" /\ Exits(r, 0).held = {}
    BY <1>2, ExitsIs
  <2> QED  BY <1>3, <2>1, <2>2
<1>5. r2.pc \in Alone
  BY <1>4 DEF Alone
<1> QED  BY <1>1, <1>4, <1>5, TreeStays

LEMMA EvalCmd1Tree ==
  ASSUME ProcsInv, TreeInv, NEW p \in DOMAIN procs, EvalCmd1(p)
  PROVE  TreeInv'
<1> DEFINE r == procs[p]
           r2 == [r EXCEPT !.path = Append(@, Operand(p, 1))]
<1>1. r.pc = "eval" /\ Becomes(p, r2)
  BY DEF EvalCmd1
<1>2. r2.pc = r.pc /\ r2.held = r.held
  OBVIOUS
<1> HIDE DEF r2
<1>3. r.pc \in Alone
  BY <1>1 DEF Alone
<1> QED  BY <1>1, <1>2, <1>3, TreeStays

LEMMA ReturnFromCommandTree ==
  ASSUME ProcsInv, TreeInv, NEW p \in DOMAIN procs, ReturnFromCommand(p)
  PROVE  TreeInv'
<1> DEFINE r == procs[p]
           depth == Len(r.path)
           above == r.path[depth - 1]
           onward == Node(p) = Cmd1(r.line, above) /\ RunsCmd2(Op(r.line, above), r.status)
           r1 == IF p = Shell THEN [r EXCEPT !.pc = "free", !.path = <<>>] ELSE Exits(r, r.status)
           r2 == [r EXCEPT !.pc = "eval", !.path = ThenCmd2(@, Cmd2(r.line, above))]
           r3 == [r EXCEPT !.path = SubSeq(@, 1, depth - 1)]
           r4 == IF depth = 1 THEN r1 ELSE IF onward THEN r2 ELSE r3
<1>1. r.pc = "return" /\ Becomes(p, r4)
  BY DEF ReturnFromCommand
<1>2. DOMAIN r = Fields /\ r.left \in Int
  BY <1>1, AtNode DEF Evaluating
<1>3. r1.pc \in {"free", "exited"} /\ (r1.held = r.held \/ r1.held = {})
  BY <1>2, ExitsIs DEF Fields
<1>4. r2.pc = "eval" /\ r2.held = r.held /\ r3.pc = r.pc /\ r3.held = r.held
  BY <1>2 DEF Fields
<1> HIDE DEF r1, r2, r3, onward
<1>5. r4.pc \in Alone /\ (r4.held = r.held \/ r4.held = {})
  BY <1>1, <1>3, <1>4 DEF Alone
<1>6. r.pc \in Alone
  BY <1>1 DEF Alone
<1> HIDE DEF r4
<1> QED  BY <1>1, <1>5, <1>6, TreeStays

LEMMA MainLoopTree ==
  ASSUME ProcsInv, TreeInv, EndOfInput \/ FreeParseMemory \/ (\E l \in Lines : ReadLine(l))
  PROVE  TreeInv'
<1> DEFINE s == procs[Shell]
<1>1. Shell \in DOMAIN procs /\ DOMAIN s = Fields /\ s.left \in Int
  BY ProcIs DEF ProcsInv, PlaceInv
<1>2. CASE EndOfInput
  <2> DEFINE r == Exits(s, 0)
  <2>1. s.pc = "prompt" /\ Becomes(Shell, r)
    BY <1>2 DEF EndOfInput
  <2>2. r.pc = "exited" /\ r.held = {}
    BY <1>1, ExitsIs
  <2> HIDE DEF r
  <2>3. s.pc \in Alone /\ r.pc \in Alone
    BY <2>1, <2>2 DEF Alone
  <2> QED  BY <1>1, <2>1, <2>2, <2>3, TreeStays
<1>3. CASE FreeParseMemory
  <2> DEFINE r == [s EXCEPT !.pc = IF freed THEN "killed" ELSE "prompt", !.status = 0,
                            !.line = NoLine, !.no = 0]
  <2>1. s.pc = "free" /\ Becomes(Shell, r)
    BY <1>3 DEF FreeParseMemory
  <2>2. r.pc \in {"killed", "prompt"} /\ r.held = s.held
    BY <1>1 DEF Fields
  <2> HIDE DEF r
  <2>3. s.pc \in Alone /\ r.pc \in Alone
    BY <2>1, <2>2 DEF Alone
  <2> QED  BY <1>1, <2>1, <2>2, <2>3, TreeStays
<1>4. ASSUME NEW l \in Lines, ReadLine(l) PROVE TreeInv'
  <2> DEFINE r == [s EXCEPT !.pc = "eval", !.path = <<Root(l)>>, !.no = lineNo + 1, !.line = l,
                            !.was = [cwd |-> s.cwd, env |-> s.env]]
  <2>1. s.pc = "prompt" /\ Becomes(Shell, r)
    BY <1>4 DEF ReadLine
  <2>2. r.pc = "eval" /\ r.held = s.held
    BY <1>1 DEF Fields
  <2> HIDE DEF r
  <2>3. s.pc \in Alone /\ r.pc \in Alone
    BY <2>1, <2>2 DEF Alone
  <2> QED  BY <1>1, <2>1, <2>2, <2>3, TreeStays
<1> QED  BY <1>2, <1>3, <1>4

-----------------------------------------------------------------------------
(* The invariant, and what it says.                                        *)
LEMMA InitHasShellInv == Init => ShellInv
<1> SUFFICES ASSUME Init PROVE ShellInv
  OBVIOUS
<1> DEFINE s == procs[Shell]
<1>1. /\ DOMAIN procs = {Shell} /\ DOMAIN s = Fields /\ s.pc = "prompt" /\ s.path = <<>> /\ s.no = 0
      /\ s.in = Tty /\ s.out = Tty /\ s.held = {} /\ s.left = 0
  BY DEF Init, Fields
<1>2. pipes = <<>> /\ lineNo = 0 /\ fails = 0 /\ freed = FALSE /\ DOMAIN pipes = {}
  BY DEF Init
<1>3. ProcInv(Shell, s, 0, {})
  <2>1. StackInv(s)
    BY <1>1 DEF StackInv
  <2>2. PlaceInv(s, 0)
    BY <1>1 DEF PlaceInv, Pcs, Evaluating
  <2>3. PidInv(Shell, s, 0)
    BY <1>1 DEF PidInv
  <2>4. FdInv(Shell, s, {})
    BY <1>1 DEF FdInv, IsPipe, Tty, Ended
  <2> QED  BY <2>1, <2>2, <2>3, <2>4 DEF ProcInv
<1>4. ProcsInv
  <2>1. \A p \in DOMAIN procs : ProcInv(p, procs[p], lineNo, DOMAIN pipes)
    BY <1>1, <1>2, <1>3
  <2>2. PipesInv
    BY <1>2 DEF PipesInv
  <2>3. fails \in 0..MaxFails
    BY <1>2, BoundsAssumption
  <2>4. freed \in BOOLEAN /\ lineNo \in Nat
    BY <1>2
  <2>5. Shell \in DOMAIN procs
    BY <1>1
  <2> QED  BY <2>1, <2>2, <2>3, <2>4, <2>5 DEF ProcsInv
<1>5. TreeInv
  BY <1>1 DEF TreeInv, OwnInv, Nested, ShellHolds
<1> QED  BY <1>4, <1>5 DEF ShellInv

LEMMA NextKeepsShellInv ==
  ASSUME ShellInv, [Next]_vars
  PROVE  ShellInv'
<1>1. ProcsInv /\ (fails = 0 => TreeInv) /\ fails \in Nat
  BY BoundsAssumption DEF ShellInv, ProcsInv
<1>2. ASSUME UNCHANGED vars PROVE ShellInv'
  <2>1. UNCHANGED <<procs, pipes, lineNo, fails, freed>>
    BY <1>2 DEF vars
  <2>2. ProcsInv'
    BY <1>1, <2>1 DEF ProcsInv, PipesInv
  <2>3. ASSUME TreeInv PROVE TreeInv'
    BY <2>1, <2>3 DEF TreeInv, OwnInv, Nested, ShellHolds
  <2> QED  BY <1>1, <2>1, <2>2, <2>3 DEF ShellInv
<1>3. ASSUME NEW l \in Lines, ReadLine(l) PROVE ShellInv'
  <2>1. fails = 0
    BY <1>3 DEF ReadLine
  <2> QED  BY <1>1, <1>3, <2>1, ReadLineProcs, MainLoopTree DEF ShellInv
<1>4. ASSUME EndOfInput \/ FreeParseMemory PROVE ShellInv'
  <2>1. fails' = fails
    BY <1>4 DEF EndOfInput, FreeParseMemory
  <2> QED  BY <1>1, <1>4, <2>1, EndOfInputProcs, FreeParseMemoryProcs, MainLoopTree DEF ShellInv
<1>5. ASSUME NEW p \in DOMAIN procs, ShellStep(p) \/ CommandStep(p) PROVE ShellInv'
  <2>1. CASE Builtin(p)
    <3>1. fails' = fails
      BY <2>1 DEF Builtin
    <3> QED  BY <1>1, <2>1, <3>1, BuiltinProcs, BuiltinTree DEF ShellInv
  <2>2. CASE ForkCommand(p)
    <3>1. fails' = fails \/ fails' = fails + 1
      BY <2>2 DEF ForkCommand, Fork
    <3>2. fails' = 0 => fails = 0 /\ fails' = fails
      BY <1>1, <3>1
    <3> QED  BY <1>1, <2>2, <3>2, ForkCommandProcs, ForkCommandTree DEF ShellInv
  <2>3. CASE WaitCommand(p)
    <3>1. fails' = fails
      BY <2>3 DEF WaitCommand
    <3> QED  BY <1>1, <2>3, <3>1, WaitCommandProcs, WaitCommandTree DEF ShellInv
  <2>4. CASE ForkOperand1(p)
    <3>1. fails' = fails \/ fails' = fails + 1
      BY <2>4 DEF ForkOperand1, Fork
    <3>2. fails' = 0 => fails = 0 /\ fails' = fails
      BY <1>1, <3>1
    <3> QED  BY <1>1, <2>4, <3>2, ForkOperand1Procs, ForkOperand1Tree DEF ShellInv
  <2>5. CASE ForkOperand2(p)
    <3>1. fails' = fails \/ fails' = fails + 1
      BY <2>5 DEF ForkOperand2, Fork
    <3>2. fails' = 0 => fails = 0 /\ fails' = fails
      BY <1>1, <3>1
    <3> QED  BY <1>1, <2>5, <3>2, ForkOperand2Procs, ForkOperand2Tree DEF ShellInv
  <2>6. CASE SetUpEnd(p)
    <3>1. fails' = fails
      BY <2>6 DEF SetUpEnd
    <3> QED  BY <1>1, <2>6, <3>1, SetUpEndProcs, CommandStepTree DEF ShellInv
  <2>7. CASE ClosePipe(p)
    <3>1. fails' = fails
      BY <2>7 DEF ClosePipe
    <3> QED  BY <1>1, <2>7, <3>1, ClosePipeProcs, ClosePipeTree DEF ShellInv
  <2>8. CASE WaitOperand1(p)
    <3>1. fails' = fails
      BY <2>8 DEF WaitOperand1
    <3> QED  BY <1>1, <2>8, <3>1, WaitOperand1Procs, WaitOperand1Tree DEF ShellInv
  <2>9. CASE WaitOperand2(p)
    <3>1. fails' = fails
      BY <2>9 DEF WaitOperand2
    <3> QED  BY <1>1, <2>9, <3>1, WaitOperand2Procs, WaitOperand2Tree DEF ShellInv
  <2>10. CASE EvalCmd1(p)
    <3>1. fails' = fails
      BY <2>10 DEF EvalCmd1
    <3> QED  BY <1>1, <2>10, <3>1, EvalCmd1Procs, EvalCmd1Tree DEF ShellInv
  <2>11. CASE ReturnFromCommand(p)
    <3>1. fails' = fails
      BY <2>11 DEF ReturnFromCommand
    <3> QED  BY <1>1, <2>11, <3>1, ReturnFromCommandProcs, ReturnFromCommandTree DEF ShellInv
  <2>12. CASE CommandStep(p)
    <3>1. fails' = fails
      BY <2>12 DEF CommandStep, ExecCommand, ReadUnit, SeeEnd, WriteUnit, BrokenPipe, Terminate
    <3>2. ProcsInv'
      BY <1>1, <2>12, ExecCommandProcs, ReadUnitProcs, SeeEndProcs, WriteUnitProcs, CommandEnds
         DEF CommandStep
    <3> QED  BY <1>1, <2>12, <3>1, <3>2, CommandStepTree DEF ShellInv
  <2> QED  BY <1>5, <2>1, <2>2, <2>3, <2>4, <2>5, <2>6, <2>7, <2>8, <2>9, <2>10, <2>11, <2>12 DEF ShellStep
<1> QED  BY <1>2, <1>3, <1>4, <1>5 DEF Next, Run

\* In every state the processes, their descriptors and the pipes are as the code
\* of src/cmd.c leaves them, whatever forks failed; and while none has, a process
\* has others below it only where it waits for them or is about to.
THEOREM ShellInvariant == Spec => []ShellInv
<1> QED  BY InitHasShellInv, NextKeepsShellInv, PTL DEF Spec

\* Every process is at a point of src/cmd.c or src/main.c, the calls of
\* parse_command on its stack are a path of the tree of its line, the ends it
\* holds are of pipes that exist, and no pipe holds more than it can: for any
\* lines, any commands and any number of failed forks.
THEOREM TypeCorrect == Spec => []TypeOK
<1>1. ASSUME ShellInv PROVE TypeOK
  <2>1. ProcsInv
    BY <1>1 DEF ShellInv
  <2>2. ASSUME NEW p \in DOMAIN procs
        PROVE  LET r == procs[p] IN
               /\ r.pc \in Pcs /\ r.no \in 0..lineNo
               /\ \A k \in 1..(Len(r.path) - 1) :
                    /\ ~IsLeaf(r.path[k])
                    /\ r.path[k + 1] \in {Cmd1(r.line, r.path[k]), Cmd2(r.line, r.path[k])}
               /\ r.held \subseteq UNION {Ends(e) : e \in DOMAIN pipes}
               /\ Alive(p) => \A fd \in {r.in, r.out} : IsPipe(fd) => fd \in DOMAIN pipes
    <3>1. /\ StackInv(procs[p]) /\ PlaceInv(procs[p], lineNo) /\ FdInv(p, procs[p], DOMAIN pipes)
      BY <2>1, ProcIs
    <3> QED  BY <3>1 DEF StackInv, PlaceInv, FdInv, Alive, Ended
  <2>3. \A e \in DOMAIN pipes : Len(pipes[e]) <= PipeCap
    BY <2>1 DEF ProcsInv, PipesInv
  <2> QED  BY <2>1, <2>2, <2>3 DEF TypeOK, ProcsInv
<1> QED  BY <1>1, ShellInvariant, PTL

\* The shell and its copies wait for everything they start (run_on_pipe and
\* run_in_parallel for both children, parse_simple for the command): nothing of
\* the left operand of `;`, `&&` or `||` still runs while the right one does, and
\* back at the prompt the shell is alone and holds no end of a pipe, as long as
\* no fork has failed.
THEOREM EverythingIsWaitedFor == Spec => []NothingOutlives
<1>1. ASSUME ShellInv PROVE NothingOutlives
  <2>1. ProcsInv /\ (fails = 0 => TreeInv)
    BY <1>1 DEF ShellInv
  <2>2. CleanAtPrompt
    BY <2>1, AloneAtPrompt DEF CleanAtPrompt
  <2>3. ASSUME fails = 0, NEW p \in DOMAIN procs, NEW k \in 1..(Len(procs[p].path) - 1),
               Alive(p), procs[p].path[k + 1] = Cmd2(procs[p].line, procs[p].path[k]),
               NEW q \in DOMAIN procs \ {Shell}, Within(q, Cmd1(procs[p].line, procs[p].path[k]))
        PROVE  FALSE
    <3> DEFINE r == procs[p]
               d == Len(r.path)
               n == r.path[k]
               n1 == Cmd1(r.line, n)
               n2 == Cmd2(r.line, n)
    <3>1. StackInv(r) /\ PlaceInv(r, lineNo) /\ r.path \in Seq(NodesOf(r.line)) /\ d \in Nat /\ d > 1
      <4>1. StackInv(r) /\ PlaceInv(r, lineNo)
        BY <2>1, ProcIs
      <4>2. r.path \in Seq(NodesOf(r.line)) /\ d \in Nat
        BY <4>1 DEF StackInv
      <4> HIDE DEF d
      <4>3. d > 1
        BY <2>3, <4>2 DEF d
      <4> QED  BY <4>1, <4>2, <4>3
    <3>2. r.path # <<>> /\ r.line \in Lines
      <4>1. r.path # <<>>
        BY <3>1
      <4> QED  BY <3>1, <4>1 DEF PlaceInv
    <3>3. /\ k \in 1..d /\ k + 1 \in 1..d /\ 1 \in 1..d /\ d \in 1..d /\ 1 <= k /\ k + 1 <= d
          /\ k \in 1..(d - 1)
      <4> HIDE DEF d
      <4>1. k \in 1..(d - 1)
        BY <2>3 DEF d
      <4> QED  BY <3>1, <4>1
    <3>4. /\ n \in NodesOf(r.line) /\ r.path[1] \in NodesOf(r.line) /\ Top(r) \in NodesOf(r.line)
          /\ Sub(n, r.path[1]) /\ Sub(Top(r), n2) /\ ~IsLeaf(n)
      <4>1. n \in NodesOf(r.line) /\ r.path[1] \in NodesOf(r.line) /\ r.path[d] \in NodesOf(r.line)
        BY <3>1, <3>3
      <4>2. Sub(r.path[k], r.path[1]) /\ Sub(r.path[d], r.path[k + 1])
        BY <3>1, <3>3 DEF StackInv
      <4>3. ~IsLeaf(n)
        BY <3>1, <3>3 DEF StackInv
      <4> QED  BY <2>3, <4>1, <4>2, <4>3 DEF Top
    <3>5. /\ n1 \in NodesOf(r.line) /\ n2 \in NodesOf(r.line) /\ Sub(n1, n) /\ n1[2] < n2[1]
      BY <3>2, <3>4, OperandsAre
    <3>6. IsPid(q) /\ n1[1] <= q[2] /\ q[Len(q)] <= n1[2]
      BY <2>1, <2>3, IsAPid, WithinIs
    <3> DEFINE t == Top(r)
               f == r.path[1]
    <3> HIDE DEF t, f, n, n1, n2, d, r
    <3>7. /\ t[1] \in Nat /\ t[2] \in Nat /\ t[1] <= t[2] /\ f[1] \in Nat /\ f[2] \in Nat
          /\ n1[1] \in Nat /\ n1[2] \in Nat /\ n2[1] \in Nat /\ n2[2] \in Nat
          /\ n[1] \in Nat /\ n[2] \in Nat
      BY <3>4, <3>5, NodeIs DEF t, f
    <3>8. /\ f[1] <= n1[1] /\ n1[2] <= f[2] /\ n1[2] < t[1] /\ t[2] <= f[2]
      <4>1. Sub(t, f)
        BY <3>1, <3>2, TopIs DEF t, f
      <4>2. Sub(n, f) /\ Sub(t, n2) /\ Sub(n1, n) /\ n1[2] < n2[1]
        BY <3>4, <3>5 DEF t, f
      <4>3. f[1] <= n[1] /\ n[2] <= f[2] /\ n2[1] <= t[1] /\ n[1] <= n1[1] /\ n1[2] <= n[2] /\ t[2] <= f[2]
        BY <4>1, <4>2 DEF Sub
      <4> QED  BY SMTT(30), <3>7, <4>2, <4>3
    <3>9. ASSUME p # Shell
          PROVE  Len(p) = 3 /\ Scope(p) = f /\ p[Len(p)] = f[2]
      <4>1. /\ Len(p) \in 1..3 /\ Len(p) # 1 /\ Scope(p) = f /\ (Len(p) = 2 => d = 1)
        BY <2>1, <3>9, PidIs DEF f, r, d
      <4>2. Len(p) # 2
        BY <3>1, <4>1
      <4>3. \A x \in 1..3 : x # 1 /\ x # 2 => x = 3
        OBVIOUS
      <4>4. Scope(p)[2] = p[Len(p)]
        BY DEF Scope
      <4> QED  BY <4>1, <4>2, <4>3, <4>4
    <3>10. q # p
      <4>1. CASE p = Shell
        BY <2>3, <4>1
      <4>2. CASE p # Shell /\ q = p
        <5>1. f[2] <= n1[2]
          BY <3>6, <3>9, <4>2
        <5> QED  BY <3>7, <3>8, <5>1
      <4> QED  BY <4>1, <4>2
    <3>11. Covers(p, q)
      <4>0. q[2] \in Nat /\ q[Len(q)] \in Nat
        BY <3>6 DEF IsPid
      <4>1. f[1] <= q[2] /\ q[Len(q)] <= f[2]
        <5>1. \A x, y \in Nat : n1[1] <= x /\ y <= n1[2] => f[1] <= x /\ y <= f[2]
          BY SMTT(30), <3>7, <3>8
        <5> QED  BY <3>6, <4>0, <5>1
      <4>2. Within(q, f)
        BY <3>6, <4>1, WithinIs
      <4> QED  BY <3>9, <4>2 DEF Covers
    <3>12. Below(r, q)
      BY <2>1, <2>3, <3>10, <3>11 DEF TreeInv, OwnInv, r
    <3>13. t[1] <= q[2]
      <4>1. CASE r.pc \in {"fork2", "close", "wait1", "wait2"}
        <5> DEFINE a == Cmd1(r.line, t)
                   b == Cmd2(r.line, t)
        <5>1. a[1] \in Nat /\ b[1] \in Nat /\ t[1] <= a[1] /\ t[1] < b[1]
          BY <2>1, <4>1, OperandsOf DEF r, t
        <5>2. Within(q, a) \/ Within(q, b)
          BY <3>12, <4>1 DEF Below, t
        <5> HIDE DEF a, b
        <5>3. a[1] <= q[2] \/ b[1] <= q[2]
          BY <3>6, <5>2, WithinIs
        <5>4. \A x \in Nat : a[1] <= x \/ b[1] <= x => t[1] <= x
          BY SMTT(30), <3>7, <5>1
        <5>5. q[2] \in Nat
          BY <3>6 DEF IsPid
        <5> QED  BY <5>3, <5>4, <5>5
      <4>2. CASE r.pc \notin {"fork2", "close", "wait1", "wait2"}
        <5>1. q = <<r.no, t[1]>>
          BY <3>12, <4>2 DEF Below, t
        <5>2. q[2] = t[1]
          BY <5>1
        <5> QED  BY <3>7, <5>2
      <4> QED  BY <4>1, <4>2
    <3> QED  BY SMTT(30), <3>6, <3>7, <3>8, <3>13 DEF IsPid
  <2> QED  BY <2>2, <2>3 DEF NothingOutlives, LeftIsOver
<1> QED  BY <1>1, ShellInvariant, PTL

-----------------------------------------------------------------------------
(* The pipes of a line.  A pipe is named after the node it was made for.   *)
(* The invariant FlowInv has six parts: which descriptors a process has at *)
(* its node (WiringsInv), that no process is where another is still to     *)
(* come (FrontInv, Nested), that all are about one line (OneLine), that    *)
(* each command has a process that waits for it (ParentInv), and what went *)
(* through each pipe that a process is to read (DataInv).                  *)

(* Where `|` stands in a line: a node that is all pipes is evaluated from  *)
(* the right, its last command first; any other has no pipe at its ends.   *)
Piped(l, k) == k \in 1..Len(l.ops) /\ l.ops[k] = "|"
AllPiped(l, n) == \A k \in n[1]..(n[2] - 1) : Piped(l, k)
Bordered(l, n) == ~Piped(l, n[1] - 1) /\ ~Piped(l, n[2])
Placed(l, n) == /\ IsLeaf(n) \/ ~Piped(l, n[1] - 1)
                /\ AllPiped(l, n) \/ ~Piped(l, n[2])

LEMMA PipeIsLast ==
  ASSUME NEW op \in Operators, op # "|"
  PROVE  Priority[op] < Priority["|"]
<1>1. /\ Priority["|"] = 4 /\ Priority[";"] = 1 /\ Priority["&"] = 2
      /\ Priority["&&"] = 3 /\ Priority["||"] = 3
  BY DEF Priority, Operators
<1>2. op = ";" \/ op = "&" \/ op = "&&" \/ op = "||"
  BY DEF Operators
<1>3. Priority[op] \in {1, 2, 3}
  BY <1>1, <1>2
<1>4. \A x \in {1, 2, 3} : x < 4
  OBVIOUS
<1> QED  BY <1>1, <1>3, <1>4, Zenon

LEMMA PipedOperands ==
  ASSUME NEW l \in Lines, NEW n \in NodesOf(l), Op(l, n) = "|"
  PROVE  AllPiped(l, n) /\ Cmd1(l, n) = <<n[1], n[2] - 1>> /\ Cmd2(l, n) = <<n[2], n[2]>>
<1>1. ~IsLeaf(n)
  BY NotALeaf DEF None
<1> DEFINE s == Split(l, n)
<1>2. /\ s \in n[1]..(n[2] - 1) /\ s \in Lowest(l, n) /\ \A m \in Lowest(l, n) : m <= s
  BY <1>1, SplitIs
<1> HIDE DEF s
<1>3. /\ n[1] \in Nat /\ n[2] \in Nat /\ 1 <= n[1] /\ n[1] < n[2] /\ n[2] <= Len(l.ops) + 1
      /\ l.ops \in Seq(Operators) /\ Len(l.ops) \in Nat
  BY <1>1, LineIs DEF NodesOf, IsLeaf
<1>4. l.ops[s] = "|"
  BY <1>1 DEF Op, s
<1>5. ASSUME NEW k \in n[1]..(n[2] - 1) PROVE Piped(l, k)
  <2>1. k \in 1..Len(l.ops) /\ l.ops[k] \in Operators
    BY <1>3
  <2>2. Priority["|"] <= Priority[l.ops[k]]
    BY <1>2, <1>4 DEF Lowest
  <2>3. l.ops[k] = "|"
    <3>1. Priority["|"] \in Nat /\ Priority[l.ops[k]] \in Nat
      BY <2>1, Precedence DEF Operators
    <3> QED  BY <2>1, <2>2, <3>1, PipeIsLast
  <2> QED  BY <2>1, <2>3 DEF Piped
<1>6. n[2] - 1 \in Lowest(l, n)
  <2>1. n[2] - 1 \in n[1]..(n[2] - 1)
    BY <1>3
  <2>2. l.ops[n[2] - 1] = "|" /\ \A m \in n[1]..(n[2] - 1) : l.ops[m] = "|"
    BY <1>5, <2>1 DEF Piped
  <2>3. \A m \in n[1]..(n[2] - 1) : Priority[l.ops[n[2] - 1]] <= Priority[l.ops[m]]
    <3>1. Priority["|"] \in Nat
      BY Precedence DEF Operators
    <3> QED  BY <2>1, <2>2, <3>1
  <2> QED  BY <2>1, <2>3 DEF Lowest
<1>7. s = n[2] - 1
  BY <1>2, <1>3, <1>6
<1>8. Cmd1(l, n) = <<n[1], n[2] - 1>> /\ Cmd2(l, n) = <<n[2], n[2]>>
  BY <1>3, <1>7 DEF Cmd1, Cmd2, s
<1> QED  BY <1>5, <1>8 DEF AllPiped

LEMMA OperandsPlaced ==
  ASSUME NEW l \in Lines, NEW n \in NodesOf(l), Placed(l, n), ~IsLeaf(n)
  PROVE  /\ Op(l, n) # "|" => Bordered(l, n) /\ Bordered(l, Cmd1(l, n)) /\ Bordered(l, Cmd2(l, n))
         /\ Placed(l, Cmd1(l, n)) /\ Placed(l, Cmd2(l, n))
         /\ ~Piped(l, n[1] - 1)
<1>1. ~Piped(l, n[1] - 1)
  BY DEF Placed
<1>2. /\ n[1] \in Nat /\ n[2] \in Nat /\ 1 <= n[1] /\ n[1] < n[2] /\ n[2] <= Len(l.ops) + 1
      /\ l.ops \in Seq(Operators) /\ Len(l.ops) \in Nat
  BY LineIs DEF NodesOf, IsLeaf
<1>3. CASE Op(l, n) # "|"
  <2> DEFINE s == Split(l, n)
  <2>1. s \in n[1]..(n[2] - 1) /\ l.ops[s] # "|"
    BY <1>3, SplitIs DEF Op
  <2> HIDE DEF s
  <2>2. ~Piped(l, s) /\ ~AllPiped(l, n)
    BY <2>1 DEF Piped, AllPiped
  <2>3. ~Piped(l, n[2])
    BY <2>2 DEF Placed
  <2>4. Bordered(l, n) /\ Bordered(l, Cmd1(l, n)) /\ Bordered(l, Cmd2(l, n))
    <3>1. Cmd1(l, n) = <<n[1], s>> /\ Cmd2(l, n) = <<s + 1, n[2]>> /\ (s + 1) - 1 = s
      BY <1>2, <2>1 DEF Cmd1, Cmd2, s
    <3> QED  BY <1>1, <2>2, <2>3, <3>1 DEF Bordered
  <2> QED  BY <1>1, <1>3, <2>4 DEF Placed, Bordered
<1>4. CASE Op(l, n) = "|"
  <2>1. AllPiped(l, n) /\ Cmd1(l, n) = <<n[1], n[2] - 1>> /\ Cmd2(l, n) = <<n[2], n[2]>>
    BY <1>4, PipedOperands
  <2>2. AllPiped(l, <<n[1], n[2] - 1>>) /\ AllPiped(l, <<n[2], n[2]>>)
    BY <1>2, <2>1 DEF AllPiped
  <2> QED  BY <1>1, <1>4, <2>1, <2>2 DEF Placed, IsLeaf
<1> QED  BY <1>3, <1>4

(* The pipe into command b begins with the first command of its pipeline.  *)
Starts(l, a, i) == a \in 1..i /\ AllPiped(l, <<a, i>>) /\ ~Piped(l, a - 1)
Into(l, no, e, b) ==
  Piped(l, b - 1) /\ \E a \in 1..(b - 1) : Starts(l, a, b - 1) /\ e = <<no, a, b>>

LEMMA IntoIs ==
  ASSUME NEW l, NEW no, NEW e, NEW b, Into(l, no, e, b)
  PROVE  IsPipe(e) /\ e # Tty /\ e[1] = no /\ e[3] = b /\ Piped(l, e[3] - 1)
  BY DEF Into, IsPipe, Tty

LEMMA IntoIsUnique ==
  ASSUME NEW l \in Lines, NEW no, NEW b \in Nat, NEW e, Into(l, no, e, b), NEW f, Into(l, no, f, b)
  PROVE  e = f
<1>1. PICK x \in 1..(b - 1) : Starts(l, x, b - 1) /\ e = <<no, x, b>>
  BY DEF Into
<1>2. PICK y \in 1..(b - 1) : Starts(l, y, b - 1) /\ f = <<no, y, b>>
  BY DEF Into
<1>3. ASSUME NEW i \in 1..(b - 1), NEW j \in 1..(b - 1), Starts(l, i, b - 1), Starts(l, j, b - 1), i < j
      PROVE  FALSE
  <2>1. j - 1 \in i..((b - 1) - 1)
    BY <1>3
  <2>2. Piped(l, j - 1)
    BY <1>3, <2>1 DEF Starts, AllPiped
  <2> QED  BY <1>3, <2>2 DEF Starts
<1>4. x = y
  <2>1. ~(x < y) /\ ~(y < x)
    BY <1>1, <1>2, <1>3
  <2> QED  BY <2>1
<1> QED  BY <1>1, <1>2, <1>4

(* The pipe of a node is the one into its last command.                    *)
LEMMA PipeOfNode ==
  ASSUME NEW l \in Lines, NEW n \in NodesOf(l), Placed(l, n), Op(l, n) = "|", NEW no
  PROVE  Into(l, no, <<no, n[1], n[2]>>, n[2])
<1>1. ~IsLeaf(n)
  BY NotALeaf DEF None
<1>2. AllPiped(l, n) /\ ~Piped(l, n[1] - 1)
  BY <1>1, PipedOperands, OperandsPlaced
<1>3. n[1] \in Nat /\ n[2] \in Nat /\ 1 <= n[1] /\ n[1] < n[2]
  BY <1>1, NodeIs DEF IsLeaf
<1>4. Piped(l, n[2] - 1) /\ AllPiped(l, <<n[1], n[2] - 1>>) /\ n[1] \in 1..(n[2] - 1)
  BY <1>2, <1>3 DEF AllPiped
<1> QED  BY <1>2, <1>4 DEF Into, Starts

-----------------------------------------------------------------------------
(* What the standard input and output of r are while it is about node n,   *)
(* until a command redirects them.                                         *)
InputIs(r, n) == IF Piped(r.line, n[1] - 1) THEN Into(r.line, r.no, r.in, n[1]) ELSE r.in = Tty
OutputIs(r, n) == IF Piped(r.line, n[2]) THEN Into(r.line, r.no, r.out, n[2] + 1) ELSE r.out = Tty
Wired(r, n) == InputIs(r, n) /\ OutputIs(r, n)

(* A child of run_on_pipe before dup2.                                     *)
SetUp(r) ==
  \E m \in NodesOf(r.line) :
    /\ Op(r.line, m) = "|" /\ Placed(r.line, m) /\ Wired(r, m)
    /\ r.pipe = <<r.no, m[1], m[2]>>
    /\ r.path = <<Cmd1(r.line, m)>> \/ r.path = <<Cmd2(r.line, m)>>

Redirected(r) ==
  LET c == r.line.cmds[Top(r)[1]] IN
  /\ InputIs(r, Top(r)) \/ (c.in # None /\ ~IsPipe(r.in))
  /\ OutputIs(r, Top(r)) \/ (c.out # None /\ ~IsPipe(r.out))

PartsInv(r) ==
  \A k \in 1..Len(r.path) : /\ Placed(r.line, r.path[k])
                            /\ Len(r.path) > 1 => Bordered(r.line, r.path[k])
Settled == (Evaluating \ {"setup"}) \cup {"exec"}
WiresInv(r) ==
  /\ r.pc = "setup" => SetUp(r)
  /\ r.pc \in Settled => Wired(r, Top(r))
  /\ r.pc = "run" => Redirected(r)

WiringInv(p, r) ==
  /\ r.got \in Contents /\ (r.pc \notin {"run"} \cup Ended => r.got = <<>>)
  /\ p = Shell => r.in = Tty /\ r.out = Tty
  /\ r.path # <<>> => PartsInv(r) /\ WiresInv(r)

LEMMA BorderedIs ==
  ASSUME NEW r, NEW n, Bordered(r.line, n)
  PROVE  Wired(r, n) <=> r.in = Tty /\ r.out = Tty
  BY DEF Bordered, Wired, InputIs, OutputIs

LEMMA OneCallParts ==
  ASSUME NEW r, NEW n, r.path = <<n>>, Placed(r.line, n)
  PROVE  PartsInv(r) /\ Top(r) = n
  BY DEF PartsInv, Top

LEMMA TopIsPlaced ==
  ASSUME NEW r, StackInv(r), r.path # <<>>, PartsInv(r)
  PROVE  Placed(r.line, Top(r)) /\ (Len(r.path) > 1 => Bordered(r.line, Top(r)))
  BY TopIs DEF PartsInv, Top

(* A process that stays at its node and keeps its descriptors.             *)
LEMMA WiringStays ==
  ASSUME NEW p, NEW r, WiringInv(p, r), r.pc \in Settled,
         NEW r2, SameNode(r, r2), r2.in = r.in, r2.out = r.out, r2.got = r.got,
         r2.pc \in Settled \cup Ended
  PROVE  WiringInv(p, r2)
<1>1. r2.path = r.path /\ r2.line = r.line /\ r2.no = r.no /\ Top(r2) = Top(r)
  BY DEF SameNode, Top
<1>2. PartsInv(r) => PartsInv(r2)
  BY <1>1 DEF PartsInv
<1>3. WiresInv(r) => WiresInv(r2)
  <2>1. r2.pc # "setup" /\ r2.pc # "run" /\ (Wired(r, Top(r)) => Wired(r2, Top(r2)))
    BY <1>1 DEF Settled, Evaluating, Ended, Wired, InputIs, OutputIs
  <2> QED  BY <2>1 DEF WiresInv
<1>4. r.got = <<>>
  BY DEF WiringInv, Settled, Evaluating, Ended
<1> QED  BY <1>1, <1>2, <1>3, <1>4 DEF WiringInv

(* A copy for an operand of `&`, one for an operand of `|`, a command.     *)
LEMMA WiringOfCopy ==
  ASSUME NEW p, NEW r, StackInv(r), r.line \in Lines, r.path # <<>>, WiringInv(p, r),
         r.pc \in Settled, ~IsLeaf(Top(r)), Op(r.line, Top(r)) # "|",
         NEW n \in {Cmd1(r.line, Top(r)), Cmd2(r.line, Top(r))},
         NEW c, c.path = <<n>>, c.line = r.line, c.no = r.no, c.in = r.in, c.out = r.out,
         c.got = r.got, c.pc = "eval", NEW q, q # Shell
  PROVE  WiringInv(q, c)
<1>1. Placed(r.line, Top(r)) /\ Top(r) \in NodesOf(r.line) /\ Wired(r, Top(r)) /\ r.got = <<>>
  BY TopIsPlaced, TopIs DEF WiringInv, WiresInv, Settled, Evaluating, Ended
<1>2. Bordered(r.line, Top(r)) /\ Bordered(r.line, n) /\ Placed(r.line, n)
  BY <1>1, OperandsPlaced
<1>3. PartsInv(c) /\ Top(c) = n
  BY <1>2, OneCallParts
<1>4. Wired(c, n)
  BY <1>1, <1>2, BorderedIs
<1>5. WiresInv(c)
  BY <1>3, <1>4 DEF WiresInv
<1> QED  BY <1>1, <1>3, <1>5 DEF WiringInv, Contents

LEMMA WiringOfEnd ==
  ASSUME NEW p, NEW r, StackInv(r), r.line \in Lines, r.path # <<>>, WiringInv(p, r),
         r.pc \in Settled, ~IsLeaf(Top(r)), Op(r.line, Top(r)) = "|",
         NEW n \in {Cmd1(r.line, Top(r)), Cmd2(r.line, Top(r))},
         NEW c, c.path = <<n>>, c.line = r.line, c.no = r.no, c.in = r.in, c.out = r.out,
         c.got = r.got, c.pc = "setup", c.pipe = PipeOf(r), NEW q, q # Shell
  PROVE  WiringInv(q, c)
<1> DEFINE m == Top(r)
<1>1. Placed(r.line, m) /\ m \in NodesOf(r.line) /\ Wired(r, m) /\ r.got = <<>>
  BY TopIsPlaced, TopIs DEF WiringInv, WiresInv, Settled, Evaluating, Ended
<1>2. Placed(r.line, n)
  BY <1>1, OperandsPlaced
<1>3. PartsInv(c) /\ Top(c) = n
  BY <1>2, OneCallParts
<1>4. SetUp(c)
  <2>1. Wired(c, m)
    BY <1>1 DEF Wired, InputIs, OutputIs
  <2>2. c.pipe = <<c.no, m[1], m[2]>>
    BY DEF PipeOf
  <2> HIDE DEF m
  <2> QED  BY <1>1, <2>1, <2>2 DEF SetUp, m
<1>5. WiresInv(c)
  BY <1>3, <1>4 DEF WiresInv, Settled
<1> QED  BY <1>1, <1>3, <1>5 DEF WiringInv, Contents

LEMMA WiringOfCommand ==
  ASSUME NEW p, NEW r, StackInv(r), r.path # <<>>, WiringInv(p, r), r.pc \in Settled,
         NEW c, c.path = <<Top(r)>>, c.line = r.line, c.no = r.no, c.in = r.in, c.out = r.out,
         c.got = r.got, c.pc = "exec", NEW q, q # Shell
  PROVE  WiringInv(q, c)
<1>1. Placed(r.line, Top(r)) /\ Wired(r, Top(r)) /\ r.got = <<>>
  BY TopIsPlaced DEF WiringInv, WiresInv, Settled, Evaluating, Ended
<1>2. PartsInv(c) /\ Top(c) = Top(r)
  BY <1>1, OneCallParts
<1>3. WiresInv(c)
  BY <1>1, <1>2 DEF WiresInv, Wired, InputIs, OutputIs
<1> QED  BY <1>1, <1>2, <1>3 DEF WiringInv, Contents

(* After dup2 the children of run_on_pipe have the pipe as their output or *)
(* as their input, and the other as it was.                                *)
LEMMA EndsOf ==
  ASSUME NEW r, r.line \in Lines, SetUp(r)
  PROVE  \E m \in NodesOf(r.line) :
           /\ Op(r.line, m) = "|" /\ Placed(r.line, m) /\ Wired(r, m) /\ ~IsLeaf(m)
           /\ r.pipe = <<r.no, m[1], m[2]>> /\ Tail(r.pipe) = m
           /\ Into(r.line, r.no, r.pipe, m[2])
           /\ Cmd1(r.line, m) = <<m[1], m[2] - 1>> /\ Cmd2(r.line, m) = <<m[2], m[2]>>
           /\ r.path = <<Cmd1(r.line, m)>> \/ r.path = <<Cmd2(r.line, m)>>
<1>1. PICK m \in NodesOf(r.line) :
           /\ Op(r.line, m) = "|" /\ Placed(r.line, m) /\ Wired(r, m)
           /\ r.pipe = <<r.no, m[1], m[2]>>
           /\ r.path = <<Cmd1(r.line, m)>> \/ r.path = <<Cmd2(r.line, m)>>
  BY DEF SetUp
<1>2. ~IsLeaf(m)
  BY <1>1, NotALeaf DEF None
<1>3. Tail(r.pipe) = m
  <2>1. m = <<m[1], m[2]>>
    BY NodeIs
  <2>2. Tail(<<r.no, m[1], m[2]>>) = <<m[1], m[2]>>
    OBVIOUS
  <2> QED  BY <1>1, <2>1, <2>2
<1>4. Into(r.line, r.no, r.pipe, m[2])
  BY <1>1, PipeOfNode
<1>5. Cmd1(r.line, m) = <<m[1], m[2] - 1>> /\ Cmd2(r.line, m) = <<m[2], m[2]>>
  BY <1>1, PipedOperands
<1> QED  BY <1>1, <1>2, <1>3, <1>4, <1>5

LEMMA WiringOfDup ==
  ASSUME NEW p, NEW r, r.line \in Lines, r.path # <<>>, WiringInv(p, r), r.pc = "setup", p # Shell,
         NEW r2, SameNode(r, r2), r2.pc = "eval", r2.got = r.got,
         IF Top(r) = Cmd1(r.line, Tail(r.pipe)) THEN r2.out = r.pipe /\ r2.in = r.in
                                               ELSE r2.in = r.pipe /\ r2.out = r.out
  PROVE  WiringInv(p, r2)
<1>1. r2.path = r.path /\ r2.line = r.line /\ r2.no = r.no /\ Top(r2) = Top(r)
  BY DEF SameNode, Top
<1>2. SetUp(r) /\ PartsInv(r) /\ r.got = <<>>
  BY DEF WiringInv, WiresInv, Ended
<1>3. PICK m \in NodesOf(r.line) :
           /\ Op(r.line, m) = "|" /\ Placed(r.line, m) /\ Wired(r, m) /\ ~IsLeaf(m)
           /\ r.pipe = <<r.no, m[1], m[2]>> /\ Tail(r.pipe) = m
           /\ Into(r.line, r.no, r.pipe, m[2])
           /\ Cmd1(r.line, m) = <<m[1], m[2] - 1>> /\ Cmd2(r.line, m) = <<m[2], m[2]>>
           /\ r.path = <<Cmd1(r.line, m)>> \/ r.path = <<Cmd2(r.line, m)>>
  BY <1>2, EndsOf
<1>4. m[1] \in Nat /\ m[2] \in Nat /\ m[1] < m[2] /\ (m[2] - 1) + 1 = m[2]
  BY <1>3, NodeIs DEF IsLeaf
<1>5. Piped(r.line, m[2] - 1)
  BY <1>3 DEF Into
<1>6. Wired(r2, Top(r))
  <2>1. CASE r.path = <<Cmd1(r.line, m)>>
    <3>1. Top(r) = <<m[1], m[2] - 1>>
      BY <1>3, <2>1 DEF Top
    <3>2. r2.out = r.pipe /\ r2.in = r.in
      BY <1>3, <3>1
    <3>3. InputIs(r2, Top(r))
      BY <1>1, <1>3, <3>1, <3>2 DEF Wired, InputIs
    <3>4. OutputIs(r2, Top(r))
      BY <1>1, <1>3, <1>4, <1>5, <3>1, <3>2 DEF OutputIs
    <3> QED  BY <3>3, <3>4 DEF Wired
  <2>2. CASE r.path = <<Cmd2(r.line, m)>>
    <3>1. Top(r) = <<m[2], m[2]>>
      BY <1>3, <2>2 DEF Top
    <3>2. Top(r) # Cmd1(r.line, Tail(r.pipe))
      BY <1>3, <1>4, <3>1
    <3>3. r2.in = r.pipe /\ r2.out = r.out
      BY <3>2
    <3>4. InputIs(r2, Top(r))
      BY <1>1, <1>3, <1>5, <3>1, <3>3 DEF InputIs
    <3>5. OutputIs(r2, Top(r))
      BY <1>1, <1>3, <3>1, <3>3 DEF Wired, OutputIs
    <3> QED  BY <3>4, <3>5 DEF Wired
  <2> QED  BY <1>3, <2>1, <2>2
<1>7. PartsInv(r2)
  BY <1>1, <1>2 DEF PartsInv
<1>8. WiresInv(r2)
  BY <1>1, <1>6 DEF WiresInv
<1> QED  BY <1>2, <1>7, <1>8 DEF WiringInv, Contents

(* The operands of `;`, `&&` and `||` have what the process has.           *)
LEMMA WiringDeeper ==
  ASSUME NEW p, NEW r, StackInv(r), r.path # <<>>, r.line \in Lines, WiringInv(p, r), r.pc = "eval",
         ~IsLeaf(Top(r)), Op(r.line, Top(r)) # "|",
         NEW r2, r2.line = r.line, r2.no = r.no, r2.path = Append(r.path, Cmd1(r.line, Top(r))),
         r2.in = r.in, r2.out = r.out, r2.got = r.got, r2.pc = "eval"
  PROVE  WiringInv(p, r2)
<1> DEFINE n == Cmd1(r.line, Top(r))
           d == Len(r.path)
<1>1. PartsInv(r) /\ Wired(r, Top(r)) /\ r.got = <<>>
  BY DEF WiringInv, WiresInv, Settled, Evaluating, Ended
<1>2. Bordered(r.line, Top(r)) /\ Bordered(r.line, n) /\ Placed(r.line, n)
  BY <1>1, TopIsPlaced, TopIs, OperandsPlaced
<1>3. d \in Nat \ {0} /\ r.path \in Seq(NodesOf(r.line)) /\ Top(r) = r.path[d]
  BY TopIs DEF StackInv, Top
<1> HIDE DEF n, d
<1>4. Len(r2.path) = d + 1 /\ r2.path[d + 1] = n /\ \A k \in 1..d : r2.path[k] = r.path[k]
  BY <1>3 DEF n, d
<1>5. \A k \in 1..d : Placed(r.line, r.path[k]) /\ Bordered(r.line, r.path[k])
  <2>1. CASE d = 1
    BY <1>1, <1>2, <1>3, <2>1 DEF PartsInv, d
  <2>2. CASE d > 1
    BY <1>1, <2>2 DEF PartsInv, d
  <2> QED  BY <1>3, <2>1, <2>2
<1>6. ASSUME NEW k \in 1..(d + 1) PROVE Placed(r.line, r2.path[k]) /\ Bordered(r.line, r2.path[k])
  <2>1. k \in 1..d \/ k = d + 1
    BY <1>3
  <2> QED  BY <1>2, <1>4, <1>5, <2>1
<1>7. PartsInv(r2)
  BY <1>4, <1>6 DEF PartsInv
<1>8. Top(r2) = n
  BY <1>4 DEF Top
<1>9. Wired(r2, n)
  BY <1>1, <1>2, BorderedIs
<1>10. WiresInv(r2)
  BY <1>8, <1>9 DEF WiresInv
<1> QED  BY <1>1, <1>7, <1>10 DEF WiringInv, Contents

LEMMA WiringElsewhere ==
  ASSUME NEW p, NEW r, StackInv(r), Len(r.path) > 1, WiringInv(p, r), r.pc \in Settled,
         NEW r2, r2.line = r.line, r2.no = r.no, r2.in = r.in, r2.out = r.out, r2.got = r.got,
         r2.pc \in Settled, r2.path # <<>>, StackInv(r2),
         \A k \in 1..Len(r2.path) : Bordered(r.line, r2.path[k])
  PROVE  WiringInv(p, r2)
<1>1. r.path # <<>>
  OBVIOUS
<1>2. Wired(r, Top(r)) /\ r.got = <<>> /\ Bordered(r.line, Top(r))
  BY <1>1, TopIsPlaced DEF WiringInv, WiresInv, Settled, Evaluating, Ended
<1>3. Bordered(r.line, Top(r2))
  BY TopIs DEF Top
<1>4. Wired(r2, Top(r2))
  BY <1>2, <1>3, BorderedIs
<1>5. PartsInv(r2)
  BY DEF PartsInv, Placed, Bordered
<1>6. WiresInv(r2)
  BY <1>4 DEF WiresInv, Settled, Evaluating
<1> QED  BY <1>2, <1>5, <1>6 DEF WiringInv, Contents

LEMMA WiringShallower ==
  ASSUME NEW p, NEW r, StackInv(r), Len(r.path) > 1, WiringInv(p, r), r.pc \in Settled,
         NEW r2, r2.line = r.line, r2.no = r.no, r2.in = r.in, r2.out = r.out, r2.got = r.got,
         r2.pc \in Settled, r2.path = SubSeq(r.path, 1, Len(r.path) - 1)
  PROVE  WiringInv(p, r2)
<1> DEFINE d == Len(r.path)
<1>1. StackInv(r2) /\ r2.path # <<>>
  BY Shallower
<1>2. r.path \in Seq(NodesOf(r.line)) /\ d \in Nat /\ d > 1 /\ r.path # <<>>
  BY DEF StackInv
<1>3. Len(r2.path) = d - 1 /\ \A k \in 1..(d - 1) : r2.path[k] = r.path[k]
  BY <1>2
<1>4. \A k \in 1..d : Bordered(r.line, r.path[k])
  BY <1>2 DEF WiringInv, PartsInv
<1>5. \A k \in 1..Len(r2.path) : Bordered(r.line, r2.path[k])
  BY <1>2, <1>3, <1>4
<1> QED  BY <1>1, <1>5, WiringElsewhere

LEMMA WiringOnward ==
  ASSUME NEW p, NEW r, StackInv(r), Len(r.path) > 1, r.line \in Lines, WiringInv(p, r),
         r.pc \in Settled, Top(r) = Cmd1(r.line, r.path[Len(r.path) - 1]),
         NEW r2, r2.line = r.line, r2.no = r.no, r2.in = r.in, r2.out = r.out, r2.got = r.got,
         r2.pc \in Settled,
         r2.path = ThenCmd2(r.path, Cmd2(r.line, r.path[Len(r.path) - 1]))
  PROVE  WiringInv(p, r2)
<1> DEFINE d == Len(r.path)
           m == r.path[d - 1]
           n == Cmd2(r.line, m)
<1>1. StackInv(r2) /\ r2.path # <<>>
  BY Onward
<1>2. r.path \in Seq(NodesOf(r.line)) /\ d \in Nat /\ d > 1 /\ r.path # <<>>
  BY DEF StackInv
<1>3. \A k \in 1..d : Bordered(r.line, r.path[k])
  BY <1>2 DEF WiringInv, PartsInv
<1>4. Bordered(r.line, n)
  <2>1. Bordered(r.line, m) /\ Bordered(r.line, Cmd1(r.line, m))
    BY <1>2, <1>3 DEF Top
  <2>2. m \in NodesOf(r.line) /\ ~IsLeaf(m)
    <3>1. d - 1 \in 1..(d - 1) /\ d - 1 \in 1..d
      BY <1>2
    <3> QED  BY <1>2, <3>1 DEF StackInv
  <2>3. Split(r.line, m) \in Nat /\ (Split(r.line, m) + 1) - 1 = Split(r.line, m)
    BY <2>2, SplitIs, NodeIs
  <2> QED  BY <2>1, <2>3 DEF Bordered, Cmd1, Cmd2
<1> HIDE DEF n, d
<1>5. Len(r2.path) = d /\ r2.path[d] = n /\ \A k \in 1..(d - 1) : r2.path[k] = r.path[k]
  BY <1>2 DEF ThenCmd2, d, n
<1>6. \A k \in 1..Len(r2.path) : Bordered(r.line, r2.path[k])
  BY <1>2, <1>3, <1>4, <1>5
<1> QED  BY <1>1, <1>6, WiringElsewhere

(* A command redirects its output and its input, and keeps them.           *)
LEMMA WiringOfRun ==
  ASSUME NEW p, NEW r, r.path # <<>>, WiringInv(p, r), r.pc \in {"exec", "run"}, p # Shell,
         NEW r2, SameNode(r, r2), r2.pc = "run" \/ r2.pc \in Ended, r2.got \in Contents,
         r2.in = r.in \/ (r.line.cmds[Top(r)[1]].in # None /\ ~IsPipe(r2.in)),
         r2.out = r.out \/ (r.line.cmds[Top(r)[1]].out # None /\ ~IsPipe(r2.out))
  PROVE  WiringInv(p, r2)
<1>1. r2.path = r.path /\ r2.line = r.line /\ r2.no = r.no /\ Top(r2) = Top(r)
  BY DEF SameNode, Top
<1>2. PartsInv(r) /\ Redirected(r)
  BY DEF WiringInv, WiresInv, Settled, Wired, Redirected
<1>3. PartsInv(r2)
  BY <1>1, <1>2 DEF PartsInv
<1>4. Redirected(r2)
  BY <1>1, <1>2 DEF Redirected, InputIs, OutputIs
<1>5. WiresInv(r2)
  BY <1>4 DEF WiresInv, Settled, Evaluating, Ended
<1> QED  BY <1>3, <1>5 DEF WiringInv, Ended

-----------------------------------------------------------------------------
(* Who is to read a pipe and has not finished, who is still to write to    *)
(* it, and who could.                                                      *)
Reader(r, e) ==
  \/ r.pc = "fork2" /\ Op(r.line, Top(r)) = "|" /\ e = PipeOf(r)
  \/ r.pc = "setup" /\ e = r.pipe /\ Top(r)[1] = e[3]
  \/ r.pc \in {"eval", "exec", "run"} /\ r.in = e /\ IsPipe(e)
Unwritten(r, e) == r.pc \in {"setup", "eval", "fork2", "exec"} /\ e[3] = Top(r)[2] + 1
MayWrite(r, e) == r.pc \notin Ended /\ (r.out = e \/ <<e, "w">> \in r.held)
MayRead(r, e) == r.pc \notin Ended /\ (r.in = e \/ <<e, "r">> \in r.held)
Writes(w, e, ps) == w \in DOMAIN ps /\ ps[w].pc = "run" /\ ps[w].out = e

WiringsInv == \A p \in DOMAIN procs : WiringInv(p, procs[p])

LEMMA ReaderIs ==
  ASSUME NEW p, NEW r, NEW no \in Nat, NEW ps, ProcInv(p, r, no, ps), WiringInv(p, r), NEW e, Reader(r, e)
  PROVE  /\ r.path # <<>> /\ r.line \in Lines /\ r.no = no
         /\ Into(r.line, no, e, e[3]) /\ IsPipe(e) /\ e[1] = no
         /\ Top(r) \in NodesOf(r.line)
         /\ IF r.pc = "fork2" THEN Top(r)[2] = e[3] /\ Cmd2(r.line, Top(r)) = <<e[3], e[3]>>
                              ELSE Top(r)[1] = e[3]
         /\ MayRead(r, e)
<1>1. r.path # <<>> /\ r.line \in Lines /\ r.no = no /\ StackInv(r) /\ FdInv(p, r, ps) /\ r.pc \notin Ended
  BY DEF Reader, ProcInv, PlaceInv, Evaluating, Ended
<1>2. Top(r) \in NodesOf(r.line) /\ PartsInv(r) /\ WiresInv(r) /\ Placed(r.line, Top(r))
  BY <1>1, TopIs, TopIsPlaced DEF WiringInv
<1>3. CASE r.pc = "fork2" /\ Op(r.line, Top(r)) = "|" /\ e = PipeOf(r)
  <2>1. e = <<no, Top(r)[1], Top(r)[2]>> /\ e[3] = Top(r)[2]
    BY <1>1, <1>3 DEF PipeOf
  <2>2. Into(r.line, no, e, e[3]) /\ Cmd2(r.line, Top(r)) = <<e[3], e[3]>>
    BY <1>1, <1>2, <1>3, <2>1, PipeOfNode, PipedOperands
  <2>3. <<e, "r">> \in r.held
    BY <1>1, <1>3 DEF FdInv, Ends
  <2> QED  BY <1>1, <1>2, <1>3, <2>1, <2>2, <2>3, IntoIs DEF MayRead
<1>4. CASE r.pc = "setup" /\ e = r.pipe /\ Top(r)[1] = e[3]
  <2>1. SetUp(r)
    BY <1>2, <1>4 DEF WiresInv
  <2>2. PICK m \in NodesOf(r.line) : r.pipe = <<r.no, m[1], m[2]>> /\ Into(r.line, r.no, r.pipe, m[2])
    BY <1>1, <2>1, EndsOf
  <2>3. Into(r.line, no, e, e[3])
    BY <1>1, <1>4, <2>2
  <2>4. <<e, "r">> \in r.held
    BY <1>1, <1>4 DEF FdInv, Ends
  <2> QED  BY <1>1, <1>2, <1>4, <2>3, <2>4, IntoIs DEF MayRead
<1>5. CASE r.pc \in {"eval", "exec", "run"} /\ r.in = e /\ IsPipe(e)
  <2>1. InputIs(r, Top(r))
    BY <1>2, <1>5 DEF WiresInv, Settled, Evaluating, Wired, Redirected
  <2>2. ~IsPipe(Tty)
    BY DEF IsPipe, Tty
  <2>3. Into(r.line, no, e, Top(r)[1])
    BY <1>1, <1>5, <2>1, <2>2 DEF InputIs
  <2> QED  BY <1>1, <1>2, <1>5, <2>3, IntoIs DEF MayRead
<1> QED  BY <1>3, <1>4, <1>5 DEF Reader

LEMMA CommandIs ==
  ASSUME ProcsInv, NEW p \in DOMAIN procs, procs[p].pc \in {"exec", "run"}
  PROVE  LET r == procs[p] IN
         /\ p = <<lineNo, Top(r)[1]>> /\ Top(r)[1] = Top(r)[2] /\ Top(r)[1] \in Nat /\ Top(r)[2] \in Nat
         /\ p # Shell /\ IsPid(p) /\ Len(p) = 2 /\ Len(r.path) = 1 /\ r.path # <<>> /\ r.line \in Lines
         /\ r.no = lineNo /\ lineNo \in Nat /\ Top(r) \in NodesOf(r.line)
<1> DEFINE r == procs[p]
<1>1. PidInv(p, r, lineNo) /\ PlaceInv(r, lineNo) /\ StackInv(r) /\ lineNo \in Nat
  BY ProcIs
<1>2. Len(r.path) = 1 /\ IsLeaf(r.path[1]) /\ p = <<lineNo, r.path[1][1]>> /\ r.path # <<>>
  BY <1>1 DEF PidInv, PlaceInv, Evaluating, Ended
<1>3. Top(r) = r.path[1] /\ Top(r) \in NodesOf(r.line)
  BY <1>1, <1>2, TopIs DEF Top
<1>4. Top(r)[1] \in Nat /\ Top(r)[1] = Top(r)[2]
  BY <1>2, <1>3, NodeIs DEF IsLeaf
<1>5. p # Shell /\ IsPid(p) /\ Len(p) = 2
  <2>1. Len(p) = 2
    BY <1>2
  <2>2. Len(Shell) = 1
    BY DEF Shell
  <2>3. p # Shell
    BY <2>1, <2>2
  <2> QED  BY <2>1, <2>3, IsAPid
<1> QED  BY <1>1, <1>2, <1>3, <1>4, <1>5 DEF PlaceInv

LEMMA WriterIs ==
  ASSUME ProcsInv, WiringsInv, NEW p \in DOMAIN procs, NEW e, IsPipe(e), Writes(p, e, procs)
  PROVE  /\ p = <<e[1], e[3] - 1>> /\ e[1] = lineNo /\ e[3] - 1 \in Nat
         /\ Into(procs[p].line, lineNo, e, e[3])
<1> DEFINE r == procs[p]
<1>1. r.pc = "run" /\ r.out = e /\ p = <<lineNo, Top(r)[1]>> /\ Top(r)[1] = Top(r)[2]
      /\ Top(r)[1] \in Nat /\ r.path # <<>> /\ r.no = lineNo
  BY CommandIs DEF Writes
<1>2. OutputIs(r, Top(r))
  BY <1>1 DEF WiringsInv, WiringInv, WiresInv, Redirected
<1>3. ~IsPipe(Tty)
  BY DEF IsPipe, Tty
<1>4. Into(r.line, lineNo, e, Top(r)[2] + 1)
  BY <1>1, <1>2, <1>3 DEF OutputIs
<1>5. e[1] = lineNo /\ e[3] = Top(r)[2] + 1
  BY <1>4, IntoIs
<1> QED  BY <1>1, <1>4, <1>5

(* What has gone through pipe e: its reader r and the pipe have the units  *)
(* of the writer so far, none before it runs and all after it ran, if any. *)
(* A reader that saw the end is not followed by more.                      *)
Sent(r, e, ps, units) ==
  LET all == r.got \o units
      w == <<e[1], e[3] - 1>>
      n == r.line.cmds[e[3] - 1].writes
  IN  /\ all = [k \in 1..Len(all) |-> <<w, k>>]
      /\ Len(all) \in {0, n} \/ Writes(w, e, ps)
      /\ Writes(w, e, ps) => Len(all) = n - ps[w].left
      /\ (\E p \in DOMAIN ps : Unwritten(ps[p], e)) => Len(all) = 0
      /\ r.pc = "run" /\ r.eof /\ r.line.cmds[Top(r)[1]].reads =>
           units = <<>> /\ \A p \in DOMAIN ps : ~MayWrite(ps[p], e)

DataInv ==
  \A q \in DOMAIN procs : \A e \in DOMAIN pipes :
     Reader(procs[q], e) => Sent(procs[q], e, procs, pipes[e])

OneLine ==
  \A p, q \in DOMAIN procs :
    procs[p].path # <<>> /\ procs[q].path # <<>> => procs[p].line = procs[q].line

LEMMA SentStays ==
  ASSUME NEW r, NEW e, NEW ps, NEW units, Sent(r, e, ps, units),
         NEW r2, r2.line = r.line, r2.got = r.got,
         r2.pc = "run" /\ r2.eof /\ r2.line.cmds[Top(r2)[1]].reads =>
           r.pc = "run" /\ r.eof /\ r.line.cmds[Top(r)[1]].reads,
         NEW n, n = r.line.cmds[e[3] - 1].writes,
         NEW ps2,
         \A w : Writes(w, e, ps2) =>
           \/ Writes(w, e, ps) /\ ps2[w].left = ps[w].left
           \/ w \in DOMAIN ps /\ Unwritten(ps[w], e) /\ n \in Int /\ ps2[w].left = n,
         \A w : Writes(w, e, ps) => Writes(w, e, ps2) \/ (ps[w].left = 0 /\ n \in Int),
         \A p \in DOMAIN ps2 : Unwritten(ps2[p], e) => \E o \in DOMAIN ps : Unwritten(ps[o], e),
         \A p \in DOMAIN ps2 : MayWrite(ps2[p], e) => \E o \in DOMAIN ps : MayWrite(ps[o], e)
  PROVE  Sent(r2, e, ps2, units)
<1> DEFINE all == r.got \o units
           w == <<e[1], e[3] - 1>>
<1>1. /\ all = [k \in 1..Len(all) |-> <<w, k>>]
      /\ Len(all) \in {0, n} \/ Writes(w, e, ps)
      /\ Writes(w, e, ps) => Len(all) = n - ps[w].left
      /\ (\E p \in DOMAIN ps : Unwritten(ps[p], e)) => Len(all) = 0
      /\ r.pc = "run" /\ r.eof /\ r.line.cmds[Top(r)[1]].reads =>
           units = <<>> /\ \A p \in DOMAIN ps : ~MayWrite(ps[p], e)
  BY DEF Sent
<1>2. r2.got \o units = all /\ r2.line.cmds[e[3] - 1].writes = n
  OBVIOUS
<1> HIDE DEF all, w
<1>3. Len(all) \in {0, n} \/ Writes(w, e, ps2)
  BY <1>1
<1>4. Writes(w, e, ps2) => Len(all) = n - ps2[w].left
  BY <1>1
<1>5. (\E p \in DOMAIN ps2 : Unwritten(ps2[p], e)) => Len(all) = 0
  BY <1>1
<1>6. r2.pc = "run" /\ r2.eof /\ r2.line.cmds[Top(r2)[1]].reads =>
           units = <<>> /\ \A p \in DOMAIN ps2 : ~MayWrite(ps2[p], e)
  BY <1>1
<1> QED  BY <1>1, <1>2, <1>3, <1>4, <1>5, <1>6 DEF Sent, w

(* A process r of the shell that becomes or starts r2: what the pipes but  *)
(* the new ones can tell.                                                  *)
Follows(r, r2, new) ==
  /\ r2.pc # "run"
  /\ \A e : e \notin new /\ Reader(r2, e) => Reader(r, e) /\ r2.line = r.line /\ r2.got = r.got
  /\ \A e : e \notin new /\ Unwritten(r2, e) => Unwritten(r, e) \/ (r.path # <<>> /\ ~Into(r.line, r.no, e, e[3]))
  /\ \A e : e \notin new /\ MayWrite(r2, e) => MayWrite(r, e)

LEMMA DataPassed ==
  ASSUME ProcsInv, WiringsInv, OneLine, DataInv, NEW new,
         \A e \in DOMAIN pipes' \ new : e \in DOMAIN pipes /\ pipes'[e] = pipes[e],
         NEW p \in DOMAIN procs, procs[p].pc # "run",
         \A q \in DOMAIN procs' : \/ q \in DOMAIN procs /\ procs'[q] = procs[q]
                                  \/ Follows(procs[p], procs'[q], new),
         \A q \in DOMAIN procs : procs[q].pc = "run" => q \in DOMAIN procs' /\ procs'[q] = procs[q],
         NEW q \in DOMAIN procs', NEW e \in DOMAIN pipes', e \notin new, Reader(procs'[q], e)
  PROVE  Sent(procs'[q], e, procs', pipes'[e])
<1>1. e \in DOMAIN pipes /\ pipes'[e] = pipes[e]
  OBVIOUS
<1>2. PICK o \in DOMAIN procs : /\ Reader(procs[o], e) /\ procs'[q].line = procs[o].line
                                /\ procs'[q].got = procs[o].got
                                /\ procs'[q].pc # "run" \/ procs'[q] = procs[o]
  <2>1. CASE q \in DOMAIN procs /\ procs'[q] = procs[q]
    BY <2>1
  <2>2. CASE Follows(procs[p], procs'[q], new)
    BY <2>2 DEF Follows
  <2> QED  BY <2>1, <2>2
<1>3. Sent(procs[o], e, procs, pipes[e])
  BY <1>1, <1>2 DEF DataInv
<1>4. \A w : Writes(w, e, procs) => Writes(w, e, procs') /\ procs'[w].left = procs[w].left
  BY DEF Writes
<1>5. ASSUME NEW w, Writes(w, e, procs') PROVE Writes(w, e, procs)
  <2>1. w \in DOMAIN procs' /\ procs'[w].pc = "run" /\ procs'[w].out = e
    BY <1>5 DEF Writes
  <2>2. ~Follows(procs[p], procs'[w], new)
    BY <2>1 DEF Follows
  <2> QED  BY <2>1, <2>2 DEF Writes
<1>6. ASSUME NEW x \in DOMAIN procs', Unwritten(procs'[x], e)
      PROVE  \E y \in DOMAIN procs : Unwritten(procs[y], e)
  <2>1. CASE x \in DOMAIN procs /\ procs'[x] = procs[x]
    BY <1>6, <2>1
  <2>2. CASE Follows(procs[p], procs'[x], new)
    <3>1. \/ Unwritten(procs[p], e)
          \/ procs[p].path # <<>> /\ ~Into(procs[p].line, procs[p].no, e, e[3])
      BY <1>6, <2>2 DEF Follows
    <3>2. procs[o].path # <<>> /\ Into(procs[o].line, lineNo, e, e[3])
      <4>1. ProcInv(o, procs[o], lineNo, DOMAIN pipes) /\ WiringInv(o, procs[o]) /\ lineNo \in Nat
        BY DEF ProcsInv, WiringsInv
      <4> QED  BY <1>2, <4>1, ReaderIs
    <3>3. procs[p].path # <<>> => procs[p].line = procs[o].line /\ procs[p].no = lineNo
      BY <3>2, ProcIs DEF OneLine, PlaceInv
    <3> QED  BY <3>1, <3>2, <3>3
  <2> QED  BY <2>1, <2>2
<1>7. ASSUME NEW x \in DOMAIN procs', MayWrite(procs'[x], e)
      PROVE  \E y \in DOMAIN procs : MayWrite(procs[y], e)
  <2>1. CASE x \in DOMAIN procs /\ procs'[x] = procs[x]
    BY <1>7, <2>1
  <2>2. CASE Follows(procs[p], procs'[x], new)
    BY <1>7, <2>2 DEF Follows
  <2> QED  BY <2>1, <2>2
<1> QED  BY <1>1, <1>2, <1>3, <1>4, <1>5, <1>6, <1>7, SentStays

-----------------------------------------------------------------------------
(* The first command of the line that a process has not come to.  Whatever *)
(* happened, a fork that failed included, no process is there yet.         *)
Front(r) == IF r.pc \in {"eval", "setup"} THEN Top(r)[1]
            ELSE IF r.pc = "fork2" THEN Cmd2(r.line, Top(r))[1]
            ELSE Top(r)[2] + 1

FrontInv ==
  \A p \in DOMAIN procs : procs[p].pc \in Evaluating =>
    \A q \in DOMAIN procs \ {Shell, p} : Covers(p, q) => q[Len(q)] < Front(procs[p])

LEMMA FrontIs ==
  ASSUME ProcsInv, NEW p \in DOMAIN procs, procs[p].pc \in Evaluating
  PROVE  /\ Front(procs[p]) \in Nat /\ Top(procs[p])[1] <= Front(procs[p])
         /\ Front(procs[p]) <= Top(procs[p])[2] + 1
         /\ Top(procs[p])[1] \in Nat /\ Top(procs[p])[2] \in Nat
<1>1. Top(procs[p]) \in NodesOf(procs[p].line)
  BY AtNode
<1>2. Top(procs[p])[1] \in Nat /\ Top(procs[p])[2] \in Nat /\ Top(procs[p])[1] <= Top(procs[p])[2]
  BY <1>1, NodeIs
<1>3. CASE procs[p].pc = "fork2"
  <2> DEFINE n2 == Cmd2(procs[p].line, Top(procs[p]))
  <2>1. n2[1] \in Nat /\ n2[2] \in Nat /\ n2[1] <= n2[2] /\ n2[2] <= Top(procs[p])[2] /\ Top(procs[p])[1] < n2[1]
    BY <1>3, OperandsOf
  <2>2. Front(procs[p]) = n2[1]
    BY <1>3 DEF Front
  <2> HIDE DEF n2
  <2> QED  BY <1>2, <2>1, <2>2
<1>4. CASE procs[p].pc # "fork2"
  BY <1>2, <1>4 DEF Front
<1> QED  BY <1>2, <1>3, <1>4

(* Of two processes one is a part of the other or they are apart, when p   *)
(* starts c apart from what is in its part of the line.                    *)
LEMMA NestedGrows ==
  ASSUME ProcsInv, Nested, NEW p \in DOMAIN procs, NEW c, IsPid(c), c # p, c # Shell,
         Covers(p, c), DOMAIN procs' = DOMAIN procs \cup {c},
         \A q \in DOMAIN procs \ {Shell, p} : Covers(p, q) => Apart(q, c)
  PROVE  Nested'
<1>1. \A q \in DOMAIN procs \ {Shell} : IsPid(q)
  BY IsAPid
<1>2. ASSUME p # Shell PROVE Len(p) = 3 /\ Within(c, Scope(p)) /\ IsPid(p)
  BY <1>1, <1>2 DEF Covers
<1>3. ASSUME NEW b \in DOMAIN procs \ {Shell, c}
      PROVE  Within(c, Scope(b)) \/ Within(b, Scope(c)) \/ (Apart(c, b) /\ Apart(b, c))
  <2>1. CASE b = p
    BY <1>2, <1>3, <2>1
  <2>2. CASE b # p /\ Covers(p, b)
    BY <1>3, <2>2 DEF Apart
  <2>3. CASE b # p /\ ~Covers(p, b)
    <3>1. p # Shell /\ ~Within(b, Scope(p)) /\ Within(c, Scope(p)) /\ IsPid(p) /\ IsPid(b)
      BY <1>1, <1>2, <1>3, <2>3 DEF Covers
    <3>2. Within(p, Scope(b)) \/ Apart(b, p) \/ Apart(p, b)
      BY <1>3, <3>1 DEF Nested
    <3>3. CASE Within(p, Scope(b))
      BY <3>1, <3>3, WithinTwice
    <3>4. CASE Apart(b, p) \/ Apart(p, b)
      BY <3>1, <3>4, ApartFromParts
    <3> QED  BY <3>2, <3>3, <3>4
  <2> QED  BY <2>1, <2>2, <2>3
<1>4. ASSUME NEW a \in DOMAIN procs' \ {Shell}, NEW b \in DOMAIN procs' \ {Shell}
      PROVE  Within(a, Scope(b)) \/ Within(b, Scope(a)) \/ Apart(a, b)
  <2>1. CASE a = c /\ b = c
    BY <2>1, WithinItself
  <2>2. CASE a = c /\ b # c
    BY <1>3, <1>4, <2>2
  <2>3. CASE a # c /\ b = c
    BY <1>3, <1>4, <2>3
  <2>4. CASE a # c /\ b # c
    BY <1>4, <2>4 DEF Nested
  <2> QED  BY <2>1, <2>2, <2>3, <2>4
<1> QED  BY <1>4 DEF Nested

(* Then who has c in its part of the line has p there,                     *)
LEMMA CoversTheParent ==
  ASSUME ProcsInv, Nested, NEW p \in DOMAIN procs, NEW c, IsPid(c), Covers(p, c),
         \A q \in DOMAIN procs \ {Shell, p} : Covers(p, q) => Apart(q, c),
         NEW a \in DOMAIN procs \ {p, c}, Covers(a, c)
  PROVE  p # Shell /\ Covers(a, p) /\ Within(c, Scope(p)) /\ IsPid(p)
<1>1. \A q \in DOMAIN procs \ {Shell} : IsPid(q)
  BY IsAPid
<1>2. ASSUME p # Shell PROVE Len(p) = 3 /\ Within(c, Scope(p)) /\ IsPid(p)
  BY <1>1, <1>2 DEF Covers
<1>3. CASE a = Shell
  BY <1>2, <1>3 DEF Covers
<1>4. CASE a # Shell
  <2>0. Len(a) = 3 /\ Within(c, Scope(a))
    BY <1>4 DEF Covers
  <2>1. ~Apart(a, c)
    BY <1>1, <1>4, <2>0, WithinIsNotApart
  <2>2. ~Covers(p, a)
    BY <1>4, <2>1
  <2>3. p # Shell /\ ~Within(a, Scope(p))
    BY <1>2, <2>2 DEF Covers
  <2>4. ~Apart(p, a)
    <3>1. ASSUME Apart(p, a) PROVE FALSE
      <4>1. Apart(a, c)
        BY <1>1, <1>2, <1>4, <2>3, <3>1, ApartFromParts
      <4> QED  BY <2>1, <4>1
    <3> QED  BY <3>1
  <2>5. Within(p, Scope(a)) \/ Within(a, Scope(p)) \/ Apart(p, a)
    BY <1>4, <2>3 DEF Nested
  <2> QED  BY <1>2, <2>0, <2>3, <2>4, <2>5 DEF Covers
<1> QED  BY <1>3, <1>4

(* ... and nothing that there was is in the part of c.                     *)
LEMMA NothingInTheChild ==
  ASSUME ProcsInv, NEW p \in DOMAIN procs, NEW c, IsPid(c), Covers(p, c), Len(c) = 3,
         \A q \in DOMAIN procs \ {Shell, p} : Covers(p, q) => Apart(q, c),
         NEW q \in DOMAIN procs \ {Shell, p}
  PROVE  ~Within(q, Scope(c))
<1>1. IsPid(q) /\ (p # Shell => IsPid(p))
  BY IsAPid
<1>2. ASSUME Within(q, Scope(c)) PROVE FALSE
  <2>1. Covers(p, q)
    <3>1. CASE p = Shell
      BY <3>1 DEF Covers
    <3>2. CASE p # Shell
      <4>1. Len(p) = 3 /\ Within(c, Scope(p))
        BY <3>2 DEF Covers
      <4>2. Within(q, Scope(p))
        BY <1>1, <1>2, <3>2, <4>1, WithinTwice
      <4> QED  BY <4>1, <4>2 DEF Covers
    <3> QED  BY <3>1, <3>2
  <2>2. ~Apart(q, c)
    BY <1>1, <1>2, WithinIsNotApart
  <2> QED  BY <2>1, <2>2
<1> QED  BY <1>2

(* What p has not come to is apart from what it covers.                    *)
LEMMA AheadIsApart ==
  ASSUME ProcsInv, FrontInv, NEW p \in DOMAIN procs, procs[p].pc \in Evaluating,
         NEW c, IsPid(c), Front(procs[p]) <= c[2]
  PROVE  \A q \in DOMAIN procs \ {Shell, p} : Covers(p, q) => Apart(q, c)
<1> TAKE q \in DOMAIN procs \ {Shell, p}
<1> HAVE Covers(p, q)
<1>1. q[Len(q)] < Front(procs[p])
  BY DEF FrontInv
<1>2. q[Len(q)] \in Nat /\ c[2] \in Nat /\ Front(procs[p]) \in Nat
  BY IsAPid, FrontIs DEF IsPid
<1>3. q[Len(q)] < c[2]
  BY <1>1, <1>2
<1> QED  BY <1>3 DEF Apart

LEMMA AheadIsNew ==
  ASSUME ProcsInv, FrontInv, NEW p \in DOMAIN procs, procs[p].pc \in Evaluating,
         NEW c, IsPid(c), c # p, c # Shell, Front(procs[p]) <= c[2], Within(c, Top(procs[p]))
  PROVE  c \notin DOMAIN procs
<1>1. Covers(p, c)
  BY CoversItsNode
<1>2. ~Apart(c, c)
  BY WithinItself, WithinIsNotApart
<1> QED  BY <1>1, <1>2, AheadIsApart

(* Steps that start nothing, and that start c.                             *)
LEMMA FrontMoves ==
  ASSUME ProcsInv, Nested, FrontInv, DOMAIN procs' \subseteq DOMAIN procs, NEW p \in DOMAIN procs,
         \A q \in DOMAIN procs' \ {p} : procs'[q] = procs[q],
         p \in DOMAIN procs' /\ procs'[p].pc \in Evaluating =>
            procs[p].pc \in Evaluating /\ Front(procs[p]) <= Front(procs'[p])
            /\ Front(procs'[p]) \in Nat
  PROVE  FrontInv' /\ Nested'
<1>1. ASSUME NEW a \in DOMAIN procs', procs'[a].pc \in Evaluating,
             NEW b \in DOMAIN procs' \ {Shell, a}, Covers(a, b)
      PROVE  b[Len(b)] < Front(procs'[a])
  <2>1. CASE a = p
    <3>1. b[Len(b)] < Front(procs[p]) /\ Front(procs[p]) <= Front(procs'[p])
      BY <1>1, <2>1 DEF FrontInv
    <3>2. b[Len(b)] \in Nat /\ Front(procs[p]) \in Nat /\ Front(procs'[p]) \in Nat
      BY <1>1, <2>1, IsAPid, FrontIs DEF IsPid
    <3> QED  BY <2>1, <3>1, <3>2
  <2>2. CASE a # p
    BY <1>1, <2>2 DEF FrontInv
  <2> QED  BY <2>1, <2>2
<1>2. FrontInv'
  BY <1>1 DEF FrontInv
<1>3. Nested'
  BY DEF Nested
<1> QED  BY <1>2, <1>3

LEMMA FrontGrows ==
  ASSUME ProcsInv, Nested, FrontInv, NEW p \in DOMAIN procs, procs[p].pc \in Evaluating,
         NEW c, IsPid(c), c # p, c # Shell, Within(c, Top(procs[p])), Front(procs[p]) <= c[2],
         Len(c) = 3 => p = Shell \/ ~Within(p, Scope(c)),
         DOMAIN procs' = DOMAIN procs \cup {c},
         \A q \in DOMAIN procs \ {p, c} : procs'[q] = procs[q],
         procs'[c].pc \in Evaluating => Len(c) = 3,
         c[Len(c)] < Front(procs'[p]), Front(procs[p]) <= Front(procs'[p]), Front(procs'[p]) \in Nat
  PROVE  FrontInv' /\ Nested'
<1>1. Covers(p, c)
  BY CoversItsNode
<1>2. \A q \in DOMAIN procs \ {Shell, p} : Covers(p, q) => Apart(q, c)
  BY AheadIsApart
<1>3. Nested'
  BY <1>1, <1>2, NestedGrows
<1>4. ASSUME NEW a \in DOMAIN procs', procs'[a].pc \in Evaluating,
             NEW b \in DOMAIN procs' \ {Shell, a}, Covers(a, b)
      PROVE  b[Len(b)] < Front(procs'[a])
  <2>1. CASE a = c
    <3>1. Len(c) = 3 /\ Within(b, Scope(c)) /\ b \in DOMAIN procs \ {Shell}
      BY <1>4, <2>1 DEF Covers
    <3>2. b # p
      BY <1>4, <3>1
    <3> QED  BY <1>1, <1>2, <3>1, <3>2, NothingInTheChild
  <2>2. CASE a = p /\ b = c
    BY <2>2
  <2>3. CASE a = p /\ b # c
    <3>1. b \in DOMAIN procs \ {Shell, p} /\ b[Len(b)] < Front(procs[p])
      BY <1>4, <2>3 DEF FrontInv
    <3>2. b[Len(b)] \in Nat /\ Front(procs[p]) \in Nat
      BY <3>1, IsAPid, FrontIs DEF IsPid
    <3> QED  BY <2>3, <3>1, <3>2
  <2>4. CASE a \notin {p, c} /\ b # c
    BY <1>4, <2>4 DEF FrontInv
  <2>5. CASE a \notin {p, c} /\ b = c
    <3>1. a \in DOMAIN procs \ {p, c} /\ procs'[a] = procs[a] /\ procs[a].pc \in Evaluating
      BY <1>4, <2>5
    <3>2. p # Shell /\ Covers(a, p) /\ Within(c, Scope(p)) /\ IsPid(p)
      BY <1>1, <1>2, <1>4, <2>5, <3>1, CoversTheParent
    <3>3. p[Len(p)] < Front(procs[a])
      BY <3>1, <3>2 DEF FrontInv
    <3>4. c[Len(c)] <= p[Len(p)]
      BY <3>2, WithinIs
    <3>5. c[Len(c)] \in Nat /\ p[Len(p)] \in Nat /\ Front(procs[a]) \in Nat
      BY <3>1, <3>2, FrontIs DEF IsPid
    <3> QED  BY <2>5, <3>1, <3>3, <3>4, <3>5
  <2> QED  BY <2>1, <2>2, <2>3, <2>4, <2>5
<1> QED  BY <1>3, <1>4 DEF FrontInv

-----------------------------------------------------------------------------
(* A command is waited for as long as it is there, by who started it.      *)
ParentInv ==
  \A q \in DOMAIN procs : Len(q) = 2 =>
    \E p \in DOMAIN procs : procs[p].pc = "wait" /\ CommandPid(p) = q

FlowInv == Nested /\ FrontInv /\ OneLine /\ ParentInv /\ WiringsInv /\ DataInv

(* All pipes are as they should be if the new ones and the processes that  *)
(* changed are.                                                            *)
NewInv(new) ==
  \A q \in DOMAIN procs : \A e \in DOMAIN pipes :
     e \in new /\ Reader(procs[q], e) => Sent(procs[q], e, procs, pipes[e])

LEMMA FlowMoves ==
  ASSUME ProcsInv, FlowInv, NEW p \in DOMAIN procs, procs[p].pc \notin {"wait", "run"},
         NEW r2, Becomes(p, r2), NEW new, Follows(procs[p], r2, new), WiringInv(p, r2),
         r2.path # <<>> => procs[p].path # <<>> /\ r2.line = procs[p].line,
         r2.pc \in Evaluating => /\ procs[p].pc \in Evaluating
                                 /\ Front(r2) \in Nat /\ Front(procs[p]) <= Front(r2),
         \A e \in DOMAIN pipes' \ new : e \in DOMAIN pipes /\ pipes'[e] = pipes[e],
         NewInv(new)'
  PROVE  FlowInv'
<1>1. /\ DOMAIN procs' = DOMAIN procs /\ procs'[p] = r2
      /\ \A q \in DOMAIN procs \ {p} : procs'[q] = procs[q]
  BY DEF Becomes
<1>2. FrontInv' /\ Nested'
  BY <1>1, FrontMoves DEF FlowInv
<1>3. OneLine'
  BY <1>1 DEF FlowInv, OneLine
<1>4. WiringsInv'
  BY <1>1 DEF FlowInv, WiringsInv
<1>5. ParentInv'
  <2> SUFFICES ASSUME NEW q \in DOMAIN procs', Len(q) = 2
               PROVE  \E x \in DOMAIN procs' : procs'[x].pc = "wait" /\ CommandPid(x)' = q
    BY DEF ParentInv
  <2>1. PICK x \in DOMAIN procs : procs[x].pc = "wait" /\ CommandPid(x) = q
    BY <1>1 DEF FlowInv, ParentInv
  <2>2. x # p /\ procs'[x] = procs[x]
    BY <1>1, <2>1
  <2>3. CommandPid(x)' = CommandPid(x)
    BY <2>2 DEF CommandPid, Node
  <2> QED  BY <1>1, <2>1, <2>2, <2>3
<1>6. ASSUME NEW q \in DOMAIN procs', NEW e \in DOMAIN pipes', Reader(procs'[q], e)
      PROVE  Sent(procs'[q], e, procs', pipes'[e])
  <2>1. CASE e \in new
    BY <1>6, <2>1 DEF NewInv
  <2>2. CASE e \notin new
    BY <1>1, <1>6, <2>2, DataPassed DEF FlowInv
  <2> QED  BY <2>1, <2>2
<1>7. DataInv'
  BY <1>6 DEF DataInv
<1> QED  BY <1>2, <1>3, <1>4, <1>5, <1>7 DEF FlowInv

LEMMA FlowGrows ==
  ASSUME ProcsInv, FlowInv, NEW p \in DOMAIN procs, procs[p].pc \in {"eval", "fork2"},
         NEW c, IsPid(c), c # p, c # Shell, Within(c, Top(procs[p])), Front(procs[p]) <= c[2],
         Len(c) = 3 => p = Shell \/ ~Within(p, Scope(c)),
         NEW k, NEW r2, NEW failed, Fork(p, c, k, r2, failed), fails' = fails,
         k.pc \in Evaluating => Len(c) = 3,
         c[Len(c)] < Front(r2), Front(procs[p]) <= Front(r2), Front(r2) \in Nat,
         Len(c) = 2 => r2.pc = "wait" /\ c = CommandPid(p),
         r2.path = procs[p].path /\ r2.line = procs[p].line /\ r2.no = procs[p].no,
         k.line = procs[p].line, WiringInv(p, r2), WiringInv(c, k),
         NEW new, Follows(procs[p], r2, new), Follows(procs[p], k, new),
         \A e \in DOMAIN pipes' \ new : e \in DOMAIN pipes /\ pipes'[e] = pipes[e],
         NewInv(new)'
  PROVE  FlowInv'
<1>1. /\ DOMAIN procs' = DOMAIN procs \cup {c} /\ procs'[c] = k /\ procs'[p] = r2
      /\ \A q \in DOMAIN procs \ {p, c} : procs'[q] = procs[q]
  BY Forked
<1>2. procs[p].pc \in Evaluating /\ procs[p].path # <<>>
  BY AtNode DEF Evaluating
<1>3. c \notin DOMAIN procs
  BY <1>2, AheadIsNew DEF FlowInv
<1>4. FrontInv' /\ Nested'
  BY <1>1, <1>2, FrontGrows DEF FlowInv
<1>5. OneLine'
  BY <1>1, <1>2 DEF FlowInv, OneLine
<1>6. WiringsInv'
  BY <1>1 DEF FlowInv, WiringsInv
<1>7. ParentInv'
  <2> SUFFICES ASSUME NEW q \in DOMAIN procs', Len(q) = 2
               PROVE  \E x \in DOMAIN procs' : procs'[x].pc = "wait" /\ CommandPid(x)' = q
    BY DEF ParentInv
  <2>1. CASE q = c
    <3>1. CommandPid(p)' = CommandPid(p)
      BY <1>1 DEF CommandPid, Node
    <3> QED  BY <1>1, <2>1, <3>1
  <2>2. CASE q # c
    <3>1. PICK x \in DOMAIN procs : procs[x].pc = "wait" /\ CommandPid(x) = q
      BY <1>1, <2>2 DEF FlowInv, ParentInv
    <3>2. x # p /\ x # c /\ procs'[x] = procs[x]
      BY <1>1, <1>3, <3>1
    <3>3. CommandPid(x)' = CommandPid(x)
      BY <3>2 DEF CommandPid, Node
    <3> QED  BY <1>1, <3>1, <3>2, <3>3
  <2> QED  BY <2>1, <2>2
<1>8. ASSUME NEW q \in DOMAIN procs', NEW e \in DOMAIN pipes', Reader(procs'[q], e)
      PROVE  Sent(procs'[q], e, procs', pipes'[e])
  <2>1. CASE e \in new
    BY <1>8, <2>1 DEF NewInv
  <2>2. CASE e \notin new
    <3>1. \A x \in DOMAIN procs : procs[x].pc = "run" => x \in DOMAIN procs' /\ procs'[x] = procs[x]
      BY <1>1, <1>3
    <3>2. \A x \in DOMAIN procs' : \/ x \in DOMAIN procs /\ procs'[x] = procs[x]
                                   \/ Follows(procs[p], procs'[x], new)
      BY <1>1, <1>3
    <3> QED  BY <1>8, <2>2, <3>1, <3>2, DataPassed DEF FlowInv
  <2> QED  BY <2>1, <2>2
<1>9. DataInv'
  BY <1>8 DEF DataInv
<1> QED  BY <1>4, <1>5, <1>6, <1>7, <1>9 DEF FlowInv

(* A process that is no longer to read or to write at its node.            *)
Quiet == {"wait", "close", "wait1", "wait2", "return", "prompt", "free"} \cup Ended

LEMMA QuietFollows ==
  ASSUME NEW r, NEW r2, r.pc \notin Ended, r2.pc \in Quiet,
         r2.pc \in Ended \/ (r2.out = r.out /\ r2.held \subseteq r.held), NEW new
  PROVE  Follows(r, r2, new)
<1>1. /\ r2.pc # "run" /\ r2.pc # "fork2" /\ r2.pc # "setup"
      /\ r2.pc \notin {"eval", "exec", "run"} /\ r2.pc \notin {"setup", "eval", "fork2", "exec"}
  BY DEF Quiet, Ended
<1>2. \A e : ~Reader(r2, e) /\ ~Unwritten(r2, e)
  BY <1>1 DEF Reader, Unwritten
<1>3. \A e : MayWrite(r2, e) => MayWrite(r, e)
  BY DEF MayWrite
<1> QED  BY <1>1, <1>2, <1>3 DEF Follows

(* It keeps its node.                                                      *)
Keeps(r, r2) == SameNode(r, r2) /\ r2.in = r.in /\ r2.out = r.out /\ r2.got = r.got

LEMMA QuietFront ==
  ASSUME ProcsInv, NEW p \in DOMAIN procs, procs[p].pc \in Evaluating,
         NEW r2, SameNode(procs[p], r2), r2.pc \in Quiet
  PROVE  Front(r2) = Top(procs[p])[2] + 1 /\ Front(r2) \in Nat /\ Front(procs[p]) <= Front(r2)
<1>1. Front(r2) = Top(procs[p])[2] + 1
  BY DEF Front, Quiet, Ended, SameNode, Top
<1> QED  BY <1>1, FrontIs

LEMMA QuietMove ==
  ASSUME ProcsInv, FlowInv, NEW p \in DOMAIN procs, procs[p].pc \in Settled \ {"wait", "exec"},
         NEW r2, Keeps(procs[p], r2), r2.held \subseteq procs[p].held,
         r2.pc \in Quiet \ {"prompt", "free"}, Becomes(p, r2), UNCHANGED pipes
  PROVE  FlowInv'
<1>1. procs[p].pc \in Evaluating /\ procs[p].pc \notin Ended /\ procs[p].pc \notin {"wait", "run"}
  BY DEF Settled, Evaluating, Ended
<1>2. Follows(procs[p], r2, {})
  BY <1>1, QuietFollows DEF Keeps
<1>3. WiringInv(p, r2)
  <2>1. r2.pc \in Settled \cup Ended
    BY DEF Quiet, Settled, Evaluating
  <2> QED  BY <2>1, WiringStays DEF Keeps, FlowInv, WiringsInv
<1>4. Front(r2) \in Nat /\ Front(procs[p]) <= Front(r2)
  BY <1>1, QuietFront DEF Keeps
<1>5. r2.path # <<>> => procs[p].path # <<>> /\ r2.line = procs[p].line
  BY DEF Keeps, SameNode
<1>6. NewInv({})'
  BY DEF NewInv
<1> QED  BY <1>1, <1>2, <1>3, <1>4, <1>5, <1>6, FlowMoves

LEMMA FlowShrinks ==
  ASSUME ProcsInv, FlowInv, NEW p \in DOMAIN procs, procs[p].pc \in {"wait", "wait1", "wait2"},
         NEW c, NEW r2, Wait(p, c, r2), procs[p].pc = "wait" => c = CommandPid(p),
         Keeps(procs[p], r2), r2.held \subseteq procs[p].held,
         r2.pc \in Quiet \ {"wait", "prompt", "free"}, UNCHANGED pipes
  PROVE  FlowInv'
<1>1. /\ c \in DOMAIN procs /\ procs[c].pc \in Ended /\ c # p
      /\ DOMAIN procs' = DOMAIN procs \ {c} /\ procs'[p] = r2
      /\ \A q \in DOMAIN procs' \ {p} : procs'[q] = procs[q]
  BY DEF Wait, Alive, Ended
<1>2. /\ procs[p].pc \in Evaluating /\ procs[p].pc \notin Ended /\ procs[p].pc # "run"
      /\ procs[p].pc \in Settled
  BY DEF Settled, Evaluating, Ended
<1>3. Follows(procs[p], r2, {})
  BY <1>2, QuietFollows DEF Keeps
<1>4. WiringInv(p, r2)
  <2>1. r2.pc \in Settled \cup Ended
    BY DEF Quiet, Settled, Evaluating
  <2> QED  BY <1>2, <2>1, WiringStays DEF Keeps, FlowInv, WiringsInv
<1>5. FrontInv' /\ Nested'
  <2>1. Front(r2) \in Nat /\ Front(procs[p]) <= Front(r2)
    BY <1>2, QuietFront DEF Keeps
  <2> QED  BY <1>1, <1>2, <2>1, FrontMoves DEF FlowInv
<1>6. OneLine'
  BY <1>1 DEF FlowInv, OneLine, Keeps, SameNode
<1>7. WiringsInv'
  BY <1>1, <1>4 DEF FlowInv, WiringsInv
<1>8. ParentInv'
  <2> SUFFICES ASSUME NEW q \in DOMAIN procs', Len(q) = 2
               PROVE  \E x \in DOMAIN procs' : procs'[x].pc = "wait" /\ CommandPid(x)' = q
    BY DEF ParentInv
  <2>1. PICK x \in DOMAIN procs : procs[x].pc = "wait" /\ CommandPid(x) = q
    BY <1>1 DEF FlowInv, ParentInv
  <2>2. x # c /\ x # p
    BY <1>1, <2>1 DEF Ended
  <2>3. CommandPid(x)' = CommandPid(x)
    BY <1>1, <2>2 DEF CommandPid, Node
  <2> QED  BY <1>1, <2>1, <2>2, <2>3
<1>9. ASSUME NEW q \in DOMAIN procs', NEW e \in DOMAIN pipes', Reader(procs'[q], e)
      PROVE  Sent(procs'[q], e, procs', pipes'[e])
  <2>1. \A x \in DOMAIN procs : procs[x].pc = "run" => x \in DOMAIN procs' /\ procs'[x] = procs[x]
    BY <1>1, <1>2 DEF Ended
  <2>2. \A x \in DOMAIN procs' : \/ x \in DOMAIN procs /\ procs'[x] = procs[x]
                                 \/ Follows(procs[p], procs'[x], {})
    BY <1>1, <1>3
  <2>3. e \notin {} /\ \A x \in DOMAIN pipes' \ {} : x \in DOMAIN pipes /\ pipes'[x] = pipes[x]
    OBVIOUS
  <2>4. WiringsInv /\ OneLine /\ DataInv
    BY DEF FlowInv
  <2> QED  BY <1>2, <1>9, <2>1, <2>2, <2>3, <2>4, DataPassed
<1>10. DataInv'
  BY <1>9 DEF DataInv
<1> QED  BY <1>5, <1>6, <1>7, <1>8, <1>10 DEF FlowInv

LEMMA ReturnsKeep ==
  ASSUME NEW r, DOMAIN r = Fields, r.left \in Int, NEW s
  PROVE  Keeps(r, Returns(r, s)) /\ Returns(r, s).pc = "return" /\ Returns(r, s).held = r.held
<1>1. Returns(r, s).got = r.got
  BY DEF Returns, Fields
<1> QED  BY <1>1, ReturnsIs DEF Keeps

LEMMA ExitsKeep ==
  ASSUME NEW r, DOMAIN r = Fields, r.left \in Int, NEW s
  PROVE  Keeps(r, Exits(r, s)) /\ Exits(r, s).pc = "exited" /\ Exits(r, s).held = {}
<1>1. Exits(r, s).got = r.got /\ Exits(r, s).in = r.in /\ Exits(r, s).out = r.out
  BY DEF Exits, Fields
<1> QED  BY <1>1, ExitsIs DEF Keeps

LEMMA BuiltinFlow ==
  ASSUME ProcsInv, FlowInv, NEW p \in DOMAIN procs, Builtin(p)
  PROVE  FlowInv'
<1> DEFINE r == procs[p]
<1>1. r.pc = "eval" /\ UNCHANGED pipes /\ r.pc \in Settled \ {"wait", "exec"}
  BY DEF Builtin, Settled, Evaluating
<1>2. DOMAIN r = Fields /\ r.left \in Int
  BY ProcIs DEF PlaceInv
<1>3. ASSUME NEW t, t = r \/ (\E x : t = [r EXCEPT !.cwd = x] \/ t = [r EXCEPT !.env = x])
      PROVE  DOMAIN t = Fields /\ t.left \in Int /\ Keeps(r, t) /\ t.held = r.held
  BY <1>2, <1>3 DEF Keeps, SameNode, Fields
<1>4. ASSUME NEW s, NEW t, t = r \/ (\E x : t = [r EXCEPT !.cwd = x] \/ t = [r EXCEPT !.env = x])
      PROVE  /\ Keeps(r, Returns(t, s)) /\ Returns(t, s).held \subseteq r.held
             /\ Returns(t, s).pc \in Quiet \ {"prompt", "free"}
  <2>1. DOMAIN t = Fields /\ t.left \in Int /\ Keeps(r, t) /\ t.held = r.held
    BY <1>3, <1>4
  <2>2. Keeps(t, Returns(t, s)) /\ Returns(t, s).pc = "return" /\ Returns(t, s).held = t.held
    BY <2>1, ReturnsKeep
  <2> QED  BY <2>1, <2>2 DEF Keeps, SameNode, Quiet
<1>5. PICK r2 : /\ Becomes(p, r2) /\ Keeps(r, r2) /\ r2.held \subseteq r.held
                /\ r2.pc \in Quiet \ {"prompt", "free"}
  <2>1. CASE ShellCd(p)
    <3>1. PICK s, x : Becomes(p, Returns([r EXCEPT !.cwd = x], s))
      BY <2>1 DEF ShellCd
    <3> QED  BY <1>4, <3>1
  <2>2. CASE ShellPwd(p)
    <3>1. PICK s : Becomes(p, Returns(r, s))
      BY <2>2 DEF ShellPwd
    <3> QED  BY <1>4, <3>1
  <2>3. CASE SetVariable(p)
    <3>1. PICK s, x : Becomes(p, Returns([r EXCEPT !.env = x], s))
      BY <2>3 DEF SetVariable
    <3> QED  BY <1>4, <3>1
  <2>4. CASE ShellExit(p)
    <3>1. Becomes(p, Exits(r, 0))
      BY <2>4 DEF ShellExit
    <3>2. Keeps(r, Exits(r, 0)) /\ Exits(r, 0).pc = "exited" /\ Exits(r, 0).held = {}
      BY <1>2, ExitsKeep
    <3> QED  BY <3>1, <3>2 DEF Quiet, Ended
  <2> QED  BY <2>1, <2>2, <2>3, <2>4 DEF Builtin
<1> QED  BY <1>1, <1>5, QuietMove

LEMMA ClosePipeFlow ==
  ASSUME ProcsInv, FlowInv, NEW p \in DOMAIN procs, ClosePipe(p)
  PROVE  FlowInv'
<1> DEFINE r == procs[p]
           r2 == [r EXCEPT !.pc = "wait1", !.held = @ \ Closed(Pid(p, Node(p)))]
<1>1. r.pc = "close" /\ Becomes(p, r2) /\ UNCHANGED pipes /\ r.pc \in Settled \ {"wait", "exec"}
  BY DEF ClosePipe, Settled, Evaluating
<1>2. DOMAIN r = Fields /\ r.left \in Int
  BY ProcIs DEF PlaceInv
<1>3. Keeps(r, r2) /\ r2.held \subseteq r.held /\ r2.pc \in Quiet \ {"prompt", "free"}
  BY <1>2 DEF Keeps, SameNode, Fields, Quiet
<1> HIDE DEF r2
<1> QED  BY <1>1, <1>3, QuietMove

LEMMA WaitCommandFlow ==
  ASSUME ProcsInv, FlowInv, NEW p \in DOMAIN procs, WaitCommand(p)
  PROVE  FlowInv'
<1> DEFINE r == procs[p]
           r2 == Returns(r, procs[CommandPid(p)].status)
<1>1. r.pc = "wait" /\ Wait(p, CommandPid(p), r2) /\ UNCHANGED pipes
  BY DEF WaitCommand
<1>2. DOMAIN r = Fields /\ r.left \in Int
  BY ProcIs DEF PlaceInv
<1>3. Keeps(r, r2) /\ r2.held \subseteq r.held /\ r2.pc \in Quiet \ {"wait", "prompt", "free"}
  BY <1>2, ReturnsKeep DEF Quiet
<1> HIDE DEF r2
<1> QED  BY <1>1, <1>3, FlowShrinks

LEMMA WaitOperand1Flow ==
  ASSUME ProcsInv, FlowInv, NEW p \in DOMAIN procs, WaitOperand1(p)
  PROVE  FlowInv'
<1> DEFINE r == procs[p]
           r2 == [r EXCEPT !.pc = "wait2"]
           c == Pid(p, Operand(p, 1))
<1>1. r.pc = "wait1" /\ Wait(p, c, r2) /\ UNCHANGED pipes
  BY DEF WaitOperand1
<1>2. DOMAIN r = Fields /\ r.left \in Int
  BY ProcIs DEF PlaceInv
<1>3. Keeps(r, r2) /\ r2.held \subseteq r.held /\ r2.pc \in Quiet \ {"wait", "prompt", "free"}
  BY <1>2 DEF Keeps, SameNode, Fields, Quiet
<1> HIDE DEF r2, c
<1> QED  BY <1>1, <1>3, FlowShrinks

LEMMA WaitOperand2Flow ==
  ASSUME ProcsInv, FlowInv, NEW p \in DOMAIN procs, WaitOperand2(p)
  PROVE  FlowInv'
<1> DEFINE r == procs[p]
           c == Pid(p, Operand(p, 2))
<1>1. PICK r2 : /\ \E s : r2 = Returns(r, s) \/ r2 = Exits(r, s)
                /\ r.pc = "wait2" /\ Wait(p, c, r2) /\ UNCHANGED pipes
  <2> DEFINE r3 == IF NodeOp(p) = "&" THEN Returns(r, 0)
                   ELSE IF procs[c].pc = "killed" THEN Exits(r, Failure)
                   ELSE Returns(r, procs[c].status)
  <2>1. r.pc = "wait2" /\ Wait(p, c, r3) /\ UNCHANGED pipes
    BY DEF WaitOperand2
  <2>2. \E s : r3 = Returns(r, s) \/ r3 = Exits(r, s)
    OBVIOUS
  <2> HIDE DEF r3
  <2> QED  BY <2>1, <2>2
<1>2. DOMAIN r = Fields /\ r.left \in Int
  BY ProcIs DEF PlaceInv
<1>3. Keeps(r, r2) /\ r2.held \subseteq r.held /\ r2.pc \in Quiet \ {"wait", "prompt", "free"}
  BY <1>1, <1>2, ReturnsKeep, ExitsKeep DEF Quiet, Ended
<1> HIDE DEF c
<1> QED  BY <1>1, <1>3, FlowShrinks

(* No command that was started is at or past the front of any process, so  *)
(* the one that reads a pipe is its only reader, and while one writes to   *)
(* it no other is about to.                                                *)
LEMMA NoneAhead ==
  ASSUME ProcsInv, FrontInv, NEW p \in DOMAIN procs, procs[p].pc \in Evaluating,
         NEW x \in DOMAIN procs, procs[x].pc \in {"exec", "run"},
         Front(procs[p]) <= Top(procs[x])[1], Top(procs[x])[1] <= Top(procs[p])[2]
  PROVE  FALSE
<1>1. /\ x = <<lineNo, Top(procs[x])[1]>> /\ Top(procs[x])[1] \in Nat
      /\ x # Shell /\ IsPid(x) /\ Len(x) = 2
  BY CommandIs
<1> DEFINE i == Top(procs[x])[1]
           n == Top(procs[p])
           f == Front(procs[p])
<1>2. f \in Nat /\ n[1] <= f /\ n[1] \in Nat /\ n[2] \in Nat /\ f <= i /\ i <= n[2] /\ i \in Nat
  BY <1>1, FrontIs
<1>3. x[2] = i /\ x[Len(x)] = i
  BY <1>1
<1>4. x # p
  BY <1>1 DEF Evaluating
<1> HIDE DEF i, n, f
<1>5. n[1] <= i
  BY <1>2
<1>6. Within(x, n)
  BY <1>1, <1>2, <1>3, <1>5, WithinIs
<1> QED  BY <1>1, <1>2, <1>3, <1>4, <1>6, AheadIsNew DEF n, f

LEMMA OneReader ==
  ASSUME ProcsInv, FlowInv, NEW x \in DOMAIN procs, procs[x].pc = "run", NEW e, Reader(procs[x], e),
         NEW q \in DOMAIN procs, Reader(procs[q], e)
  PROVE  q = x
<1>1. ProcInv(x, procs[x], lineNo, DOMAIN pipes) /\ ProcInv(q, procs[q], lineNo, DOMAIN pipes)
      /\ WiringInv(x, procs[x]) /\ WiringInv(q, procs[q]) /\ lineNo \in Nat
  BY DEF ProcsInv, FlowInv, WiringsInv
<1>2. Top(procs[x])[1] = e[3] /\ x = <<lineNo, Top(procs[x])[1]>> /\ Top(procs[x])[1] \in Nat
  BY <1>1, ReaderIs, CommandIs
<1>3. CASE procs[q].pc \in {"exec", "run"}
  BY <1>1, <1>2, <1>3, ReaderIs, CommandIs
<1>4. CASE procs[q].pc = "fork2"
  <2>1. Top(procs[q])[2] = e[3] /\ Cmd2(procs[q].line, Top(procs[q])) = <<e[3], e[3]>>
    BY <1>1, <1>4, ReaderIs
  <2>2. Front(procs[q]) = e[3]
    BY <1>4, <2>1 DEF Front
  <2> QED  BY <1>2, <1>4, <2>1, <2>2, NoneAhead DEF FlowInv, Evaluating
<1>5. CASE procs[q].pc \in {"eval", "setup"}
  <2>1. Top(procs[q])[1] = e[3] /\ Front(procs[q]) = e[3]
    BY <1>1, <1>5, ReaderIs DEF Front
  <2>2. Top(procs[q])[1] <= Top(procs[q])[2]
    BY <1>5, AtNode, NodeIs DEF Evaluating
  <2> QED  BY <1>2, <1>5, <2>1, <2>2, NoneAhead DEF FlowInv, Evaluating
<1> QED  BY <1>3, <1>4, <1>5 DEF Reader

LEMMA NoneUnwritten ==
  ASSUME ProcsInv, FlowInv, NEW x \in DOMAIN procs, NEW e, IsPipe(e), Writes(x, e, procs),
         NEW q \in DOMAIN procs, Unwritten(procs[q], e)
  PROVE  FALSE
<1>1. /\ x = <<lineNo, Top(procs[x])[1]>> /\ Top(procs[x])[1] \in Nat /\ procs[x].pc = "run"
      /\ x = <<e[1], e[3] - 1>>
  BY CommandIs, WriterIs DEF Writes, FlowInv
<1>2. Top(procs[x])[1] = e[3] - 1 /\ e[3] = Top(procs[q])[2] + 1
  BY <1>1 DEF Unwritten
<1>3. CASE procs[q].pc = "exec"
  <2>1. q = <<lineNo, Top(procs[q])[1]>> /\ Top(procs[q])[1] = Top(procs[q])[2] /\ Top(procs[q])[2] \in Nat
    BY <1>3, CommandIs
  <2>2. Top(procs[q])[1] = Top(procs[x])[1]
    BY <1>2, <2>1
  <2> QED  BY <1>1, <1>3, <2>1, <2>2
<1>4. CASE procs[q].pc \in {"setup", "eval", "fork2"}
  <2>1. procs[q].pc \in Evaluating /\ Top(procs[q]) \in NodesOf(procs[q].line)
    BY <1>4, AtNode DEF Evaluating
  <2>2. Top(procs[q])[1] <= Top(procs[q])[2] /\ Top(procs[q])[2] \in Nat
    BY <2>1, NodeIs
  <2>3. Front(procs[q]) <= Top(procs[q])[2]
    <3>1. CASE procs[q].pc = "fork2"
      <4> DEFINE n2 == Cmd2(procs[q].line, Top(procs[q]))
      <4>1. n2[1] <= n2[2] /\ n2[2] <= Top(procs[q])[2] /\ n2[1] \in Nat /\ n2[2] \in Nat
        BY <3>1, OperandsOf
      <4>2. Front(procs[q]) = n2[1]
        BY <3>1 DEF Front
      <4> HIDE DEF n2
      <4> QED  BY <2>2, <4>1, <4>2
    <3>2. CASE procs[q].pc # "fork2"
      BY <1>4, <2>2, <3>2 DEF Front
    <3> QED  BY <3>1, <3>2
  <2>4. Top(procs[x])[1] = Top(procs[q])[2]
    BY <1>2, <2>2
  <2> QED  BY <1>1, <2>1, <2>2, <2>3, <2>4, NoneAhead DEF FlowInv
<1> QED  BY <1>3, <1>4 DEF Unwritten

(* Nothing went through the pipe that run_on_pipe makes.                   *)
LEMMA NewPipeIsEmpty ==
  ASSUME ProcsInv, FlowInv, NEW p \in DOMAIN procs, procs[p].pc = "eval",
         Op(procs[p].line, Top(procs[p])) = "|",
         NEW e, e = PipeOf(procs[p]), pipes'[e] = <<>>,
         \A x \in DOMAIN procs' : \/ x \in DOMAIN procs /\ procs'[x] = procs[x]
                                  \/ procs'[x].pc # "run" /\ procs'[x].got = <<>>
  PROVE  NewInv({e})'
<1> DEFINE n == Top(procs[p])
<1>1. /\ n \in NodesOf(procs[p].line) /\ procs[p].line \in Lines /\ procs[p].no = lineNo
      /\ procs[p].path # <<>> /\ lineNo \in Nat
  BY AtNode DEF Evaluating
<1>2. Placed(procs[p].line, n)
  BY <1>1, ProcIs, TopIsPlaced DEF FlowInv, WiringsInv, WiringInv
<1>3. Into(procs[p].line, lineNo, e, e[3]) /\ e = <<lineNo, n[1], n[2]>> /\ e[3] = n[2] /\ IsPipe(e)
  <2>1. e = <<lineNo, n[1], n[2]>>
    BY <1>1 DEF PipeOf
  <2>2. Into(procs[p].line, lineNo, <<lineNo, n[1], n[2]>>, n[2])
    BY <1>1, <1>2, PipeOfNode
  <2> HIDE DEF n
  <2>3. e[3] = n[2]
    BY <2>1
  <2> QED  BY <2>1, <2>2, <2>3, IntoIs
<1>4. n[1] \in Nat /\ n[2] \in Nat /\ n[1] < n[2] /\ Front(procs[p]) = n[1]
  <2>1. ~IsLeaf(n)
    BY NotALeaf DEF None
  <2> QED  BY <1>1, <2>1, NodeIs DEF IsLeaf, Front
<1>5. ASSUME NEW x \in DOMAIN procs, procs[x].pc = "run" PROVE ~Reader(procs[x], e) /\ procs[x].out # e
  <2>1. /\ x = <<lineNo, Top(procs[x])[1]>> /\ Top(procs[x])[1] \in Nat
    BY <1>5, CommandIs
  <2>2. ASSUME Reader(procs[x], e) PROVE FALSE
    <3>1. ProcInv(x, procs[x], lineNo, DOMAIN pipes) /\ WiringInv(x, procs[x])
      BY DEF ProcsInv, FlowInv, WiringsInv
    <3>2. Top(procs[x])[1] = n[2]
      BY <1>1, <1>3, <1>5, <2>2, <3>1, ReaderIs
    <3>3. Front(procs[p]) <= Top(procs[x])[1] /\ Top(procs[x])[1] <= n[2]
      BY <1>4, <3>2
    <3> QED  BY <1>5, <3>3, NoneAhead DEF FlowInv, Evaluating
  <2>3. ASSUME procs[x].out = e PROVE FALSE
    <3>1. Writes(x, e, procs)
      BY <1>5, <2>3 DEF Writes
    <3>2. x = <<e[1], e[3] - 1>>
      BY <1>3, <3>1, WriterIs DEF FlowInv
    <3>3. Top(procs[x])[1] = n[2] - 1
      BY <1>3, <2>1, <3>2
    <3>4. Front(procs[p]) <= Top(procs[x])[1] /\ Top(procs[x])[1] <= n[2]
      BY <1>4, <3>3
    <3> QED  BY <1>5, <3>4, NoneAhead DEF FlowInv, Evaluating
  <2> QED  BY <2>2, <2>3
<1>6. \A w : ~Writes(w, e, procs')
  BY <1>5 DEF Writes
<1>7. ASSUME NEW q \in DOMAIN procs', Reader(procs'[q], e)
      PROVE  Sent(procs'[q], e, procs', pipes'[e])
  <2>1. procs'[q].pc # "run" /\ procs'[q].got = <<>>
    <3>1. CASE q \in DOMAIN procs /\ procs'[q] = procs[q]
      <4>1. procs[q].pc # "run"
        BY <1>5, <1>7, <3>1
      <4>2. procs[q].pc \notin Ended
        BY <1>7, <3>1 DEF Reader, Ended
      <4> QED  BY <3>1, <4>1, <4>2 DEF FlowInv, WiringsInv, WiringInv
    <3> QED  BY <1>7, <3>1
  <2>2. procs'[q].got \o pipes'[e] = <<>>
    BY <2>1
  <2>3. <<>> = [k \in 1..0 |-> <<<<e[1], e[3] - 1>>, k>>] /\ Len(<<>>) = 0
    OBVIOUS
  <2> QED  BY <1>6, <2>1, <2>2, <2>3 DEF Sent
<1> QED  BY <1>7 DEF NewInv

-----------------------------------------------------------------------------
(* Each step lets the pipes deliver.                                       *)
LEMMA ForkCommandFlow ==
  ASSUME ProcsInv, FlowInv, NEW p \in DOMAIN procs, ForkCommand(p)
  PROVE  FlowInv'
<1> DEFINE r == procs[p]
           n == Top(r)
           c == CommandPid(p)
           k == Child(p, "exec", Node(p))
           r2 == [r EXCEPT !.pc = "wait"]
           r3 == Returns(r, Failure)
<1>1. /\ r.pc = "eval" /\ IsLeaf(Node(p)) /\ Fork(p, c, k, r2, r3) /\ UNCHANGED pipes
      /\ r.pc \in Evaluating /\ r.pc \in Settled /\ r.pc \in Settled \ {"wait", "exec"}
  BY DEF ForkCommand, Evaluating, Settled
<1>2. /\ DOMAIN r = Fields /\ r.left \in Int /\ n \in NodesOf(r.line) /\ r.no = lineNo
      /\ c = <<lineNo, n[1]>> /\ lineNo \in Nat /\ Node(p) = n /\ r.path # <<>>
  BY <1>1, AtNode
<1>3. n[1] \in Nat /\ n[2] \in Nat /\ n[1] = n[2]
  BY <1>1, <1>2, NodeIs DEF IsLeaf
<1>4. StackInv(r) /\ WiringInv(p, r)
  BY ProcIs DEF FlowInv, WiringsInv
<1>5. CASE fails' = fails
  <2>1. /\ Len(c) = 2 /\ c[2] = n[1] /\ c[Len(c)] = n[1] /\ IsPid(c) /\ c # Shell /\ Within(c, n)
    <3>1. Len(c) = 2 /\ c[2] = n[1] /\ c # Shell
      BY <1>2 DEF Shell
    <3> HIDE DEF c, n
    <3>2. c[Len(c)] = n[1]
      BY <3>1
    <3>3. IsPid(c)
      BY <1>3, <3>1, <3>2 DEF IsPid
    <3> QED  BY <1>3, <3>1, <3>2, <3>3, WithinIs
  <2>2. c # p
    <3>1. p # Shell => Len(p) = 3
      BY <1>1, <2>1, CoversItsNode
    <3> QED  BY <2>1, <3>1
  <2>3. Keeps(r, r2) /\ r2.pc = "wait" /\ r2.held = r.held
    BY <1>2 DEF Keeps, SameNode, Fields
  <2>4. /\ k.pc = "exec" /\ k.path = <<n>> /\ k.line = r.line /\ k.no = r.no /\ k.in = r.in
        /\ k.out = r.out /\ k.held = r.held /\ k.got = r.got
    <3>1. k.got = r.got
      BY <1>2 DEF Child, Fields
    <3> QED  BY <1>2, <3>1, ChildIs
  <2>5. Fork(p, c, k, r2, r3)
    BY <1>1
  <2>6. UNCHANGED pipes
    BY <1>1
  <2> HIDE DEF k, r2, r3, c
  <2>7. WiringInv(p, r2)
    <3>1. r2.pc \in Settled \cup Ended
      BY <2>3 DEF Settled, Evaluating
    <3> QED  BY <1>1, <1>4, <2>3, <3>1, WiringStays DEF Keeps
  <2>8. WiringInv(c, k)
    BY <1>1, <1>2, <1>4, <2>1, <2>4, WiringOfCommand
  <2>9. Follows(r, r2, {})
    BY <1>1, <2>3, QuietFollows DEF Keeps, Quiet, Ended
  <2>10. Follows(r, k, {})
    <3>1. Top(k) = n
      BY <2>4 DEF Top
    <3>2. \A e : Reader(k, e) => Reader(r, e)
      BY <1>1, <2>4 DEF Reader
    <3>3. \A e : Unwritten(k, e) => Unwritten(r, e)
      BY <1>1, <3>1 DEF Unwritten
    <3>4. \A e : MayWrite(k, e) => MayWrite(r, e)
      BY <1>1, <2>4 DEF MayWrite, Ended
    <3> QED  BY <2>4, <3>2, <3>3, <3>4 DEF Follows
  <2>11. Front(r) = n[1] /\ Front(r2) = n[2] + 1
    BY <1>1, <2>3 DEF Front, Keeps, SameNode, Top
  <2>12. /\ Front(r) <= c[2] /\ c[Len(c)] < Front(r2) /\ Front(r) <= Front(r2) /\ Front(r2) \in Nat
    <3> HIDE DEF n
    <3> QED  BY <1>3, <2>1, <2>11
  <2>13. NewInv({})'
    BY DEF NewInv
  <2>14. k.pc \in Evaluating => Len(c) = 3
    BY <2>4 DEF Evaluating
  <2>15. Len(c) = 2 => r2.pc = "wait" /\ c = CommandPid(p)
    BY <2>3 DEF c
  <2>16. r2.path = r.path /\ r2.line = r.line /\ r2.no = r.no
    BY <2>3 DEF Keeps, SameNode
  <2>17. Len(c) = 3 => p = Shell \/ ~Within(p, Scope(c))
    BY <2>1
  <2> HIDE DEF n
  <2> QED  BY <1>1, <1>5, <2>1, <2>2, <2>4, <2>5, <2>6, <2>7, <2>8, <2>9, <2>10, <2>12, <2>13, <2>14,
              <2>15, <2>16, <2>17, FlowGrows DEF n
<1>6. CASE fails' # fails
  <2>1. Becomes(p, r3)
    BY <1>1, <1>6 DEF Fork
  <2>2. Keeps(r, r3) /\ r3.held \subseteq r.held /\ r3.pc \in Quiet \ {"prompt", "free"}
    BY <1>2, ReturnsKeep DEF Quiet
  <2> HIDE DEF r3
  <2> QED  BY <1>1, <2>1, <2>2, QuietMove
<1> QED  BY <1>5, <1>6

(* The copies of p for its operands are new processes.                     *)
LEMMA CopyOfOperand1 ==
  ASSUME ProcsInv, NEW p \in DOMAIN procs, procs[p].pc = "eval", NodeOp(p) \in {"&", "|"}
  PROVE  LET r == procs[p]
             n == Top(r)
             n1 == Cmd1(r.line, n)
             c == Pid(p, Operand(p, 1))
         IN  /\ IsPid(c) /\ Len(c) = 3 /\ c # Shell /\ c # p /\ Within(c, n)
             /\ p = Shell \/ ~Within(p, Scope(c))
             /\ c[2] = n[1] /\ c[Len(c)] = n1[2] /\ Front(r) = n[1]
             /\ n1[2] < Cmd2(r.line, n)[1] /\ n[1] < Cmd2(r.line, n)[1]
             /\ Cmd2(r.line, n)[1] \in Nat /\ n1[2] \in Nat /\ n[1] \in Nat
<1> DEFINE r == procs[p]
           n == Top(r)
           n1 == Cmd1(r.line, n)
           n2 == Cmd2(r.line, n)
           c == Pid(p, Operand(p, 1))
<1>2. /\ n \in NodesOf(r.line) /\ r.line \in Lines /\ NodeOp(p) = Op(r.line, n)
      /\ c = <<lineNo, n1[1], n1[2]>> /\ lineNo \in Nat
  BY AtNode DEF Evaluating
<1>3. /\ n[1] \in Nat /\ n[2] \in Nat /\ n1[1] \in Nat /\ n1[2] \in Nat /\ n2[1] \in Nat
      /\ n1[1] <= n1[2] /\ n[1] = n1[1] /\ n1[2] <= n[2] /\ n1[2] < n[2] /\ n1[2] < n2[1] /\ n[1] < n2[1]
  <2>1. ~IsLeaf(n)
    BY <1>2, NotALeaf DEF None
  <2>2. n1 \in NodesOf(r.line) /\ n2 \in NodesOf(r.line) /\ Sub(n1, n) /\ n1[2] < n[2] /\ n1[2] < n2[1]
        /\ n[1] < n2[1]
    BY <1>2, <2>1, OperandsAre
  <2>3. n1[1] = n[1]
    BY DEF Cmd1
  <2> HIDE DEF n1, n2, n
  <2> QED  BY <1>2, <2>2, <2>3, NodeIs DEF Sub
<1>4. Front(r) = n[1]
  BY DEF Front
<1> HIDE DEF c, n1, n2, n
<1>5. /\ IsPid(c) /\ Len(c) = 3 /\ c # Shell /\ c[2] = n1[1] /\ c[Len(c)] = n1[2] /\ Scope(c)[2] = n1[2]
  BY <1>2, <1>3, CopyIsPid
<1>6. Within(c, n)
  BY <1>3, <1>5, WithinIs
<1>7. p # Shell => IsPid(p) /\ Len(p) = 3 /\ n[2] <= p[3] /\ p[3] \in Nat
  BY <1>5, <1>6, CoversItsNode DEF n, Evaluating
<1>8. ASSUME p # Shell, Within(p, Scope(c)) PROVE FALSE
  <2>1. p[3] <= n1[2]
    BY <1>5, <1>7, <1>8, WithinIs
  <2> QED  BY <1>3, <1>7, <1>8, <2>1
<1>9. c # p
  BY <1>5, <1>8, WithinItself
<1> QED  BY <1>3, <1>4, <1>5, <1>6, <1>8, <1>9 DEF c, n1, n2, n

LEMMA CopyOfOperand2 ==
  ASSUME ProcsInv, NEW p \in DOMAIN procs, procs[p].pc = "fork2"
  PROVE  LET r == procs[p]
             n == Top(r)
             n2 == Cmd2(r.line, n)
             c == Pid(p, Operand(p, 2))
         IN  /\ IsPid(c) /\ Len(c) = 3 /\ c # Shell /\ c # p /\ Within(c, n)
             /\ p = Shell \/ ~Within(p, Scope(c))
             /\ Front(r) <= c[2] /\ c[Len(c)] < n[2] + 1 /\ Front(r) <= n[2] + 1 /\ n[2] + 1 \in Nat
<1> DEFINE r == procs[p]
           n == Top(r)
           n2 == Cmd2(r.line, n)
           c == Pid(p, Operand(p, 2))
<1>2. c = <<lineNo, n2[1], n2[2]>> /\ lineNo \in Nat
  BY AtNode DEF Evaluating
<1>3. /\ n[1] \in Nat /\ n[2] \in Nat /\ n2[1] \in Nat /\ n2[2] \in Nat /\ n2[1] <= n2[2]
      /\ n2[2] <= n[2] /\ n[1] < n2[1]
  BY OperandsOf
<1>4. Front(r) = n2[1]
  BY DEF Front
<1> HIDE DEF c, n2, n
<1>5. /\ IsPid(c) /\ Len(c) = 3 /\ c # Shell /\ c[2] = n2[1] /\ c[Len(c)] = n2[2] /\ Scope(c)[1] = n2[1]
  BY <1>2, <1>3, CopyIsPid
<1>6. Within(c, n)
  BY <1>3, <1>5, WithinIs
<1>7. p # Shell => IsPid(p) /\ p[2] <= n[1]
  BY <1>5, <1>6, CoversItsNode DEF n, Evaluating
<1>8. ASSUME p # Shell, Within(p, Scope(c)) PROVE FALSE
  <2>1. n2[1] <= p[2] /\ p[2] \in Nat
    BY <1>5, <1>7, <1>8, WithinIs DEF IsPid
  <2> QED  BY <1>3, <1>7, <1>8, <2>1
<1>9. c # p
  BY <1>5, <1>8, WithinItself
<1>10. Front(r) <= c[2] /\ c[Len(c)] < n[2] + 1 /\ Front(r) <= n[2] + 1 /\ n[2] + 1 \in Nat
  BY <1>3, <1>4, <1>5
<1> QED  BY <1>5, <1>6, <1>8, <1>9, <1>10 DEF c, n

LEMMA ForkOperand1Flow ==
  ASSUME ProcsInv, FlowInv, NEW p \in DOMAIN procs, ForkOperand1(p)
  PROVE  FlowInv'
<1> DEFINE r == procs[p]
           n == Top(r)
           n1 == Cmd1(r.line, n)
           n2 == Cmd2(r.line, n)
           c == Pid(p, Operand(p, 1))
           held == IF NodeOp(p) = "|" THEN Ends(Pid(p, Node(p))) ELSE {}
           pc == IF NodeOp(p) = "|" THEN "setup" ELSE "eval"
           k0 == Child(p, pc, Operand(p, 1))
           k == [k0 EXCEPT !.held = @ \cup held]
           r2 == [r EXCEPT !.pc = "fork2", !.held = @ \cup held]
           r3 == IF NodeOp(p) = "|" THEN Exits(r, Failure) ELSE Returns(r, 0)
<1>0. PICK e0 : e0 = PipeOf(r)
  OBVIOUS
<1>1. /\ r.pc = "eval" /\ NodeOp(p) \in {"&", "|"} /\ Fork(p, c, k, r2, r3)
      /\ pipes' = (IF NodeOp(p) = "|" THEN With(pipes, Pid(p, Node(p)), <<>>) ELSE pipes)
      /\ r.pc \in Evaluating /\ r.pc \in Settled /\ r.pc \notin Ended
      /\ r.pc \in {"eval", "fork2"} /\ r.pc \in Settled \ {"wait", "exec"} /\ r.pc \notin {"wait", "run"}
  BY DEF ForkOperand1, Evaluating, Settled, Ended
<1>2. /\ DOMAIN r = Fields /\ r.left \in Int /\ n \in NodesOf(r.line) /\ r.no = lineNo /\ r.line \in Lines
      /\ NodeOp(p) = Op(r.line, n) /\ Pid(p, Node(p)) = e0 /\ Operand(p, 1) = n1 /\ r.path # <<>>
      /\ ~IsLeaf(n)
  <2>1. NodeOp(p) = Op(r.line, n)
    BY <1>1, AtNode
  <2>2. ~IsLeaf(n)
    BY <1>1, <2>1, NotALeaf DEF None
  <2> QED  BY <1>0, <1>1, <2>1, <2>2, AtNode
<1>3. StackInv(r) /\ WiringInv(p, r) /\ Placed(r.line, n) /\ r.got = <<>>
  <2>1. StackInv(r) /\ WiringInv(p, r)
    BY ProcIs DEF FlowInv, WiringsInv
  <2> QED  BY <1>1, <1>2, <2>1, TopIsPlaced DEF WiringInv, Ended
<1>4. /\ IsPid(c) /\ Len(c) = 3 /\ c # Shell /\ c # p /\ Within(c, n)
      /\ p = Shell \/ ~Within(p, Scope(c))
      /\ c[2] = n[1] /\ c[Len(c)] = n1[2] /\ Front(r) = n[1]
      /\ n1[2] < n2[1] /\ n[1] < n2[1] /\ n2[1] \in Nat /\ n1[2] \in Nat /\ n[1] \in Nat
  BY <1>1, CopyOfOperand1
<1>5. /\ SameNode(r, r2) /\ r2.in = r.in /\ r2.out = r.out /\ r2.got = r.got
      /\ r2.pc = "fork2" /\ r2.held = r.held \cup held
  BY <1>2 DEF SameNode, Fields
<1>6. /\ k.pc = pc /\ k.path = <<n1>> /\ k.line = r.line /\ k.no = r.no /\ k.in = r.in
      /\ k.out = r.out /\ k.held = r.held \cup held /\ k.got = r.got /\ k.pipe = e0
  <2>1. k0.got = r.got
    BY <1>2 DEF Child, Fields
  <2>2. /\ DOMAIN k0 = Fields /\ k0.pc = pc /\ k0.path = <<n1>> /\ k0.line = r.line /\ k0.no = r.no
        /\ k0.in = r.in /\ k0.out = r.out /\ k0.held = r.held /\ k0.pipe = e0
    BY <1>2, ChildIs
  <2> HIDE DEF k0, pc, held
  <2> QED  BY <2>1, <2>2 DEF Fields
<1>7. /\ held = (IF NodeOp(p) = "|" THEN Ends(e0) ELSE {})
      /\ pc = (IF NodeOp(p) = "|" THEN "setup" ELSE "eval")
      /\ pipes' = (IF NodeOp(p) = "|" THEN With(pipes, e0, <<>>) ELSE pipes)
  BY <1>1, <1>2
<1>8. Becomes(p, r3) \/ fails' = fails
  BY <1>1 DEF Fork
<1>9. Keeps(r, r3) /\ r3.held \subseteq r.held /\ r3.pc \in Quiet \ {"prompt", "free"} /\ r3.pc \in Ended \cup {"return"}
      /\ (NodeOp(p) = "|" => r3.pc \in Ended)
  BY <1>2, ReturnsKeep, ExitsKeep DEF Quiet, Ended
<1>a. Fork(p, c, k, r2, r3)
  BY <1>1
<1> HIDE DEF k, k0, r2, r3, held, pc, c
<1>10. Top(r2) = n /\ PipeOf(r2) = e0 /\ Top(k) = n1
  BY <1>0, <1>5, <1>6 DEF SameNode, Top, PipeOf
<1>11. Front(r2) = n2[1]
  BY <1>5, <1>10 DEF Front, SameNode
<1>12. WiringInv(p, r2)
  <2>1. r2.pc \in Settled \cup Ended
    BY <1>5 DEF Settled, Evaluating
  <2> QED  BY <1>1, <1>3, <1>5, <2>1, WiringStays
<1>13. /\ k.pc \in Evaluating => Len(c) = 3
       /\ c[Len(c)] < Front(r2) /\ Front(r) <= Front(r2) /\ Front(r2) \in Nat /\ Front(r) <= c[2]
       /\ Len(c) = 2 => r2.pc = "wait" /\ c = CommandPid(p)
       /\ r2.path = r.path /\ r2.line = r.line /\ r2.no = r.no
       /\ Len(c) = 3 => p = Shell \/ ~Within(p, Scope(c))
  <2>1. r2.path = r.path /\ r2.line = r.line /\ r2.no = r.no
    BY <1>5 DEF SameNode
  <2> HIDE DEF n, n1, n2
  <2>2. c[Len(c)] < Front(r2) /\ Front(r) <= Front(r2) /\ Front(r2) \in Nat /\ Front(r) <= c[2]
    BY <1>4, <1>11
  <2> QED  BY <1>4, <2>1, <2>2
<1>14. CASE NodeOp(p) = "|"
  <2>1. /\ DOMAIN pipes' = DOMAIN pipes \cup {e0} /\ pipes'[e0] = <<>>
        /\ \A e \in DOMAIN pipes' \ {e0} : e \in DOMAIN pipes /\ pipes'[e] = pipes[e]
    <3>1. pipes' = With(pipes, e0, <<>>)
      BY <1>7, <1>14
    <3> QED  BY <3>1 DEF With
  <2>2. held = Ends(e0) /\ pc = "setup" /\ Op(r.line, n) = "|"
    BY <1>2, <1>7, <1>14
  <2>3. CASE fails' = fails
    <3>1. WiringInv(c, k)
      BY <1>0, <1>1, <1>2, <1>3, <1>4, <1>6, <2>2, WiringOfEnd
    <3>2. Follows(r, r2, {e0})
      <4>1. \A e : e \notin {e0} => ~Reader(r2, e)
        BY <1>5, <1>10 DEF Reader
      <4>2. \A e : Unwritten(r2, e) => Unwritten(r, e)
        BY <1>1, <1>10 DEF Unwritten
      <4>3. \A e : e \notin {e0} /\ MayWrite(r2, e) => MayWrite(r, e)
        BY <1>1, <1>5, <2>2 DEF MayWrite, Ends, Ended
      <4> QED  BY <1>5, <4>1, <4>2, <4>3 DEF Follows
    <3>3. Follows(r, k, {e0})
      <4>1. \A e : e \notin {e0} => ~Reader(k, e)
        BY <1>6, <2>2 DEF Reader
      <4>2. ASSUME NEW e, e \notin {e0}, Unwritten(k, e)
            PROVE  ~Into(r.line, r.no, e, e[3])
        <5>1. Cmd1(r.line, n) = <<n[1], n[2] - 1>>
          BY <1>2, <2>2, PipedOperands
        <5>2. n[2] \in Nat
          BY <1>2, NodeIs
        <5>3. e[3] = n[2]
          <6>1. e[3] = n1[2] + 1 /\ n1[2] = n[2] - 1
            BY <1>10, <4>2, <5>1 DEF Unwritten
          <6> HIDE DEF n1, n
          <6> QED  BY <5>2, <6>1
        <5>4. Into(r.line, r.no, e0, n[2])
          <6>1. e0 = <<r.no, n[1], n[2]>>
            BY <1>0 DEF PipeOf
          <6> HIDE DEF n
          <6> QED  BY <1>2, <1>3, <2>2, <6>1, PipeOfNode
        <5> HIDE DEF n
        <5> QED  BY <1>2, <4>2, <5>2, <5>3, <5>4, IntoIsUnique
      <4>3. \A e : e \notin {e0} /\ MayWrite(k, e) => MayWrite(r, e)
        BY <1>1, <1>6, <2>2 DEF MayWrite, Ends, Ended
      <4> QED  BY <1>2, <1>6, <2>2, <4>1, <4>2, <4>3 DEF Follows
    <3>4. /\ DOMAIN procs' = DOMAIN procs \cup {c} /\ procs'[c] = k /\ procs'[p] = r2
          /\ \A q \in DOMAIN procs \ {p, c} : procs'[q] = procs[q]
      BY <1>4, <1>a, <2>3, Forked
    <3>5. NewInv({e0})'
      <4>1. \A x \in DOMAIN procs' : \/ x \in DOMAIN procs /\ procs'[x] = procs[x]
                                     \/ procs'[x].pc # "run" /\ procs'[x].got = <<>>
        BY <1>3, <1>5, <1>6, <2>2, <3>4
      <4> QED  BY <1>0, <1>1, <2>1, <2>2, <4>1, NewPipeIsEmpty
    <3> HIDE DEF n, n1, n2
    <3> QED  BY <1>1, <1>a, <1>4, <1>6, <1>12, <1>13, <2>1, <2>3, <3>1, <3>2, <3>3, <3>5, FlowGrows DEF n
  <2>4. CASE Becomes(p, r3)
    <3>1. Follows(r, r3, {e0})
      BY <1>1, <1>9, <1>14, QuietFollows
    <3>2. WiringInv(p, r3)
      BY <1>1, <1>3, <1>9, <1>14, WiringStays DEF Keeps
    <3>3. NewInv({e0})'
      <4>1. r3.pc # "run" /\ r3.got = <<>>
        BY <1>3, <1>9, <1>14 DEF Keeps, Ended
      <4>2. \A x \in DOMAIN procs' : \/ x \in DOMAIN procs /\ procs'[x] = procs[x]
                                     \/ procs'[x].pc # "run" /\ procs'[x].got = <<>>
        BY <2>4, <4>1 DEF Becomes
      <4> QED  BY <1>0, <1>1, <2>1, <2>2, <4>2, NewPipeIsEmpty
    <3>4. r3.path # <<>> => r.path # <<>> /\ r3.line = r.line
      BY <1>9 DEF Keeps, SameNode
    <3>5. r3.pc \notin Evaluating
      BY <1>9, <1>14 DEF Ended, Evaluating
    <3> HIDE DEF n, n1, n2
    <3> QED  BY <1>1, <2>1, <2>4, <3>1, <3>2, <3>3, <3>4, <3>5, FlowMoves
  <2> QED  BY <1>8, <2>3, <2>4
<1>15. CASE NodeOp(p) # "|"
  <2>1. UNCHANGED pipes
    BY <1>7, <1>15
  <2>2. held = {} /\ pc = "eval" /\ Op(r.line, n) # "|"
    BY <1>2, <1>7, <1>15
  <2>3. CASE fails' = fails
    <3>1. WiringInv(c, k)
      BY <1>1, <1>2, <1>3, <1>4, <1>6, <2>2, WiringOfCopy
    <3>2. Follows(r, r2, {})
      <4>1. \A e : ~Reader(r2, e)
        BY <1>5, <1>10, <2>2 DEF Reader, SameNode
      <4>2. \A e : Unwritten(r2, e) => Unwritten(r, e)
        BY <1>1, <1>10 DEF Unwritten
      <4>3. \A e : MayWrite(r2, e) => MayWrite(r, e)
        BY <1>1, <1>5, <2>2 DEF MayWrite, Ended
      <4> QED  BY <1>5, <4>1, <4>2, <4>3 DEF Follows
    <3>3. Follows(r, k, {})
      <4>1. \A e : Reader(k, e) => Reader(r, e)
        BY <1>1, <1>6, <2>2 DEF Reader
      <4>2. ASSUME NEW e, Unwritten(k, e)
            PROVE  ~Into(r.line, r.no, e, e[3])
        <5>1. Bordered(r.line, n1)
          BY <1>2, <1>3, <2>2, OperandsPlaced
        <5>2. ~Piped(r.line, n1[2])
          BY <5>1 DEF Bordered
        <5>3. e[3] - 1 = n1[2]
          <6>1. e[3] = n1[2] + 1
            BY <1>10, <4>2 DEF Unwritten
          <6> HIDE DEF n1
          <6> QED  BY <1>4, <6>1
        <5> QED  BY <5>2, <5>3, IntoIs
      <4>3. \A e : MayWrite(k, e) => MayWrite(r, e)
        BY <1>1, <1>6, <2>2 DEF MayWrite, Ended
      <4> QED  BY <1>2, <1>6, <2>2, <4>1, <4>2, <4>3 DEF Follows
    <3>4. NewInv({})'
      BY DEF NewInv
    <3> HIDE DEF n, n1, n2
    <3> QED  BY <1>1, <1>a, <1>4, <1>6, <1>12, <1>13, <2>1, <2>3, <3>1, <3>2, <3>3, <3>4, FlowGrows DEF n
  <2>4. CASE Becomes(p, r3)
    BY <1>1, <1>9, <2>1, <2>4, QuietMove
  <2> QED  BY <1>8, <2>3, <2>4
<1> QED  BY <1>14, <1>15

LEMMA ForkOperand2Flow ==
  ASSUME ProcsInv, FlowInv, NEW p \in DOMAIN procs, ForkOperand2(p)
  PROVE  FlowInv'
<1> DEFINE r == procs[p]
           n == Top(r)
           n2 == Cmd2(r.line, n)
           c == Pid(p, Operand(p, 2))
           pc == IF NodeOp(p) = "|" THEN "setup" ELSE "eval"
           k == Child(p, pc, Operand(p, 2))
           pc2 == IF NodeOp(p) = "|" THEN "close" ELSE "wait1"
           r2 == [r EXCEPT !.pc = pc2]
           r3 == Returns(r, 0)
<1>1. /\ r.pc = "fork2" /\ Fork(p, c, k, r2, r3) /\ UNCHANGED pipes
      /\ r.pc \in Evaluating /\ r.pc \in Settled /\ r.pc \notin Ended
      /\ r.pc \in {"eval", "fork2"} /\ r.pc \in Settled \ {"wait", "exec"}
  BY DEF ForkOperand2, Evaluating, Settled, Ended
<1>2. /\ DOMAIN r = Fields /\ r.left \in Int /\ n \in NodesOf(r.line) /\ r.no = lineNo /\ r.line \in Lines
      /\ NodeOp(p) = Op(r.line, n) /\ Pid(p, Node(p)) = PipeOf(r) /\ Operand(p, 2) = n2 /\ r.path # <<>>
      /\ ~IsLeaf(n) /\ n2[2] = n[2]
  <2>1. NodeOp(p) = Op(r.line, n)
    BY <1>1, AtNode
  <2>2. ~IsLeaf(n)
    <3>1. Op(r.line, n) \in {"&", "|"}
      BY <1>1, ProcIs DEF PlaceInv
    <3> QED  BY <3>1, NotALeaf DEF None
  <2>3. n2[2] = n[2]
    BY DEF Cmd2
  <2> QED  BY <1>1, <2>1, <2>2, <2>3, AtNode
<1>3. StackInv(r) /\ WiringInv(p, r) /\ Placed(r.line, n) /\ r.got = <<>> /\ Wired(r, n)
  <2>1. StackInv(r) /\ WiringInv(p, r)
    BY ProcIs DEF FlowInv, WiringsInv
  <2> QED  BY <1>1, <1>2, <2>1, TopIsPlaced DEF WiringInv, WiresInv, Ended
<1>4. /\ IsPid(c) /\ Len(c) = 3 /\ c # Shell /\ c # p /\ Within(c, n)
      /\ p = Shell \/ ~Within(p, Scope(c))
      /\ Front(r) <= c[2] /\ c[Len(c)] < n[2] + 1 /\ Front(r) <= n[2] + 1 /\ n[2] + 1 \in Nat
  BY <1>1, CopyOfOperand2
<1>5. Keeps(r, r2) /\ r2.pc = pc2 /\ r2.held = r.held
  BY <1>2 DEF Keeps, SameNode, Fields
<1>6. /\ k.pc = pc /\ k.path = <<n2>> /\ k.line = r.line /\ k.no = r.no /\ k.in = r.in
      /\ k.out = r.out /\ k.held = r.held /\ k.got = r.got /\ k.pipe = PipeOf(r)
  <2>1. k.got = r.got
    BY <1>2 DEF Child, Fields
  <2> QED  BY <1>2, <2>1, ChildIs
<1>7. pc = (IF NodeOp(p) = "|" THEN "setup" ELSE "eval") /\ pc2 \in {"close", "wait1"}
  OBVIOUS
<1>8. Fork(p, c, k, r2, r3) /\ (Becomes(p, r3) \/ fails' = fails)
  BY <1>1 DEF Fork
<1>9. Keeps(r, r3) /\ r3.held \subseteq r.held /\ r3.pc \in Quiet \ {"prompt", "free"}
  BY <1>2, ReturnsKeep DEF Quiet
<1> HIDE DEF k, r2, r3, pc, pc2, c
<1>10. Top(k) = n2 /\ r2.path = r.path /\ r2.line = r.line /\ r2.no = r.no /\ r2.pc \in Quiet
  BY <1>5, <1>6, <1>7 DEF Keeps, SameNode, Top, Quiet
<1>11. Front(r2) = n[2] + 1
  BY <1>5, <1>7 DEF Front, Keeps, SameNode, Top
<1>12. CASE fails' = fails
  <2>1. WiringInv(p, r2)
    <3>1. r2.pc \in Settled \cup Ended
      BY <1>5, <1>7 DEF Settled, Evaluating
    <3> QED  BY <1>1, <1>3, <1>5, <3>1, WiringStays DEF Keeps
  <2>2. Follows(r, r2, {})
    BY <1>1, <1>5, <1>10, QuietFollows DEF Keeps
  <2>3. WiringInv(c, k) /\ Follows(r, k, {})
    <3>0. /\ \A e : MayWrite(k, e) => MayWrite(r, e)
          /\ k.pc # "run" /\ k.pc \in {"setup", "eval"}
      BY <1>1, <1>6, <1>7 DEF MayWrite, Ended
    <3>1. CASE NodeOp(p) = "|"
      <4>1. k.pc = "setup" /\ Op(r.line, n) = "|"
        BY <1>2, <1>6, <1>7, <3>1
      <4>2. WiringInv(c, k)
        BY <1>1, <1>2, <1>3, <1>4, <1>6, <4>1, WiringOfEnd
      <4>3. \A e : Reader(k, e) => Reader(r, e)
        BY <1>1, <1>6, <4>1 DEF Reader
      <4>4. \A e : Unwritten(k, e) => Unwritten(r, e)
        BY <1>1, <1>2, <1>10 DEF Unwritten
      <4> QED  BY <1>2, <1>6, <3>0, <4>2, <4>3, <4>4 DEF Follows
    <3>2. CASE NodeOp(p) # "|"
      <4>1. k.pc = "eval" /\ Op(r.line, n) # "|"
        BY <1>2, <1>6, <1>7, <3>2
      <4>2. WiringInv(c, k)
        BY <1>1, <1>2, <1>3, <1>4, <1>6, <4>1, WiringOfCopy
      <4>3. r.in = Tty
        <5>1. Bordered(r.line, n)
          BY <1>2, <1>3, <4>1, OperandsPlaced
        <5> QED  BY <1>3, <5>1, BorderedIs
      <4>4. \A e : ~Reader(k, e)
        <5>1. ~IsPipe(Tty) /\ k.in = Tty
          BY <1>6, <4>3 DEF IsPipe, Tty
        <5> QED  BY <4>1, <5>1 DEF Reader
      <4>5. \A e : Unwritten(k, e) => Unwritten(r, e)
        BY <1>1, <1>2, <1>10 DEF Unwritten
      <4> QED  BY <1>2, <1>6, <3>0, <4>2, <4>4, <4>5 DEF Follows
    <3> QED  BY <3>1, <3>2
  <2>4. NewInv({})'
    BY DEF NewInv
  <2>5. /\ k.pc \in Evaluating => Len(c) = 3
        /\ Len(c) = 2 => r2.pc = "wait" /\ c = CommandPid(p)
        /\ Len(c) = 3 => p = Shell \/ ~Within(p, Scope(c))
    BY <1>4
  <2>6. c[Len(c)] < Front(r2) /\ Front(r) <= Front(r2) /\ Front(r2) \in Nat
    BY <1>4, <1>11
  <2> HIDE DEF n, n2
  <2> QED  BY <1>1, <1>4, <1>6, <1>8, <1>10, <1>12, <2>1, <2>2, <2>3, <2>4, <2>5, <2>6, FlowGrows DEF n
<1>13. CASE Becomes(p, r3)
  BY <1>1, <1>9, <1>13, QuietMove
<1> QED  BY <1>8, <1>12, <1>13

LEMMA SetUpEndFlow ==
  ASSUME ProcsInv, FlowInv, NEW p \in DOMAIN procs, SetUpEnd(p)
  PROVE  FlowInv'
<1> DEFINE r == procs[p]
           n == Top(r)
           r2 == [Dup2(p, r) EXCEPT !.pc = "eval", !.held = @ \ Closed(r.pipe)]
<1>1. /\ r.pc = "setup" /\ Becomes(p, r2) /\ UNCHANGED pipes /\ r.pc \in Evaluating /\ r.pc \notin Ended
      /\ r.pc \notin {"wait", "run"}
  BY DEF SetUpEnd, Evaluating, Ended
<1>2. /\ DOMAIN r = Fields /\ r.left \in Int /\ r.line \in Lines /\ r.path # <<>> /\ Node(p) = n
      /\ n \in NodesOf(r.line) /\ p # Shell /\ Ends(r.pipe) \subseteq r.held
  <2>1. p # Shell /\ Ends(r.pipe) \subseteq r.held
    <3>1. PidInv(p, r, lineNo) /\ FdInv(p, r, DOMAIN pipes)
      BY ProcIs
    <3>2. ~(p = Shell /\ r.pc \notin {"setup", "exec", "run"}) /\ r.pc \notin {"exec", "run"} \cup Ended
      BY <1>1 DEF Ended
    <3>3. p # Shell
      <4>1. Len(p) \in {1, 3} /\ (Len(p) = 3 \/ r.pc \notin {"setup"})
        BY <3>1, <3>2 DEF PidInv, Shell
      <4>2. Len(Shell) = 1
        BY DEF Shell
      <4> QED  BY <1>1, <4>1, <4>2
    <3> QED  BY <1>1, <3>1, <3>3 DEF FdInv
  <2> QED  BY <1>1, <2>1, AtNode
<1>3. WiringInv(p, r) /\ SetUp(r)
  BY <1>1, <1>2 DEF FlowInv, WiringsInv, WiringInv, WiresInv
<1>4. /\ SameNode(r, r2) /\ r2.pc = "eval" /\ r2.got = r.got /\ r2.held \subseteq r.held
      /\ IF n = Cmd1(r.line, Tail(r.pipe)) THEN r2.out = r.pipe /\ r2.in = r.in
                                           ELSE r2.in = r.pipe /\ r2.out = r.out
  <2>1. CASE IsCmd1(p, r.pipe)
    BY <1>2, <2>1 DEF IsCmd1, Dup2, SameNode, Fields
  <2>2. CASE ~IsCmd1(p, r.pipe)
    BY <1>2, <2>2 DEF IsCmd1, Dup2, SameNode, Fields
  <2> QED  BY <2>1, <2>2
<1>5. Becomes(p, r2)
  BY <1>1
<1> HIDE DEF r2
<1>6. WiringInv(p, r2)
  BY <1>1, <1>2, <1>3, <1>4, WiringOfDup
<1>7. Top(r2) = n /\ r2.line = r.line /\ r2.path = r.path
  BY <1>4 DEF SameNode, Top
<1>8. Follows(r, r2, {})
  <2>1. ASSUME NEW e, Reader(r2, e) PROVE Reader(r, e)
    <3>1. r2.in = e /\ IsPipe(e)
      BY <1>4, <2>1 DEF Reader
    <3>2. PICK m \in NodesOf(r.line) :
           /\ Op(r.line, m) = "|" /\ Placed(r.line, m) /\ Wired(r, m) /\ ~IsLeaf(m)
           /\ r.pipe = <<r.no, m[1], m[2]>> /\ Tail(r.pipe) = m
           /\ Cmd1(r.line, m) = <<m[1], m[2] - 1>> /\ Cmd2(r.line, m) = <<m[2], m[2]>>
           /\ r.path = <<Cmd1(r.line, m)>> \/ r.path = <<Cmd2(r.line, m)>>
      BY <1>2, <1>3, EndsOf
    <3>3. CASE n = Cmd1(r.line, m)
      <4>1. ~Piped(r.line, m[1] - 1)
        BY <1>2, <3>2, OperandsPlaced
      <4>2. r.in = Tty
        BY <3>2, <4>1 DEF Wired, InputIs
      <4>3. r2.in = r.in
        BY <1>4, <3>2, <3>3
      <4> QED  BY <3>1, <4>2, <4>3 DEF IsPipe, Tty
    <3>4. CASE n # Cmd1(r.line, m)
      <4>1. r2.in = r.pipe
        BY <1>4, <3>2, <3>4
      <4>2. n = Cmd2(r.line, m)
        <5>1. n = r.path[1] \/ Len(r.path) # 1
          BY DEF Top
        <5>2. r.path = <<n>>
          BY <3>2, <5>1
        <5> HIDE DEF n
        <5> QED  BY <3>2, <3>4, <5>2
      <4>3. n[1] = m[2] /\ r.pipe[3] = m[2]
        <5> HIDE DEF n
        <5> QED  BY <3>2, <4>2
      <4> QED  BY <1>1, <3>1, <4>1, <4>3 DEF Reader
    <3> QED  BY <3>3, <3>4
  <2>2. \A e : Unwritten(r2, e) => Unwritten(r, e)
    BY <1>1, <1>7 DEF Unwritten
  <2>3. \A e : MayWrite(r2, e) => MayWrite(r, e)
    BY <1>1, <1>2, <1>4 DEF MayWrite, Ends
  <2> QED  BY <1>4, <1>7, <2>1, <2>2, <2>3 DEF Follows
<1>9. Front(r2) = n[1] /\ Front(r) = n[1] /\ n[1] \in Nat /\ n[1] <= n[1]
  <2>1. Front(r2) = n[1] /\ Front(r) = n[1]
    BY <1>1, <1>4, <1>7 DEF Front
  <2>2. n[1] \in Nat
    BY <1>2, NodeIs
  <2> HIDE DEF n
  <2> QED  BY <2>1, <2>2
<1>10. NewInv({})'
  BY DEF NewInv
<1> QED  BY <1>1, <1>2, <1>5, <1>6, <1>7, <1>8, <1>9, <1>10, FlowMoves

LEMMA EvalCmd1Flow ==
  ASSUME ProcsInv, FlowInv, NEW p \in DOMAIN procs, EvalCmd1(p)
  PROVE  FlowInv'
<1> DEFINE r == procs[p]
           n == Top(r)
           n1 == Cmd1(r.line, n)
           r2 == [r EXCEPT !.path = Append(@, Operand(p, 1))]
<1>1. /\ r.pc = "eval" /\ NodeOp(p) \in Sequential /\ Becomes(p, r2) /\ UNCHANGED pipes
      /\ r.pc \in Evaluating /\ r.pc \notin {"wait", "run"} /\ r.pc \notin Ended
  BY DEF EvalCmd1, Evaluating, Ended
<1>2. /\ DOMAIN r = Fields /\ r.line \in Lines /\ r.path # <<>> /\ n \in NodesOf(r.line)
      /\ NodeOp(p) = Op(r.line, n) /\ Operand(p, 1) = n1 /\ ~IsLeaf(n) /\ Op(r.line, n) # "|"
  <2>1. NodeOp(p) = Op(r.line, n)
    BY <1>1, AtNode
  <2>2. Op(r.line, n) # "|" /\ ~IsLeaf(n)
    BY <1>1, <2>1, NotALeaf DEF Sequential, None
  <2> QED  BY <1>1, <2>1, <2>2, AtNode
<1>3. StackInv(r) /\ WiringInv(p, r) /\ Placed(r.line, n)
  <2>1. StackInv(r) /\ WiringInv(p, r)
    BY ProcIs DEF FlowInv, WiringsInv
  <2> QED  BY <1>2, <2>1, TopIsPlaced DEF WiringInv
<1>4. /\ r2.pc = "eval" /\ r2.path = Append(r.path, n1) /\ r2.line = r.line /\ r2.no = r.no
      /\ r2.in = r.in /\ r2.out = r.out /\ r2.held = r.held /\ r2.got = r.got
  BY <1>1, <1>2 DEF Fields
<1>5. Becomes(p, r2)
  BY <1>1
<1>6. r.path \in Seq(NodesOf(r.line)) /\ Len(r.path) \in Nat
  BY <1>3 DEF StackInv
<1> HIDE DEF r2, n1
<1>7. Top(r2) = n1
  BY <1>4, <1>6 DEF Top
<1>8. WiringInv(p, r2)
  BY <1>1, <1>2, <1>3, <1>4, WiringDeeper DEF n1
<1>9. ~Piped(r.line, n1[2]) /\ n1[1] = n[1] /\ n1[2] \in Nat /\ n[1] \in Nat
  <2>1. Bordered(r.line, n1) /\ n1 \in NodesOf(r.line) /\ n1[1] = n[1]
    BY <1>2, <1>3, OperandsPlaced, OperandsAre DEF n1, Cmd1
  <2> QED  BY <1>2, <2>1, NodeIs DEF Bordered
<1>10. Follows(r, r2, {})
  <2>1. \A e : Reader(r2, e) => Reader(r, e)
    BY <1>1, <1>4 DEF Reader
  <2>2. ASSUME NEW e, Unwritten(r2, e) PROVE ~Into(r.line, r.no, e, e[3])
    <3>1. e[3] - 1 = n1[2]
      BY <1>7, <1>9, <2>2 DEF Unwritten
    <3> QED  BY <1>9, <3>1, IntoIs
  <2>3. \A e : MayWrite(r2, e) => MayWrite(r, e)
    BY <1>1, <1>4 DEF MayWrite
  <2> QED  BY <1>2, <1>4, <2>1, <2>2, <2>3 DEF Follows
<1>11. Front(r2) \in Nat /\ Front(r) <= Front(r2)
  <2>1. Front(r2) = n1[1] /\ Front(r) = n[1]
    BY <1>1, <1>4, <1>7 DEF Front
  <2> HIDE DEF n
  <2> QED  BY <1>9, <2>1
<1>12. NewInv({})'
  BY DEF NewInv
<1> QED  BY <1>1, <1>2, <1>4, <1>5, <1>8, <1>10, <1>11, <1>12, FlowMoves

LEMMA ReturnFromCommandFlow ==
  ASSUME ProcsInv, FlowInv, NEW p \in DOMAIN procs, ReturnFromCommand(p)
  PROVE  FlowInv'
<1> DEFINE r == procs[p]
           n == Top(r)
           depth == Len(r.path)
           above == r.path[depth - 1]
           n2 == Cmd2(r.line, above)
           onward == Node(p) = Cmd1(r.line, above) /\ RunsCmd2(Op(r.line, above), r.status)
           r1 == IF p = Shell THEN [r EXCEPT !.pc = "free", !.path = <<>>] ELSE Exits(r, r.status)
           r2 == [r EXCEPT !.pc = "eval", !.path = ThenCmd2(@, n2)]
           r3 == [r EXCEPT !.path = SubSeq(@, 1, depth - 1)]
<1>1. /\ r.pc = "return" /\ UNCHANGED pipes
      /\ Becomes(p, IF depth = 1 THEN r1 ELSE IF onward THEN r2 ELSE r3)
      /\ r.pc \in Evaluating /\ r.pc \in Settled /\ r.pc \in Settled \ {"wait", "exec"}
      /\ r.pc \notin {"wait", "run"} /\ r.pc \notin Ended
  BY DEF ReturnFromCommand, Evaluating, Settled, Ended
<1>2. /\ DOMAIN r = Fields /\ r.left \in Int /\ r.line \in Lines /\ r.path # <<>> /\ n \in NodesOf(r.line)
      /\ Node(p) = n
  BY <1>1, AtNode
<1>3. StackInv(r) /\ WiringInv(p, r) /\ r.got = <<>> /\ PartsInv(r)
  <2>1. StackInv(r) /\ WiringInv(p, r)
    BY ProcIs DEF FlowInv, WiringsInv
  <2> QED  BY <1>1, <1>2, <2>1 DEF WiringInv, Ended
<1>4. depth \in Nat \ {0} /\ r.path \in Seq(NodesOf(r.line)) /\ (depth = 1 \/ depth > 1)
  <2>1. depth \in Nat \ {0} /\ r.path \in Seq(NodesOf(r.line))
    BY <1>2, <1>3, TopIs DEF StackInv
  <2> HIDE DEF depth
  <2> QED  BY <2>1
<1>5. n[1] \in Nat /\ n[2] \in Nat /\ Front(r) = n[2] + 1 /\ NewInv({})'
  BY <1>1, <1>2, NodeIs DEF Front, NewInv
<1>6. CASE depth = 1
  <2>1. CASE p = Shell
    <3> DEFINE s == [r EXCEPT !.pc = "free", !.path = <<>>]
    <3>1. Becomes(p, s)
      BY <1>1, <1>6, <2>1
    <3>2. s.pc = "free" /\ s.path = <<>> /\ s.in = r.in /\ s.out = r.out /\ s.held = r.held /\ s.got = r.got
      BY <1>2 DEF Fields
    <3> HIDE DEF s
    <3>3. Follows(r, s, {})
      BY <1>1, <3>2, QuietFollows DEF Quiet
    <3>4. WiringInv(p, s)
      BY <1>3, <3>2 DEF WiringInv, Contents
    <3>5. s.pc \notin Evaluating
      BY <3>2 DEF Evaluating
    <3> QED  BY <1>1, <1>5, <3>1, <3>2, <3>3, <3>4, <3>5, FlowMoves
  <2>2. CASE p # Shell
    <3> DEFINE s == Exits(r, r.status)
    <3>1. Becomes(p, s)
      BY <1>1, <1>6, <2>2
    <3>2. Keeps(r, s) /\ s.held \subseteq r.held /\ s.pc \in Quiet \ {"prompt", "free"}
      BY <1>2, ExitsKeep DEF Quiet, Ended
    <3> HIDE DEF s
    <3> QED  BY <1>1, <3>1, <3>2, QuietMove
  <2> QED  BY <2>1, <2>2
<1>7. CASE depth > 1 /\ onward
  <2>1. /\ r2.pc = "eval" /\ r2.path = ThenCmd2(r.path, n2) /\ r2.line = r.line /\ r2.no = r.no
        /\ r2.in = r.in /\ r2.out = r.out /\ r2.held = r.held /\ r2.got = r.got
    BY <1>2 DEF Fields
  <2>2. Becomes(p, r2)
    <3>1. depth # 1
      <4> HIDE DEF depth
      <4> QED  BY <1>4, <1>7
    <3> QED  BY <1>1, <1>7, <3>1
  <2>3. Len(r.path) > 1 /\ n = Cmd1(r.line, above)
    BY <1>2, <1>7
  <2> HIDE DEF r2
  <2>4. StackInv(r2) /\ r2.path # <<>>
    <3> HIDE DEF r
    <3> QED  BY <1>2, <1>3, <2>1, <2>3, Onward
  <2>5. WiringInv(p, r2)
    <3>1. r2.pc \in Settled
      BY <2>1 DEF Settled, Evaluating
    <3> HIDE DEF r
    <3> QED  BY <1>1, <1>2, <1>3, <2>1, <2>3, <3>1, WiringOnward DEF n
  <2>6. Top(r2) = n2 /\ Len(r2.path) = depth
    BY <1>4, <1>7, <2>1 DEF Top, ThenCmd2
  <2>7. Bordered(r.line, n) /\ Bordered(r.line, n2) /\ r.in = Tty
    <3>1. Bordered(r.line, n)
      BY <1>2, <1>3, <2>3, TopIsPlaced
    <3>2. PartsInv(r2)
      BY <2>4, <2>5 DEF WiringInv
    <3>3. Bordered(r.line, n2)
      BY <2>1, <2>3, <2>4, <2>6, <3>2, TopIsPlaced
    <3>4. r.in = Tty
      BY <1>1, <1>2, <1>3, <3>1, BorderedIs DEF WiringInv, WiresInv
    <3> QED  BY <3>1, <3>3, <3>4
  <2>8. n2[2] \in Nat /\ n2[1] \in Nat /\ n2[1] = n[2] + 1
    <3>1. n2 \in NodesOf(r.line)
      BY <2>1, <2>4, <2>6, TopIs
    <3>2. n2[1] = n[2] + 1
      BY <2>3 DEF Cmd1, Cmd2
    <3> HIDE DEF n2
    <3> QED  BY <3>1, <3>2, NodeIs
  <2>9. Follows(r, r2, {})
    <3>1. \A e : ~Reader(r2, e)
      <4>1. ~IsPipe(Tty) /\ r2.in = Tty
        BY <2>1, <2>7 DEF IsPipe, Tty
      <4> QED  BY <2>1, <4>1 DEF Reader
    <3>2. ASSUME NEW e, Unwritten(r2, e) PROVE ~Into(r.line, r.no, e, e[3])
      <4>1. e[3] = n2[2] + 1
        BY <2>6, <3>2 DEF Unwritten
      <4>2. e[3] - 1 = n2[2]
        <5> HIDE DEF n2
        <5> QED  BY <2>8, <4>1
      <4> QED  BY <2>7, <4>2, IntoIs DEF Bordered
    <3>3. \A e : MayWrite(r2, e) => MayWrite(r, e)
      BY <1>1, <2>1 DEF MayWrite
    <3> QED  BY <1>2, <2>1, <3>1, <3>2, <3>3 DEF Follows
  <2>10. Front(r2) \in Nat /\ Front(r) <= Front(r2)
    <3>1. Front(r2) = n2[1]
      BY <2>1, <2>6 DEF Front
    <3> HIDE DEF n2, n
    <3> QED  BY <1>5, <2>8, <3>1
  <2> QED  BY <1>1, <1>2, <1>5, <2>1, <2>2, <2>5, <2>9, <2>10, FlowMoves
<1>8. CASE depth > 1 /\ ~onward
  <2>1. /\ r3.pc = "return" /\ r3.path = SubSeq(r.path, 1, Len(r.path) - 1) /\ r3.line = r.line /\ r3.no = r.no
        /\ r3.in = r.in /\ r3.out = r.out /\ r3.held = r.held /\ r3.got = r.got
    BY <1>1, <1>2 DEF Fields
  <2>2. Becomes(p, r3)
    <3>1. depth # 1
      <4> HIDE DEF depth
      <4> QED  BY <1>4, <1>8
    <3> QED  BY <1>1, <1>8, <3>1
  <2>3. Len(r.path) > 1
    BY <1>8
  <2> HIDE DEF r3
  <2>4. StackInv(r3) /\ r3.path # <<>>
    <3> HIDE DEF r
    <3> QED  BY <1>3, <2>1, <2>3, Shallower
  <2>5. WiringInv(p, r3)
    <3>1. r3.pc \in Settled
      BY <2>1 DEF Settled, Evaluating
    <3> HIDE DEF r
    <3> QED  BY <1>1, <1>3, <2>1, <2>3, <3>1, WiringShallower
  <2>6. Follows(r, r3, {})
    BY <1>1, <2>1, QuietFollows DEF Quiet
  <2>7. Front(r3) \in Nat /\ Front(r) <= Front(r3)
    <3>1. Top(r3) = above /\ above \in NodesOf(r.line) /\ Sub(n, above)
      <4>1. Len(r3.path) = depth - 1 /\ r3.path[depth - 1] = above
        BY <1>4, <1>8, <2>1
      <4>2. depth - 1 \in 1..depth /\ depth \in 1..depth /\ depth - 1 <= depth
        <5> HIDE DEF depth
        <5> QED  BY <1>4, <1>8
      <4>3. Sub(r.path[depth], r.path[depth - 1])
        BY <1>3, <4>2 DEF StackInv
      <4> QED  BY <1>4, <4>1, <4>2, <4>3 DEF Top
    <3>2. above[2] \in Nat /\ n[2] <= above[2]
      BY <3>1, NodeIs DEF Sub
    <3>3. Front(r3) = above[2] + 1
      BY <2>1, <3>1 DEF Front
    <3> HIDE DEF n, above
    <3> QED  BY <1>5, <3>2, <3>3
  <2> QED  BY <1>1, <1>2, <1>5, <2>1, <2>2, <2>5, <2>6, <2>7, FlowMoves
<1> QED  BY <1>4, <1>6, <1>7, <1>8

LEMMA EndOfInputFlow ==
  ASSUME ProcsInv, FlowInv, EndOfInput
  PROVE  FlowInv'
<1> DEFINE s == procs[Shell]
           s2 == Exits(s, 0)
<1>1. /\ s.pc = "prompt" /\ Becomes(Shell, s2) /\ UNCHANGED pipes /\ Shell \in DOMAIN procs
      /\ s.pc \notin {"wait", "run"} /\ s.pc \notin Ended
  BY DEF EndOfInput, ProcsInv, Ended
<1>2. DOMAIN s = Fields /\ s.left \in Int /\ s.path = <<>> /\ WiringInv(Shell, s)
  BY <1>1, ProcIs DEF PlaceInv, FlowInv, WiringsInv
<1>3. Keeps(s, s2) /\ s2.pc = "exited"
  BY <1>2, ExitsKeep
<1> HIDE DEF s2
<1>4. Follows(s, s2, {})
  BY <1>1, <1>3, QuietFollows DEF Quiet, Ended
<1>5. WiringInv(Shell, s2) /\ s2.path = <<>>
  BY <1>2, <1>3 DEF WiringInv, Keeps, SameNode, Ended
<1>6. s2.pc \notin Evaluating /\ NewInv({})'
  BY <1>3 DEF Evaluating, NewInv
<1> QED  BY <1>1, <1>4, <1>5, <1>6, FlowMoves

LEMMA FreeParseMemoryFlow ==
  ASSUME ProcsInv, FlowInv, FreeParseMemory
  PROVE  FlowInv'
<1> DEFINE s == procs[Shell]
           open == {e \in DOMAIN pipes : \E q \in DOMAIN procs : CanRead(q, e) \/ CanWrite(q, e)}
           s2 == [s EXCEPT !.pc = IF freed THEN "killed" ELSE "prompt", !.status = 0,
                           !.line = NoLine, !.no = 0]
<1>1. /\ s.pc = "free" /\ Becomes(Shell, s2) /\ pipes' = [e \in open |-> pipes[e]] /\ Shell \in DOMAIN procs
      /\ s.pc \notin {"wait", "run"} /\ s.pc \notin Ended
  BY DEF FreeParseMemory, ProcsInv, Ended
<1>2. DOMAIN s = Fields /\ s.path = <<>> /\ WiringInv(Shell, s)
  BY <1>1, ProcIs DEF PlaceInv, FlowInv, WiringsInv
<1>3. /\ s2.pc \in {"killed", "prompt"} /\ s2.path = <<>> /\ s2.in = s.in /\ s2.out = s.out
      /\ s2.held = s.held /\ s2.got = s.got
  BY <1>2 DEF Fields
<1> HIDE DEF s2
<1>4. Follows(s, s2, {})
  BY <1>1, <1>3, QuietFollows DEF Quiet, Ended
<1>5. WiringInv(Shell, s2)
  BY <1>1, <1>2, <1>3 DEF WiringInv, Ended, Contents
<1>6. s2.pc \notin Evaluating /\ NewInv({})'
  BY <1>3 DEF Evaluating, NewInv
<1>7. \A e \in DOMAIN pipes' \ {} : e \in DOMAIN pipes /\ pipes'[e] = pipes[e]
  BY <1>1
<1> QED  BY <1>1, <1>3, <1>4, <1>5, <1>6, <1>7, FlowMoves

(* A line starts with no process but the shell.                            *)
LEMMA ReadLineFlow ==
  ASSUME ProcsInv, TreeInv, FlowInv, NEW l \in Lines, ReadLine(l)
  PROVE  FlowInv'
<1> DEFINE s == procs[Shell]
           s2 == [s EXCEPT !.pc = "eval", !.path = <<Root(l)>>, !.no = lineNo + 1, !.line = l,
                           !.was = [cwd |-> s.cwd, env |-> s.env]]
<1>1. s.pc = "prompt" /\ Becomes(Shell, s2)
  BY DEF ReadLine
<1>2. DOMAIN procs = {Shell}
  BY <1>1, AloneAtPrompt
<1>3. DOMAIN s = Fields /\ WiringInv(Shell, s)
  BY <1>2, ProcIs DEF PlaceInv, FlowInv, WiringsInv
<1>4. s.in = Tty /\ s.out = Tty /\ s.got = <<>>
  BY <1>1, <1>3 DEF WiringInv, Ended
<1>5. /\ s2.pc = "eval" /\ s2.path = <<Root(l)>> /\ s2.line = l /\ s2.in = Tty /\ s2.out = Tty
      /\ s2.got = <<>>
  BY <1>3, <1>4 DEF Fields
<1>6. DOMAIN procs' = {Shell} /\ procs'[Shell] = s2
  BY <1>1, <1>2 DEF Becomes
<1> HIDE DEF s2
<1>7. Bordered(l, Root(l))
  <2>1. Len(l.cmds) = Len(l.ops) + 1 /\ Len(l.ops) \in Nat
    BY LineIs
  <2>2. Root(l)[1] = 1 /\ Root(l)[2] = Len(l.cmds)
    BY DEF Root
  <2>3. 1 - 1 \notin 1..Len(l.ops) /\ Len(l.cmds) \notin 1..Len(l.ops)
    BY <2>1
  <2> QED  BY <2>2, <2>3 DEF Bordered, Piped
<1>8. WiringInv(Shell, s2)
  <2>1. Placed(s2.line, Root(l)) /\ Wired(s2, Root(l))
    BY <1>5, <1>7, BorderedIs DEF Placed, Bordered
  <2>2. PartsInv(s2) /\ Top(s2) = Root(l)
    BY <1>5, <2>1, OneCallParts
  <2>3. WiresInv(s2)
    BY <1>5, <2>1, <2>2 DEF WiresInv
  <2> QED  BY <1>5, <2>2, <2>3 DEF WiringInv, Contents
<1>9. \A e : ~Reader(s2, e)
  <2>1. ~IsPipe(Tty)
    BY DEF IsPipe, Tty
  <2> QED  BY <1>5, <2>1 DEF Reader
<1>10. Nested' /\ FrontInv' /\ OneLine'
  BY <1>6 DEF Nested, FrontInv, OneLine
<1>11. ParentInv'
  <2>1. Len(Shell) # 2
    BY DEF Shell
  <2> QED  BY <1>6, <2>1 DEF ParentInv
<1>12. WiringsInv' /\ DataInv'
  BY <1>6, <1>8, <1>9 DEF WiringsInv, DataInv
<1> QED  BY <1>10, <1>11, <1>12 DEF FlowInv

-----------------------------------------------------------------------------
(* The steps of a command.                                                 *)
LEMMA CommandMoves ==
  ASSUME ProcsInv, FlowInv, NEW p \in DOMAIN procs, procs[p].pc \in {"exec", "run"},
         NEW r2, Becomes(p, r2), SameNode(procs[p], r2), r2.pc = "run" \/ r2.pc \in Ended,
         WiringInv(p, r2), DataInv'
  PROVE  FlowInv'
<1>1. /\ DOMAIN procs' = DOMAIN procs /\ procs'[p] = r2
      /\ \A q \in DOMAIN procs \ {p} : procs'[q] = procs[q]
  BY DEF Becomes
<1>2. FrontInv' /\ Nested'
  <2>1. r2.pc \notin Evaluating
    BY DEF Evaluating, Ended
  <2> QED  BY <1>1, <2>1, FrontMoves DEF FlowInv
<1>3. OneLine'
  BY <1>1 DEF FlowInv, OneLine, SameNode
<1>4. WiringsInv'
  BY <1>1 DEF FlowInv, WiringsInv
<1>5. ParentInv'
  <2> SUFFICES ASSUME NEW q \in DOMAIN procs', Len(q) = 2
               PROVE  \E x \in DOMAIN procs' : procs'[x].pc = "wait" /\ CommandPid(x)' = q
    BY DEF ParentInv
  <2>1. PICK x \in DOMAIN procs : procs[x].pc = "wait" /\ CommandPid(x) = q
    BY <1>1 DEF FlowInv, ParentInv
  <2>2. x # p /\ procs'[x] = procs[x]
    BY <1>1, <2>1
  <2>3. CommandPid(x)' = CommandPid(x)
    BY <2>2 DEF CommandPid, Node
  <2> QED  BY <1>1, <2>1, <2>2, <2>3
<1> QED  BY <1>2, <1>3, <1>4, <1>5 DEF FlowInv

(* A command keeps its descriptors, redirects them to files or ends.       *)
KeepsEnds(r, r2) ==
  /\ SameNode(r, r2) /\ r2.pc \in {"run"} \cup Ended
  /\ r2.pc = "run" => /\ r2.in = r.in \/ (r.pc = "exec" /\ ~IsPipe(r2.in))
                      /\ r2.out = r.out \/ (r.pc = "exec" /\ ~IsPipe(r2.out))
                      /\ r2.held = r.held

LEMMA ReaderBefore ==
  ASSUME NEW p \in DOMAIN procs, procs[p].pc \in {"exec", "run"},
         NEW r2, Becomes(p, r2), KeepsEnds(procs[p], r2),
         NEW q \in DOMAIN procs', NEW e, Reader(procs'[q], e)
  PROVE  q \in DOMAIN procs /\ Reader(procs[q], e) /\ (q # p => procs'[q] = procs[q])
<1>1. /\ DOMAIN procs' = DOMAIN procs /\ procs'[p] = r2
      /\ \A x \in DOMAIN procs \ {p} : procs'[x] = procs[x]
  BY DEF Becomes
<1>2. CASE q = p
  <2>1. r2.pc = "run" /\ r2.in = e /\ IsPipe(e)
    BY <1>1, <1>2 DEF Reader, KeepsEnds, Ended
  <2> QED  BY <1>1, <1>2, <2>1 DEF Reader, KeepsEnds
<1> QED  BY <1>1, <1>2

LEMMA PipeInLine ==
  ASSUME ProcsInv, FlowInv, NEW q \in DOMAIN procs, NEW e, Reader(procs[q], e)
  PROVE  /\ procs[q].line \in Lines /\ procs[q].path # <<>> /\ IsPipe(e) /\ e # Tty
         /\ Into(procs[q].line, lineNo, e, e[3]) /\ MayRead(procs[q], e)
         /\ procs[q].line.cmds[e[3] - 1].writes \in Nat /\ e[3] \in Nat /\ e[3] - 1 \in Nat
<1> DEFINE l == procs[q].line
<1>1. ProcInv(q, procs[q], lineNo, DOMAIN pipes) /\ WiringInv(q, procs[q]) /\ lineNo \in Nat
  BY DEF ProcsInv, FlowInv, WiringsInv
<1>2. /\ l \in Lines /\ procs[q].path # <<>> /\ IsPipe(e) /\ Into(l, lineNo, e, e[3])
      /\ Top(procs[q]) \in NodesOf(l) /\ MayRead(procs[q], e)
      /\ e[3] \in {Top(procs[q])[1], Top(procs[q])[2]}
  BY <1>1, ReaderIs
<1>3. e[3] \in Nat
  BY <1>2, NodeIs
<1> HIDE DEF l
<1>4. e[3] - 1 \in 1..Len(l.ops) /\ e # Tty
  BY <1>2, IntoIs DEF Piped
<1>5. l.cmds \in Seq(Commands) /\ Len(l.ops) \in Nat /\ Len(l.cmds) = Len(l.ops) + 1
  BY <1>2, LineIs
<1>6. l.cmds[e[3] - 1] \in Commands
  BY <1>4, <1>5
<1>7. l.cmds[e[3] - 1].writes \in Nat
  BY <1>6 DEF Commands
<1> QED  BY <1>2, <1>3, <1>4, <1>7 DEF l

LEMMA CommandData ==
  ASSUME ProcsInv, FlowInv, NEW p \in DOMAIN procs, procs[p].pc \in {"exec", "run"},
         NEW r2, Becomes(p, r2), KeepsEnds(procs[p], r2),
         NEW e \in DOMAIN pipes, pipes'[e] = pipes[e],
         r2.pc = "run" /\ r2.out = e =>
           r2.left = IF procs[p].pc = "run" THEN procs[p].left ELSE Command(p).writes,
         procs[p].pc = "run" /\ r2.pc # "run" => procs[p].left = 0 \/ procs[p].out # e,
         NEW q \in DOMAIN procs', Reader(procs'[q], e),
         q = p => /\ r2.got = procs[p].got
                  /\ r2.pc = "run" /\ r2.eof /\ r2.line.cmds[Top(r2)[1]].reads =>
                       procs[p].pc = "run" /\ procs[p].eof
  PROVE  Sent(procs'[q], e, procs', pipes'[e])
<1> DEFINE r == procs[p]
<1>1. /\ DOMAIN procs' = DOMAIN procs /\ procs'[p] = r2
      /\ \A x \in DOMAIN procs \ {p} : procs'[x] = procs[x]
  BY DEF Becomes
<1>2. q \in DOMAIN procs /\ Reader(procs[q], e) /\ (q # p => procs'[q] = procs[q])
  BY ReaderBefore
<1>3. Sent(procs[q], e, procs, pipes[e])
  BY <1>2 DEF FlowInv, DataInv
<1> DEFINE l == procs[q].line
           n == l.cmds[e[3] - 1].writes
<1>4. /\ procs[q].path # <<>> /\ IsPipe(e) /\ Into(l, lineNo, e, e[3]) /\ n \in Nat /\ e[3] \in Nat
  BY <1>2, PipeInLine
<1>5. /\ r.path # <<>> /\ Top(r)[1] = Top(r)[2] /\ Top(r)[1] \in Nat /\ r.line = l /\ r.no = lineNo
  BY <1>2, <1>4, CommandIs DEF FlowInv, OneLine
<1>6. /\ SameNode(r, r2) /\ r2.pc \in {"run"} \cup Ended
      /\ r2.pc = "run" /\ r2.out = e => r.out = e
  BY <1>4 DEF KeepsEnds
<1>7. r2.line = r.line /\ r2.path = r.path /\ Top(r2) = Top(r)
  BY <1>6 DEF SameNode, Top
<1>8. procs'[q].line = l /\ procs'[q].got = procs[q].got
  BY <1>1, <1>2, <1>5, <1>7
<1>9. procs'[q].pc = "run" /\ procs'[q].eof /\ procs'[q].line.cmds[Top(procs'[q])[1]].reads =>
        procs[q].pc = "run" /\ procs[q].eof /\ l.cmds[Top(procs[q])[1]].reads
  BY <1>1, <1>2, <1>7
<1>10. ASSUME r.pc = "exec", r.out = e PROVE Unwritten(r, e) /\ Command(p).writes = n
  <2>1. OutputIs(r, Top(r))
    <3>1. WiringInv(p, r)
      BY DEF FlowInv, WiringsInv
    <3> QED  BY <1>5, <1>10, <3>1 DEF WiringInv, WiresInv, Settled, Wired
  <2>2. Into(r.line, r.no, e, Top(r)[2] + 1)
    <3>1. e # Tty
      BY <1>4, IntoIs
    <3> QED  BY <1>10, <2>1, <3>1 DEF OutputIs
  <2>3. e[3] = Top(r)[2] + 1
    BY <2>2, IntoIs
  <2>4. Command(p) = r.line.cmds[Top(r)[1]]
    BY DEF Command, Node, Top
  <2>5. Top(r)[1] = e[3] - 1
    BY <1>5, <2>3
  <2> QED  BY <1>5, <1>10, <2>3, <2>4, <2>5 DEF Unwritten
<1>11. ASSUME NEW w, Writes(w, e, procs')
       PROVE  \/ Writes(w, e, procs) /\ procs'[w].left = procs[w].left
              \/ w \in DOMAIN procs /\ Unwritten(procs[w], e) /\ n \in Int /\ procs'[w].left = n
  <2>1. CASE w # p
    BY <1>1, <1>11, <2>1 DEF Writes
  <2>2. CASE w = p
    <3>1. r2.pc = "run" /\ r2.out = e /\ r.out = e
      BY <1>1, <1>6, <1>11, <2>2 DEF Writes
    <3>2. CASE r.pc = "run"
      BY <1>1, <2>2, <3>1, <3>2 DEF Writes
    <3>3. CASE r.pc = "exec"
      BY <1>1, <1>4, <1>10, <2>2, <3>1, <3>3
    <3> QED  BY <3>2, <3>3
  <2> QED  BY <2>1, <2>2
<1>12. ASSUME NEW w, Writes(w, e, procs) PROVE Writes(w, e, procs') \/ (procs[w].left = 0 /\ n \in Int)
  <2>1. CASE w # p
    BY <1>1, <1>12, <2>1 DEF Writes
  <2>2. CASE w = p /\ r2.pc # "run"
    BY <1>4, <1>12, <2>2 DEF Writes
  <2>3. CASE w = p /\ r2.pc = "run"
    <3>1. r.pc = "run" /\ r.out = e
      BY <1>12, <2>3 DEF Writes
    <3> QED  BY <1>1, <1>12, <2>3, <3>1 DEF Writes, KeepsEnds
  <2> QED  BY <2>1, <2>2, <2>3
<1>13. \A x \in DOMAIN procs' : Unwritten(procs'[x], e) => \E o \in DOMAIN procs : Unwritten(procs[o], e)
  <2>1. ~Unwritten(r2, e)
    BY <1>6 DEF Unwritten, Ended
  <2> QED  BY <1>1, <2>1
<1>14. \A x \in DOMAIN procs' : MayWrite(procs'[x], e) => \E o \in DOMAIN procs : MayWrite(procs[o], e)
  <2>1. MayWrite(r2, e) => MayWrite(r, e)
    BY <1>4 DEF MayWrite, KeepsEnds, Ended
  <2> QED  BY <1>1, <2>1
<1> HIDE DEF n, l, r
<1>15. \A w : Writes(w, e, procs') =>
              \/ Writes(w, e, procs) /\ procs'[w].left = procs[w].left
              \/ w \in DOMAIN procs /\ Unwritten(procs[w], e) /\ n \in Int /\ procs'[w].left = n
  BY <1>11
<1>16. \A w : Writes(w, e, procs) => Writes(w, e, procs') \/ (procs[w].left = 0 /\ n \in Int)
  BY <1>12
<1> QED  BY <1>3, <1>8, <1>9, <1>13, <1>14, <1>15, <1>16, SentStays DEF n, l

LEMMA ExecCommandFlow ==
  ASSUME ProcsInv, FlowInv, NEW p \in DOMAIN procs, ExecCommand(p)
  PROVE  FlowInv'
<1> DEFINE r == procs[p]
           c == Command(p)
           r1 == RedirectFds(r, c)
           r3 == [r1 EXCEPT !.pc = "run", !.left = c.writes, !.eof = ~c.reads]
<1>1. r.pc = "exec" /\ UNCHANGED pipes /\ (Becomes(p, r3) \/ Becomes(p, Exits(r, Failure)))
  BY DEF ExecCommand
<1>2. DOMAIN r = Fields /\ r.left \in Int /\ c \in Commands
  BY <1>1, AtNode
<1>3. /\ p # Shell /\ r.path # <<>> /\ WiringInv(p, r) /\ c = r.line.cmds[Top(r)[1]] /\ r.got = <<>>
  <2>1. p # Shell /\ r.path # <<>> /\ WiringInv(p, r)
    BY <1>1, CommandIs DEF FlowInv, WiringsInv
  <2> QED  BY <1>1, <2>1 DEF WiringInv, Ended, Command, Node, Top
<1>4. /\ DOMAIN r1 = Fields /\ r1.path = r.path /\ r1.line = r.line /\ r1.no = r.no /\ r1.held = r.held
      /\ r1.got = r.got
      /\ r1.in = r.in \/ (c.in # None /\ r1.in = <<c.in>>)
      /\ r1.out = r.out \/ (c.out # None /\ r1.out = <<c.out>>)
  <2>1. c.out \in Opened(c) => c.out # None
    BY LinesAssumption DEF Opened
  <2> HIDE DEF c
  <2> QED  BY <1>2, <2>1 DEF RedirectFds, Fields
<1>5. c.writes \in Int /\ c.reads \in BOOLEAN
  BY <1>2 DEF Commands
<1> HIDE DEF r1
<1>6. /\ SameNode(r, r3) /\ r3.pc = "run" /\ r3.held = r.held /\ r3.got = r.got
      /\ r3.left = c.writes /\ r3.eof = ~c.reads
      /\ r3.in = r.in \/ (c.in # None /\ ~IsPipe(r3.in))
      /\ r3.out = r.out \/ (c.out # None /\ ~IsPipe(r3.out))
  <2>1. /\ SameNode(r, r3) /\ r3.pc = "run" /\ r3.held = r.held /\ r3.got = r.got
        /\ r3.left = c.writes /\ r3.eof = ~c.reads /\ r3.in = r1.in /\ r3.out = r1.out
    BY <1>4, <1>5 DEF SameNode, Fields
  <2> HIDE DEF r3, c
  <2> QED  BY <1>4, <2>1, FileIsNoPipe
<1>7. Keeps(r, Exits(r, Failure)) /\ Exits(r, Failure).pc = "exited"
  BY <1>2, ExitsKeep
<1> HIDE DEF r3
<1>8. PICK r2 : /\ Becomes(p, r2) /\ KeepsEnds(r, r2) /\ SameNode(r, r2) /\ r2.got = r.got
                /\ r2.pc = "run" \/ r2.pc \in Ended
                /\ r2.pc = "run" => r2.left = c.writes /\ r2.eof = ~c.reads
                /\ r2.in = r.in \/ (c.in # None /\ ~IsPipe(r2.in))
                /\ r2.out = r.out \/ (c.out # None /\ ~IsPipe(r2.out))
  <2>1. CASE Becomes(p, r3)
    BY <1>1, <1>6, <2>1 DEF KeepsEnds
  <2>2. CASE Becomes(p, Exits(r, Failure))
    <3>1. KeepsEnds(r, Exits(r, Failure)) /\ Exits(r, Failure).pc \in Ended
      BY <1>7 DEF KeepsEnds, Keeps, Ended
    <3> QED  BY <1>7, <2>2, <3>1 DEF Keeps, Ended
  <2> QED  BY <1>1, <2>1, <2>2
<1>9. WiringInv(p, r2)
  <2>1. r2.got \in Contents
    BY <1>3, <1>8 DEF Contents
  <2> QED  BY <1>1, <1>3, <1>8, <2>1, WiringOfRun
<1>10. ASSUME NEW q \in DOMAIN procs', NEW e \in DOMAIN pipes', Reader(procs'[q], e)
       PROVE  Sent(procs'[q], e, procs', pipes'[e])
  <2>1. e \in DOMAIN pipes /\ pipes'[e] = pipes[e]
    BY <1>1
  <2>2. r2.pc = "run" => ~(r2.eof /\ r2.line.cmds[Top(r2)[1]].reads)
    BY <1>3, <1>5, <1>8 DEF SameNode, Top
  <2>3. procs[p].pc \in {"exec", "run"} /\ procs[p].pc # "run"
    BY <1>1
  <2> QED  BY <1>8, <1>10, <2>1, <2>2, <2>3, CommandData
<1>11. DataInv'
  BY <1>10 DEF DataInv
<1> QED  BY <1>1, <1>8, <1>9, <1>11, CommandMoves

(* A step of a running command, without what it does to the pipe it uses.  *)
LEMMA RunMoves ==
  ASSUME ProcsInv, FlowInv, NEW p \in DOMAIN procs, procs[p].pc = "run",
         NEW r2, Becomes(p, r2), KeepsEnds(procs[p], r2),
         r2.got \in Contents, r2.in = procs[p].in, r2.out = procs[p].out, DataInv'
  PROVE  FlowInv'
<1>1. SameNode(procs[p], r2) /\ (r2.pc = "run" \/ r2.pc \in Ended)
  BY DEF KeepsEnds
<1>2. procs[p].path # <<>> /\ p # Shell /\ WiringInv(p, procs[p])
  BY CommandIs DEF FlowInv, WiringsInv
<1>3. WiringInv(p, r2)
  BY <1>1, <1>2, WiringOfRun
<1> QED  BY <1>1, <1>3, CommandMoves

LEMMA UnitMoves ==
  ASSUME NEW S, NEW g \in Seq(S), NEW u \in Seq(S), u # <<>>
  PROVE  Append(g, Head(u)) \in Seq(S) /\ Append(g, Head(u)) \o Tail(u) = g \o u
<1> DEFINE a == Append(g, Head(u)) \o Tail(u)
           b == g \o u
<1>1. Head(u) \in S /\ Tail(u) \in Seq(S) /\ Len(u) \in Nat \ {0} /\ Len(Tail(u)) = Len(u) - 1
  OBVIOUS
<1>2. Append(g, Head(u)) \in Seq(S) /\ Len(Append(g, Head(u))) = Len(g) + 1
  BY <1>1
<1>3. a \in Seq(S) /\ b \in Seq(S) /\ Len(a) = Len(g) + Len(u) /\ Len(b) = Len(g) + Len(u)
  BY <1>1, <1>2
<1>4. ASSUME NEW k \in 1..(Len(g) + Len(u)) PROVE a[k] = b[k]
  <2>1. CASE k <= Len(g)
    BY <1>1, <1>2, <2>1
  <2>2. CASE k = Len(g) + 1
    BY <1>1, <1>2, <2>2
  <2>3. CASE k > Len(g) + 1
    <3>1. a[k] = Tail(u)[k - (Len(g) + 1)] /\ b[k] = u[k - Len(g)]
      BY <1>1, <1>2, <2>3
    <3>2. k - (Len(g) + 1) \in 1..(Len(u) - 1) /\ (k - (Len(g) + 1)) + 1 = k - Len(g)
      BY <1>1, <2>3
    <3> QED  BY <1>1, <3>1, <3>2
  <2> QED  BY <1>1, <2>1, <2>2, <2>3
<1> HIDE DEF a, b
<1>5. a = b
  BY <1>3, <1>4
<1> QED  BY <1>2, <1>5 DEF a, b

LEMMA ReadUnitFlow ==
  ASSUME ProcsInv, FlowInv, NEW p \in DOMAIN procs, ReadUnit(p)
  PROVE  FlowInv'
<1> DEFINE r == procs[p]
           u == pipes[r.in]
           r2 == [r EXCEPT !.got = Append(@, Head(u))]
<1>1. /\ r.pc = "run" /\ ~r.eof /\ IsPipe(r.in) /\ u # <<>> /\ Becomes(p, r2)
      /\ pipes' = [pipes EXCEPT ![r.in] = Tail(u)]
  BY DEF ReadUnit
<1>2. DOMAIN r = Fields /\ r.left \in Int
  BY <1>1, AtNode
<1>3. r.in \in DOMAIN pipes /\ u \in Contents /\ r.got \in Contents
  <2>1. r.in \in DOMAIN pipes
    BY <1>1, ProcIs DEF FdInv, Ended
  <2> QED  BY <2>1 DEF ProcsInv, PipesInv, FlowInv, WiringsInv, WiringInv
<1>4. /\ SameNode(r, r2) /\ r2.held = r.held /\ r2.pc = "run" /\ r2.in = r.in /\ r2.out = r.out
      /\ r2.left = r.left /\ r2.eof = r.eof /\ r2.got = Append(r.got, Head(u))
  BY <1>1, <1>2 DEF SameNode, Fields
<1>5. r2.got \in Contents /\ r2.got \o Tail(u) = r.got \o u
  BY <1>1, <1>3, <1>4, UnitMoves DEF Contents
<1>6. /\ DOMAIN procs' = DOMAIN procs /\ procs'[p] = r2
      /\ \A x \in DOMAIN procs \ {p} : procs'[x] = procs[x]
  BY <1>1 DEF Becomes
<1> HIDE DEF r2
<1>7. KeepsEnds(r, r2)
  BY <1>4 DEF KeepsEnds
<1>8. ASSUME NEW q \in DOMAIN procs', NEW e \in DOMAIN pipes', Reader(procs'[q], e)
      PROVE  Sent(procs'[q], e, procs', pipes'[e])
  <2>1. e \in DOMAIN pipes /\ q \in DOMAIN procs /\ Reader(procs[q], e)
    BY <1>1, <1>7, <1>8, ReaderBefore
  <2>2. CASE e # r.in
    <3>1. pipes'[e] = pipes[e]
      BY <1>1, <2>1, <2>2
    <3>2. q # p
      <4>1. ~Reader(r, e)
        BY <1>1, <2>2 DEF Reader
      <4> QED  BY <2>1, <4>1
    <3> QED  BY <1>1, <1>4, <1>7, <1>8, <2>1, <3>1, <3>2, CommandData
  <2>3. CASE e = r.in
    <3>1. Reader(r, e)
      BY <1>1, <2>3 DEF Reader
    <3>2. q = p
      BY <1>1, <2>1, <3>1, OneReader
    <3>3. pipes'[e] = Tail(u) /\ pipes[e] = u
      BY <1>1, <1>3, <2>3
    <3>4. Sent(r, e, procs, u)
      BY <2>1, <3>1, <3>3 DEF FlowInv, DataInv
    <3>5. \A w : /\ Writes(w, e, procs') <=> Writes(w, e, procs)
                 /\ Writes(w, e, procs) => procs'[w].left = procs[w].left
      BY <1>1, <1>4, <1>6 DEF Writes
    <3>6. \A x \in DOMAIN procs' : Unwritten(procs'[x], e) => Unwritten(procs[x], e)
      <4>1. ~Unwritten(r2, e)
        BY <1>4 DEF Unwritten
      <4> QED  BY <1>6, <4>1
    <3>7. ~r2.eof /\ r2.line = r.line
      BY <1>1, <1>4 DEF SameNode
    <3>8. Sent(r2, e, procs', Tail(u))
      <4> DEFINE all == r.got \o u
                 w == <<e[1], e[3] - 1>>
                 n == r.line.cmds[e[3] - 1].writes
      <4>1. /\ all = [k \in 1..Len(all) |-> <<w, k>>]
            /\ Len(all) \in {0, n} \/ Writes(w, e, procs)
            /\ Writes(w, e, procs) => Len(all) = n - procs[w].left
            /\ (\E x \in DOMAIN procs : Unwritten(procs[x], e)) => Len(all) = 0
        BY <3>4 DEF Sent
      <4>2. r2.got \o Tail(u) = all
        BY <1>5
      <4> HIDE DEF all, w
      <4>3. /\ Len(all) \in {0, n} \/ Writes(w, e, procs')
            /\ Writes(w, e, procs') => Len(all) = n - procs'[w].left
        BY <3>5, <4>1
      <4>4. (\E x \in DOMAIN procs' : Unwritten(procs'[x], e)) => Len(all) = 0
        BY <1>6, <3>6, <4>1
      <4> QED  BY <3>7, <4>1, <4>2, <4>3, <4>4 DEF Sent, w
    <3> QED  BY <1>6, <3>2, <3>3, <3>8
  <2> QED  BY <2>2, <2>3
<1>9. DataInv'
  BY <1>8 DEF DataInv
<1> QED  BY <1>1, <1>4, <1>5, <1>7, <1>9, RunMoves

LEMMA SeeEndFlow ==
  ASSUME ProcsInv, FlowInv, NEW p \in DOMAIN procs, SeeEnd(p)
  PROVE  FlowInv'
<1> DEFINE r == procs[p]
           r2 == [r EXCEPT !.eof = TRUE]
<1>1. /\ r.pc = "run" /\ Becomes(p, r2) /\ UNCHANGED pipes
      /\ IsPipe(r.in) => pipes[r.in] = <<>> /\ \A q \in DOMAIN procs : ~CanWrite(q, r.in)
  BY DEF SeeEnd
<1>2. DOMAIN r = Fields /\ r.left \in Int
  BY <1>1, AtNode
<1>3. /\ SameNode(r, r2) /\ r2.held = r.held /\ r2.pc = "run" /\ r2.in = r.in /\ r2.out = r.out
      /\ r2.left = r.left /\ r2.got = r.got
  BY <1>1, <1>2 DEF SameNode, Fields
<1>4. r2.got \in Contents
  BY <1>3 DEF FlowInv, WiringsInv, WiringInv
<1>5. /\ DOMAIN procs' = DOMAIN procs /\ procs'[p] = r2
      /\ \A x \in DOMAIN procs \ {p} : procs'[x] = procs[x]
  BY <1>1 DEF Becomes
<1> HIDE DEF r2
<1>6. KeepsEnds(r, r2)
  BY <1>3 DEF KeepsEnds
<1>7. ASSUME NEW q \in DOMAIN procs', NEW e \in DOMAIN pipes', Reader(procs'[q], e)
      PROVE  Sent(procs'[q], e, procs', pipes'[e])
  <2>1. e \in DOMAIN pipes /\ q \in DOMAIN procs /\ Reader(procs[q], e) /\ pipes'[e] = pipes[e]
    BY <1>1, <1>6, <1>7, ReaderBefore
  <2>2. CASE q # p
    BY <1>1, <1>3, <1>6, <1>7, <2>1, <2>2, CommandData
  <2>3. CASE q = p
    <3>1. r.in = e /\ IsPipe(e)
      BY <1>1, <2>1, <2>3 DEF Reader
    <3>2. Sent(r, e, procs, pipes[e])
      BY <2>1, <2>3 DEF FlowInv, DataInv
    <3>3. pipes[e] = <<>> /\ \A x \in DOMAIN procs : ~MayWrite(procs[x], e)
      BY <1>1, <3>1 DEF CanWrite, Alive, MayWrite, Ended
    <3>4. \A w : /\ Writes(w, e, procs') <=> Writes(w, e, procs)
                 /\ Writes(w, e, procs) => procs'[w].left = procs[w].left
      BY <1>1, <1>3, <1>5 DEF Writes
    <3>5. \A x \in DOMAIN procs' : Unwritten(procs'[x], e) => Unwritten(procs[x], e)
      <4>1. ~Unwritten(r2, e)
        BY <1>3 DEF Unwritten
      <4> QED  BY <1>5, <4>1
    <3>6. \A x \in DOMAIN procs' : ~MayWrite(procs'[x], e)
      <4>1. MayWrite(r2, e) => MayWrite(r, e)
        BY <1>1, <1>3 DEF MayWrite, Ended
      <4> QED  BY <1>5, <3>3, <4>1
    <3>7. r2.line = r.line
      BY <1>3 DEF SameNode
    <3>8. Sent(r2, e, procs', pipes[e])
      <4> DEFINE all == r.got \o pipes[e]
                 w == <<e[1], e[3] - 1>>
                 n == r.line.cmds[e[3] - 1].writes
      <4>1. /\ all = [k \in 1..Len(all) |-> <<w, k>>]
            /\ Len(all) \in {0, n} \/ Writes(w, e, procs)
            /\ Writes(w, e, procs) => Len(all) = n - procs[w].left
            /\ (\E x \in DOMAIN procs : Unwritten(procs[x], e)) => Len(all) = 0
        BY <3>2 DEF Sent
      <4>2. r2.got \o pipes[e] = all
        BY <1>3
      <4> HIDE DEF all, w
      <4>3. /\ Len(all) \in {0, n} \/ Writes(w, e, procs')
            /\ Writes(w, e, procs') => Len(all) = n - procs'[w].left
        BY <3>4, <4>1
      <4>4. (\E x \in DOMAIN procs' : Unwritten(procs'[x], e)) => Len(all) = 0
        BY <1>5, <3>5, <4>1
      <4> QED  BY <3>3, <3>6, <3>7, <4>1, <4>2, <4>3, <4>4 DEF Sent, w
    <3> QED  BY <1>5, <2>1, <2>3, <3>8
  <2> QED  BY <2>2, <2>3
<1>8. DataInv'
  BY <1>7 DEF DataInv
<1> QED  BY <1>1, <1>3, <1>4, <1>6, <1>8, RunMoves

(* What goes into a pipe goes behind what went through it.                 *)
Numbered(w, s) == \A k \in 1..Len(s) : s[k] = <<w, k>>

LEMMA UnitFollows ==
  ASSUME NEW S, NEW g \in Seq(S), NEW u \in Seq(S), NEW x \in S,
         NEW w, Numbered(w, g \o u), x = <<w, Len(g \o u) + 1>>
  PROVE  /\ g \o Append(u, x) \in Seq(S) /\ Len(g \o Append(u, x)) = Len(g \o u) + 1
         /\ Numbered(w, g \o Append(u, x))
<1> DEFINE a == g \o u
           b == g \o Append(u, x)
           m == Len(a)
<1>1. a \in Seq(S) /\ b \in Seq(S) /\ m \in Nat /\ m = Len(g) + Len(u) /\ Len(b) = m + 1
  OBVIOUS
<1>2. \A k \in 1..m : b[k] = a[k]
  <2> TAKE k \in 1..m
  <2>1. CASE k <= Len(g)
    BY <2>1
  <2>2. CASE k > Len(g)
    BY <1>1, <2>2
  <2> QED  BY <1>1, <2>1, <2>2
<1>3. b[m + 1] = x
  BY <1>1
<1>4. (\A k \in 1..m : a[k] = <<w, k>>) /\ x = <<w, m + 1>>
  BY DEF Numbered
<1> HIDE DEF a, b, m
<1>5. ASSUME NEW k \in 1..(m + 1) PROVE b[k] = <<w, k>>
  <2>1. m \in Nat
    BY <1>1
  <2>2. k \in 1..m \/ k = m + 1
    BY <2>1
  <2> QED  BY <1>2, <1>3, <1>4, <2>2
<1> QED  BY <1>1, <1>5 DEF Numbered, a, b, m

LEMMA UnitIs ==
  ASSUME ProcsInv, FlowInv, NEW p \in DOMAIN procs, NEW q \in DOMAIN procs,
         NEW e, Reader(procs[q], e), Writes(p, e, procs)
  PROVE  /\ p = <<e[1], e[3] - 1>>
         /\ Command(p).writes = procs[q].line.cmds[e[3] - 1].writes
         /\ Command(p).writes \in Nat /\ procs[p].left \in Int
<1>1. procs[q].path # <<>> /\ IsPipe(e) /\ procs[q].line.cmds[e[3] - 1].writes \in Nat
  BY PipeInLine
<1>2. /\ p = <<e[1], e[3] - 1>> /\ p = <<lineNo, Top(procs[p])[1]>> /\ procs[p].path # <<>>
      /\ procs[p].pc = "run"
  BY <1>1, WriterIs, CommandIs DEF FlowInv, Writes
<1>3. Top(procs[p])[1] = e[3] - 1
  BY <1>2
<1>4. procs[p].line = procs[q].line
  BY <1>1, <1>2 DEF FlowInv, OneLine
<1>5. Command(p) = procs[p].line.cmds[Top(procs[p])[1]]
  BY DEF Command, Node, Top
<1>6. procs[p].left \in Int
  BY <1>2, AtNode
<1> QED  BY <1>1, <1>2, <1>3, <1>4, <1>5, <1>6

LEMMA WriteUnitFlow ==
  ASSUME ProcsInv, FlowInv, NEW p \in DOMAIN procs, WriteUnit(p)
  PROVE  FlowInv'
<1> DEFINE r == procs[p]
           r2 == [r EXCEPT !.left = @ - 1]
<1>1. /\ r.pc = "run" /\ Becomes(p, r2)
      /\ \/ UNCHANGED pipes /\ ~IsPipe(r.out)
         \/ IsPipe(r.out) /\ pipes' = [pipes EXCEPT ![r.out] = Append(@, Unit(p))]
  <2>1. r.pc = "run" /\ Becomes(p, r2)
    BY DEF WriteUnit
  <2>2. \/ IsPipe(r.out) /\ pipes' = [pipes EXCEPT ![r.out] = Append(@, Unit(p))]
        \/ Len(r.out) = 1 /\ UNCHANGED pipes
        \/ r.out = Tty /\ UNCHANGED pipes
    BY DEF WriteUnit
  <2>3. ASSUME Len(r.out) = 1 PROVE ~IsPipe(r.out)
    BY <2>3 DEF IsPipe
  <2>4. ~IsPipe(Tty)
    BY DEF IsPipe, Tty
  <2> HIDE DEF r2
  <2> QED  BY <2>1, <2>2, <2>3, <2>4
<1>2. DOMAIN r = Fields /\ r.left \in Int
  BY <1>1, AtNode
<1>3. /\ SameNode(r, r2) /\ r2.held = r.held /\ r2.pc = "run" /\ r2.in = r.in /\ r2.out = r.out
      /\ r2.left = r.left - 1 /\ r2.eof = r.eof /\ r2.got = r.got
  BY <1>1, <1>2 DEF SameNode, Fields
<1>4. r2.got \in Contents
  BY <1>3 DEF FlowInv, WiringsInv, WiringInv
<1>5. /\ DOMAIN procs' = DOMAIN procs /\ procs'[p] = r2
      /\ \A x \in DOMAIN procs \ {p} : procs'[x] = procs[x]
  BY <1>1 DEF Becomes
<1> HIDE DEF r2
<1>6. KeepsEnds(r, r2)
  BY <1>3 DEF KeepsEnds
<1>7. ASSUME NEW q \in DOMAIN procs', NEW e \in DOMAIN pipes', Reader(procs'[q], e)
      PROVE  Sent(procs'[q], e, procs', pipes'[e])
  <2>1. q \in DOMAIN procs /\ Reader(procs[q], e) /\ e \in DOMAIN pipes
    BY <1>1, <1>6, <1>7, ReaderBefore
  <2>2. IsPipe(e)
    BY <2>1, PipeInLine
  <2>3. CASE e # r.out
    <3>1. pipes'[e] = pipes[e]
      BY <1>1, <2>1, <2>3
    <3>2. q = p => (r2.pc = "run" /\ r2.eof => r.pc = "run" /\ r.eof)
      BY <1>1, <1>3
    <3>3. r2.out # e
      BY <1>3, <2>3
    <3> QED  BY <1>1, <1>3, <1>6, <1>7, <2>1, <3>1, <3>2, <3>3, CommandData
  <2>4. CASE e = r.out
    <3> DEFINE s == procs[q]
               u == pipes[e]
               x == Unit(p)
               all == s.got \o u
               n == s.line.cmds[e[3] - 1].writes
               w == <<e[1], e[3] - 1>>
    <3>1. Writes(p, e, procs) /\ Sent(s, e, procs, u)
      BY <1>1, <2>1, <2>4 DEF Writes, FlowInv, DataInv
    <3>2. p = w /\ Command(p).writes = n /\ n \in Nat /\ r.left \in Int
      BY <2>1, <3>1, UnitIs
    <3>3. all = [k \in 1..Len(all) |-> <<w, k>>] /\ Len(all) = n - r.left
      BY <3>1, <3>2 DEF Sent
    <3>4. x = <<w, Len(all) + 1>>
      BY <3>2, <3>3 DEF Unit
    <3>5. s.got \in Contents /\ u \in Contents /\ x \in Seq(Nat) \X Int
      <4>1. s.got \in Contents /\ u \in Contents
        BY <2>1 DEF FlowInv, WiringsInv, WiringInv, ProcsInv, PipesInv
      <4>2. p \in Seq(Nat)
        BY PidIs
      <4>3. Command(p).writes - r.left + 1 \in Int
        BY <3>2
      <4> QED  BY <4>1, <4>2, <4>3 DEF Unit
    <3>6. pipes'[e] = Append(u, x)
      BY <1>1, <2>1, <2>2, <2>4
    <3> DEFINE more == s.got \o Append(u, x)
    <3>7. Len(more) = Len(all) + 1 /\ more = [k \in 1..Len(more) |-> <<w, k>>]
      <4> DEFINE S == Seq(Nat) \X Int
      <4>1. s.got \in Seq(S) /\ u \in Seq(S) /\ x \in S
        BY <3>5 DEF Contents
      <4>2. Numbered(w, all)
        <5> HIDE DEF all
        <5> QED  BY <3>3 DEF Numbered
      <4> HIDE DEF S, s, u, x, w
      <4>3. more \in Seq(S) /\ Len(more) = Len(all) + 1 /\ Numbered(w, more)
        BY <3>4, <4>1, <4>2, UnitFollows
      <4> HIDE DEF more
      <4>4. more = [k \in 1..Len(more) |-> more[k]]
        BY <4>3
      <4> QED  BY <4>3, <4>4 DEF Numbered
    <3>8. procs'[q].line = s.line /\ procs'[q].got = s.got
      BY <1>3, <1>5, <2>1 DEF SameNode
    <3>9. Writes(p, e, procs') /\ Len(more) = n - procs'[p].left
      <4>1. Writes(p, e, procs')
        BY <1>3, <1>5, <2>4 DEF Writes
      <4>2. procs'[p].left = r.left - 1
        BY <1>3, <1>5
      <4> HIDE DEF n, all, more, r
      <4> QED  BY <3>2, <3>3, <3>7, <4>1, <4>2
    <3>10. ASSUME NEW y \in DOMAIN procs', Unwritten(procs'[y], e) PROVE FALSE
      <4>1. ~Unwritten(r2, e)
        BY <1>3 DEF Unwritten
      <4>2. y \in DOMAIN procs /\ Unwritten(procs[y], e)
        BY <1>5, <3>10, <4>1
      <4> QED  BY <2>2, <3>1, <4>2, NoneUnwritten
    <3>11. ~(procs'[q].pc = "run" /\ procs'[q].eof /\ procs'[q].line.cmds[Top(procs'[q])[1]].reads)
      <4>1. MayWrite(r, e)
        BY <1>1, <2>4 DEF MayWrite, Ended
      <4>2. ~(s.pc = "run" /\ s.eof /\ s.line.cmds[Top(s)[1]].reads)
        BY <3>1, <4>1 DEF Sent
      <4>3. procs'[q].pc = s.pc /\ procs'[q].eof = s.eof /\ Top(procs'[q]) = Top(s)
        BY <1>1, <1>3, <1>5, <2>1 DEF SameNode, Top
      <4> QED  BY <3>8, <4>2, <4>3
    <3>12. procs'[q].got \o pipes'[e] = more /\ procs'[q].line.cmds[e[3] - 1].writes = n
      BY <3>6, <3>8
    <3> HIDE DEF more, w, n, s
    <3>13. Writes(w, e, procs') /\ Len(more) = n - procs'[w].left
      BY <3>2, <3>9
    <3> QED  BY <3>7, <3>10, <3>11, <3>12, <3>13 DEF Sent, w
  <2> QED  BY <2>3, <2>4
<1>8. DataInv'
  BY <1>7 DEF DataInv
<1> QED  BY <1>1, <1>3, <1>4, <1>6, <1>8, RunMoves

LEMMA CommandEndsFlow ==
  ASSUME ProcsInv, FlowInv, NEW p \in DOMAIN procs, BrokenPipe(p) \/ Terminate(p)
  PROVE  FlowInv'
<1> DEFINE r == procs[p]
<1>1. DOMAIN r = Fields /\ r.left \in Int /\ r.pc = "run" /\ UNCHANGED pipes
  <2>1. r.pc = "run" /\ UNCHANGED pipes
    BY DEF BrokenPipe, Terminate
  <2> QED  BY <2>1, AtNode
<1>2. PICK r2 : /\ Becomes(p, r2) /\ Keeps(r, r2) /\ r2.pc \in Ended
                /\ r.left = 0 \/ \A x \in DOMAIN procs : ~CanRead(x, r.out)
  <2>1. CASE BrokenPipe(p)
    <3> DEFINE r3 == [r EXCEPT !.pc = "killed", !.status = SigPipe, !.held = {}]
    <3>1. Becomes(p, r3) /\ \A x \in DOMAIN procs : ~CanRead(x, r.out)
      BY <2>1 DEF BrokenPipe
    <3>2. Keeps(r, r3) /\ r3.pc \in Ended
      BY <1>1 DEF Keeps, SameNode, Fields, Ended
    <3> HIDE DEF r3
    <3> QED  BY <3>1, <3>2
  <2>2. CASE Terminate(p)
    <3>1. PICK s \in Statuses : Becomes(p, Exits(r, s))
      BY <2>2 DEF Terminate
    <3>2. r.left = 0
      BY <2>2 DEF Terminate
    <3>3. Keeps(r, Exits(r, s)) /\ Exits(r, s).pc \in Ended
      BY <1>1, ExitsKeep DEF Ended
    <3> QED  BY <3>1, <3>2, <3>3
  <2> QED  BY <2>1, <2>2
<1>3. KeepsEnds(r, r2) /\ r2.pc # "run"
  BY <1>2 DEF KeepsEnds, Keeps, Ended
<1>4. r2.got \in Contents /\ r2.in = r.in /\ r2.out = r.out
  BY <1>2 DEF FlowInv, WiringsInv, WiringInv, Keeps
<1>5. ASSUME NEW q \in DOMAIN procs', NEW e \in DOMAIN pipes', Reader(procs'[q], e)
      PROVE  Sent(procs'[q], e, procs', pipes'[e])
  <2>1. /\ e \in DOMAIN pipes /\ pipes'[e] = pipes[e] /\ q \in DOMAIN procs /\ Reader(procs[q], e)
    BY <1>1, <1>2, <1>3, <1>5, ReaderBefore
  <2>2. CanRead(q, e)
    <3>1. MayRead(procs[q], e)
      BY <2>1, PipeInLine
    <3> QED  BY <3>1 DEF MayRead, CanRead, Alive, Ended
  <2>3. r.left = 0 \/ r.out # e
    BY <1>2, <2>1, <2>2
  <2>4. r2.got = r.got
    BY <1>2 DEF Keeps
  <2> QED  BY <1>1, <1>2, <1>3, <1>5, <2>1, <2>3, <2>4, CommandData
<1>6. DataInv'
  BY <1>5 DEF DataInv
<1> QED  BY <1>1, <1>2, <1>3, <1>4, <1>6, RunMoves

-----------------------------------------------------------------------------
(* The invariant, and what it says of a reader.                            *)
LEMMA InitHasFlowInv == Init => FlowInv
<1> SUFFICES ASSUME Init PROVE FlowInv
  OBVIOUS
<1> DEFINE s == procs[Shell]
<1>1. /\ DOMAIN procs = {Shell} /\ s.pc = "prompt" /\ s.path = <<>> /\ s.in = Tty /\ s.out = Tty
      /\ s.got = <<>> /\ pipes = <<>> /\ DOMAIN pipes = {}
  BY DEF Init
<1>2. Nested /\ FrontInv /\ OneLine
  BY <1>1 DEF Nested, FrontInv, OneLine, Evaluating
<1>3. ParentInv
  <2>1. Len(Shell) # 2
    BY DEF Shell
  <2> QED  BY <1>1, <2>1 DEF ParentInv
<1>4. WiringsInv
  <2>1. WiringInv(Shell, s)
    <3>1. s.got \in Contents
      BY <1>1 DEF Contents
    <3> QED  BY <1>1, <3>1 DEF WiringInv
  <2> QED  BY <1>1, <2>1 DEF WiringsInv
<1>5. DataInv
  BY <1>1 DEF DataInv
<1> QED  BY <1>2, <1>3, <1>4, <1>5 DEF FlowInv

LEMMA NextKeepsFlowInv ==
  ASSUME ShellInv, FlowInv, [Next]_vars
  PROVE  FlowInv'
<1>1. ProcsInv /\ (fails = 0 => TreeInv)
  BY DEF ShellInv
<1>2. ASSUME UNCHANGED vars PROVE FlowInv'
  <2>1. procs' = procs /\ pipes' = pipes
    BY <1>2 DEF vars
  <2>2. Nested' /\ FrontInv' /\ OneLine'
    BY <2>1 DEF FlowInv, Nested, FrontInv, OneLine
  <2>3. ParentInv'
    BY <2>1 DEF FlowInv, ParentInv, CommandPid, Node
  <2>4. WiringsInv' /\ DataInv'
    BY <2>1 DEF FlowInv, WiringsInv, DataInv
  <2> QED  BY <2>2, <2>3, <2>4 DEF FlowInv
<1>3. ASSUME NEW l \in Lines, ReadLine(l) PROVE FlowInv'
  <2>1. fails = 0
    BY <1>3 DEF ReadLine
  <2> QED  BY <1>1, <1>3, <2>1, ReadLineFlow
<1>4. ASSUME EndOfInput \/ FreeParseMemory PROVE FlowInv'
  BY <1>1, <1>4, EndOfInputFlow, FreeParseMemoryFlow
<1>5. ASSUME NEW p \in DOMAIN procs, ShellStep(p) PROVE FlowInv'
  <2>1. CASE Builtin(p)
    BY <1>1, <2>1, BuiltinFlow
  <2>2. CASE ForkCommand(p)
    BY <1>1, <2>2, ForkCommandFlow
  <2>3. CASE WaitCommand(p)
    BY <1>1, <2>3, WaitCommandFlow
  <2>4. CASE ForkOperand1(p)
    BY <1>1, <2>4, ForkOperand1Flow
  <2>5. CASE ForkOperand2(p)
    BY <1>1, <2>5, ForkOperand2Flow
  <2>6. CASE SetUpEnd(p)
    BY <1>1, <2>6, SetUpEndFlow
  <2>7. CASE ClosePipe(p)
    BY <1>1, <2>7, ClosePipeFlow
  <2>8. CASE WaitOperand1(p)
    BY <1>1, <2>8, WaitOperand1Flow
  <2>9. CASE WaitOperand2(p)
    BY <1>1, <2>9, WaitOperand2Flow
  <2>10. CASE EvalCmd1(p)
    BY <1>1, <2>10, EvalCmd1Flow
  <2>11. CASE ReturnFromCommand(p)
    BY <1>1, <2>11, ReturnFromCommandFlow
  <2> QED  BY <1>5, <2>1, <2>2, <2>3, <2>4, <2>5, <2>6, <2>7, <2>8, <2>9, <2>10, <2>11 DEF ShellStep
<1>6. ASSUME NEW p \in DOMAIN procs, CommandStep(p) PROVE FlowInv'
  <2>1. CASE ExecCommand(p)
    BY <1>1, <2>1, ExecCommandFlow
  <2>2. CASE ReadUnit(p)
    BY <1>1, <2>2, ReadUnitFlow
  <2>3. CASE SeeEnd(p)
    BY <1>1, <2>3, SeeEndFlow
  <2>4. CASE WriteUnit(p)
    BY <1>1, <2>4, WriteUnitFlow
  <2>5. CASE BrokenPipe(p) \/ Terminate(p)
    BY <1>1, <2>5, CommandEndsFlow
  <2> QED  BY <1>6, <2>1, <2>2, <2>3, <2>4, <2>5 DEF CommandStep
<1> QED  BY <1>2, <1>3, <1>4, <1>5, <1>6 DEF Next, Run

(* A command behind `|` that does not redirect its input reads the pipe    *)
(* into it, and the command in front of it writes to that pipe.            *)
LEMMA ReadsItsPipe ==
  ASSUME ProcsInv, FlowInv, NEW p \in DOMAIN procs, procs[p].pc = "run",
         p[2] > 1, procs[p].line.ops[p[2] - 1] = "|", Command(p).in = None
  PROVE  LET r == procs[p]
             e == r.in IN
         /\ p = <<lineNo, e[3]>> /\ r.no = lineNo /\ e[1] = lineNo /\ e[3] \in Nat
         /\ Into(r.line, lineNo, e, e[3]) /\ Piped(r.line, e[3] - 1) /\ r.line \in Lines /\ r.path # <<>>
         /\ IsPipe(e) /\ e \in DOMAIN pipes /\ Sent(r, e, procs, pipes[e])
         /\ Command(p) = r.line.cmds[Top(r)[1]]
<1> DEFINE r == procs[p]
           e == r.in
           i == Top(r)[1]
<1>1. /\ p = <<lineNo, i>> /\ i \in Nat /\ r.path # <<>> /\ r.line \in Lines /\ r.no = lineNo
      /\ Top(r) \in NodesOf(r.line)
  BY CommandIs
<1>2. p[2] = i
  BY <1>1
<1>3. Piped(r.line, i - 1)
  <2>1. i <= Len(r.line.cmds) /\ Len(r.line.cmds) = Len(r.line.ops) + 1 /\ Len(r.line.ops) \in Nat
    <3>1. Top(r)[1] <= Top(r)[2] /\ Top(r)[2] <= Len(r.line.cmds) /\ Top(r)[2] \in Nat
      BY <1>1 DEF NodesOf
    <3>2. Len(r.line.cmds) = Len(r.line.ops) + 1 /\ Len(r.line.ops) \in Nat
      BY <1>1, LineIs
    <3> QED  BY <1>1, <3>1, <3>2
  <2>2. i > 1 /\ r.line.ops[i - 1] = "|"
    BY <1>2
  <2> HIDE DEF i
  <2> QED  BY <1>1, <2>1, <2>2 DEF Piped
<1>4. Command(p) = r.line.cmds[i]
  BY DEF Command, Node, Top
<1>5. Into(r.line, lineNo, e, i)
  <2>1. WiresInv(r)
    BY <1>1 DEF FlowInv, WiringsInv, WiringInv
  <2>2. InputIs(r, Top(r))
    BY <1>4, <2>1 DEF WiresInv, Redirected
  <2> QED  BY <1>1, <1>3, <2>2 DEF InputIs
<1>6. IsPipe(e) /\ e[1] = lineNo /\ e[3] = i
  BY <1>5, IntoIs
<1>7. e \in DOMAIN pipes
  BY <1>6, ProcIs DEF FdInv, Ended
<1>8. Sent(r, e, procs, pipes[e])
  BY <1>6, <1>7 DEF FlowInv, DataInv, Reader
<1> QED  BY <1>1, <1>3, <1>4, <1>5, <1>6, <1>7, <1>8

(* Who is about command i, with the output it had, can write to its pipe.  *)
LEMMA WritesItsPipe ==
  ASSUME NEW l \in Lines, NEW e, NEW b \in Nat, Into(l, lineNo, e, b),
         NEW v, v.line = l, v.no = lineNo, NEW n, n[2] + 1 = b, n[2] = b - 1, OutputIs(v, n)
  PROVE  v.out = e
<1>1. Piped(l, n[2])
  BY DEF Into
<1>2. Into(l, lineNo, v.out, b)
  BY <1>1 DEF OutputIs
<1> QED  BY <1>2, IntoIsUnique

LEMMA FlowDelivers ==
  ASSUME ProcsInv, FlowInv
  PROVE  PipeDelivers
<1> SUFFICES ASSUME NEW p \in DOMAIN procs, procs[p].pc = "run", p[2] > 1,
                    procs[p].line.ops[p[2] - 1] = "|", Command(p).in = None
             PROVE  LET r == procs[p]
                        writer == <<r.no, p[2] - 1>>
                        before == r.line.cmds[p[2] - 1]
                        got == r.got \o pipes[r.in]
                    IN  /\ IsPipe(r.in)
                        /\ got = [k \in 1..Len(got) |-> <<writer, k>>]
                        /\ (writer \in DOMAIN procs /\ procs[writer].pc = "run" /\ before.out = None) =>
                             Len(got) = before.writes - procs[writer].left
                        /\ (r.eof /\ Command(p).reads) =>
                             /\ pipes[r.in] = <<>> /\ Len(got) \in {0, before.writes}
                             /\ writer \in DOMAIN procs => ~Alive(writer)
  BY DEF PipeDelivers
<1> DEFINE r == procs[p]
           e == r.in
           l == r.line
           i == e[3] - 1
           w == <<lineNo, i>>
           n == l.cmds[i].writes
           got == r.got \o pipes[e]
<1>1. /\ p = <<lineNo, e[3]>> /\ r.no = lineNo /\ e[1] = lineNo /\ e[3] \in Nat
      /\ Into(l, lineNo, e, e[3]) /\ Piped(l, i) /\ l \in Lines /\ r.path # <<>>
      /\ IsPipe(e) /\ e \in DOMAIN pipes /\ Sent(r, e, procs, pipes[e])
      /\ Command(p) = l.cmds[Top(r)[1]]
  BY ReadsItsPipe
<1>2. p[2] - 1 = i /\ <<r.no, p[2] - 1>> = w /\ w = <<e[1], e[3] - 1>>
  BY <1>1
<1>3. i + 1 = e[3] /\ i \in Int
  BY <1>1
<1>4. /\ got = [k \in 1..Len(got) |-> <<w, k>>]
      /\ Len(got) \in {0, n} \/ Writes(w, e, procs)
      /\ Writes(w, e, procs) => Len(got) = n - procs[w].left
      /\ r.eof /\ Command(p).reads => pipes[e] = <<>> /\ \A q \in DOMAIN procs : ~MayWrite(procs[q], e)
  BY <1>1, <1>2 DEF Sent
<1> HIDE DEF got
<1>5. ASSUME w \in DOMAIN procs, procs[w].pc = "run", l.cmds[i].out = None PROVE Writes(w, e, procs)
  <2> DEFINE v == procs[w]
  <2>1. /\ w = <<lineNo, Top(v)[1]>> /\ Top(v)[1] = Top(v)[2] /\ v.path # <<>> /\ v.no = lineNo
    BY <1>5, CommandIs
  <2>2. Top(v)[1] = i /\ Top(v)[2] = i
    BY <2>1
  <2>3. v.line = l
    BY <1>1, <1>5, <2>1 DEF FlowInv, OneLine
  <2>4. OutputIs(v, Top(v))
    <3>1. WiresInv(v)
      BY <1>5, <2>1 DEF FlowInv, WiringsInv, WiringInv
    <3> QED  BY <1>5, <2>2, <2>3, <3>1 DEF WiresInv, Redirected
  <2> HIDE DEF v
  <2>5. v.out = e
    BY <1>1, <1>3, <2>1, <2>2, <2>3, <2>4, WritesItsPipe
  <2> QED  BY <1>5, <2>5 DEF Writes, v
<1>6. ASSUME w \in DOMAIN procs PROVE \E x \in DOMAIN procs : MayWrite(procs[x], e)
  <2>1. Len(w) = 2
    OBVIOUS
  <2>2. PICK x \in DOMAIN procs : procs[x].pc = "wait" /\ CommandPid(x) = w
    BY <1>6, <2>1 DEF FlowInv, ParentInv
  <2> DEFINE v == procs[x]
  <2>3. v.path # <<>> /\ v.no = lineNo /\ IsLeaf(Top(v))
    BY <2>2, ProcIs DEF PlaceInv, Evaluating
  <2>4. Top(v)[1] = i /\ Top(v)[2] = i
    BY <2>2, <2>3 DEF CommandPid, Node, Top, IsLeaf
  <2>5. v.line = l
    BY <1>1, <2>3 DEF FlowInv, OneLine
  <2>6. OutputIs(v, Top(v))
    BY <2>2, <2>3 DEF FlowInv, WiringsInv, WiringInv, WiresInv, Settled, Evaluating, Wired
  <2> HIDE DEF v
  <2>7. v.out = e
    BY <1>1, <1>3, <2>3, <2>4, <2>5, <2>6, WritesItsPipe
  <2> QED  BY <2>2, <2>7 DEF MayWrite, Ended, v
<1>7. r.eof /\ Command(p).reads => /\ pipes[e] = <<>> /\ Len(got) \in {0, n}
                                   /\ w \notin DOMAIN procs
  <2>1. Writes(w, e, procs) => w \in DOMAIN procs
    BY DEF Writes
  <2> QED  BY <1>4, <1>6, <2>1
<1> HIDE DEF w, n
<1> QED  BY <1>1, <1>2, <1>4, <1>5, <1>7 DEF got, n

\* In every state of every line, forks that failed included: each process has as
\* input and output what the pipes around its node and the redirections of its
\* command make them, nothing that was started is where another process is still
\* to come, each command has a process that waits for it, and what went through
\* each pipe are the units of its one writer, in order and none twice.
THEOREM FlowInvariant == Spec => []FlowInv
<1>1. Init => ShellInv /\ FlowInv
  BY InitHasShellInv, InitHasFlowInv
<1>2. ShellInv /\ FlowInv /\ [Next]_vars => (ShellInv /\ FlowInv)'
  BY NextKeepsShellInv, NextKeepsFlowInv
<1> QED  BY <1>1, <1>2, PTL DEF Spec

\* The command behind `|` gets the units of the one in front of it, all and in
\* order, and sees the end only after that one was waited for (run_on_pipe and the
\* child of parse_simple in src/cmd.c): for any lines, any sizes of the pipes, any
\* redirections and any number of failed forks.
THEOREM PipesDeliver == Spec => []PipeDelivers
<1>1. ASSUME ShellInv, FlowInv PROVE PipeDelivers
  BY <1>1, FlowDelivers DEF ShellInv
<1> QED  BY <1>1, ShellInvariant, FlowInvariant, PTL

=============================================================================
