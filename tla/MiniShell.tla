----------------------------- MODULE MiniShell -----------------------------
(***************************************************************************)
(* The execution of command lines by mini-shell (src/cmd.c, src/main.c):   *)
(* the shell, the copies of it that fork() makes for the operands of `&`   *)
(* and `|`, the commands they execute, the pipes between them and the      *)
(* files they redirect to.                                                 *)
(*                                                                         *)
(* A line is [cmds: a sequence of simple commands, ops: the operators      *)
(* between them].  A node of its parse tree is the interval <<i, j>> of    *)
(* the commands it spans, and a process keeps in "path" the nodes whose    *)
(* parse_command calls are on its C stack.  A copy has the pid             *)
(* <<line number, i, j>> of the node it evaluates, the command executed    *)
(* for leaf i the pid <<line number, i>>, and the pipe of a node its pid.  *)
(***************************************************************************)
EXTENDS Integers, Sequences

CONSTANTS Lines,      \* the lines a user may type
          Files,      \* the file names that can be created and opened
          Statuses,   \* the exit codes a command may choose
          PipeCap,    \* the units a pipe holds
          MaxLines,   \* bound: lines typed before the end of the input
          MaxFails    \* bound: calls of fork that fail

ASSUME BoundsAssumption == PipeCap \in Nat \ {0} /\ MaxLines \in Nat /\ MaxFails \in Nat

VARIABLES procs,    \* the processes that were not waited for yet, by pid
          pipes,    \* the units in each pipe
          files,    \* the contents of the files that exist
          lineNo,   \* lines typed so far
          results,  \* what each parse_simple of the line returned
          fails,    \* calls of fork that failed so far
          freed     \* the shell freed a string that the parser owns

vars == <<procs, pipes, files, lineNo, results, fails, freed>>

Shell == <<0>>
Tty == <<>>
None == ""
NoLine == [cmds |-> <<>>, ops |-> <<>>]
SigPipe == 13
Failure == 1

(* Lexer tokens and grammar: all operators associate to the left, so the   *)
(* root of an interval is the last of its operators of lowest priority.    *)
Operators == {";", "&", "&&", "||", "|"}
Priority == [op \in Operators |-> CASE op = ";" -> 1 [] op = "&" -> 2
                                     [] op \in {"&&", "||"} -> 3 [] op = "|" -> 4]

Commands ==
  [verb : {"external", "cd", "pwd", "assign", "exit"}, arg : STRING, ok : BOOLEAN,
   reads : BOOLEAN, writes : Nat, in : STRING, out : STRING, err : STRING,
   flags : SUBSET {"out", "err"}]

ASSUME LinesAssumption ==
  /\ \A l \in Lines : /\ l \in [cmds : Seq(Commands), ops : Seq(Operators)]
                      /\ Len(l.cmds) = Len(l.ops) + 1
  /\ Files \subseteq STRING \ {None} /\ Statuses \subseteq Nat  \* open("") fails

Lowest(l, n) == {k \in n[1]..(n[2] - 1) : \A m \in n[1]..(n[2] - 1) :
                   Priority[l.ops[k]] <= Priority[l.ops[m]]}
SplitFirst(l, n) == CHOOSE k \in Lowest(l, n) : \A m \in Lowest(l, n) : k <= m  \* mutant
Split(l, n) == CHOOSE k \in Lowest(l, n) : \A m \in Lowest(l, n) : m <= k

IsLeaf(n) == n[1] = n[2]
Op(l, n) == IF IsLeaf(n) THEN None ELSE l.ops[Split(l, n)]
Cmd1(l, n) == <<n[1], Split(l, n)>>
Cmd2(l, n) == <<Split(l, n) + 1, n[2]>>
Root(l) == <<1, Len(l.cmds)>>

----------------------------------------------------------------------------
Alive(p) == procs[p].pc \notin {"exited", "killed"}
Node(p) == procs[p].path[Len(procs[p].path)]
NodeOp(p) == Op(procs[p].line, Node(p))
Command(p) == procs[p].line.cmds[Node(p)[1]]
Pid(p, n) == <<procs[p].no, n[1], n[2]>>       \* the copy, or pipe, of node n
CommandPid(p) == <<procs[p].no, Node(p)[1]>>   \* the command of a leaf
Ends(pipe) == {<<pipe, "r">>, <<pipe, "w">>}

CanRead(p, pipe) == Alive(p) /\ (procs[p].in = pipe \/ <<pipe, "r">> \in procs[p].held)
CanWrite(p, pipe) == Alive(p) /\ (procs[p].out = pipe \/ <<pipe, "w">> \in procs[p].held)
IsPipe(fd) == Len(fd) = 3

(* parse_command goes back to its caller with a status; exit() keeps its   *)
(* low 8 bits.                                                             *)
Returns(r, status) == [r EXCEPT !.pc = "return", !.status = status]
Exits(r, status) == [r EXCEPT !.pc = "exited", !.status = status % 256, !.held = {}]
Becomes(p, r) == procs' = [procs EXCEPT ![p] = r]

With(f, x, v) == [y \in DOMAIN f \cup {x} |-> IF y = x THEN v ELSE f[y]]

(* A child starts with a copy of everything its parent has.                *)
Child(p, pc, n) ==
  [procs[p] EXCEPT !.pc = pc, !.path = <<n>>, !.status = 0, !.pipe = Pid(p, Node(p))]

Init ==
  /\ procs = [p \in {Shell} |->
              [pc |-> "prompt", path |-> <<>>, status |-> 0, no |-> 0, line |-> NoLine,
               in |-> Tty, out |-> Tty, err |-> Tty, held |-> {}, pipe |-> Tty,
               cwd |-> "home", env |-> "unset", was |-> [cwd |-> "home", env |-> "unset"],
               left |-> 0, got |-> <<>>, eof |-> FALSE]]
  /\ pipes = <<>> /\ files = <<>> /\ results = <<>>
  /\ lineNo = 0 /\ fails = 0 /\ freed = FALSE

----------------------------------------------------------------------------
(* main.c: the shell reads a line, parses it, runs it and frees the tree.  *)
(* A line that is empty or does not parse leaves it at the prompt.         *)

ReadLine(l) ==
  LET s == procs[Shell] IN
  /\ s.pc = "prompt" /\ lineNo < MaxLines
  /\ fails = 0                     \* bound: no line after a failed fork
  /\ lineNo' = lineNo + 1
  /\ Becomes(Shell, [s EXCEPT !.pc = "eval", !.path = <<Root(l)>>,
                              !.no = lineNo + 1, !.line = l,
                              !.was = [cwd |-> s.cwd, env |-> s.env]])
  /\ UNCHANGED <<pipes, files, results, fails, freed>>

EndOfInput ==
  /\ procs[Shell].pc = "prompt"
  /\ Becomes(Shell, Exits(procs[Shell], 0))
  /\ UNCHANGED <<pipes, files, lineNo, results, fails, freed>>

(* The C library aborts on freeing what was freed before.  A pipe is gone  *)
(* when nobody holds an end of it.                                         *)
FreeParseMemory ==
  LET s == procs[Shell]
      open == {e \in DOMAIN pipes : \E q \in DOMAIN procs : CanRead(q, e) \/ CanWrite(q, e)} IN
  /\ s.pc = "free"
  /\ Becomes(Shell, [s EXCEPT !.pc = IF freed THEN "killed" ELSE "prompt", !.status = 0,
                              !.line = NoLine, !.no = 0])
  /\ pipes' = [e \in open |-> pipes[e]] /\ results' = <<>> /\ freed' = FALSE
  /\ UNCHANGED <<files, lineNo, fails>>

----------------------------------------------------------------------------
(* redirect_command: which of the files a command names get opened, each   *)
(* in the one mode computed for all of them, and the first failure ends it.*)

Append_(c) == c.flags \in {{"out"}, {"err"}}

InOpens(c) == c.in = None \/ c.in \in DOMAIN files
OutOpens(c) == InOpens(c) /\ (c.out = None \/ c.out \in Files)
Opened(c) ==
  {f \in {c.out} : f # None /\ OutOpens(c)} \cup
  {f \in {c.err} : f \in Files /\ OutOpens(c)}

OpenFiles(c, opened, truncate) ==
  [f \in DOMAIN files \cup opened |->
     IF (f \in opened /\ truncate) \/ f \notin DOMAIN files THEN <<>> ELSE files[f]]

RedirectCommand(c) == OpenFiles(c, Opened(c), ~Append_(c))

RedirectFds(r, c) ==
  [r EXCEPT !.in = IF c.in # None /\ InOpens(c) THEN <<c.in>> ELSE @,
            !.out = IF c.out \in Opened(c) THEN <<c.out>> ELSE @,
            !.err = IF c.err \in Opened(c) THEN <<c.err>> ELSE @]

Record(p, status) == results' = With(results, CommandPid(p), status)

(* The commands parse_simple handles itself.  pwd prints only to a file.   *)
ShellCd(p) ==
  LET c == Command(p) IN
  /\ c.verb = "cd"
  /\ files' = RedirectCommand(c)
  /\ LET status == IF c.ok THEN 0 ELSE Failure IN
       /\ Becomes(p, Returns([procs[p] EXCEPT !.cwd = IF c.ok THEN c.arg ELSE @], status))
       /\ Record(p, status)
  /\ UNCHANGED freed

ShellPwd(p) ==
  LET c == Command(p)
      ok == c.out = None \/ c.out \in Files
      opened == {f \in {c.out} : f # None /\ ok}
      status == IF ok THEN 0 ELSE Failure
      fs == OpenFiles(c, opened, ~Append_(c)) IN
  /\ c.verb = "pwd"
  /\ files' = [f \in DOMAIN fs |-> IF f \in opened THEN Append(fs[f], procs[p].cwd) ELSE fs[f]]
  /\ Becomes(p, Returns(procs[p], status)) /\ Record(p, status)
  /\ UNCHANGED freed

(* An assignment frees the name, which the parser frees once more.         *)
SetVariable(p) ==
  LET c == Command(p)
      status == IF c.arg = None THEN Failure ELSE IF c.ok THEN 0 ELSE -1 IN
  /\ c.verb = "assign"
  /\ Becomes(p, Returns([procs[p] EXCEPT !.env = IF status = 0 THEN c.arg ELSE @], status))
  /\ Record(p, status)
  /\ freed' = (freed \/ p = Shell)
  /\ UNCHANGED files

ShellExit(p) ==
  /\ Command(p).verb = "exit"
  /\ Becomes(p, Exits(procs[p], 0)) /\ Record(p, 0)
  /\ UNCHANGED <<files, freed>>

Builtin(p) ==
  /\ procs[p].pc = "eval" /\ IsLeaf(Node(p))
  /\ ShellCd(p) \/ ShellPwd(p) \/ SetVariable(p) \/ ShellExit(p)
  /\ UNCHANGED <<pipes, lineNo, fails>>

(* Every fork may fail.  If it does the caller goes on as "failed" says.   *)
Fork(p, child, r, parent, failed) ==
  \/ procs' = With([procs EXCEPT ![p] = parent], child, r) /\ UNCHANGED fails
  \/ fails < MaxFails /\ fails' = fails + 1 /\ Becomes(p, failed)

ForkCommand(p) ==
  /\ procs[p].pc = "eval" /\ IsLeaf(Node(p)) /\ Command(p).verb = "external"
  /\ Fork(p, CommandPid(p), Child(p, "exec", Node(p)),
          [procs[p] EXCEPT !.pc = "wait"], Returns(procs[p], Failure))
  /\ results' = IF fails' > fails THEN With(results, CommandPid(p), Failure) ELSE results
  /\ UNCHANGED <<pipes, files, lineNo, freed>>

(* waitpid: the status of a dead child, which then is gone.                *)
Wait(p, child, r) ==
  /\ child \in DOMAIN procs /\ ~Alive(child)
  /\ procs' = [q \in DOMAIN procs \ {child} |-> IF q = p THEN r ELSE procs[q]]

WaitCommand(p) ==
  LET child == CommandPid(p) IN
  /\ procs[p].pc = "wait"
  /\ Wait(p, child, Returns(procs[p], procs[child].status))
  /\ Record(p, procs[child].status)
  /\ UNCHANGED <<pipes, files, lineNo, fails, freed>>

----------------------------------------------------------------------------
(* run_in_parallel and run_on_pipe: a copy for each operand.               *)

Operand(p, k) == IF k = 1 THEN Cmd1(procs[p].line, Node(p)) ELSE Cmd2(procs[p].line, Node(p))

ForkOperand1(p) ==
  LET pipe == Pid(p, Node(p))  n == Operand(p, 1)
      held == IF NodeOp(p) = "|" THEN Ends(pipe) ELSE {}
      pc == IF NodeOp(p) = "|" THEN "setup" ELSE "eval" IN
  /\ procs[p].pc = "eval" /\ NodeOp(p) \in {"&", "|"}
  /\ Fork(p, Pid(p, n), [Child(p, pc, n) EXCEPT !.held = @ \cup held],
          [procs[p] EXCEPT !.pc = "fork2", !.held = @ \cup held],
          IF NodeOp(p) = "|" THEN Exits(procs[p], Failure) ELSE Returns(procs[p], 0))
  /\ pipes' = IF NodeOp(p) = "|" THEN With(pipes, pipe, <<>>) ELSE pipes
  /\ UNCHANGED <<files, lineNo, results, freed>>

(* If the second fork fails the result is false, which is a status of 0,   *)
(* the first child is not waited for and the pipe stays open.              *)
ForkOperand2(p) ==
  LET n == Operand(p, 2) IN
  /\ procs[p].pc = "fork2"
  /\ Fork(p, Pid(p, n), Child(p, IF NodeOp(p) = "|" THEN "setup" ELSE "eval", n),
          [procs[p] EXCEPT !.pc = IF NodeOp(p) = "|" THEN "close" ELSE "wait1"],
          Returns(procs[p], 0))
  /\ UNCHANGED <<pipes, files, lineNo, results, freed>>

(* The children of run_on_pipe: cmd1 writes to the pipe, which it holds    *)
(* with its other end until here, cmd2 reads from it.                      *)
IsCmd1(p, pipe) == Node(p) = Cmd1(procs[p].line, Tail(pipe))

CloseReadOnly(pipe) == {<<pipe, "r">>}    \* mutant
Closed(pipe) == Ends(pipe)

DupWriteOnly(p, r) == IF IsCmd1(p, r.pipe) THEN [r EXCEPT !.out = r.pipe] ELSE r  \* mutant
Dup2(p, r) ==
  IF IsCmd1(p, r.pipe) THEN [r EXCEPT !.out = r.pipe] ELSE [r EXCEPT !.in = r.pipe]

SetUpEnd(p) ==
  /\ procs[p].pc = "setup"
  /\ Becomes(p, [Dup2(p, procs[p]) EXCEPT !.pc = "eval", !.held = @ \ Closed(procs[p].pipe)])
  /\ UNCHANGED <<pipes, files, lineNo, results, fails, freed>>

ClosePipe(p) ==
  /\ procs[p].pc = "close"
  /\ Becomes(p, [procs[p] EXCEPT !.pc = "wait1", !.held = @ \ Closed(Pid(p, Node(p)))])
  /\ UNCHANGED <<pipes, files, lineNo, results, fails, freed>>

WaitForSecondOnly(p) ==   \* mutant
  /\ procs[p].pc = "wait1" /\ Becomes(p, [procs[p] EXCEPT !.pc = "wait2"])
  /\ UNCHANGED <<pipes, files, lineNo, results, fails, freed>>

WaitOperand1(p) ==
  /\ procs[p].pc = "wait1"
  /\ Wait(p, Pid(p, Operand(p, 1)), [procs[p] EXCEPT !.pc = "wait2"])
  /\ UNCHANGED <<pipes, files, lineNo, results, fails, freed>>

(* The status of a pipe is that of cmd2; parse_command drops what          *)
(* run_in_parallel returns.  DIE if the copy did not exit by itself.       *)
WaitOperand2(p) ==
  LET child == Pid(p, Operand(p, 2)) IN
  /\ procs[p].pc = "wait2"
  /\ Wait(p, child,
          IF NodeOp(p) = "&" THEN Returns(procs[p], 0)
          ELSE IF procs[child].pc = "killed" THEN Exits(procs[p], Failure)
          ELSE Returns(procs[p], procs[child].status))
  /\ UNCHANGED <<pipes, files, lineNo, results, fails, freed>>

----------------------------------------------------------------------------
(* parse_command: cmd1 of a sequence or condition runs in this process.    *)

Sequential == {";", "&&", "||"}

EvalCmd1(p) ==
  /\ procs[p].pc = "eval" /\ NodeOp(p) \in Sequential
  /\ Becomes(p, [procs[p] EXCEPT !.path = Append(@, Operand(p, 1))])
  /\ UNCHANGED <<pipes, files, lineNo, results, fails, freed>>

RunsCmd2(op, status) ==
  \/ op = ";"
  \/ op = "||" /\ status # 0
  \/ op = "&&" /\ status = 0

WithinCmd1(path, n) == Append(path, n)   \* mutant
ThenCmd2(path, n) == [path EXCEPT ![Len(path)] = n]

(* A return to the caller: to parse_command of the node above, from the    *)
(* topmost call to exit() in a copy and to the main loop in the shell.     *)
ReturnFromCommand(p) ==
  LET r == procs[p]
      n == Node(p)
      depth == Len(r.path)
      above == r.path[depth - 1] IN
  /\ r.pc = "return"
  /\ Becomes(p,
       IF depth = 1 THEN IF p = Shell THEN [r EXCEPT !.pc = "free", !.path = <<>>]
                                      ELSE Exits(r, r.status)
       ELSE IF n = Cmd1(r.line, above) /\ RunsCmd2(Op(r.line, above), r.status)
            THEN [r EXCEPT !.pc = "eval", !.path = ThenCmd2(@, Cmd2(r.line, above))]
            ELSE [r EXCEPT !.path = SubSeq(@, 1, depth - 1)])
  /\ UNCHANGED <<pipes, files, lineNo, results, fails, freed>>

----------------------------------------------------------------------------
(* The child of parse_simple redirects and executes the command, whatever  *)
(* redirect_command returned.  A command that cannot be executed is one    *)
(* that exits with 1 and neither reads nor writes.                         *)

ExecCommand(p) ==
  LET c == Command(p) IN
  /\ procs[p].pc = "exec"
  /\ files' = RedirectCommand(c)
  /\ \E runs \in BOOLEAN :
       Becomes(p, IF runs
         THEN [RedirectFds(procs[p], c) EXCEPT !.pc = "run", !.left = c.writes, !.eof = ~c.reads]
         ELSE Exits(procs[p], Failure))
  /\ UNCHANGED <<pipes, lineNo, results, fails, freed>>

(* What commands and the kernel do, as the shell relies on it: a command   *)
(* may read its input to the end, writes some units, and exits.            *)
ReadUnit(p) ==
  LET r == procs[p] IN
  /\ r.pc = "run" /\ ~r.eof /\ IsPipe(r.in) /\ pipes[r.in] # <<>>
  /\ Becomes(p, [r EXCEPT !.got = Append(@, Head(pipes[r.in]))])
  /\ pipes' = [pipes EXCEPT ![r.in] = Tail(@)]
  /\ UNCHANGED <<files, lineNo, results, fails, freed>>

SeeEnd(p) ==
  LET r == procs[p] IN
  /\ r.pc = "run" /\ ~r.eof
  /\ IsPipe(r.in) => (pipes[r.in] = <<>> /\ \A q \in DOMAIN procs : ~CanWrite(q, r.in))
  /\ Becomes(p, [r EXCEPT !.eof = TRUE])
  /\ UNCHANGED <<pipes, files, lineNo, results, fails, freed>>

Unit(p) == <<p, Command(p).writes - procs[p].left + 1>>

WriteUnit(p) ==
  LET r == procs[p] IN
  /\ r.pc = "run" /\ r.left > 0
  /\ \/ /\ IsPipe(r.out) /\ Len(pipes[r.out]) < PipeCap
        /\ \E q \in DOMAIN procs : CanRead(q, r.out)
        /\ pipes' = [pipes EXCEPT ![r.out] = Append(@, Unit(p))] /\ UNCHANGED files
     \/ /\ Len(r.out) = 1
        /\ files' = [files EXCEPT ![r.out[1]] = Append(@, Unit(p))] /\ UNCHANGED pipes
     \/ r.out = Tty /\ UNCHANGED <<pipes, files>>
  /\ Becomes(p, [r EXCEPT !.left = @ - 1])
  /\ UNCHANGED <<lineNo, results, fails, freed>>

BrokenPipe(p) ==
  LET r == procs[p] IN
  /\ r.pc = "run" /\ r.left > 0 /\ IsPipe(r.out)
  /\ \A q \in DOMAIN procs : ~CanRead(q, r.out)
  /\ Becomes(p, [r EXCEPT !.pc = "killed", !.status = SigPipe, !.held = {}])
  /\ UNCHANGED <<pipes, files, lineNo, results, fails, freed>>

Terminate(p) ==
  LET r == procs[p] IN
  /\ r.pc = "run" /\ r.left = 0 /\ r.eof
  /\ \E s \in Statuses : Becomes(p, Exits(r, s))
  /\ UNCHANGED <<pipes, files, lineNo, results, fails, freed>>

----------------------------------------------------------------------------
ShellStep(p) ==
  \/ Builtin(p) \/ ForkCommand(p) \/ WaitCommand(p)
  \/ ForkOperand1(p) \/ ForkOperand2(p) \/ SetUpEnd(p) \/ ClosePipe(p)
  \/ WaitOperand1(p) \/ WaitOperand2(p)
  \/ EvalCmd1(p) \/ ReturnFromCommand(p)

CommandStep(p) ==
  \/ ExecCommand(p) \/ ReadUnit(p) \/ SeeEnd(p) \/ WriteUnit(p)
  \/ BrokenPipe(p) \/ Terminate(p)

Run == FreeParseMemory \/ \E p \in DOMAIN procs : ShellStep(p) \/ CommandStep(p)

Next == EndOfInput \/ Run \/ \E l \in Lines : ReadLine(l)

Spec == Init /\ [][Next]_vars
(* Processes are scheduled and a line takes finitely many steps.           *)
FairSpec == Spec /\ WF_vars(Run)

----------------------------------------------------------------------------
(* What a line means, read from left to right: an operand of `|` runs when *)
(* its pipeline does, one of && and || on the status of the chain to its   *)
(* left, one of ; and & always, and exit ends the process it runs in.      *)

InPipe(l, i) == (i > 1 /\ l.ops[i - 1] = "|") \/ (i <= Len(l.ops) /\ l.ops[i] = "|")
InBackground(l, i) ==
  \E k \in 1..Len(l.ops) : /\ l.ops[k] = "&"
                           /\ \A m \in 1..Len(l.ops) : l.ops[m] = ";" => ~(m \in i..(k - 1) \/ m \in (k + 1)..(i - 1))
InShell(l, i) == ~InPipe(l, i) /\ ~InBackground(l, i)

Meaning(l, result) ==
  LET Ends_(i) == l.cmds[i].verb = "exit" /\ ~InPipe(l, i)
      after[i \in 0..Len(l.cmds)] ==
        IF i = 0 THEN [runs |-> TRUE, status |-> 0, ended |-> FALSE, over |-> FALSE]
        ELSE LET b == after[i - 1]
                 op == IF i = 1 THEN ";" ELSE l.ops[i - 1]
                 ended == b.over \/ (b.ended /\ op \notin {";", "&"})
                 runs == ~ended /\ (op = "&&" => b.status = 0) /\ (op = "||" => b.status # 0)
                                /\ (op = "|" => b.runs)
             IN [runs |-> runs,
                 status |-> IF ~runs THEN b.status
                            ELSE IF InPipe(l, i) THEN result[i] % 256 ELSE result[i],
                 ended |-> ended \/ (runs /\ Ends_(i)),
                 over |-> b.over \/ (runs /\ Ends_(i) /\ InShell(l, i))]
  IN after

----------------------------------------------------------------------------
(* Properties                                                              *)

Pcs == {"prompt", "eval", "wait", "fork2", "setup", "close", "wait1", "wait2",
        "return", "free", "exec", "run", "exited", "killed"}

\* Every process is at a point of the code, its call stack is a path of the
\* tree of its line, and no pipe holds more than it can (src/cmd.c).
TypeOK ==
  /\ \A p \in DOMAIN procs :
       LET r == procs[p] IN
       /\ r.pc \in Pcs /\ r.no \in 0..lineNo
       /\ \A k \in 1..(Len(r.path) - 1) :
            /\ ~IsLeaf(r.path[k])
            /\ r.path[k + 1] \in {Cmd1(r.line, r.path[k]), Cmd2(r.line, r.path[k])}
       /\ r.held \subseteq UNION {Ends(e) : e \in DOMAIN pipes}
       /\ Alive(p) => \A fd \in {r.in, r.out} : IsPipe(fd) => fd \in DOMAIN pipes
  /\ \A e \in DOMAIN pipes : Len(pipes[e]) <= PipeCap
  /\ Shell \in DOMAIN procs /\ fails \in 0..MaxFails /\ freed \in BOOLEAN

Within(q, n) == Len(q) >= 2 /\ q[2] >= n[1] /\ q[Len(q)] <= n[2]

\* While cmd2 of `;`, `&&` or `||` runs nothing of cmd1 is still running,
\* whatever copies and commands it took (parse_command, run_on_pipe,
\* run_in_parallel wait for both children), as long as no fork failed.
LeftIsOver ==
  fails = 0 =>
    \A p \in DOMAIN procs : \A k \in 1..(Len(procs[p].path) - 1) :
      LET r == procs[p]  n == r.path[k] IN
      (Alive(p) /\ r.path[k + 1] = Cmd2(r.line, n) /\ Op(r.line, n) \in Sequential) =>
        \A q \in DOMAIN procs \ {Shell} :
          q[1] = r.no => ~(Within(q, Cmd1(r.line, n)))

\* Back at the prompt the shell has waited for every process of the line and
\* closed every end of its pipes, unless a fork failed.
CleanAtPrompt ==
  (procs[Shell].pc = "prompt" /\ fails = 0) =>
    DOMAIN procs = {Shell} /\ procs[Shell].held = {}

\* No process of a line outlives the part of the line it belongs to: neither
\* the left operand of an operator nor the line itself.
NothingOutlives == LeftIsOver /\ CleanAtPrompt

\* At the end of a line exactly the commands ran that the line means, given the
\* statuses they returned, and the directory and the variable of the shell are
\* those the last cd and assignment in the shell itself left.
RanWhatTheLineMeans ==
  LET s == procs[Shell]
      l == s.line
      leaves == 1..Len(l.cmds)
      result == [i \in leaves |-> IF <<s.no, i>> \in DOMAIN results THEN results[<<s.no, i>>] ELSE 0]
      m == Meaning(l, result)
      last(verb) == {i \in leaves : /\ l.cmds[i].verb = verb /\ m[i].runs /\ InShell(l, i)
                                    /\ result[i] = 0}
      final(verb, was) == LET is == last(verb) IN
        IF is = {} THEN was ELSE l.cmds[CHOOSE i \in is : \A j \in is : j <= i].arg
  IN (s.pc = "free" /\ fails = 0) =>
       /\ {i \in leaves : <<s.no, i>> \in DOMAIN results} = {i \in leaves : m[i].runs}
       /\ ~m[Len(l.cmds)].over
       /\ s.cwd = final("cd", s.was.cwd)
       /\ s.env = final("assign", s.was.env)

\* The command that reads a pipe gets the units of the one that writes to it,
\* all and in order, and sees the end only after the writer is gone: the end
\* comes when the shell, its copies and the writer closed every write end.
PipeDelivers ==
  \A p \in DOMAIN procs :
    LET r == procs[p]
        writer == <<r.no, p[2] - 1>>
        before == r.line.cmds[p[2] - 1]
        got == r.got \o pipes[r.in]
    IN (r.pc = "run" /\ p[2] > 1 /\ r.line.ops[p[2] - 1] = "|" /\ Command(p).in = None) =>
         /\ IsPipe(r.in)
         /\ got = [k \in 1..Len(got) |-> <<writer, k>>]
         /\ (writer \in DOMAIN procs /\ procs[writer].pc = "run" /\ before.out = None) =>
              Len(got) = before.writes - procs[writer].left
         /\ (r.eof /\ Command(p).reads) =>
              /\ pipes[r.in] = <<>> /\ Len(got) \in {0, before.writes}
              /\ writer \in DOMAIN procs => ~Alive(writer)

\* Every line is over some day, though its commands may be blocked on a full
\* or an empty pipe meanwhile (run_on_pipe closes the ends it holds before it
\* waits), even when a fork fails.
LineEnds == procs[Shell].pc # "prompt" ~> procs[Shell].pc \in {"prompt", "exited", "killed"}

\* A command that redirects its output with >> keeps what the file holds.
AppendKeepsContents ==
  [][\A p \in DOMAIN procs :
       LET c == Command(p) IN
       (procs[p].pc = "exec" /\ procs'[p].pc # "exec" /\ "out" \in c.flags /\ c.out \in DOMAIN files)
         => Len(files'[c.out]) >= Len(files[c.out])]_vars
=============================================================================
