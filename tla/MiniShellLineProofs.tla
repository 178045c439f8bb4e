------------------------- MODULE MiniShellLineProofs -------------------------
(***************************************************************************)
(* What runs of a line, for any lines, files, statuses and sizes of pipes: *)
(* proof of RanWhatTheLineMeans.                                           *)
(*                                                                         *)
(* Meaning reads a line from left to right, parse_command evaluates its    *)
(* tree, in the shell and in the copies of it.  The invariant LineInv ties *)
(* the two: each process stands at a command that the line, read from the  *)
(* first command of the process's part, reaches (ReadSoFar); nothing from  *)
(* there on is recorded (Fresh); the operators above it decide who         *)
(* evaluates it (Located); a copy that ended has left what its part means  *)
(* (LeftByCopy); and the shell's directory and variable are those that the *)
(* last cd and assignment of its own left (AsLeft).                        *)
(***************************************************************************)
EXTENDS MiniShellProofs

-----------------------------------------------------------------------------
(* What a line means, one command at a time: StepOf is the body of Meaning *)
(* and Reached the state behind a command that runs.                       *)
ResultOf(rs, no, i) == IF <<no, i>> \in DOMAIN rs THEN rs[<<no, i>>] ELSE 0
Quits(l, i) == l.cmds[i].verb = "exit" /\ ~InPipe(l, i)
Reached(rs, no, l, i) ==
  [runs |-> TRUE,
   status |-> IF InPipe(l, i) THEN ResultOf(rs, no, i) % 256 ELSE ResultOf(rs, no, i),
   ended |-> Quits(l, i), over |-> Quits(l, i) /\ InShell(l, i)]

(* With e in front of it command i is reached; what the next one finds.    *)
Enters(l, i, e) ==
  LET op == l.ops[i - 1] IN
  /\ ~(e.over \/ (e.ended /\ op \notin {";", "&"}))
  /\ (op = "&&" => e.status = 0) /\ (op = "||" => e.status # 0) /\ (op = "|" => e.runs)
StepOf(rs, no, l, i, e) ==
  LET runs == Enters(l, i, e) IN
  [runs |-> runs,
   status |-> IF ~runs THEN e.status
              ELSE IF InPipe(l, i) THEN ResultOf(rs, no, i) % 256 ELSE ResultOf(rs, no, i),
   ended |-> (e.over \/ (e.ended /\ l.ops[i - 1] \notin {";", "&"})) \/ (runs /\ Quits(l, i)),
   over |-> e.over \/ (runs /\ Quits(l, i) /\ InShell(l, i))]

(* Commands a to b, of which a was reached, were read as they mean: those  *)
(* that have a result ran, and e is what the next one finds.               *)
Recorded(rs, no, i) == <<no, i>> \in DOMAIN rs
Reading(rs, no, l, a, b, m) ==
  /\ m[a] = Reached(rs, no, l, a)
  /\ \A i \in (a + 1)..b : m[i] = StepOf(rs, no, l, i, m[i - 1])
  /\ \A i \in a..b : Recorded(rs, no, i) <=> m[i].runs
Reads(rs, no, l, a, b, e) == \E m : Reading(rs, no, l, a, b, m) /\ m[b] = e
Entered(rs, no, l, a, i) == i = a \/ \E e : Reads(rs, no, l, a, i - 1, e) /\ Enters(l, i, e)

(* No operator in node n but && and || and |.                              *)
Chain(l, n) == \A k \in n[1]..(n[2] - 1) : l.ops[k] \notin {";", "&"}

(* What evaluating node n left behind, when it came to an end with status s *)
(* in a process that goes on; and what a copy for node n left behind.       *)
Leaves(l, n, s, e) ==
  /\ ~e.over
  /\ Chain(l, n) => ~e.ended /\ e.status = IF IsLeaf(n) /\ InPipe(l, n[1]) THEN s % 256 ELSE s
  /\ AllPiped(l, n) => e.runs
LeftByCopy(l, n, s, e) ==
  /\ ~e.over
  /\ AllPiped(l, n) /\ InPipe(l, n[1]) => e.runs /\ ~e.ended /\ (IsLeaf(n) => e.status = s)

(* A node that the shell itself evaluates, and one that a copy does.       *)
Outer(l, n) ==
  /\ Bordered(l, n)
  /\ \A k \in 1..Len(l.ops) : l.ops[k] = "&" /\ k \notin n[1]..(n[2] - 1) =>
       \E m \in 1..Len(l.ops) : l.ops[m] = ";" /\ (m \in n[2]..(k - 1) \/ m \in (k + 1)..(n[1] - 1))
Inner(l, n) == /\ \A i \in n[1]..n[2] : ~InShell(l, i)
               /\ \A k \in n[1]..(n[2] - 1) : l.ops[k] # ";"

(* The command that r is to read next.                                     *)
At(r) == IF r.pc = "wait2" THEN Cmd2(r.line, Top(r))[1] ELSE Top(r)[1]

Located(p, r) ==
  /\ \A k \in 1..(Len(r.path) - 1) : Op(r.line, r.path[k]) \in Sequential
  /\ p = Shell => r.path[1] = Root(r.line) /\ \A k \in 1..Len(r.path) : Outer(r.line, r.path[k])
  /\ p # Shell => Inner(r.line, r.path[1]) /\ (Len(r.path) > 1 => Chain(r.line, r.path[1]))
  /\ r.pc = "wait" => r.line.cmds[Top(r)[1]].verb = "external"

ReadSoFar(r, rs) ==
  IF r.pc = "return"
  THEN \E e : Reads(rs, r.no, r.line, r.path[1][1], Top(r)[2], e) /\ Leaves(r.line, Top(r), r.status, e)
  ELSE Entered(rs, r.no, r.line, r.path[1][1], At(r))

Fresh(r, rs) == \A i \in Front(r)..r.path[1][2] : ~Recorded(rs, r.no, i)

(* The directory and the variable are those that the last cd and the last   *)
(* assignment in the shell itself left.                                    *)
LastOf(rs, no, l, verb) ==
  {i \in 1..Len(l.cmds) : /\ l.cmds[i].verb = verb /\ Recorded(rs, no, i)
                          /\ InShell(l, i) /\ rs[<<no, i>>] = 0}
FinalOf(rs, no, l, verb, was) ==
  LET is == LastOf(rs, no, l, verb) IN
    IF is = {} THEN was ELSE l.cmds[CHOOSE i \in is : \A j \in is : j <= i].arg
AsLeft(r, rs) == /\ r.cwd = FinalOf(rs, r.no, r.line, "cd", r.was.cwd)
                 /\ r.env = FinalOf(rs, r.no, r.line, "assign", r.was.env)

MeansInv(p, r, rs) ==
  /\ r.pc \in Evaluating => Located(p, r) /\ ReadSoFar(r, rs) /\ Fresh(r, rs)
  /\ Len(p) = 3 /\ r.pc \in Ended =>
       /\ r.pc = "exited"
       /\ \E e : /\ Reads(rs, r.no, r.line, r.path[1][1], r.path[1][2], e)
                 /\ LeftByCopy(r.line, r.path[1], r.status, e)
  /\ p = Shell /\ r.pc = "free" =>
       r.line \in Lines /\ \E e : Reads(rs, r.no, r.line, 1, Len(r.line.cmds), e) /\ ~e.over
  /\ p = Shell /\ r.pc \in Evaluating \cup {"free"} => AsLeft(r, rs)
  /\ p = Shell /\ r.pc = "prompt" => rs = <<>>

Means == \A p \in DOMAIN procs : MeansInv(p, procs[p], results)
LineInv == fails = 0 => Means

LEMMA StepReached ==
  ASSUME NEW rs, NEW no, NEW l, NEW i, NEW e, Enters(l, i, e)
  PROVE  StepOf(rs, no, l, i, e) = Reached(rs, no, l, i)
<1> DEFINE over == e.over \/ (e.ended /\ l.ops[i - 1] \notin {";", "&"})
<1>1. ~over /\ Enters(l, i, e) = TRUE
  BY DEF Enters
<1>2. (over \/ (Enters(l, i, e) /\ Quits(l, i))) = Quits(l, i)
  BY <1>1 DEF Quits
<1>3. (e.over \/ (Enters(l, i, e) /\ Quits(l, i) /\ InShell(l, i))) = (Quits(l, i) /\ InShell(l, i))
  BY <1>1
<1> QED  BY <1>1, <1>2, <1>3 DEF StepOf, Reached

Carries(l, i, e) == e.ended => l.ops[i - 1] \notin {";", "&"}
Pass(e) == [runs |-> FALSE, status |-> e.status, ended |-> e.ended, over |-> FALSE]

LEMMA StepPassed ==
  ASSUME NEW rs, NEW no, NEW l, NEW i, NEW e, e.ended \in BOOLEAN, ~Enters(l, i, e), ~e.over, Carries(l, i, e)
  PROVE  StepOf(rs, no, l, i, e) = Pass(e)
<1>1. Enters(l, i, e) = FALSE
  BY DEF Enters
<1>2. ((e.over \/ (e.ended /\ l.ops[i - 1] \notin {";", "&"})) \/ (Enters(l, i, e) /\ Quits(l, i))) = e.ended
  BY <1>1 DEF Carries
<1>3. (e.over \/ (Enters(l, i, e) /\ Quits(l, i) /\ InShell(l, i))) = FALSE
  BY <1>1
<1> QED  BY <1>1, <1>2, <1>3 DEF StepOf, Pass

LEMMA PassIs ==
  ASSUME NEW e, e.ended \in BOOLEAN
  PROVE  /\ Pass(e).ended = e.ended /\ Pass(e).ended \in BOOLEAN /\ ~Pass(e).over /\ ~Pass(e).runs
         /\ Pass(e).status = e.status /\ Pass(Pass(e)) = Pass(e)
  BY DEF Pass

(* What is read depends on the results of the commands read.               *)
LEMMA ReadsAre ==
  ASSUME NEW rs, NEW no, NEW l, NEW a \in Int, NEW b \in Int, a <= b, NEW e, Reads(rs, no, l, a, b, e)
  PROVE  e.ended \in BOOLEAN /\ e.over \in BOOLEAN
<1>1. PICK m : Reading(rs, no, l, a, b, m) /\ m[b] = e
  BY DEF Reads
<1>2. CASE a = b
  <2>1. e = Reached(rs, no, l, a)
    BY <1>1, <1>2 DEF Reading
  <2>2. Quits(l, a) \in BOOLEAN /\ (Quits(l, a) /\ InShell(l, a)) \in BOOLEAN
    BY DEF Quits
  <2> QED  BY <2>1, <2>2 DEF Reached
<1>3. CASE a # b
  <2>1. b \in (a + 1)..b
    BY <1>3
  <2>2. e = StepOf(rs, no, l, b, m[b - 1])
    BY <1>1, <2>1 DEF Reading
  <2> QED  BY <2>2 DEF StepOf
<1> QED  BY <1>2, <1>3

LEMMA ReadsOne ==
  ASSUME NEW rs, NEW no, NEW l, NEW a \in Int, Recorded(rs, no, a)
  PROVE  Reads(rs, no, l, a, a, Reached(rs, no, l, a))
<1> DEFINE m == [i \in {a} |-> Reached(rs, no, l, a)]
<1>1. m[a] = Reached(rs, no, l, a) /\ m[a].runs
  BY DEF Reached
<1> HIDE DEF m
<1>2. a..a = {a} /\ (a + 1)..a = {}
  OBVIOUS
<1>3. Reading(rs, no, l, a, a, m)
  BY <1>1, <1>2 DEF Reading
<1> QED  BY <1>1, <1>3 DEF Reads

LEMMA ReadsJoin ==
  ASSUME NEW rs, NEW no, NEW l, NEW a \in Int, NEW i \in Int, NEW b \in Int, a < i, i <= b,
         NEW e, Reads(rs, no, l, a, i - 1, e), Enters(l, i, e), NEW f, Reads(rs, no, l, i, b, f)
  PROVE  Reads(rs, no, l, a, b, f)
<1>1. PICK m1 : Reading(rs, no, l, a, i - 1, m1) /\ m1[i - 1] = e
  BY DEF Reads
<1>2. PICK m2 : Reading(rs, no, l, i, b, m2) /\ m2[b] = f
  BY DEF Reads
<1> DEFINE m == [j \in a..b |-> IF j < i THEN m1[j] ELSE m2[j]]
<1>3. /\ \A j \in a..(i - 1) : m[j] = m1[j]
      /\ \A j \in i..b : m[j] = m2[j]
  OBVIOUS
<1> HIDE DEF m
<1>5. m[i] = StepOf(rs, no, l, i, m[i - 1])
  <2>1. m[i] = Reached(rs, no, l, i) /\ m[i - 1] = e
    BY <1>1, <1>2, <1>3 DEF Reading
  <2>2. StepOf(rs, no, l, i, e) = Reached(rs, no, l, i)
    BY StepReached
  <2> QED  BY <2>1, <2>2
<1>6. ASSUME NEW j \in (a + 1)..b PROVE m[j] = StepOf(rs, no, l, j, m[j - 1])
  <2>1. CASE j < i
    <3>1. j \in (a + 1)..(i - 1) /\ j \in a..(i - 1) /\ j - 1 \in a..(i - 1)
      BY <2>1
    <3>2. m1[j] = StepOf(rs, no, l, j, m1[j - 1])
      BY <1>1, <3>1 DEF Reading
    <3> QED  BY <1>3, <3>1, <3>2
  <2>2. CASE j > i
    <3>1. j \in (i + 1)..b /\ j \in i..b /\ j - 1 \in i..b
      BY <2>2
    <3>2. m2[j] = StepOf(rs, no, l, j, m2[j - 1])
      BY <1>2, <3>1 DEF Reading
    <3> QED  BY <1>3, <3>1, <3>2
  <2> QED  BY <1>5, <2>1, <2>2
<1>7. ASSUME NEW j \in a..b PROVE Recorded(rs, no, j) <=> m[j].runs
  <2>1. j \in a..(i - 1) \/ j \in i..b
    OBVIOUS
  <2> QED  BY <1>1, <1>2, <1>3, <2>1 DEF Reading
<1>8. m[a] = Reached(rs, no, l, a) /\ m[b] = f
  BY <1>1, <1>2, <1>3 DEF Reading
<1>9. Reading(rs, no, l, a, b, m)
  BY <1>6, <1>7, <1>8 DEF Reading
<1> QED  BY <1>8, <1>9 DEF Reads

LEMMA EnteredReads ==
  ASSUME NEW rs, NEW no, NEW l, NEW a \in Int, NEW i \in Int, NEW b \in Int, a <= i, i <= b,
         Entered(rs, no, l, a, i), NEW f, Reads(rs, no, l, i, b, f)
  PROVE  Reads(rs, no, l, a, b, f)
<1>1. CASE i = a
  BY <1>1
<1>2. CASE i # a
  <2>1. a < i
    BY <1>2
  <2> QED  BY <1>2, <2>1, ReadsJoin DEF Entered
<1> QED  BY <1>1, <1>2

(* Commands i to b that are passed: nothing of what e says changes.        *)
Passes(rs, no, l, i, b, e) ==
  /\ ~e.over /\ ~Enters(l, i, e)
  /\ \A j \in (i + 1)..b : ~Enters(l, j, Pass(e))
  /\ \A j \in i..b : ~Recorded(rs, no, j) /\ Carries(l, j, e)

LEMMA ReadsPast ==
  ASSUME NEW rs, NEW no, NEW l, NEW a \in Int, NEW i \in Int, NEW b \in Int, a < i, i <= b,
         NEW e, Reads(rs, no, l, a, i - 1, e), Passes(rs, no, l, i, b, e)
  PROVE  Reads(rs, no, l, a, b, Pass(e))
<1>1. PICK m1 : Reading(rs, no, l, a, i - 1, m1) /\ m1[i - 1] = e
  BY DEF Reads
<1>2. a <= i - 1 /\ i - 1 \in a..(i - 1) /\ a \in a..(i - 1) /\ i \in i..b /\ b \in i..b
  OBVIOUS
<1>3. e.ended \in BOOLEAN
  BY <1>2, ReadsAre
<1> DEFINE f == Pass(e)
           m == [j \in a..b |-> IF j < i THEN m1[j] ELSE f]
<1>4. /\ \A j \in a..(i - 1) : m[j] = m1[j]
      /\ \A j \in i..b : m[j] = f
  OBVIOUS
<1> HIDE DEF m, f
<1>5. f.ended = e.ended /\ f.ended \in BOOLEAN /\ ~f.over /\ ~f.runs /\ Pass(f) = f
  BY <1>3, PassIs DEF f
<1>6. StepOf(rs, no, l, i, e) = f
  <2>1. ~Enters(l, i, e) /\ ~e.over /\ Carries(l, i, e)
    BY <1>2 DEF Passes
  <2> QED  BY <1>3, <2>1, StepPassed DEF f
<1>7. ASSUME NEW j \in (i + 1)..b PROVE StepOf(rs, no, l, j, f) = f
  <2>1. j \in i..b
    OBVIOUS
  <2>2. ~Enters(l, j, f) /\ Carries(l, j, f)
    BY <1>5, <2>1 DEF Passes, Carries, f
  <2>3. StepOf(rs, no, l, j, f) = Pass(f)
    BY <1>5, <2>2, StepPassed
  <2> QED  BY <1>5, <2>3
<1>8. ASSUME NEW j \in (a + 1)..b PROVE m[j] = StepOf(rs, no, l, j, m[j - 1])
  <2>1. CASE j < i
    <3>1. j \in (a + 1)..(i - 1) /\ j \in a..(i - 1) /\ j - 1 \in a..(i - 1)
      BY <2>1
    <3>2. m1[j] = StepOf(rs, no, l, j, m1[j - 1])
      BY <1>1, <3>1 DEF Reading
    <3> QED  BY <1>4, <3>1, <3>2
  <2>2. CASE j = i
    BY <1>1, <1>2, <1>4, <1>6, <2>2
  <2>3. CASE j > i
    <3>1. j \in (i + 1)..b /\ j \in i..b /\ j - 1 \in i..b
      BY <2>3
    <3> QED  BY <1>4, <1>7, <3>1
  <2> QED  BY <2>1, <2>2, <2>3
<1>9. ASSUME NEW j \in a..b PROVE Recorded(rs, no, j) <=> m[j].runs
  <2>1. CASE j \in a..(i - 1)
    BY <1>1, <1>4, <2>1 DEF Reading
  <2>2. CASE j \in i..b
    BY <1>4, <1>5, <2>2 DEF Passes
  <2> QED  BY <2>1, <2>2
<1>10. m[a] = Reached(rs, no, l, a) /\ m[b] = f
  BY <1>1, <1>2, <1>4 DEF Reading
<1>11. Reading(rs, no, l, a, b, m)
  BY <1>8, <1>9, <1>10 DEF Reading
<1> QED  BY <1>10, <1>11 DEF Reads, f

SameResults(rs, rs2, no, a, b) ==
  \A i \in a..b : /\ Recorded(rs2, no, i) <=> Recorded(rs, no, i)
                  /\ ResultOf(rs2, no, i) = ResultOf(rs, no, i)

LEMMA ReadsStay ==
  ASSUME NEW rs, NEW rs2, NEW no, NEW l, NEW a \in Int, NEW b \in Int, a <= b, NEW e,
         Reads(rs, no, l, a, b, e), SameResults(rs, rs2, no, a, b)
  PROVE  Reads(rs2, no, l, a, b, e)
<1>1. PICK m : Reading(rs, no, l, a, b, m) /\ m[b] = e
  BY DEF Reads
<1>2. m[a] = Reached(rs2, no, l, a)
  <2>1. ResultOf(rs2, no, a) = ResultOf(rs, no, a)
    BY DEF SameResults
  <2> QED  BY <1>1, <2>1 DEF Reached, Reading
<1>3. ASSUME NEW i \in (a + 1)..b PROVE m[i] = StepOf(rs2, no, l, i, m[i - 1])
  <2>1. ResultOf(rs2, no, i) = ResultOf(rs, no, i)
    BY DEF SameResults
  <2>2. m[i] = StepOf(rs, no, l, i, m[i - 1])
    BY <1>1 DEF Reading
  <2> QED  BY <2>1, <2>2, ZenonT(30) DEF StepOf
<1>4. \A i \in a..b : Recorded(rs2, no, i) <=> m[i].runs
  BY <1>1 DEF SameResults, Reading
<1>5. Reading(rs2, no, l, a, b, m)
  BY <1>2, <1>3, <1>4 DEF Reading
<1> QED  BY <1>1, <1>5 DEF Reads

LEMMA EnteredStays ==
  ASSUME NEW rs, NEW rs2, NEW no, NEW l, NEW a \in Int, NEW i \in Int, a <= i,
         Entered(rs, no, l, a, i), SameResults(rs, rs2, no, a, i - 1)
  PROVE  Entered(rs2, no, l, a, i)
<1>1. CASE i = a
  BY <1>1 DEF Entered
<1>2. CASE i # a
  <2>1. a <= i - 1
    BY <1>2
  <2>2. PICK e : Reads(rs, no, l, a, i - 1, e) /\ Enters(l, i, e)
    BY <1>2 DEF Entered
  <2>3. Reads(rs2, no, l, a, i - 1, e)
    BY <2>1, <2>2, ReadsStay
  <2> QED  BY <2>2, <2>3 DEF Entered
<1> QED  BY <1>1, <1>2

(* Meaning of MiniShell is the one such reading of the whole line.         *)
Start == [runs |-> TRUE, status |-> 0, ended |-> FALSE, over |-> FALSE]
Meant(l, result, i, b) ==
  LET op == IF i = 1 THEN ";" ELSE l.ops[i - 1]
      ended == b.over \/ (b.ended /\ op \notin {";", "&"})
      runs == ~ended /\ (op = "&&" => b.status = 0) /\ (op = "||" => b.status # 0)
                     /\ (op = "|" => b.runs)
  IN [runs |-> runs,
      status |-> IF ~runs THEN b.status
                 ELSE IF InPipe(l, i) THEN result[i] % 256 ELSE result[i],
      ended |-> ended \/ (runs /\ Quits(l, i)),
      over |-> b.over \/ (runs /\ Quits(l, i) /\ InShell(l, i))]
IsMeaning(l, result, f) ==
  f = [i \in 0..Len(l.cmds) |-> IF i = 0 THEN Start ELSE Meant(l, result, i, f[i - 1])]

LEMMA MeaningIsChosen ==
  ASSUME NEW l, NEW result
  PROVE  Meaning(l, result) = CHOOSE f : IsMeaning(l, result, f)
  BY DEF Meaning, IsMeaning, Start, Meant, Quits

LEMMA OneMeaning ==
  ASSUME NEW l, Len(l.cmds) \in Nat, NEW result, NEW f, IsMeaning(l, result, f), NEW g, IsMeaning(l, result, g)
  PROVE  f = g
<1> DEFINE N == Len(l.cmds)
           T == {i \in 0..N : f[i] # g[i]}
<1>1. /\ f = [i \in 0..N |-> f[i]] /\ g = [i \in 0..N |-> g[i]]
      /\ f[0] = Start /\ g[0] = Start
      /\ \A i \in 1..N : f[i] = Meant(l, result, i, f[i - 1]) /\ g[i] = Meant(l, result, i, g[i - 1])
  <2>1. /\ f = [i \in 0..N |-> IF i = 0 THEN Start ELSE Meant(l, result, i, f[i - 1])]
        /\ g = [i \in 0..N |-> IF i = 0 THEN Start ELSE Meant(l, result, i, g[i - 1])]
    BY DEF IsMeaning
  <2>2. ASSUME NEW h, h = [i \in 0..N |-> IF i = 0 THEN Start ELSE Meant(l, result, i, h[i - 1])]
        PROVE  /\ h = [i \in 0..N |-> h[i]] /\ h[0] = Start
               /\ \A i \in 1..N : h[i] = Meant(l, result, i, h[i - 1])
    <3>1. \A i \in 0..N : h[i] = IF i = 0 THEN Start ELSE Meant(l, result, i, h[i - 1])
      BY <2>2
    <3>2. 0 \in 0..N /\ \A i \in 1..N : i \in 0..N /\ i # 0
      OBVIOUS
    <3>3. h = [i \in 0..N |-> h[i]]
      BY <2>2, <3>1
    <3> QED  BY <3>1, <3>2, <3>3
  <2> QED  BY <2>1, <2>2
<1>2. T \in SUBSET Nat
  OBVIOUS
<1>3. ASSUME T # {} PROVE FALSE
  <2>1. PICK i \in T : \A j \in T : i <= j
    BY <1>2, <1>3, HasALeast
  <2>2. i \in 0..N /\ f[i] # g[i]
    BY <2>1
  <2>3. i # 0 /\ i \in 1..N
    BY <1>1, <2>2
  <2>4. i - 1 \in 0..N /\ ~(i <= i - 1)
    BY <2>3
  <2>5. f[i - 1] = g[i - 1]
    BY <2>1, <2>4
  <2> QED  BY <1>1, <2>2, <2>3, <2>5
<1>4. \A i \in 0..N : f[i] = g[i]
  BY <1>3
<1> HIDE DEF N, T
<1>5. [i \in 0..N |-> f[i]] = [i \in 0..N |-> g[i]]
  BY <1>4
<1> QED  BY <1>1, <1>5

Agrees(rs, no, l, result) == \A i \in 1..Len(l.cmds) : result[i] = ResultOf(rs, no, i)
Ran(rs, no, l, f, e) == /\ \A i \in 1..Len(l.cmds) : f[i].runs <=> Recorded(rs, no, i)
                        /\ f[Len(l.cmds)].over = e.over

LEMMA MeaningIs ==
  ASSUME NEW rs, NEW no, NEW l, Len(l.cmds) \in Nat \ {0}, NEW e, Reads(rs, no, l, 1, Len(l.cmds), e),
         NEW result, Agrees(rs, no, l, result)
  PROVE  Ran(rs, no, l, Meaning(l, result), e)
<1> DEFINE N == Len(l.cmds)
<1>1. PICK m : Reading(rs, no, l, 1, N, m) /\ m[N] = e
  BY DEF Reads
<1> DEFINE g == [i \in 0..N |-> IF i = 0 THEN Start ELSE m[i]]
<1>2. g = [i \in 0..N |-> g[i]] /\ g[0] = Start /\ \A i \in 1..N : g[i] = m[i]
  OBVIOUS
<1> HIDE DEF g
<1>3. ASSUME NEW i \in 1..N PROVE g[i] = Meant(l, result, i, g[i - 1])
  <2>1. result[i] = ResultOf(rs, no, i) /\ g[i] = m[i]
    BY <1>2 DEF Agrees
  <2>2. CASE i = 1
    <3>1. g[i] = Reached(rs, no, l, 1) /\ g[i - 1] = Start
      BY <1>1, <1>2, <2>1, <2>2 DEF Reading
    <3>2. Meant(l, result, 1, Start) = Reached(rs, no, l, 1)
      <4>1. (FALSE \/ (TRUE /\ Quits(l, 1) /\ InShell(l, 1))) = (Quits(l, 1) /\ InShell(l, 1))
        OBVIOUS
      <4>2. Quits(l, 1) \in BOOLEAN
        BY DEF Quits
      <4> QED  BY <2>1, <2>2, <4>1, <4>2 DEF Meant, Start, Reached
    <3> QED  BY <2>2, <3>1, <3>2
  <2>3. CASE i # 1
    <3>1. i \in 2..N /\ i \in (1 + 1)..N /\ i - 1 \in 1..N
      BY <2>3
    <3>2. m[i] = StepOf(rs, no, l, i, m[i - 1]) /\ g[i - 1] = m[i - 1]
      BY <1>1, <1>2, <3>1 DEF Reading
    <3>3. Meant(l, result, i, m[i - 1]) = StepOf(rs, no, l, i, m[i - 1])
      BY <2>1, <2>3 DEF Meant, StepOf, Enters
    <3> QED  BY <2>1, <3>2, <3>3
  <2> QED  BY <2>2, <2>3
<1>4. IsMeaning(l, result, g)
  <2>1. [i \in 0..N |-> g[i]] = [i \in 0..N |-> IF i = 0 THEN Start ELSE Meant(l, result, i, g[i - 1])]
    <3>1. ASSUME NEW i \in 0..N PROVE g[i] = IF i = 0 THEN Start ELSE Meant(l, result, i, g[i - 1])
      <4>1. i = 0 \/ (i # 0 /\ i \in 1..N)
        OBVIOUS
      <4> QED  BY <1>2, <1>3, <4>1
    <3> HIDE DEF N
    <3> QED  BY <3>1
  <2> QED  BY <1>2, <2>1 DEF IsMeaning
<1>5. IsMeaning(l, result, CHOOSE f : IsMeaning(l, result, f))
  BY <1>4
<1>6. Meaning(l, result) = g
  BY <1>4, <1>5, MeaningIsChosen, OneMeaning
<1>7. N \in 1..N
  OBVIOUS
<1> QED  BY <1>1, <1>2, <1>6, <1>7 DEF Reading, Ran

-----------------------------------------------------------------------------
(* Where the operators stand in the tree.                                  *)
LEMMA PrioritiesAre ==
  /\ Priority[";"] = 1 /\ Priority["&"] = 2 /\ Priority["&&"] = 3 /\ Priority["||"] = 3 /\ Priority["|"] = 4
  /\ \A op \in Operators : /\ Priority[op] \in Nat
                           /\ Priority[op] >= 2 => op # ";"
                           /\ Priority[op] >= 3 => op \notin {";", "&"}
                           /\ Priority[op] > 3 => op = "|"
<1>1. /\ Priority[";"] = 1 /\ Priority["&"] = 2 /\ Priority["&&"] = 3 /\ Priority["||"] = 3 /\ Priority["|"] = 4
  BY DEF Priority, Operators
<1>2. ASSUME NEW op \in Operators
      PROVE  /\ Priority[op] \in Nat
             /\ Priority[op] >= 2 => op # ";"
             /\ Priority[op] >= 3 => op \notin {";", "&"}
             /\ Priority[op] > 3 => op = "|"
  <2>1. CASE op = ";"
    <3>1. Priority[op] = 1
      BY <1>1, <2>1
    <3>2. Priority[op] \in Nat /\ ~(Priority[op] >= 2) /\ ~(Priority[op] >= 3) /\ ~(Priority[op] > 3)
      BY <3>1
    <3> QED  BY <3>2, Zenon
  <2>2. CASE op = "&"
    <3>1. Priority[op] = 2
      BY <1>1, <2>2
    <3>2. Priority[op] \in Nat /\ Priority[op] >= 2 /\ ~(Priority[op] >= 3) /\ ~(Priority[op] > 3)
      BY <3>1
    <3>3. op # ";"
      BY <2>2
    <3> QED  BY <2>2, <3>2, <3>3, Zenon
  <2>3. CASE op = "&&"
    <3>1. Priority[op] = 3
      BY <1>1, <2>3
    <3>2. Priority[op] \in Nat /\ Priority[op] >= 2 /\ Priority[op] >= 3 /\ ~(Priority[op] > 3)
      BY <3>1
    <3>3. op # ";" /\ op \notin {";", "&"}
      BY <2>3
    <3> QED  BY <2>3, <3>2, <3>3, Zenon
  <2>4. CASE op = "||"
    <3>1. Priority[op] = 3
      BY <1>1, <2>4
    <3>2. Priority[op] \in Nat /\ Priority[op] >= 2 /\ Priority[op] >= 3 /\ ~(Priority[op] > 3)
      BY <3>1
    <3>3. op # ";" /\ op \notin {";", "&"}
      BY <2>4
    <3> QED  BY <2>4, <3>2, <3>3, Zenon
  <2>5. CASE op = "|"
    <3>1. Priority[op] = 4
      BY <1>1, <2>5
    <3>2. Priority[op] \in Nat /\ Priority[op] >= 2 /\ Priority[op] >= 3 /\ Priority[op] > 3
      BY <3>1
    <3>3. op # ";" /\ op \notin {";", "&"}
      BY <2>5
    <3> QED  BY <2>5, <3>2, <3>3, Zenon
  <2> QED  BY <2>1, <2>2, <2>3, <2>4, <2>5 DEF Operators
<1> QED  BY <1>1, <1>2

LEMMA OperatorsOf ==
  ASSUME NEW l \in Lines, NEW n \in NodesOf(l), ~IsLeaf(n)
  PROVE  /\ Split(l, n) \in n[1]..(n[2] - 1) /\ Op(l, n) = l.ops[Split(l, n)] /\ Op(l, n) \in Operators
         /\ Cmd1(l, n) = <<n[1], Split(l, n)>> /\ Cmd2(l, n) = <<Split(l, n) + 1, n[2]>>
         /\ n[1] \in Nat /\ n[2] \in Nat /\ Split(l, n) \in Nat /\ 1 <= n[1] /\ n[2] <= Len(l.ops) + 1
         /\ Len(l.ops) \in Nat
         /\ \A k \in n[1]..(n[2] - 1) : /\ k \in 1..Len(l.ops) /\ l.ops[k] \in Operators
                                        /\ Priority[Op(l, n)] <= Priority[l.ops[k]]
                                        /\ k > Split(l, n) => Priority[Op(l, n)] < Priority[l.ops[k]]
<1> DEFINE s == Split(l, n)
<1>1. /\ s \in n[1]..(n[2] - 1) /\ l.ops[s] \in Operators
      /\ s \in Lowest(l, n) /\ \A m \in Lowest(l, n) : m <= s
  BY SplitIs
<1>2. /\ n[1] \in Nat /\ n[2] \in Nat /\ 1 <= n[1] /\ n[1] <= n[2] /\ n[2] <= Len(l.ops) + 1
      /\ l.ops \in Seq(Operators) /\ Len(l.ops) \in Nat
  BY NodeIs, LineIs
<1>3. /\ Op(l, n) = l.ops[s]
      /\ Cmd1(l, n) = <<n[1], s>> /\ Cmd2(l, n) = <<s + 1, n[2]>>
  BY DEF Op, Cmd1, Cmd2
<1> HIDE DEF s
<1>4. s \in Nat
  BY <1>1, <1>2
<1>5. ASSUME NEW k \in n[1]..(n[2] - 1)
      PROVE  /\ k \in 1..Len(l.ops) /\ l.ops[k] \in Operators
             /\ Priority[l.ops[s]] <= Priority[l.ops[k]]
             /\ k > s => Priority[l.ops[s]] < Priority[l.ops[k]]
  <2>1. k \in 1..Len(l.ops)
    BY <1>2
  <2>2. l.ops[k] \in Operators
    BY <1>2, <2>1
  <2>3. Priority[l.ops[s]] <= Priority[l.ops[k]]
    BY <1>1 DEF Lowest
  <2>4. ASSUME k > s PROVE Priority[l.ops[s]] # Priority[l.ops[k]]
    <3>1. k \notin Lowest(l, n)
      BY <1>1, <1>4, <2>1, <2>4
    <3>2. PICK m \in n[1]..(n[2] - 1) : ~(Priority[l.ops[k]] <= Priority[l.ops[m]])
      BY <3>1 DEF Lowest
    <3>3. Priority[l.ops[s]] <= Priority[l.ops[m]]
      BY <1>1, <3>2 DEF Lowest
    <3> QED  BY <3>2, <3>3
  <2>5. Priority[l.ops[s]] \in Nat /\ Priority[l.ops[k]] \in Nat
    BY <1>1, <2>2, PrioritiesAre
  <2> QED  BY <2>1, <2>2, <2>3, <2>4, <2>5
<1> QED  BY <1>1, <1>2, <1>3, <1>4, <1>5 DEF s

LEMMA ChainIs ==
  ASSUME NEW l \in Lines, NEW n \in NodesOf(l), ~IsLeaf(n)
  PROVE  /\ Chain(l, n) <=> Op(l, n) \notin {";", "&"}
         /\ Chain(l, n) => Chain(l, Cmd1(l, n)) /\ Chain(l, Cmd2(l, n))
         /\ Op(l, n) \in Sequential \cup {"&"} => ~AllPiped(l, n)
         /\ Op(l, n) \in {"&&", "||"} => \A k \in Cmd2(l, n)[1]..(n[2] - 1) : l.ops[k] = "|"
         /\ Op(l, n) # ";" => \A k \in n[1]..(n[2] - 1) : l.ops[k] # ";"
<1> DEFINE s == Split(l, n)
           op == Op(l, n)
<1>1. /\ s \in n[1]..(n[2] - 1) /\ op = l.ops[s] /\ op \in Operators
      /\ Cmd1(l, n) = <<n[1], s>> /\ Cmd2(l, n) = <<s + 1, n[2]>>
      /\ n[1] \in Nat /\ n[2] \in Nat /\ s \in Nat
      /\ \A k \in n[1]..(n[2] - 1) : /\ l.ops[k] \in Operators
                                     /\ Priority[op] <= Priority[l.ops[k]]
                                     /\ k > s => Priority[op] < Priority[l.ops[k]]
  BY OperatorsOf
<1> HIDE DEF s, op
<1>2. ASSUME op \notin {";", "&"} PROVE Chain(l, n)
  <2>1. Priority[op] \in Nat /\ Priority[op] >= 3
    <3>1. op = "&&" \/ op = "||" \/ op = "|"
      BY <1>1, <1>2 DEF Operators
    <3>2. Priority[op] = 3 \/ Priority[op] = 4
      BY <3>1, PrioritiesAre
    <3> QED  BY <3>2
  <2>2. ASSUME NEW k \in n[1]..(n[2] - 1) PROVE l.ops[k] \notin {";", "&"}
    <3>1. l.ops[k] \in Operators /\ Priority[op] <= Priority[l.ops[k]] /\ Priority[l.ops[k]] \in Nat
      BY <1>1, PrioritiesAre
    <3>2. Priority[l.ops[k]] >= 3
      BY <2>1, <3>1
    <3> QED  BY <3>1, <3>2, PrioritiesAre
  <2> QED  BY <2>2 DEF Chain
<1>3. Chain(l, n) => op \notin {";", "&"}
  BY <1>1 DEF Chain
<1>4. ASSUME Chain(l, n) PROVE Chain(l, Cmd1(l, n)) /\ Chain(l, Cmd2(l, n))
  <2>1. /\ \A k \in n[1]..(s - 1) : k \in n[1]..(n[2] - 1)
        /\ \A k \in (s + 1)..(n[2] - 1) : k \in n[1]..(n[2] - 1)
    BY <1>1
  <2>2. /\ \A k \in n[1]..(s - 1) : l.ops[k] \notin {";", "&"}
        /\ \A k \in (s + 1)..(n[2] - 1) : l.ops[k] \notin {";", "&"}
    BY <1>4, <2>1 DEF Chain
  <2>3. Cmd1(l, n)[1] = n[1] /\ Cmd1(l, n)[2] = s /\ Cmd2(l, n)[1] = s + 1 /\ Cmd2(l, n)[2] = n[2]
    BY <1>1
  <2> QED  BY <2>2, <2>3 DEF Chain
<1>5. ASSUME op \in Sequential \cup {"&"} PROVE ~AllPiped(l, n)
  BY <1>1, <1>5 DEF AllPiped, Piped, Sequential
<1>6. ASSUME op \in {"&&", "||"}, NEW k \in Cmd2(l, n)[1]..(n[2] - 1) PROVE l.ops[k] = "|"
  <2>1. Priority[op] = 3
    BY <1>6, PrioritiesAre
  <2>2. k \in n[1]..(n[2] - 1) /\ k > s
    BY <1>1, <1>6
  <2>3. l.ops[k] \in Operators /\ Priority[l.ops[k]] > 3
    <3>1. l.ops[k] \in Operators /\ Priority[op] < Priority[l.ops[k]]
      BY <1>1, <2>2
    <3>2. Priority[l.ops[k]] \in Nat
      BY <3>1, PrioritiesAre
    <3> QED  BY <2>1, <3>1, <3>2
  <2> QED  BY <2>3, PrioritiesAre
<1>7. ASSUME op # ";", NEW k \in n[1]..(n[2] - 1) PROVE l.ops[k] # ";"
  <2>1. Priority[op] >= 2
    <3>1. op = "&" \/ op = "&&" \/ op = "||" \/ op = "|"
      BY <1>1, <1>7 DEF Operators
    <3>2. Priority[op] = 2 \/ Priority[op] = 3 \/ Priority[op] = 4
      BY <3>1, PrioritiesAre
    <3> QED  BY <3>2
  <2>2. l.ops[k] \in Operators /\ Priority[op] <= Priority[l.ops[k]]
    BY <1>1
  <2>3. Priority[l.ops[k]] \in Nat /\ Priority[op] \in Nat
    BY <1>1, <2>2, PrioritiesAre
  <2>4. Priority[l.ops[k]] >= 2
    BY <2>1, <2>2, <2>3
  <2> QED  BY <2>2, <2>4, PrioritiesAre
<1> QED  BY <1>2, <1>3, <1>4, <1>5, <1>6, <1>7 DEF op

LEMMA PipedIs ==
  ASSUME NEW l \in Lines, NEW i \in Nat, i >= 1, i <= Len(l.cmds)
  PROVE  /\ InPipe(l, i) <=> Piped(l, i - 1) \/ Piped(l, i)
         /\ InPipe(l, i) <=> ~Bordered(l, <<i, i>>)
<1>1. Len(l.ops) \in Nat /\ Len(l.cmds) = Len(l.ops) + 1
  BY LineIs
<1>2. InPipe(l, i) <=> Piped(l, i - 1) \/ Piped(l, i)
  <2>1. (i > 1 <=> i - 1 \in 1..Len(l.ops)) /\ (i <= Len(l.ops) <=> i \in 1..Len(l.ops))
    BY <1>1
  <2> QED  BY <2>1 DEF InPipe, Piped
<1>3. InPipe(l, i) <=> ~Bordered(l, <<i, i>>)
  BY <1>2 DEF Bordered
<1> QED  BY <1>2, <1>3

(* What the shell evaluates itself is not behind or in front of `|`, and    *)
(* not between `;` and `&`; an operand of a sequence or condition is not    *)
(* either.                                                                 *)
LEMMA OuterOperands ==
  ASSUME NEW l \in Lines, NEW n \in NodesOf(l), ~IsLeaf(n), Op(l, n) \in Sequential, Outer(l, n)
  PROVE  Outer(l, Cmd1(l, n)) /\ Outer(l, Cmd2(l, n))
<1> DEFINE s == Split(l, n)
<1>1. /\ s \in n[1]..(n[2] - 1) /\ Op(l, n) = l.ops[s]
      /\ Cmd1(l, n) = <<n[1], s>> /\ Cmd2(l, n) = <<s + 1, n[2]>>
      /\ n[1] \in Nat /\ n[2] \in Nat /\ s \in Nat /\ s \in 1..Len(l.ops) /\ Len(l.ops) \in Nat
  BY OperatorsOf
<1> HIDE DEF s
<1>2. Bordered(l, Cmd1(l, n)) /\ Bordered(l, Cmd2(l, n))
  <2>1. Op(l, n) # "|" /\ Placed(l, n)
    BY DEF Sequential, Outer, Bordered, Placed
  <2> QED  BY <2>1, OperandsPlaced
<1>3. Cmd1(l, n)[1] = n[1] /\ Cmd1(l, n)[2] = s /\ Cmd2(l, n)[1] = s + 1 /\ Cmd2(l, n)[2] = n[2]
  BY <1>1
<1>4. ASSUME NEW k \in 1..Len(l.ops), l.ops[k] = "&"
      PROVE  /\ k \notin n[1]..(s - 1) => \E m \in 1..Len(l.ops) : l.ops[m] = ";" /\ (m \in s..(k - 1) \/ m \in (k + 1)..(n[1] - 1))
             /\ k \notin (s + 1)..(n[2] - 1) => \E m \in 1..Len(l.ops) : l.ops[m] = ";" /\ (m \in n[2]..(k - 1) \/ m \in (k + 1)..((s + 1) - 1))
  <2>1. CASE k \notin n[1]..(n[2] - 1)
    <3>1. PICK m \in 1..Len(l.ops) : l.ops[m] = ";" /\ (m \in n[2]..(k - 1) \/ m \in (k + 1)..(n[1] - 1))
      BY <1>4, <2>1 DEF Outer
    <3>2. /\ m \in s..(k - 1) \/ m \in (k + 1)..(n[1] - 1)
          /\ m \in n[2]..(k - 1) \/ m \in (k + 1)..((s + 1) - 1)
      <4>1. CASE m \in n[2]..(k - 1)
        <5>1. m \in s..(k - 1)
          BY <1>1, <4>1
        <5> QED  BY <4>1, <5>1
      <4>2. CASE m \in (k + 1)..(n[1] - 1)
        <5>1. m \in (k + 1)..((s + 1) - 1)
          BY <1>1, <4>2
        <5> QED  BY <4>2, <5>1
      <4> QED  BY <3>1, <4>1, <4>2
    <3> QED  BY <3>1, <3>2
  <2>2. CASE k \in n[1]..(n[2] - 1)
    <3>1. l.ops[s] = ";"
      <4>1. ~Chain(l, n)
        BY <1>4, <2>2 DEF Chain
      <4>2. Op(l, n) \in {";", "&"}
        BY <4>1, ChainIs
      <4> QED  BY <1>1, <4>2 DEF Sequential
    <3>2. k # s
      BY <1>4, <3>1
    <3>3. /\ k \notin n[1]..(s - 1) => s \in s..(k - 1)
          /\ k \notin (s + 1)..(n[2] - 1) => s \in (k + 1)..((s + 1) - 1)
      BY <1>1, <2>2, <3>2
    <3> QED  BY <1>1, <3>1, <3>3
  <2> QED  BY <2>1, <2>2
<1> QED  BY <1>2, <1>3, <1>4 DEF Outer

LEMMA OuterLeaf ==
  ASSUME NEW l \in Lines, NEW n \in NodesOf(l), IsLeaf(n), Outer(l, n)
  PROVE  InShell(l, n[1]) /\ ~InPipe(l, n[1])
<1>1. n = <<n[1], n[2]>> /\ n[1] = n[2] /\ n[1] \in Nat /\ n[1] >= 1 /\ n[1] <= Len(l.cmds)
  BY NodeIs DEF IsLeaf
<1>2. ~InPipe(l, n[1])
  BY <1>1, PipedIs DEF Outer
<1>3. ASSUME NEW k \in 1..Len(l.ops), l.ops[k] = "&"
      PROVE  \E m \in 1..Len(l.ops) : l.ops[m] = ";" /\ (m \in n[1]..(k - 1) \/ m \in (k + 1)..(n[1] - 1))
  <2>1. k \notin n[1]..(n[2] - 1)
    BY <1>1
  <2> QED  BY <1>1, <1>3, <2>1 DEF Outer
<1>4. ~InBackground(l, n[1])
  BY <1>3 DEF InBackground
<1> QED  BY <1>2, <1>4 DEF InShell

LEMMA OuterRoot ==
  ASSUME NEW l \in Lines
  PROVE  Outer(l, Root(l)) /\ Root(l) \in NodesOf(l)
<1>1. Len(l.ops) \in Nat /\ Len(l.cmds) = Len(l.ops) + 1 /\ Len(l.cmds) \in Nat
  BY LineIs
<1>2. Root(l)[1] = 1 /\ Root(l)[2] = Len(l.ops) + 1 /\ Root(l) \in Nat \X Nat
  BY <1>1 DEF Root
<1>3. Bordered(l, Root(l))
  BY <1>1, <1>2 DEF Bordered, Piped
<1>4. \A k \in 1..Len(l.ops) : k \in Root(l)[1]..(Root(l)[2] - 1)
  BY <1>1, <1>2
<1>5. Root(l) \in NodesOf(l)
  BY <1>1, <1>2 DEF NodesOf
<1> QED  BY <1>3, <1>4, <1>5 DEF Outer

(* The operands of `&` and `|` are evaluated by copies, and so is all that  *)
(* is in them.                                                             *)
LEMMA InnerOperands ==
  ASSUME NEW l \in Lines, NEW n \in NodesOf(l), Op(l, n) \in {"&", "|"},
         NEW c \in {Cmd1(l, n), Cmd2(l, n)}
  PROVE  /\ Inner(l, c)
         /\ Op(l, n) = "|" => AllPiped(l, c) /\ InPipe(l, c[1])
<1> DEFINE s == Split(l, n)
<1>0. ~IsLeaf(n)
  BY NotALeaf DEF None
<1>1. /\ s \in n[1]..(n[2] - 1) /\ Op(l, n) = l.ops[s] /\ s \in 1..Len(l.ops)
      /\ Cmd1(l, n) = <<n[1], s>> /\ Cmd2(l, n) = <<s + 1, n[2]>>
      /\ n[1] \in Nat /\ n[2] \in Nat /\ s \in Nat /\ Len(l.ops) \in Nat
      /\ 1 <= n[1] /\ n[2] <= Len(l.ops) + 1
  BY <1>0, OperatorsOf
<1> HIDE DEF s
<1>2. c[1] \in Nat /\ c[2] \in Nat /\ n[1] <= c[1] /\ c[2] <= n[2] /\ c[1] <= c[2]
  <2>1. c = <<n[1], s>> \/ c = <<s + 1, n[2]>>
    BY <1>1
  <2> QED  BY <1>1, <2>1
<1>3. \A k \in n[1]..(n[2] - 1) : l.ops[k] # ";"
  BY <1>0, ChainIs
<1>4. \A k \in c[1]..(c[2] - 1) : l.ops[k] # ";"
  <2>1. \A k \in c[1]..(c[2] - 1) : k \in n[1]..(n[2] - 1)
    BY <1>1, <1>2
  <2> QED  BY <1>3, <2>1
<1>5. ASSUME NEW i \in n[1]..n[2] PROVE ~InShell(l, i)
  <2>1. CASE Op(l, n) = "&"
    <3>1. ASSUME NEW m \in 1..Len(l.ops), l.ops[m] = ";" PROVE ~(m \in i..(s - 1) \/ m \in (s + 1)..(i - 1))
      <4>1. m \notin n[1]..(n[2] - 1)
        BY <1>3, <3>1
      <4> QED  BY <1>1, <4>1
    <3>2. InBackground(l, i)
      BY <1>1, <2>1, <3>1 DEF InBackground
    <3> QED  BY <3>2 DEF InShell
  <2>2. CASE Op(l, n) = "|"
    <3>1. AllPiped(l, n)
      BY <2>2, PipedOperands
    <3>2. i \in n[1]..(n[2] - 1) \/ i - 1 \in n[1]..(n[2] - 1)
      BY <1>1
    <3>3. Piped(l, i) \/ Piped(l, i - 1)
      BY <3>1, <3>2 DEF AllPiped
    <3>4. InPipe(l, i)
      <4>1. i \in Nat /\ i >= 1 /\ i <= Len(l.cmds)
        BY <1>1, LineIs
      <4> QED  BY <3>3, <4>1, PipedIs
    <3> QED  BY <3>4 DEF InShell
  <2> QED  BY <2>1, <2>2
<1>6. Inner(l, c)
  <2>1. \A i \in c[1]..c[2] : i \in n[1]..n[2]
    BY <1>1, <1>2
  <2> QED  BY <1>4, <1>5, <2>1 DEF Inner
<1>7. ASSUME Op(l, n) = "|" PROVE AllPiped(l, c) /\ InPipe(l, c[1])
  <2>1. AllPiped(l, n)
    BY <1>7, PipedOperands
  <2>2. AllPiped(l, c)
    BY <1>1, <1>2, <2>1 DEF AllPiped
  <2>3. c[1] \in n[1]..(n[2] - 1) \/ c[1] - 1 \in n[1]..(n[2] - 1)
    BY <1>1, <1>2
  <2>4. Piped(l, c[1]) \/ Piped(l, c[1] - 1)
    BY <2>1, <2>3 DEF AllPiped
  <2>5. c[1] >= 1 /\ c[1] <= Len(l.cmds)
    BY <1>1, <1>2, LineIs
  <2> QED  BY <1>2, <2>2, <2>4, <2>5, PipedIs
<1> QED  BY <1>6, <1>7

-----------------------------------------------------------------------------
(* What comes behind a node that was evaluated: cmd2 of its parent or, when *)
(* the condition does not hold, what is behind that.                       *)
LEMMA EntersCmd2 ==
  ASSUME NEW l \in Lines, NEW n \in NodesOf(l), Op(l, n) \in Sequential, Bordered(l, Cmd1(l, n)),
         NEW s, RunsCmd2(Op(l, n), s), NEW e, Leaves(l, Cmd1(l, n), s, e)
  PROVE  Enters(l, Cmd2(l, n)[1], e)
<1>0. ~IsLeaf(n)
  BY NotALeaf DEF None, Sequential
<1> DEFINE n1 == Cmd1(l, n)
           op == Op(l, n)
<1>1. /\ Cmd2(l, n)[1] - 1 = Split(l, n) /\ op = l.ops[Split(l, n)] /\ Split(l, n) \in Nat
      /\ n1 \in NodesOf(l)
  <2>1. op = l.ops[Split(l, n)] /\ Cmd2(l, n) = <<Split(l, n) + 1, n[2]>> /\ Split(l, n) \in Nat
    BY <1>0, OperatorsOf
  <2> QED  BY <1>0, <2>1, OperandsAre
<1>2. Chain(l, n) => Chain(l, n1) /\ (Chain(l, n) <=> op \notin {";", "&"})
  BY <1>0, ChainIs
<1>3. ASSUME op # ";" PROVE ~e.ended /\ e.status = s
  <2>1. Chain(l, n)
    BY <1>0, <1>3, ChainIs DEF Sequential
  <2>2. ~(IsLeaf(n1) /\ InPipe(l, n1[1]))
    <3>1. ASSUME IsLeaf(n1) PROVE ~InPipe(l, n1[1])
      <4>1. n1 = <<n1[1], n1[1]>> /\ n1[1] \in Nat /\ n1[1] >= 1 /\ n1[1] <= Len(l.cmds)
        BY <1>1, <3>1, NodeIs DEF IsLeaf
      <4> QED  BY <4>1, PipedIs
    <3> QED  BY <3>1
  <2> QED  BY <1>2, <2>1, <2>2 DEF Leaves
<1>4. ~e.over
  BY DEF Leaves
<1> HIDE DEF op, n1
<1>5. op \in {";", "&&", "||"} /\ RunsCmd2(op, s)
  BY DEF op, Sequential
<1>6. /\ ~(e.over \/ (e.ended /\ op \notin {";", "&"}))
      /\ (op = "&&" => e.status = 0) /\ (op = "||" => e.status # 0) /\ (op = "|" => e.runs)
  BY <1>3, <1>4, <1>5 DEF RunsCmd2
<1> QED  BY <1>1, <1>6 DEF Enters

LEMMA EntersOperand2 ==
  ASSUME NEW l \in Lines, NEW n \in NodesOf(l), Op(l, n) \in {"&", "|"},
         NEW s, NEW e, LeftByCopy(l, Cmd1(l, n), s, e)
  PROVE  Enters(l, Cmd2(l, n)[1], e)
<1>0. ~IsLeaf(n)
  BY NotALeaf DEF None
<1> DEFINE op == Op(l, n)
<1>1. Cmd2(l, n)[1] - 1 = Split(l, n) /\ op = l.ops[Split(l, n)]
  <2>1. op = l.ops[Split(l, n)] /\ Cmd2(l, n) = <<Split(l, n) + 1, n[2]>> /\ Split(l, n) \in Nat
    BY <1>0, OperatorsOf
  <2> QED  BY <2>1
<1>2. op = "|" => AllPiped(l, Cmd1(l, n)) /\ InPipe(l, Cmd1(l, n)[1])
  BY InnerOperands
<1> HIDE DEF op
<1>3. ~e.over /\ (op = "|" => e.runs /\ ~e.ended) /\ op \in {"&", "|"}
  BY <1>2 DEF LeftByCopy, op
<1>4. /\ ~(e.over \/ (e.ended /\ op \notin {";", "&"}))
      /\ (op = "&&" => e.status = 0) /\ (op = "||" => e.status # 0) /\ (op = "|" => e.runs)
  BY <1>3
<1> QED  BY <1>1, <1>4 DEF Enters

LEMMA PassesCmd2 ==
  ASSUME NEW l \in Lines, NEW n \in NodesOf(l), Op(l, n) \in Sequential, Bordered(l, Cmd1(l, n)),
         NEW s, ~RunsCmd2(Op(l, n), s), NEW e, Leaves(l, Cmd1(l, n), s, e),
         NEW rs, NEW no, \A i \in Cmd2(l, n)[1]..n[2] : ~Recorded(rs, no, i)
  PROVE  Passes(rs, no, l, Cmd2(l, n)[1], n[2], e) /\ Leaves(l, n, s, Pass(e))
<1>0. ~IsLeaf(n)
  BY NotALeaf DEF None, Sequential
<1> DEFINE n1 == Cmd1(l, n)
           op == Op(l, n)
           i == Cmd2(l, n)[1]
<1>1. /\ i - 1 = Split(l, n) /\ op = l.ops[Split(l, n)] /\ i \in Nat /\ n[2] \in Nat /\ n1 \in NodesOf(l)
  <2>1. op = l.ops[Split(l, n)] /\ Cmd2(l, n) = <<Split(l, n) + 1, n[2]>> /\ Split(l, n) \in Nat /\ n[2] \in Nat
    BY <1>0, OperatorsOf
  <2> QED  BY <1>0, <2>1, OperandsAre
<1>2. op \in {"&&", "||"}
  BY DEF Sequential, RunsCmd2
<1>3. Chain(l, n) /\ Chain(l, n1) /\ ~AllPiped(l, n) /\ \A k \in i..(n[2] - 1) : l.ops[k] = "|"
  BY <1>0, <1>2, ChainIs DEF Sequential
<1>4. ~e.ended /\ e.status = s /\ ~e.over
  <2>2. ~(IsLeaf(n1) /\ InPipe(l, n1[1]))
    <3>1. ASSUME IsLeaf(n1) PROVE ~InPipe(l, n1[1])
      <4>1. n1 = <<n1[1], n1[1]>> /\ n1[1] \in Nat /\ n1[1] >= 1 /\ n1[1] <= Len(l.cmds)
        BY <1>1, <3>1, NodeIs DEF IsLeaf
      <4> QED  BY <4>1, PipedIs
    <3> QED  BY <3>1
  <2> QED  BY <1>3, <2>2 DEF Leaves
<1> HIDE DEF op, n1, i
<1>5. ~Enters(l, i, e)
  <2>1. ~(op = "&&" => e.status = 0) \/ ~(op = "||" => e.status # 0)
    BY <1>2, <1>4 DEF RunsCmd2, op
  <2> QED  BY <1>1, <2>1 DEF Enters
<1>6. ~Pass(e).runs /\ ~Pass(e).over /\ Pass(e).status = s /\ Pass(e).ended = e.ended
  BY <1>4 DEF Pass
<1>7. ASSUME NEW j \in (i + 1)..n[2] PROVE ~Enters(l, j, Pass(e))
  <2>1. j - 1 \in i..(n[2] - 1)
    BY <1>1
  <2>2. l.ops[j - 1] = "|"
    BY <1>3, <2>1
  <2> QED  BY <1>6, <2>2 DEF Enters
<1>8. \A j \in i..n[2] : Carries(l, j, e)
  BY <1>4 DEF Carries
<1>9. Passes(rs, no, l, i, n[2], e)
  BY <1>4, <1>5, <1>7, <1>8 DEF Passes, i
<1>10. Leaves(l, n, s, Pass(e))
  BY <1>0, <1>3, <1>4, <1>6 DEF Leaves
<1> QED  BY <1>9, <1>10 DEF i

(* exit: nothing runs behind it in the chain of conditions it is in.       *)
LEMMA PassesChain ==
  ASSUME NEW l, NEW n, Chain(l, n), n[1] \in Nat, n[2] \in Nat,
         NEW i \in Nat, n[1] < i, i <= n[2], NEW e, e.ended, e.ended \in BOOLEAN, ~e.over,
         NEW rs, NEW no, \A j \in i..n[2] : ~Recorded(rs, no, j)
  PROVE  Passes(rs, no, l, i, n[2], e)
<1>1. ASSUME NEW j \in i..n[2] PROVE Carries(l, j, e) /\ ~Enters(l, j, e) /\ ~Enters(l, j, Pass(e))
  <2>1. j - 1 \in n[1]..(n[2] - 1)
    OBVIOUS
  <2>2. l.ops[j - 1] \notin {";", "&"}
    BY <2>1 DEF Chain
  <2>3. Pass(e).ended
    BY DEF Pass
  <2> QED  BY <2>2, <2>3 DEF Carries, Enters
<1>2. i \in i..n[2] /\ \A j \in (i + 1)..n[2] : j \in i..n[2]
  OBVIOUS
<1> QED  BY <1>1, <1>2 DEF Passes

LEMMA LeavesParent ==
  ASSUME NEW l \in Lines, NEW n \in NodesOf(l), Op(l, n) \in Sequential, Bordered(l, Cmd2(l, n)),
         NEW s, NEW e, Leaves(l, Cmd2(l, n), s, e)
  PROVE  Leaves(l, n, s, e)
<1>0. ~IsLeaf(n)
  BY NotALeaf DEF None, Sequential
<1> DEFINE n2 == Cmd2(l, n)
<1>1. n2 \in NodesOf(l)
  BY <1>0, OperandsAre
<1>2. ~(IsLeaf(n2) /\ InPipe(l, n2[1]))
  <2>1. ASSUME IsLeaf(n2) PROVE ~InPipe(l, n2[1])
    <3>1. n2 = <<n2[1], n2[1]>> /\ n2[1] \in Nat /\ n2[1] >= 1 /\ n2[1] <= Len(l.cmds)
      BY <1>1, <2>1, NodeIs DEF IsLeaf
    <3> QED  BY <3>1, PipedIs
  <2> QED  BY <2>1
<1>3. (Chain(l, n) => Chain(l, n2)) /\ ~AllPiped(l, n)
  BY <1>0, ChainIs
<1> QED  BY <1>0, <1>2, <1>3 DEF Leaves

LEMMA LeavesOperands ==
  ASSUME NEW l \in Lines, NEW n \in NodesOf(l), Op(l, n) \in {"&", "|"},
         NEW s, NEW e, LeftByCopy(l, Cmd2(l, n), s, e)
  PROVE  Leaves(l, n, IF Op(l, n) = "&" THEN 0 ELSE s, e)
<1>0. ~IsLeaf(n)
  BY NotALeaf DEF None
<1>1. CASE Op(l, n) = "&"
  <2>1. ~Chain(l, n) /\ ~AllPiped(l, n)
    BY <1>0, <1>1, ChainIs
  <2> QED  BY <1>1, <2>1 DEF Leaves, LeftByCopy
<1>2. CASE Op(l, n) = "|"
  <2>1. AllPiped(l, Cmd2(l, n)) /\ InPipe(l, Cmd2(l, n)[1])
    BY <1>2, InnerOperands
  <2>2. IsLeaf(Cmd2(l, n))
    BY <1>2, PipedOperands DEF IsLeaf
  <2> QED  BY <1>0, <1>2, <2>1, <2>2 DEF Leaves, LeftByCopy
<1> QED  BY <1>1, <1>2

LEMMA LeavesLeaf ==
  ASSUME NEW l, NEW n, IsLeaf(n), NEW rs, NEW no, l.cmds[n[1]].verb # "exit"
  PROVE  Leaves(l, n, ResultOf(rs, no, n[1]), Reached(rs, no, l, n[1]))
<1>1. ~Quits(l, n[1])
  BY DEF Quits
<1> QED  BY <1>1 DEF Leaves, Reached

LEMMA LeftByReturn ==
  ASSUME NEW l, NEW n, NEW s, NEW e, Leaves(l, n, s, e)
  PROVE  LeftByCopy(l, n, s % 256, e)
<1>1. ASSUME AllPiped(l, n), InPipe(l, n[1])
      PROVE  e.runs /\ ~e.ended /\ (IsLeaf(n) => e.status = s % 256)
  <2>1. Chain(l, n)
    BY <1>1 DEF AllPiped, Piped, Chain
  <2> QED  BY <1>1, <2>1 DEF Leaves
<1> QED  BY <1>1 DEF Leaves, LeftByCopy

-----------------------------------------------------------------------------
(* Whatever a step of p leaves alone stays as it means.                    *)
LEMMA MeansKept ==
  ASSUME Means, UNCHANGED results,
         \A q \in DOMAIN procs' : \/ q \in DOMAIN procs /\ procs'[q] = procs[q]
                                  \/ MeansInv(q, procs'[q], results)
  PROVE  Means'
<1>1. ASSUME NEW q \in DOMAIN procs' PROVE MeansInv(q, procs'[q], results)
  BY DEF Means
<1> QED  BY <1>1 DEF Means

LEMMA MeansMoves ==
  ASSUME Means, UNCHANGED results, NEW p \in DOMAIN procs, NEW r, Becomes(p, r), MeansInv(p, r, results)
  PROVE  Means'
<1>1. DOMAIN procs' = DOMAIN procs /\ procs'[p] = r /\ \A q \in DOMAIN procs \ {p} : procs'[q] = procs[q]
  BY DEF Becomes
<1> QED  BY <1>1, MeansKept

LEMMA MeansGrows ==
  ASSUME Means, UNCHANGED results, ProcsInv, NEW p \in DOMAIN procs, NEW c, c # p, NEW k, NEW r, NEW failed,
         Fork(p, c, k, r, failed), fails' = fails, MeansInv(p, r, results), MeansInv(c, k, results)
  PROVE  Means'
<1>1. /\ DOMAIN procs' = DOMAIN procs \cup {c} /\ procs'[c] = k /\ procs'[p] = r
      /\ \A q \in DOMAIN procs \ {p, c} : procs'[q] = procs[q]
  BY Forked
<1>2. ASSUME NEW q \in DOMAIN procs'
      PROVE  \/ q \in DOMAIN procs /\ procs'[q] = procs[q]
             \/ MeansInv(q, procs'[q], results)
  BY <1>1
<1> QED  BY <1>2, MeansKept

LEMMA MeansShrinks ==
  ASSUME Means, UNCHANGED results, NEW p \in DOMAIN procs, NEW c, NEW r, Wait(p, c, r),
         MeansInv(p, r, results)
  PROVE  Means'
<1>1. DOMAIN procs' \subseteq DOMAIN procs /\ \A q \in DOMAIN procs' : procs'[q] = IF q = p THEN r ELSE procs[q]
  BY DEF Wait
<1>2. ASSUME NEW q \in DOMAIN procs'
      PROVE  \/ q \in DOMAIN procs /\ procs'[q] = procs[q]
             \/ MeansInv(q, procs'[q], results)
  BY <1>1
<1> QED  BY <1>2, MeansKept

LEMMA CommandsMeanNothing ==
  ASSUME ProcsInv, NEW p \in DOMAIN procs, Len(p) = 2, NEW r, r.pc \in {"exec", "run"} \cup Ended, NEW rs
  PROVE  MeansInv(p, r, rs)
<1>1. Len(p) # 3 /\ p # Shell /\ r.pc \notin Evaluating
  BY DEF Shell, Ended, Evaluating
<1> QED  BY <1>1 DEF MeansInv

(* A leaf that is about to be recorded is not among the commands that any  *)
(* other process has read, nor among those that it will read.              *)
ReadTo(r) == IF r.pc = "return" THEN Top(r)[2] ELSE At(r) - 1
Foreign(r, i) ==
  /\ r.pc \in Evaluating => i \notin r.path[1][1]..ReadTo(r) /\ i \notin Front(r)..r.path[1][2]
  /\ r.pc \in Ended => i \notin r.path[1][1]..r.path[1][2]

LEMMA AtIs ==
  ASSUME ProcsInv, NEW p \in DOMAIN procs, procs[p].pc \in Evaluating
  PROVE  LET r == procs[p]
             a == r.path[1]
             n == Top(r) IN
         /\ a[1] \in Nat /\ a[2] \in Nat /\ n[1] \in Nat /\ n[2] \in Nat
         /\ 1 <= a[1] /\ a[1] <= n[1] /\ n[1] <= n[2] /\ n[2] <= a[2]
         /\ At(r) \in Nat /\ n[1] <= At(r) /\ At(r) <= n[2] /\ ReadTo(r) \in Int /\ ReadTo(r) <= n[2]
         /\ a \in NodesOf(r.line)
<1> DEFINE r == procs[p]
           a == r.path[1]
           n == Top(r)
<1>1. StackInv(r) /\ r.path # <<>> /\ r.line \in Lines /\ n \in NodesOf(r.line)
  BY ProcIs, AtNode
<1>2. a \in NodesOf(r.line) /\ Sub(n, a)
  BY <1>1, TopIs
<1>3. /\ a[1] \in Nat /\ a[2] \in Nat /\ n[1] \in Nat /\ n[2] \in Nat
      /\ 1 <= a[1] /\ a[1] <= n[1] /\ n[1] <= n[2] /\ n[2] <= a[2]
  <2>1. a[1] \in Nat /\ a[2] \in Nat /\ 1 <= a[1]
    BY <1>2, NodeIs
  <2>2. n[1] \in Nat /\ n[2] \in Nat /\ n[1] <= n[2]
    BY <1>1, NodeIs
  <2> QED  BY <1>2, <2>1, <2>2 DEF Sub
<1>4. At(r) \in Nat /\ n[1] <= At(r) /\ At(r) <= n[2]
  <2>1. CASE r.pc = "wait2"
    <3>1. ~IsLeaf(n)
      <4>1. Op(r.line, n) \in {"&", "|"}
        BY <2>1, ProcIs DEF PlaceInv
      <4> QED  BY <4>1, NotALeaf DEF None
    <3>2. Cmd2(r.line, n) \in NodesOf(r.line) /\ n[1] < Cmd2(r.line, n)[1] /\ Cmd2(r.line, n)[2] = n[2]
      BY <1>1, <3>1, OperandsAre DEF Cmd2
    <3>3. Cmd2(r.line, n)[1] \in Nat /\ Cmd2(r.line, n)[1] <= Cmd2(r.line, n)[2]
      BY <3>2, NodeIs
    <3>4. At(r) = Cmd2(r.line, n)[1]
      BY <2>1 DEF At
    <3> HIDE DEF n, r
    <3> QED  BY <1>3, <3>2, <3>3, <3>4
  <2>2. CASE r.pc # "wait2"
    <3>1. At(r) = n[1]
      BY <2>2 DEF At
    <3> HIDE DEF n, r
    <3> QED  BY <1>3, <3>1
  <2> QED  BY <2>1, <2>2
<1>5. ReadTo(r) \in Int /\ ReadTo(r) <= n[2]
  <2>1. ReadTo(r) = n[2] \/ ReadTo(r) = At(r) - 1
    BY DEF ReadTo
  <2> HIDE DEF n, r
  <2> QED  BY <1>3, <1>4, <2>1
<1> QED  BY <1>2, <1>3, <1>4, <1>5

LEMMA LeafElsewhere ==
  ASSUME ProcsInv, TreeInv, FlowInv, NEW p \in DOMAIN procs, procs[p].pc \in {"eval", "wait"},
         IsLeaf(Top(procs[p])), NEW q \in DOMAIN procs \ {p}, Len(q) # 2
  PROVE  /\ Foreign(procs[q], Top(procs[p])[1])
         /\ q = Shell => procs[q].pc \in Evaluating /\ procs[q].pc # "return"
<1> DEFINE r == procs[p]
           s == procs[q]
           i == Top(r)[1]
<1>1. r.pc \in Evaluating
  BY DEF Evaluating
<1>2. /\ i \in Nat /\ Top(r)[2] = i /\ Nested /\ FrontInv /\ OwnInv
      /\ r.path[1][1] <= i /\ i <= r.path[1][2]
  <2>1. i \in Nat /\ Top(r)[2] = i
    BY <1>1, AtIs DEF IsLeaf
  <2>2. r.path[1][1] <= Top(r)[1] /\ Top(r)[1] <= Top(r)[2] /\ Top(r)[2] <= r.path[1][2]
    BY <1>1, AtIs
  <2> QED  BY <2>1, <2>2 DEF FlowInv, TreeInv
<1>3. ASSUME p # Shell
      PROVE  IsPid(p) /\ Len(p) = 3 /\ p[2] <= i /\ i <= p[3] /\ p[3] \in Nat /\ p[2] \in Nat
  <2>1. /\ p[2] \in Nat /\ p[Len(p)] \in Nat /\ Scope(p) = r.path[1] /\ Len(p) \in 1..3 /\ Len(p) # 1
        /\ Len(p) = 2 => r.pc \in {"exec", "run"} \cup Ended
    BY <1>3, PidIs
  <2>2. Len(p) # 2
    BY <1>1, <2>1 DEF Evaluating, Ended
  <2>3. Len(p) = 3
    BY <2>1, <2>2
  <2>4. IsPid(p)
    BY <1>3, IsAPid
  <2>5. Scope(p)[1] = p[2] /\ Scope(p)[2] = p[3]
    BY <2>3, <2>4, WithinIs
  <2>6. r.path[1][1] = p[2] /\ r.path[1][2] = p[3]
    BY <2>1, <2>5
  <2> HIDE DEF i, r
  <2> QED  BY <1>2, <2>1, <2>3, <2>4, <2>6
<1>4. ASSUME q # Shell
      PROVE  /\ IsPid(q) /\ Len(q) = 3 /\ s.path[1][1] = q[2] /\ s.path[1][2] = q[3]
             /\ q[2] \in Nat /\ q[3] \in Nat /\ s.pc \in Evaluating \cup Ended
  <2>1. /\ Scope(q) = s.path[1] /\ Len(q) \in 1..3 /\ Len(q) # 1 /\ q[2] \in Nat /\ q[Len(q)] \in Nat
        /\ Len(q) = 3 => s.pc \in Evaluating \cup Ended
    BY <1>4, PidIs
  <2>2. Len(q) = 3
    BY <2>1
  <2>3. IsPid(q)
    BY <1>4, IsAPid
  <2>4. Scope(q)[1] = q[2] /\ Scope(q)[2] = q[3]
    BY <2>2, <2>3, WithinIs
  <2> QED  BY <2>1, <2>2, <2>3, <2>4
<1>5. ~Below(r, q) \/ q = Shell
  <2>1. CASE r.pc = "eval"
    BY <2>1, NoneBelow DEF Alone
  <2>2. CASE r.pc = "wait"
    <3>1. Len(<<r.no, Top(r)[1]>>) = 2
      OBVIOUS
    <3> QED  BY <2>2, <3>1 DEF Below
  <2> QED  BY <2>1, <2>2
<1>6. q = Shell \/ ~Covers(p, q)
  BY <1>2, <1>5 DEF OwnInv
<1>7. CASE Covers(q, p)
  <2>1. p # Shell
    <3>1. p = Shell => Covers(p, q)
      BY DEF Covers
    <3> QED  BY <1>6, <3>1
  <2>2. Below(s, p) /\ (s.pc \in Evaluating => p[Len(p)] < Front(s))
    BY <1>2, <1>7, <2>1 DEF OwnInv, FrontInv
  <2>3. s.pc # "wait" \/ p # <<s.no, Top(s)[1]>>
    <3>1. Len(<<s.no, Top(s)[1]>>) = 2
      OBVIOUS
    <3> QED  BY <1>3, <2>1, <3>1
  <2>4. s.pc \in {"fork2", "close", "wait1", "wait2"}
    BY <2>2, <2>3 DEF Below
  <2>5. s.pc \in Evaluating /\ s.pc # "return" /\ s.pc \notin Ended
    BY <2>4 DEF Evaluating, Ended
  <2>6. At(s) <= p[2]
    <3>1. CASE s.pc # "wait2" /\ Within(p, Cmd1(s.line, Top(s)))
      <4>1. At(s) = Cmd1(s.line, Top(s))[1]
        BY <3>1 DEF At, Cmd1
      <4> QED  BY <3>1, <4>1 DEF Within
    <3>2. CASE Within(p, Cmd2(s.line, Top(s)))
      <4>1. Cmd2(s.line, Top(s))[1] <= p[2]
        BY <3>2 DEF Within
      <4>2. CASE s.pc = "wait2"
        BY <4>1, <4>2 DEF At
      <4>3. CASE s.pc # "wait2"
        <5>1. At(s) = Top(s)[1] /\ At(s) \in Nat
          BY <2>5, <4>3, AtIs DEF At
        <5>2. Top(s)[1] < Cmd2(s.line, Top(s))[1] /\ Cmd2(s.line, Top(s)) \in NodesOf(s.line)
          <6>1. Op(s.line, Top(s)) \in {"&", "|"}
            BY <2>4, ProcIs DEF PlaceInv
          <6>2. s.line \in Lines /\ Top(s) \in NodesOf(s.line)
            BY <2>5, AtNode
          <6> QED  BY <6>1, <6>2, NotALeaf, OperandsAre DEF None
        <5>3. Cmd2(s.line, Top(s))[1] \in Nat
          BY <5>2, NodeIs
        <5> HIDE DEF s
        <5> QED  BY <1>3, <2>1, <4>1, <5>1, <5>2, <5>3
      <4> QED  BY <4>2, <4>3
    <3> QED  BY <2>2, <2>3, <2>4, <3>1, <3>2 DEF Below
  <2>7. At(s) \in Nat /\ s.path[1][1] \in Nat /\ s.path[1][2] \in Nat /\ Front(s) \in Nat
    BY <2>5, AtIs, FrontIs
  <2>8. p[2] <= i /\ i <= p[3] /\ p[3] < Front(s) /\ p[2] \in Nat /\ p[3] \in Nat
    BY <1>3, <2>1, <2>2, <2>5
  <2>9. ReadTo(s) = At(s) - 1
    BY <2>5 DEF ReadTo
  <2> HIDE DEF s, i
  <2>10. i \notin s.path[1][1]..ReadTo(s) /\ i \notin Front(s)..s.path[1][2]
    BY <1>2, <2>6, <2>7, <2>8, <2>9
  <2> QED  BY <2>5, <2>10 DEF Foreign, s, i
<1>8. CASE ~Covers(q, p)
  <2>1. p # Shell /\ q # Shell
    <3>1. p = Shell => Covers(p, q)
      BY DEF Covers
    <3>2. q # Shell
      BY <1>8 DEF Covers
    <3> QED  BY <1>6, <3>1, <3>2
  <2>2. Apart(p, q)
    <3>1. ~Within(p, Scope(q)) /\ ~Within(q, Scope(p))
      BY <1>3, <1>4, <1>6, <1>8, <2>1 DEF Covers
    <3> QED  BY <1>2, <2>1, <3>1 DEF Nested
  <2>3. p[3] < q[2] \/ q[3] < p[2]
    BY <1>3, <1>4, <2>1, <2>2 DEF Apart
  <2>4. i \notin q[2]..q[3]
    <3> HIDE DEF i
    <3> QED  BY <1>2, <1>3, <1>4, <2>1, <2>3
  <2>5. ASSUME s.pc \in Evaluating
        PROVE  i \notin s.path[1][1]..ReadTo(s) /\ i \notin Front(s)..s.path[1][2]
    <3>1. /\ s.path[1][1] \in Nat /\ s.path[1][2] \in Nat /\ s.path[1][1] <= Top(s)[1] /\ Top(s)[2] <= s.path[1][2]
          /\ ReadTo(s) \in Int /\ ReadTo(s) <= Top(s)[2] /\ Top(s)[1] \in Nat /\ Top(s)[2] \in Nat
      BY <2>5, AtIs
    <3>2. Front(s) \in Nat /\ Top(s)[1] <= Front(s)
      BY <2>5, FrontIs
    <3>3. s.path[1][1] = q[2] /\ s.path[1][2] = q[3]
      BY <1>4, <2>1
    <3> HIDE DEF s, i
    <3> QED  BY <1>2, <2>4, <3>1, <3>2, <3>3
  <2> QED  BY <1>4, <2>1, <2>4, <2>5 DEF Foreign
<1> QED  BY <1>7, <1>8

(* Recording what a leaf returned changes nothing for the others,          *)
SameAt(rs, rs2, no, j) ==
  /\ Recorded(rs2, no, j) <=> Recorded(rs, no, j)
  /\ ResultOf(rs2, no, j) = ResultOf(rs, no, j)
  /\ Recorded(rs, no, j) => rs2[<<no, j>>] = rs[<<no, j>>]
Records(rs, rs2, no, i, v) == rs2 = With(rs, <<no, i>>, v)

LEMMA RecordedIs ==
  ASSUME NEW rs, NEW rs2, NEW no, NEW i, NEW v, Records(rs, rs2, no, i, v)
  PROVE  /\ Recorded(rs2, no, i) /\ ResultOf(rs2, no, i) = v
         /\ \A j : j # i => SameAt(rs, rs2, no, j)
<1> DEFINE x == <<no, i>>
<1>1. DOMAIN rs2 = DOMAIN rs \cup {x} /\ rs2[x] = v /\ \A y \in DOMAIN rs \ {x} : rs2[y] = rs[y]
  <2> HIDE DEF x
  <2>1. rs2 = With(rs, x, v)
    BY DEF x, Records
  <2> QED  BY <2>1 DEF With
<1>2. \A j : j # i => <<no, j>> # x
  OBVIOUS
<1> HIDE DEF x
<1>3. Recorded(rs2, no, i) /\ ResultOf(rs2, no, i) = v
  BY <1>1 DEF Recorded, ResultOf, x
<1>4. ASSUME NEW j, j # i
      PROVE  SameAt(rs, rs2, no, j)
  <2> DEFINE y == <<no, j>>
  <2>1. y # x
    BY <1>2, <1>4
  <2> HIDE DEF y
  <2>2. (y \in DOMAIN rs2 <=> y \in DOMAIN rs) /\ (y \in DOMAIN rs => rs2[y] = rs[y])
    BY <1>1, <2>1
  <2> QED  BY <2>2 DEF SameAt, Recorded, ResultOf, y
<1> QED  BY <1>3, <1>4

LEMMA SameBut ==
  ASSUME NEW rs, NEW rs2, NEW no, NEW i, NEW v, Records(rs, rs2, no, i, v), NEW a, NEW b, i \notin a..b
  PROVE  SameResults(rs, rs2, no, a, b)
<1>1. \A j \in a..b : j # i
  OBVIOUS
<1>2. \A j : j # i => SameAt(rs, rs2, no, j)
  BY RecordedIs
<1> QED  BY <1>1, <1>2 DEF SameResults, SameAt

LEMMA NodeOfLeaf ==
  ASSUME ProcsInv, NEW p \in DOMAIN procs, procs[p].pc \in Evaluating, p # Shell,
         MeansInv(p, procs[p], results)
  PROVE  \A i \in Top(procs[p])[1]..Top(procs[p])[2] : ~InShell(procs[p].line, i)
<1> DEFINE r == procs[p]
           n == Top(r)
           a == r.path[1]
<1>1. a[1] \in Nat /\ a[2] \in Nat /\ n[1] \in Nat /\ n[2] \in Nat /\ a[1] <= n[1] /\ n[2] <= a[2]
  BY AtIs
<1>2. \A i \in a[1]..a[2] : ~InShell(r.line, i)
  BY DEF MeansInv, Located, Inner
<1> HIDE DEF a, n
<1>3. \A i \in n[1]..n[2] : i \in a[1]..a[2]
  BY <1>1
<1> QED  BY <1>2, <1>3 DEF n

LEMMA MeansElsewhere ==
  ASSUME ProcsInv, TreeInv, FlowInv, Means, NEW p \in DOMAIN procs, procs[p].pc \in {"eval", "wait"},
         IsLeaf(Top(procs[p])), NEW v, NEW rs2, rs2 = With(results, CommandPid(p), v),
         NEW q \in DOMAIN procs \ {p}
  PROVE  MeansInv(q, procs[q], rs2)
<1> DEFINE r == procs[p]
           s == procs[q]
           i == Top(r)[1]
<1>1. r.pc \in Evaluating /\ MeansInv(p, r, results) /\ MeansInv(q, s, results)
  BY DEF Evaluating, Means
<1>2. r.line \in Lines /\ r.path # <<>> /\ Records(results, rs2, lineNo, i, v) /\ i \in Nat /\ Top(r)[2] = i
  <2>1. CommandPid(p) = <<lineNo, i>>
    BY <1>1, AtNode
  <2>2. Records(results, rs2, lineNo, i, v)
    BY <2>1 DEF Records
  <2> QED  BY <1>1, <2>2, AtNode, AtIs DEF IsLeaf
<1>3. CASE Len(q) = 2
  <2>1. s.pc \in {"exec", "run"} \cup Ended
    BY <1>3, PidIs
  <2> QED  BY <1>3, <2>1, CommandsMeanNothing
<1>4. CASE Len(q) # 2
  <2>1. Foreign(s, i) /\ (q = Shell => s.pc \in Evaluating /\ s.pc # "return")
    BY <1>4, LeafElsewhere
  <2>2. ASSUME s.pc \in Evaluating PROVE ReadSoFar(s, rs2) /\ Fresh(s, rs2) /\ s.no = lineNo
    <3>1. s.no = lineNo
      BY <2>2, AtNode
    <3>2. i \notin s.path[1][1]..ReadTo(s) /\ i \notin Front(s)..s.path[1][2]
      BY <2>1, <2>2 DEF Foreign
    <3>3. /\ SameResults(results, rs2, s.no, s.path[1][1], ReadTo(s))
          /\ SameResults(results, rs2, s.no, Front(s), s.path[1][2])
      BY <1>2, <3>1, <3>2, SameBut
    <3>4. Fresh(s, rs2)
      BY <1>1, <2>2, <3>3 DEF MeansInv, Fresh, SameResults
    <3>5. /\ s.path[1][1] \in Nat /\ s.path[1][1] <= Top(s)[1] /\ Top(s)[1] <= Top(s)[2] /\ Top(s)[1] <= At(s)
          /\ Top(s)[2] \in Nat /\ At(s) \in Nat /\ Top(s)[1] \in Nat
      BY <2>2, AtIs
    <3>6. CASE s.pc = "return"
      <4>1. PICK e : Reads(results, s.no, s.line, s.path[1][1], Top(s)[2], e) /\ Leaves(s.line, Top(s), s.status, e)
        BY <1>1, <2>2, <3>6 DEF MeansInv, ReadSoFar
      <4>2. ReadTo(s) = Top(s)[2]
        BY <3>6 DEF ReadTo
      <4>3. s.path[1][1] <= Top(s)[2] /\ s.path[1][1] \in Int /\ Top(s)[2] \in Int
        <5> HIDE DEF s
        <5> QED  BY <3>5
      <4>4. Reads(rs2, s.no, s.line, s.path[1][1], Top(s)[2], e)
        <5> HIDE DEF s
        <5> QED  BY <3>3, <4>1, <4>2, <4>3, ReadsStay
      <4> QED  BY <3>4, <3>1, <3>6, <4>1, <4>4 DEF ReadSoFar
    <3>7. CASE s.pc # "return"
      <4>1. Entered(results, s.no, s.line, s.path[1][1], At(s))
        BY <1>1, <2>2, <3>7 DEF MeansInv, ReadSoFar
      <4>2. ReadTo(s) = At(s) - 1
        BY <3>7 DEF ReadTo
      <4>3. s.path[1][1] <= At(s) /\ s.path[1][1] \in Int /\ At(s) \in Int
        <5> HIDE DEF s
        <5> QED  BY <3>5
      <4>4. Entered(rs2, s.no, s.line, s.path[1][1], At(s))
        <5> HIDE DEF s
        <5> QED  BY <3>3, <4>1, <4>2, <4>3, EnteredStays
      <4> QED  BY <3>4, <3>1, <3>7, <4>4 DEF ReadSoFar
    <3> QED  BY <3>6, <3>7
  <2>3. ASSUME Len(q) = 3, s.pc \in Ended
        PROVE  /\ s.pc = "exited"
               /\ \E e : /\ Reads(rs2, s.no, s.line, s.path[1][1], s.path[1][2], e)
                         /\ LeftByCopy(s.line, s.path[1], s.status, e)
    <3>1. PICK e : /\ s.pc = "exited"
                   /\ Reads(results, s.no, s.line, s.path[1][1], s.path[1][2], e)
                   /\ LeftByCopy(s.line, s.path[1], s.status, e)
      BY <1>1, <2>3 DEF MeansInv
    <3>2. q # Shell
      BY <2>3 DEF Shell
    <3>3. s.path # <<>> /\ s.no = lineNo
      BY <3>2, PidIs, ProcIs DEF PlaceInv
    <3>4. s.path[1] \in NodesOf(s.line)
      BY <3>3, ProcIs, TopIs
    <3>5. s.path[1][1] \in Int /\ s.path[1][2] \in Int /\ s.path[1][1] <= s.path[1][2]
      BY <3>4, NodeIs
    <3>6. SameResults(results, rs2, s.no, s.path[1][1], s.path[1][2])
      BY <1>2, <2>1, <2>3, <3>3, SameBut DEF Foreign
    <3>7. Reads(rs2, s.no, s.line, s.path[1][1], s.path[1][2], e)
      <4> HIDE DEF s
      <4> QED  BY <3>1, <3>5, <3>6, ReadsStay
    <3> QED  BY <3>1, <3>7
  <2>4. ASSUME q = Shell PROVE s.pc \in Evaluating /\ AsLeft(s, rs2)
    <3>1. s.pc \in Evaluating /\ s.no = lineNo /\ s.path # <<>>
      BY <2>1, <2>4, AtNode
    <3>2. s.line = r.line
      BY <1>2, <3>1 DEF FlowInv, OneLine
    <3>3. ~InShell(s.line, i)
      <4>1. \A j \in Top(r)[1]..Top(r)[2] : ~InShell(r.line, j)
        BY <1>1, <2>4, NodeOfLeaf
      <4>2. i \in Top(r)[1]..Top(r)[2]
        <5>1. Top(r)[1] = i /\ Top(r)[2] = i
          BY <1>2
        <5> HIDE DEF i, r
        <5> QED  BY <1>2, <5>1
      <4> QED  BY <3>2, <4>1, <4>2
    <3>4. \A verb : LastOf(rs2, s.no, s.line, verb) = LastOf(results, s.no, s.line, verb)
      <4>1. \A j : InShell(s.line, j) => SameAt(results, rs2, s.no, j)
        BY <1>2, <3>1, <3>3, RecordedIs
      <4> QED  BY <4>1 DEF LastOf, SameAt
    <3>5. AsLeft(s, results)
      BY <1>1, <2>4, <3>1 DEF MeansInv
    <3> QED  BY <3>1, <3>4, <3>5 DEF AsLeft, FinalOf
  <2>5. s.pc \in Evaluating => Located(q, s)
    BY <1>1 DEF MeansInv
  <2>6. ~(q = Shell /\ s.pc \in {"free", "prompt"})
    BY <2>4 DEF Evaluating
  <2> HIDE DEF s
  <2> QED  BY <2>2, <2>3, <2>4, <2>5, <2>6 DEF MeansInv, s
<1> QED  BY <1>3, <1>4

LEMMA MeansRecorded ==
  ASSUME ProcsInv, TreeInv, FlowInv, Means, NEW p \in DOMAIN procs, procs[p].pc \in {"eval", "wait"},
         IsLeaf(Top(procs[p])), NEW v, results' = With(results, CommandPid(p), v),
         NEW r, DOMAIN procs' \subseteq DOMAIN procs,
         \A q \in DOMAIN procs' : procs'[q] = IF q = p THEN r ELSE procs[q],
         MeansInv(p, r, results')
  PROVE  Means'
<1>1. ASSUME NEW q \in DOMAIN procs' PROVE MeansInv(q, procs'[q], results')
  <2>1. CASE q = p
    BY <2>1
  <2>2. CASE q # p
    <3>1. procs'[q] = procs[q] /\ q \in DOMAIN procs \ {p}
      BY <2>2
    <3> QED  BY <3>1, MeansElsewhere
  <2> QED  BY <2>1, <2>2
<1> QED  BY <1>1 DEF Means

-----------------------------------------------------------------------------
(* A leaf that the shell itself ran is the last one of its kind.           *)
IsNewest(rs, no, l, i, verb) ==
  l.cmds[i].verb = verb => \A j \in i..Len(l.cmds) : ~Recorded(rs, no, j)
Latest(l, i, verb, v, before) ==
  IF l.cmds[i].verb = verb /\ v = 0 THEN l.cmds[i].arg ELSE before

LEMMA FinalAfter ==
  ASSUME NEW l, Len(l.cmds) \in Nat, NEW i \in 1..Len(l.cmds), InShell(l, i), NEW no, NEW rs, NEW rs2,
         NEW v, Records(rs, rs2, no, i, v), NEW verb, IsNewest(rs, no, l, i, verb), NEW was
  PROVE  FinalOf(rs2, no, l, verb, was) = Latest(l, i, verb, v, FinalOf(rs, no, l, verb, was))
<1> DEFINE N == Len(l.cmds)
<1>1. Recorded(rs2, no, i) /\ ResultOf(rs2, no, i) = v /\ \A j : j # i => SameAt(rs, rs2, no, j)
  BY RecordedIs
<1>2. rs2[<<no, i>>] = v
  BY <1>1 DEF Recorded, ResultOf
<1>3. \A j : j # i => (j \in LastOf(rs2, no, l, verb) <=> j \in LastOf(rs, no, l, verb))
  BY <1>1 DEF LastOf, SameAt
<1>4. i \in LastOf(rs2, no, l, verb) <=> l.cmds[i].verb = verb /\ v = 0
  BY <1>1, <1>2 DEF LastOf
<1>5. CASE l.cmds[i].verb = verb /\ v = 0
  <2>1. \A j \in i..N : j \notin LastOf(rs, no, l, verb)
    BY <1>5 DEF LastOf, IsNewest
  <2>2. LastOf(rs2, no, l, verb) \subseteq 1..N /\ LastOf(rs, no, l, verb) \subseteq 1..N
    BY DEF LastOf
  <2> DEFINE is == LastOf(rs2, no, l, verb)
  <2>3. i \in is
    BY <1>4, <1>5
  <2>4. \A j \in is : j <= i
    <3>1. \A j \in is : j = i \/ j \in LastOf(rs, no, l, verb)
      BY <1>3
    <3>2. \A j \in is : j \in 1..N
      BY <2>2
    <3> HIDE DEF is, N
    <3>3. N \in Nat /\ i \in 1..N
      BY DEF N
    <3> QED  BY <2>1, <3>1, <3>2, <3>3
  <2>5. is \subseteq Int
    BY <2>2
  <2> DEFINE greatest == CHOOSE k \in is : \A j \in is : j <= k
  <2> HIDE DEF is
  <2>6. greatest = i
    <3>1. \A k \in is : (\A j \in is : j <= k) => k = i
      BY <2>3, <2>4, <2>5
    <3> QED  BY <2>3, <2>4, <3>1
  <2> HIDE DEF greatest
  <2>7. FinalOf(rs2, no, l, verb, was) =
          IF is = {} THEN was
          ELSE l.cmds[greatest].arg
    BY DEF FinalOf, is, greatest
  <2>8. is # {}
    BY <2>3
  <2> QED  BY <1>5, <2>6, <2>7, <2>8 DEF Latest
<1>6. CASE ~(l.cmds[i].verb = verb /\ v = 0)
  <2>1. i \notin LastOf(rs, no, l, verb)
    <3>1. CASE l.cmds[i].verb # verb
      BY <3>1 DEF LastOf
    <3>2. CASE l.cmds[i].verb = verb
      <4>1. i \in i..N
        OBVIOUS
      <4> QED  BY <3>2, <4>1 DEF LastOf, IsNewest
    <3> QED  BY <3>1, <3>2
  <2>2. LastOf(rs2, no, l, verb) = LastOf(rs, no, l, verb)
    <3>1. \A j : j \in LastOf(rs2, no, l, verb) <=> j \in LastOf(rs, no, l, verb)
      BY <1>3, <1>4, <1>6, <2>1
    <3>2. \A S, T : (\A j : j \in S <=> j \in T) => S = T
      OBVIOUS
    <3> QED  BY <3>1, <3>2
  <2> QED  BY <1>6, <2>2 DEF FinalOf, Latest
<1> QED  BY <1>5, <1>6

(* What a leaf that was just recorded lets its process read.               *)
LEMMA LeafIsRead ==
  ASSUME ProcsInv, NEW p \in DOMAIN procs, procs[p].pc \in {"eval", "wait"}, IsLeaf(Top(procs[p])),
         NEW rs, NEW rs2, NEW v, Records(rs, rs2, procs[p].no, Top(procs[p])[1], v),
         MeansInv(p, procs[p], rs)
  PROVE  LET r == procs[p]
             i == Top(r)[1] IN
         /\ Reads(rs2, r.no, r.line, r.path[1][1], i, Reached(rs2, r.no, r.line, i))
         /\ \A j \in (i + 1)..r.path[1][2] : ~Recorded(rs2, r.no, j)
         /\ r.pc = "eval" => \A j \in i..r.path[1][2] : ~Recorded(rs, r.no, j)
         /\ ResultOf(rs2, r.no, i) = v
<1> DEFINE r == procs[p]
           i == Top(r)[1]
           a == r.path[1][1]
           b == r.path[1][2]
<1>1. r.pc \in Evaluating /\ r.pc # "return" /\ r.pc # "wait2"
  BY DEF Evaluating
<1>2. a \in Nat /\ b \in Nat /\ i \in Nat /\ a <= i /\ i <= b /\ Top(r)[2] = i
  <2>1. /\ a \in Nat /\ b \in Nat /\ Top(r)[1] \in Nat /\ a <= Top(r)[1] /\ Top(r)[1] <= Top(r)[2]
        /\ Top(r)[2] <= b /\ Top(r)[2] \in Nat
    BY <1>1, AtIs
  <2>2. Top(r)[2] = Top(r)[1]
    BY DEF IsLeaf
  <2> HIDE DEF r, a, b
  <2> QED  BY <2>1, <2>2
<1>3. Entered(rs, r.no, r.line, a, i) /\ Fresh(r, rs)
  BY <1>1 DEF MeansInv, ReadSoFar, At
<1>4. Front(r) = (IF r.pc = "eval" THEN i ELSE i + 1)
  BY <1>2 DEF Front
<1>5. /\ Recorded(rs2, r.no, i) /\ ResultOf(rs2, r.no, i) = v
      /\ \A j : j # i => SameAt(rs, rs2, r.no, j)
  BY RecordedIs
<1>6. \A j \in (i + 1)..b : ~Recorded(rs, r.no, j)
  <2>1. \A j \in Front(r)..b : ~Recorded(rs, r.no, j)
    BY <1>3 DEF Fresh
  <2> HIDE DEF i, b, r
  <2>2. \A j \in (i + 1)..b : j \in Front(r)..b
    BY <1>2, <1>4
  <2> QED  BY <2>1, <2>2
<1>7. \A j \in (i + 1)..b : ~Recorded(rs2, r.no, j)
  <2>1. \A j \in (i + 1)..b : j # i
    <3> HIDE DEF i, b
    <3> QED  BY <1>2
  <2> QED  BY <1>5, <1>6, <2>1 DEF SameAt
<1>8. r.pc = "eval" => \A j \in i..b : ~Recorded(rs, r.no, j)
  BY <1>3, <1>4 DEF Fresh
<1>9. Reads(rs2, r.no, r.line, a, i, Reached(rs2, r.no, r.line, i))
  <2>1. SameResults(rs, rs2, r.no, a, i - 1)
    <3>1. i \notin a..(i - 1)
      <4> HIDE DEF i, a
      <4> QED  BY <1>2
    <3> HIDE DEF i, a, r
    <3> QED  BY <3>1, SameBut DEF i, r
  <2> HIDE DEF i, a, r
  <2>2. Entered(rs2, r.no, r.line, a, i)
    BY <1>2, <1>3, <2>1, EnteredStays
  <2>3. Reads(rs2, r.no, r.line, i, i, Reached(rs2, r.no, r.line, i))
    BY <1>2, <1>5, ReadsOne
  <2>4. i \in Int /\ a \in Int /\ i <= i
    BY <1>2
  <2> DEFINE f == Reached(rs2, r.no, r.line, i)
  <2>5. Reads(rs2, r.no, r.line, i, i, f)
    BY <2>3
  <2> HIDE DEF f
  <2>6. Reads(rs2, r.no, r.line, a, i, f)
    BY <1>2, <2>2, <2>4, <2>5, EnteredReads
  <2> QED  BY <2>6 DEF f
<1> QED  BY <1>5, <1>7, <1>8, <1>9

(* A leaf that returns,                                                    *)
LEMMA LeafReturns ==
  ASSUME ProcsInv, NEW p \in DOMAIN procs, procs[p].pc \in {"eval", "wait"}, IsLeaf(Top(procs[p])),
         NEW rs, NEW rs2, NEW v, Records(rs, rs2, procs[p].no, Top(procs[p])[1], v),
         MeansInv(p, procs[p], rs), procs[p].line.cmds[Top(procs[p])[1]].verb # "exit",
         NEW r2, SameNode(procs[p], r2), r2.pc = "return", r2.status = v, r2.was = procs[p].was,
         r2.cwd = IF Command(p).verb = "cd" /\ v = 0 THEN Command(p).arg ELSE procs[p].cwd,
         r2.env = IF Command(p).verb = "assign" /\ v = 0 THEN Command(p).arg ELSE procs[p].env
  PROVE  MeansInv(p, r2, rs2)
<1> DEFINE r == procs[p]
           i == Top(r)[1]
<1>1. r.pc \in Evaluating /\ r2.pc \in Evaluating /\ r2.pc \notin {"free", "prompt"} /\ r2.pc \notin Ended
  BY DEF Evaluating, Ended
<1>2. /\ Reads(rs2, r.no, r.line, r.path[1][1], i, Reached(rs2, r.no, r.line, i))
      /\ \A j \in (i + 1)..r.path[1][2] : ~Recorded(rs2, r.no, j)
      /\ r.pc = "eval" => \A j \in i..r.path[1][2] : ~Recorded(rs, r.no, j)
      /\ ResultOf(rs2, r.no, i) = v
  BY LeafIsRead
<1>3. /\ r.line \in Lines /\ r.path # <<>> /\ Top(r) \in NodesOf(r.line) /\ StackInv(r)
      /\ Command(p) = r.line.cmds[i] /\ i \in Nat /\ Top(r)[2] = i
  <2>1. Node(p) = Top(r) /\ Top(r) \in NodesOf(r.line)
    BY <1>1, AtNode
  <2>2. Top(r)[1] \in Nat
    BY <2>1, NodeIs
  <2> QED  BY <1>1, <2>1, <2>2, AtNode, ProcIs DEF Command, IsLeaf
<1>4. /\ r2.path = r.path /\ r2.line = r.line /\ r2.no = r.no /\ Top(r2) = Top(r)
  BY DEF SameNode, Top
<1>5. Located(p, r)
  BY <1>1 DEF MeansInv
<1>6. Located(p, r2)
  BY <1>4, <1>5 DEF Located
<1>7. ReadSoFar(r2, rs2)
  <2> DEFINE f == Reached(rs2, r.no, r.line, i)
  <2>1. Leaves(r.line, Top(r), v, f)
    <3>1. Leaves(r.line, Top(r), ResultOf(rs2, r.no, i), f)
      BY LeavesLeaf
    <3> QED  BY <1>2, <3>1
  <2>2. Reads(rs2, r.no, r.line, r.path[1][1], i, f)
    BY <1>2
  <2>3. r2.path[1][1] = r.path[1][1] /\ Top(r2)[2] = i
    BY <1>3, <1>4
  <2> HIDE DEF f, i, r
  <2> QED  BY <1>4, <2>1, <2>2, <2>3 DEF ReadSoFar
<1>8. Fresh(r2, rs2)
  <2>1. Front(r2) = i + 1
    BY <1>3, <1>4 DEF Front
  <2> HIDE DEF i
  <2> QED  BY <1>2, <1>4, <2>1 DEF Fresh
<1>9. ASSUME p = Shell PROVE AsLeft(r2, rs2)
  <2>1. r.path[1] = Root(r.line) /\ Outer(r.line, Top(r))
    <3>1. Len(r.path) \in 1..Len(r.path)
      BY <1>3, TopIs
    <3> QED  BY <1>5, <1>9, <3>1 DEF Located, Top
  <2>2. InShell(r.line, i)
    BY <1>3, <2>1, OuterLeaf
  <2>3. r.path[1][2] = Len(r.line.cmds) /\ Len(r.line.cmds) \in Nat /\ i \in 1..Len(r.line.cmds)
    <3>1. Len(r.line.cmds) \in Nat /\ 1 <= Top(r)[1] /\ Top(r)[1] <= Top(r)[2] /\ Top(r)[2] <= Len(r.line.cmds)
      BY <1>3, LineIs, NodeIs
    <3>2. i \in Nat /\ 1 <= i /\ i <= Len(r.line.cmds)
      <4>1. Top(r)[1] = i /\ Top(r)[2] = i
        BY <1>3
      <4> HIDE DEF i, r
      <4> QED  BY <1>3, <3>1, <4>1
    <3>3. r.path[1][2] = Len(r.line.cmds)
      BY <2>1 DEF Root
    <3> HIDE DEF i, r
    <3> QED  BY <3>1, <3>2, <3>3
  <2>4. r.pc = "wait" => r.line.cmds[i].verb = "external"
    BY <1>5 DEF Located
  <2>5. ASSUME NEW verb \in {"cd", "assign"}, NEW was
        PROVE  FinalOf(rs2, r.no, r.line, verb, was) =
                 Latest(r.line, i, verb, v, FinalOf(rs, r.no, r.line, verb, was))
    <3>1. IsNewest(rs, r.no, r.line, i, verb)
      <4>1. r.line.cmds[i].verb = verb => r.pc = "eval"
        BY <2>4
      <4> QED  BY <1>2, <2>3, <4>1 DEF IsNewest
    <3>2. Records(rs, rs2, r.no, i, v)
      OBVIOUS
    <3> HIDE DEF i, r
    <3> QED  BY <2>2, <2>3, <3>1, <3>2, FinalAfter
  <2>6. AsLeft(r, rs)
    BY <1>1, <1>9 DEF MeansInv
  <2> QED  BY <1>3, <1>4, <2>5, <2>6 DEF AsLeft, Latest
<1>10. p = Shell => Len(p) # 3
  BY DEF Shell
<1> QED  BY <1>1, <1>6, <1>7, <1>8, <1>9, <1>10 DEF MeansInv

(* ... and one with which a copy exits.                                    *)
LEMMA LeafExits ==
  ASSUME ProcsInv, FlowInv, NEW p \in DOMAIN procs, procs[p].pc = "eval", IsLeaf(Top(procs[p])),
         NEW rs, NEW rs2, Records(rs, rs2, procs[p].no, Top(procs[p])[1], 0),
         MeansInv(p, procs[p], rs), procs[p].line.cmds[Top(procs[p])[1]].verb = "exit",
         NEW r2, SameNode(procs[p], r2), r2.pc = "exited", r2.status = 0
  PROVE  MeansInv(p, r2, rs2)
<1> DEFINE r == procs[p]
           i == Top(r)[1]
           a == r.path[1]
           f == Reached(rs2, r.no, r.line, i)
<1>1. r.pc \in Evaluating /\ r2.pc \notin Evaluating /\ r2.pc \notin {"free", "prompt"} /\ r2.pc \in Ended
  BY DEF Evaluating, Ended
<1>2. p = Shell => Len(p) # 3
  BY DEF Shell
<1>3. ASSUME p # Shell
      PROVE  \E e : Reads(rs2, r.no, r.line, a[1], a[2], e) /\ LeftByCopy(r.line, a, 0, e)
  <2>1. /\ Reads(rs2, r.no, r.line, a[1], i, f)
        /\ \A j \in (i + 1)..a[2] : ~Recorded(rs2, r.no, j)
        /\ ResultOf(rs2, r.no, i) = 0
    BY LeafIsRead
  <2>2. /\ r.line \in Lines /\ r.path # <<>> /\ Top(r) \in NodesOf(r.line) /\ StackInv(r)
    BY <1>1, AtNode, ProcIs
  <2>3. Located(p, r)
    BY <1>1 DEF MeansInv
  <2>4. a[1] \in Nat /\ a[2] \in Nat /\ i \in Nat /\ a[1] <= i /\ i <= a[2] /\ Top(r)[2] = i /\ 1 <= i
        /\ a \in NodesOf(r.line)
    <3>1. /\ a[1] \in Nat /\ a[2] \in Nat /\ Top(r)[1] \in Nat /\ a[1] <= Top(r)[1] /\ Top(r)[1] <= Top(r)[2]
          /\ Top(r)[2] <= a[2] /\ Top(r)[2] \in Nat /\ 1 <= a[1] /\ a \in NodesOf(r.line)
      BY <1>1, AtIs
    <3>2. Top(r)[2] = Top(r)[1]
      BY DEF IsLeaf
    <3> HIDE DEF r, a
    <3> QED  BY <3>1, <3>2
  <2>5. ~InShell(r.line, i)
    <3>1. \A j \in a[1]..a[2] : ~InShell(r.line, j)
      BY <1>3, <2>3 DEF Located, Inner
    <3>2. i \in a[1]..a[2]
      <4> HIDE DEF i, a
      <4> QED  BY <2>4
    <3> QED  BY <3>1, <3>2
  <2>6. /\ f.runs /\ ~f.over /\ f.ended = ~InPipe(r.line, i) /\ f.status = 0
    <3>1. Quits(r.line, i) <=> ~InPipe(r.line, i)
      BY DEF Quits
    <3>2. 0 % 256 = 0
      OBVIOUS
    <3> HIDE DEF i, r
    <3>3. f.runs /\ f.over = (Quits(r.line, i) /\ InShell(r.line, i)) /\ f.ended = Quits(r.line, i)
      BY DEF Reached
    <3>4. f.status = 0
      BY <2>1, <3>2 DEF Reached
    <3>5. f.ended = ~InPipe(r.line, i)
      <4>1. Quits(r.line, i) = ~InPipe(r.line, i)
        BY <3>1 DEF Quits, InPipe
      <4> QED  BY <3>3, <4>1
    <3> QED  BY <2>5, <3>3, <3>4, <3>5
  <2>7. Len(r.path) = 1 \/ Len(r.path) > 1
    <3> DEFINE depth == Len(r.path)
    <3>1. depth \in Nat \ {0}
      BY <2>2, TopIs
    <3> HIDE DEF depth
    <3>2. depth = 1 \/ depth > 1
      BY <3>1
    <3> QED  BY <3>2 DEF depth
  <2>8. CASE Len(r.path) = 1
    <3>1. a = Top(r)
      BY <2>8 DEF Top
    <3>2. a[1] = i /\ a[2] = i
      BY <2>4, <3>1
    <3>3. LeftByCopy(r.line, a, 0, f)
      <4>1. InPipe(r.line, a[1]) => ~f.ended
        BY <2>6, <3>2
      <4> HIDE DEF f, a, r
      <4> QED  BY <2>6, <4>1 DEF LeftByCopy
    <3>4. Reads(rs2, r.no, r.line, a[1], a[2], f)
      BY <2>1, <3>2
    <3> HIDE DEF f, a, r
    <3> QED  BY <3>3, <3>4
  <2>9. CASE Len(r.path) > 1
    <3>1. Chain(r.line, a)
      BY <1>3, <2>3, <2>9 DEF Located
    <3>2. ~AllPiped(r.line, a)
      <4>1. 1 \in 1..(Len(r.path) - 1)
        <5>1. Len(r.path) \in Nat
          BY <2>2, TopIs
        <5> HIDE DEF r
        <5> QED  BY <2>9, <5>1
      <4>2. Op(r.line, a) \in Sequential
        BY <2>3, <4>1 DEF Located
      <4>3. ~IsLeaf(a)
        BY <4>2, NotALeaf DEF Sequential, None
      <4> QED  BY <2>2, <2>4, <4>2, <4>3, ChainIs
    <3>3. ~InPipe(r.line, i)
      <4>1. WiringInv(p, r)
        BY DEF FlowInv, WiringsInv
      <4>2. Bordered(r.line, Top(r))
        BY <2>2, <2>9, <4>1, TopIsPlaced DEF WiringInv
      <4>3. Top(r) = <<i, i>>
        <5>1. Top(r) = <<Top(r)[1], Top(r)[2]>>
          BY <2>2, NodeIs
        <5> QED  BY <2>4, <5>1
      <4>4. i <= Len(r.line.cmds)
        BY <2>2, <2>4, NodeIs
      <4> HIDE DEF i
      <4> QED  BY <2>2, <2>4, <4>2, <4>3, <4>4, PipedIs
    <3>4. f.ended = TRUE
      BY <2>6, <3>3
    <3>5. ASSUME NEW e, ~e.over PROVE LeftByCopy(r.line, a, 0, e)
      BY <3>2, <3>5 DEF LeftByCopy
    <3>6. CASE i = a[2]
      <4> HIDE DEF f, a, r
      <4> QED  BY <2>1, <2>6, <3>5, <3>6
    <3>7. CASE i # a[2]
      <4> HIDE DEF f, a, r, i
      <4>1. i < a[2] /\ i + 1 \in Nat /\ a[1] < i + 1 /\ i + 1 <= a[2] /\ (i + 1) - 1 = i
        BY <2>4, <3>7
      <4>2. f.ended \in BOOLEAN
        BY <3>4
      <4>3. Passes(rs2, r.no, r.line, i + 1, a[2], f)
        BY <2>1, <2>4, <2>6, <3>1, <3>4, <4>1, <4>2, PassesChain
      <4>4. Reads(rs2, r.no, r.line, a[1], (i + 1) - 1, f)
        BY <2>1, <4>1
      <4>5. Reads(rs2, r.no, r.line, a[1], a[2], Pass(f))
        BY <2>4, <4>1, <4>3, <4>4, ReadsPast
      <4>6. ~Pass(f).over
        BY <4>2, PassIs
      <4> QED  BY <3>5, <4>5, <4>6
    <3> QED  BY <3>6, <3>7
  <2> QED  BY <2>7, <2>8, <2>9
<1>4. r2.path = r.path /\ r2.line = r.line /\ r2.no = r.no
  BY DEF SameNode
<1> HIDE DEF r, a
<1>5. Len(p) = 3 => \E e : Reads(rs2, r2.no, r2.line, r2.path[1][1], r2.path[1][2], e)
                           /\ LeftByCopy(r2.line, r2.path[1], r2.status, e)
  BY <1>2, <1>3, <1>4 DEF a
<1> QED  BY <1>1, <1>5 DEF MeansInv

LEMMA LeafIsRecorded ==
  ASSUME ProcsInv, NEW p \in DOMAIN procs, procs[p].pc \in {"eval", "wait"},
         NEW v, NEW rs2, rs2 = With(results, CommandPid(p), v)
  PROVE  /\ Records(results, rs2, procs[p].no, Top(procs[p])[1], v)
         /\ Command(p) = procs[p].line.cmds[Top(procs[p])[1]] /\ Node(p) = Top(procs[p])
<1>1. procs[p].pc \in Evaluating
  BY DEF Evaluating
<1>2. CommandPid(p) = <<procs[p].no, Top(procs[p])[1]>> /\ Node(p) = Top(procs[p])
  BY <1>1, AtNode
<1> QED  BY <1>2 DEF Records, Command

LEMMA LeafMeans ==
  ASSUME ProcsInv, TreeInv, FlowInv, Means, NEW p \in DOMAIN procs, procs[p].pc \in {"eval", "wait"},
         IsLeaf(Node(p)), Command(p).verb # "exit", NEW v, Record(p, v),
         NEW r2, DOMAIN procs' \subseteq DOMAIN procs,
         \A q \in DOMAIN procs' : procs'[q] = IF q = p THEN r2 ELSE procs[q],
         SameNode(procs[p], r2), r2.pc = "return", r2.status = v, r2.was = procs[p].was,
         r2.cwd = IF Command(p).verb = "cd" /\ v = 0 THEN Command(p).arg ELSE procs[p].cwd,
         r2.env = IF Command(p).verb = "assign" /\ v = 0 THEN Command(p).arg ELSE procs[p].env
  PROVE  Means'
<1>1. results' = With(results, CommandPid(p), v)
  BY DEF Record
<1>2. /\ Records(results, results', procs[p].no, Top(procs[p])[1], v)
      /\ Command(p) = procs[p].line.cmds[Top(procs[p])[1]] /\ Node(p) = Top(procs[p])
  BY <1>1, LeafIsRecorded
<1>3. MeansInv(p, procs[p], results)
  BY DEF Means
<1>4. MeansInv(p, r2, results')
  BY <1>2, <1>3, LeafReturns
<1> QED  BY <1>1, <1>2, <1>4, MeansRecorded

LEMMA BuiltinMeans ==
  ASSUME ProcsInv, TreeInv, FlowInv, Means, NEW p \in DOMAIN procs, Builtin(p)
  PROVE  Means'
<1> DEFINE r == procs[p]
           c == Command(p)
<1>1. r.pc = "eval" /\ r.pc \in {"eval", "wait"} /\ IsLeaf(Node(p)) /\ r.pc \in Evaluating
  BY DEF Builtin, Evaluating
<1>2. DOMAIN r = Fields /\ r.left \in Int
  BY ProcIs DEF PlaceInv
<1>3. ASSUME NEW r2, Becomes(p, r2)
      PROVE  /\ DOMAIN procs' \subseteq DOMAIN procs
             /\ \A q \in DOMAIN procs' : procs'[q] = IF q = p THEN r2 ELSE procs[q]
  BY <1>3 DEF Becomes
<1>4. CASE ShellCd(p)
  <2> DEFINE v == IF c.ok THEN 0 ELSE Failure
             r2 == Returns([r EXCEPT !.cwd = IF c.ok THEN c.arg ELSE @], v)
  <2>1. c.verb = "cd" /\ Becomes(p, r2) /\ Record(p, v)
    BY <1>4 DEF ShellCd
  <2>2. /\ SameNode(r, r2) /\ r2.pc = "return" /\ r2.status = v /\ r2.was = r.was
        /\ r2.cwd = (IF c.ok THEN c.arg ELSE r.cwd) /\ r2.env = r.env
    BY <1>2 DEF SameNode, Returns, Fields
  <2>3. v = 0 <=> c.ok
    BY DEF Failure
  <2> HIDE DEF v, r2, c
  <2>4. c.verb # "exit" /\ c.verb # "assign"
    BY <2>1
  <2>5. /\ r2.cwd = (IF c.verb = "cd" /\ v = 0 THEN c.arg ELSE r.cwd)
        /\ r2.env = (IF c.verb = "assign" /\ v = 0 THEN c.arg ELSE r.env)
    BY <2>1, <2>2, <2>3, <2>4
  <2> QED  BY <1>1, <1>3, <2>1, <2>2, <2>4, <2>5, LeafMeans DEF c
<1>5. CASE ShellPwd(p)
  <2>1. PICK v : c.verb = "pwd" /\ Becomes(p, Returns(r, v)) /\ Record(p, v)
    BY <1>5 DEF ShellPwd
  <2> DEFINE r2 == Returns(r, v)
  <2>2. /\ SameNode(r, r2) /\ r2.pc = "return" /\ r2.status = v /\ r2.was = r.was
        /\ r2.cwd = r.cwd /\ r2.env = r.env
    BY <1>2 DEF SameNode, Returns, Fields
  <2>3. Becomes(p, r2) /\ Record(p, v)
    BY <2>1
  <2> HIDE DEF r2, c
  <2>4. c.verb # "exit" /\ c.verb # "assign" /\ c.verb # "cd"
    BY <2>1
  <2>5. /\ r2.cwd = (IF c.verb = "cd" /\ v = 0 THEN c.arg ELSE r.cwd)
        /\ r2.env = (IF c.verb = "assign" /\ v = 0 THEN c.arg ELSE r.env)
    BY <2>2, <2>4
  <2> QED  BY <1>1, <1>3, <2>2, <2>3, <2>4, <2>5, LeafMeans DEF c
<1>6. CASE SetVariable(p)
  <2> DEFINE v == IF c.arg = None THEN Failure ELSE IF c.ok THEN 0 ELSE -1
             r2 == Returns([r EXCEPT !.env = IF v = 0 THEN c.arg ELSE @], v)
  <2>1. c.verb = "assign" /\ Becomes(p, r2) /\ Record(p, v)
    BY <1>6 DEF SetVariable
  <2> HIDE DEF v
  <2>2. /\ SameNode(r, r2) /\ r2.pc = "return" /\ r2.status = v /\ r2.was = r.was
        /\ r2.env = (IF v = 0 THEN c.arg ELSE r.env) /\ r2.cwd = r.cwd
    BY <1>2 DEF SameNode, Returns, Fields
  <2> HIDE DEF r2, c
  <2>4. c.verb # "exit" /\ c.verb # "cd"
    BY <2>1
  <2>5. /\ r2.cwd = (IF c.verb = "cd" /\ v = 0 THEN c.arg ELSE r.cwd)
        /\ r2.env = (IF c.verb = "assign" /\ v = 0 THEN c.arg ELSE r.env)
    BY <2>1, <2>2, <2>4
  <2> QED  BY <1>1, <1>3, <2>1, <2>2, <2>4, <2>5, LeafMeans DEF c
<1>7. CASE ShellExit(p)
  <2> DEFINE r2 == Exits(r, 0)
  <2>1. c.verb = "exit" /\ Becomes(p, r2) /\ results' = With(results, CommandPid(p), 0)
    BY <1>7 DEF ShellExit, Record
  <2>2. SameNode(r, r2) /\ r2.pc = "exited" /\ r2.status = 0
    <3>1. 0 % 256 = 0
      OBVIOUS
    <3> QED  BY <1>2, <3>1 DEF SameNode, Exits, Fields
  <2>3. MeansInv(p, r, results)
    BY DEF Means
  <2> HIDE DEF r2
  <2>4. /\ Records(results, results', r.no, Top(r)[1], 0)
        /\ c = r.line.cmds[Top(r)[1]] /\ Node(p) = Top(r)
    BY <1>1, <2>1, LeafIsRecorded
  <2>5. MeansInv(p, r2, results')
    BY <1>1, <2>1, <2>2, <2>3, <2>4, LeafExits
  <2> QED  BY <1>1, <1>3, <2>1, <2>4, <2>5, MeansRecorded
<1> QED  BY <1>4, <1>5, <1>6, <1>7 DEF Builtin

LEMMA WaitCommandMeans ==
  ASSUME ProcsInv, TreeInv, FlowInv, Means, NEW p \in DOMAIN procs, WaitCommand(p)
  PROVE  Means'
<1> DEFINE r == procs[p]
           v == procs[CommandPid(p)].status
           r2 == Returns(r, v)
<1>1. /\ r.pc = "wait" /\ r.pc \in {"eval", "wait"} /\ r.pc \in Evaluating
      /\ Wait(p, CommandPid(p), r2) /\ Record(p, v)
  BY DEF WaitCommand, Evaluating
<1>2. DOMAIN r = Fields /\ r.left \in Int /\ IsLeaf(Top(r)) /\ Node(p) = Top(r)
  BY <1>1, AtNode, ProcIs DEF PlaceInv
<1>3. /\ SameNode(r, r2) /\ r2.pc = "return" /\ r2.status = v /\ r2.was = r.was
      /\ r2.cwd = r.cwd /\ r2.env = r.env
  BY <1>2 DEF SameNode, Returns, Fields
<1> HIDE DEF r2, v
<1>4. Command(p).verb = "external"
  BY <1>1, <1>2 DEF Means, MeansInv, Located, Command
<1>5. Command(p).verb # "exit" /\ Command(p).verb # "cd" /\ Command(p).verb # "assign"
  BY <1>4
<1>6. /\ DOMAIN procs' \subseteq DOMAIN procs
      /\ \A q \in DOMAIN procs' : procs'[q] = IF q = p THEN r2 ELSE procs[q]
  BY <1>1 DEF Wait
<1>7. /\ r2.cwd = (IF Command(p).verb = "cd" /\ v = 0 THEN Command(p).arg ELSE r.cwd)
      /\ r2.env = (IF Command(p).verb = "assign" /\ v = 0 THEN Command(p).arg ELSE r.env)
  BY <1>3, <1>5
<1> QED  BY <1>1, <1>2, <1>3, <1>5, <1>6, <1>7, LeafMeans

-----------------------------------------------------------------------------
(* A process that goes on, in its part of the line.                        *)
Unmoved(r, r2) ==
  /\ r2.line = r.line /\ r2.no = r.no /\ r2.path[1] = r.path[1]
  /\ r2.cwd = r.cwd /\ r2.env = r.env /\ r2.was = r.was

LEMMA GoesOn ==
  ASSUME ProcsInv, NEW p \in DOMAIN procs, procs[p].pc \in Evaluating, NEW rs, MeansInv(p, procs[p], rs),
         NEW r2, Unmoved(procs[p], r2), r2.pc \in Evaluating, Located(p, r2), ReadSoFar(r2, rs),
         Front(r2) \in Nat, Front(procs[p]) <= Front(r2)
  PROVE  MeansInv(p, r2, rs)
<1> DEFINE r == procs[p]
           b == r.path[1][2]
<1>1. Front(r) \in Nat /\ b \in Nat
  BY FrontIs, AtIs
<1>2. Fresh(r2, rs)
  <2>1. \A i \in Front(r)..b : ~Recorded(rs, r.no, i)
    BY DEF MeansInv, Fresh
  <2>2. r2.path[1][2] = b /\ r2.no = r.no
    BY DEF Unmoved
  <2> HIDE DEF b, r
  <2>3. \A i \in Front(r2)..b : i \in Front(r)..b
    <3>1. Front(r) <= Front(r2)
      BY DEF r
    <3> QED  BY <1>1, <3>1
  <2> QED  BY <2>1, <2>2, <2>3 DEF Fresh
<1>3. p = Shell => AsLeft(r2, rs)
  BY DEF MeansInv, AsLeft, Unmoved
<1>4. r2.pc \notin Ended \cup {"free", "prompt"}
  BY DEF Evaluating, Ended
<1> QED  BY <1>2, <1>3, <1>4 DEF MeansInv

LEMMA StaysMeans ==
  ASSUME ProcsInv, NEW p \in DOMAIN procs, procs[p].pc \in Evaluating \ {"return", "wait2"}, NEW rs,
         MeansInv(p, procs[p], rs), NEW r2, Unmoved(procs[p], r2), r2.path = procs[p].path,
         r2.pc \in Evaluating \ {"return", "wait2"}, r2.pc = "wait" => Command(p).verb = "external",
         Front(r2) \in Nat, Front(procs[p]) <= Front(r2)
  PROVE  MeansInv(p, r2, rs)
<1> DEFINE r == procs[p]
<1>1. Top(r2) = Top(r) /\ r2.line = r.line /\ r2.no = r.no /\ r2.path = r.path /\ Node(p) = Top(r)
  BY AtNode DEF Unmoved, Top
<1>2. Located(p, r2)
  BY <1>1 DEF MeansInv, Located, Command
<1>3. At(r2) = At(r)
  BY <1>1 DEF At
<1>4. ReadSoFar(r2, rs)
  <2>1. ReadSoFar(r, rs)
    BY DEF MeansInv
  <2> HIDE DEF r
  <2> QED  BY <1>1, <1>3, <2>1 DEF ReadSoFar, r
<1> QED  BY <1>2, <1>4, GoesOn

(* A copy has its operand still before it.                                 *)
LEMMA CopyMeans ==
  ASSUME ProcsInv, NEW p \in DOMAIN procs, procs[p].pc \in Evaluating, NEW rs, MeansInv(p, procs[p], rs),
         Op(procs[p].line, Top(procs[p])) \in {"&", "|"},
         NEW n \in {Cmd1(procs[p].line, Top(procs[p])), Cmd2(procs[p].line, Top(procs[p]))},
         Front(procs[p]) <= n[1],
         NEW k, k.path = <<n>>, k.line = procs[p].line, k.no = procs[p].no, k.pc \in {"eval", "setup"},
         NEW c, c # Shell
  PROVE  MeansInv(c, k, rs)
<1> DEFINE r == procs[p]
           b == r.path[1][2]
<1>1. r.line \in Lines /\ Top(r) \in NodesOf(r.line) /\ ~IsLeaf(Top(r))
  BY AtNode, NotALeaf DEF None
<1>2. n \in NodesOf(r.line) /\ Sub(n, Top(r))
  BY <1>1, OperandsAre
<1>3. Top(k) = n /\ k.path[1] = n /\ Len(k.path) = 1 /\ At(k) = n[1] /\ Front(k) = n[1] /\ k.pc \in Evaluating
  BY DEF Top, At, Front, Evaluating
<1>4. Located(c, k)
  <2>1. Inner(r.line, n)
    BY <1>1, InnerOperands
  <2> QED  BY <1>3, <2>1 DEF Located
<1>5. ReadSoFar(k, rs)
  BY <1>3 DEF ReadSoFar, Entered
<1>6. Fresh(k, rs)
  <2>1. /\ Front(r) \in Nat /\ b \in Nat /\ n[1] \in Nat /\ n[2] \in Nat /\ n[2] <= Top(r)[2]
        /\ Top(r)[2] <= b /\ Top(r)[2] \in Nat
    BY <1>2, FrontIs, AtIs, NodeIs DEF Sub
  <2>2. \A i \in Front(r)..b : ~Recorded(rs, r.no, i)
    BY DEF MeansInv, Fresh
  <2>3. Front(r) <= n[1]
    OBVIOUS
  <2> HIDE DEF r, b
  <2>4. \A i \in n[1]..n[2] : i \in Front(r)..b
    BY <2>1, <2>3
  <2> QED  BY <1>3, <2>2, <2>4 DEF Fresh, r
<1>7. k.pc \notin Ended
  BY DEF Ended
<1> QED  BY <1>3, <1>4, <1>5, <1>6, <1>7 DEF MeansInv

(* One that only changes its place.                                        *)
Turns(r, r2, pc) == Unmoved(r, r2) /\ r2.path = r.path /\ r2.pc = pc

LEMMA TurnsTo ==
  ASSUME NEW r, NEW r2, NEW pc, Turns(r, r2, pc)
  PROVE  /\ Unmoved(r, r2) /\ r2.path = r.path /\ r2.pc = pc /\ Top(r2) = Top(r)
         /\ Front(r2) = IF pc \in {"eval", "setup"} THEN Top(r)[1]
                        ELSE IF pc = "fork2" THEN Cmd2(r.line, Top(r))[1]
                        ELSE Top(r)[2] + 1
<1>1. Top(r2) = Top(r) /\ r2.line = r.line
  BY DEF Top, Unmoved, Turns
<1> QED  BY <1>1 DEF Front, Turns

LEMMA ForkCommandMeans ==
  ASSUME ProcsInv, TreeInv, FlowInv, Means, NEW p \in DOMAIN procs, ForkCommand(p), fails' = fails
  PROVE  Means'
<1> DEFINE r == procs[p]
           c == CommandPid(p)
           k == Child(p, "exec", Node(p))
           r2 == [r EXCEPT !.pc = "wait"]
<1>1. /\ r.pc = "eval" /\ IsLeaf(Node(p)) /\ Fork(p, c, k, r2, Returns(r, Failure)) /\ r.pc \in Evaluating
      /\ Command(p).verb = "external"
  BY DEF ForkCommand, Evaluating
<1>2. UNCHANGED results
  <2>1. fails \in Nat
    BY BoundsAssumption DEF ProcsInv
  <2>2. ~(fails' > fails)
    BY <2>1
  <2> QED  BY <2>2 DEF ForkCommand
<1>3. DOMAIN r = Fields /\ r.left \in Int /\ c = <<lineNo, Top(r)[1]>>
  BY <1>1, AtNode
<1>4. k.pc = "exec"
  BY <1>3, ChildIs
<1>5. Len(c) = 2 /\ c # Shell /\ c # p
  <2>1. Len(c) = 2
    BY <1>3
  <2>2. Len(p) # 2
    BY <1>1, PidIs DEF Evaluating, Ended
  <2> QED  BY <2>1, <2>2 DEF Shell
<1>6. Turns(r, r2, "wait")
  BY <1>3 DEF Turns, Unmoved, Fields
<1>7. MeansInv(p, r, results)
  BY DEF Means
<1>a. Fork(p, c, k, r2, Returns(r, Failure))
  BY <1>1
<1> HIDE DEF r2, k, c
<1>8. /\ Unmoved(r, r2) /\ r2.path = r.path /\ r2.pc = "wait" /\ Front(r2) = Top(r)[2] + 1
  BY <1>6, TurnsTo
<1>9. MeansInv(p, r2, results)
  <2>1. Front(r) <= Top(r)[2] + 1 /\ Top(r)[2] + 1 \in Nat
    <3>1. Front(r) <= Top(r)[2] + 1 /\ Top(r)[2] \in Nat
      BY <1>1, FrontIs
    <3> QED  BY <3>1
  <2>2. r2.pc \in Evaluating \ {"return", "wait2"} /\ r.pc \in Evaluating \ {"return", "wait2"}
    BY <1>1, <1>8 DEF Evaluating
  <2> QED  BY <1>1, <1>7, <1>8, <2>1, <2>2, StaysMeans
<1>10. MeansInv(c, k, results)
  BY <1>4, <1>5 DEF MeansInv, Evaluating, Ended
<1> QED  BY <1>2, <1>5, <1>9, <1>10, <1>a, MeansGrows

LEMMA TurnsMeans ==
  ASSUME ProcsInv, NEW p \in DOMAIN procs, procs[p].pc \in {"eval", "setup", "fork2", "close"}, NEW rs,
         MeansInv(p, procs[p], rs), NEW r2, NEW pc \in {"eval", "fork2", "close", "wait1"},
         Turns(procs[p], r2, pc), pc = "eval" => procs[p].pc = "setup",
         pc = "fork2" => /\ procs[p].pc = "eval" /\ Cmd2(procs[p].line, Top(procs[p]))[1] \in Nat
                         /\ Top(procs[p])[1] < Cmd2(procs[p].line, Top(procs[p]))[1]
  PROVE  MeansInv(p, r2, rs)
<1> DEFINE r == procs[p]
           n == Top(r)
<1>1. r.pc \in Evaluating \ {"return", "wait2"} /\ pc \in Evaluating \ {"return", "wait2"} /\ pc # "wait"
  BY DEF Evaluating
<1>2. /\ Unmoved(r, r2) /\ r2.path = r.path /\ r2.pc = pc
      /\ Front(r2) = IF pc \in {"eval", "setup"} THEN n[1]
                     ELSE IF pc = "fork2" THEN Cmd2(r.line, n)[1] ELSE n[2] + 1
  BY TurnsTo
<1>3. Front(r) \in Nat /\ Front(r) <= n[2] + 1 /\ n[1] \in Nat /\ n[2] \in Nat
  BY <1>1, FrontIs
<1>4. r.pc \in {"eval", "setup"} => Front(r) = n[1]
  BY DEF Front
<1>5. Front(r2) \in Nat /\ Front(r) <= Front(r2)
  <2>1. CASE pc = "eval"
    <3> HIDE DEF n, r
    <3> QED  BY <1>2, <1>3, <1>4, <2>1 DEF r
  <2>2. CASE pc = "fork2"
    <3>1. Front(r2) = Cmd2(r.line, n)[1] /\ Front(r) = n[1]
      BY <1>2, <1>4, <2>2
    <3>2. Cmd2(r.line, n)[1] \in Nat /\ n[1] < Cmd2(r.line, n)[1]
      BY <2>2
    <3> HIDE DEF n, r
    <3> QED  BY <1>3, <3>1, <3>2
  <2>3. CASE pc \in {"close", "wait1"}
    <3>1. Front(r2) = n[2] + 1
      BY <1>2, <2>3
    <3> HIDE DEF n, r
    <3> QED  BY <1>3, <3>1
  <2> QED  BY <2>1, <2>2, <2>3
<1> QED  BY <1>1, <1>2, <1>5, StaysMeans

LEMMA ForkOperand1Means ==
  ASSUME ProcsInv, TreeInv, FlowInv, Means, NEW p \in DOMAIN procs, ForkOperand1(p), fails' = fails
  PROVE  Means'
<1> DEFINE r == procs[p]
           n == Top(r)
           n1 == Cmd1(r.line, n)
           c == Pid(p, Operand(p, 1))
           held == IF NodeOp(p) = "|" THEN Ends(Pid(p, Node(p))) ELSE {}
           pc == IF NodeOp(p) = "|" THEN "setup" ELSE "eval"
           k0 == Child(p, pc, Operand(p, 1))
           k == [k0 EXCEPT !.held = @ \cup held]
           r2 == [r EXCEPT !.pc = "fork2", !.held = @ \cup held]
           r3 == IF NodeOp(p) = "|" THEN Exits(r, Failure) ELSE Returns(r, 0)
<1>1. /\ r.pc = "eval" /\ NodeOp(p) \in {"&", "|"} /\ Fork(p, c, k, r2, r3) /\ r.pc \in Evaluating
      /\ UNCHANGED results /\ r.pc \in {"eval", "setup", "fork2", "close"}
  BY DEF ForkOperand1, Evaluating
<1>2. /\ DOMAIN r = Fields /\ r.left \in Int /\ NodeOp(p) = Op(r.line, n) /\ Operand(p, 1) = n1
  BY <1>1, AtNode
<1>3. /\ c # Shell /\ c # p /\ Front(r) = n[1] /\ Cmd2(r.line, n)[1] \in Nat /\ n[1] < Cmd2(r.line, n)[1]
      /\ n[1] \in Nat
  BY <1>1, CopyOfOperand1
<1>4. Turns(r, r2, "fork2")
  BY <1>2 DEF Turns, Unmoved, Fields
<1>5. k.pc \in {"eval", "setup"} /\ k.path = <<n1>> /\ k.line = r.line /\ k.no = r.no
  <2>1. /\ DOMAIN k0 = Fields /\ k0.pc = pc /\ k0.path = <<n1>> /\ k0.line = r.line /\ k0.no = r.no
    BY <1>2, ChildIs
  <2> HIDE DEF k0, held
  <2> QED  BY <2>1 DEF Fields
<1>6. Fork(p, c, k, r2, r3) /\ MeansInv(p, r, results)
  BY <1>1 DEF Means
<1> HIDE DEF k, k0, r2, r3, held, pc, c
<1>7. MeansInv(p, r2, results)
  BY <1>1, <1>3, <1>4, <1>6, TurnsMeans
<1>8. MeansInv(c, k, results)
  <2>1. n1[1] = n[1] /\ n1 \in {Cmd1(r.line, n), Cmd2(r.line, n)}
    BY DEF Cmd1
  <2>2. Front(r) <= n1[1]
    <3> HIDE DEF n, r, n1
    <3> QED  BY <1>3, <2>1
  <2>3. Op(r.line, n) \in {"&", "|"}
    BY <1>1, <1>2
  <2> HIDE DEF n1
  <2> QED  BY <1>1, <1>3, <1>5, <1>6, <2>1, <2>2, <2>3, CopyMeans
<1> QED  BY <1>1, <1>3, <1>6, <1>7, <1>8, MeansGrows

LEMMA ForkOperand2Means ==
  ASSUME ProcsInv, TreeInv, FlowInv, Means, NEW p \in DOMAIN procs, ForkOperand2(p), fails' = fails
  PROVE  Means'
<1> DEFINE r == procs[p]
           n == Top(r)
           n2 == Cmd2(r.line, n)
           c == Pid(p, Operand(p, 2))
           pc == IF NodeOp(p) = "|" THEN "setup" ELSE "eval"
           k == Child(p, pc, Operand(p, 2))
           pc2 == IF NodeOp(p) = "|" THEN "close" ELSE "wait1"
           r2 == [r EXCEPT !.pc = pc2]
           r3 == Returns(r, 0)
<1>1. /\ r.pc = "fork2" /\ Fork(p, c, k, r2, r3) /\ r.pc \in Evaluating
      /\ UNCHANGED results /\ r.pc \in {"eval", "setup", "fork2", "close"}
  BY DEF ForkOperand2, Evaluating
<1>2. /\ DOMAIN r = Fields /\ r.left \in Int /\ NodeOp(p) = Op(r.line, n) /\ Operand(p, 2) = n2
  BY <1>1, AtNode
<1>3. c # Shell /\ c # p
  BY <1>1, CopyOfOperand2
<1>4. Op(r.line, n) \in {"&", "|"}
  BY <1>1, ProcIs DEF PlaceInv
<1>5. Turns(r, r2, pc2)
  BY <1>2 DEF Turns, Unmoved, Fields
<1>6. k.pc \in {"eval", "setup"} /\ k.path = <<n2>> /\ k.line = r.line /\ k.no = r.no
  BY <1>2, ChildIs
<1>7. Fork(p, c, k, r2, r3) /\ MeansInv(p, r, results) /\ pc2 \in {"close", "wait1"}
  BY <1>1 DEF Means
<1> HIDE DEF k, r2, r3, pc, pc2, c
<1>8. MeansInv(p, r2, results)
  <2>1. pc2 \in {"eval", "fork2", "close", "wait1"} /\ pc2 # "eval" /\ pc2 # "fork2"
    BY <1>7
  <2> QED  BY <1>1, <1>5, <1>7, <2>1, TurnsMeans
<1>9. MeansInv(c, k, results)
  <2>1. Front(r) = n2[1] /\ n2 \in {Cmd1(r.line, n), Cmd2(r.line, n)}
    BY <1>1 DEF Front
  <2>2. Front(r) <= n2[1]
    <3>1. Front(r) \in Nat
      BY <1>1, FrontIs
    <3> HIDE DEF n2, r
    <3> QED  BY <2>1, <3>1
  <2> HIDE DEF n2
  <2> QED  BY <1>1, <1>3, <1>4, <1>6, <1>7, <2>1, <2>2, CopyMeans
<1> QED  BY <1>1, <1>3, <1>7, <1>8, <1>9, MeansGrows

LEMMA SetUpEndMeans ==
  ASSUME ProcsInv, Means, NEW p \in DOMAIN procs, SetUpEnd(p)
  PROVE  Means'
<1> DEFINE r == procs[p]
           d == Dup2(p, r)
           r2 == [d EXCEPT !.pc = "eval", !.held = @ \ Closed(r.pipe)]
<1>1. r.pc = "setup" /\ Becomes(p, r2) /\ UNCHANGED results /\ r.pc \in Evaluating
  BY DEF SetUpEnd, Evaluating
<1>2. DOMAIN r = Fields
  BY <1>1, AtNode
<1>3. /\ DOMAIN d = Fields /\ d.path = r.path /\ d.line = r.line /\ d.no = r.no
      /\ d.cwd = r.cwd /\ d.env = r.env /\ d.was = r.was
  BY <1>2 DEF Dup2, Fields
<1> HIDE DEF d
<1>4. Turns(r, r2, "eval")
  BY <1>3 DEF Turns, Unmoved, Fields
<1>5. Becomes(p, r2) /\ MeansInv(p, r, results)
  BY <1>1 DEF Means
<1> HIDE DEF r2
<1>6. MeansInv(p, r2, results)
  BY <1>1, <1>4, <1>5, TurnsMeans
<1> QED  BY <1>1, <1>5, <1>6, MeansMoves

LEMMA ClosePipeMeans ==
  ASSUME ProcsInv, Means, NEW p \in DOMAIN procs, ClosePipe(p)
  PROVE  Means'
<1> DEFINE r == procs[p]
           r2 == [r EXCEPT !.pc = "wait1", !.held = @ \ Closed(Pid(p, Node(p)))]
<1>1. r.pc = "close" /\ Becomes(p, r2) /\ UNCHANGED results /\ r.pc \in Evaluating
  BY DEF ClosePipe, Evaluating
<1>2. DOMAIN r = Fields
  BY <1>1, AtNode
<1>3. Turns(r, r2, "wait1")
  BY <1>2 DEF Turns, Unmoved, Fields
<1>4. Becomes(p, r2) /\ MeansInv(p, r, results)
  BY <1>1 DEF Means
<1> HIDE DEF r2
<1>5. MeansInv(p, r2, results)
  BY <1>1, <1>3, <1>4, TurnsMeans
<1> QED  BY <1>1, <1>4, <1>5, MeansMoves

(* What the copy that has been waited for left behind.                     *)
LEMMA CopyLeft ==
  ASSUME ProcsInv, FlowInv, Means, NEW p \in DOMAIN procs, procs[p].pc \in {"wait1", "wait2"},
         NEW n \in NodesOf(procs[p].line), NEW c \in DOMAIN procs, c = <<lineNo, n[1], n[2]>>, ~Alive(c)
  PROVE  /\ procs[c].pc = "exited"
         /\ \E e : /\ Reads(results, procs[p].no, procs[p].line, n[1], n[2], e)
                   /\ LeftByCopy(procs[p].line, n, procs[c].status, e)
<1> DEFINE r == procs[p]
           s == procs[c]
<1>1. r.pc \in Evaluating /\ s.pc \in Ended
  BY DEF Alive, Evaluating, Ended
<1>2. Len(c) = 3 /\ c # Shell /\ c[2] = n[1] /\ c[3] = n[2]
  BY DEF Shell
<1>3. s.path # <<>> /\ s.path[1] = <<n[1], n[2]>>
  <2>1. s.path # <<>> /\ Scope(c) = s.path[1]
    BY <1>2, PidIs
  <2>2. Scope(c) = <<n[1], n[2]>>
    BY <1>2 DEF Scope
  <2> QED  BY <2>1, <2>2
<1>4. s.path[1] = n
  BY <1>3, NodeIs
<1>5. r.path # <<>> /\ r.no = lineNo /\ s.no = lineNo
  BY <1>1, <1>3, AtNode, ProcIs DEF PlaceInv
<1>6. s.line = r.line
  BY <1>3, <1>5 DEF FlowInv, OneLine
<1>7. PICK e : /\ s.pc = "exited"
               /\ Reads(results, s.no, s.line, s.path[1][1], s.path[1][2], e)
               /\ LeftByCopy(s.line, s.path[1], s.status, e)
  BY <1>1, <1>2 DEF Means, MeansInv
<1> QED  BY <1>4, <1>5, <1>6, <1>7

LEMMA ReadsOperand ==
  ASSUME ProcsInv, NEW p \in DOMAIN procs, procs[p].pc \in {"wait1", "wait2"}, NEW rs,
         MeansInv(p, procs[p], rs), NEW n,
         n = IF procs[p].pc = "wait1" THEN Cmd1(procs[p].line, Top(procs[p]))
                                      ELSE Cmd2(procs[p].line, Top(procs[p])),
         NEW e, Reads(rs, procs[p].no, procs[p].line, n[1], n[2], e)
  PROVE  Reads(rs, procs[p].no, procs[p].line, procs[p].path[1][1], n[2], e)
<1> DEFINE r == procs[p]
           a == r.path[1][1]
<1>1. r.pc \in Evaluating /\ r.pc # "return" /\ ~IsLeaf(Top(r))
  <2>1. Op(r.line, Top(r)) \in {"&", "|"}
    BY ProcIs DEF PlaceInv
  <2> QED  BY <2>1, NotALeaf DEF None, Evaluating
<1>2. r.line \in Lines /\ Top(r) \in NodesOf(r.line)
  BY <1>1, AtNode
<1>3. n \in NodesOf(r.line) /\ At(r) = n[1]
  <2>1. CASE r.pc = "wait1"
    BY <1>1, <1>2, <2>1, OperandsAre DEF At, Cmd1
  <2>2. CASE r.pc = "wait2"
    BY <1>1, <1>2, <2>2, OperandsAre DEF At
  <2> QED  BY <2>1, <2>2
<1>4. Entered(rs, r.no, r.line, a, n[1])
  BY <1>1, <1>3 DEF MeansInv, ReadSoFar
<1>5. a \in Int /\ a <= n[1] /\ n[1] \in Int /\ n[2] \in Int /\ n[1] <= n[2]
  <2>1. a \in Nat /\ a <= Top(r)[1] /\ Top(r)[1] <= At(r) /\ Top(r)[1] \in Nat
    BY <1>1, AtIs
  <2>2. n[1] \in Nat /\ n[2] \in Nat /\ n[1] <= n[2]
    BY <1>3, NodeIs
  <2> HIDE DEF r, a
  <2> QED  BY <1>3, <2>1, <2>2
<1>6. Reads(rs, r.no, r.line, n[1], n[2], e)
  OBVIOUS
<1> HIDE DEF r, a
<1>7. Reads(rs, r.no, r.line, a, n[2], e)
  BY <1>4, <1>5, <1>6, EnteredReads
<1> QED  BY <1>7 DEF r, a

LEMMA WaitOperand1Means ==
  ASSUME ProcsInv, FlowInv, Means, NEW p \in DOMAIN procs, WaitOperand1(p)
  PROVE  Means'
<1> DEFINE r == procs[p]
           n == Top(r)
           n1 == Cmd1(r.line, n)
           n2 == Cmd2(r.line, n)
           a == r.path[1][1]
           c == Pid(p, Operand(p, 1))
           r2 == [r EXCEPT !.pc = "wait2"]
<1>1. r.pc = "wait1" /\ Wait(p, c, r2) /\ UNCHANGED results /\ r.pc \in Evaluating
  BY DEF WaitOperand1, Evaluating
<1>2. /\ DOMAIN r = Fields /\ r.line \in Lines /\ n \in NodesOf(r.line) /\ c = <<lineNo, n1[1], n1[2]>>
  BY <1>1, AtNode
<1>3. Op(r.line, n) \in {"&", "|"} /\ ~IsLeaf(n)
  <2>1. Op(r.line, n) \in {"&", "|"}
    BY <1>1, ProcIs DEF PlaceInv
  <2> QED  BY <2>1, NotALeaf DEF None
<1>4. n1 \in NodesOf(r.line) /\ n2 \in NodesOf(r.line) /\ n2[1] - 1 = n1[2] /\ n2[1] \in Nat
  <2>1. n1 \in NodesOf(r.line) /\ n2 \in NodesOf(r.line)
    BY <1>2, <1>3, OperandsAre
  <2>2. n2[1] = Split(r.line, n) + 1 /\ n1[2] = Split(r.line, n)
    BY DEF Cmd1, Cmd2
  <2>3. n1[2] \in Nat
    BY <2>1, NodeIs
  <2> HIDE DEF n1, n2
  <2>4. n2[1] - 1 = n1[2] /\ n2[1] \in Nat
    BY <2>2, <2>3
  <2> QED  BY <2>1, <2>4
<1>5. Turns(r, r2, "wait2")
  BY <1>2 DEF Turns, Unmoved, Fields
<1>6. Wait(p, c, r2) /\ MeansInv(p, r, results) /\ c \in DOMAIN procs /\ ~Alive(c)
  BY <1>1 DEF Means, Wait
<1> HIDE DEF r2, c
<1>7. PICK e : /\ Reads(results, r.no, r.line, n1[1], n1[2], e)
               /\ LeftByCopy(r.line, n1, procs[c].status, e)
  BY <1>1, <1>2, <1>4, <1>6, CopyLeft
<1>8. Reads(results, r.no, r.line, a, n2[1] - 1, e)
  BY <1>1, <1>4, <1>6, <1>7, ReadsOperand
<1>9. Enters(r.line, n2[1], e)
  BY <1>2, <1>3, <1>7, EntersOperand2
<1>10. /\ Unmoved(r, r2) /\ r2.path = r.path /\ r2.pc = "wait2" /\ Top(r2) = n
       /\ Front(r2) = n[2] + 1 /\ r2.line = r.line /\ r2.no = r.no
  <2>1. /\ Unmoved(r, r2) /\ r2.path = r.path /\ r2.pc = "wait2" /\ Top(r2) = n /\ Front(r2) = n[2] + 1
    BY <1>5, TurnsTo
  <2> QED  BY <2>1 DEF Unmoved
<1>11. ReadSoFar(r2, results)
  <2>1. At(r2) = n2[1]
    BY <1>10 DEF At
  <2>2. Entered(results, r.no, r.line, a, n2[1])
    BY <1>8, <1>9 DEF Entered
  <2> QED  BY <1>10, <2>1, <2>2 DEF ReadSoFar
<1>12. Located(p, r2)
  <2>1. Located(p, r)
    BY <1>1, <1>6 DEF MeansInv
  <2> QED  BY <1>10, <2>1 DEF Located
<1>13. MeansInv(p, r2, results)
  <2>1. Front(r2) \in Nat /\ Front(r) <= Front(r2)
    <3>1. n[2] \in Nat /\ Front(r) = n[2] + 1
      BY <1>1, FrontIs DEF Front
    <3> HIDE DEF n, r
    <3> QED  BY <1>10, <3>1
  <2>2. r2.pc \in Evaluating
    BY <1>10 DEF Evaluating
  <2> QED  BY <1>1, <1>6, <1>10, <1>11, <1>12, <2>1, <2>2, GoesOn
<1> QED  BY <1>1, <1>6, <1>13, MeansShrinks

LEMMA WaitOperand2Means ==
  ASSUME ProcsInv, FlowInv, Means, NEW p \in DOMAIN procs, WaitOperand2(p)
  PROVE  Means'
<1> DEFINE r == procs[p]
           n == Top(r)
           n2 == Cmd2(r.line, n)
           a == r.path[1][1]
           c == Pid(p, Operand(p, 2))
           v == IF NodeOp(p) = "&" THEN 0 ELSE procs[c].status
           r2 == Returns(r, v)
<1>1. r.pc = "wait2" /\ r.pc \in Evaluating /\ UNCHANGED results /\ c \in DOMAIN procs /\ ~Alive(c)
  BY DEF WaitOperand2, Wait, Evaluating
<1>2. /\ DOMAIN r = Fields /\ r.left \in Int /\ r.line \in Lines /\ n \in NodesOf(r.line)
      /\ c = <<lineNo, n2[1], n2[2]>> /\ NodeOp(p) = Op(r.line, n)
  BY <1>1, AtNode
<1>3. Op(r.line, n) \in {"&", "|"} /\ ~IsLeaf(n)
  <2>1. Op(r.line, n) \in {"&", "|"}
    BY <1>1, ProcIs DEF PlaceInv
  <2> QED  BY <2>1, NotALeaf DEF None
<1>4. n2 \in NodesOf(r.line) /\ n2[2] = n[2]
  BY <1>2, <1>3, OperandsAre DEF Cmd2
<1>5. /\ procs[c].pc = "exited"
      /\ \E e : /\ Reads(results, r.no, r.line, n2[1], n2[2], e)
                /\ LeftByCopy(r.line, n2, procs[c].status, e)
  <2> HIDE DEF c, n2
  <2> QED  BY <1>1, <1>2, <1>4, CopyLeft
<1>6. Wait(p, c, r2)
  <2>1. procs[c].pc # "killed"
    BY <1>5
  <2> DEFINE r3 == IF NodeOp(p) = "&" THEN Returns(r, 0)
                   ELSE IF procs[c].pc = "killed" THEN Exits(r, Failure)
                   ELSE Returns(r, procs[c].status)
  <2>2. Wait(p, c, r3)
    BY DEF WaitOperand2
  <2>3. r3 = r2
    BY <2>1
  <2> HIDE DEF r3, r2, c
  <2> QED  BY <2>2, <2>3
<1>7. /\ Unmoved(r, r2) /\ r2.path = r.path /\ r2.pc = "return" /\ r2.status = v
      /\ r2.line = r.line /\ r2.no = r.no
  BY <1>2 DEF Returns, Unmoved, Fields
<1>8. MeansInv(p, r, results)
  BY DEF Means
<1>9. v = IF Op(r.line, n) = "&" THEN 0 ELSE procs[c].status
  BY <1>2
<1> HIDE DEF r2, v, c
<1>10. Top(r2) = n /\ Front(r2) = n[2] + 1
  BY <1>7 DEF Top, Front
<1>11. ReadSoFar(r2, results)
  <2>1. PICK e : Reads(results, r.no, r.line, n2[1], n2[2], e) /\ LeftByCopy(r.line, n2, procs[c].status, e)
    BY <1>5
  <2>2. Reads(results, r.no, r.line, a, n2[2], e)
    BY <1>1, <1>8, <2>1, ReadsOperand
  <2>3. Leaves(r.line, n, v, e)
    BY <1>2, <1>3, <1>9, <2>1, LeavesOperands
  <2>4. r2.path[1][1] = a /\ Top(r2)[2] = n2[2]
    BY <1>4, <1>7, <1>10
  <2> HIDE DEF n, n2, a, r
  <2> QED  BY <1>7, <1>10, <2>2, <2>3, <2>4 DEF ReadSoFar
<1>12. Located(p, r2)
  <2>1. Located(p, r)
    BY <1>1, <1>8 DEF MeansInv
  <2> QED  BY <1>7, <1>10, <2>1 DEF Located
<1>13. MeansInv(p, r2, results)
  <2>1. Front(r2) \in Nat /\ Front(r) <= Front(r2)
    <3>1. n[2] \in Nat /\ Front(r) = n[2] + 1
      BY <1>1, FrontIs DEF Front
    <3> HIDE DEF n, r
    <3> QED  BY <1>10, <3>1
  <2>2. r2.pc \in Evaluating
    BY <1>7 DEF Evaluating
  <2> QED  BY <1>1, <1>7, <1>8, <1>11, <1>12, <2>1, <2>2, GoesOn
<1> QED  BY <1>1, <1>6, <1>13, MeansShrinks

-----------------------------------------------------------------------------
(* parse_command calls itself and returns.                                 *)
LEMMA EvalCmd1Means ==
  ASSUME ProcsInv, Means, NEW p \in DOMAIN procs, EvalCmd1(p)
  PROVE  Means'
<1> DEFINE r == procs[p]
           n == Top(r)
           n1 == Cmd1(r.line, n)
           d == Len(r.path)
           r2 == [r EXCEPT !.path = Append(@, Operand(p, 1))]
<1>1. /\ r.pc = "eval" /\ NodeOp(p) \in Sequential /\ Becomes(p, r2) /\ UNCHANGED results
      /\ r.pc \in Evaluating
  BY DEF EvalCmd1, Evaluating
<1>2. /\ DOMAIN r = Fields /\ r.line \in Lines /\ r.path # <<>> /\ n \in NodesOf(r.line)
      /\ Op(r.line, n) \in Sequential /\ Operand(p, 1) = n1 /\ ~IsLeaf(n) /\ StackInv(r)
  <2>1. NodeOp(p) = Op(r.line, n)
    BY <1>1, AtNode
  <2>2. ~IsLeaf(n)
    BY <1>1, <2>1, NotALeaf DEF Sequential, None
  <2> QED  BY <1>1, <2>1, <2>2, AtNode, ProcIs
<1>3. MeansInv(p, r, results) /\ Located(p, r) /\ ReadSoFar(r, results)
  BY <1>1 DEF Means, MeansInv
<1>4. d \in Nat \ {0} /\ r.path \in Seq(NodesOf(r.line)) /\ r.path[d] = n
  BY <1>2, TopIs DEF StackInv, Top
<1>5. /\ r2.pc = "eval" /\ r2.path = Append(r.path, n1) /\ r2.line = r.line /\ r2.no = r.no
      /\ r2.cwd = r.cwd /\ r2.env = r.env /\ r2.was = r.was
  BY <1>1, <1>2 DEF Fields
<1>6. Becomes(p, r2)
  BY <1>1
<1> HIDE DEF r2, n1
<1>7. /\ Top(r2) = n1 /\ Len(r2.path) = d + 1 /\ r2.path[d + 1] = n1
      /\ \A k \in 1..d : r2.path[k] = r.path[k]
  BY <1>4, <1>5 DEF Top
<1>8. Unmoved(r, r2)
  <2>1. 1 \in 1..d
    <3> HIDE DEF d
    <3> QED  BY <1>4
  <2> QED  BY <1>5, <1>7, <2>1 DEF Unmoved
<1>9. Located(p, r2)
  <2>1. \A k \in 1..(Len(r2.path) - 1) : Op(r.line, r2.path[k]) \in Sequential
    <3>1. ASSUME NEW k \in 1..d PROVE Op(r.line, r.path[k]) \in Sequential
      <4>1. CASE k = d
        BY <1>2, <1>4, <4>1
      <4>2. CASE k # d
        <5>1. k \in 1..(d - 1)
          <6> HIDE DEF d
          <6> QED  BY <1>4, <4>2
        <5> QED  BY <1>3, <5>1 DEF Located
      <4> QED  BY <4>1, <4>2
    <3>2. Len(r2.path) - 1 = d
      <4> HIDE DEF d
      <4> QED  BY <1>4, <1>7
    <3> QED  BY <1>7, <3>1, <3>2
  <2>2. ASSUME p = Shell
        PROVE  r2.path[1] = Root(r.line) /\ \A k \in 1..Len(r2.path) : Outer(r.line, r2.path[k])
    <3>1. Outer(r.line, n1)
      <4>1. d \in 1..d
        <5> HIDE DEF d
        <5> QED  BY <1>4
      <4>2. Outer(r.line, n)
        BY <1>3, <1>4, <2>2, <4>1 DEF Located
      <4> QED  BY <1>2, <4>2, OuterOperands DEF n1
    <3>2. \A k \in 1..d : Outer(r.line, r2.path[k])
      BY <1>3, <1>7, <2>2 DEF Located
    <3>3. \A k \in 1..Len(r2.path) : k \in 1..d \/ k = d + 1
      <4> HIDE DEF d
      <4> QED  BY <1>4, <1>7
    <3>4. r2.path[1] = Root(r.line)
      BY <1>3, <1>8, <2>2 DEF Located, Unmoved
    <3> QED  BY <1>7, <3>1, <3>2, <3>3, <3>4
  <2>3. ASSUME p # Shell
        PROVE  Inner(r.line, r2.path[1]) /\ Chain(r.line, r2.path[1])
    <3>1. Inner(r.line, r.path[1]) /\ (d > 1 => Chain(r.line, r.path[1]))
      BY <1>3, <2>3 DEF Located
    <3>2. CASE d = 1
      <4>1. r.path[1] = n
        BY <1>4, <3>2
      <4>2. Op(r.line, n) = r.line.ops[Split(r.line, n)] /\ Split(r.line, n) \in n[1]..(n[2] - 1)
        BY <1>2, OperatorsOf
      <4>3. Op(r.line, n) # ";"
        BY <3>1, <4>1, <4>2 DEF Inner
      <4>4. Op(r.line, n) \notin {";", "&"}
        BY <1>2, <4>3 DEF Sequential
      <4>5. Chain(r.line, n)
        BY <1>2, <4>4, ChainIs
      <4> QED  BY <1>8, <3>1, <4>1, <4>5 DEF Unmoved
    <3>3. d = 1 \/ d > 1
      <4> HIDE DEF d
      <4> QED  BY <1>4
    <3> QED  BY <1>8, <3>1, <3>2, <3>3 DEF Unmoved
  <2>4. r2.line = r.line /\ r2.pc # "wait"
    BY <1>5
  <2> QED  BY <2>1, <2>2, <2>3, <2>4 DEF Located
<1>10. n1[1] = n[1]
  BY DEF n1, Cmd1
<1>11. ReadSoFar(r2, results)
  <2>1. At(r2) = n[1] /\ At(r) = n[1]
    BY <1>1, <1>5, <1>7, <1>10 DEF At
  <2>2. Entered(results, r.no, r.line, r.path[1][1], n[1])
    BY <1>1, <1>3, <2>1 DEF ReadSoFar
  <2>3. r2.path[1] = r.path[1]
    BY <1>8 DEF Unmoved
  <2> QED  BY <1>5, <2>1, <2>2, <2>3 DEF ReadSoFar
<1>12. MeansInv(p, r2, results)
  <2>1. Front(r2) \in Nat /\ Front(r) <= Front(r2)
    <3>1. Front(r2) = n[1] /\ Front(r) = n[1]
      BY <1>1, <1>5, <1>7, <1>10 DEF Front
    <3>2. n[1] \in Nat
      BY <1>2, NodeIs
    <3> HIDE DEF n, r
    <3> QED  BY <3>1, <3>2
  <2>2. r2.pc \in Evaluating
    BY <1>5 DEF Evaluating
  <2> QED  BY <1>1, <1>3, <1>8, <1>9, <1>11, <2>1, <2>2, GoesOn
<1> QED  BY <1>1, <1>3, <1>6, <1>12, MeansMoves

LEMMA Above ==
  ASSUME NEW r, StackInv(r), r.line \in Lines, Len(r.path) > 1
  PROVE  LET n == Top(r)
             above == r.path[Len(r.path) - 1]
         IN  /\ above \in NodesOf(r.line) /\ ~IsLeaf(above) /\ n \in NodesOf(r.line)
             /\ n \in {Cmd1(r.line, above), Cmd2(r.line, above)}
             /\ Cmd1(r.line, above) \in NodesOf(r.line) /\ Cmd2(r.line, above) \in NodesOf(r.line)
             /\ above[1] \in Nat /\ above[2] \in Nat /\ n[1] \in Nat /\ n[2] \in Nat /\ n[2] <= above[2]
             /\ Cmd2(r.line, above)[1] - 1 = Cmd1(r.line, above)[2] /\ Cmd2(r.line, above)[2] = above[2]
             /\ Cmd2(r.line, above)[1] \in Nat /\ Cmd2(r.line, above)[1] <= above[2]
             /\ Cmd2(r.line, above)[1] = Cmd1(r.line, above)[2] + 1
             /\ Sub(above, r.path[1])
<1> DEFINE d == Len(r.path)
           n == Top(r)
           above == r.path[d - 1]
           n1 == Cmd1(r.line, above)
           n2 == Cmd2(r.line, above)
<1>1. d \in Nat /\ r.path \in Seq(NodesOf(r.line)) /\ d > 1
  BY DEF StackInv
<1>2. d - 1 \in 1..(d - 1) /\ d - 1 \in 1..d /\ d \in 1..d /\ 1 \in 1..d /\ 1 <= d - 1 /\ (d - 1) + 1 = d
  <2> HIDE DEF d
  <2> QED  BY <1>1
<1>3. above \in NodesOf(r.line) /\ n \in NodesOf(r.line) /\ n = r.path[d]
  BY <1>1, <1>2 DEF Top
<1>4. ~IsLeaf(above) /\ n \in {n1, n2}
  <2>1. ~IsLeaf(r.path[d - 1]) /\ r.path[(d - 1) + 1] \in {Cmd1(r.line, r.path[d - 1]), Cmd2(r.line, r.path[d - 1])}
    BY <1>2 DEF StackInv
  <2> QED  BY <1>2, <1>3, <2>1
<1>5. Sub(above, r.path[1])
  BY <1>2 DEF StackInv
<1>6. n1 \in NodesOf(r.line) /\ n2 \in NodesOf(r.line) /\ Sub(n1, above) /\ Sub(n2, above)
  BY <1>3, <1>4, OperandsAre
<1>7. n1[2] = Split(r.line, above) /\ n2[1] = Split(r.line, above) + 1 /\ n2[2] = above[2]
  BY DEF Cmd1, Cmd2
<1>8. n1[2] \in Nat /\ n2[1] \in Nat /\ n2[2] \in Nat /\ n2[1] <= n2[2]
  BY <1>6, NodeIs
<1>9. above[1] \in Nat /\ above[2] \in Nat /\ n[1] \in Nat /\ n[2] \in Nat /\ n[2] <= above[2]
  <2>1. Sub(n, above)
    BY <1>4, <1>6
  <2> QED  BY <1>3, <2>1, NodeIs DEF Sub
<1>10. n2[1] - 1 = n1[2] /\ n2[1] = n1[2] + 1 /\ n2[1] <= above[2]
  <2> HIDE DEF n1, n2, above
  <2> QED  BY <1>7, <1>8
<1> HIDE DEF n1, n2, above, n
<1> QED  BY <1>3, <1>4, <1>5, <1>6, <1>7, <1>8, <1>9, <1>10 DEF n1, n2, above, n, d

-----------------------------------------------------------------------------
(* A return from the topmost call.                                         *)
LEMMA ShellReturns ==
  ASSUME ProcsInv, procs[Shell].pc = "return", Len(procs[Shell].path) = 1,
         NEW rs, MeansInv(Shell, procs[Shell], rs),
         NEW s, s.pc = "free", s.line = procs[Shell].line, s.no = procs[Shell].no,
         s.cwd = procs[Shell].cwd, s.env = procs[Shell].env, s.was = procs[Shell].was
  PROVE  MeansInv(Shell, s, rs)
<1> DEFINE r == procs[Shell]
           l == r.line
<1>1. Shell \in DOMAIN procs /\ r.pc \in Evaluating
  BY DEF ProcsInv, Evaluating
<1>2. r.line \in Lines /\ r.path[1] = Top(r)
  BY <1>1, AtNode DEF Top
<1>3. Located(Shell, r) /\ ReadSoFar(r, rs) /\ AsLeft(r, rs)
  BY <1>1 DEF MeansInv
<1>4. r.path[1] = Root(l)
  BY <1>3 DEF Located
<1>5. r.path[1][1] = 1 /\ Top(r)[2] = Len(l.cmds)
  BY <1>2, <1>4 DEF Root
<1>6. \E e : Reads(rs, s.no, s.line, 1, Len(s.line.cmds), e) /\ ~e.over
  BY <1>3, <1>5 DEF ReadSoFar, Leaves
<1>7. AsLeft(s, rs)
  BY <1>3 DEF AsLeft
<1>8. s.pc \notin Evaluating /\ s.pc # "prompt" /\ Len(Shell) # 3
  BY DEF Evaluating, Shell
<1> QED  BY <1>2, <1>6, <1>7, <1>8 DEF MeansInv

LEMMA CopyReturns ==
  ASSUME ProcsInv, NEW p \in DOMAIN procs, p # Shell, procs[p].pc = "return", Len(procs[p].path) = 1,
         NEW rs, MeansInv(p, procs[p], rs)
  PROVE  MeansInv(p, Exits(procs[p], procs[p].status), rs)
<1> DEFINE r == procs[p]
           s == Exits(r, r.status)
<1>1. r.pc \in Evaluating
  BY DEF Evaluating
<1>2. r.path[1] = Top(r) /\ DOMAIN r = Fields
  BY <1>1, AtNode DEF Top
<1>3. /\ s.pc = "exited" /\ s.path = r.path /\ s.line = r.line /\ s.no = r.no
      /\ s.status = r.status % 256
  BY <1>2 DEF Exits, Fields
<1> HIDE DEF s
<1>4. ReadSoFar(r, rs)
  BY <1>1 DEF MeansInv
<1>5. PICK e : Reads(rs, r.no, r.line, r.path[1][1], Top(r)[2], e) /\ Leaves(r.line, Top(r), r.status, e)
  BY <1>4 DEF ReadSoFar
<1>6. LeftByCopy(r.line, Top(r), r.status % 256, e)
  BY <1>5, LeftByReturn
<1>7. s.pc \notin Evaluating
  BY <1>3 DEF Evaluating
<1>8. MeansInv(p, s, rs)
  BY <1>2, <1>3, <1>5, <1>6, <1>7 DEF MeansInv
<1> QED  BY <1>8 DEF s

(* The command to the left of a sequence or condition returned: the other   *)
(* one is next,                                                            *)
LEMMA ReturnsOnward ==
  ASSUME ProcsInv, FlowInv, NEW p \in DOMAIN procs, procs[p].pc = "return", Len(procs[p].path) > 1,
         NEW rs, MeansInv(p, procs[p], rs),
         NEW above, above = procs[p].path[Len(procs[p].path) - 1],
         Top(procs[p]) = Cmd1(procs[p].line, above),
         RunsCmd2(Op(procs[p].line, above), procs[p].status),
         NEW r2, r2.pc = "eval", r2.line = procs[p].line, r2.no = procs[p].no,
         r2.cwd = procs[p].cwd, r2.env = procs[p].env, r2.was = procs[p].was,
         r2.path = ThenCmd2(procs[p].path, Cmd2(procs[p].line, above))
  PROVE  MeansInv(p, r2, rs)
<1> DEFINE r == procs[p]
           l == r.line
           n == Top(r)
           n2 == Cmd2(l, above)
           d == Len(r.path)
           a == r.path[1][1]
<1>1. r.pc \in Evaluating /\ r2.pc \in Evaluating
  BY DEF Evaluating
<1>2. l \in Lines /\ StackInv(r) /\ PartsInv(r) /\ r.path # <<>>
  BY <1>1, AtNode, ProcIs DEF FlowInv, WiringsInv, WiringInv
<1>3. Located(p, r) /\ ReadSoFar(r, rs)
  BY <1>1 DEF MeansInv
<1>4. d \in Nat /\ d > 1 /\ r.path \in Seq(NodesOf(l))
  BY <1>2 DEF StackInv
<1>5. /\ above \in NodesOf(l) /\ n \in NodesOf(l) /\ n2 \in NodesOf(l) /\ ~IsLeaf(above)
      /\ n[2] \in Nat /\ n2[1] \in Nat /\ n2[1] - 1 = n[2] /\ n2[1] = n[2] + 1 /\ Sub(above, r.path[1])
  BY <1>2, Above
<1>6. /\ r2.path[1] = r.path[1] /\ Top(r2) = n2 /\ Len(r2.path) = d /\ r2.path[d] = n2
      /\ \A k \in 1..(d - 1) : r2.path[k] = r.path[k]
  <2>1. r2.path[1] = r.path[1] /\ Top(r2) = n2
    BY <1>2, Onward
  <2>2. Len(r2.path) = d /\ r2.path[d] = n2 /\ \A k \in 1..(d - 1) : r2.path[k] = r.path[k]
    BY <1>4 DEF ThenCmd2
  <2> QED  BY <2>1, <2>2
<1>7. \A k \in 1..(d - 1) : Op(l, r.path[k]) \in Sequential
  BY <1>3 DEF Located
<1>8. d - 1 \in 1..(d - 1) /\ d - 1 \in 1..d /\ \A k \in 1..d : k \in 1..(d - 1) \/ k = d
  <2> HIDE DEF d
  <2> QED  BY <1>4
<1>9. Op(l, above) \in Sequential
  BY <1>7, <1>8
<1>10. Bordered(l, Cmd1(l, above))
  BY <1>2, TopIsPlaced
<1> HIDE DEF n2, a
<1>11. ReadSoFar(r2, rs)
  <2>1. PICK e : Reads(rs, r.no, l, a, n[2], e) /\ Leaves(l, n, r.status, e)
    BY <1>3 DEF ReadSoFar, a
  <2>2. Enters(l, n2[1], e)
    BY <1>2, <1>5, <1>9, <1>10, <2>1, EntersCmd2 DEF n2
  <2>3. Entered(rs, r.no, l, a, n2[1])
    BY <1>5, <2>1, <2>2 DEF Entered
  <2>4. At(r2) = n2[1] /\ r2.path[1][1] = a
    BY <1>6 DEF At, a
  <2> QED  BY <2>3, <2>4 DEF ReadSoFar
<1>12. Located(p, r2)
  <2>1. \A k \in 1..(Len(r2.path) - 1) : Op(r2.line, r2.path[k]) \in Sequential
    BY <1>6, <1>7
  <2>2. ASSUME p = Shell
        PROVE  r2.path[1] = Root(r2.line) /\ \A k \in 1..Len(r2.path) : Outer(r2.line, r2.path[k])
    <3>1. r.path[1] = Root(l) /\ \A k \in 1..d : Outer(l, r.path[k])
      BY <1>3, <2>2 DEF Located
    <3>2. Outer(l, above)
      BY <1>8, <3>1
    <3>3. Outer(l, n2)
      BY <1>2, <1>5, <1>9, <3>2, OuterOperands DEF n2
    <3>4. \A k \in 1..(d - 1) : k \in 1..d
      <4> HIDE DEF d
      <4> QED  BY <1>4
    <3> QED  BY <1>6, <1>8, <3>1, <3>3, <3>4
  <2>3. p # Shell => Inner(r2.line, r2.path[1]) /\ (Len(r2.path) > 1 => Chain(r2.line, r2.path[1]))
    BY <1>3, <1>6 DEF Located
  <2> QED  BY <2>1, <2>2, <2>3 DEF Located
<1>13. Front(r2) \in Nat /\ Front(r) <= Front(r2)
  <2>1. Front(r2) = n2[1] /\ Front(r) = n[2] + 1
    BY <1>6 DEF Front
  <2> HIDE DEF n, r
  <2> QED  BY <1>5, <2>1
<1>14. Unmoved(r, r2)
  BY <1>6 DEF Unmoved
<1> QED  BY <1>1, <1>11, <1>12, <1>13, <1>14, GoesOn

(* or the node above is over with it.                                      *)
LEMMA ReturnsAbove ==
  ASSUME ProcsInv, FlowInv, NEW p \in DOMAIN procs, procs[p].pc = "return", Len(procs[p].path) > 1,
         NEW rs, MeansInv(p, procs[p], rs),
         NEW above, above = procs[p].path[Len(procs[p].path) - 1],
         ~(Top(procs[p]) = Cmd1(procs[p].line, above)
             /\ RunsCmd2(Op(procs[p].line, above), procs[p].status)),
         NEW r2, r2.pc = "return", r2.line = procs[p].line, r2.no = procs[p].no,
         r2.cwd = procs[p].cwd, r2.env = procs[p].env, r2.was = procs[p].was,
         r2.status = procs[p].status, r2.path = SubSeq(procs[p].path, 1, Len(procs[p].path) - 1)
  PROVE  MeansInv(p, r2, rs)
<1> DEFINE r == procs[p]
           l == r.line
           n == Top(r)
           n1 == Cmd1(l, above)
           n2 == Cmd2(l, above)
           d == Len(r.path)
           a == r.path[1][1]
<1>1. r.pc \in Evaluating /\ r2.pc \in Evaluating
  BY DEF Evaluating
<1>2. l \in Lines /\ StackInv(r) /\ PartsInv(r) /\ r.path # <<>>
  BY <1>1, AtNode, ProcIs DEF FlowInv, WiringsInv, WiringInv
<1>3. Located(p, r) /\ ReadSoFar(r, rs) /\ Fresh(r, rs)
  BY <1>1 DEF MeansInv
<1>4. d \in Nat /\ d > 1 /\ r.path \in Seq(NodesOf(l))
  BY <1>2 DEF StackInv
<1>5. /\ above \in NodesOf(l) /\ n \in NodesOf(l) /\ n2 \in NodesOf(l) /\ ~IsLeaf(above) /\ n \in {n1, n2}
      /\ above[2] \in Nat /\ n[2] \in Nat /\ n[2] <= above[2] /\ n2[2] = above[2]
      /\ n1[2] = n2[1] - 1 /\ n2[1] \in Nat /\ n2[1] <= above[2] /\ n2[1] = n1[2] + 1
      /\ Sub(above, r.path[1])
  BY <1>2, Above
<1>6. /\ r2.path[1] = r.path[1] /\ Top(r2) = above /\ Len(r2.path) = d - 1
      /\ \A k \in 1..(d - 1) : r2.path[k] = r.path[k]
  <2>1. r2.path[1] = r.path[1] /\ Top(r2) = above
    BY <1>2, Shallower
  <2>2. Len(r2.path) = d - 1 /\ \A k \in 1..(d - 1) : r2.path[k] = r.path[k]
    BY <1>4
  <2> QED  BY <2>1, <2>2
<1>7. \A k \in 1..(d - 1) : Op(l, r.path[k]) \in Sequential
  BY <1>3 DEF Located
<1>8. /\ d - 1 \in 1..(d - 1) /\ \A k \in 1..(d - 1) : k \in 1..d
      /\ \A k \in 1..((d - 1) - 1) : k \in 1..(d - 1)
  <2> HIDE DEF d
  <2> QED  BY <1>4
<1>9. Op(l, above) \in Sequential
  BY <1>7, <1>8
<1>10. Bordered(l, n)
  BY <1>2, TopIsPlaced
<1>11. PICK e : Reads(rs, r.no, l, a, n[2], e) /\ Leaves(l, n, r.status, e)
  BY <1>3 DEF ReadSoFar
<1> HIDE DEF n2, n1, a
<1>12. \E f : Reads(rs, r.no, l, a, above[2], f) /\ Leaves(l, above, r.status, f)
  <2>1. CASE n = n2
    <3>1. Leaves(l, above, r.status, e)
      BY <1>2, <1>5, <1>9, <1>10, <1>11, <2>1, LeavesParent DEF n2
    <3> QED  BY <1>5, <1>11, <2>1, <3>1
  <2>2. CASE n # n2
    <3>1. n = n1 /\ ~RunsCmd2(Op(l, above), r.status)
      BY <1>5, <2>2 DEF n1
    <3>2. \A i \in n2[1]..above[2] : ~Recorded(rs, r.no, i)
      <4>1. Front(r) = n[2] + 1
        BY DEF Front
      <4>2. above[2] <= r.path[1][2] /\ r.path[1][2] \in Nat
        <5>1. r.path[1] \in NodesOf(l)
          BY <1>2, TopIs
        <5> QED  BY <1>5, <5>1, NodeIs DEF Sub
      <4>3. \A i \in n2[1]..above[2] : i \in (n[2] + 1)..r.path[1][2]
        <5> DEFINE b == r.path[1][2]
                   c == above[2]
        <5>1. n2[1] = n[2] + 1
          BY <1>5, <3>1
        <5>2. c \in Nat /\ b \in Nat /\ c <= b /\ n2[1] \in Nat
          BY <1>5, <4>2
        <5> HIDE DEF b, c, n
        <5>3. \A i \in n2[1]..c : i \in (n[2] + 1)..b
          BY <5>1, <5>2
        <5> QED  BY <5>3 DEF b, c
      <4> QED  BY <1>3, <4>1, <4>3 DEF Fresh
    <3>3. Passes(rs, r.no, l, n2[1], above[2], e) /\ Leaves(l, above, r.status, Pass(e))
      BY <1>2, <1>5, <1>9, <1>10, <1>11, <3>1, <3>2, PassesCmd2 DEF n2, n1
    <3>4. Reads(rs, r.no, l, a, n2[1] - 1, e)
      BY <1>5, <1>11, <3>1
    <3>5. a \in Int /\ n2[1] \in Int /\ above[2] \in Int /\ a < n2[1]
      <4>1. a \in Nat /\ a <= above[1]
        <5>1. r.path[1] \in NodesOf(l)
          BY <1>2, TopIs
        <5> QED  BY <1>5, <5>1, NodeIs DEF Sub, a
      <4>2. above[1] \in Nat /\ above[1] < n2[1]
        BY <1>2, <1>5, NodeIs, OperandsAre DEF n2
      <4> HIDE DEF l
      <4> QED  BY <1>5, <4>1, <4>2
    <3>6. Reads(rs, r.no, l, a, above[2], Pass(e))
      BY <1>5, <3>3, <3>4, <3>5, ReadsPast
    <3> QED  BY <3>3, <3>6
  <2> QED  BY <2>1, <2>2
<1>13. ReadSoFar(r2, rs)
  BY <1>6, <1>12 DEF ReadSoFar, a
<1>14. Located(p, r2)
  <2>1. \A k \in 1..(Len(r2.path) - 1) : Op(r2.line, r2.path[k]) \in Sequential
    BY <1>6, <1>7, <1>8
  <2>2. ASSUME p = Shell
        PROVE  r2.path[1] = Root(r2.line) /\ \A k \in 1..Len(r2.path) : Outer(r2.line, r2.path[k])
    <3>1. r.path[1] = Root(l) /\ \A k \in 1..d : Outer(l, r.path[k])
      BY <1>3, <2>2 DEF Located
    <3> QED  BY <1>6, <1>8, <3>1
  <2>3. p # Shell => Inner(r2.line, r2.path[1]) /\ Chain(r2.line, r2.path[1])
    BY <1>3, <1>4, <1>6 DEF Located
  <2> QED  BY <2>1, <2>2, <2>3 DEF Located
<1>15. Front(r2) \in Nat /\ Front(r) <= Front(r2)
  <2>1. Front(r2) = above[2] + 1 /\ Front(r) = n[2] + 1
    BY <1>6 DEF Front
  <2> HIDE DEF n, r
  <2> QED  BY <1>5, <2>1, SMTT(30)
<1>16. Unmoved(r, r2)
  BY <1>6 DEF Unmoved
<1> QED  BY <1>1, <1>13, <1>14, <1>15, <1>16, GoesOn

LEMMA ReturnFromCommandMeans ==
  ASSUME ProcsInv, FlowInv, Means, NEW p \in DOMAIN procs, ReturnFromCommand(p)
  PROVE  Means'
<1> DEFINE r == procs[p]
           depth == Len(r.path)
           above == r.path[depth - 1]
           n2 == Cmd2(r.line, above)
           onward == Node(p) = Cmd1(r.line, above) /\ RunsCmd2(Op(r.line, above), r.status)
           s == [r EXCEPT !.pc = "free", !.path = <<>>]
           r1 == IF p = Shell THEN s ELSE Exits(r, r.status)
           r2 == [r EXCEPT !.pc = "eval", !.path = ThenCmd2(@, n2)]
           r3 == [r EXCEPT !.path = SubSeq(@, 1, depth - 1)]
<1>1. /\ r.pc = "return" /\ UNCHANGED results /\ r.pc \in Evaluating
      /\ Becomes(p, IF depth = 1 THEN r1 ELSE IF onward THEN r2 ELSE r3)
  BY DEF ReturnFromCommand, Evaluating
<1>2. DOMAIN r = Fields /\ Node(p) = Top(r) /\ StackInv(r) /\ r.path # <<>>
  BY <1>1, AtNode, ProcIs
<1>3. depth = 1 \/ (depth > 1 /\ depth # 1)
  <2>1. depth \in Nat \ {0}
    BY <1>2, TopIs
  <2> HIDE DEF depth
  <2> QED  BY <2>1
<1>4. MeansInv(p, r, results)
  BY DEF Means
<1>5. CASE depth = 1
  <2>1. CASE p = Shell
    <3>1. /\ s.pc = "free" /\ s.line = r.line /\ s.no = r.no
          /\ s.cwd = r.cwd /\ s.env = r.env /\ s.was = r.was
      BY <1>2 DEF Fields
    <3>2. Becomes(p, s)
      BY <1>1, <1>5, <2>1
    <3> HIDE DEF s
    <3>3. MeansInv(p, s, results)
      BY <1>1, <1>4, <1>5, <2>1, <3>1, ShellReturns
    <3> QED  BY <1>1, <3>2, <3>3, MeansMoves
  <2>2. CASE p # Shell
    <3>1. Becomes(p, Exits(r, r.status))
      BY <1>1, <1>5, <2>2
    <3>2. MeansInv(p, Exits(r, r.status), results)
      BY <1>1, <1>4, <1>5, <2>2, CopyReturns
    <3> QED  BY <1>1, <3>1, <3>2, MeansMoves
  <2> QED  BY <2>1, <2>2
<1>6. CASE depth > 1 /\ depth # 1 /\ onward
  <2>1. /\ r2.pc = "eval" /\ r2.path = ThenCmd2(r.path, n2) /\ r2.line = r.line /\ r2.no = r.no
        /\ r2.cwd = r.cwd /\ r2.env = r.env /\ r2.was = r.was
    BY <1>2 DEF Fields
  <2>2. Becomes(p, r2)
    BY <1>1, <1>6
  <2>3. Top(r) = Cmd1(r.line, above) /\ RunsCmd2(Op(r.line, above), r.status) /\ Len(r.path) > 1
    BY <1>2, <1>6
  <2> HIDE DEF r2
  <2>4. MeansInv(p, r2, results)
    <3> DEFINE b == above
    <3>1. b = r.path[Len(r.path) - 1] /\ Top(r) = Cmd1(r.line, b) /\ RunsCmd2(Op(r.line, b), r.status)
          /\ r2.path = ThenCmd2(r.path, Cmd2(r.line, b))
      BY <2>1, <2>3
    <3> HIDE DEF b
    <3> QED  BY <1>1, <1>4, <2>1, <2>3, <3>1, ReturnsOnward
  <2> QED  BY <1>1, <2>2, <2>4, MeansMoves
<1>7. CASE depth > 1 /\ depth # 1 /\ ~onward
  <2>1. /\ r3.pc = "return" /\ r3.path = SubSeq(r.path, 1, depth - 1) /\ r3.line = r.line /\ r3.no = r.no
        /\ r3.cwd = r.cwd /\ r3.env = r.env /\ r3.was = r.was /\ r3.status = r.status
    BY <1>1, <1>2 DEF Fields
  <2>2. Becomes(p, r3)
    BY <1>1, <1>7
  <2>3. ~(Top(r) = Cmd1(r.line, above) /\ RunsCmd2(Op(r.line, above), r.status)) /\ Len(r.path) > 1
    BY <1>2, <1>7
  <2> HIDE DEF r3
  <2>4. MeansInv(p, r3, results)
    <3> DEFINE b == above
    <3>1. b = r.path[Len(r.path) - 1] /\ ~(Top(r) = Cmd1(r.line, b) /\ RunsCmd2(Op(r.line, b), r.status))
      BY <2>3
    <3> HIDE DEF b
    <3> QED  BY <1>1, <1>4, <2>1, <2>3, <3>1, ReturnsAbove
  <2> QED  BY <1>1, <2>2, <2>4, MeansMoves
<1> QED  BY <1>3, <1>5, <1>6, <1>7

(* What commands do says nothing of what a line means.                     *)
LEMMA CommandStepMeans ==
  ASSUME ProcsInv, Means, NEW p \in DOMAIN procs, CommandStep(p)
  PROVE  Means'
<1> DEFINE r == procs[p]
<1>1. /\ r.pc \in {"exec", "run"} /\ UNCHANGED results
      /\ \E x : Becomes(p, x) /\ x.pc \in {"exec", "run"} \cup Ended
  <2>0. r.pc \in {"exec", "run"}
    BY DEF CommandStep, ExecCommand, ReadUnit, SeeEnd, WriteUnit, BrokenPipe, Terminate
  <2>1. DOMAIN r = Fields
    BY <2>0, AtNode
  <2>2. CASE ExecCommand(p)
    <3> DEFINE x == [RedirectFds(r, Command(p)) EXCEPT !.pc = "run", !.left = Command(p).writes,
                                                       !.eof = ~Command(p).reads]
               y == Exits(r, Failure)
    <3>1. Becomes(p, x) \/ Becomes(p, y)
      BY <2>2 DEF ExecCommand
    <3>2. x.pc = "run" /\ y.pc = "exited"
      BY <2>1 DEF RedirectFds, Exits, Fields
    <3> HIDE DEF x, y
    <3> QED  BY <2>0, <2>2, <3>1, <3>2 DEF ExecCommand, Ended
  <2>3. CASE ReadUnit(p)
    <3> DEFINE x == [r EXCEPT !.got = Append(@, Head(pipes[r.in]))]
    <3>1. Becomes(p, x) /\ x.pc = r.pc
      BY <2>1, <2>3 DEF ReadUnit, Fields
    <3> HIDE DEF x
    <3> QED  BY <2>0, <2>3, <3>1 DEF ReadUnit
  <2>4. CASE SeeEnd(p)
    <3> DEFINE x == [r EXCEPT !.eof = TRUE]
    <3>1. Becomes(p, x) /\ x.pc = r.pc
      BY <2>1, <2>4 DEF SeeEnd, Fields
    <3> HIDE DEF x
    <3> QED  BY <2>0, <2>4, <3>1 DEF SeeEnd
  <2>5. CASE WriteUnit(p)
    <3> DEFINE x == [r EXCEPT !.left = @ - 1]
    <3>1. Becomes(p, x) /\ x.pc = r.pc
      BY <2>1, <2>5 DEF WriteUnit, Fields
    <3> HIDE DEF x
    <3> QED  BY <2>0, <2>5, <3>1 DEF WriteUnit
  <2>6. CASE BrokenPipe(p)
    <3> DEFINE x == [r EXCEPT !.pc = "killed", !.status = SigPipe, !.held = {}]
    <3>1. Becomes(p, x) /\ x.pc = "killed"
      BY <2>1, <2>6 DEF BrokenPipe, Fields
    <3> HIDE DEF x
    <3> QED  BY <2>0, <2>6, <3>1 DEF BrokenPipe, Ended
  <2>7. CASE Terminate(p)
    <3>1. PICK s \in Statuses : Becomes(p, Exits(r, s))
      BY <2>7 DEF Terminate
    <3>2. Exits(r, s).pc = "exited"
      BY <2>1 DEF Exits, Fields
    <3> QED  BY <2>0, <2>7, <3>1, <3>2 DEF Terminate, Ended
  <2> QED  BY <2>2, <2>3, <2>4, <2>5, <2>6, <2>7 DEF CommandStep
<1>2. PICK x : Becomes(p, x) /\ x.pc \in {"exec", "run"} \cup Ended
  BY <1>1
<1>3. Len(p) = 2
  BY <1>1, CommandIs
<1>4. MeansInv(p, x, results)
  BY <1>2, <1>3, CommandsMeanNothing
<1> QED  BY <1>1, <1>2, <1>4, MeansMoves

(* The main loop of the shell.                                             *)
LEMMA EndOfInputMeans ==
  ASSUME ProcsInv, Means, EndOfInput
  PROVE  Means'
<1> DEFINE s == procs[Shell]
           x == Exits(s, 0)
<1>1. Shell \in DOMAIN procs /\ Becomes(Shell, x) /\ UNCHANGED results
  BY DEF EndOfInput, ProcsInv
<1>2. x.pc = "exited"
  BY <1>1, ProcIs DEF PlaceInv, Exits, Fields
<1> HIDE DEF x
<1>3. x.pc \notin Evaluating /\ Len(Shell) # 3
  BY <1>2 DEF Evaluating, Shell
<1>4. MeansInv(Shell, x, results)
  BY <1>2, <1>3 DEF MeansInv
<1> QED  BY <1>1, <1>4, MeansMoves

LEMMA FreeParseMemoryMeans ==
  ASSUME ProcsInv, TreeInv, FreeParseMemory
  PROVE  Means'
<1> DEFINE s == procs[Shell]
           x == [s EXCEPT !.pc = IF freed THEN "killed" ELSE "prompt", !.status = 0,
                          !.line = NoLine, !.no = 0]
<1>1. Shell \in DOMAIN procs /\ Becomes(Shell, x) /\ results' = <<>> /\ s.pc = "free"
  BY DEF FreeParseMemory, ProcsInv
<1>2. DOMAIN procs = {Shell}
  <2>1. ASSUME NEW q \in DOMAIN procs, q # Shell PROVE FALSE
    <3>1. Below(s, q)
      BY <1>1, <2>1 DEF TreeInv, OwnInv, Covers
    <3>2. s.pc \in Alone
      BY <1>1 DEF Alone
    <3> HIDE DEF s
    <3> QED  BY <3>1, <3>2, NoneBelow
  <2> QED  BY <1>1, <2>1
<1>3. x.pc \in {"killed", "prompt"}
  BY <1>1, ProcIs DEF PlaceInv, Fields
<1> HIDE DEF x
<1>4. DOMAIN procs' = {Shell} /\ procs'[Shell] = x
  BY <1>1, <1>2 DEF Becomes
<1>5. x.pc \notin Evaluating \cup {"free"} /\ Len(Shell) # 3
  BY <1>3 DEF Evaluating, Shell
<1>6. MeansInv(Shell, x, results')
  BY <1>1, <1>5 DEF MeansInv
<1> QED  BY <1>4, <1>6 DEF Means

(* A line is entered at its first command, with nothing recorded.          *)
LEMMA ReadLineMeans ==
  ASSUME ProcsInv, TreeInv, Means, NEW l \in Lines, ReadLine(l)
  PROVE  Means'
<1> DEFINE s == procs[Shell]
           was == [cwd |-> s.cwd, env |-> s.env]
           x == [s EXCEPT !.pc = "eval", !.path = <<Root(l)>>, !.no = lineNo + 1, !.line = l, !.was = was]
<1>1. Shell \in DOMAIN procs /\ Becomes(Shell, x) /\ UNCHANGED results /\ s.pc = "prompt"
  BY DEF ReadLine, ProcsInv
<1>2. DOMAIN procs = {Shell} /\ DOMAIN s = Fields
  BY <1>1, AloneAtPrompt, ProcIs DEF PlaceInv
<1>3. results = <<>>
  BY <1>1 DEF Means, MeansInv
<1>4. /\ x.pc = "eval" /\ x.path = <<Root(l)>> /\ x.line = l
      /\ x.cwd = s.cwd /\ x.env = s.env /\ x.was = was
  BY <1>2 DEF Fields
<1>5. x.was.cwd = x.cwd /\ x.was.env = x.env
  BY <1>4
<1> HIDE DEF x
<1>6. DOMAIN procs' = {Shell} /\ procs'[Shell] = x
  BY <1>1, <1>2 DEF Becomes
<1>7. \A i : ~Recorded(results, x.no, i)
  BY <1>3 DEF Recorded
<1>8. Len(x.path) = 1 /\ x.path[1] = Root(l) /\ Top(x) = Root(l) /\ Root(l)[1] = 1
  BY <1>4 DEF Top, Root
<1>9. Located(Shell, x)
  <2>1. Outer(l, Root(l))
    BY OuterRoot
  <2>2. \A k \in 1..(Len(x.path) - 1) : FALSE
    BY <1>8
  <2>3. \A k \in 1..Len(x.path) : x.path[k] = Root(l)
    BY <1>8
  <2> QED  BY <1>4, <1>8, <2>1, <2>2, <2>3 DEF Located
<1>10. ReadSoFar(x, results)
  <2>1. At(x) = 1
    BY <1>4, <1>8 DEF At
  <2> QED  BY <1>4, <1>8, <2>1 DEF ReadSoFar, Entered
<1>11. Fresh(x, results)
  BY <1>7 DEF Fresh
<1>12. AsLeft(x, results)
  <2>1. \A verb : LastOf(results, x.no, x.line, verb) = {}
    BY <1>7 DEF LastOf
  <2>2. \A verb, w : FinalOf(results, x.no, x.line, verb, w) = w
    BY <2>1 DEF FinalOf
  <2> QED  BY <1>5, <2>2 DEF AsLeft
<1>13. x.pc \in Evaluating /\ x.pc \notin Ended /\ x.pc # "prompt" /\ x.pc # "free"
  BY <1>4 DEF Evaluating, Ended
<1>14. MeansInv(Shell, x, results)
  BY <1>9, <1>10, <1>11, <1>12, <1>13 DEF MeansInv
<1> QED  BY <1>1, <1>6, <1>14 DEF Means

LEMMA InitHasLineInv == Init => LineInv
<1> SUFFICES ASSUME Init PROVE Means
  BY DEF LineInv
<1> DEFINE s == procs[Shell]
<1>1. DOMAIN procs = {Shell} /\ s.pc = "prompt" /\ results = <<>>
  BY DEF Init
<1>2. s.pc \notin Evaluating \cup {"free"} /\ Len(Shell) # 3
  BY <1>1 DEF Evaluating, Shell
<1>3. MeansInv(Shell, s, results)
  <2> HIDE DEF s
  <2> QED  BY <1>1, <1>2 DEF MeansInv
<1> QED  BY <1>1, <1>3 DEF Means

LEMMA NextKeepsLineInv ==
  ASSUME ShellInv, FlowInv, LineInv, [Next]_vars
  PROVE  LineInv'
<1>0. ProcsInv /\ (fails = 0 => TreeInv) /\ fails \in Nat
  BY BoundsAssumption DEF ShellInv, ProcsInv
<1> SUFFICES ASSUME fails' = 0 PROVE Means'
  BY DEF LineInv
<1>1. fails = 0 /\ fails' = fails
  <2>1. fails' = fails \/ fails' = fails + 1
    BY DEF Next, Run, ShellStep, CommandStep, vars, Fork, EndOfInput, FreeParseMemory, ReadLine,
           Builtin, ForkCommand, WaitCommand, ForkOperand1, ForkOperand2, SetUpEnd, ClosePipe,
           WaitOperand1, WaitOperand2, EvalCmd1, ReturnFromCommand,
           ExecCommand, ReadUnit, SeeEnd, WriteUnit, BrokenPipe, Terminate
  <2> QED  BY <1>0, <2>1
<1>2. ProcsInv /\ TreeInv /\ FlowInv /\ Means
  BY <1>0, <1>1 DEF LineInv
<1>3. ASSUME UNCHANGED vars PROVE Means'
  BY <1>2, <1>3 DEF vars, Means
<1>4. ASSUME NEW l \in Lines, ReadLine(l) PROVE Means'
  BY <1>2, <1>4, ReadLineMeans
<1>5. ASSUME EndOfInput \/ FreeParseMemory PROVE Means'
  BY <1>2, <1>5, EndOfInputMeans, FreeParseMemoryMeans
<1>6. ASSUME NEW p \in DOMAIN procs, ShellStep(p) PROVE Means'
  <2>1. CASE Builtin(p)
    BY <1>2, <2>1, BuiltinMeans
  <2>2. CASE ForkCommand(p)
    BY <1>1, <1>2, <2>2, ForkCommandMeans
  <2>3. CASE WaitCommand(p)
    BY <1>2, <2>3, WaitCommandMeans
  <2>4. CASE ForkOperand1(p)
    BY <1>1, <1>2, <2>4, ForkOperand1Means
  <2>5. CASE ForkOperand2(p)
    BY <1>1, <1>2, <2>5, ForkOperand2Means
  <2>6. CASE SetUpEnd(p)
    BY <1>2, <2>6, SetUpEndMeans
  <2>7. CASE ClosePipe(p)
    BY <1>2, <2>7, ClosePipeMeans
  <2>8. CASE WaitOperand1(p)
    BY <1>2, <2>8, WaitOperand1Means
  <2>9. CASE WaitOperand2(p)
    BY <1>2, <2>9, WaitOperand2Means
  <2>10. CASE EvalCmd1(p)
    BY <1>2, <2>10, EvalCmd1Means
  <2>11. CASE ReturnFromCommand(p)
    BY <1>2, <2>11, ReturnFromCommandMeans
  <2> QED  BY <1>6, <2>1, <2>2, <2>3, <2>4, <2>5, <2>6, <2>7, <2>8, <2>9, <2>10, <2>11 DEF ShellStep
<1>7. ASSUME NEW p \in DOMAIN procs, CommandStep(p) PROVE Means'
  BY <1>2, <1>7, CommandStepMeans
<1> QED  BY <1>3, <1>4, <1>5, <1>6, <1>7 DEF Next, Run

(* The line that the shell is at the end of.                               *)
LEMMA MeansAsItRan ==
  ASSUME Means, Shell \in DOMAIN procs
  PROVE  RanWhatTheLineMeans
<1> DEFINE s == procs[Shell]
           l == s.line
           N == Len(l.cmds)
           leaves == 1..N
           result == [i \in leaves |-> IF <<s.no, i>> \in DOMAIN results THEN results[<<s.no, i>>] ELSE 0]
           m == Meaning(l, result)
           last(verb) == {i \in leaves : /\ l.cmds[i].verb = verb /\ m[i].runs /\ InShell(l, i)
                                         /\ result[i] = 0}
           final(verb, was) == LET is == last(verb) IN
             IF is = {} THEN was ELSE l.cmds[CHOOSE i \in is : \A j \in is : j <= i].arg
<1> SUFFICES ASSUME s.pc = "free"
             PROVE  /\ {i \in leaves : <<s.no, i>> \in DOMAIN results} = {i \in leaves : m[i].runs}
                    /\ ~m[N].over
                    /\ s.cwd = final("cd", s.was.cwd) /\ s.env = final("assign", s.was.env)
  BY DEF RanWhatTheLineMeans
<1>1. /\ l \in Lines /\ AsLeft(s, results)
      /\ \E e : Reads(results, s.no, l, 1, N, e) /\ ~e.over
  BY DEF Means, MeansInv
<1>2. PICK e : Reads(results, s.no, l, 1, N, e) /\ ~e.over
  BY <1>1
<1>3. N \in Nat \ {0}
  <2>1. Len(l.ops) \in Nat /\ N = Len(l.ops) + 1
    BY <1>1, LineIs
  <2> HIDE DEF N
  <2> QED  BY <2>1
<1>4. Agrees(results, s.no, l, result)
  BY DEF Agrees, ResultOf
<1> HIDE DEF result
<1>5. /\ \A i \in leaves : m[i].runs <=> Recorded(results, s.no, i)
      /\ ~m[N].over
  <2>1. Ran(results, s.no, l, m, e)
    BY <1>2, <1>3, <1>4, MeaningIs
  <2> HIDE DEF m
  <2> QED  BY <1>2, <2>1 DEF Ran
<1> HIDE DEF m
<1>6. {i \in leaves : <<s.no, i>> \in DOMAIN results} = {i \in leaves : m[i].runs}
  BY <1>5 DEF Recorded
<1>7. ASSUME NEW verb PROVE last(verb) = LastOf(results, s.no, l, verb)
  <2>1. \A i \in leaves : Recorded(results, s.no, i) => result[i] = results[<<s.no, i>>]
    BY <1>4 DEF Agrees, Recorded, ResultOf
  <2> QED  BY <1>5, <2>1 DEF LastOf
<1> HIDE DEF last
<1>8. ASSUME NEW verb, NEW was PROVE final(verb, was) = FinalOf(results, s.no, l, verb, was)
  <2> DEFINE Final(is) == IF is = {} THEN was ELSE l.cmds[CHOOSE i \in is : \A j \in is : j <= i].arg
             A == last(verb)
             B == LastOf(results, s.no, l, verb)
  <2>1. final(verb, was) = Final(A) /\ FinalOf(results, s.no, l, verb, was) = Final(B)
    BY DEF FinalOf
  <2>2. A = B
    BY <1>7
  <2> HIDE DEF Final, A, B, final
  <2> QED  BY <2>1, <2>2
<1> HIDE DEF final
<1>9. s.cwd = final("cd", s.was.cwd) /\ s.env = final("assign", s.was.env)
  BY <1>1, <1>8 DEF AsLeft
<1> QED  BY <1>5, <1>6, <1>9

\* At each point of each line the shell and each of its copies have reached the
\* command they are at by the rules of `;`, `&&`, `||`, `|` and `&`, with exactly
\* the commands recorded that those rules ran in front of it and none behind, and
\* a copy that ended left what its operand means: as long as no fork has failed.
THEOREM LineInvariant == Spec => []LineInv
<1>1. Init => ShellInv /\ FlowInv /\ LineInv
  BY InitHasShellInv, InitHasFlowInv, InitHasLineInv
<1>2. ShellInv /\ FlowInv /\ LineInv /\ [Next]_vars => (ShellInv /\ FlowInv /\ LineInv)'
  BY NextKeepsShellInv, NextKeepsFlowInv, NextKeepsLineInv
<1> QED  BY <1>1, <1>2, PTL DEF Spec

\* Whatever the copies, the commands and the waits of parse_command do in between,
\* at the end of a line exactly the commands ran that the line means when it is
\* read from left to right, given the statuses they returned, the shell went on
\* only if no exit of its own was among them, and its directory and its variable
\* are those the last cd and assignment in the shell itself left: for any lines,
\* any statuses of commands and any sizes of the pipes, while no fork has failed.
THEOREM LinesRunAsTheyMean == Spec => []RanWhatTheLineMeans
<1>1. ASSUME ShellInv, LineInv PROVE RanWhatTheLineMeans
  <2>1. CASE fails = 0
    BY <1>1, <2>1, MeansAsItRan DEF ShellInv, ProcsInv, LineInv
  <2>2. CASE fails # 0
    BY <2>2 DEF RanWhatTheLineMeans
  <2> QED  BY <2>1, <2>2
<1> QED  BY <1>1, ShellInvariant, LineInvariant, PTL

=============================================================================
