---------------------------- MODULE MCMiniShell ----------------------------
(* Values for the constants of MiniShell.                                  *)
EXTENDS MiniShell

Cmd == [verb |-> "external", arg |-> None, ok |-> TRUE, reads |-> FALSE, writes |-> 0,
        in |-> None, out |-> None, err |-> None, flags |-> {}]
True_ == Cmd
Writer(k) == [Cmd EXCEPT !.writes = k]
Filter(k) == [Cmd EXCEPT !.reads = TRUE, !.writes = k]
Cd(d) == [Cmd EXCEPT !.verb = "cd", !.arg = d]
BadCd == [Cmd EXCEPT !.verb = "cd", !.arg = "nowhere", !.ok = FALSE]
Pwd == [Cmd EXCEPT !.verb = "pwd"]
Exit == [Cmd EXCEPT !.verb = "exit"]
Set(v) == [Cmd EXCEPT !.verb = "assign", !.arg = v]

Line(cmds, ops) == [cmds |-> cmds, ops |-> ops]

MCLines == {
  Line(<<True_, Writer(1), True_, True_>>, <<"&&", "||", ";">>),
  Line(<<Writer(2), Filter(1), Filter(0)>>, <<"|", "|">>),
  Line(<<Writer(2), True_, Cd("dir")>>, <<"|", "&&">>),
  Line(<<True_, Writer(1), Filter(0), Pwd>>, <<"&", "|", ";">>),
  Line(<<Writer(2), Filter(0), Writer(1), Filter(0)>>, <<"|", ";", "|">>),
  Line(<<[Writer(1) EXCEPT !.out = "a"], Filter(0)>>, <<"|">>),
  Line(<<Cd("dir"), Set("v"), Exit, True_>>, <<"&", "&&", ";">>),
  Line(<<Exit, BadCd, Cd("dir")>>, <<"|", "||">>),
  Line(<<BadCd, Cd("dir"), Exit>>, <<"||", ";">>),
  Line(<<Set(None), Set("v")>>, <<"||">>),
  Line(<<[Writer(2) EXCEPT !.out = "a"], [Writer(1) EXCEPT !.out = "a", !.flags = {"out"}]>>, <<";">>),
  Line(<<[Pwd EXCEPT !.out = "a"], [Cd("dir") EXCEPT !.out = "b", !.err = "b", !.in = "a"]>>, <<"&&">>),
  Line(<<[Filter(1) EXCEPT !.in = "missing", !.out = "a"], [Pwd EXCEPT !.out = "denied"]>>, <<"||">>)}

MCFiles == {"a", "b"}

AppendLines == {
  Line(<<[Writer(1) EXCEPT !.out = "a"],
         [Writer(1) EXCEPT !.out = "a", !.err = "b", !.flags = f]>>, <<";">>) : f \in SUBSET {"out", "err"}}
=============================================================================
