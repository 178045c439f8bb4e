----------------------------- MODULE HttpAnswers -----------------------------
(***************************************************************************)
(* What the web server promises (src/async-web-server/README.md): each     *)
(* client is sent the header and then the file it asked for, from start to *)
(* end, and nothing on a connection that is closed.                        *)
(***************************************************************************)
EXTENDS Integers, Sequences

CONSTANT Clients

VARIABLES answer,       \* what each client is to be sent
          sent,
          closed

vars == <<answer, sent, closed>>

Init == /\ answer \in [Clients -> Seq(Int)]
        /\ sent = [c \in Clients |-> <<>>]
        /\ closed = {}

Send(c) ==
    /\ c \notin closed
    /\ \E n \in Len(sent[c]) + 1 .. Len(answer[c]) :
          sent' = [sent EXCEPT ![c] = SubSeq(answer[c], 1, n)]
    /\ UNCHANGED <<answer, closed>>

Close(c) == closed' = closed \cup {c} /\ UNCHANGED <<answer, sent>>

Next == \E c \in Clients : Send(c) \/ Close(c)

Spec == Init /\ [][Next]_vars
=============================================================================
