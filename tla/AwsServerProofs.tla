--------------------------- MODULE AwsServerProofs ---------------------------
(***************************************************************************)
(* The web server, for any clients, requests, buffer and socket sizes:     *)
(* proofs of ServerInv, of TransferInv, and that it implements HttpAnswers. *)
(***************************************************************************)
EXTENDS AwsServer, SequenceTheorems, TLAPS

-----------------------------------------------------------------------------
(* Sequences *)

LEMMA PiecesAreUnits ==
    ASSUME NEW pos \in Nat, NEW len \in Nat
    PROVE  /\ Pieces(pos, len) \in Seq(Nat) /\ Pieces(pos, len) \in Seq(Int)
           /\ Len(Pieces(pos, len)) = len
           /\ \A i \in 1 .. len : Pieces(pos, len)[i] = pos + i
  BY DEF Pieces

(* What is sent after the first n units of an answer, if it is the next    *)
(* units of it, leaves the first n + Len(pieces) sent.                     *)
LEMMA PrefixGrows ==
    ASSUME NEW A \in Seq(Int), NEW n \in Nat, NEW pieces \in Seq(Int),
           n + Len(pieces) <= Len(A),
           \A k \in 1 .. Len(pieces) : pieces[k] = A[n + k]
    PROVE  SubSeq(A, 1, n) \o pieces = SubSeq(A, 1, n + Len(pieces))
<1> DEFINE S == SubSeq(A, 1, n)
           T == SubSeq(A, 1, n + Len(pieces))
<1>1. /\ S \in Seq(Int) /\ Len(S) = n
      /\ \A i \in 1 .. n : S[i] = A[i]
  BY SubSeqProperties
<1>2. /\ T \in Seq(Int) /\ Len(T) = n + Len(pieces)
      /\ \A i \in 1 .. n + Len(pieces) : T[i] = A[i]
  BY SubSeqProperties
<1>3. /\ S \o pieces \in Seq(Int) /\ Len(S \o pieces) = n + Len(pieces)
      /\ \A i \in 1 .. n + Len(pieces) :
            (S \o pieces)[i] = IF i <= n THEN S[i] ELSE pieces[i - n]
  BY <1>1, ConcatProperties
<1>4. ASSUME NEW i \in 1 .. n + Len(pieces) PROVE (S \o pieces)[i] = T[i]
  <2>1. CASE i <= n
    BY <2>1, <1>1, <1>2, <1>3
  <2>2. CASE i > n
    <3>1. i - n \in 1 .. Len(pieces) /\ n + (i - n) = i
      BY <2>2
    <3> QED BY <2>2, <3>1, <1>2, <1>3
  <2> QED BY <2>1, <2>2
<1> QED BY <1>2, <1>3, <1>4, SeqEqual

LEMMA WholeFile ==
    ASSUME NEW size \in Nat
    PROVE  LET A == <<Header>> \o Pieces(0, size)
           IN  /\ A \in Seq(Int) /\ Len(A) = 1 + size /\ A[1] = Header
               /\ \A k \in 1 .. size : A[1 + k] = k
<1> DEFINE H == <<Header>>
           P == Pieces(0, size)
<1>1. P \in Seq(Int) /\ Len(P) = size /\ \A k \in 1 .. size : P[k] = k
  <2>1. 0 \in Nat
    OBVIOUS
  <2>2. /\ P \in Seq(Int) /\ Len(P) = size
        /\ \A k \in 1 .. size : P[k] = 0 + k
    BY <2>1, PiecesAreUnits
  <2> QED BY <2>2
<1>2. H \in Seq(Int) /\ Len(H) = 1 /\ H[1] = Header
  BY DEF Header
<1> HIDE DEF H, P
<1>3. /\ H \o P \in Seq(Int) /\ Len(H \o P) = 1 + size
      /\ \A i \in 1 .. 1 + size : (H \o P)[i] = IF i <= 1 THEN H[i] ELSE P[i - 1]
  <2>1. /\ H \o P \in Seq(Int) /\ Len(H \o P) = Len(H) + Len(P)
        /\ \A i \in 1 .. Len(H) + Len(P) :
              (H \o P)[i] = IF i <= Len(H) THEN H[i] ELSE P[i - Len(H)]
    BY <1>1, <1>2, ConcatProperties
  <2> QED BY <2>1, <1>1, <1>2
<1>4. (H \o P)[1] = Header
  BY <1>2, <1>3
<1>5. ASSUME NEW k \in 1 .. size PROVE (H \o P)[1 + k] = k
  <2>1. 1 + k \in 1 .. 1 + size /\ ~(1 + k <= 1) /\ 1 + k - 1 = k
    OBVIOUS
  <2> QED BY <2>1, <1>1, <1>3
<1> QED BY <1>3, <1>4, <1>5 DEF H, P

(* The answer of a request that finds its file is the header and the units *)
(* 1, 2, ... of the file; that of any other one a unit.                    *)
LEMMA AnswerIs ==
    ASSUME TypeOK, NEW c \in Clients
    PROVE  /\ Answer(c) \in Seq(Int)
           /\ Found(c) => /\ request[c].size \in Nat
                          /\ Len(Answer(c)) = 1 + request[c].size
                          /\ Answer(c)[1] = Header
                          /\ \A k \in 1 .. request[c].size : Answer(c)[1 + k] = k
           /\ ~Found(c) => Answer(c) = <<NotFound>>
<1>1. request[c] \in [type : {"static", "dynamic", "other"}, size : Nat \cup {Missing}]
  BY ServerAssumption DEF TypeOK
<1>2. CASE ~Found(c)
  BY <1>2 DEF Answer, NotFound
<1>3. CASE Found(c)
  <2>1. request[c].size \in Nat
    BY <1>1, <1>3 DEF Found
  <2>2. Answer(c) = <<Header>> \o Pieces(0, request[c].size)
    BY <1>3 DEF Answer
  <2> QED BY <1>3, <2>1, <2>2, WholeFile
<1> QED BY <1>2, <1>3

LEMMA OneUnit ==
    ASSUME NEW S, NEW u \in S
    PROVE  <<u>> \in Seq(S) /\ Len(<<u>>) = 1 /\ <<u>>[1] = u
  OBVIOUS

LEMMA FirstUnit ==
    ASSUME NEW S, NEW A \in Seq(S), Len(A) >= 1
    PROVE  SubSeq(A, 1, 1) = <<A[1]>>
<1>1. Len(A) \in Nat /\ A[1] \in S
  BY LenProperties, ElementOfSeq
<1>2. /\ SubSeq(A, 1, 1) \in Seq(S) /\ Len(SubSeq(A, 1, 1)) = 1
      /\ SubSeq(A, 1, 1)[1] = A[1]
  BY <1>1, SubSeqProperties
<1>3. <<A[1]>> \in Seq(S) /\ Len(<<A[1]>>) = 1 /\ <<A[1]>>[1] = A[1]
  BY <1>1, OneUnit
<1>4. \A i \in 1 .. Len(SubSeq(A, 1, 1)) : SubSeq(A, 1, 1)[i] = <<A[1]>>[i]
  BY <1>2, <1>3
<1> QED BY <1>2, <1>3, <1>4, SeqEqual

LEMMA PositiveNumbers == Segments \in Nat /\ BufSize \in Nat \ {0} /\ SocketRoom \in Nat \ {0}
  BY ServerAssumption

-----------------------------------------------------------------------------
(* Clients and the kernel *)

(* What the invariant says of the server does not depend on its clients.   *)
LEMMA ServerStateOnly ==
    ASSUME InputInv, HandlerInv, DynamicInv,
           UNCHANGED <<request, conn, events, aio, sent, pc, cur, offset>>
    PROVE  InputInv' /\ HandlerInv' /\ DynamicInv'
<1>1. /\ \A c : (Found(c) <=> Found(c)') /\ Answer(c)' = Answer(c) /\ ToRead(c)' = ToRead(c)
      /\ \A c : (Unsent(c) <=> Unsent(c)') /\ Pending(c)' = Pending(c)
      /\ \A c : NotBegun(c) <=> NotBegun(c)'
  BY DEF Found, Answer, ToRead, Unsent, Pending, NotBegun
<1>2. \A c, n : IsSent(c, n) <=> IsSent(c, n)'
  BY <1>1 DEF IsSent
<1>3. \A c, first, last, units : Holds(c, first, last, units) <=> Holds(c, first, last, units)'
  BY DEF Holds
<1>4. InputInv'
  BY <1>1 DEF InputInv
<1>5. HandlerInv'
  BY <1>1, <1>2 DEF HandlerInv
<1>6. \A c : Transfer(c) <=> Transfer(c)'
  BY <1>1, <1>2, <1>3 DEF Transfer
<1>7. DynamicInv'
  BY <1>6 DEF DynamicInv
<1> QED BY <1>4, <1>5, <1>7

LEMMA ClientStep ==
    ASSUME ServerInv, NEW c \in Clients, Client(c)
    PROVE  ServerInv'
<1> USE DEF serverVars, kernelVars
<1>0. TypeOK /\ InputInv /\ HandlerInv /\ DynamicInv /\ TransferIsRearmed
  BY DEF ServerInv
<1>1. UNCHANGED <<request, conn, events, aio, sent, pc, cur, offset, fault>>
  BY DEF Client, Connect, SendSegment, Receive, Leave
<1>2. InputInv' /\ HandlerInv' /\ DynamicInv'
  BY <1>0, <1>1, ServerStateOnly
<1>3. \A b \in Clients : Answer(b)' = Answer(b)
  BY <1>1 DEF Answer, Found
<1>4. ASSUME Connect(c) PROVE TypeOK' /\ TransferIsRearmed'
  BY <1>0, <1>1, <1>3, <1>4 DEF TypeOK, Connect, TransferIsRearmed
<1>5. ASSUME SendSegment(c) PROVE TypeOK' /\ TransferIsRearmed'
  <2>1. unsent[c] - 1 \in 0 .. Segments
    <3>1. unsent[c] \in 0 .. Segments /\ unsent[c] > 0
      BY <1>0, <1>5 DEF TypeOK, SendSegment
    <3> QED BY <3>1, PositiveNumbers
  <2> QED BY <1>0, <1>1, <1>3, <1>5, <2>1 DEF TypeOK, SendSegment, TransferIsRearmed
<1>6. ASSUME Receive(c) PROVE TypeOK' /\ TransferIsRearmed'
  <2>1. sent \in [Clients -> Seq(Piece)] /\ Len(sent[c]) \in Nat /\ taken[c] \in Nat
    BY <1>0, LenProperties DEF TypeOK
  <2>2. TypeOK'
    BY <1>0, <1>1, <1>6, <2>1 DEF TypeOK, Receive
  <2>3. /\ peer[c] # "reset" /\ taken[c] < Len(sent[c])
        /\ peer' = peer
        /\ taken' = [taken EXCEPT ![c] = Len(sent[c])]
        /\ ready' = [ready EXCEPT ![c] = IF @ = "awaited" THEN "yes" ELSE @]
    BY <1>6 DEF Receive
  <2>4. ready \in [Clients -> {"no", "yes", "awaited"}] /\ taken \in [Clients -> Nat]
    BY <1>0 DEF TypeOK
  <2>5. TransferIsRearmed'
    BY <1>0, <1>1, <1>3, <2>3, <2>4 DEF TransferIsRearmed
  <2> QED BY <2>2, <2>5
<1>7. ASSUME NEW how \in {"shut", "reset"}, Leave(c, how)
      PROVE  TypeOK' /\ TransferIsRearmed'
  BY <1>0, <1>1, <1>3, <1>7 DEF TypeOK, Leave, TransferIsRearmed
<1> QED BY <1>2, <1>4, <1>5, <1>6, <1>7 DEF Client, ServerInv

-----------------------------------------------------------------------------
(* The invariant one connection at a time *)

Rearmed(c) ==
    events[c] = "out" /\ Len(sent[c]) < Len(Answer(c)) /\ peer[c] # "reset" =>
        \/ ready[c] = "yes"
        \/ ready[c] = "awaited" /\ taken[c] < Len(sent[c])
        \/ cur = c /\ pc # "epoll_wait"

ConnectionInv(c) ==
    /\ events[c] = "none" => NotBegun(c)
    /\ conn[c].state = "NO_STATE" <=> events[c] = "none"
    /\ events[c] = "in" /\ (cur = c => pc = "epoll_wait") => NotBegun(c)
    /\ events[c] = "out" => Transfer(c)
    /\ aio[c].status # "none" => events[c] = "out"
    /\ Rearmed(c)

LEMMA ByConnection ==
    ServerInv <=> TypeOK /\ HandlerInv /\ \A c \in Clients : ConnectionInv(c)
  BY DEF ServerInv, InputInv, DynamicInv, TransferIsRearmed, ConnectionInv, Rearmed

LEMMA ByConnectionPrime ==
    ASSUME TypeOK', HandlerInv', \A c \in Clients : ConnectionInv(c)'
    PROVE  ServerInv'
  BY DEF ServerInv, InputInv, DynamicInv, TransferIsRearmed, ConnectionInv, Rearmed

(* The answer and what is sent of it depend on few variables, and not on   *)
(* the state of the connection.                                            *)
LEMMA SameFields ==
    ASSUME NEW c, request' = request, sent'[c] = sent[c], aio'[c] = aio[c],
           conn'[c].filePos = conn[c].filePos, conn'[c].buffer = conn[c].buffer,
           conn'[c].sendLen = conn[c].sendLen, conn'[c].sendPos = conn[c].sendPos
    PROVE  /\ Answer(c)' = Answer(c) /\ (Found(c) <=> Found(c)')
           /\ NotBegun(c) => NotBegun(c)'
           /\ \A n : IsSent(c, n) => IsSent(c, n)'
           /\ Transfer(c) => Transfer(c)'
<1>1. /\ (Found(c) <=> Found(c)') /\ Answer(c)' = Answer(c) /\ ToRead(c)' = ToRead(c)
      /\ Pending(c)' = Pending(c) /\ (NotBegun(c) <=> NotBegun(c)')
  BY DEF Found, Answer, ToRead, Pending, NotBegun
<1>2. \A n : IsSent(c, n) <=> IsSent(c, n)'
  BY <1>1 DEF IsSent
<1>3. \A first, last, units : Holds(c, first, last, units) <=> Holds(c, first, last, units)'
  BY DEF Holds
<1> QED BY <1>1, <1>2, <1>3 DEF Transfer

LEMMA SameTransfer ==
    ASSUME NEW c, request' = request,
           conn'[c] = conn[c], sent'[c] = sent[c], aio'[c] = aio[c]
    PROVE  /\ Answer(c)' = Answer(c) /\ (Found(c) <=> Found(c)')
           /\ NotBegun(c) => NotBegun(c)'
           /\ Transfer(c) => Transfer(c)'
  BY SameFields

(* A step of the server for one connection leaves the others as they are.  *)
LEMMA OtherConnection ==
    ASSUME NEW d \in Clients, ConnectionInv(d), request' = request,
           conn'[d] = conn[d], sent'[d] = sent[d], aio'[d] = aio[d],
           events'[d] = events[d], ready'[d] = ready[d],
           peer'[d] = peer[d], taken'[d] = taken[d],
           d # cur', d = cur => pc = "epoll_wait"
    PROVE  ConnectionInv(d)'
<1>1. /\ Answer(d)' = Answer(d)
      /\ NotBegun(d) => NotBegun(d)'
      /\ Transfer(d) => Transfer(d)'
  BY SameTransfer
<1>2. Rearmed(d)'
  BY <1>1 DEF ConnectionInv, Rearmed
<1> QED BY <1>1, <1>2 DEF ConnectionInv

(* A step of the server for one connection keeps the invariant if it does  *)
(* so for that connection and for the place the server gets to.            *)
LEMMA ServesOne ==
    ASSUME ServerInv, NEW c \in Clients, cur' = c, cur = c \/ pc = "epoll_wait",
           UNCHANGED <<request, peer, taken>>,
           \A d \in Clients \ {c} :
               /\ conn'[d] = conn[d] /\ sent'[d] = sent[d] /\ aio'[d] = aio[d]
               /\ events'[d] = events[d] /\ ready'[d] = ready[d],
           TypeOK', HandlerInv', ConnectionInv(c)'
    PROVE  ServerInv'
<1>1. \A d \in Clients : ConnectionInv(d)
  BY ByConnection
<1>2. ASSUME NEW d \in Clients, d # c PROVE ConnectionInv(d)'
  BY <1>1, <1>2, OtherConnection
<1>3. \A d \in Clients : ConnectionInv(d)'
  BY <1>2
<1> QED BY <1>3, ByConnectionPrime

LEMMA AcceptStep ==
    ASSUME ServerInv, NEW c \in Clients, Accept(c)
    PROVE  ServerInv'
<1> USE DEF clientVars, SetState, At
<1>0. TypeOK /\ HandlerInv /\ \A d \in Clients : ConnectionInv(d)
  BY ByConnection
<1>1. /\ pc = "epoll_wait" /\ conn[c].state = "NO_STATE"
      /\ conn' = [conn EXCEPT ![c].state = "INITIAL"]
      /\ events' = [events EXCEPT ![c] = "in"]
      /\ UNCHANGED <<clientVars, ready, aio, sent, pc, cur, offset, fault>>
  BY DEF Accept
<1>2. /\ conn \in [Clients -> Connection]
      /\ events \in [Clients -> {"none", "in", "out", "removed"}]
  BY <1>0 DEF TypeOK
<1>3. TypeOK'
  <2>1. conn' \in [Clients -> Connection]
    BY <1>1, <1>2 DEF States, Connection
  <2>2. events' \in [Clients -> {"none", "in", "out", "removed"}]
    BY <1>1, <1>2
  <2> QED BY <1>0, <1>1, <2>1, <2>2 DEF TypeOK
<1>4. HandlerInv'
  BY <1>1 DEF HandlerInv
<1>5. ConnectionInv(c)'
  <2>1. NotBegun(c) /\ aio[c].status = "none"
    BY <1>0, <1>1 DEF ConnectionInv
  <2> QED BY <1>1, <1>2, <2>1 DEF Connection, ConnectionInv, NotBegun, Rearmed
<1>6. ASSUME NEW d \in Clients, d # c PROVE ConnectionInv(d)'
  <2>1. conn'[d] = conn[d] /\ events'[d] = events[d]
    BY <1>1, <1>2, <1>6
  <2>2. Transfer(d) => Transfer(d)'
    BY <1>1, <2>1, SameTransfer
  <2>3. Answer(d)' = Answer(d) /\ (NotBegun(d) => NotBegun(d)')
    BY <1>1, <2>1, SameTransfer
  <2> QED BY <1>0, <1>1, <2>1, <2>2, <2>3 DEF ConnectionInv, Rearmed
<1> QED BY <1>3, <1>4, <1>5, <1>6, ByConnectionPrime

(* epoll reports an event of c, whose handler starts. *)
LEMMA EventStep ==
    ASSUME ServerInv, NEW c \in Clients, Input(c) \/ Output(c)
    PROVE  ServerInv'
<1> USE DEF clientVars, kernelVars, SetState, At
<1>0. TypeOK /\ HandlerInv /\ \A d \in Clients : ConnectionInv(d)
  BY ByConnection
<1>t. /\ conn \in [Clients -> Connection] /\ ready \in [Clients -> {"no", "yes", "awaited"}]
  BY <1>0 DEF TypeOK
<1>1. CASE Input(c)
  <2>1. /\ pc = "epoll_wait" /\ pc' = "recv" /\ cur' = c /\ events[c] = "in"
        /\ conn' = [conn EXCEPT ![c].state = "RECEIVING_DATA"]
        /\ UNCHANGED <<clientVars, kernelVars, offset, fault>>
    BY <1>1 DEF Input
  <2>2. TypeOK'
    <3>1. conn' \in [Clients -> Connection]
      BY <1>t, <2>1 DEF Connection, States
    <3> QED BY <1>0, <2>1, <3>1 DEF TypeOK
  <2>3. NotBegun(c) /\ NotBegun(c)' /\ aio[c].status = "none" /\ conn[c].state # "NO_STATE"
    BY <1>0, <1>t, <2>1 DEF ConnectionInv, NotBegun, Connection
  <2>4. HandlerInv'
    BY <2>1, <2>3 DEF HandlerInv
  <2>5. ConnectionInv(c)'
    BY <1>t, <2>1, <2>3 DEF ConnectionInv, Rearmed, Connection
  <2> QED BY <1>t, <2>1, <2>2, <2>4, <2>5, ServesOne
<1>2. CASE Output(c)
  <2>1. /\ pc = "epoll_wait" /\ pc' = "getevents" /\ cur' = c /\ events[c] = "out"
        /\ ready' = [ready EXCEPT ![c] = "no"]
        /\ UNCHANGED <<clientVars, events, aio, sent, conn, offset, fault>>
    BY <1>2 DEF Output
  <2>2. TypeOK'
    BY <1>0, <2>1 DEF TypeOK
  <2>3. Transfer(c)'
    BY <1>0, <2>1, SameTransfer DEF ConnectionInv
  <2>4. HandlerInv'
    BY <2>1 DEF HandlerInv
  <2>5. ConnectionInv(c)'
    BY <1>0, <2>1, <2>3 DEF ConnectionInv, Rearmed
  <2> QED BY <1>t, <2>1, <2>2, <2>4, <2>5, ServesOne
<1> QED BY <1>1, <1>2

-----------------------------------------------------------------------------
(* The handlers *)

LEMMA FaultStep ==
    ASSUME ServerInv, RecvFails \/ SendHeaderFails \/ NoCompletion
    PROVE  ServerInv'
<1> USE DEF clientVars, kernelVars, At
<1>0. TypeOK /\ HandlerInv /\ \A d \in Clients : ConnectionInv(d)
  BY ByConnection
<1>1. /\ pc' = "crashed" /\ fault' \in {"freed connection", "no completion"}
      /\ UNCHANGED <<conn, cur, offset, clientVars, kernelVars>>
  BY DEF RecvFails, SendHeaderFails, NoCompletion, Fault
<1>2. TypeOK' /\ cur \in Clients
  BY <1>0, <1>1 DEF TypeOK
<1>3. HandlerInv'
  BY <1>1 DEF HandlerInv
<1>4. ConnectionInv(cur)'
  <2>1. (NotBegun(cur) => NotBegun(cur)') /\ (Transfer(cur) => Transfer(cur)')
    BY <1>1, SameTransfer
  <2> QED BY <1>0, <1>1, <1>2, <2>1 DEF ConnectionInv, Rearmed
<1> QED BY <1>1, <1>2, <1>3, <1>4, ServesOne

LEMMA RecvStep ==
    ASSUME ServerInv, Recv
    PROVE  ServerInv'
<1> USE DEF kernelVars, SetState, At, Goto
<1>0. /\ TypeOK /\ HandlerInv /\ ConnectionInv(cur) /\ cur \in Clients
      /\ conn \in [Clients -> Connection] /\ arrived \in [Clients -> BOOLEAN]
  BY ByConnection DEF TypeOK
<1>1. /\ pc = "recv" /\ pc' \in {"recv", "parse"}
      /\ arrived' = [arrived EXCEPT ![cur] = FALSE]
      /\ UNCHANGED <<request, peer, unsent, taken, kernelVars, cur, offset, fault>>
      /\ \/ pc' = "recv" /\ conn' = conn
         \/ pc' = "parse" /\ conn' = [conn EXCEPT ![cur].state = "REQUEST_RECEIVED"]
  BY DEF Recv
<1>2. /\ NotBegun(cur) /\ NotBegun(cur)' /\ events[cur] = "in"
      /\ aio[cur].status = "none" /\ conn[cur].state # "NO_STATE"
  BY <1>0, <1>1 DEF HandlerInv, ConnectionInv, NotBegun, Connection
<1>3. TypeOK'
  <2>1. conn' \in [Clients -> Connection]
    BY <1>0, <1>1, ZenonT(30) DEF Connection, States
  <2> QED BY <1>0, <1>1, <2>1 DEF TypeOK
<1>4. HandlerInv'
  BY <1>0, <1>1, <1>2 DEF HandlerInv, Connection
<1>5. ConnectionInv(cur)'
  BY <1>0, <1>1, <1>2 DEF ConnectionInv, Rearmed, Connection
<1> QED BY <1>0, <1>1, <1>3, <1>4, <1>5, ServesOne

LEMMA ParseStep ==
    ASSUME ServerInv, Parse
    PROVE  ServerInv'
<1> USE DEF clientVars, kernelVars, At, Goto
<1>0. /\ TypeOK /\ HandlerInv /\ ConnectionInv(cur) /\ cur \in Clients
      /\ conn \in [Clients -> Connection]
  BY ByConnection DEF TypeOK
<1> DEFINE answer == IF Found(cur) THEN <<Header>> ELSE <<NotFound>>
           state == IF Found(cur) THEN conn[cur].state ELSE "SENDING_404"
<1>1. /\ pc = "parse" /\ pc' = "header"
      /\ conn' = [conn EXCEPT ![cur] = [@ EXCEPT !.buffer = answer, !.sendLen = 1,
                                                 !.sendPos = 0, !.state = state]]
      /\ UNCHANGED <<clientVars, kernelVars, cur, offset, fault>>
  BY <1>0 DEF Parse, Connection
<1>2. /\ NotBegun(cur) /\ events[cur] = "in" /\ aio[cur].status = "none"
      /\ conn[cur].state = "REQUEST_RECEIVED"
  BY <1>0, <1>1 DEF HandlerInv, ConnectionInv
<1>3. conn'[cur] = [conn[cur] EXCEPT !.buffer = answer, !.sendLen = 1,
                                     !.sendPos = 0, !.state = state]
  BY <1>0, <1>1
<1>4. answer \in Seq(Piece) /\ state \in {"REQUEST_RECEIVED", "SENDING_404"}
  <2>1. Header \in Piece /\ NotFound \in Piece
    BY DEF Piece
  <2> QED BY <1>2, <2>1, OneUnit
<1>5. /\ conn'[cur].buffer = answer /\ conn'[cur].sendLen = 1 /\ conn'[cur].sendPos = 0
      /\ conn'[cur].state = state /\ conn'[cur].filePos = conn[cur].filePos
  BY <1>0, <1>3 DEF Connection
<1>6. TypeOK'
  <2>1. conn[cur] \in Connection
    BY <1>0
  <2>2. conn'[cur] \in Connection
    <3>1. 1 \in 0 .. BufSize /\ 0 \in 0 .. BufSize
      BY PositiveNumbers
    <3>2. answer \in Seq(Piece) /\ state \in States
      BY <1>4 DEF States
    <3> HIDE DEF answer, state
    <3> QED BY <1>3, <2>1, <3>1, <3>2 DEF Connection
  <2>3. conn' \in [Clients -> Connection]
    BY <1>0, <1>1, <1>3, <2>2
  <2> QED BY <1>0, <1>1, <2>3 DEF TypeOK
<1>7. Found(cur)' <=> Found(cur)
  BY <1>1 DEF Found
<1>8. HandlerInv'
  BY <1>1, <1>2, <1>5, <1>7 DEF HandlerInv, NotBegun
<1>9. ConnectionInv(cur)'
  BY <1>1, <1>2, <1>4, <1>5 DEF ConnectionInv, Rearmed, NotBegun
<1> QED BY <1>0, <1>1, <1>6, <1>8, <1>9, ServesOne

(* The step sends what comes next of the answer of the connection served.  *)
SendsMore ==
    \E n \in Len(sent[cur]) + 1 .. Len(Answer(cur)) :
        sent' = [sent EXCEPT ![cur] = SubSeq(Answer(cur), 1, n)]

LEMMA SendHeaderStep ==
    ASSUME ServerInv, SendHeader
    PROVE  ServerInv' /\ SendsMore
<1> USE DEF clientVars, At
<1>0. /\ TypeOK /\ HandlerInv /\ ConnectionInv(cur) /\ cur \in Clients
      /\ conn \in [Clients -> Connection] /\ sent \in [Clients -> Seq(Piece)]
  BY ByConnection DEF TypeOK
<1>1. /\ pc = "header" /\ pc' \in {"remove", "sendfile", "submit"}
      /\ sent' = [sent EXCEPT ![cur] = @ \o SubSeq(conn[cur].buffer, 1, conn[cur].sendLen)]
      /\ pc' # "remove" => conn[cur].state # "SENDING_404"
      /\ offset' = 0
      /\ UNCHANGED <<clientVars, events, ready, aio, conn, cur, fault>>
  BY DEF SendHeader, Accepted
<1>2. /\ NotBegun(cur) /\ events[cur] = "in" /\ aio[cur].status = "none"
      /\ conn[cur].buffer = (IF Found(cur) THEN <<Header>> ELSE <<NotFound>>)
      /\ conn[cur].sendLen = 1 /\ (conn[cur].state = "SENDING_404" <=> ~Found(cur))
  BY <1>0, <1>1 DEF HandlerInv, ConnectionInv
<1>3. sent'[cur] = conn[cur].buffer /\ sent'[cur] \in Seq(Piece)
  <2>1. sent[cur] = <<>>
    BY <1>2 DEF NotBegun
  <2>2. /\ conn[cur].buffer \in Seq(Piece) /\ Len(conn[cur].buffer) = 1
    <3>1. Header \in Piece /\ NotFound \in Piece
      BY DEF Piece
    <3> QED BY <1>2, <3>1, OneUnit
  <2>3. SubSeq(conn[cur].buffer, 1, 1) = conn[cur].buffer
    BY <2>2, SubSeqFull
  <2>4. <<>> \o conn[cur].buffer = conn[cur].buffer
    BY <2>2, ConcatEmptySeq
  <2> QED BY <1>0, <1>1, <1>2, <2>1, <2>2, <2>3, <2>4
<1>4. TypeOK'
  <2>1. sent' \in [Clients -> Seq(Piece)]
    BY <1>0, <1>1, <1>3
  <2> QED BY <1>0, <1>1, <2>1 DEF TypeOK
<1>5. (Found(cur)' <=> Found(cur)) /\ Answer(cur)' = Answer(cur)
  BY <1>1 DEF Found, Answer
<1>a. /\ 1 <= Len(Answer(cur)) /\ Len(Answer(cur)) \in Nat
      /\ SubSeq(Answer(cur), 1, 1) = conn[cur].buffer
  <2>1. CASE Found(cur)
    <3>1. /\ Answer(cur) \in Seq(Int) /\ request[cur].size \in Nat
          /\ Len(Answer(cur)) = 1 + request[cur].size /\ Answer(cur)[1] = Header
      BY <1>0, <2>1, AnswerIs
    <3>2. 1 <= Len(Answer(cur)) /\ Len(Answer(cur)) \in Nat
      BY <3>1
    <3>3. SubSeq(Answer(cur), 1, 1) = <<Header>>
      BY <3>1, <3>2, FirstUnit
    <3> QED BY <1>2, <2>1, <3>2, <3>3
  <2>2. CASE ~Found(cur)
    <3>1. Answer(cur) = <<NotFound>> /\ NotFound \in Int
      BY <1>0, <2>2, AnswerIs DEF NotFound
    <3>2. /\ Answer(cur) \in Seq(Int) /\ Len(Answer(cur)) = 1
          /\ Answer(cur)[1] = NotFound
      BY <3>1, OneUnit
    <3>3. Len(Answer(cur)) >= 1
      BY <3>2
    <3>4. SubSeq(Answer(cur), 1, 1) = <<NotFound>>
      BY <3>2, <3>3, FirstUnit
    <3> QED BY <1>2, <2>2, <3>2, <3>3, <3>4
  <2> QED BY <2>1, <2>2
<1>6. IsSent(cur, 1)'
  BY <1>1, <1>3, <1>5, <1>a DEF IsSent
<1>7. conn[cur].filePos = 0
  BY <1>2 DEF NotBegun
<1>8. HandlerInv'
  <2>1. IsSent(cur, 1)' => IsSent(cur, 1 + offset)'
    <3>1. 1 + offset' = 1
      BY <1>1
    <3> QED BY <3>1 DEF IsSent
  <2>2. IsSent(cur, 1)' => IsSent(cur, 1 + conn[cur].filePos)'
    <3>1. 1 + conn'[cur'].filePos = 1 /\ cur' = cur
      BY <1>1, <1>7
    <3> QED BY <3>1 DEF IsSent
  <2> QED BY <1>1, <1>2, <1>5, <1>6, <1>7, <2>1, <2>2 DEF HandlerInv
<1>9. ConnectionInv(cur)'
  BY <1>0, <1>1, <1>2 DEF ConnectionInv, Rearmed
<1>10. \A d \in Clients \ {cur} : sent'[d] = sent[d]
  BY <1>0, <1>1
<1>11. SendsMore
  <2>1. Len(sent[cur]) = 0
    BY <1>2 DEF NotBegun
  <2>2. 1 \in Len(sent[cur]) + 1 .. Len(Answer(cur))
    BY <1>a, <2>1
  <2>3. sent' = [sent EXCEPT ![cur] = SubSeq(Answer(cur), 1, 1)]
    BY <1>0, <1>1, <1>3, <1>a
  <2> QED BY <2>2, <2>3 DEF SendsMore
<1>12. ServerInv'
  BY <1>0, <1>1, <1>4, <1>8, <1>9, <1>10, ServesOne
<1> QED BY <1>11, <1>12

LEMMA RemoveStep ==
    ASSUME ServerInv, connection_remove
    PROVE  ServerInv'
<1> USE DEF clientVars, At, Goto
<1>0. /\ TypeOK /\ HandlerInv /\ ConnectionInv(cur) /\ cur \in Clients
      /\ events \in [Clients -> {"none", "in", "out", "removed"}]
  BY ByConnection DEF TypeOK
<1>1. /\ pc = "remove" /\ pc' = "epoll_wait"
      /\ events' = [events EXCEPT ![cur] = "removed"]
      /\ UNCHANGED <<conn, clientVars, ready, aio, sent, cur, offset, fault>>
  BY DEF connection_remove
<1>2. TypeOK'
  BY <1>0, <1>1 DEF TypeOK
<1>3. HandlerInv'
  BY <1>1 DEF HandlerInv
<1>4. ConnectionInv(cur)'
  BY <1>0, <1>1 DEF ConnectionInv, HandlerInv, Rearmed
<1> QED BY <1>0, <1>1, <1>2, <1>3, <1>4, ServesOne

-----------------------------------------------------------------------------
(* Static files *)

(* The units of the file after the first n leave a longer part sent.       *)
LEMMA MoreIsSent ==
    ASSUME TypeOK, NEW c \in Clients, Found(c), NEW n \in Nat, IsSent(c, 1 + n),
           NEW pieces \in Seq(Int), n + Len(pieces) <= request[c].size,
           \A k \in 1 .. Len(pieces) : pieces[k] = n + k
    PROVE  LET m == 1 + (n + Len(pieces))
           IN  m <= Len(Answer(c)) /\ sent[c] \o pieces = SubSeq(Answer(c), 1, m)
<1>1. /\ Answer(c) \in Seq(Int) /\ request[c].size \in Nat
      /\ Len(Answer(c)) = 1 + request[c].size
      /\ \A k \in 1 .. request[c].size : Answer(c)[1 + k] = k
  BY AnswerIs
<1>2. Len(pieces) \in Nat
  BY LenProperties
<1>3. ASSUME NEW k \in 1 .. Len(pieces) PROVE pieces[k] = Answer(c)[(1 + n) + k]
  <2>1. n + k \in 1 .. request[c].size /\ 1 + (n + k) = (1 + n) + k
    BY <1>1, <1>2
  <2> QED BY <1>1, <2>1
<1>4. SubSeq(Answer(c), 1, 1 + n) \o pieces = SubSeq(Answer(c), 1, (1 + n) + Len(pieces))
  <2>1. 1 + n \in Nat /\ (1 + n) + Len(pieces) <= Len(Answer(c))
    BY <1>1, <1>2
  <2> QED BY <1>1, <1>3, <2>1, PrefixGrows
<1> QED BY <1>1, <1>2, <1>4 DEF IsSent

LEMMA LenOfSent ==
    ASSUME TypeOK, NEW c \in Clients, NEW n \in Nat, IsSent(c, n)
    PROVE  Len(sent[c]) = n
<1>1. Answer(c) \in Seq(Int) /\ Len(Answer(c)) \in Nat /\ n <= Len(Answer(c))
  BY AnswerIs, LenProperties DEF IsSent
<1>2. \A i \in 1 .. n : Answer(c)[i] \in Int
  <2>1. \A i \in 1 .. n : i \in 1 .. Len(Answer(c))
    BY <1>1
  <2> QED BY <1>1, <2>1, ElementOfSeq
<1>3. Len(SubSeq(Answer(c), 1, n)) = n
  <2>1. Len(SubSeq(Answer(c), 1, n)) = IF 1 <= n THEN n - 1 + 1 ELSE 0
    BY <1>2, SubSeqProperties
  <2> QED BY <2>1
<1> QED BY <1>3 DEF IsSent

LEMMA SendfileStep ==
    ASSUME ServerInv, NEW n \in 1 .. SocketRoom, Sendfile(n)
    PROVE  ServerInv' /\ SendsMore
<1> USE DEF clientVars, At
<1>0. /\ TypeOK /\ HandlerInv /\ ConnectionInv(cur) /\ cur \in Clients
      /\ sent \in [Clients -> Seq(Piece)] /\ offset \in Nat
  BY ByConnection DEF TypeOK
<1>n. n \in Nat
  BY PositiveNumbers
<1>1. /\ pc = "sendfile" /\ pc' = pc
      /\ n <= request[cur].size - offset /\ offset' = offset + n
      /\ sent' = [sent EXCEPT ![cur] = @ \o Pieces(offset, n)]
      /\ UNCHANGED <<clientVars, events, ready, aio, conn, cur, fault>>
  BY DEF Sendfile, Accepted
<1>2. events[cur] = "in" /\ Found(cur) /\ IsSent(cur, 1 + offset)
  BY <1>0, <1>1 DEF HandlerInv
<1>3. /\ Pieces(offset, n) \in Seq(Nat) /\ Pieces(offset, n) \in Seq(Int)
      /\ Len(Pieces(offset, n)) = n
      /\ \A i \in 1 .. n : Pieces(offset, n)[i] = offset + i
  BY <1>0, <1>n, PiecesAreUnits
<1>4. request[cur].size \in Nat
  BY <1>0, <1>2, AnswerIs
<1>5. /\ 1 + (offset + n) <= Len(Answer(cur))
      /\ sent[cur] \o Pieces(offset, n) = SubSeq(Answer(cur), 1, 1 + (offset + n))
  <2>1. offset + n <= request[cur].size
    BY <1>0, <1>n, <1>1, <1>4
  <2> QED BY <1>0, <1>2, <1>3, <2>1, MoreIsSent
<1>6. TypeOK'
  <2>1. Pieces(offset, n) \in Seq(Piece)
    BY <1>3, SeqMonotonic DEF Piece
  <2>2. sent[cur] \o Pieces(offset, n) \in Seq(Piece)
    BY <1>0, <2>1, ConcatProperties
  <2>3. sent' \in [Clients -> Seq(Piece)] /\ offset' \in Nat
    BY <1>0, <1>n, <1>1, <2>2
  <2> QED BY <1>0, <1>1, <2>3 DEF TypeOK
<1>7. Answer(cur)' = Answer(cur) /\ (Found(cur)' <=> Found(cur))
  BY <1>1 DEF Answer, Found
<1>8. IsSent(cur, 1 + offset)'
  BY <1>0, <1>n, <1>1, <1>5, <1>7 DEF IsSent
<1>9. HandlerInv'
  BY <1>1, <1>2, <1>7, <1>8 DEF HandlerInv
<1>10. ConnectionInv(cur)'
  BY <1>0, <1>1, <1>2 DEF ConnectionInv, Rearmed
<1>11. \A d \in Clients \ {cur} : sent'[d] = sent[d]
  BY <1>0, <1>1
<1>12. SendsMore
  <2>1. Len(sent[cur]) = 1 + offset /\ Len(Answer(cur)) \in Nat
    <3>1. 1 + offset \in Nat
      BY <1>0
    <3> QED BY <1>0, <1>2, <3>1, LenOfSent, AnswerIs, LenProperties
  <2>2. 1 + (offset + n) \in Len(sent[cur]) + 1 .. Len(Answer(cur))
    BY <1>0, <1>n, <1>5, <2>1
  <2> QED BY <1>1, <1>5, <2>2 DEF SendsMore
<1>13. ServerInv'
  BY <1>0, <1>1, <1>6, <1>9, <1>10, <1>11, ServesOne
<1> QED BY <1>12, <1>13

LEMMA EndStaticStep ==
    ASSUME ServerInv, StaticSent \/ SendfileWouldBlock \/ SendfileFails
    PROVE  ServerInv'
<1> USE DEF clientVars, kernelVars, At, SetState, Goto
<1>0. /\ TypeOK /\ HandlerInv /\ ConnectionInv(cur) /\ cur \in Clients
      /\ conn \in [Clients -> Connection]
  BY ByConnection DEF TypeOK
<1>1. /\ pc = "sendfile" /\ pc' = "remove"
      /\ \E state \in {"DATA_SENT", "SENDING_DATA", "CONNECTION_CLOSED"} :
            conn' = [conn EXCEPT ![cur].state = state]
      /\ UNCHANGED <<clientVars, kernelVars, cur, offset, fault>>
  BY DEF StaticSent, SendfileWouldBlock, SendfileFails, EndStatic
<1>2. events[cur] = "in" /\ conn[cur].state # "NO_STATE"
  BY <1>0, <1>1 DEF HandlerInv, ConnectionInv
<1>3. PICK state \in {"DATA_SENT", "SENDING_DATA", "CONNECTION_CLOSED"} :
            conn' = [conn EXCEPT ![cur].state = state]
  BY <1>1
<1>4. TypeOK'
  <2>1. conn' \in [Clients -> Connection]
    BY <1>0, <1>3 DEF Connection, States
  <2> QED BY <1>0, <1>1, <2>1 DEF TypeOK
<1>5. HandlerInv'
  BY <1>1, <1>2 DEF HandlerInv
<1>6. ConnectionInv(cur)'
  BY <1>0, <1>1, <1>2, <1>3 DEF ConnectionInv, Rearmed, Connection
<1>7. \A d \in Clients \ {cur} : conn'[d] = conn[d]
  BY <1>0, <1>3
<1> QED BY <1>0, <1>1, <1>4, <1>5, <1>6, <1>7, ServesOne

-----------------------------------------------------------------------------
(* Dynamic files *)

LEMMA RoomIsInt ==
    ASSUME TypeOK, NEW c \in Clients
    PROVE  /\ Len(sent[c]) \in Nat /\ taken[c] \in Nat
           /\ ~(Room(c) > 0) => taken[c] < Len(sent[c])
<1>1. Len(sent[c]) \in Nat /\ taken[c] \in Nat
  BY LenProperties DEF TypeOK
<1> QED BY <1>1, PositiveNumbers DEF Room

(* Once a connection is watched for output there will be an edge.          *)
LEMMA WatchRearms ==
    ASSUME TypeOK, NEW c \in Clients, WatchOutput(c), UNCHANGED <<sent, taken, peer>>
    PROVE  /\ events' \in [Clients -> {"none", "in", "out", "removed"}]
           /\ ready' \in [Clients -> {"no", "yes", "awaited"}]
           /\ events'[c] = "out"
           /\ \A d \in Clients \ {c} : events'[d] = events[d] /\ ready'[d] = ready[d]
           /\ Rearmed(c)'
<1>1. /\ events \in [Clients -> {"none", "in", "out", "removed"}]
      /\ ready \in [Clients -> {"no", "yes", "awaited"}]
  BY DEF TypeOK
<1>2. /\ events' = [events EXCEPT ![c] = "out"]
      /\ ready' = [ready EXCEPT ![c] = IF Writable(c) THEN "yes" ELSE "awaited"]
  BY DEF WatchOutput
<1>3. ~Writable(c) => taken[c] < Len(sent[c])
  BY RoomIsInt DEF Writable
<1> QED BY <1>1, <1>2, <1>3 DEF Rearmed

LEMMA SubmitStep ==
    ASSUME ServerInv, connection_start_async_io
    PROVE  ServerInv'
<1> USE DEF clientVars, At, Goto
<1>0. /\ TypeOK /\ HandlerInv /\ ConnectionInv(cur) /\ cur \in Clients
      /\ aio \in [Clients -> Read] /\ conn[cur] \in Connection
  BY ByConnection DEF TypeOK
<1>1. /\ pc = "submit" /\ pc' = "epoll_wait"
      /\ aio' = [aio EXCEPT ![cur] = [status |-> "submitted", pos |-> conn[cur].filePos,
                                      len |-> ToRead(cur)]]
      /\ WatchOutput(cur)
      /\ UNCHANGED <<clientVars, sent, conn, cur, offset, fault>>
  BY DEF connection_start_async_io
<1>2. /\ events[cur] \in {"in", "out"} /\ Found(cur) /\ IsSent(cur, 1 + conn[cur].filePos)
      /\ events[cur] = "out" => Transfer(cur) /\ ~Unsent(cur)
      /\ events[cur] = "in" => conn[cur].filePos = 0
      /\ conn[cur].state # "NO_STATE"
  BY <1>0, <1>1 DEF HandlerInv, ConnectionInv
<1>3. /\ events' \in [Clients -> {"none", "in", "out", "removed"}]
      /\ ready' \in [Clients -> {"no", "yes", "awaited"}]
      /\ events'[cur] = "out"
      /\ \A d \in Clients \ {cur} : events'[d] = events[d] /\ ready'[d] = ready[d]
      /\ Rearmed(cur)'
  BY <1>0, <1>1, WatchRearms
<1>4. /\ conn[cur].filePos \in Nat /\ conn[cur].sendLen \in Nat /\ conn[cur].sendPos \in Nat
      /\ request[cur].size \in Nat /\ conn[cur].filePos <= request[cur].size
  <2>1. conn[cur].filePos \in Nat /\ conn[cur].sendLen \in Nat /\ conn[cur].sendPos \in Nat
    BY <1>0, PositiveNumbers DEF Connection
  <2>2. request[cur].size \in Nat /\ Len(Answer(cur)) = 1 + request[cur].size
    BY <1>0, <1>2, AnswerIs
  <2> QED BY <1>2, <2>1, <2>2 DEF IsSent
<1>5. ToRead(cur) \in 0 .. BufSize
  BY <1>4, PositiveNumbers DEF ToRead, Smaller
<1>6. TypeOK'
  <2>1. aio' \in [Clients -> Read]
    BY <1>0, <1>1, <1>4, <1>5 DEF Read
  <2> QED BY <1>0, <1>1, <1>3, <2>1 DEF TypeOK
<1>7. HandlerInv'
  BY <1>1 DEF HandlerInv
<1>8. Pending(cur) = 0
  <2>1. CASE events[cur] = "in"
    BY <1>2, <2>1 DEF Pending
  <2>2. CASE events[cur] = "out"
    BY <1>2, <1>4, <2>2 DEF Transfer, Pending, Unsent
  <2> QED BY <1>2, <2>1, <2>2
<1>9. conn[cur].filePos > 0 =>
         Holds(cur, conn[cur].sendPos + 1, conn[cur].sendLen,
               conn[cur].filePos - conn[cur].sendLen)
  BY <1>2, <1>4 DEF Transfer
<1>10. Transfer(cur)'
  <2>1. /\ (Found(cur)' <=> Found(cur)) /\ Pending(cur)' = Pending(cur)
        /\ ToRead(cur)' = ToRead(cur) /\ Answer(cur)' = Answer(cur)
    BY <1>1 DEF Found, Pending, ToRead, Answer
  <2>2. aio'[cur] = [status |-> "submitted", pos |-> conn[cur].filePos, len |-> ToRead(cur)]
    BY <1>0, <1>1
  <2>3. conn[cur].filePos > 0 =>
           Holds(cur, conn[cur].sendPos + 1, conn[cur].sendLen,
                 conn[cur].filePos - conn[cur].sendLen)'
    BY <1>1, <1>9 DEF Holds
  <2>4. 1 + conn[cur].filePos - 0 = 1 + conn[cur].filePos
    BY <1>4
  <2>5. IsSent(cur, 1 + conn[cur].filePos - Pending(cur))'
    BY <1>1, <1>2, <1>8, <2>1, <2>4 DEF IsSent
  <2> QED BY <1>1, <1>2, <1>4, <1>8, <2>1, <2>2, <2>3, <2>5 DEF Transfer
<1>11. ConnectionInv(cur)'
  BY <1>1, <1>2, <1>3, <1>10 DEF ConnectionInv
<1>12. \A d \in Clients \ {cur} : aio'[d] = aio[d]
  BY <1>0, <1>1
<1> QED BY <1>0, <1>1, <1>3, <1>6, <1>7, <1>11, <1>12, ServesOne

LEMMA SubmitFailsStep ==
    ASSUME ServerInv, SubmitFails
    PROVE  ServerInv'
<1> USE DEF clientVars, At, Goto, SetState
<1>0. /\ TypeOK /\ HandlerInv /\ ConnectionInv(cur) /\ cur \in Clients
      /\ conn \in [Clients -> Connection]
  BY ByConnection DEF TypeOK
<1>1. /\ pc = "submit" /\ pc' = "epoll_wait"
      /\ conn' = [conn EXCEPT ![cur].state = "CONNECTION_CLOSED"]
      /\ WatchOutput(cur)
      /\ UNCHANGED <<clientVars, sent, aio, cur, offset, fault>>
  BY DEF SubmitFails
<1>2. /\ events[cur] \in {"in", "out"} /\ aio[cur].status = "none"
      /\ Found(cur) /\ IsSent(cur, 1 + conn[cur].filePos)
      /\ events[cur] = "out" => Transfer(cur) /\ ~Unsent(cur)
      /\ events[cur] = "in" => conn[cur].filePos = 0
      /\ conn[cur].state # "NO_STATE"
  BY <1>0, <1>1 DEF HandlerInv, ConnectionInv
<1>3. /\ events' \in [Clients -> {"none", "in", "out", "removed"}]
      /\ ready' \in [Clients -> {"no", "yes", "awaited"}]
      /\ events'[cur] = "out"
      /\ \A d \in Clients \ {cur} : events'[d] = events[d] /\ ready'[d] = ready[d]
      /\ Rearmed(cur)'
  BY <1>0, <1>1, WatchRearms
<1>4. /\ conn'[cur].filePos = conn[cur].filePos /\ conn'[cur].buffer = conn[cur].buffer
      /\ conn'[cur].sendLen = conn[cur].sendLen /\ conn'[cur].sendPos = conn[cur].sendPos
      /\ conn'[cur].state = "CONNECTION_CLOSED"
      /\ \A d \in Clients \ {cur} : conn'[d] = conn[d]
  BY <1>0, <1>1 DEF Connection
<1>5. TypeOK'
  <2>1. conn' \in [Clients -> Connection]
    BY <1>0, <1>1 DEF Connection, States
  <2> QED BY <1>0, <1>1, <1>3, <2>1 DEF TypeOK
<1>6. HandlerInv'
  BY <1>1 DEF HandlerInv
<1>7. Transfer(cur)'
  <2>1. /\ (Found(cur) <=> Found(cur)')
        /\ \A n : IsSent(cur, n) => IsSent(cur, n)'
        /\ Transfer(cur) => Transfer(cur)'
    BY <1>1, <1>4, SameFields
  <2>2. CASE events[cur] = "in"
    <3>1. conn[cur].filePos = 0 /\ Pending(cur)' = 0
      BY <1>1, <1>2, <1>4, <2>2 DEF Pending
    <3>2. request[cur].size \in Nat
      BY <1>0, <1>2, AnswerIs
    <3>3. IsSent(cur, 1 + 0 - 0)'
      BY <1>2, <2>1, <3>1
    <3> QED BY <1>1, <1>2, <1>4, <2>1, <3>1, <3>2, <3>3 DEF Transfer
  <2> QED BY <1>2, <2>1, <2>2
<1>8. ConnectionInv(cur)'
  BY <1>1, <1>2, <1>3, <1>4, <1>7 DEF ConnectionInv
<1> QED BY <1>0, <1>1, <1>3, <1>4, <1>5, <1>6, <1>8, ServesOne

(* What a connection that is watched for output counts with.               *)
LEMMA TransferNumbers ==
    ASSUME TypeOK, NEW c \in Clients, Transfer(c)
    PROVE  /\ conn[c].filePos \in Nat /\ conn[c].sendLen \in Nat /\ conn[c].sendPos \in Nat
           /\ conn[c].sendLen <= BufSize /\ conn[c].buffer \in Seq(Piece)
           /\ request[c].size \in Nat /\ Len(Answer(c)) = 1 + request[c].size
           /\ Len(conn[c].buffer) \in Nat /\ Pending(c) \in Nat
           /\ aio[c] \in Read /\ aio[c].pos \in Nat /\ aio[c].len \in 0 .. BufSize
<1>1. conn[c] \in Connection /\ aio[c] \in Read
  BY DEF TypeOK
<1>2. /\ conn[c].filePos \in Nat /\ conn[c].sendLen \in 0 .. BufSize
      /\ conn[c].sendPos \in 0 .. BufSize /\ conn[c].buffer \in Seq(Piece)
      /\ aio[c].pos \in Nat /\ aio[c].len \in 0 .. BufSize
  BY <1>1 DEF Connection, Read
<1>3. request[c].size \in Nat /\ Len(Answer(c)) = 1 + request[c].size
  BY AnswerIs DEF Transfer
<1>4. Pending(c) \in Nat
  BY <1>2, PositiveNumbers DEF Pending, Transfer
<1> QED BY <1>1, <1>2, <1>3, <1>4, LenProperties, PositiveNumbers

LEMMA CompleteStep ==
    ASSUME ServerInv, connection_complete_async_io
    PROVE  ServerInv'
<1> USE DEF clientVars, At, Goto
<1>0. /\ TypeOK /\ HandlerInv /\ ConnectionInv(cur) /\ cur \in Clients
      /\ conn \in [Clients -> Connection] /\ aio \in [Clients -> Read]
  BY ByConnection DEF TypeOK
<1>a. /\ pc = "getevents" /\ aio[cur].status = "complete"
      /\ events[cur] = "out" /\ Transfer(cur) /\ Rearmed(cur)
  BY <1>0 DEF connection_complete_async_io, HandlerInv, ConnectionInv
<1>b. /\ conn[cur].filePos \in Nat /\ request[cur].size \in Nat
      /\ aio[cur].len \in Nat /\ aio[cur].len \in 0 .. BufSize
      /\ conn[cur].buffer \in Seq(Piece)
  BY <1>0, <1>a, TransferNumbers, PositiveNumbers
<1>x. PICK file \in Nat, len \in 0 .. BufSize, size \in Nat :
          file = conn[cur].filePos /\ len = aio[cur].len /\ size = request[cur].size
  BY <1>b
<1>c. len \in Nat /\ 0 \in 0 .. BufSize
  BY PositiveNumbers
<1>p. PICK pos \in Nat : pos = file + len
  BY <1>c
<1>s. PICK state \in {"SENDING_DATA", "DATA_SENT"} :
       state = IF pos < size THEN "SENDING_DATA" ELSE "DATA_SENT"
  OBVIOUS
<1>1. /\ pc' = "send"
      /\ aio' = [aio EXCEPT ![cur] = NoRead]
      /\ conn' = [conn EXCEPT ![cur].filePos = pos, ![cur].sendLen = len,
                              ![cur].sendPos = 0, ![cur].state = state]
      /\ UNCHANGED <<clientVars, events, ready, sent, cur, offset, fault>>
  BY <1>x, <1>p, <1>s, <1>0, <1>a DEF connection_complete_async_io
<1>4. /\ Pending(cur) = 0 /\ len = ToRead(cur) /\ Holds(cur, 1, len, file)
      /\ file <= size /\ IsSent(cur, 1 + file - 0) /\ Found(cur)
  BY <1>x, <1>a DEF Transfer
<1>5. pos <= size /\ (pos = 0 => len = 0) /\ pos - len = file
  <2>1. len = Smaller(size - file, BufSize)
    BY <1>x, <1>4 DEF ToRead
  <2> QED BY <1>c, <1>p, <1>4, <2>1, PositiveNumbers DEF Smaller
<1>6. /\ \A d \in Clients \ {cur} : conn'[d] = conn[d] /\ aio'[d] = aio[d]
      /\ aio'[cur] = NoRead
  BY <1>0, <1>1
<1>t. state \in States
  BY DEF States
<1>7. /\ conn'[cur].filePos = pos /\ conn'[cur].sendLen = len /\ conn'[cur].sendPos = 0
      /\ conn'[cur].state = state /\ conn'[cur].buffer = conn[cur].buffer
      /\ conn' \in [Clients -> Connection]
  BY <1>0, <1>1, <1>c, <1>t, ZenonT(30) DEF Connection
<1>9. TypeOK'
  <2>1. aio' \in [Clients -> Read]
    BY <1>0, <1>1, <1>c DEF Read, NoRead
  <2> QED BY <1>0, <1>1, <1>7, <2>1 DEF TypeOK
<1>10. HandlerInv'
  BY <1>1, <1>a, <1>c, <1>5, <1>6, <1>7 DEF HandlerInv, Unsent, NoRead
<1>11. Transfer(cur)'
  <2>1. (Found(cur)' <=> Found(cur)) /\ Answer(cur)' = Answer(cur)
    BY <1>1 DEF Found, Answer
  <2>2. Pending(cur)' = len
    BY <1>1, <1>c, <1>5, <1>7 DEF Pending
  <2>3. Holds(cur, 0 + 1, len, pos - len)'
    <3>1. 0 + 1 = 1 /\ pos - len = file
      BY <1>5
    <3>2. Holds(cur, 1, len, file)'
      BY <1>1, <1>4, <1>7 DEF Holds
    <3> QED BY <3>1, <3>2
  <2>5. IsSent(cur, 1 + pos - len)'
    <3>1. 1 + pos - len = 1 + file - 0
      BY <1>c, <1>p
    <3>2. IsSent(cur, 1 + file - 0)'
      BY <1>1, <1>4, <2>1 DEF IsSent
    <3> QED BY <3>1, <3>2
  <2>6. 0 <= len /\ len <= pos
    BY <1>c, <1>p
  <2> QED BY <1>x, <1>1, <1>4, <1>5, <1>6, <1>7, <2>1, <2>2, <2>3, <2>5, <2>6 DEF Transfer, NoRead
<1>12. Rearmed(cur)'
  BY <1>1 DEF Rearmed
<1>13. ConnectionInv(cur)'
  BY <1>1, <1>a, <1>6, <1>7, <1>11, <1>12 DEF ConnectionInv, NoRead
<1> QED BY <1>0, <1>1, <1>6, <1>9, <1>10, <1>13, ServesOne

(* Any units of send_buffer that are next to be sent are next in the file. *)
LEMMA UnitsOfBuffer ==
    ASSUME TypeOK, NEW c \in Clients, Transfer(c), conn[c].filePos # 0, Unsent(c),
           NEW n \in Nat, n <= conn[c].sendLen - conn[c].sendPos
    PROVE  LET x == conn[c]
               pieces == SubSeq(x.buffer, x.sendPos + 1, x.sendPos + n)
               m == x.filePos - (x.sendLen - x.sendPos)
           IN  /\ pieces \in Seq(Piece) /\ pieces \in Seq(Int) /\ Len(pieces) = n
               /\ m \in Nat /\ Len(sent[c]) = 1 + m /\ m + n <= request[c].size
               /\ 1 + (m + n) <= Len(Answer(c))
               /\ sent[c] \o pieces = SubSeq(Answer(c), 1, 1 + (m + n))
<1>x. PICK file \in Nat, first \in Nat, last \in Nat, size \in Nat, buffer \in Seq(Piece) :
          /\ file = conn[c].filePos /\ first = conn[c].sendPos /\ last = conn[c].sendLen
          /\ size = request[c].size /\ buffer = conn[c].buffer
  BY TransferNumbers
<1> DEFINE pieces == SubSeq(buffer, first + 1, first + n)
<1>1. /\ file > 0 /\ first < last /\ n <= last - first
      /\ Len(buffer) \in Nat
  BY <1>x, TransferNumbers DEF Unsent
<1>2. /\ Pending(c) = last - first /\ last - first <= file /\ file <= size
      /\ IsSent(c, 1 + file - (last - first)) /\ Holds(c, first + 1, last, file - last)
      /\ Found(c)
  BY <1>x, <1>1 DEF Transfer, Pending
<1>3. last <= Len(buffer) /\ \A k \in first + 1 .. last : buffer[k] = (file - last) + k
  BY <1>x, <1>2 DEF Holds
<1>m. PICK m \in Nat : m = file - (last - first)
  BY <1>1, <1>2
<1>4. /\ pieces \in Seq(Piece) /\ Len(pieces) = n
      /\ \A k \in 1 .. n : pieces[k] = buffer[first + k]
  <2>1. first + n <= Len(buffer) /\ first + 1 \in 1 .. Len(buffer) + 1
    BY <1>1, <1>3
  <2>2. \A k \in first + 1 .. first + n : buffer[k] \in Piece
    BY <2>1, ElementOfSeq
  <2>3. /\ pieces \in Seq(Piece)
        /\ Len(pieces) = (first + n) - (first + 1) + 1
        /\ \A k \in 1 .. (first + n) - (first + 1) + 1 : pieces[k] = buffer[first + 1 + k - 1]
    BY <2>1, <2>2, SubSeqProperties
  <2>4. (first + n) - (first + 1) + 1 = n /\ \A k \in 1 .. n : first + 1 + k - 1 = first + k
    OBVIOUS
  <2> HIDE DEF pieces
  <2> QED BY <2>3, <2>4
<1>5. pieces \in Seq(Int)
  <2>1. Piece \subseteq Int
    BY DEF Piece, NotFound, Header
  <2> HIDE DEF pieces
  <2> QED BY <1>4, <2>1, SeqMonotonic
<1> HIDE DEF pieces
<1>6. ASSUME NEW k \in 1 .. Len(pieces) PROVE pieces[k] = m + k
  <2>1. k \in 1 .. n /\ first + k \in first + 1 .. last /\ (file - last) + (first + k) = m + k
    BY <1>1, <1>4, <1>m
  <2> QED BY <1>3, <1>4, <2>1
<1>7. m + n <= size /\ IsSent(c, 1 + m)
  <2>1. 1 + file - (last - first) = 1 + m /\ m + n <= size
    BY <1>1, <1>2, <1>m
  <2> QED BY <1>2, <2>1
<1>8. /\ 1 + (m + n) <= Len(Answer(c))
      /\ sent[c] \o pieces = SubSeq(Answer(c), 1, 1 + (m + n))
  BY <1>x, <1>2, <1>4, <1>5, <1>6, <1>7, MoreIsSent
<1>9. Len(sent[c]) = 1 + m
  <2>1. 1 + m \in Nat
    OBVIOUS
  <2> QED BY <1>7, <2>1, LenOfSent
<1> QED BY <1>9, <1>x, <1>m, <1>4, <1>5, <1>7, <1>8 DEF pieces

LEMMA SendStep ==
    ASSUME ServerInv, NEW n \in 1 .. SocketRoom, Send(n)
    PROVE  ServerInv' /\ SendsMore
<1> USE DEF clientVars, At
<1>0. /\ TypeOK /\ HandlerInv /\ ConnectionInv(cur) /\ cur \in Clients /\ n \in Nat
      /\ conn \in [Clients -> Connection] /\ sent \in [Clients -> Seq(Piece)]
  <2>1. n \in Nat
    BY PositiveNumbers
  <2> QED BY <2>1, ByConnection DEF TypeOK
<1>1. /\ pc = "send" /\ pc' = pc /\ Unsent(cur)
      /\ n <= conn[cur].sendLen - conn[cur].sendPos
      /\ sent' = [sent EXCEPT ![cur] =
             @ \o SubSeq(conn[cur].buffer, conn[cur].sendPos + 1, conn[cur].sendPos + n)]
      /\ conn' = [conn EXCEPT ![cur].sendPos = @ + n]
      /\ UNCHANGED <<clientVars, events, ready, aio, cur, offset, fault>>
  BY DEF Send, Accepted
<1>2. /\ events[cur] = "out" /\ aio[cur].status = "none" /\ Transfer(cur)
      /\ conn[cur].filePos # 0 /\ conn[cur].state # "NO_STATE"
  BY <1>0, <1>1 DEF HandlerInv, ConnectionInv
<1>x. PICK file \in Nat, first \in Nat, last \in Nat, size \in Nat, m \in Int,
           pieces \in {SubSeq(conn[cur].buffer, conn[cur].sendPos + 1, conn[cur].sendPos + n)} :
          /\ file = conn[cur].filePos /\ first = conn[cur].sendPos /\ last = conn[cur].sendLen
          /\ size = request[cur].size
          /\ pieces = SubSeq(conn[cur].buffer, first + 1, first + n)
          /\ m = file - (last - first)
  <2>1. /\ conn[cur].filePos \in Nat /\ conn[cur].sendPos \in Nat
        /\ conn[cur].sendLen \in Nat /\ request[cur].size \in Nat
    BY <1>0, <1>2, TransferNumbers
  <2>2. conn[cur].filePos - (conn[cur].sendLen - conn[cur].sendPos) \in Int
    BY <2>1
  <2> QED  BY <2>1, <2>2
<1>m. m = file - (last - first)
  BY <1>x
<1>3. /\ pieces \in Seq(Piece) /\ m \in Nat /\ Len(sent[cur]) = 1 + m /\ m + n <= size
      /\ 1 + (m + n) <= Len(Answer(cur))
      /\ sent[cur] \o pieces = SubSeq(Answer(cur), 1, 1 + (m + n))
  BY <1>x, <1>0, <1>1, <1>2, UnitsOfBuffer
<1>4. /\ sent'[cur] = sent[cur] \o pieces /\ sent' \in [Clients -> Seq(Piece)]
      /\ \A d \in Clients \ {cur} : conn'[d] = conn[d] /\ sent'[d] = sent[d]
      /\ conn'[cur].sendPos = first + n /\ conn'[cur].sendLen = last
      /\ conn'[cur].filePos = file /\ conn'[cur].buffer = conn[cur].buffer
      /\ conn'[cur].state = conn[cur].state
  <2>1. sent[cur] \o pieces \in Seq(Piece)
    BY <1>0, <1>3, ConcatProperties
  <2>2. /\ sent'[cur] = sent[cur] \o pieces /\ sent' \in [Clients -> Seq(Piece)]
        /\ \A d \in Clients \ {cur} : conn'[d] = conn[d] /\ sent'[d] = sent[d]
    BY <1>x, <1>0, <1>1, <2>1
  <2> QED BY <1>x, <1>0, <1>1, <2>2 DEF Connection
<1>5. /\ file > 0 /\ last <= BufSize /\ first + n <= last /\ BufSize \in Nat
      /\ file <= size /\ last - first <= file
  <2>1. file > 0 /\ last <= BufSize
    <3>1. file # 0 /\ last <= BufSize
      BY <1>x, <1>0, <1>2, TransferNumbers
    <3> QED BY <3>1
  <2>2. first < last /\ n <= last - first
    BY <1>x, <1>1 DEF Unsent
  <2>3. file <= size /\ last - first <= file
    BY <1>x, <1>2, <2>1 DEF Transfer, Pending
  <2>4. first + n <= last
    BY <1>0, <2>2
  <2> QED BY <2>1, <2>2, <2>3, <2>4, PositiveNumbers
<1>6. TypeOK'
  <2>1. first + n \in 0 .. BufSize
    BY <1>0, <1>5
  <2>2. conn' \in [Clients -> Connection]
    BY <1>x, <1>0, <1>1, <2>1 DEF Connection
  <2> QED BY <1>0, <1>1, <1>4, <2>2 DEF TypeOK
<1>7. HandlerInv'
  BY <1>1, <1>2, <1>4, <1>5 DEF HandlerInv
<1>8. (Found(cur)' <=> Found(cur)) /\ Answer(cur)' = Answer(cur)
  BY <1>1 DEF Found, Answer
<1>9. Transfer(cur)'
  <2>p. PICK pending \in Nat : pending = last - (first + n)
    BY <1>0, <1>5
  <2>1. Pending(cur)' = pending /\ pending <= file
    <3>1. pending <= file
      BY <1>0, <1>5, <2>p
    <3>2. Pending(cur)' = last - (first + n)
      <4>1. conn'[cur].filePos # 0
        BY <1>4, <1>5
      <4> QED BY <1>1, <1>4, <4>1 DEF Pending
    <3> QED BY <2>p, <3>1, <3>2
  <2>2. IsSent(cur, 1 + file - pending)'
    <3>1. 1 + file - pending = 1 + (m + n)
      BY <1>0, <1>m, <2>p
    <3>2. IsSent(cur, 1 + (m + n))'
      BY <1>1, <1>3, <1>4, <1>8 DEF IsSent
    <3> QED BY <3>1, <3>2
  <2>3. Holds(cur, (first + n) + 1, last, file - last)'
    <3>1. Holds(cur, first + 1, last, file - last)
      BY <1>x, <1>2, <1>5 DEF Transfer
    <3>2. (first + n) + 1 .. last \subseteq first + 1 .. last
      BY <1>0
    <3> QED BY <1>1, <1>4, <3>1, <3>2 DEF Holds
  <2> QED BY <1>x, <1>1, <1>2, <1>4, <1>5, <1>8, <2>1, <2>2, <2>3, <2>p, SMTT(30) DEF Transfer
<1>10. ConnectionInv(cur)'
  BY <1>1, <1>2, <1>4, <1>9 DEF ConnectionInv, Rearmed
<1>11. SendsMore
  <2>1. Len(Answer(cur)) \in Nat
    BY <1>0, AnswerIs, LenProperties
  <2>2. 1 + (m + n) \in Len(sent[cur]) + 1 .. Len(Answer(cur))
    <3>1. n >= 1
      OBVIOUS
    <3> QED BY <1>0, <1>3, <2>1, <3>1
  <2>3. sent' = [sent EXCEPT ![cur] = SubSeq(Answer(cur), 1, 1 + (m + n))]
    BY <1>0, <1>x, <1>1, <1>3
  <2> QED BY <2>2, <2>3 DEF SendsMore
<1>12. ServerInv'
  BY <1>0, <1>1, <1>4, <1>6, <1>7, <1>10, ServesOne
<1> QED BY <1>11, <1>12

LEMMA SendWouldBlockStep ==
    ASSUME ServerInv, SendWouldBlock
    PROVE  ServerInv'
<1> USE DEF clientVars, At, Goto
<1>0. /\ TypeOK /\ HandlerInv /\ ConnectionInv(cur) /\ cur \in Clients
      /\ ready \in [Clients -> {"no", "yes", "awaited"}]
  BY ByConnection DEF TypeOK
<1>1. /\ pc = "send" /\ pc' = "epoll_wait" /\ Room(cur) = 0
      /\ ready' = [ready EXCEPT ![cur] = IF @ = "no" THEN "awaited" ELSE @]
      /\ UNCHANGED <<clientVars, events, aio, sent, conn, cur, offset, fault>>
  BY DEF SendWouldBlock
<1>2. TypeOK'
  BY <1>0, <1>1 DEF TypeOK
<1>3. HandlerInv'
  BY <1>1 DEF HandlerInv
<1>4. Transfer(cur)' /\ events[cur] = "out"
  BY <1>0, <1>1, SameTransfer DEF HandlerInv, ConnectionInv
<1>5. taken[cur] < Len(sent[cur]) /\ ready'[cur] \in {"yes", "awaited"}
  BY <1>0, <1>1, RoomIsInt
<1>6. ConnectionInv(cur)'
  BY <1>0, <1>1, <1>4, <1>5 DEF ConnectionInv, Rearmed
<1> QED BY <1>0, <1>1, <1>2, <1>3, <1>6, ServesOne

(* Nothing more is sent: the client is gone, or has the whole answer.      *)
LEMMA SendEndsStep ==
    ASSUME ServerInv, SendFails \/ DynamicSent
    PROVE  ServerInv'
<1> USE DEF clientVars, kernelVars, At, Goto, SetState
<1>0. /\ TypeOK /\ HandlerInv /\ ConnectionInv(cur) /\ cur \in Clients
      /\ conn \in [Clients -> Connection]
  BY ByConnection DEF TypeOK
<1>1. /\ pc = "send" /\ pc' = "epoll_wait"
      /\ peer[cur] = "reset" \/ (~Unsent(cur) /\ conn[cur].filePos >= request[cur].size)
      /\ \E state \in {"CONNECTION_CLOSED", "DATA_SENT"} :
            conn' = [conn EXCEPT ![cur].state = state]
      /\ UNCHANGED <<clientVars, kernelVars, cur, offset, fault>>
  BY DEF SendFails, DynamicSent
<1>2. PICK state \in {"CONNECTION_CLOSED", "DATA_SENT"} :
         conn' = [conn EXCEPT ![cur].state = state]
  BY <1>1
<1>3. /\ conn' \in [Clients -> Connection] /\ conn'[cur].state = state
      /\ \A d \in Clients \ {cur} : conn'[d] = conn[d]
      /\ conn'[cur].filePos = conn[cur].filePos /\ conn'[cur].buffer = conn[cur].buffer
      /\ conn'[cur].sendLen = conn[cur].sendLen /\ conn'[cur].sendPos = conn[cur].sendPos
  BY <1>0, <1>2 DEF Connection, States
<1>4. TypeOK'
  BY <1>0, <1>1, <1>3 DEF TypeOK
<1>5. HandlerInv'
  BY <1>1 DEF HandlerInv
<1>6. Transfer(cur) /\ Transfer(cur)' /\ events[cur] = "out" /\ Answer(cur)' = Answer(cur)
  BY <1>0, <1>1, <1>3, SameFields DEF HandlerInv, ConnectionInv
<1>7. peer[cur] = "reset" \/ ~(Len(sent[cur]) < Len(Answer(cur)))
  <2> SUFFICES ASSUME ~Unsent(cur), conn[cur].filePos >= request[cur].size
               PROVE  ~(Len(sent[cur]) < Len(Answer(cur)))
    BY <1>1
  <2>1. /\ conn[cur].filePos = request[cur].size /\ conn[cur].filePos \in Nat
        /\ Len(Answer(cur)) = 1 + conn[cur].filePos /\ Pending(cur) = 0
    <3>1. /\ conn[cur].filePos \in Nat /\ request[cur].size \in Nat
          /\ Len(Answer(cur)) = 1 + request[cur].size
          /\ conn[cur].sendLen \in Nat /\ conn[cur].sendPos \in Nat
      BY <1>0, <1>6, TransferNumbers
    <3>2. conn[cur].filePos <= request[cur].size /\ 0 <= Pending(cur)
      BY <1>6 DEF Transfer
    <3>3. conn[cur].filePos = request[cur].size
      BY <3>1, <3>2
    <3> QED BY <3>1, <3>2, <3>3 DEF Pending, Unsent
  <2>2. 1 + conn[cur].filePos - 0 = Len(Answer(cur))
    BY <2>1
  <2>3. sent[cur] = SubSeq(Answer(cur), 1, Len(Answer(cur)))
    BY <1>6, <2>1, <2>2 DEF Transfer, IsSent
  <2>4. Answer(cur) \in Seq(Int)
    BY <1>0, AnswerIs
  <2>5. sent[cur] = Answer(cur)
    BY <2>3, <2>4, SubSeqFull
  <2> QED BY <2>1, <2>5
<1>8. ConnectionInv(cur)'
  BY <1>0, <1>1, <1>3, <1>6, <1>7 DEF ConnectionInv, Rearmed
<1> QED BY <1>0, <1>1, <1>3, <1>4, <1>5, <1>8, ServesOne

LEMMA ReadMoreStep ==
    ASSUME ServerInv, ReadMore
    PROVE  ServerInv'
<1> USE DEF clientVars, kernelVars, At, Goto
<1>0. TypeOK /\ HandlerInv /\ ConnectionInv(cur) /\ cur \in Clients
  BY ByConnection DEF TypeOK
<1>1. /\ pc = "send" /\ pc' = "submit" /\ ~Unsent(cur)
      /\ UNCHANGED <<clientVars, kernelVars, conn, cur, offset, fault>>
  BY DEF ReadMore
<1>2. /\ Transfer(cur) /\ Transfer(cur)' /\ events[cur] = "out" /\ aio[cur].status = "none"
      /\ Answer(cur)' = Answer(cur) /\ (Found(cur) <=> Found(cur)')
  BY <1>0, <1>1, SameTransfer DEF HandlerInv, ConnectionInv
<1>3. TypeOK'
  BY <1>0, <1>1 DEF TypeOK
<1>4. Found(cur) /\ IsSent(cur, 1 + conn[cur].filePos)
  <2>1. conn[cur].filePos \in Nat /\ Pending(cur) = 0
    BY <1>0, <1>1, <1>2, TransferNumbers, SMTT(30) DEF Transfer, Pending, Unsent
  <2>2. 1 + conn[cur].filePos - 0 = 1 + conn[cur].filePos
    BY <2>1
  <2> QED BY <1>2, <2>1, <2>2 DEF Transfer
<1>5. HandlerInv'
  BY <1>1, <1>2, <1>4 DEF HandlerInv, IsSent, Unsent
<1>6. ConnectionInv(cur)'
  BY <1>0, <1>1, <1>2 DEF ConnectionInv, Rearmed
<1> QED BY <1>0, <1>1, <1>3, <1>5, <1>6, ServesOne

(* What a read leaves in send_buffer: the units it read, and at least as   *)
(* many places as there were before.                                       *)
LEMMA BufferFilled ==
    ASSUME NEW buffer \in Seq(Piece), NEW pos \in Nat, NEW len \in Nat
    PROVE  LET filled == Pieces(pos, len) \o SubSeq(buffer, len + 1, Len(buffer))
           IN  /\ filled \in Seq(Piece)
               /\ len <= Len(filled) /\ Len(buffer) <= Len(filled) /\ Len(filled) \in Nat
               /\ \A k \in 1 .. len : filled[k] = pos + k
<1> DEFINE read == Pieces(pos, len)
           rest == SubSeq(buffer, len + 1, Len(buffer))
<1>1. /\ read \in Seq(Piece) /\ Len(read) = len
      /\ \A k \in 1 .. len : read[k] = pos + k
  BY PiecesAreUnits, SeqMonotonic DEF Piece
<1>2. Len(buffer) \in Nat
  BY LenProperties
<1>3. /\ rest \in Seq(Piece)
      /\ Len(rest) = IF len + 1 <= Len(buffer) THEN Len(buffer) - (len + 1) + 1 ELSE 0
  <2>1. \A k \in len + 1 .. Len(buffer) : buffer[k] \in Piece
    BY <1>2, ElementOfSeq
  <2> QED BY <1>2, <2>1, SubSeqProperties
<1> HIDE DEF read, rest
<1>4. /\ read \o rest \in Seq(Piece) /\ Len(read \o rest) = Len(read) + Len(rest)
      /\ \A i \in 1 .. Len(read) + Len(rest) :
            (read \o rest)[i] = IF i <= Len(read) THEN read[i] ELSE rest[i - Len(read)]
  BY <1>1, <1>3, ConcatProperties
<1>5. Len(rest) \in Nat /\ Len(buffer) <= len + Len(rest)
  BY <1>2, <1>3
<1>6. ASSUME NEW k \in 1 .. len PROVE (read \o rest)[k] = pos + k
  <2>1. k \in 1 .. Len(read) + Len(rest) /\ k <= Len(read)
    BY <1>1, <1>5
  <2> QED BY <1>1, <1>4, <2>1
<1>7. /\ len <= Len(read \o rest) /\ Len(buffer) <= Len(read \o rest)
      /\ Len(read \o rest) \in Nat
  BY <1>1, <1>4, <1>5
<1> QED BY <1>4, <1>6, <1>7 DEF read, rest

LEMMA CompleteReadStep ==
    ASSUME ServerInv, NEW c \in Clients, Kernel(c)
    PROVE  ServerInv'
<1> USE DEF clientVars
<1>0. /\ TypeOK /\ HandlerInv /\ \A d \in Clients : ConnectionInv(d)
      /\ conn \in [Clients -> Connection] /\ aio \in [Clients -> Read]
  BY ByConnection DEF TypeOK
<1>1. /\ aio[c].status = "submitted"
      /\ aio' = [aio EXCEPT ![c].status = "complete"]
      /\ conn' = [conn EXCEPT ![c].buffer = Pieces(aio[c].pos, aio[c].len)
                                   \o SubSeq(conn[c].buffer, aio[c].len + 1, Len(conn[c].buffer))]
      /\ UNCHANGED <<clientVars, events, ready, sent, pc, cur, offset, fault>>
  BY <1>0 DEF Kernel, CompleteRead, Connection
<1>2. /\ events[c] = "out" /\ Transfer(c) /\ Rearmed(c) /\ conn[c].state # "NO_STATE"
  BY <1>0, <1>1 DEF ConnectionInv
<1>x. PICK file \in Nat, len \in Nat, buffer \in Seq(Piece) :
          file = conn[c].filePos /\ len = aio[c].len /\ buffer = conn[c].buffer
  <2>1. aio[c].len \in 0 .. BufSize
    BY <1>0, <1>2, TransferNumbers
  <2>2. aio[c].len \in Nat
    BY <2>1, PositiveNumbers
  <2> QED BY <1>0, <1>2, <2>2, TransferNumbers
<1>3. /\ Found(c) /\ aio[c].pos = file /\ Pending(c) = 0 /\ len = ToRead(c)
      /\ file <= request[c].size /\ IsSent(c, 1 + file - Pending(c))
      /\ file > 0 => Holds(c, conn[c].sendPos + 1, conn[c].sendLen, file - conn[c].sendLen)
  BY <1>x, <1>1, <1>2 DEF Transfer
<1>f. PICK filled : filled = Pieces(file, len) \o SubSeq(buffer, len + 1, Len(buffer))
  OBVIOUS
<1>4. /\ filled \in Seq(Piece)
      /\ len <= Len(filled) /\ Len(buffer) <= Len(filled) /\ Len(filled) \in Nat
      /\ \A k \in 1 .. len : filled[k] = file + k
  BY <1>f, BufferFilled
<1>5. /\ conn' = [conn EXCEPT ![c].buffer = filled]
      /\ conn' \in [Clients -> Connection] /\ aio' \in [Clients -> Read]
      /\ \A d \in Clients \ {c} : conn'[d] = conn[d] /\ aio'[d] = aio[d]
  <2>1. conn' = [conn EXCEPT ![c].buffer = filled]
    BY <1>x, <1>f, <1>1, <1>3
  <2>2. conn' \in [Clients -> Connection]
    BY <1>0, <1>4, <2>1 DEF Connection
  <2>3. aio' \in [Clients -> Read]
    BY <1>0, <1>1 DEF Read
  <2> QED BY <1>0, <1>1, <2>1, <2>2, <2>3
<1>6. /\ conn'[c].buffer = filled /\ conn'[c].filePos = file
      /\ conn'[c].sendLen = conn[c].sendLen /\ conn'[c].sendPos = conn[c].sendPos
      /\ conn'[c].state = conn[c].state
      /\ aio'[c].status = "complete" /\ aio'[c].pos = file /\ aio'[c].len = len
  <2>1. /\ conn'[c].buffer = filled /\ conn'[c].filePos = file
        /\ conn'[c].sendLen = conn[c].sendLen /\ conn'[c].sendPos = conn[c].sendPos
        /\ conn'[c].state = conn[c].state
    BY <1>x, <1>0, <1>5 DEF Connection
  <2>2. aio'[c].status = "complete" /\ aio'[c].pos = file /\ aio'[c].len = len
    BY <1>x, <1>0, <1>1, <1>3 DEF Read
  <2> QED BY <2>1, <2>2
<1>7. TypeOK'
  BY <1>0, <1>1, <1>5 DEF TypeOK
<1>8. \A d \in Clients : (Found(d)' <=> Found(d)) /\ Answer(d)' = Answer(d)
  BY <1>1 DEF Found, Answer
<1>9. HandlerInv'
  <2>1. CASE cur = c
    <3>1. pc \notin {"recv", "parse", "header", "sendfile", "remove", "submit", "send"}
      BY <1>0, <1>1, <1>2, <2>1 DEF HandlerInv
    <3> QED BY <1>1, <1>2, <2>1, <3>1 DEF HandlerInv
  <2>2. CASE cur # c
    <3>1. conn'[cur] = conn[cur] /\ aio'[cur] = aio[cur] /\ cur \in Clients
      BY <1>0, <1>5, <2>2 DEF TypeOK
    <3>2. /\ NotBegun(cur) => NotBegun(cur)'
          /\ \A n : IsSent(cur, n) => IsSent(cur, n)'
          /\ Unsent(cur)' <=> Unsent(cur)
      BY <1>1, <3>1, SameFields DEF Unsent
    <3> QED BY <1>0, <1>1, <1>8, <3>1, <3>2 DEF HandlerInv
  <2> QED BY <2>1, <2>2
<1>10. Transfer(c)'
  <2>1. Pending(c)' = 0 /\ ToRead(c)' = len
    BY <1>x, <1>1, <1>3, <1>6 DEF Pending, ToRead
  <2>2. IsSent(c, 1 + file - 0)'
    BY <1>1, <1>3, <1>8 DEF IsSent
  <2>3. file > 0 => Holds(c, conn[c].sendPos + 1, conn[c].sendLen, file - conn[c].sendLen)'
    <3> SUFFICES ASSUME file > 0
                 PROVE  Holds(c, conn[c].sendPos + 1, conn[c].sendLen, file - conn[c].sendLen)'
      OBVIOUS
    <3>1. conn[c].sendLen <= Len(buffer)
      BY <1>x, <1>3 DEF Holds
    <3>2. conn[c].sendLen \in Nat /\ conn[c].sendPos \in Nat /\ Len(buffer) \in Nat
      BY <1>0, <1>2, TransferNumbers, LenProperties
    <3>3. conn[c].sendLen <= Len(filled)
      BY <1>4, <3>1, <3>2
    <3>4. conn[c].sendLen - conn[c].sendPos = 0
      BY <1>x, <1>3 DEF Pending
    <3>5. conn[c].sendPos + 1 .. conn[c].sendLen = {}
      BY <3>2, <3>4
    <3> QED BY <1>6, <3>3, <3>5 DEF Holds
  <2>4. Holds(c, 1, len, file)'
    BY <1>4, <1>6 DEF Holds
  <2> QED BY <1>1, <1>3, <1>6, <1>8, <2>1, <2>2, <2>3, <2>4 DEF Transfer
<1>11. ConnectionInv(c)'
  BY <1>1, <1>2, <1>6, <1>8, <1>10 DEF ConnectionInv, Rearmed
<1>12. ASSUME NEW d \in Clients, d # c PROVE ConnectionInv(d)'
  <2>1. conn'[d] = conn[d] /\ aio'[d] = aio[d]
    BY <1>5, <1>12
  <2>2. (NotBegun(d) => NotBegun(d)') /\ (Transfer(d) => Transfer(d)')
    BY <1>1, <2>1, SameTransfer
  <2> QED BY <1>0, <1>1, <1>8, <2>1, <2>2 DEF ConnectionInv, Rearmed
<1> QED BY <1>7, <1>9, <1>11, <1>12, ByConnectionPrime

-----------------------------------------------------------------------------
LEMMA InitInv ==
    ASSUME Init
    PROVE  ServerInv
<1>1. TypeOK
  <2>1. /\ 0 \in 0 .. BufSize /\ 1 .. Segments \subseteq 0 .. Segments
    BY PositiveNumbers
  <2>2. [state |-> "NO_STATE", filePos |-> 0, buffer |-> <<>>, sendLen |-> 0, sendPos |-> 0]
            \in Connection
    BY <2>1, EmptySeq DEF Connection, States
  <2>3. NoRead \in Read
    BY <2>1 DEF NoRead, Read
  <2>4. <<>> \in Seq(Piece)
    BY EmptySeq
  <2> QED BY <2>1, <2>2, <2>3, <2>4 DEF Init, TypeOK
<1>2. InputInv /\ HandlerInv /\ DynamicInv /\ TransferIsRearmed
  BY DEF Init, InputInv, HandlerInv, DynamicInv, TransferIsRearmed, NotBegun, NoRead
<1> QED BY <1>1, <1>2 DEF ServerInv

LEMMA StutterStep ==
    ASSUME ServerInv, UNCHANGED vars
    PROVE  ServerInv'
<1> USE DEF vars, clientVars, kernelVars, serverVars
<1>1. InputInv' /\ HandlerInv' /\ DynamicInv'
  BY ServerStateOnly DEF ServerInv
<1>2. TypeOK'
  BY DEF ServerInv, TypeOK
<1>3. \A c \in Clients : Answer(c)' = Answer(c)
  BY DEF Answer, Found
<1>4. TransferIsRearmed'
  BY <1>3 DEF ServerInv, TransferIsRearmed
<1> QED BY <1>1, <1>2, <1>4 DEF ServerInv

LEMMA StepInv ==
    ASSUME ServerInv, [Next]_vars
    PROVE  ServerInv'
<1>1. CASE Handler
  BY <1>1, RecvStep, FaultStep, ParseStep, SendHeaderStep, RemoveStep, SendfileStep,
     EndStaticStep, SubmitStep, SubmitFailsStep, CompleteStep, SendStep,
     SendWouldBlockStep, SendEndsStep, ReadMoreStep DEF Handler
<1>2. ASSUME NEW c \in Clients, Client(c) \/ Kernel(c) \/ Event(c) PROVE ServerInv'
  BY <1>2, ClientStep, CompleteReadStep, AcceptStep, EventStep DEF Event
<1>3. CASE UNCHANGED vars
  BY <1>3, StutterStep
<1> QED BY <1>1, <1>2, <1>3 DEF Next

(* At every place of the handlers exactly so much of the answer has been   *)
(* sent as the connection's fields say, and send_buffer holds what follows *)
(* it; reads and sends stay within the buffer.                             *)
THEOREM ServerInvariant == Spec => []ServerInv
  BY InitInv, StepInv, PTL DEF Spec

(* A dynamic file's reads overwrite nothing that is still to be sent, and  *)
(* every transfer that is not done has its next event (start_async_io and  *)
(* send_dynamic).                                                          *)
THEOREM TransfersAreSafe == Spec => []TransferInv
<1>1. ASSUME ServerInv PROVE TransferInv
  <2>1. TypeOK /\ \A c \in Clients : events[c] = "out" => Transfer(c)
    BY <1>1 DEF ServerInv, DynamicInv
  <2>2. ASSUME NEW c \in Clients, events[c] = "out"
        PROVE  /\ Len(sent[c]) = 1 + conn[c].filePos - Pending(c)
               /\ aio[c].status # "none" => aio[c].pos = conn[c].filePos /\ Pending(c) = 0
    <3>1. Transfer(c)
      BY <2>1, <2>2
    <3>2. /\ conn[c].filePos \in Nat /\ Pending(c) \in Nat /\ Pending(c) <= conn[c].filePos
          /\ IsSent(c, 1 + conn[c].filePos - Pending(c))
      BY <2>1, <3>1, TransferNumbers DEF Transfer
    <3>3. 1 + conn[c].filePos - Pending(c) \in Nat
      BY <3>2
    <3>4. Len(sent[c]) = 1 + conn[c].filePos - Pending(c)
      BY <2>1, <3>2, <3>3, LenOfSent
    <3> QED BY <3>1, <3>4 DEF Transfer
  <2> QED BY <1>1, <2>2 DEF ServerInv, TransferInv, NoReadOverUnsentBytes
<1> QED BY <1>1, ServerInvariant, PTL

-----------------------------------------------------------------------------
(* The server implements HttpAnswers *)

LEMMA AnswersInit ==
    ASSUME Init
    PROVE  Http!Init
<1>1. TypeOK
  BY InitInv DEF ServerInv
<1>2. \A c \in Clients : Answer(c) \in Seq(Int)
  BY <1>1, AnswerIs
<1> QED BY <1>2 DEF Init, Http!Init

(* A step that sends nothing and removes no connection stutters.           *)
LEMMA AnswersStutter ==
    ASSUME UNCHANGED <<request, sent>>,
           \A c \in Clients : events'[c] = "removed" <=> events[c] = "removed"
    PROVE  UNCHANGED Http!vars
<1>1. \A c : Answer(c)' = Answer(c)
  BY DEF Answer, Found
<1> QED BY <1>1 DEF Http!vars

LEMMA AnswersSend ==
    ASSUME TypeOK, events[cur] # "removed", SendsMore, UNCHANGED <<request, events>>
    PROVE  Http!Next
<1>1. cur \in Clients
  BY DEF TypeOK
<1>2. \A c : Answer(c)' = Answer(c)
  BY DEF Answer, Found
<1>3. Http!Send(cur)
  BY <1>1, <1>2 DEF SendsMore, Http!Send
<1> QED BY <1>1, <1>3 DEF Http!Next

LEMMA AnswersClose ==
    ASSUME TypeOK, connection_remove
    PROVE  Http!Next
<1> USE DEF clientVars
<1>1. PICK c \in Clients :
         /\ events' = [events EXCEPT ![c] = "removed"]
         /\ events \in [Clients -> {"none", "in", "out", "removed"}]
         /\ UNCHANGED <<request, sent>>
  BY DEF TypeOK, connection_remove
<1>2. [d \in Clients |-> Answer(d)]' = [d \in Clients |-> Answer(d)]
  BY <1>1 DEF Answer, Found
<1>3. {d \in Clients : events[d] = "removed"}'
         = {d \in Clients : events[d] = "removed"} \cup {c}
  BY <1>1
<1>4. Http!Close(c)
  BY <1>1, <1>2, <1>3 DEF Http!Close
<1> QED BY <1>4 DEF Http!Next

LEMMA AnswersStep ==
    ASSUME ServerInv, [Next]_vars
    PROVE  [Http!Next]_(Http!vars)
<1> USE DEF clientVars, kernelVars, serverVars, At, Goto, SetState
<1>0. /\ TypeOK /\ HandlerInv /\ \A c \in Clients : ConnectionInv(c)
      /\ events \in [Clients -> {"none", "in", "out", "removed"}]
  BY ByConnection DEF TypeOK
<1>1. CASE SendHeader \/ (\E n \in 1 .. SocketRoom : Sendfile(n) \/ Send(n))
  <2>1. SendsMore
    BY <1>1, SendHeaderStep, SendfileStep, SendStep
  <2>2. events[cur] # "removed" /\ UNCHANGED <<request, events>>
    BY <1>0, <1>1 DEF SendHeader, Sendfile, Send, HandlerInv
  <2> QED BY <1>0, <2>1, <2>2, AnswersSend
<1>2. CASE connection_remove
  BY <1>0, <1>2, AnswersClose
<1>3. CASE \E c \in Clients : Accept(c)
  <2>1. PICK c \in Clients : Accept(c)
    BY <1>3
  <2>2. /\ events[c] = "none" /\ events' = [events EXCEPT ![c] = "in"]
        /\ UNCHANGED <<request, sent>>
    BY <1>0, <2>1 DEF Accept, ConnectionInv
  <2> QED BY <1>0, <2>2, AnswersStutter
<1>4. CASE connection_start_async_io \/ SubmitFails
  <2>1. /\ events[cur] \in {"in", "out"} /\ events' = [events EXCEPT ![cur] = "out"]
        /\ UNCHANGED <<request, sent>>
    BY <1>0, <1>4 DEF connection_start_async_io, SubmitFails, WatchOutput, HandlerInv
  <2> QED BY <1>0, <2>1, AnswersStutter
<1>5. CASE \/ Recv \/ RecvFails \/ Parse \/ SendHeaderFails \/ NoCompletion
           \/ StaticSent \/ SendfileWouldBlock \/ SendfileFails
           \/ connection_complete_async_io
           \/ SendWouldBlock \/ SendFails \/ ReadMore \/ DynamicSent
  <2>1. UNCHANGED <<request, sent, events>>
    BY <1>5 DEF Recv, RecvFails, Parse, SendHeaderFails, NoCompletion, Fault,
       StaticSent, SendfileWouldBlock, SendfileFails, EndStatic,
       connection_complete_async_io, SendWouldBlock, SendFails, ReadMore, DynamicSent
  <2> QED BY <2>1, AnswersStutter
<1>6. CASE \E c \in Clients : Client(c) \/ Kernel(c) \/ Input(c) \/ Output(c)
  <2>1. UNCHANGED <<request, sent, events>>
    BY <1>6 DEF Client, Connect, SendSegment, Receive, Leave,
       Kernel, CompleteRead, Input, Output
  <2> QED BY <2>1, AnswersStutter
<1>7. CASE UNCHANGED vars
  BY <1>7, AnswersStutter DEF vars
<1> QED BY <1>1, <1>2, <1>3, <1>4, <1>5, <1>6, <1>7 DEF Next, Handler, Event

(* Every client is sent its answer from start to end, in order, each unit  *)
(* once, and nothing once its connection is removed: what the handlers of  *)
(* aws.c do, whatever is short, late or refused, implements HttpAnswers.   *)
THEOREM ImplementsAnswers == Spec => HttpSpec
<1>1. Init => Http!Init
  BY AnswersInit
<1>2. ServerInv /\ [Next]_vars => [Http!Next]_(Http!vars)
  BY AnswersStep
<1> QED BY <1>1, <1>2, ServerInvariant, PTL DEF Spec, HttpSpec, Http!Spec
=============================================================================
