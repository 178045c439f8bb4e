------------------------------ MODULE AwsServer ------------------------------
(***************************************************************************)
(* The web server of src/async-web-server/src/aws.c: one thread that waits *)
(* in epoll, runs the handler of the connection that has an event, and     *)
(* waits again.  Each system call of a handler is a step, and between them *)
(* the clients send, read and disconnect and the kernel completes reads.   *)
(*                                                                         *)
(* Sizes are in units of which the header is one and a buffer BufSize.     *)
(* Where the code uses a connection it has freed, or an io_event that was  *)
(* never filled in, fault says so and the model goes no further.           *)
(***************************************************************************)
EXTENDS Integers, Sequences, FiniteSets

CONSTANTS Clients,
          Requests,     \* the requests a client may make: type and size
          Segments,     \* the most segments a request arrives in
          BufSize,      \* BUFSIZ
          SocketRoom    \* how much of an answer fits the socket's buffer

Missing == -1           \* the size of a file that cannot be opened

(* The units of an answer: a header, or the file's units 1, 2, ... *)
Header == 0
NotFound == -1

ASSUME ServerAssumption ==
    /\ Requests \subseteq [type : {"static", "dynamic", "other"}, size : Nat \cup {Missing}]
    /\ {Segments, BufSize, SocketRoom} \subseteq Nat \ {0}

VARIABLES request,      \* what each client asks for
          peer,         \* the client: "away", "open", "shut" or "reset"
          unsent,       \* segments of its request it has not sent yet
          arrived,      \* has the socket bytes to receive?
          conn,         \* struct connection
          events,       \* what epoll watches the socket for
          ready,        \* is an EPOLLOUT edge due?
          aio,          \* the asynchronous read
          sent,         \* what the socket has accepted
          taken,        \* how much of it the client has read
          pc, cur,      \* where the thread is, and for which connection
          offset,       \* local to connection_send_static
          fault

clientVars == <<request, peer, unsent, arrived, taken>>
kernelVars == <<events, ready, aio, sent>>
serverVars == <<conn, pc, cur, offset, fault>>
vars == <<clientVars, kernelVars, serverVars>>

NoRead == [status |-> "none", pos |-> 0, len |-> 0]

Init ==
    /\ request \in [Clients -> Requests]
    /\ peer = [c \in Clients |-> "away"]
    /\ unsent \in [Clients -> 1 .. Segments]
    /\ arrived = [c \in Clients |-> FALSE]
    /\ conn = [c \in Clients |-> [state |-> "NO_STATE", filePos |-> 0,
                                  buffer |-> <<>>, sendLen |-> 0, sendPos |-> 0]]
    /\ events = [c \in Clients |-> "none"]
    /\ ready = [c \in Clients |-> "no"]
    /\ aio = [c \in Clients |-> NoRead]
    /\ sent = [c \in Clients |-> <<>>]
    /\ taken = [c \in Clients |-> 0]
    /\ pc = "epoll_wait" /\ cur \in Clients /\ offset = 0 /\ fault = "none"

Room(c) == SocketRoom - (Len(sent[c]) - taken[c])

Smaller(m, n) == IF m < n THEN m ELSE n

-----------------------------------------------------------------------------
(* The clients and the kernel *)

Connect(c) ==
    /\ peer[c] = "away"
    /\ peer' = [peer EXCEPT ![c] = "open"]
    /\ UNCHANGED <<request, unsent, arrived, taken, kernelVars, serverVars>>

SendSegment(c) ==
    /\ peer[c] = "open" /\ unsent[c] > 0
    /\ unsent' = [unsent EXCEPT ![c] = @ - 1]
    /\ arrived' = [arrived EXCEPT ![c] = TRUE]
    /\ UNCHANGED <<request, peer, taken, kernelVars, serverVars>>

(* The client closes its end, or breaks the connection: the socket wakes   *)
(* whoever watches it, and is writable.                                    *)
Leave(c, how) ==
    /\ peer[c] = "open" \/ (peer[c] = "shut" /\ how = "reset")
    /\ peer' = [peer EXCEPT ![c] = how]
    /\ ready' = [ready EXCEPT ![c] = IF events[c] = "out" THEN "yes" ELSE @]
    /\ UNCHANGED <<request, unsent, arrived, taken, events, aio, sent, serverVars>>

(* There is an edge if a send has been refused, or a poll found no room.   *)
Receive(c) ==
    /\ taken[c] < Len(sent[c])
    /\ peer[c] # "reset"
    /\ taken' = [taken EXCEPT ![c] = Len(sent[c])]
    /\ ready' = [ready EXCEPT ![c] = IF @ = "awaited" THEN "yes" ELSE @]
    /\ UNCHANGED <<request, peer, unsent, arrived, events, aio, sent, serverVars>>

Pieces(pos, len) == [i \in 1 .. len |-> pos + i]

CompleteRead(c) ==            \* the file's bytes are in send_buffer now
    /\ aio[c].status = "submitted"
    /\ aio' = [aio EXCEPT ![c].status = "complete"]
    /\ conn' = [conn EXCEPT ![c].buffer = Pieces(aio[c].pos, aio[c].len)
                                \o SubSeq(@, aio[c].len + 1, Len(@))]
    /\ UNCHANGED <<clientVars, events, ready, sent, pc, cur, offset, fault>>

-----------------------------------------------------------------------------
(* Steps of the server: at, and going to, a place in the handlers *)

At(place) == pc = place

Goto(place) == pc' = place /\ UNCHANGED <<cur, offset, fault>>

SetState(c, state) == conn' = [conn EXCEPT ![c].state = state]

Fault(kind) ==
    /\ fault' = kind
    /\ pc' = "crashed"
    /\ UNCHANGED <<conn, cur, offset, clientVars, kernelVars>>

Accept(c) ==                  \* handle_new_connection
    /\ At("epoll_wait")
    /\ peer[c] \in {"open", "shut"} /\ conn[c].state = "NO_STATE"
    /\ SetState(c, "INITIAL")
    /\ events' = [events EXCEPT ![c] = "in"]
    /\ UNCHANGED <<clientVars, ready, aio, sent, pc, cur, offset, fault>>

Input(c) ==                   \* EPOLLIN: handle_input, in STATE_INITIAL
    /\ At("epoll_wait")
    /\ events[c] = "in"
    /\ arrived[c] \/ peer[c] # "open"
    /\ SetState(c, "RECEIVING_DATA")
    /\ pc' = "recv" /\ cur' = c
    /\ UNCHANGED <<clientVars, kernelVars, offset, fault>>

Recv ==
    /\ At("recv")
    /\ arrived[cur] /\ peer[cur] # "reset"
    /\ arrived' = [arrived EXCEPT ![cur] = FALSE]
    /\ IF unsent[cur] = 0     \* the end of the request is there
       THEN SetState(cur, "REQUEST_RECEIVED") /\ Goto("parse")
       ELSE UNCHANGED <<conn, pc, cur, offset, fault>>
    /\ UNCHANGED <<request, peer, unsent, taken, kernelVars>>

(* Nothing more to receive, for now or for ever: receive_data frees the    *)
(* connection, and handle_input goes on with it.                           *)
RecvFails ==
    /\ At("recv")
    /\ ~arrived[cur] \/ peer[cur] = "reset"
    /\ Fault("freed connection")

Found(c) == request[c].type # "other" /\ request[c].size # Missing

(* parse_header, the resource type, the file opened, the header prepared *)
Parse ==
    /\ At("parse")
    /\ conn' = [conn EXCEPT
          ![cur].buffer = IF Found(cur) THEN <<Header>> ELSE <<NotFound>>,
          ![cur].sendLen = 1, ![cur].sendPos = 0,
          ![cur].state = IF Found(cur) THEN @ ELSE "SENDING_404"]
    /\ Goto("header")
    /\ UNCHANGED <<clientVars, kernelVars>>

Accepted(c, pieces) == sent' = [sent EXCEPT ![c] = @ \o pieces]

(* connection_send_data.  A new socket has room for the header. *)
SendHeader ==
    /\ At("header")
    /\ peer[cur] # "reset"
    /\ Accepted(cur, SubSeq(conn[cur].buffer, 1, conn[cur].sendLen))
    /\ pc' = IF conn[cur].state = "SENDING_404" THEN "remove"
             ELSE IF request[cur].type = "static" THEN "sendfile" ELSE "submit"
    /\ offset' = 0
    /\ UNCHANGED <<clientVars, events, ready, aio, conn, cur, fault>>

(* It frees the connection; its callers do not look at its result. *)
SendHeaderFails ==
    /\ At("header")
    /\ peer[cur] = "reset"
    /\ Fault("freed connection")

connection_remove ==
    /\ At("remove")
    /\ events' = [events EXCEPT ![cur] = "removed"]
    /\ Goto("epoll_wait")
    /\ UNCHANGED <<conn, clientVars, ready, aio, sent>>

-----------------------------------------------------------------------------
(* Static files: connection_send_static, then connection_remove *)

(* mutant: offset is not moved *)
SendfileAgain(n) ==
    /\ At("sendfile")
    /\ peer[cur] # "reset"
    /\ n <= Room(cur) /\ n <= request[cur].size - offset
    /\ Accepted(cur, Pieces(offset, n))
    /\ offset' = IF n = request[cur].size - offset THEN offset + n ELSE offset
    /\ UNCHANGED <<clientVars, events, ready, aio, conn, pc, cur, fault>>

Sendfile(n) ==
    /\ At("sendfile")
    /\ peer[cur] # "reset"
    /\ n <= Room(cur) /\ n <= request[cur].size - offset
    /\ Accepted(cur, Pieces(offset, n))
    /\ offset' = offset + n
    /\ UNCHANGED <<clientVars, events, ready, aio, conn, pc, cur, fault>>

EndStatic(state) == SetState(cur, state) /\ Goto("remove") /\ UNCHANGED <<clientVars, kernelVars>>

StaticSent == At("sendfile") /\ offset = request[cur].size /\ EndStatic("DATA_SENT")

SendfileWouldBlock ==
    /\ At("sendfile") /\ offset < request[cur].size
    /\ Room(cur) = 0 /\ peer[cur] # "reset"
    /\ EndStatic("SENDING_DATA")

SendfileFails ==
    /\ At("sendfile") /\ offset < request[cur].size
    /\ peer[cur] = "reset"
    /\ EndStatic("CONNECTION_CLOSED")

-----------------------------------------------------------------------------
(* Dynamic files *)

Writable(c) == Room(c) > 0 \/ peer[c] = "reset"

(* mutant: the socket is modified only if it is not watched for output yet *)
WatchOnce(c) ==
    /\ events' = [events EXCEPT ![c] = "out"]
    /\ ready' = [ready EXCEPT ![c] = IF events[c] = "out" THEN @
                                     ELSE IF Writable(c) THEN "yes" ELSE "awaited"]

(* epoll_ctl(EPOLL_CTL_MOD) to EPOLLOUT | EPOLLET: an edge if it is        *)
(* writable now, or else once it is.                                       *)
WatchOutput(c) ==
    /\ events' = [events EXCEPT ![c] = "out"]
    /\ ready' = [ready EXCEPT ![c] = IF Writable(c) THEN "yes" ELSE "awaited"]

ToRead(c) == Smaller(request[c].size - conn[c].filePos, BufSize)

connection_start_async_io ==
    /\ At("submit")
    /\ aio' = [aio EXCEPT ![cur] =
          [status |-> "submitted", pos |-> conn[cur].filePos, len |-> ToRead(cur)]]
    /\ WatchOutput(cur)
    /\ Goto("epoll_wait")
    /\ UNCHANGED <<clientVars, sent, conn>>

SubmitFails ==
    /\ At("submit")
    /\ SetState(cur, "CONNECTION_CLOSED")
    /\ WatchOutput(cur)
    /\ Goto("epoll_wait")
    /\ UNCHANGED <<clientVars, sent, aio>>

Output(c) ==                  \* EPOLLOUT: handle_output
    /\ At("epoll_wait")
    /\ events[c] = "out" /\ ready[c] = "yes" /\ Writable(c)
    /\ ready' = [ready EXCEPT ![c] = "no"]
    /\ pc' = "getevents" /\ cur' = c
    /\ UNCHANGED <<clientVars, events, aio, sent, conn, offset, fault>>

connection_complete_async_io ==
    /\ At("getevents")
    /\ aio[cur].status = "complete"
    /\ aio' = [aio EXCEPT ![cur] = NoRead]
    /\ LET pos == conn[cur].filePos + aio[cur].len
       IN  conn' = [conn EXCEPT
              ![cur].filePos = pos, ![cur].sendLen = aio[cur].len, ![cur].sendPos = 0,
              ![cur].state = IF pos < request[cur].size THEN "SENDING_DATA" ELSE "DATA_SENT"]
    /\ Goto("send")
    /\ UNCHANGED <<clientVars, events, ready, sent>>

(* io_getevents, which does not wait, returns no event; events[0] is used. *)
NoCompletion ==
    /\ At("getevents")
    /\ aio[cur].status # "complete"
    /\ Fault("no completion")

(* connection_send_dynamic *)

Unsent(c) == conn[c].sendPos < conn[c].sendLen

(* mutant: send_pos is set to what one send took, not moved by it *)
SendFromStart(n) ==
    /\ At("send") /\ Unsent(cur)
    /\ peer[cur] # "reset"
    /\ n <= Room(cur) /\ n <= conn[cur].sendLen - conn[cur].sendPos
    /\ Accepted(cur, SubSeq(conn[cur].buffer, conn[cur].sendPos + 1, conn[cur].sendPos + n))
    /\ conn' = [conn EXCEPT ![cur].sendPos = n]
    /\ UNCHANGED <<clientVars, events, ready, aio, pc, cur, offset, fault>>

Send(n) ==
    /\ At("send") /\ Unsent(cur)
    /\ peer[cur] # "reset"
    /\ n <= Room(cur) /\ n <= conn[cur].sendLen - conn[cur].sendPos
    /\ Accepted(cur, SubSeq(conn[cur].buffer, conn[cur].sendPos + 1, conn[cur].sendPos + n))
    /\ conn' = [conn EXCEPT ![cur].sendPos = @ + n]
    /\ UNCHANGED <<clientVars, events, ready, aio, pc, cur, offset, fault>>

SendWouldBlock ==
    /\ At("send") /\ Unsent(cur)
    /\ Room(cur) = 0 /\ peer[cur] # "reset"
    /\ ready' = [ready EXCEPT ![cur] = IF @ = "no" THEN "awaited" ELSE @]
    /\ Goto("epoll_wait")
    /\ UNCHANGED <<clientVars, events, aio, sent, conn>>

SendFails ==
    /\ At("send") /\ Unsent(cur)
    /\ peer[cur] = "reset"
    /\ SetState(cur, "CONNECTION_CLOSED")
    /\ Goto("epoll_wait")
    /\ UNCHANGED <<clientVars, kernelVars>>

(* mutant: what one send has left is not sent *)
ReadMoreAnyway ==
    /\ At("send")
    /\ conn[cur].filePos < request[cur].size
    /\ Goto("submit")
    /\ UNCHANGED <<clientVars, kernelVars, conn>>

ReadMore ==
    /\ At("send") /\ ~Unsent(cur)
    /\ conn[cur].filePos < request[cur].size
    /\ Goto("submit")
    /\ UNCHANGED <<clientVars, kernelVars, conn>>

DynamicSent ==
    /\ At("send") /\ ~Unsent(cur)
    /\ conn[cur].filePos >= request[cur].size
    /\ SetState(cur, "DATA_SENT")
    /\ Goto("epoll_wait")
    /\ UNCHANGED <<clientVars, kernelVars>>

-----------------------------------------------------------------------------
Client(c) ==
    /\ pc # "crashed"
    /\ \/ Connect(c) \/ SendSegment(c) \/ Receive(c)
       \/ Leave(c, "shut") \/ Leave(c, "reset")

Event(c) == Accept(c) \/ Input(c) \/ Output(c)

Handler ==
    \/ Recv \/ RecvFails \/ Parse \/ SendHeader \/ SendHeaderFails \/ connection_remove
    \/ (\E n \in 1 .. SocketRoom : Sendfile(n))
    \/ StaticSent \/ SendfileWouldBlock \/ SendfileFails
    \/ connection_start_async_io \/ SubmitFails
    \/ connection_complete_async_io \/ NoCompletion
    \/ (\E n \in 1 .. SocketRoom : Send(n))
    \/ SendWouldBlock \/ SendFails \/ ReadMore \/ DynamicSent

Kernel(c) == pc # "crashed" /\ CompleteRead(c)

Next == Handler \/ \E c \in Clients : Client(c) \/ Kernel(c) \/ Event(c)

Spec == Init /\ [][Next]_vars

(* The thread runs and takes every event in its turn, reads complete, and  *)
(* clients read what they are sent.                                        *)
Fairness ==
    /\ WF_vars(Handler)
    /\ \A c \in Clients : /\ SF_vars(Event(c))
                          /\ WF_vars(CompleteRead(c))
                          /\ WF_vars(pc # "crashed" /\ Receive(c))

FairSpec == Spec /\ Fairness

-----------------------------------------------------------------------------
States == {"NO_STATE", "INITIAL", "RECEIVING_DATA", "REQUEST_RECEIVED", "SENDING_DATA",
           "SENDING_404", "DATA_SENT", "CONNECTION_CLOSED"}
Piece == {NotFound, Header} \cup Nat

Connection == [state : States, filePos : Nat, buffer : Seq(Piece),
               sendLen : 0 .. BufSize, sendPos : 0 .. BufSize]
Read == [status : {"none", "submitted", "complete"}, pos : Nat, len : 0 .. BufSize]

(* Types; also, reads and sends stay within send_buffer. *)
TypeOK ==
    /\ request \in [Clients -> Requests]
    /\ peer \in [Clients -> {"away", "open", "shut", "reset"}]
    /\ unsent \in [Clients -> 0 .. Segments]
    /\ arrived \in [Clients -> BOOLEAN]
    /\ conn \in [Clients -> Connection]
    /\ events \in [Clients -> {"none", "in", "out", "removed"}]
    /\ ready \in [Clients -> {"no", "yes", "awaited"}]
    /\ aio \in [Clients -> Read]
    /\ sent \in [Clients -> Seq(Piece)]
    /\ taken \in [Clients -> Nat]
    /\ pc \in {"epoll_wait", "recv", "parse", "header", "remove", "sendfile",
               "submit", "getevents", "send", "crashed"}
    /\ cur \in Clients /\ offset \in Nat
    /\ fault \in {"none", "freed connection", "no completion"}

Answer(c) == IF Found(c) THEN <<Header>> \o Pieces(0, request[c].size) ELSE <<NotFound>>

(***************************************************************************)
(* A client gets its answer from start to end, in order and each unit once, *)
(* and nothing once its connection is removed: the implementation of       *)
(* HttpAnswers.                                                            *)
(***************************************************************************)
Http == INSTANCE HttpAnswers WITH
            answer <- [c \in Clients |-> Answer(c)],
            closed <- {c \in Clients : events[c] = "removed"}

HttpSpec == Http!Spec

(***************************************************************************)
(* The inductive invariant: what has been sent of the answer at each place *)
(* of the handlers, and what send_buffer, file_pos, send_len and send_pos  *)
(* then say of the rest.                                                   *)
(***************************************************************************)
IsSent(c, n) == n <= Len(Answer(c)) /\ sent[c] = SubSeq(Answer(c), 1, n)

NotBegun(c) == sent[c] = <<>> /\ conn[c].filePos = 0

(* Only the connection being served has got further than accepted. *)
InputInv ==
    \A c \in Clients :
        /\ events[c] = "none" => NotBegun(c)
        /\ conn[c].state = "NO_STATE" <=> events[c] = "none"
        /\ events[c] = "in" /\ (cur = c => pc = "epoll_wait") => NotBegun(c)

HandlerInv ==
    /\ pc \in {"recv", "parse", "header"} => events[cur] = "in" /\ NotBegun(cur)
    /\ pc = "parse" => conn[cur].state = "REQUEST_RECEIVED"
    /\ pc = "header" =>
          /\ conn[cur].buffer = IF Found(cur) THEN <<Header>> ELSE <<NotFound>>
          /\ conn[cur].sendLen = 1
          /\ conn[cur].state = "SENDING_404" <=> ~Found(cur)
    /\ pc = "sendfile" => events[cur] = "in" /\ Found(cur) /\ IsSent(cur, 1 + offset)
    /\ pc = "remove" => events[cur] = "in"
    /\ pc = "submit" =>
          /\ events[cur] \in {"in", "out"} /\ aio[cur].status = "none"
          /\ Found(cur) /\ IsSent(cur, 1 + conn[cur].filePos)
          /\ events[cur] = "out" => ~Unsent(cur)
          /\ events[cur] = "in" => conn[cur].filePos = 0
    /\ pc = "getevents" => events[cur] = "out"
    /\ pc = "send" => /\ events[cur] = "out" /\ aio[cur].status = "none"
                      /\ conn[cur].filePos = 0 => ~Unsent(cur)

(* The units of a dynamic file that were read and are still to be sent:    *)
(* before the first read, send_len and send_pos speak of the header.       *)
Pending(c) == IF conn[c].filePos = 0 THEN 0 ELSE conn[c].sendLen - conn[c].sendPos

Holds(c, first, last, units) ==       \* places first .. last of send_buffer
    /\ last <= Len(conn[c].buffer)
    /\ \A k \in first .. last : conn[c].buffer[k] = units + k

Transfer(c) ==
    LET x == conn[c] IN
    /\ Found(c) /\ x.filePos <= request[c].size
    /\ 0 <= Pending(c) /\ Pending(c) <= x.filePos
    /\ IsSent(c, 1 + x.filePos - Pending(c))
    /\ x.filePos > 0 => Holds(c, x.sendPos + 1, x.sendLen, x.filePos - x.sendLen)
    /\ aio[c].status # "none" =>
          aio[c].pos = x.filePos /\ Pending(c) = 0 /\ aio[c].len = ToRead(c)
    /\ aio[c].status = "complete" => Holds(c, 1, aio[c].len, x.filePos)

DynamicInv ==
    \A c \in Clients : /\ events[c] = "out" => Transfer(c)
                       /\ aio[c].status # "none" => events[c] = "out"

(***************************************************************************)
(* A dynamic file's next read goes where the answer ends so far, and only  *)
(* when send_buffer, which it overwrites, holds nothing that is still to   *)
(* be sent: file_pos, send_len and send_pos account for every unit sent.   *)
(***************************************************************************)
NoReadOverUnsentBytes ==
    \A c \in Clients : events[c] = "out" =>
        /\ Len(sent[c]) = 1 + conn[c].filePos - Pending(c)
        /\ aio[c].status # "none" => aio[c].pos = conn[c].filePos /\ Pending(c) = 0

(***************************************************************************)
(* No transfer is left without an event to go on with: the edge is due or  *)
(* comes when the client reads.  epoll reports an edge once only, and the  *)
(* socket may well stay writable.                                          *)
(***************************************************************************)
TransferIsRearmed ==
    \A c \in Clients :
        events[c] = "out" /\ Len(sent[c]) < Len(Answer(c)) /\ peer[c] # "reset" =>
            \/ ready[c] = "yes"
            \/ ready[c] = "awaited" /\ taken[c] < Len(sent[c])
            \/ cur = c /\ pc # "epoll_wait"

(* A dynamic transfer overwrites nothing and always has a next event.      *)
TransferInv == NoReadOverUnsentBytes /\ TransferIsRearmed

(* At every place of the handlers exactly so much of the answer has been   *)
(* sent as the connection's fields say, and send_buffer holds what follows *)
(* it: no short send, late read or change of the state loses a unit.       *)
ServerInv == TypeOK /\ InputInv /\ HandlerInv /\ DynamicInv /\ TransferIsRearmed

(* A dynamic answer that has been begun is sent to its end, if reads can   *)
(* be submitted and the client stays, unless the server makes a fault.     *)
TransfersGoOn ==
    \A c \in Clients :
        events[c] = "out" ~> \/ sent[c] = Answer(c)
                            \/ conn[c].state = "CONNECTION_CLOSED"
                            \/ peer[c] = "reset"
                            \/ pc = "crashed"

-----------------------------------------------------------------------------
(* What the comments and the README say, and the code does not do. *)

(* aws.c, where sendfile finds no room: "Would block, try again later".    *)
TriedAgainLater ==
    \A c \in Clients :
        events[c] = "removed" /\ peer[c] # "reset" => sent[c] = Answer(c)
=============================================================================
