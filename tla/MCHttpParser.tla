---------------------------- MODULE MCHttpParser ----------------------------
(***************************************************************************)
(* Connections for HttpParser, written from what they say: the expected    *)
(* messages are known without parsing.  Lengths are scaled: a size_t wraps *)
(* at 10000, and no header is longer than HttpMaxHeaderSize.               *)
(***************************************************************************)
EXTENDS HttpParser, SequencesExt

CRLF == "\r\n"
Concat(strings) == FoldLeft(LAMBDA a, b : a \o b, "", strings)

(***************************************************************************)
(* Targets: the text, and its path, query string and fragment.             *)
(***************************************************************************)
Target(path, query, fragment) ==
    [url |-> path \o (IF query = "" THEN "" ELSE "?" \o query)
                  \o (IF fragment = "" THEN "" ELSE "#" \o fragment),
     path |-> path, query_string |-> query, fragment |-> fragment]
WithHost(host, t) == [t EXCEPT !.url = host \o @]
Root == Target("/", "", "")
Targets ==
    {Target("*", "", ""), Target("/a", "q?=1", ""), Target("/a", "", "f#"),
     Target("/b.c", "q", "f?g"), WithHost("http://h-1.x:80", Target("/a", "q", "f")),
     WithHost("h.x", Target("/", "", "")), WithHost("http://h", Target("", "", "")),
     WithHost("h.x:1", Target("", "", ""))}

(***************************************************************************)
(* Messages: a first line, headers, a body and how it is framed.           *)
(***************************************************************************)
Plain == [reply |-> FALSE, line |-> <<1, 1, "GET">>, target |-> Root, headers |-> <<>>,
          framing |-> "length", body |-> <<>>, trailers |-> <<>>]
Reply == [Plain EXCEPT !.reply = TRUE, !.line[3] = 200,
                        !.target = Target("", "", "")]

Length(m) == Len(Concat(m.body))
(* The header that frames the body; without one a body never ends. *)
Framing(m) ==
    CASE m.framing = "length" ->
           << <<"Content-Length", ToString(Length(m))>> >>
      [] m.framing = "chunked" -> << <<"Transfer-Encoding", "chunked">> >>
      [] m.framing = "none" -> <<>>
Headers(m) == m.headers \o Framing(m)

Lines(headers) ==
    Concat([i \in DOMAIN headers |->
              headers[i][1] \o ": " \o headers[i][2] \o CRLF])
FirstLine(m) ==
    LET version == "HTTP/" \o ToString(m.line[1]) \o "." \o ToString(m.line[2])
    IN  IF m.reply
        THEN version \o " " \o ToString(m.line[3]) \o " Fine" \o CRLF
        ELSE m.line[3] \o " " \o m.target.url \o " " \o version \o CRLF

Chunk(s) == At("0123456789abcdef", Len(s) + 1) \o CRLF \o s \o CRLF
Body(m) ==
    IF m.framing = "chunked"
    THEN Concat([i \in DOMAIN m.body |-> Chunk(m.body[i])])
         \o "0" \o CRLF \o Lines(m.trailers) \o CRLF
    ELSE Concat(m.body)
Text(m) == FirstLine(m) \o Lines(Headers(m)) \o CRLF \o Body(m)

(* Connection: close, or keep-alive, as the version asks. *)
Says(m, value) ==
    \E i \in DOMAIN m.headers :
        m.headers[i] \in {<<"Connection", value>>, <<"connection", value>>,
                          <<"Proxy-Connection", value>>}
Stays(m) == IF m.line[1] > 0 /\ m.line[2] > 0 THEN ~Says(m, "close")
            ELSE Says(m, "Keep-Alive")

(* A message after which the connection is no longer HTTP. *)
Upgrades(m) ==
    \/ ~m.reply /\ m.line[3] = "CONNECT"
    \/ \E i \in DOMAIN m.headers : m.headers[i][1] = "Upgrade"

Said(m) ==
    LET t == m.target
        hs == Headers(m) \o m.trailers
    IN  [begun |-> TRUE, url |-> t.url, path |-> t.path,
         query_string |-> t.query_string, fragment |-> t.fragment,
         headers |-> hs, last |-> IF hs = <<>> THEN "nothing" ELSE "value",
         body |-> Concat(m.body), line |-> m.line, keep_alive |-> Stays(m),
         complete |-> m.framing # "none" \/ Upgrades(m)]

(* The messages of a connection up to one that closes it, or has no end. *)
Hears(ms) ==
    LET said == [i \in DOMAIN ms |-> Said(ms[i])]
        n == Min({i \in DOMAIN ms : ~said[i].complete \/ ~Stays(ms[i])}
                 \cup {Len(ms)})
    IN  SubSeq(said, 1, n) \o IF said[n].complete THEN <<Fresh>> ELSE <<>>

Connection(type, ms) ==
    [type |-> type, text |-> Concat([i \in DOMAIN ms |-> Text(ms[i])]),
     says |-> Hears(ms)]
Request(m) == Connection("HTTP_REQUEST", <<m>>)

-----------------------------------------------------------------------------
Methods ==
    {"DELETE", "GET", "HEAD", "POST", "PUT", "OPTIONS", "TRACE", "COPY",
     "LOCK", "MKCOL", "MOVE", "PROPFIND", "PROPPATCH", "UNLOCK", "REPORT",
     "MKACTIVITY", "CHECKOUT", "MERGE", "M-SEARCH", "NOTIFY", "SUBSCRIBE",
     "UNSUBSCRIBE"}

(* Headers that matter, and headers that only look like them. *)
HeaderLists ==
    {<< <<"Connection", "close">>, <<"Co", "x">> >>,
     << <<"connection", "Keep-Alive">>, <<"Content-Lengthy", "9">> >>,
     << <<"Proxy-Connection", "close">>, <<"Transfer-Encodin", "chunked">> >>,
     << <<"Contention", "close">>, <<"Transfer-Encoding", "chunkedx">> >>,
     << <<"Connection", "closed">>, <<"X", "close">> >>}

Posted == [Plain EXCEPT !.line = <<1, 1, "POST">>, !.body = <<"ab\r\n", "c">>]
Chunked == [Posted EXCEPT !.framing = "chunked",
                          !.trailers = << <<"Vary", "*">> >>]
Old == [Plain EXCEPT !.line = <<1, 0, "GET">>]
Endless == [Plain EXCEPT !.framing = "none"]

Requests ==
    {[Plain EXCEPT !.line[3] = method] : method \in Methods}
    \cup {[Plain EXCEPT !.target = t] : t \in Targets}
    \cup {[m EXCEPT !.headers = hs] : m \in {Plain, Old}, hs \in HeaderLists}
    \cup {Posted, Chunked, Endless,
          [Endless EXCEPT !.line[3] = "CONNECT"],
          [Endless EXCEPT !.headers = << <<"Upgrade", "x">> >>]}
Replies == {Reply, [Reply EXCEPT !.body = Posted.body],
            [Reply EXCEPT !.framing = "chunked", !.body = <<"a">>]}

(* Several messages on a connection. *)
Pairs ==
    {<<Chunked, Posted>>, <<Posted, Endless>>, <<Old, Plain>>,
     <<[Posted EXCEPT !.headers = << <<"Connection", "close">> >>], Plain>>,
     <<[Old EXCEPT !.headers = << <<"connection", "Keep-Alive">> >>], Plain>>}

WellFormed ==
    {Request(m) : m \in Requests}
    \cup {Connection("HTTP_REQUEST", ms) : ms \in Pairs}
    \cup {Connection("HTTP_RESPONSE", <<m>>) : m \in Replies}
    \cup {Connection("HTTP_BOTH", <<m>>) :
            m \in {Plain, Reply, [Plain EXCEPT !.line[3] = "HEAD"]}}

(* One byte of a connection is another one: what it says is not known. *)
Base == {Request([Posted EXCEPT !.target = Target("/a", "q", "f")]),
         Connection("HTTP_RESPONSE",
                    <<[Reply EXCEPT !.framing = "chunked", !.body = <<"a">>]>>)}
Garbled ==
    UNION {{[type |-> c.type, says |-> <<>>,
             text |-> SubSeq(c.text, 1, i - 1) \o b
                      \o SubSeq(c.text, i + 1, Len(c.text))] :
              i \in 1 .. Len(c.text), b \in {" ", "c", ":", LF, CR}} :
           c \in Base}

MCClients == {<<"none", 0>>, <<"none", 1>>, <<"none", 2>>, <<"path", 0>>,
              <<"message_complete", 0>>}
MCInputs == WellFormed \cup Garbled

-----------------------------------------------------------------------------
(***************************************************************************)
(* What the parser has heard of the first n bytes, given all at once.      *)
(***************************************************************************)
AtOnce(n) ==
    http_parser_execute(Start(input, <<parser.refused, parser.answer>>),
                        SubSeq(input.text, 1, n))

(* The parser keeps to its states, and its numbers to their bounds.        *)
TypeOK ==
    /\ parser.flags \subseteq {"F_CHUNKED", "F_CONNECTION_KEEP_ALIVE",
         "F_CONNECTION_CLOSE", "F_TRAILING", "F_UPGRADE", "F_SKIPBODY"}
    /\ parser.content_length \in 0 .. SizeMod - 1
    /\ {parser.http_major, parser.http_minor, parser.status_code}
         \subseteq 0 .. 9999
    /\ parser.marks = NoMarks
    /\ fed \in 0 .. Len(input.text)
    /\ returned \in 0 .. Len(input.text) + 1

(***************************************************************************)
(* In whatever pieces the bytes come, the client is told the same as when  *)
(* they come at once, and the same byte is the first that is refused       *)
(* (README.md: the parser maintains state and never looks behind).  What   *)
(* was read of a field is not told when an error ends the call.            *)
(***************************************************************************)
PiecesAgree ==
    LET whole == AtOnce(fed)
    IN  fed > 0 /\ returned <= fed /\ parser.refused = "none" =>
          /\ returned = whole.returned
          /\ returned = fed \/ parser.upgrade =>
               parser.heard = whole.parser.heard
          /\ parser.state = whole.parser.state \/ parser.upgrade

(***************************************************************************)
(* When all bytes of well-formed messages have come, the client has heard  *)
(* what they say: first lines, targets and their parts, headers, trailers, *)
(* bodies without their framing, and nothing after a message that closes   *)
(* the connection.                                                         *)
(***************************************************************************)
HeardWhatWasSaid ==
    /\ fed = Len(input.text) /\ input.says # <<>>
    /\ parser.refused = "none" /\ parser.answer = 0
    => parser.heard = input.says

(***************************************************************************)
(* Of any bytes: a body is heard only after the headers, a completed       *)
(* message that is not chunked has a body as long as its last              *)
(* Content-Length says, or none when the client has asked for none or the  *)
(* connection is upgraded, and one that closes the connection is the last. *)
(***************************************************************************)
NumberIn(s) ==
    FoldLeft(LAMBDA n, i : IF At(s, i) \in Digit
                           THEN (n * 10 + Value[At(s, i)]) % SizeMod ELSE n,
             0, [i \in 1 .. Len(s) |-> i])
LowerCase(s) == Concat([i \in 1 .. Len(s) |-> Lower(At(s, i))])
(* A name without a colon runs on into the next one for the client. *)
Is(name, word) ==
    LET n == Len(name) - Len(word)
    IN  n >= 0 /\ LowerCase(SubSeq(name, n + 1, Len(name))) = word
LengthSaid(m) ==
    LET places == {i \in DOMAIN m.headers : /\ Is(m.headers[i][1], "content-length")
                                            /\ m.headers[i][2] # ""}
    IN  IF places = {} THEN 0 ELSE NumberIn(m.headers[Max(places)][2])
IsChunked(m) ==
    \E i \in DOMAIN m.headers :
      LET value == m.headers[i][2]
      IN  /\ Is(m.headers[i][1], "transfer-encoding")
          /\ Len(value) >= 7 /\ LowerCase(SubSeq(value, 1, 7)) = "chunked"
          /\ Bytes(SubSeq(value, 8, Len(value))) \subseteq {" "}

FramedByItsHeaders ==
    \A i \in DOMAIN parser.heard :
      LET m == parser.heard[i]
      IN  /\ m.body # "" \/ m.complete => m.line # <<>> /\ m.begun
          /\ m.complete /\ (parser.answer = 1 \/ parser.upgrade) => m.body = ""
          /\ m.complete /\ ~IsChunked(m) /\ parser.answer = 0
               /\ ~parser.upgrade => Len(m.body) = LengthSaid(m)
          /\ i < Len(parser.heard) => m.complete
          /\ i + 1 < Len(parser.heard) => m.keep_alive

(***************************************************************************)
(* test.c:1204 asserts of every message it feeds, such as the request      *)
(* "curl get", which has no Content-Length, that message_complete was      *)
(* called.  It is not: content_length is unsigned, so the -1 that stands   *)
(* for no length is the length of a body.                                  *)
(***************************************************************************)
CompleteWithoutBody ==
    /\ input.type = "HTTP_REQUEST" /\ fed = Len(input.text)
    /\ input.says # <<>> /\ parser.refused = "none" /\ parser.answer = 0
    => \A i \in DOMAIN parser.heard :
          parser.heard[i].line # <<>> => parser.heard[i].complete
=============================================================================
