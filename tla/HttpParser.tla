----------------------------- MODULE HttpParser -----------------------------
(***************************************************************************)
(* The HTTP parser of the asynchronous web server                          *)
(* (src/async-web-server/src/http-parser/http_parser.c) and a client that  *)
(* collects what the callbacks give it, as the one of its test.c does.     *)
(*                                                                         *)
(* The bytes of a connection come in pieces; each piece is one call of     *)
(* http_parser_execute, which goes through the piece byte by byte.  What   *)
(* it must remember from one call to the next is in the http_parser        *)
(* structure; where a field began in the current piece is in local         *)
(* pointers (the marks).                                                   *)
(*                                                                         *)
(* A byte is a string of length one and a piece is a string: TLA+ strings  *)
(* are sequences.  The build is the one of the repository's makefiles      *)
(* without -DHTTP_PARSER_STRICT: STRICT_CHECK checks.                      *)
(***************************************************************************)
EXTENDS Naturals, Sequences, TLC

CONSTANTS
    Inputs,          \* the connections: [type, text, says]
    Pieces,          \* the lengths in which the bytes may come
    Clients,         \* <<the callback that answers 1, or "none",
                     \*   what on_headers_complete answers>>
    HttpMaxHeaderSize,  \* HTTP_MAX_HEADER_SIZE: 80 * 1024 in the code
    NreadMod,        \* one more than the largest nread kept: 256 in the code
    SizeMod          \* one more than the largest size_t

ASSUME SizesAreNumbers ==
    /\ Pieces \subseteq Nat \ {0}
    /\ {HttpMaxHeaderSize, NreadMod, SizeMod} \subseteq Nat \ {0}

VARIABLES
    input,     \* the connection
    fed,       \* how many of its bytes the parser was given
    parser,    \* the parser, and what its client has heard
    returned,  \* what the last call returned
    over       \* the client has stopped: an error, or the end of the input
vars == <<input, fed, parser, returned, over>>

-----------------------------------------------------------------------------
(***************************************************************************)
(* Bytes.                                                                  *)
(***************************************************************************)
CR == "\r"
LF == "\n"

(* The byte of s at i, counted from 1; the terminating NUL is "". *)
At(s, i) == IF i \in 1 .. Len(s) THEN SubSeq(s, i, i) ELSE ""
Bytes(s) == {At(s, i) : i \in 1 .. Len(s)}

Digits == "0123456789"
Uppers == "ABCDEFGHIJKLMNOPQRSTUVWXYZ"
Lowers == "abcdefghijklmnopqrstuvwxyz"
Digit == Bytes(Digits)
Upper == Bytes(Uppers)
Letter == Upper \cup Bytes(Lowers)

(* Where byte c stands in s, counted from 0. *)
Place(s, c) == CHOOSE i \in 0 .. Len(s) - 1 : At(s, i + 1) = c

Lowered == [c \in Upper |-> At(Lowers, Place(Uppers, c) + 1)]
Lower(c) == IF c \in Upper THEN Lowered[c] ELSE c

(* The tables tokens and unhex; a byte that is no token has "" in the first. *)
NoTokens == Bytes("\r\n\t(),:;<=>?@[]{\\")
Token(c) == IF c \in NoTokens THEN "" ELSE Lower(c)
Hex == Digit \cup Bytes("abcdefABCDEF")
Value == [c \in Hex |-> Place("0123456789abcdef", Lower(c))]
NormalUrlChar(c) == c \notin Bytes("\r\n\t #?")

-----------------------------------------------------------------------------
(***************************************************************************)
(* The client: it collects each message from the callbacks.                *)
(***************************************************************************)
Fresh == [begun |-> FALSE, url |-> "", path |-> "", query_string |-> "",
          fragment |-> "", headers |-> <<>>, last |-> "nothing", body |-> "",
          line |-> <<>>, keep_alive |-> FALSE, complete |-> FALSE]

http_should_keep_alive(p) ==
    IF p.http_major > 0 /\ p.http_minor > 0
    THEN "F_CONNECTION_CLOSE" \notin p.flags
    ELSE "F_CONNECTION_KEEP_ALIVE" \in p.flags

(* A field goes on if the last callback gave a piece of a field. *)
AddHeader(m, f, s) ==
    LET n == Len(m.headers)
    IN  CASE f = "header_field" /\ m.last = "field" ->
               [m EXCEPT !.headers[n][1] = @ \o s]
          [] f = "header_field" /\ m.last # "field" ->
               [m EXCEPT !.headers = Append(@, <<s, "">>), !.last = "field"]
          [] f = "header_value" ->
               [m EXCEPT !.headers[n][2] = @ \o s, !.last = "value"]

(* The data callbacks. *)
Tell(x, f, s) ==
    LET n == Len(x.heard)
    IN  [x EXCEPT !.heard[n] =
           IF f \in {"header_field", "header_value"} THEN AddHeader(@, f, s)
           ELSE [@ EXCEPT ![f] = @ \o s]]

(* What on_headers_complete copies out of the parser. *)
LineOf(x) == <<x.http_major, x.http_minor,
               IF x.type = "HTTP_REQUEST" THEN x.method ELSE x.status_code>>

(* The notifications. *)
Notify(x, f) ==
    LET n == Len(x.heard)
    IN  CASE f = "message_begin" -> [x EXCEPT !.heard[n].begun = TRUE]
          [] f = "headers_complete" ->
               [x EXCEPT !.heard[n].line = LineOf(x),
                         !.heard[n].keep_alive = http_should_keep_alive(x)]
          [] f = "message_complete" ->
               [x EXCEPT !.heard = Append([@ EXCEPT ![n].complete = TRUE],
                                          Fresh)]

-----------------------------------------------------------------------------
(***************************************************************************)
(* The macros.  A call of http_parser_execute is over when its exit is     *)
(* set: "error" for goto error, "return" for a return from the middle.     *)
(***************************************************************************)
Marked == {"header_field", "header_value", "fragment", "query_string", "path",
           "url"}
NoMarks == [f \in Marked |-> 0]

To(x, s) == [x EXCEPT !.state = s]
Error(x) == [x EXCEPT !.exit = "error"]

(* y if the call goes on after x. *)
Then(x, y) == IF x.exit = "" THEN y ELSE x

(* A callback that answers something else than 0 ends the call. *)
Asked(x, f) == IF f = x.refused THEN [x EXCEPT !.exit = "return"] ELSE x

CALLBACK2(x, f) == Then(x, Asked(Notify(x, f), f))
MARK(x, f) == [x EXCEPT !.marks[f] = x.at]
CALLBACK_NOCLEAR(x, f) ==
    IF x.exit # "" \/ x.marks[f] = 0 THEN x
    ELSE Asked(Tell(x, f, SubSeq(x.data, x.marks[f], x.at - 1)), f)
CALLBACK(x, f) ==
    LET y == CALLBACK_NOCLEAR(x, f) IN Then(y, [y EXCEPT !.marks[f] = 0])

NewMessageAlways(x) ==  \* mutant
    IF x.type = "HTTP_REQUEST" THEN "s_start_req" ELSE "s_start_res"
NEW_MESSAGE(x) ==
    IF ~http_should_keep_alive(x) THEN "s_dead"
    ELSE IF x.type = "HTTP_REQUEST" THEN "s_start_req" ELSE "s_start_res"
MessageComplete(x) ==
    LET y == CALLBACK2(x, "message_complete") IN To(y, NEW_MESSAGE(y))

-----------------------------------------------------------------------------
(***************************************************************************)
(* The states that let exactly one byte pass.                              *)
(***************************************************************************)
Passes ==
    [s_res_H |-> <<"T", "s_res_HT">>,
     s_res_HT |-> <<"T", "s_res_HTT">>,
     s_res_HTT |-> <<"P", "s_res_HTTP">>,
     s_res_HTTP |-> <<"/", "s_res_first_http_major">>,
     s_res_line_almost_done |-> <<LF, "s_header_field_start">>,
     s_req_schema_slash |-> <<"/", "s_req_schema_slash_slash">>,
     s_req_schema_slash_slash |-> <<"/", "s_req_host">>,
     s_req_http_H |-> <<"T", "s_req_http_HT">>,
     s_req_http_HT |-> <<"T", "s_req_http_HTT">>,
     s_req_http_HTT |-> <<"P", "s_req_http_HTTP">>,
     s_req_http_HTTP |-> <<"/", "s_req_first_http_major">>,
     s_req_line_almost_done |-> <<LF, "s_header_field_start">>,
     s_chunk_data_almost_done |-> <<CR, "s_chunk_data_done">>,
     s_chunk_data_done |-> <<LF, "s_chunk_size_start">>]
Passed(x, ch) ==
    IF ch = Passes[x.state][1] THEN To(x, Passes[x.state][2]) ELSE Error(x)

(***************************************************************************)
(* The first byte of a message: its kind and, for a request, the method    *)
(* its first letter stands for until another letter corrects it.           *)
(***************************************************************************)
FirstLetters ==
    [C |-> "CONNECT", D |-> "DELETE", G |-> "GET", H |-> "HEAD", L |-> "LOCK",
     M |-> "MKCOL", N |-> "NOTIFY", O |-> "OPTIONS", P |-> "POST",
     R |-> "REPORT", S |-> "SUBSCRIBE", T |-> "TRACE", U |-> "UNLOCK"]

Begin(x) ==
    CALLBACK2([x EXCEPT !.flags = {}, !.content_length = SizeMod - 1],
              "message_begin")

AssignMethod(x, ch) ==
    LET y == [x EXCEPT !.method = "DELETE", !.index = 1]
    IN  IF ch \notin DOMAIN FirstLetters THEN Error(y)
        ELSE [y EXCEPT !.method = FirstLetters[ch], !.state = "s_req_method"]

start_req_or_res(x, ch) ==
    LET y == Begin(x)
    IN  IF ch \in {CR, LF} THEN x
        ELSE Then(y, IF ch = "H" THEN To(y, "s_res_or_resp_H")
                     ELSE AssignMethod([y EXCEPT !.type = "HTTP_REQUEST"], ch))

res_or_resp_H(x, ch) ==
    CASE ch = "T" -> [x EXCEPT !.type = "HTTP_RESPONSE", !.state = "s_res_HT"]
      [] ch = "E" -> [x EXCEPT !.type = "HTTP_REQUEST", !.method = "HEAD",
                               !.index = 2, !.state = "s_req_method"]
      [] OTHER -> Error(x)

start_res(x, ch) ==
    LET y == Begin(x)
    IN  Then(y, CASE ch = "H" -> To(y, "s_res_H")
                  [] ch \in {CR, LF} -> y
                  [] OTHER -> Error(y))

start_req(x, ch) ==
    LET y == Begin(x)
    IN  IF ch \in {CR, LF} THEN x
        ELSE Then(y, IF ch \in Upper THEN AssignMethod(y, ch) ELSE Error(y))

(* Where a letter tells another method than the one assumed. *)
MethodTurns ==
    {<<"CONNECT", 1, "H", "CHECKOUT">>, <<"CONNECT", 2, "P", "COPY">>,
     <<"MKCOL", 1, "O", "MOVE">>, <<"MKCOL", 1, "E", "MERGE">>,
     <<"MKCOL", 1, "-", "M-SEARCH">>, <<"MKCOL", 2, "A", "MKACTIVITY">>,
     <<"POST", 1, "R", "PROPFIND">>, <<"POST", 1, "U", "PUT">>,
     <<"UNLOCK", 2, "S", "UNSUBSCRIBE">>,
     <<"PROPFIND", 4, "P", "PROPPATCH">>}

(* CONNECT and MKCOL let pass letters that no method has there. *)
req_method(x, ch) ==
    LET due == At(x.method, x.index + 1)
        turns == {t \in MethodTurns : t[1] = x.method /\ t[2] = x.index
                                      /\ t[3] = ch}
        next == [x EXCEPT !.index = @ + 1]
    IN  CASE ch = " " /\ due = "" -> To(next, "s_req_spaces_before_url")
          [] ch = due -> next
          [] ch # due /\ turns # {} ->
               [next EXCEPT !.method = (CHOOSE t \in turns : TRUE)[4]]
          [] OTHER -> IF x.method \in {"CONNECT", "MKCOL"} THEN next
                      ELSE Error(x)

-----------------------------------------------------------------------------
(***************************************************************************)
(* The target of a request.                                                *)
(***************************************************************************)
req_spaces_before_url(x, ch) ==
    CASE ch = " " -> x
      [] ch \in {"/", "*"} -> To(MARK(MARK(x, "url"), "path"), "s_req_path")
      [] ch \in Letter -> To(MARK(x, "url"), "s_req_schema")
      [] OTHER -> Error(x)

req_schema(x, ch) ==
    CASE ch \in Letter -> x
      [] ch = ":" -> To(x, "s_req_schema_slash")
      [] ch \in Digit \cup {"."} -> To(x, "s_req_host")
      [] OTHER -> Error(x)

(* The host and the port: both end where the path begins, or the target. *)
req_host(x, ch) ==
    CASE ch \in IF x.state = "s_req_host" THEN Letter \cup Digit \cup {".", "-"}
                ELSE Digit -> x
      [] ch = ":" /\ x.state = "s_req_host" -> To(x, "s_req_port")
      [] ch = "/" -> To(MARK(x, "path"), "s_req_path")
      [] ch = " " -> To(CALLBACK(x, "url"), "s_req_http_start")
      [] OTHER -> Error(x)

(* The part of the target a state is in, if it is in one. *)
Part == [s_req_path |-> {"path"}, s_req_query_string_start |-> {},
         s_req_query_string |-> {"query_string"}, s_req_fragment_start |-> {},
         s_req_fragment |-> {"fragment"}]
EndPart(x) ==
    IF Part[x.state] = {} THEN x
    ELSE CALLBACK(x, CHOOSE f \in Part[x.state] : TRUE)

(* The target ends: a line that ends with it is HTTP/0.9. *)
EndUrl(x, ch) ==
    LET y == EndPart(CALLBACK(x, "url"))
    IN  IF ch = " " THEN To(y, "s_req_http_start")
        ELSE Then(y, [y EXCEPT !.http_major = 0, !.http_minor = 9,
                               !.state = IF ch = CR THEN "s_req_line_almost_done"
                                         ELSE "s_header_field_start"])

Starts == [s_req_query_string_start |-> "query_string",
           s_req_fragment_start |-> "fragment"]
StartPart(x) ==
    LET f == Starts[x.state]
    IN  To(MARK(x, f), IF f = "fragment" THEN "s_req_fragment"
                       ELSE "s_req_query_string")

req_url(x, ch) ==
    CASE ch \in {" ", CR, LF} -> EndUrl(x, ch)
      [] ch = "?" -> CASE x.state = "s_req_path" ->
                            To(EndPart(x), "s_req_query_string_start")
                       [] x.state = "s_req_fragment_start" -> StartPart(x)
                       [] OTHER -> x
      [] ch = "#" -> IF x.state \in {"s_req_fragment_start", "s_req_fragment"}
                     THEN x ELSE To(EndPart(x), "s_req_fragment_start")
      [] NormalUrlChar(ch) ->
           IF x.state \in DOMAIN Starts THEN StartPart(x) ELSE x
      [] OTHER -> Error(x)

req_http_start(x, ch) ==
    CASE ch = "H" -> To(x, "s_req_http_H")
      [] ch = " " -> x
      [] OTHER -> Error(x)

-----------------------------------------------------------------------------
(***************************************************************************)
(* Versions and the status: numbers of up to three digits.  The states     *)
(* that read a number, its first digit apart: the field, and what ends it. *)
(***************************************************************************)
FirstDigit ==
    [s_res_first_http_major |-> <<"http_major", "s_res_http_major">>,
     s_req_first_http_major |-> <<"http_major", "s_req_http_major">>,
     s_res_first_http_minor |-> <<"http_minor", "s_res_http_minor">>,
     s_req_first_http_minor |-> <<"http_minor", "s_req_http_minor">>,
     s_res_first_status_code |-> <<"status_code", "s_res_status_code">>]
MoreDigits ==
    [s_res_http_major |-> "http_major", s_req_http_major |-> "http_major",
     s_res_http_minor |-> "http_minor", s_req_http_minor |-> "http_minor",
     s_res_status_code |-> "status_code"]
Ends ==
    {<<"s_res_http_major", ".", "s_res_first_http_minor">>,
     <<"s_req_http_major", ".", "s_req_first_http_minor">>,
     <<"s_res_http_minor", " ", "s_res_first_status_code">>,
     <<"s_req_http_minor", CR, "s_req_line_almost_done">>,
     <<"s_req_http_minor", LF, "s_header_field_start">>,
     <<"s_res_status_code", " ", "s_res_status">>,
     <<"s_res_status_code", CR, "s_res_line_almost_done">>,
     <<"s_res_status_code", LF, "s_header_field_start">>}

first_digit(x, ch) ==
    LET f == FirstDigit[x.state][1]
    IN  CASE ch = " " /\ f = "status_code" -> x
          [] ch \in IF f = "http_major" THEN Digit \ {"0"} ELSE Digit ->
               [x EXCEPT ![f] = Value[ch], !.state = FirstDigit[x.state][2]]
          [] OTHER -> Error(x)

more_digits(x, ch) ==
    LET f == MoreDigits[x.state]
        ends == {e \in Ends : e[1] = x.state /\ e[2] = ch}
        y == [x EXCEPT ![f] = @ * 10 + Value[ch]]
    IN  IF ends # {} THEN To(x, (CHOOSE e \in ends : TRUE)[3])
        ELSE IF ch \notin Digit THEN Error(x)
        ELSE IF y[f] > 999 THEN Error(y) ELSE y

res_status(x, ch) ==
    CASE ch = CR -> To(x, "s_res_line_almost_done")
      [] ch = LF -> To(x, "s_header_field_start")
      [] OTHER -> x

-----------------------------------------------------------------------------
(***************************************************************************)
(* Header names and the values that matter.  A state of matching says      *)
(* which word is read; index is the place of the last byte that fits.      *)
(***************************************************************************)
Words ==
    [h_matching_connection |-> <<"connection", "h_connection">>,
     h_matching_proxy_connection |-> <<"proxy-connection", "h_connection">>,
     h_matching_content_length |-> <<"content-length", "h_content_length">>,
     h_matching_transfer_encoding |->
       <<"transfer-encoding", "h_transfer_encoding">>,
     h_matching_upgrade |-> <<"upgrade", "h_upgrade">>,
     h_matching_transfer_encoding_chunked |->
       <<"chunked", "h_transfer_encoding_chunked">>,
     h_matching_connection_keep_alive |->
       <<"keep-alive", "h_connection_keep_alive">>,
     h_matching_connection_close |-> <<"close", "h_connection_close">>]

Match(x, c) ==
    LET word == Words[x.header_state][1]
        i == x.index + 1
    IN  [x EXCEPT !.index = i,
                  !.header_state =
                    IF c # At(word, i + 1) THEN "h_general"
                    ELSE IF i + 1 = Len(word) THEN Words[@][2] ELSE @]

(* The names that begin with con are told apart at their fourth letter. *)
Beginnings == {<<"h_C", "o", "h_CO">>, <<"h_CO", "n", "h_CON">>,
             <<"h_CON", "n", "h_matching_connection">>,
             <<"h_CON", "t", "h_matching_content_length">>}
Beginning(x, c) ==
    LET fits == {q \in Beginnings : q[1] = x.header_state /\ q[2] = c}
    IN  [x EXCEPT !.index = @ + 1,
                  !.header_state = IF fits = {} THEN "h_general"
                                   ELSE (CHOOSE q \in fits : TRUE)[3]]

(* After a whole word only blanks may come, or it was another word. *)
Whole(x, ch) == IF ch = " " THEN x ELSE [x EXCEPT !.header_state = "h_general"]

FirstOfName == [c |-> "h_C", p |-> "h_matching_proxy_connection",
                t |-> "h_matching_transfer_encoding",
                u |-> "h_matching_upgrade"]

(***************************************************************************)
(* The end of the headers: what comes next depends on the flags, on what   *)
(* the client answers, and on content_length, which is unsigned: without   *)
(* a Content-Length it is the largest size, never less than 0.             *)
(***************************************************************************)
HeadersComplete(x) ==
    LET y == Notify([x EXCEPT !.nread = 0,
                              !.upgrade = @ \/ "F_UPGRADE" \in x.flags
                                            \/ x.method = "CONNECT"],
                    "headers_complete")
    IN  CASE x.answer = 0 -> y
          [] x.answer = 1 -> [y EXCEPT !.flags = @ \cup {"F_SKIPBODY"}]
          [] OTHER -> [y EXCEPT !.exit = "stop"]

AfterHeadersChunkedFirst(x) ==  \* mutant
    CASE x.upgrade ->
           LET y == CALLBACK2(x, "message_complete")
           IN  Then(y, [y EXCEPT !.exit = "return"])
      [] ~x.upgrade /\ "F_CHUNKED" \in x.flags -> To(x, "s_chunk_size_start")
      [] ~x.upgrade /\ "F_CHUNKED" \notin x.flags ->
           IF x.content_length = 0 \/ "F_SKIPBODY" \in x.flags
           THEN MessageComplete(x) ELSE To(x, "s_body_identity")
AfterHeaders(x) ==
    CASE x.upgrade ->
           LET y == CALLBACK2(x, "message_complete")
           IN  Then(y, [y EXCEPT !.exit = "return"])
      [] ~x.upgrade /\ "F_SKIPBODY" \in x.flags -> MessageComplete(x)
      [] ~x.upgrade /\ "F_SKIPBODY" \notin x.flags ->
           IF "F_CHUNKED" \in x.flags THEN To(x, "s_chunk_size_start")
           ELSE IF x.content_length = 0 THEN MessageComplete(x)
           ELSE To(x, "s_body_identity")

headers_almost_done(x, ch) ==
    LET y == HeadersComplete(x)
    IN  CASE ch # LF -> Error(x)
          [] ch = LF /\ "F_TRAILING" \in x.flags -> MessageComplete(x)
          [] ch = LF /\ "F_TRAILING" \notin x.flags -> Then(y, AfterHeaders(y))

header_field_start(x, ch) ==
    LET c == Token(ch)
    IN  CASE ch = CR -> To(x, "s_headers_almost_done")
          [] ch = LF -> headers_almost_done(To(x, "s_headers_almost_done"), ch)
          [] ch \notin {CR, LF} /\ c = "" -> Error(x)
          [] OTHER -> [MARK(x, "header_field") EXCEPT
                         !.index = 0, !.state = "s_header_field",
                         !.header_state = IF c \in DOMAIN FirstOfName
                                          THEN FirstOfName[c]
                                          ELSE "h_general"]

FieldEnds == (":" :> "s_header_value_start") @@ (CR :> "s_header_almost_done")
             @@ (LF :> "s_header_field_start")
header_field(x, ch) ==
    LET c == Token(ch)
    IN  CASE ch \in DOMAIN FieldEnds ->
               To(CALLBACK(x, "header_field"), FieldEnds[ch])
          [] ch \notin DOMAIN FieldEnds /\ c = "" -> Error(x)
          [] c # "" /\ x.header_state = "h_general" -> x
          [] c # "" /\ x.header_state \in {"h_C", "h_CO", "h_CON"} ->
               Beginning(x, c)
          [] c # "" /\ x.header_state \in DOMAIN Words -> Match(x, c)
          [] OTHER -> Whole(x, ch)

header_almost_done(x, ch) ==
    LET flag == CASE x.header_state = "h_connection_keep_alive" ->
                       {"F_CONNECTION_KEEP_ALIVE"}
                  [] x.header_state = "h_connection_close" ->
                       {"F_CONNECTION_CLOSE"}
                  [] x.header_state = "h_transfer_encoding_chunked" ->
                       {"F_CHUNKED"}
                  [] OTHER -> {}
    IN  IF ch # LF THEN Error(x)
        ELSE To([x EXCEPT !.flags = @ \cup flag], "s_header_field_start")

(* The words a value may be, by the header and the first letter. *)
FirstOfValue ==
    {<<"h_transfer_encoding", "c", "h_matching_transfer_encoding_chunked">>,
     <<"h_connection", "k", "h_matching_connection_keep_alive">>,
     <<"h_connection", "c", "h_matching_connection_close">>}

FirstInValue(x, ch) ==
    LET fits == {q \in FirstOfValue : q[1] = x.header_state
                                      /\ q[2] = Lower(ch)}
        y == IF x.header_state = "h_upgrade"
             THEN [x EXCEPT !.flags = @ \cup {"F_UPGRADE"}] ELSE x
    IN  CASE x.header_state = "h_content_length" ->
               IF ch \in Digit THEN [x EXCEPT !.content_length = Value[ch]]
               ELSE Error(x)
          [] x.header_state # "h_content_length" ->
               [y EXCEPT !.header_state = IF fits = {} THEN "h_general"
                                          ELSE (CHOOSE q \in fits : TRUE)[3]]

header_value_start(x, ch) ==
    LET y == [MARK(x, "header_value") EXCEPT !.state = "s_header_value",
                                             !.index = 0]
    IN  CASE ch = " " -> x
          [] ch = CR ->
               [CALLBACK(y, "header_value") EXCEPT
                  !.header_state = "h_general", !.state = "s_header_almost_done"]
          [] ch = LF -> To(CALLBACK(y, "header_value"), "s_header_field_start")
          [] OTHER -> FirstInValue(y, ch)

AddDigit(x, base, v) ==
    [x EXCEPT !.content_length = (@ * base + v) % SizeMod]

header_value(x, ch) ==
    LET y == CALLBACK(x, "header_value")
    IN  CASE ch = CR -> To(y, "s_header_almost_done")
          [] ch = LF -> Then(y, header_almost_done(y, ch))
          [] ch \notin {CR, LF} ->
               CASE x.header_state = "h_content_length" ->
                      IF ch = " " THEN x
                      ELSE IF ch \in Digit THEN AddDigit(x, 10, Value[ch])
                      ELSE Error(x)
                 [] x.header_state \in DOMAIN Words -> Match(x, Lower(ch))
                 [] x.header_state \in {"h_transfer_encoding_chunked",
                      "h_connection_keep_alive", "h_connection_close"} ->
                      Whole(x, ch)
                 [] OTHER -> [x EXCEPT !.header_state = "h_general"]

-----------------------------------------------------------------------------
(***************************************************************************)
(* Bodies.                                                                 *)
(***************************************************************************)
ToReadAll(x) == Len(x.data) + 1 - x.at  \* mutant
ToRead(x) ==
    LET left == Len(x.data) + 1 - x.at
    IN  IF left < x.content_length THEN left ELSE x.content_length

(* on_body is given the bytes the piece has, and its answer is not looked at. *)
ReadBody(x) ==
    [Tell(x, "body", SubSeq(x.data, x.at, x.at + ToRead(x) - 1)) EXCEPT
       !.at = @ + ToRead(x) - 1, !.content_length = @ - ToRead(x)]

body_identity(x) ==
    LET y == ReadBody(x)
    IN  IF y.content_length = 0 THEN MessageComplete(y) ELSE y

chunk_size_start(x, ch) ==
    IF ch \notin Hex THEN Error(x)
    ELSE [x EXCEPT !.content_length = Value[ch], !.state = "s_chunk_size"]

chunk_size(x, ch) ==
    CASE ch = CR -> To(x, "s_chunk_size_almost_done")
      [] ch \in Hex -> AddDigit(x, 16, Value[ch])
      [] ch \in {";", " "} -> To(x, "s_chunk_parameters")
      [] OTHER -> Error(x)

chunk_parameters(x, ch) ==
    IF ch = CR THEN To(x, "s_chunk_size_almost_done") ELSE x

chunk_size_almost_done(x, ch) ==
    IF ch # LF THEN Error(x)
    ELSE IF x.content_length = 0
    THEN [x EXCEPT !.nread = 0, !.flags = @ \cup {"F_TRAILING"},
                   !.state = "s_header_field_start"]
    ELSE [x EXCEPT !.nread = 0, !.state = "s_chunk_data"]

chunk_data(x) ==
    LET y == ReadBody(x)
    IN  IF y.content_length = 0 THEN To(y, "s_chunk_data_almost_done") ELSE y

-----------------------------------------------------------------------------
(***************************************************************************)
(* http_parser_execute.                                                    *)
(***************************************************************************)
BodyStates == {"s_chunk_data", "s_chunk_data_almost_done", "s_chunk_data_done",
               "s_body_identity"}

Step(x, ch) ==
    CASE x.state = "s_dead" -> Error(x)
      [] x.state = "s_start_req_or_res" -> start_req_or_res(x, ch)
      [] x.state = "s_res_or_resp_H" -> res_or_resp_H(x, ch)
      [] x.state = "s_start_res" -> start_res(x, ch)
      [] x.state = "s_start_req" -> start_req(x, ch)
      [] x.state \in DOMAIN Passes -> Passed(x, ch)
      [] x.state \in DOMAIN FirstDigit -> first_digit(x, ch)
      [] x.state \in DOMAIN MoreDigits -> more_digits(x, ch)
      [] x.state = "s_res_status" -> res_status(x, ch)
      [] x.state = "s_req_method" -> req_method(x, ch)
      [] x.state = "s_req_spaces_before_url" -> req_spaces_before_url(x, ch)
      [] x.state = "s_req_schema" -> req_schema(x, ch)
      [] x.state \in {"s_req_host", "s_req_port"} -> req_host(x, ch)
      [] x.state \in DOMAIN Part -> req_url(x, ch)
      [] x.state = "s_req_http_start" -> req_http_start(x, ch)
      [] x.state = "s_header_field_start" -> header_field_start(x, ch)
      [] x.state = "s_header_field" -> header_field(x, ch)
      [] x.state = "s_header_value_start" -> header_value_start(x, ch)
      [] x.state = "s_header_value" -> header_value(x, ch)
      [] x.state = "s_header_almost_done" -> header_almost_done(x, ch)
      [] x.state = "s_headers_almost_done" -> headers_almost_done(x, ch)
      [] x.state = "s_body_identity" -> body_identity(x)
      [] x.state = "s_chunk_size_start" -> chunk_size_start(x, ch)
      [] x.state = "s_chunk_size" -> chunk_size(x, ch)
      [] x.state = "s_chunk_parameters" -> chunk_parameters(x, ch)
      [] x.state = "s_chunk_size_almost_done" -> chunk_size_almost_done(x, ch)
      [] x.state = "s_chunk_data" -> chunk_data(x)

(* The bytes of a header are counted, over all the calls that bring it. *)
Counted(x) ==
    LET y == [x EXCEPT !.nread = @ + 1]
    IN  IF x.state \in BodyStates THEN x
        ELSE IF y.nread > HttpMaxHeaderSize THEN Error(y) ELSE y

RECURSIVE Go(_)
Go(x) ==
    LET y == Counted(x)
        z == Then(y, Step(y, At(y.data, y.at)))
    IN  IF x.at > Len(x.data) \/ x.exit # "" THEN x
        ELSE IF z.exit # "" THEN z
        ELSE Go([z EXCEPT !.at = @ + 1])

(* A field that began in an earlier piece goes on at the first byte. *)
StillMarkedNoPort ==  \* mutant
    [header_field |-> {"s_header_field"}, header_value |-> {"s_header_value"},
     fragment |-> {"s_req_fragment"}, query_string |-> {"s_req_query_string"},
     path |-> {"s_req_path"},
     url |-> {"s_req_path", "s_req_schema", "s_req_schema_slash",
              "s_req_schema_slash_slash", "s_req_host"} \cup DOMAIN Part]
StillMarked ==
    [header_field |-> {"s_header_field"}, header_value |-> {"s_header_value"},
     fragment |-> {"s_req_fragment"}, query_string |-> {"s_req_query_string"},
     path |-> {"s_req_path"},
     url |-> {"s_req_path", "s_req_schema", "s_req_schema_slash",
              "s_req_schema_slash_slash", "s_req_port", "s_req_host"}
             \cup DOMAIN Part]
Enter(x, data) ==
    [x EXCEPT !.data = data, !.at = 1, !.exit = "",
              !.marks = [f \in Marked |->
                           IF x.state \in StillMarked[f] THEN 1 ELSE 0]]

(* What every field under way gets of this piece, in the code's order. *)
Flush(x) ==
    LET a == CALLBACK_NOCLEAR(CALLBACK_NOCLEAR(x, "header_field"),
                              "header_value")
        b == CALLBACK_NOCLEAR(CALLBACK_NOCLEAR(a, "fragment"), "query_string")
    IN  CALLBACK_NOCLEAR(CALLBACK_NOCLEAR(b, "path"), "url")

(* state, header_state, index and nread are locals: what they have become  *)
(* is lost unless the call gets to its end.                                *)
Leave(x, old) ==
    LET kept == [x EXCEPT !.header_state = old.header_state,
                          !.index = old.index, !.nread = old.nread]
        saved ==
          CASE x.exit = "" -> [x EXCEPT !.index = @ % 256,
                                        !.nread = @ % NreadMod]
            [] x.exit = "error" -> To(kept, "s_dead")
            [] x.exit = "return" -> To(kept, old.state)
            [] x.exit = "stop" -> kept
    IN  [saved EXCEPT !.data = "", !.at = 1, !.marks = NoMarks]

(* Without data the connection has ended. *)
NoData(x) ==
    LET idle == {"s_dead", "s_start_req_or_res", "s_start_res", "s_start_req"}
    IN  [parser |-> x, returned |-> IF x.state \in idle THEN 0 ELSE 1]

http_parser_execute(x, data) ==
    LET y == Flush(Go(Enter(x, data)))
    IN  IF data = "" THEN NoData(x)
        ELSE [parser |-> Leave(y, x), returned |-> y.at - 1]

http_parser_init(t) ==
    [type |-> t, flags |-> {},
     state |-> CASE t = "HTTP_REQUEST" -> "s_start_req"
                 [] t = "HTTP_RESPONSE" -> "s_start_res"
                 [] t = "HTTP_BOTH" -> "s_start_req_or_res",
     header_state |-> "h_general", index |-> 0, nread |-> 0,
     content_length |-> 0, http_major |-> 0, http_minor |-> 0,
     status_code |-> 0, method |-> "DELETE", upgrade |-> FALSE,
     marks |-> NoMarks, data |-> "", at |-> 1, exit |-> "",
     refused |-> "none", answer |-> 0, heard |-> <<Fresh>>]

-----------------------------------------------------------------------------
(***************************************************************************)
(* A connection: its bytes come in pieces, in order, and then it ends.     *)
(* The client stops when a call does not take the whole piece.             *)
(***************************************************************************)
Start(in, client) ==
    [http_parser_init(in.type) EXCEPT !.refused = client[1],
                                      !.answer = client[2]]

Init ==
    /\ input \in Inputs
    /\ \E client \in Clients : parser = Start(input, client)
    /\ fed = 0
    /\ returned = 0
    /\ over = FALSE

Receive(n) ==
    /\ ~over
    /\ fed < Len(input.text)
    /\ LET end == IF fed + n < Len(input.text) THEN fed + n
                  ELSE Len(input.text)
           call == http_parser_execute(parser, SubSeq(input.text, fed + 1, end))
       IN  /\ parser' = call.parser
           /\ returned' = fed + call.returned
           /\ fed' = end
           /\ over' = (returned' # end \/ call.parser.upgrade)
    /\ UNCHANGED input

EndOfFile ==
    /\ ~over
    /\ fed = Len(input.text)
    /\ LET call == http_parser_execute(parser, "")
       IN  /\ parser' = call.parser
           /\ returned' = fed + call.returned
    /\ over' = TRUE
    /\ UNCHANGED <<input, fed>>

Next == EndOfFile \/ \E n \in Pieces : Receive(n)

Spec == Init /\ [][Next]_vars
=============================================================================
