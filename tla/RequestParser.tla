---------------------------- MODULE RequestParser ----------------------------
(***************************************************************************)
(* The incremental request parser: RequestBuilder::parse() and the         *)
(* handlers of RequestParser it dispatches to, one per Step                *)
(* (src/Request/RequestBuilder.cpp, RequestParser.cpp,                     *)
(* parse_control_data.cpp, parse_headers.cpp, parse_body.cpp).             *)
(*                                                                         *)
(* Several connections are parsed by one thread.  A read() hands parse()   *)
(* as many bytes as have arrived, so a request is cut into reads anywhere, *)
(* and between two reads of one request the bytes of others are parsed.    *)
(* Two flags of the parser are function-local statics, shared by all of    *)
(* them.                                                                   *)
(*                                                                         *)
(* A token is a run of characters that every handler treats alike: a word, *)
(* a separator, a digit, a byte of payload.  A handler is an operator from *)
(* the parser and a token to the parser afterwards.                        *)
(***************************************************************************)
EXTENDS Integers, Sequences, SequencesExt

CONSTANTS
  Conns,           \* the connections being parsed
  Scenarios,       \* what the clients may send: for each a record, see Bytes
  AllowedMethods,  \* allowed_methods of the server
  MaxBody,         \* client_max_body_size
  SizeMod,         \* 2^w, w the width of size_t
  LinesInterleave, \* whether two request lines may be parsed by turns
  NoConn           \* not a connection

ASSUME ParserAssumption ==
  /\ MaxBody \in Nat /\ SizeMod \in Nat /\ SizeMod > 3   \* a digit fits
  /\ MaxBody < SizeMod
  /\ LinesInterleave \in BOOLEAN /\ NoConn \notin Conns

----------------------------------------------------------------------------
(* Tokens and their classes (utils::is_ualpha, is_ctl, http::is_uri_char)  *)

UpperWords == {"GET", "POST", "PUT", "HTTP"}
Uris == {"/ok", "/gone"}           \* begin with '/'
Digits == {"0", "1", "2", "3"}
Versions == {"1.1", "1.0"}
Words == {"host", "content-length", "transfer-encoding", "content-type",
          "chunked", "gzip", "text/plain", "font/ttf", "v"}
Controls == {"CR", "LF", "HT"}
Separators == {"SP", "COLON", "SEMICOLON", "SLASH"}
Payload == {"x"}

Token == UpperWords \cup Uris \cup Digits \cup Versions \cup Words
           \cup Controls \cup Separators \cup Payload

IsUriChar(t) == t \notin Controls \cup {"SP"}
StartsWithSlash(t) == t \in Uris \cup {"SLASH"}

DigitValue == [d \in Digits |-> CASE d = "0" -> 0 [] d = "1" -> 1 [] d = "2" -> 2 [] OTHER -> 3]

Sizes == 0..SizeMod - 1   \* size_t

(* Digits to a size, one after the other.                                  *)
Convert(digits, step) ==
  LET size[k \in 0..Len(digits)] == IF k = 0 THEN 0 ELSE step[digits[k]][size[k - 1]]
  IN size[Len(digits)]

(* Chunk sizes are hexadecimal and wrap; a Content-Length is read from a   *)
(* stream, which stops at the largest size.                                *)
HexStep == [d \in Digits |-> [n \in Sizes |-> (n * 16 + DigitValue[d]) % SizeMod]]
DecimalStep == [d \in Digits |-> [n \in Sizes |->
  IF n * 10 + DigitValue[d] \in Sizes THEN n * 10 + DigitValue[d] ELSE SizeMod - 1]]

ToSize(digits) == Convert(digits, HexStep)
ToLength(digits) == Convert(digits, DecimalStep)

----------------------------------------------------------------------------
(* A parser                                                                *)

Steps == {"INIT", "METHOD", "URI", "PROTOCOL", "VERSION", "CR_FIRST_LINE", "HEADER",
          "HEADER_NAME", "HEADER_VALUE_INIT", "HEADER_VALUE", "CR_HEADER",
          "SECOND_CR_HEADER", "BODY", "BODY_LENGTH_END", "CR_BODY", "CHUNK_SIZE",
          "CHUNK_PARAMETERS", "CR_CHUNK_SIZE", "CHUNK_DATA", "CHUNK_DATA_END",
          "CR_CHUNK_DATA", "CHUNK_END", "CR_CHUNK_END", "SECOND_CR_CHUNK_END", "END"}

Statuses == {0, 400, 404, 405, 411, 413, 415, 500, 501, 505}   \* 0: no error

Fresh == [step |-> "INIT", method |-> <<>>, uri |-> <<>>, protocol |-> <<>>, version |-> <<>>,
          name |-> <<>>, value |-> <<>>, last |-> <<>>, headers |-> <<>>,
          checked |-> FALSE, chunked |-> FALSE, length |-> 0,
          body |-> <<>>, chunkDigits |-> <<>>, chunkSize |-> 0, chunkRead |-> 0,
          status |-> 0]

FailOutside(p, status) ==   \* faulty: a step the switch does not know
  [p EXCEPT !.step = "ERROR", !.status = status]

(* _setRequestError: an exception of a handler ends the request.           *)
Fail(p, status) == [p EXCEPT !.step = "END", !.status = status]
Goto(p, step) == [p EXCEPT !.step = step]

----------------------------------------------------------------------------
(* The request line                                                        *)

Method(p, t) ==
  CASE t \in UpperWords -> [p EXCEPT !.method = Append(@, t)]
    [] t = "SP" /\ p.method # <<>> -> Goto(p, "URI")
    [] OTHER -> Fail(p, 400)

ParseInit(p, t) == Method([Fresh EXCEPT !.step = "METHOD"], t)

(* init is the static init_uri: no character of the URI has been seen.     *)
Uri(p, t, init) ==
  CASE t = "SP" -> IF init THEN p ELSE Goto(p, "PROTOCOL")
    [] IsUriChar(t) -> [p EXCEPT !.uri = Append(@, t)]
    [] OTHER -> Fail(p, 400)

UriFlagKept(t, init) == init /\ ~IsUriChar(t)   \* faulty: never set again

UriFlag(t, init) ==   \* init_uri afterwards
  CASE t = "SP" -> TRUE
    [] IsUriChar(t) -> FALSE
    [] OTHER -> init

Protocol(p, t, init) ==
  CASE t = "SP" -> IF init THEN p ELSE Fail(p, 400)
    [] t = "SLASH" -> IF p.protocol = <<"HTTP">> THEN Goto(p, "VERSION") ELSE Fail(p, 400)
    [] t \in {"CR", "LF"} \cup Uris -> Fail(p, 400)
    [] OTHER -> [p EXCEPT !.protocol = Append(@, t)]

ProtocolFlag(p, t, init) ==   \* init_protocol afterwards
  CASE StartsWithSlash(t) -> init \/ p.protocol = <<"HTTP">>
    [] t \in {"SP", "CR", "LF"} -> init
    [] OTHER -> FALSE

VersionStatus(v) == CASE v = <<"1.1">> -> 0 [] v \in {<<>>, <<"1">>} -> 400 [] OTHER -> 505

Version(p, t) ==
  CASE t = "SP" /\ p.version # <<>> -> p
    [] t \in Digits \cup Versions -> [p EXCEPT !.version = Append(@, t)]
    [] t \in {"CR", "LF"} ->
         IF VersionStatus(p.version) # 0 THEN Fail(p, VersionStatus(p.version))
         ELSE Goto(p, IF t = "CR" THEN "CR_FIRST_LINE" ELSE "HEADER")
    [] OTHER -> Fail(p, 400)

----------------------------------------------------------------------------
(* Header lines; names are lower case already, as _add_header makes them   *)

AddHeader(p) == [p EXCEPT !.headers = Append(@, <<p.name, p.value>>), !.last = p.name,
                          !.name = <<>>, !.value = <<>>]

FieldName(p, t) ==
  CASE t = "COLON" -> Goto(p, "HEADER_VALUE_INIT")
    [] t = "CR" -> Goto(AddHeader(p), "CR_HEADER")
    [] t \in {"LF", "HT", "SP"} -> Fail(p, 400)
    [] OTHER -> [p EXCEPT !.name = Append(@, t)]

FieldValue(p, t) ==
  CASE t = "CR" -> Goto(AddHeader(p), "CR_HEADER")
    [] t = "LF" -> Goto(AddHeader(p), "HEADER")
    [] OTHER -> [p EXCEPT !.value = Append(@, t)]

Blank == {"SP", "HT"}

(* An empty line that ends in a bare LF ends the request here and now.     *)
Header(p, t) ==
  CASE p.step = "HEADER" /\ t = "CR" -> Goto(p, "SECOND_CR_HEADER")
    [] p.step = "HEADER" /\ t = "LF" -> Goto(p, "END")
    [] p.step = "HEADER" /\ t \in Blank ->
         [p EXCEPT !.name = p.last, !.step = "HEADER_VALUE_INIT"]
    [] p.step = "HEADER" /\ t \notin Blank \cup {"CR", "LF"} ->
         FieldName(Goto(p, "HEADER_NAME"), t)
    [] p.step = "HEADER_NAME" -> FieldName(p, t)
    [] p.step = "HEADER_VALUE_INIT" /\ t \in Blank -> p
    [] OTHER -> FieldValue(Goto(p, "HEADER_VALUE"), t)

----------------------------------------------------------------------------
(* check_request(), after the empty line: each check throws its status     *)

Given(p, name) == {k \in DOMAIN p.headers : p.headers[k][1] = <<name>>}
Once(p, name) == \E k \in DOMAIN p.headers : Given(p, name) = {k}
Value(p, name) == p.headers[Min(Given(p, name))][2]   \* the first

HasLength(p) == Given(p, "content-length") # {}
BadLength(p) ==
  HasLength(p) /\ \/ ~Once(p, "content-length")
                  \/ ~(ToSet(Value(p, "content-length")) \subseteq Digits)
Length(p) ==
  IF HasLength(p) /\ ~BadLength(p) THEN ToLength(Value(p, "content-length")) ELSE 0
HasEncoding(p) == Given(p, "transfer-encoding") # {}
Chunked(p) == Once(p, "transfer-encoding") /\ Value(p, "transfer-encoding") = <<"chunked">>
IsPost(p) == p.method = <<"POST">>
ContentType(p) ==   \* _set_content_type: the last value that is not empty, or none
  LET given == {k \in Given(p, "content-type") : p.headers[k][2] # <<>>}
  IN IF given = {} THEN <<>> ELSE p.headers[Max(given)][2]

RequestChecks(p) ==
  << <<~Once(p, "host") \/ Value(p, "host") = <<>>, 400>>,
     <<BadLength(p), 400>>,
     <<Length(p) > MaxBody, 413>>,
     <<HasEncoding(p) /\ ~Once(p, "transfer-encoding"), 400>>,
     <<HasEncoding(p) /\ ~Chunked(p), 501>>,
     <<p.uri = <<>> \/ ~StartsWithSlash(Head(p.uri)), 500>>,   \* _check_uri
     <<p.uri # <<"/ok">>, 404>>,
     <<p.method \notin {<<m>> : m \in AllowedMethods}, 405>>,
     <<IsPost(p) /\ ~Chunked(p) /\ Length(p) = 0, 411>>,
     <<IsPost(p) /\ Chunked(p) /\ Length(p) # 0, 400>>,
     <<IsPost(p) /\ ContentType(p) = <<>>, 400>>,
     <<IsPost(p) /\ ContentType(p) # <<"text/plain">>, 415>> >>

CheckRequestButHost(p) ==   \* faulty: _check_host() is not called
  LET checks == Tail(RequestChecks(p))
      failed == SelectInSeq(checks, LAMBDA check : check[1])
  IN IF failed # 0 THEN Fail(p, checks[failed][2])
     ELSE [p EXCEPT !.checked = TRUE, !.headers = <<>>,
                    !.length = Length(p), !.chunked = Chunked(p),
                    !.step = IF ~IsPost(p) THEN "END"
                             ELSE IF Chunked(p) THEN "CHUNK_SIZE" ELSE "BODY"]

CheckRequest(p) ==
  LET failed == SelectInSeq(RequestChecks(p), LAMBDA check : check[1])
  IN IF failed # 0 THEN Fail(p, RequestChecks(p)[failed][2])
     ELSE [p EXCEPT !.checked = TRUE, !.headers = <<>>,
                    !.length = Length(p), !.chunked = Chunked(p),
                    !.step = IF ~IsPost(p) THEN "END"
                             ELSE IF Chunked(p) THEN "CHUNK_SIZE" ELSE "BODY"]

----------------------------------------------------------------------------
(* The second character of a CRLF                                          *)

AfterCr == [CR_FIRST_LINE |-> "HEADER", CR_HEADER |-> "HEADER", SECOND_CR_HEADER |-> "END",
            CR_BODY |-> "END", CR_CHUNK_SIZE |-> "CHUNK_DATA", CR_CHUNK_DATA |-> "CHUNK_SIZE",
            CR_CHUNK_END |-> "CHUNK_END", SECOND_CR_CHUNK_END |-> "END"]

CheckCrlf(p, t) ==
  CASE t # "LF" -> Fail(p, 400)
    [] t = "LF" /\ p.step = "SECOND_CR_HEADER" -> CheckRequest(Goto(p, "END"))
    [] OTHER -> Goto(p, AfterCr[p.step])

----------------------------------------------------------------------------
(* The body                                                                *)

Body(p, t) ==
  [p EXCEPT !.body = Append(@, t),
            !.step = IF Len(p.body) + 1 = p.length THEN "BODY_LENGTH_END" ELSE @]

EndBody(p, t) ==
  CASE t = "CR" -> Goto(p, "CR_BODY")
    [] t = "LF" -> Goto(p, "END")
    [] OTHER -> Fail(p, 413)

ChunkSize(p, t) ==
  LET size == ToSize(p.chunkDigits)
      after == CASE t = "CR" -> IF size = 0 THEN "CR_CHUNK_END" ELSE "CR_CHUNK_SIZE"
                 [] t = "LF" -> IF size = 0 THEN "CHUNK_END" ELSE "CHUNK_DATA"
                 [] OTHER -> "CHUNK_PARAMETERS"
  IN CASE t \in {"CR", "LF", "SEMICOLON"} ->
            [p EXCEPT !.step = after, !.chunkSize = size, !.chunkRead = 0, !.chunkDigits = <<>>]
       [] t \in Digits -> [p EXCEPT !.chunkDigits = Append(@, t)]
       [] OTHER -> Fail(p, 400)

ChunkParameters(p, t) ==
  CASE t = "CR" -> Goto(p, "CR_CHUNK_SIZE")
    [] t = "LF" -> Goto(p, "CHUNK_DATA")
    [] OTHER -> p

ChunkDataEarly(p, t) ==   \* faulty: the limit is one byte too small
  CASE Len(p.body) + 1 = MaxBody -> Fail(p, 413)
    [] Len(p.body) + 1 # MaxBody /\ p.chunkRead < p.chunkSize ->
         [p EXCEPT !.body = Append(@, t), !.chunkRead = @ + 1,
                   !.step = IF p.chunkRead + 1 = p.chunkSize THEN "CHUNK_DATA_END" ELSE @]
    [] OTHER -> p

ChunkDataUnlimited(p, t) ==   \* faulty: the limit is not checked
  [p EXCEPT !.body = Append(@, t), !.chunkRead = @ + 1,
            !.step = IF p.chunkRead + 1 = p.chunkSize THEN "CHUNK_DATA_END" ELSE @]

ChunkData(p, t) ==
  CASE Len(p.body) = MaxBody -> Fail(p, 413)
    [] Len(p.body) # MaxBody /\ p.chunkRead < p.chunkSize ->
         [p EXCEPT !.body = Append(@, t), !.chunkRead = @ + 1,
                   !.step = IF p.chunkRead + 1 = p.chunkSize THEN "CHUNK_DATA_END" ELSE @]
    [] OTHER -> p

ChunkLineEnd(p, t, onCr, onLf) ==   \* CHUNK_DATA_END and CHUNK_END
  CASE t = "CR" -> Goto(p, onCr)
    [] t = "LF" -> Goto(p, onLf)
    [] OTHER -> Fail(p, 413)

----------------------------------------------------------------------------
(* One byte of parse(): the switch on the step                             *)

Dispatch(p, t, initUri, initProtocol) ==
  CASE p.step = "INIT" -> ParseInit(p, t)
    [] p.step = "METHOD" -> Method(p, t)
    [] p.step = "URI" -> Uri(p, t, initUri)
    [] p.step = "PROTOCOL" -> Protocol(p, t, initProtocol)
    [] p.step = "VERSION" -> Version(p, t)
    [] p.step \in {"HEADER", "HEADER_NAME", "HEADER_VALUE_INIT", "HEADER_VALUE"} -> Header(p, t)
    [] p.step \in DOMAIN AfterCr -> CheckCrlf(p, t)
    [] p.step = "BODY" -> Body(p, t)
    [] p.step = "BODY_LENGTH_END" -> EndBody(p, t)
    [] p.step = "CHUNK_SIZE" -> ChunkSize(p, t)
    [] p.step = "CHUNK_PARAMETERS" -> ChunkParameters(p, t)
    [] p.step = "CHUNK_DATA" -> ChunkData(p, t)
    [] p.step = "CHUNK_DATA_END" -> ChunkLineEnd(p, t, "CR_CHUNK_DATA", "CHUNK_SIZE")
    [] p.step = "CHUNK_END" -> ChunkLineEnd(p, t, "SECOND_CR_CHUNK_END", "END")
    [] OTHER -> p

----------------------------------------------------------------------------
(* What clients send.  A request is a record: its method, its URI and      *)
(* version, the numbers of spaces before its URI and before its protocol,  *)
(* where its first line breaks off if it does (at the end of the URI, by   *)
(* the line end or by a tab, or at the end of the protocol), how its lines *)
(* end, the number of Host headers, its content type, its                  *)
(* Transfer-Encoding and Content-Length if any, its payload and, when      *)
(* chunked, which chunk carries an extension; extra bytes may follow it.   *)

Request ==
  [method : UpperWords, gap : Nat, uri : Uris \cup {"v"}, space : Nat \ {0},
   version : Versions \cup Digits, cut : {"no", "uri", "tab", "protocol"}, crlf : BOOLEAN, hosts : 0..2, type : {"none", "text/plain", "font/ttf"},
   encoding : {"none", "chunked", "gzip"}, length : {"none", "v"} \cup Digits,
   payload : 0..3, ext : {"none", "first", "last"}, extra : Nat]

ASSUME ScenariosAssumption == Scenarios \subseteq [Conns -> Request]

DigitOf == [n \in 0..3 |-> CASE n = 0 -> "0" [] n = 1 -> "1" [] n = 2 -> "2" [] OTHER -> "3"]

Times(n, t) == [k \in 1..n |-> t]

Eol(r) == IF r.crlf THEN <<"CR", "LF">> ELSE <<"LF">>
AfterUri(r) ==
  CASE r.cut = "uri" -> <<>>
    [] r.cut = "tab" -> <<"HT">>
    [] r.cut = "protocol" -> Times(r.space, "SP") \o <<"HTTP">>
    [] OTHER -> Times(r.space, "SP") \o <<"HTTP", "SLASH", r.version>>
FirstLine(r) == <<r.method>> \o Times(r.gap, "SP") \o <<r.uri>> \o AfterUri(r) \o Eol(r)

Line(r, name, value) == <<name, "COLON", "SP", value>> \o Eol(r)
HostLines(r) ==
  CASE r.hosts = 0 -> <<>>
    [] r.hosts = 1 -> Line(r, "host", "v")
    [] OTHER -> Line(r, "host", "v") \o Line(r, "host", "v")
Optional(r, name, value) == IF value = "none" THEN <<>> ELSE Line(r, name, value)
OtherLines(r) ==
  Optional(r, "content-type", r.type) \o Optional(r, "transfer-encoding", r.encoding)
    \o Optional(r, "content-length", r.length)

ChunkLine(r, n, where) ==
  <<DigitOf[n]>> \o (IF r.ext = where THEN <<"SEMICOLON", "v">> ELSE <<>>) \o Eol(r)
Chunks(r) ==
  (IF r.payload = 0 THEN <<>>
   ELSE ChunkLine(r, r.payload, "first") \o Times(r.payload, "x") \o Eol(r))
    \o ChunkLine(r, 0, "last") \o Eol(r)
Content(r) ==
  (IF r.encoding = "chunked" THEN Chunks(r) ELSE Times(r.payload, "x")) \o Times(r.extra, "x")

Bytes(r) == FirstLine(r) \o HostLines(r) \o OtherLines(r) \o Eol(r) \o Content(r)

----------------------------------------------------------------------------

VARIABLES
  sent,           \* the request each connection sends
  input,          \* its bytes
  pos,            \* how many of them parse() has looked at
  parser,         \* _parser and the status code of _request
  ready,          \* _ready
  reading,        \* the connection parse() is running for, or NoConn
  init_uri,       \* the static of RequestParser::uri
  init_protocol   \* the static of RequestParser::protocol

vars == <<sent, input, pos, parser, ready, reading, init_uri, init_protocol>>

Init ==
  /\ sent \in Scenarios
  /\ input = [c \in Conns |-> Bytes(sent[c])]
  /\ pos = [c \in Conns |-> 0]
  /\ parser = [c \in Conns |-> Fresh]
  /\ ready = [c \in Conns |-> FALSE]
  /\ reading = NoConn
  /\ init_uri = TRUE /\ init_protocol = TRUE

More(c) == pos[c] < Len(input[c])

InFirstLine(p) == p.step \in {"METHOD", "URI", "PROTOCOL", "VERSION"}

StartRead(c) ==   \* recv() has returned at least one byte
  /\ reading = NoConn /\ ~ready[c] /\ More(c)
  /\ LinesInterleave \/ \A d \in Conns \ {c} : ~InFirstLine(parser[d])
  /\ reading' = c
  /\ UNCHANGED <<sent, input, pos, parser, ready, init_uri, init_protocol>>

ParseByte(c) ==   \* one turn of the loop of parse()
  /\ reading = c /\ ~ready[c] /\ More(c)
  /\ LET p == parser[c]
         t == input[c][pos[c] + 1]
         after == Dispatch(p, t, init_uri, init_protocol)
     IN /\ parser' = [parser EXCEPT ![c] = after]
        /\ ready' = [ready EXCEPT ![c] = after.step = "END"]
        /\ init_uri' = IF p.step = "URI" THEN UriFlag(t, init_uri) ELSE init_uri
        /\ init_protocol' = IF p.step = "PROTOCOL" THEN ProtocolFlag(p, t, init_protocol)
                                                   ELSE init_protocol
  /\ pos' = [pos EXCEPT ![c] = @ + 1]
  /\ UNCHANGED <<sent, input, reading>>

EndReadUnfinished(c) ==   \* faulty: a body that ends with the read is not noticed
  /\ reading = c
  /\ reading' = NoConn
  /\ UNCHANGED <<sent, input, pos, parser, ready, init_uri, init_protocol>>

EndReadForgetful(c) ==   \* faulty: the digits of a chunk size are lost
  /\ reading = c
  /\ reading' = NoConn
  /\ LET ended == parser[c].step = "BODY_LENGTH_END"
     IN /\ parser' = [parser EXCEPT ![c].step = IF ended THEN "END" ELSE @,
                                    ![c].chunkDigits = <<>>]
        /\ ready' = [ready EXCEPT ![c] = @ \/ ended]
  /\ UNCHANGED <<sent, input, pos, init_uri, init_protocol>>

(* The bytes of this read() are used up, or the request is ready.          *)
EndRead(c) ==
  /\ reading = c
  /\ reading' = NoConn
  /\ IF parser[c].step = "BODY_LENGTH_END"
       THEN /\ parser' = [parser EXCEPT ![c].step = "END"]
            /\ ready' = [ready EXCEPT ![c] = TRUE]
       ELSE UNCHANGED <<parser, ready>>
  /\ UNCHANGED <<sent, input, pos, init_uri, init_protocol>>

Next == \E c \in Conns : StartRead(c) \/ ParseByte(c) \/ EndRead(c)

Spec == Init /\ [][Next]_vars

----------------------------------------------------------------------------
(* Properties                                                              *)

ParserType ==
  [step : Steps, method : Seq(Token), uri : Seq(Token), protocol : Seq(Token),
   version : Seq(Token), name : Seq(Token), value : Seq(Token), last : Seq(Token),
   headers : Seq(Seq(Token) \X Seq(Token)), checked : BOOLEAN, chunked : BOOLEAN,
   length : Sizes, body : Seq(Token), chunkDigits : Seq(Digits), chunkSize : Sizes,
   chunkRead : Nat, status : Statuses]

(* Every variable has its type.                                            *)
TypeOK ==
  /\ sent \in Scenarios
  /\ input \in [Conns -> Seq(Token)]
  /\ pos \in [Conns -> Nat]
  /\ parser \in [Conns -> ParserType]
  /\ ready \in [Conns -> BOOLEAN]
  /\ reading \in Conns \cup {NoConn}
  /\ init_uri \in BOOLEAN /\ init_protocol \in BOOLEAN

Accepted(c) == ready[c] /\ parser[c].status = 0

(* A request the server understands and that obeys the grammar: spaces     *)
(* before its URI, a whole first line, lines that end in CRLF, one Host, a *)
(* body framed by one of the two headers.                                  *)
WellFormed(r) ==
  /\ r.gap # 0 /\ r.cut = "no" /\ r.crlf /\ r.hosts = 1 /\ r.version = "1.1"
  /\ r.uri = "/ok" /\ r.extra = 0
  /\ r.method \in AllowedMethods
  /\ \/ r.method = "GET" /\ r.payload = 0 /\ r.encoding = "none" /\ r.length = "none"
     \/ /\ r.method = "POST" /\ r.type = "text/plain" /\ r.payload <= MaxBody
        /\ \/ r.encoding = "none" /\ r.payload # 0 /\ r.length = DigitOf[r.payload]
           \/ r.encoding = "chunked" /\ r.length = "none"

(* The last chunk has an extension, which hides its size of 0 from the     *)
(* parser: it waits for data.                                              *)
EndHidden(r) == r.encoding = "chunked" /\ r.ext = "last"

(* A request was refused in the middle of its URI or protocol: the static  *)
(* of that token stays off, and the parser then takes a second space of    *)
(* another request for the end of a token that has not begun, and refuses  *)
(* it, though the notes accept several spaces (studies/                    *)
(* request_parsing_comments.cpp:131), and a test does (requests_success:7). *)
(* A request with single spaces does not notice, and sets the statics      *)
(* right.                                                                  *)
LineBroken == \E c \in Conns : sent[c].cut # "no" /\ parser[c].status # 0
SingleSpaced(r) == r.gap <= 1 /\ r.space = 1
Unharmed(r) == SingleSpaced(r) \/ ~LineBroken

(* A well-formed request is never turned into an error, and is not ready   *)
(* before its last byte: its body is then exactly the payload, whatever    *)
(* reads it came in.  Except where it has more spaces than one and another *)
(* request line was broken off, and for a hidden end when the body is at   *)
(* the limit: the parser then takes the CR after it for too much data.     *)
WellFormedUnderstood ==
  \A c \in Conns :
    /\ WellFormed(sent[c]) /\ Unharmed(sent[c])
    /\ EndHidden(sent[c]) => sent[c].payload < MaxBody
    => /\ parser[c].status = 0
       /\ ready[c] => /\ parser[c].checked
                      /\ Len(parser[c].body) = sent[c].payload
                      /\ ~More(c)

(* Once a well-formed request has arrived whole it is ready, if only to be *)
(* refused for what other requests left in the statics, so that the client *)
(* is not left without an answer; except for a hidden end.                 *)
WholeRequestReady ==
  \A c \in Conns :
    WellFormed(sent[c]) /\ ~EndHidden(sent[c]) /\ ~More(c) /\ reading = NoConn => ready[c]

(* A payload that goes on after the announced length.                      *)
TooLong(r) == r.length \in Digits /\ r.payload + r.extra > DigitValue[r.length]

(* Two clients that send the same bytes are treated the same, however      *)
(* their bytes were cut into reads; except that bytes after the announced  *)
(* length are refused only in the read that ends the body, and that more   *)
(* spaces than one may be refused after a broken request line.             *)
CutsDoNotMatter ==
  \A c, d \in Conns :
    /\ sent[c] = sent[d] /\ ~TooLong(sent[c]) /\ Unharmed(sent[c])
    /\ ready[c] /\ ready[d]
    =>
      /\ parser[c].status = parser[d].status
      /\ parser[c].checked = parser[d].checked
      /\ parser[c].body = parser[d].body

(* A request whose lines end in CRLF is accepted only with exactly one     *)
(* Host header.  (An empty line that ends in a bare LF ends a request      *)
(* before check_request() runs.)                                           *)
HostMandatory == \A c \in Conns : Accepted(c) /\ sent[c].crlf => sent[c].hosts = 1

(* A request whose lines end in CRLF is accepted only after its empty line *)
(* and after the checks of check_request(), and any POST only with a whole *)
(* body within the limit.                                                  *)
AcceptedIsComplete ==
  \A c \in Conns : Accepted(c) =>
    /\ sent[c].crlf => parser[c].checked
    /\ parser[c].checked /\ IsPost(parser[c]) =>
         /\ Len(parser[c].body) <= MaxBody
         /\ parser[c].chunked \/ Len(parser[c].body) = parser[c].length

(* The statics are shared: one is off its initial value only because some  *)
(* connection is in the middle of that token, or failed in it.  Otherwise  *)
(* one request could change how the next is parsed.                        *)
StaticsExplained ==
  /\ ~init_uri => \E c \in Conns :
       /\ parser[c].uri # <<>>
       /\ parser[c].step = "URI" \/ parser[c].status # 0
  /\ ~init_protocol => \E c \in Conns :
       /\ parser[c].protocol # <<>>
       /\ parser[c].step = "PROTOCOL" \/ parser[c].status # 0
=============================================================================
