------------------------- MODULE RequestParserProofs -------------------------
(***************************************************************************)
(* Proofs about RequestParser, for any requests, any number of connections *)
(* and any limits, whatever reads the bytes are cut into:                  *)
(*   - TypeCorrect: every variable has its type.  It rests on what the     *)
(*     conversions of digits return (ToSizeIsSize, ToLengthIsSize) and on  *)
(*     the outcome of check_request() (CheckOutcome).                      *)
(*   - CompleteWhenAccepted, from Invariant: each step of the machine      *)
(*     keeps what its fields mean at that step (Sound), and an LF is seen  *)
(*     at the start of a header only where the client sent a bare LF.      *)
(*   - StaticsAreExplained: the flags of _parse_uri() and                  *)
(*     _parse_protocol() that all requests share.                          *)
(*   - HostIsMandatory: every Host header sent and read so far is among    *)
(*     the headers or is the line being parsed (HostTracked).              *)
(* RequestParserCuts and RequestParserWhole go on from here to what a      *)
(* whole request is parsed to.                                             *)
(***************************************************************************)
EXTENDS RequestParser, SequenceTheorems, WellFoundedInduction, TLAPS

(***************************************************************************)
(* Conversions and types                                                   *)
(***************************************************************************)

(* Every set of natural numbers that is not empty has a least element.     *)
LEMMA LeastExists ==
  ASSUME NEW S \in SUBSET Nat, S # {}
  PROVE  \E x \in S : \A y \in S : x <= y
<1> DEFINE R == OpToRel(<, Nat)
<1>1. \E x \in S : \A y \in S : ~ (<<y, x>> \in R)
  BY NatLessThanWellFounded, WFMin
<1>2. \A x, y \in Nat : y < x => <<y, x>> \in R
  BY Zenon DEF OpToRel
<1> HIDE DEF R
<1>3. PICK x \in S : \A y \in S : ~ (<<y, x>> \in R)  BY <1>1
<1>4. \A y \in S : ~ (y < x)  BY <1>2, <1>3
<1>5. x \in Nat /\ S \subseteq Nat  OBVIOUS
<1>6. \A y \in S : x <= y  BY <1>4, <1>5
<1> QED  BY <1>6

(* What Convert() computes is a size, if each of its steps is; of a single *)
(* digit it makes one step.                                                *)
LEMMA ConvertGivesSize ==
  ASSUME NEW digits \in Seq(Digits), NEW step \in [Digits -> [Sizes -> Sizes]]
  PROVE  /\ Convert(digits, step) \in Sizes
         /\ Len(digits) = 1 => Convert(digits, step) = step[digits[1]][0]
<1> DEFINE N == Len(digits)
           Upto(g, n) == /\ g \in [0..n -> Sizes] /\ g[0] = 0
                           /\ \A k \in 1..n : g[k] = step[digits[k]][g[k - 1]]
           Size(f) == f = [k \in 0..N |-> IF k = 0 THEN 0 ELSE step[digits[k]][f[k - 1]]]
           size == CHOOSE f : Size(f)
<1>0. N \in Nat /\ 0 \in Sizes /\ \A k \in 1..N : digits[k] \in Digits
  BY ParserAssumption DEF Sizes
<1>1. \A n \in 0..N : \E g : Upto(g, n)
  <2> DEFINE T == {n \in 0..N : ~ \E g : Upto(g, n)}
  <2> SUFFICES ASSUME T # {} PROVE FALSE  OBVIOUS
  <2>0. T \in SUBSET Nat  BY <1>0
  <2>1. PICK n \in T : \A m \in T : n <= m
    <3> HIDE DEF T
    <3> QED  BY <2>0, LeastExists
  <2>2. Upto([k \in 0..0 |-> 0], 0)  BY <1>0
  <2>3. n \in 1..N /\ n - 1 \in 0..N /\ n - 1 \notin T
    <3> HIDE DEF Upto
    <3>1. n \in 0..N /\ n # 0  BY <2>1, <2>2
    <3>2. n \in 1..N /\ n - 1 \in 0..N /\ ~(n <= n - 1)  BY <1>0, <3>1
    <3> QED  BY <2>1, <3>2
  <2>4. PICK g : Upto(g, n - 1)  BY <2>3
  <2> DEFINE h == [k \in 0..n |-> IF k = n THEN step[digits[n]][g[n - 1]] ELSE g[k]]
  <2>5. digits[n] \in Digits /\ g[n - 1] \in Sizes  BY <1>0, <2>3, <2>4
  <2>6. step[digits[n]][g[n - 1]] \in Sizes  BY <2>5
  <2>7. h \in [0..n -> Sizes] /\ h[0] = 0  BY <2>3, <2>4, <2>6
  <2>8. \A k \in 1..n : h[k] = step[digits[k]][h[k - 1]]  BY <2>3, <2>4
  <2> QED  BY <2>1, <2>7, <2>8
<1>2. PICK g : Upto(g, N)
  <2> HIDE DEF Upto
  <2> QED  BY <1>0, <1>1
<1>3. Size(g)  BY <1>0, <1>2
<1>4. Size(size)  BY <1>3
<1>5. \A k \in 0..N : size[k] \in Sizes
  <2> DEFINE T == {k \in 0..N : size[k] \notin Sizes}
  <2> SUFFICES ASSUME T # {} PROVE FALSE  OBVIOUS
  <2> HIDE DEF size
  <2>0. T \in SUBSET Nat  BY <1>0
  <2>1. PICK k \in T : \A j \in T : k <= j
    <3> HIDE DEF T
    <3> QED  BY <2>0, LeastExists
  <2>2. k # 0  BY <1>0, <1>4, <2>1
  <2>3. k \in 1..N /\ size[k - 1] \in Sizes /\ digits[k] \in Digits  BY <1>0, <2>1, <2>2
  <2>4. size[k] = step[digits[k]][size[k - 1]]  BY <1>0, <1>4, <2>3
  <2> QED  BY <2>1, <2>3, <2>4
<1>6. Convert(digits, step) = size[N]  BY DEF Convert
<1>7. ASSUME N = 1 PROVE size[1] = step[digits[1]][0]
  <2> HIDE DEF size
  <2>1. size[0] = 0  BY <1>0, <1>4
  <2>2. 1 \in 0..N /\ 1 - 1 = 0  BY <1>7
  <2>3. size[1] = step[digits[1]][size[1 - 1]]  BY <1>4, <2>2
  <2> QED  BY <2>1, <2>2, <2>3
<1> HIDE DEF size
<1> QED  BY <1>0, <1>5, <1>6, <1>7

(* What a digit counts.                                                    *)
LEMMA DigitValues == \A d \in Digits : DigitValue[d] \in 0..3
  BY DEF Digits, DigitValue

(* The size of a chunk fits size_t, because xtod() wraps around.           *)
LEMMA ToSizeIsSize ==
  ASSUME NEW digits \in Seq(Digits)
  PROVE  ToSize(digits) \in Sizes
<1>1. \A d \in Digits, n \in Sizes : (n * 16 + DigitValue[d]) % SizeMod \in Sizes
  BY DigitValues, ParserAssumption DEF Sizes
<1>2. HexStep \in [Digits -> [Sizes -> Sizes]]  BY <1>1 DEF HexStep
<1> QED  BY <1>2, ConvertGivesSize DEF ToSize

(* Content-Length fits size_t, because the stream stops at the largest value.*)
LEMMA ToLengthIsSize ==
  ASSUME NEW digits \in Seq(Digits)
  PROVE  ToLength(digits) \in Sizes
<1>1. SizeMod - 1 \in Sizes  BY ParserAssumption DEF Sizes
<1>2. DecimalStep \in [Digits -> [Sizes -> Sizes]]  BY <1>1 DEF DecimalStep
<1> QED  BY <1>2, ConvertGivesSize DEF ToLength

(***************************************************************************)
(* check_request()                                                         *)
(***************************************************************************)

(* What check_request() leaves when no check throws.                       *)
Passed(p) == [p EXCEPT !.checked = TRUE, !.headers = <<>>,
                       !.length = Length(p), !.chunked = Chunked(p),
                       !.step = IF ~IsPost(p) THEN "END"
                                ELSE IF Chunked(p) THEN "CHUNK_SIZE" ELSE "BODY"]

Errors == Statuses \ {0}

(* The request fails with an error, or every one of the checks has passed. *)
LEMMA CheckOutcome ==
  ASSUME NEW p
  PROVE  \/ /\ \E s \in Errors : CheckRequest(p) = Fail(p, s)
            /\ \E k \in 1..12 : RequestChecks(p)[k][1]
         \/ /\ \A k \in 1..12 : ~RequestChecks(p)[k][1]
            /\ CheckRequest(p) = Passed(p)
<1> DEFINE checks == RequestChecks(p)
           failing == {k \in 1..Len(checks) : checks[k][1]}
<1>1. Len(checks) = 12  BY DEF RequestChecks
<1>2. \A k \in 1..12 : checks[k][2] \in Errors
  <2>1. {400, 404, 405, 411, 413, 415, 500, 501} \subseteq Errors
    BY DEF Errors, Statuses
  <2>2. checks[1][2] = 400 /\ checks[2][2] = 400 /\ checks[3][2] = 413 /\ checks[4][2] = 400
    BY DEF RequestChecks
  <2>3. checks[5][2] = 501 /\ checks[6][2] = 500 /\ checks[7][2] = 404 /\ checks[8][2] = 405
    BY DEF RequestChecks
  <2>4. checks[9][2] = 411 /\ checks[10][2] = 400 /\ checks[11][2] = 400 /\ checks[12][2] = 415
    BY DEF RequestChecks
  <2> HIDE DEF checks
  <2> TAKE k \in 1..12
  <2>5. CASE k \in 1..6  BY <2>1, <2>2, <2>3, <2>5
  <2>6. CASE k \in 7..12  BY <2>1, <2>3, <2>4, <2>6
  <2> QED  BY <2>5, <2>6
<1>3. CASE failing = {}
  <2>1. CheckRequest(p) = Passed(p)
    BY <1>3 DEF CheckRequest, Passed, SelectInSeq
  <2> QED  BY <1>1, <1>3, <2>1
<1>4. CASE failing # {}
  <2>1. PICK k \in failing : \A j \in failing : k <= j
    <3>1. failing \in SUBSET Nat  BY <1>1
    <3> HIDE DEF failing
    <3> QED  BY <1>4, <3>1, LeastExists
  <2>2. Min(failing) \in failing  BY <2>1 DEF Min
  <2>3. Min(failing) \in 1..12  BY <1>1, <2>2
  <2>4. CheckRequest(p) = Fail(p, checks[Min(failing)][2])
    BY <1>4, <2>3 DEF CheckRequest, SelectInSeq
  <2>5. checks[Min(failing)][1]  BY <2>2
  <2> QED  BY <1>2, <2>3, <2>4, <2>5
<1> QED  BY <1>3, <1>4

(* The length that check_request() announces is a size.                    *)
LEMMA LengthIsSize ==
  ASSUME NEW p \in ParserType
  PROVE  Length(p) \in Sizes
<1>1. CASE HasLength(p) /\ ~BadLength(p)
  <2> DEFINE digits == Value(p, "content-length")
  <2>1. PICK k \in DOMAIN p.headers : Given(p, "content-length") = {k}
    BY <1>1 DEF BadLength, Once
  <2>a. p.headers \in Seq(Seq(Token) \X Seq(Token))  BY DEF ParserType
  <2>2. Min({k}) = k
    <3>1. k \in Nat  BY <2>a
    <3>2. \A y \in {k} : k <= y  BY <3>1
    <3> QED  BY <3>2 DEF Min
  <2>3. digits = p.headers[k][2]  BY <2>1, <2>2 DEF Value
  <2>4. digits \in Seq(Token)
    <3>1. p.headers[k] \in Seq(Token) \X Seq(Token)  BY <2>a
    <3> QED  BY <2>3, <3>1
  <2>5. \A i \in 1..Len(digits) : digits[i] \in Digits
    BY <1>1, <2>4 DEF BadLength, ToSet
  <2> HIDE DEF digits
  <2>6. digits \in Seq(Digits)  BY <2>4, <2>5
  <2>7. ToLength(digits) \in Sizes  BY <2>6, ToLengthIsSize
  <2> QED  BY <1>1, <2>7 DEF Length, digits
<1>2. CASE ~(HasLength(p) /\ ~BadLength(p))
  BY <1>2, ParserAssumption DEF Length, Sizes
<1> QED  BY <1>1, <1>2

(***************************************************************************)
(* The handlers keep the type of a parser                                  *)
(***************************************************************************)

(* What the tokens are made of.                                            *)
LEMMA TokenKinds == /\ Digits \subseteq Token /\ Versions \subseteq Token
                    /\ UpperWords \subseteq Token
  BY DEF Token

(* A new parser has its type.                                              *)
LEMMA FreshType == Fresh \in ParserType
<1>1. 0 \in Sizes /\ 0 \in Nat  BY ParserAssumption DEF Sizes
<1> QED  BY <1>1 DEF Fresh, ParserType, Steps, Statuses

(* An error keeps the parser's type.                                       *)
LEMMA FailType ==
  ASSUME NEW p \in ParserType, NEW s \in Statuses
  PROVE  Fail(p, s) \in ParserType
  BY DEF Fail, ParserType, Steps

(* A change of step keeps the parser's type.                               *)
LEMMA GotoType ==
  ASSUME NEW p \in ParserType, NEW s \in Steps
  PROVE  Goto(p, s) \in ParserType
  BY DEF Goto, ParserType

(* A longer text in any field keeps the parser's type.                     *)
LEMMA TextType ==
  ASSUME NEW p \in ParserType, NEW text \in Seq(Token)
  PROVE  /\ [p EXCEPT !.method = text] \in ParserType
         /\ [p EXCEPT !.uri = text] \in ParserType
         /\ [p EXCEPT !.protocol = text] \in ParserType
         /\ [p EXCEPT !.version = text] \in ParserType
         /\ [p EXCEPT !.name = text] \in ParserType
         /\ [p EXCEPT !.value = text] \in ParserType
         /\ \A n \in Nat, s \in Steps :
              /\ [p EXCEPT !.body = text, !.step = s] \in ParserType
              /\ [p EXCEPT !.body = text, !.chunkRead = n, !.step = s] \in ParserType
<1> DEFINE Text == Seq(Token)
<1>1. text \in Text  OBVIOUS
<1> HIDE DEF Text
<1>2. ParserType =
  [step : Steps, method : Text, uri : Text, protocol : Text,
   version : Text, name : Text, value : Text, last : Text,
   headers : Seq(Text \X Text), checked : BOOLEAN, chunked : BOOLEAN,
   length : Sizes, body : Text, chunkDigits : Seq(Digits), chunkSize : Sizes,
   chunkRead : Nat, status : Statuses]
  BY DEF ParserType, Text
<1>3. /\ [p EXCEPT !.method = text] \in ParserType /\ [p EXCEPT !.uri = text] \in ParserType
      /\ [p EXCEPT !.protocol = text] \in ParserType
  BY <1>1, <1>2
<1>4. /\ [p EXCEPT !.version = text] \in ParserType /\ [p EXCEPT !.name = text] \in ParserType
      /\ [p EXCEPT !.value = text] \in ParserType
  BY <1>1, <1>2
<1>5. \A n \in Nat, s \in Steps :
        /\ [p EXCEPT !.body = text, !.step = s] \in ParserType
        /\ [p EXCEPT !.body = text, !.chunkRead = n, !.step = s] \in ParserType
  BY <1>1, <1>2
<1> QED  BY <1>3, <1>4, <1>5

(* New digits or a new size of the chunk keep the parser's type.           *)
LEMMA ChunkSizeType ==
  ASSUME NEW p \in ParserType, NEW digits \in Seq(Digits), NEW size \in Sizes
  PROVE  /\ [p EXCEPT !.chunkDigits = digits] \in ParserType
         /\ \A s \in Steps : [p EXCEPT !.step = s, !.chunkSize = size, !.chunkRead = 0,
                                      !.chunkDigits = <<>>] \in ParserType
<1> DEFINE Text == Seq(Token)
           Number == Seq(Digits)
           Size == Sizes
<1>1. digits \in Number /\ <<>> \in Number /\ size \in Size  OBVIOUS
<1>2. ParserType =
  [step : Steps, method : Text, uri : Text, protocol : Text,
   version : Text, name : Text, value : Text, last : Text,
   headers : Seq(Text \X Text), checked : BOOLEAN, chunked : BOOLEAN,
   length : Size, body : Text, chunkDigits : Number, chunkSize : Size,
   chunkRead : Nat, status : Statuses]
  BY DEF ParserType
<1> HIDE DEF Text, Number, Size
<1> QED  BY <1>1, <1>2

(* A finished header line keeps the parser's type.                         *)
LEMMA AddHeaderType ==
  ASSUME NEW p \in ParserType
  PROVE  AddHeader(p) \in ParserType
<1> DEFINE Text == Seq(Token)
           Lines == Seq(Text \X Text)
<1>1. /\ p.headers \in Lines /\ p.name \in Text /\ p.value \in Text
  BY DEF ParserType
<1>2. Append(p.headers, <<p.name, p.value>>) \in Lines
  <2> HIDE DEF Text
  <2> QED  BY <1>1
<1>3. <<>> \in Text  OBVIOUS
<1>4. ParserType =
  [step : Steps, method : Text, uri : Text, protocol : Text,
   version : Text, name : Text, value : Text, last : Text,
   headers : Lines, checked : BOOLEAN, chunked : BOOLEAN,
   length : Sizes, body : Text, chunkDigits : Seq(Digits), chunkSize : Sizes,
   chunkRead : Nat, status : Statuses]
  BY DEF ParserType
<1> HIDE DEF Text, Lines
<1> QED  BY <1>1, <1>2, <1>3, <1>4 DEF AddHeader

(* check_request() keeps the parser's type.                                *)
LEMMA CheckRequestType ==
  ASSUME NEW p \in ParserType
  PROVE  CheckRequest(p) \in ParserType
<1>1. ASSUME NEW s \in Errors PROVE Fail(p, s) \in ParserType
  BY FailType DEF Errors
<1>2. Passed(p) \in ParserType
  <2> DEFINE Text == Seq(Token)
             Lines == Seq(Text \X Text)
             Size == Sizes
  <2>1. Length(p) \in Size  BY LengthIsSize
  <2>2. Chunked(p) \in BOOLEAN  BY DEF Chunked, Once
  <2>3. <<>> \in Lines  OBVIOUS
  <2>4. /\ "END" \in Steps /\ "BODY" \in Steps /\ "CHUNK_SIZE" \in Steps
    BY DEF Steps
  <2>5. ParserType =
    [step : Steps, method : Text, uri : Text, protocol : Text,
     version : Text, name : Text, value : Text, last : Text,
     headers : Lines, checked : BOOLEAN, chunked : BOOLEAN,
     length : Size, body : Text, chunkDigits : Seq(Digits), chunkSize : Size,
     chunkRead : Nat, status : Statuses]
    BY DEF ParserType
  <2> HIDE DEF Text, Lines, Size
  <2> QED  BY <2>1, <2>2, <2>3, <2>4, <2>5 DEF Passed
<1> QED  BY <1>1, <1>2, CheckOutcome

(* Each handler of the switch of parse() keeps the parser's type.          *)
LEMMA DispatchType ==
  ASSUME NEW p \in ParserType, NEW t \in Token, NEW init1 \in BOOLEAN, NEW init2 \in BOOLEAN
  PROVE  Dispatch(p, t, init1, init2) \in ParserType
<1>1. 400 \in Statuses /\ 413 \in Statuses /\ 505 \in Statuses  BY DEF Statuses
<1>2. \A s \in Statuses : Fail(p, s) \in ParserType  BY FailType
<1>3. \A s \in Steps : Goto(p, s) \in ParserType  BY GotoType
<1>4. \A q \in ParserType : AddHeader(q) \in ParserType  BY AddHeaderType
<1>5. Steps = {"INIT", "METHOD", "URI", "PROTOCOL", "VERSION", "CR_FIRST_LINE", "HEADER",
          "HEADER_NAME", "HEADER_VALUE_INIT", "HEADER_VALUE", "CR_HEADER",
          "SECOND_CR_HEADER", "BODY", "BODY_LENGTH_END", "CR_BODY", "CHUNK_SIZE",
          "CHUNK_PARAMETERS", "CR_CHUNK_SIZE", "CHUNK_DATA", "CHUNK_DATA_END",
          "CR_CHUNK_DATA", "CHUNK_END", "CR_CHUNK_END", "SECOND_CR_CHUNK_END", "END"}
  BY DEF Steps
<1>6. \A q \in ParserType : Method(q, t) \in ParserType
  <2> TAKE q \in ParserType
  <2>1. Fail(q, 400) \in ParserType /\ Goto(q, "URI") \in ParserType
    BY <1>1, <1>5, FailType, GotoType
  <2>2. Append(q.method, t) \in Seq(Token)  BY DEF ParserType
  <2>3. [q EXCEPT !.method = Append(@, t)] \in ParserType  BY <2>2, TextType
  <2> QED  BY <2>1, <2>3 DEF Method
<1>7. ParseInit(p, t) \in ParserType
  <2>1. [Fresh EXCEPT !.step = "METHOD"] \in ParserType
    BY FreshType, <1>5 DEF ParserType
  <2> QED  BY <2>1, <1>6 DEF ParseInit
<1>8. Uri(p, t, init1) \in ParserType
  <2>1. Append(p.uri, t) \in Seq(Token)  BY DEF ParserType
  <2>2. [p EXCEPT !.uri = Append(@, t)] \in ParserType  BY <2>1, TextType
  <2> QED  BY <1>1, <1>2, <1>3, <1>5, <2>2 DEF Uri
<1>9. Protocol(p, t, init2) \in ParserType
  <2>1. Append(p.protocol, t) \in Seq(Token)  BY DEF ParserType
  <2>2. [p EXCEPT !.protocol = Append(@, t)] \in ParserType  BY <2>1, TextType
  <2> QED  BY <1>1, <1>2, <1>3, <1>5, <2>2 DEF Protocol
<1>10. Version(p, t) \in ParserType
  <2>1. Append(p.version, t) \in Seq(Token)  BY DEF ParserType
  <2>2. [p EXCEPT !.version = Append(@, t)] \in ParserType  BY <2>1, TextType
  <2>3. VersionStatus(p.version) \in Statuses  BY <1>1 DEF VersionStatus, Statuses
  <2> QED  BY <1>1, <1>2, <1>3, <1>5, <2>2, <2>3 DEF Version
<1>11. \A q \in ParserType : FieldName(q, t) \in ParserType /\ FieldValue(q, t) \in ParserType
  <2> TAKE q \in ParserType
  <2>1. \A s \in Steps : Goto(q, s) \in ParserType /\ Goto(AddHeader(q), s) \in ParserType
    BY <1>4, GotoType
  <2>2. /\ [q EXCEPT !.name = Append(@, t)] \in ParserType
        /\ [q EXCEPT !.value = Append(@, t)] \in ParserType
    <3>1. Append(q.name, t) \in Seq(Token) /\ Append(q.value, t) \in Seq(Token)
      BY DEF ParserType
    <3> QED  BY <3>1, TextType
  <2>3. Fail(q, 400) \in ParserType  BY <1>1, FailType
  <2> QED  BY <1>5, <2>1, <2>2, <2>3 DEF FieldName, FieldValue
<1>12. Header(p, t) \in ParserType
  <2>1. [p EXCEPT !.name = p.last, !.step = "HEADER_VALUE_INIT"] \in ParserType
    BY <1>5 DEF ParserType
  <2> QED  BY <1>3, <1>5, <1>11, <2>1 DEF Header
<1>13. ASSUME p.step \in DOMAIN AfterCr PROVE CheckCrlf(p, t) \in ParserType
  <2>1. CheckRequest(Goto(p, "END")) \in ParserType  BY <1>3, <1>5, CheckRequestType
  <2>2. AfterCr[p.step] \in Steps  BY <1>5, <1>13 DEF AfterCr
  <2> QED  BY <1>1, <1>2, <1>3, <2>1, <2>2 DEF CheckCrlf
<1>14. Body(p, t) \in ParserType
  <2>1. Append(p.body, t) \in Seq(Token) /\ p.step \in Steps  BY DEF ParserType
  <2>2. \A s \in Steps : [p EXCEPT !.body = Append(@, t), !.step = s] \in ParserType
    BY <2>1, TextType
  <2> QED  BY <1>5, <2>1, <2>2 DEF Body
<1>15. EndBody(p, t) \in ParserType  BY <1>1, <1>2, <1>3, <1>5 DEF EndBody
<1>16. ChunkSize(p, t) \in ParserType
  <2>1. ToSize(p.chunkDigits) \in Sizes /\ p.chunkDigits \in Seq(Digits)
    BY ToSizeIsSize DEF ParserType
  <2>2. \A s \in Steps : [p EXCEPT !.step = s, !.chunkSize = ToSize(p.chunkDigits),
                                   !.chunkRead = 0, !.chunkDigits = <<>>] \in ParserType
    BY <2>1, ChunkSizeType
  <2>3. t \in Digits => [p EXCEPT !.chunkDigits = Append(@, t)] \in ParserType
    <3>1. t \in Digits => Append(p.chunkDigits, t) \in Seq(Digits)  BY DEF ParserType
    <3> QED  BY <2>1, <3>1, ChunkSizeType
  <2>4. /\ Fail(p, 400) \in ParserType
        /\ {"CR_CHUNK_END", "CR_CHUNK_SIZE", "CHUNK_END", "CHUNK_DATA", "CHUNK_PARAMETERS"}
             \subseteq Steps
    BY <1>1, <1>2, <1>5, FailType DEF Steps
  <2>5. CASE t \in {"CR", "LF", "SEMICOLON"}
    <3> DEFINE size == ToSize(p.chunkDigits)
               after == CASE t = "CR" -> IF size = 0 THEN "CR_CHUNK_END" ELSE "CR_CHUNK_SIZE"
                          [] t = "LF" -> IF size = 0 THEN "CHUNK_END" ELSE "CHUNK_DATA"
                          [] OTHER -> "CHUNK_PARAMETERS"
    <3>1. after \in Steps  BY <2>4, <2>5
    <3>2. ChunkSize(p, t) = [p EXCEPT !.step = after, !.chunkSize = size, !.chunkRead = 0,
                                      !.chunkDigits = <<>>]
      BY <2>5 DEF ChunkSize, Digits
    <3> HIDE DEF after
    <3> QED  BY <2>2, <3>1, <3>2
  <2>6. CASE t \notin {"CR", "LF", "SEMICOLON"}  BY <2>3, <2>4, <2>6 DEF ChunkSize
  <2> QED  BY <2>5, <2>6
<1>17. ChunkParameters(p, t) \in ParserType  BY <1>3, <1>5 DEF ChunkParameters
<1>18. ChunkData(p, t) \in ParserType
  <2>1. Append(p.body, t) \in Seq(Token) /\ p.chunkRead + 1 \in Nat /\ p.step \in Steps
    BY DEF ParserType
  <2>2. \A s \in Steps : [p EXCEPT !.body = Append(@, t), !.chunkRead = @ + 1, !.step = s]
          \in ParserType
    BY <2>1, TextType
  <2>3. "CHUNK_DATA_END" \in Steps  BY <1>5
  <2>4. [p EXCEPT !.body = Append(@, t), !.chunkRead = @ + 1,
                  !.step = IF p.chunkRead + 1 = p.chunkSize THEN "CHUNK_DATA_END" ELSE @]
          \in ParserType
    <3>1. CASE p.chunkRead + 1 = p.chunkSize  BY <2>2, <2>3, <3>1
    <3>2. CASE p.chunkRead + 1 # p.chunkSize  BY <2>1, <2>2, <3>2
    <3> QED  BY <3>1, <3>2
  <2> QED  BY <1>1, <1>2, <2>4 DEF ChunkData
<1>19. \A s1, s2 \in Steps : ChunkLineEnd(p, t, s1, s2) \in ParserType
  BY <1>1, <1>2, <1>3 DEF ChunkLineEnd
<1> QED
  BY <1>5, <1>6, <1>7, <1>8, <1>9, <1>10, <1>12, <1>13, <1>14, <1>15, <1>16, <1>17,
     <1>18, <1>19 DEF Dispatch

(***************************************************************************)
(* What clients send                                                       *)
(***************************************************************************)

(* A repeated token is a text.                                             *)
LEMMA TimesType ==
  ASSUME NEW n \in Nat, NEW x \in Token
  PROVE  Times(n, x) \in Seq(Token)
  BY DEF Times

(* The lines of a request are texts.                                       *)
LEMMA LineTypes ==
  ASSUME NEW r \in Request, NEW name \in Token, NEW value \in Token \cup {"none"}
  PROVE  /\ Eol(r) \in Seq(Token)
         /\ value # "none" => Line(r, name, value) \in Seq(Token)
         /\ Optional(r, name, value) \in Seq(Token)
<1>1. "CR" \in Token /\ "LF" \in Token /\ "COLON" \in Token /\ "SP" \in Token
  BY DEF Token, Controls, Separators
<1>2. Eol(r) \in Seq(Token)  BY <1>1 DEF Eol
<1>3. ASSUME value # "none" PROVE Line(r, name, value) \in Seq(Token)
  <2>1. <<name, "COLON", "SP", value>> \in Seq(Token)  BY <1>1, <1>3
  <2> QED  BY <1>2, <2>1 DEF Line
<1> QED  BY <1>2, <1>3 DEF Optional

(* After its URI a client sends neither a line end nor a header name.      *)
LEMMA AfterUriPlain ==
  ASSUME NEW r \in Request
  PROVE  AfterUri(r) \in Seq(Token \ {"LF", "host"})
<1> DEFINE Plain == Token \ {"LF", "host"}
<1>1. /\ {"SP", "HTTP", "SLASH", "HT"} \subseteq Plain /\ r.version \in Plain /\ r.space \in Nat
      /\ r.cut \in {"no", "uri", "tab", "protocol"}
  BY DEF Request, Token, UpperWords, Separators, Controls, Versions, Digits
<1>2. Times(r.space, "SP") \in Seq(Plain)
  <2> HIDE DEF Plain
  <2> QED  BY <1>1 DEF Times
<1> HIDE DEF Plain
<1>3. /\ <<"HTTP">> \in Seq(Plain) /\ <<"HTTP", "SLASH", r.version>> \in Seq(Plain)
      /\ <<"HT">> \in Seq(Plain) /\ <<>> \in Seq(Plain)
  BY <1>1
<1>4. /\ Times(r.space, "SP") \o <<"HTTP">> \in Seq(Plain)
      /\ Times(r.space, "SP") \o <<"HTTP", "SLASH", r.version>> \in Seq(Plain)
  BY <1>2, <1>3
<1>5. AfterUri(r) \in Seq(Plain)  BY <1>1, <1>3, <1>4 DEF AfterUri
<1> QED  BY <1>5 DEF Plain

(* What a client sends is a text, and so are its parts.                    *)
LEMMA BytesType ==
  ASSUME NEW r \in Request
  PROVE  /\ Bytes(r) \in Seq(Token)
         /\ FirstLine(r) \in Seq(Token) /\ HostLines(r) \in Seq(Token)
         /\ OtherLines(r) \in Seq(Token) /\ Eol(r) \in Seq(Token)
         /\ Content(r) \in Seq(Token)
<1>1. /\ {"SP", "HTTP", "SLASH", "host", "v", "x", "SEMICOLON", "content-type",
          "transfer-encoding", "content-length"} \subseteq Token
  BY DEF Token, UpperWords, Words, Separators, Payload
<1>2. Eol(r) \in Seq(Token)  BY <1>1, LineTypes
<1>3. FirstLine(r) \in Seq(Token)
  <2>1. r.method \in Token /\ r.uri \in Token /\ r.version \in Token /\ r.gap \in Nat
    BY <1>1 DEF Request, Token
  <2>2. Times(r.gap, "SP") \in Seq(Token)  BY <1>1, <2>1, TimesType
  <2>3. <<r.method>> \in Seq(Token)  BY <2>1
  <2>4. <<r.uri>> \in Seq(Token)  BY <2>1
  <2>5. AfterUri(r) \in Seq(Token)
    <3>1. \A s \in Seq(Token \ {"LF", "host"}) : s \in Seq(Token)  OBVIOUS
    <3> QED  BY <3>1, AfterUriPlain
  <2> QED  BY <1>2, <2>2, <2>3, <2>4, <2>5 DEF FirstLine
<1>4. HostLines(r) \in Seq(Token)
  <2>1. Line(r, "host", "v") \in Seq(Token)  BY <1>1, LineTypes
  <2> QED  BY <2>1 DEF HostLines
<1>5. OtherLines(r) \in Seq(Token)
  <2>1. /\ r.type \in Token \cup {"none"} /\ r.encoding \in Token \cup {"none"}
        /\ r.length \in Token \cup {"none"}
    BY DEF Request, Token, Words
  <2>2. Optional(r, "content-type", r.type) \in Seq(Token)  BY <1>1, <2>1, LineTypes
  <2>3. Optional(r, "transfer-encoding", r.encoding) \in Seq(Token)
    BY <1>1, <2>1, LineTypes
  <2>4. Optional(r, "content-length", r.length) \in Seq(Token)  BY <1>1, <2>1, LineTypes
  <2> QED  BY <2>2, <2>3, <2>4 DEF OtherLines
<1>6. ASSUME NEW n \in 0..3, NEW where
      PROVE  ChunkLine(r, n, where) \in Seq(Token)
  <2>1. DigitOf[n] \in Token  BY DEF DigitOf, Token, Digits
  <2>2. <<DigitOf[n]>> \in Seq(Token) /\ <<"SEMICOLON", "v">> \in Seq(Token)  BY <1>1, <2>1
  <2> QED  BY <1>2, <2>2 DEF ChunkLine
<1>7. Content(r) \in Seq(Token)
  <2>1. r.payload \in Nat /\ r.payload \in 0..3 /\ r.extra \in Nat  BY DEF Request
  <2>2. Times(r.payload, "x") \in Seq(Token) /\ Times(r.extra, "x") \in Seq(Token)
    BY <1>1, <2>1, TimesType
  <2>3. Chunks(r) \in Seq(Token)
    <3>1. ChunkLine(r, r.payload, "first") \in Seq(Token)  BY <1>6, <2>1
    <3>2. ChunkLine(r, 0, "last") \in Seq(Token)  BY <1>6
    <3> QED  BY <1>2, <2>2, <3>1, <3>2 DEF Chunks
  <2> QED  BY <2>2, <2>3 DEF Content
<1> QED  BY <1>2, <1>3, <1>4, <1>5, <1>7 DEF Bytes

(***************************************************************************)
(* Type correctness                                                        *)
(***************************************************************************)

(* The variables have their types at first.                                *)
LEMMA InitType == Init => TypeOK
<1> SUFFICES ASSUME Init PROVE TypeOK  OBVIOUS
<1>1. \A c \in Conns : Bytes(sent[c]) \in Seq(Token)
  BY ScenariosAssumption, BytesType DEF Init
<1> QED  BY <1>1, FreshType DEF Init, TypeOK

(* What the handlers leave in the statics is a truth value.                *)
LEMMA FlagsAreBoolean ==
  ASSUME NEW p, NEW t, NEW init \in BOOLEAN
  PROVE  UriFlag(t, init) \in BOOLEAN /\ ProtocolFlag(p, t, init) \in BOOLEAN
  BY DEF UriFlag, ProtocolFlag

(* Each step keeps the types.                                              *)
LEMMA NextType == TypeOK /\ [Next]_vars => TypeOK'
<1> SUFFICES ASSUME TypeOK, [Next]_vars PROVE TypeOK'  OBVIOUS
<1>1. ASSUME NEW c \in Conns, StartRead(c) PROVE TypeOK'
  BY <1>1 DEF TypeOK, StartRead
<1>2. ASSUME NEW c \in Conns, ParseByte(c) PROVE TypeOK'
  <2> DEFINE p == parser[c]
             t == input[c][pos[c] + 1]
             after == Dispatch(p, t, init_uri, init_protocol)
  <2>1. p \in ParserType /\ t \in Token  BY <1>2 DEF TypeOK, ParseByte, More
  <2>2. after \in ParserType  BY <2>1, DispatchType DEF TypeOK
  <2>3. parser' \in [Conns -> ParserType] /\ ready' \in [Conns -> BOOLEAN]
    <3> HIDE DEF after
    <3>1. /\ parser' = [parser EXCEPT ![c] = after]
          /\ ready' = [ready EXCEPT ![c] = after.step = "END"]
      BY <1>2 DEF ParseByte, after
    <3> QED  BY <2>2, <3>1 DEF TypeOK
  <2>4. init_uri' \in BOOLEAN /\ init_protocol' \in BOOLEAN
    BY <1>2, FlagsAreBoolean DEF TypeOK, ParseByte
  <2>5. pos' \in [Conns -> Nat]  BY <1>2 DEF TypeOK, ParseByte
  <2>6. UNCHANGED <<sent, input, reading>>  BY <1>2 DEF ParseByte
  <2> QED  BY <2>3, <2>4, <2>5, <2>6 DEF TypeOK
<1>3. ASSUME NEW c \in Conns, EndRead(c) PROVE TypeOK'
  <2>1. parser' \in [Conns -> ParserType]
    <3>1. [parser[c] EXCEPT !.step = "END"] \in ParserType
      BY GotoType DEF TypeOK, Goto, Steps
    <3>2. CASE parser[c].step = "BODY_LENGTH_END"
      <4>1. parser' = [parser EXCEPT ![c] = [parser[c] EXCEPT !.step = "END"]]
        BY <1>3, <3>2 DEF EndRead, TypeOK
      <4> QED  BY <3>1, <4>1 DEF TypeOK
    <3>3. CASE parser[c].step # "BODY_LENGTH_END"  BY <1>3, <3>3 DEF EndRead, TypeOK
    <3> QED  BY <3>2, <3>3
  <2> QED  BY <1>3, <2>1 DEF TypeOK, EndRead
<1>4. CASE UNCHANGED vars  BY <1>4 DEF TypeOK, vars
<1> QED  BY <1>1, <1>2, <1>3, <1>4 DEF Next

(* Every variable of the parser has its type: in particular no handler     *)
(* leaves a step that the switch of parse() does not know.                 *)
THEOREM TypeCorrect == Spec => []TypeOK
<1> QED  BY InitType, NextType, PTL DEF Spec

(***************************************************************************)
(* A parser agrees with itself                                             *)
(***************************************************************************)

Before == {"INIT", "METHOD", "URI", "PROTOCOL", "VERSION", "CR_FIRST_LINE", "HEADER",
           "HEADER_NAME", "HEADER_VALUE_INIT", "HEADER_VALUE", "CR_HEADER",
           "SECOND_CR_HEADER"}
Measured == {"BODY_LENGTH_END", "CR_BODY"}
InChunks == Steps \ (Before \cup Measured \cup {"BODY", "END"})

(* Before check_request() there is no body; after it the body is within    *)
(* the limit and, without chunks, has the announced length at its end.     *)
Sound(p) ==
  /\ p.status # 0 => p.step = "END"
  /\ p.step \in Before => ~p.checked /\ p.body = <<>>
  /\ p.step \notin Before \cup {"END"} => p.checked
  /\ p.step = "BODY" => Len(p.body) < p.length /\ p.length <= MaxBody
  /\ p.step \in Measured => Len(p.body) = p.length /\ p.length <= MaxBody
  /\ p.step \in InChunks => p.chunked /\ Len(p.body) <= MaxBody
  /\ p.step = "END" /\ p.status = 0 /\ p.checked /\ IsPost(p) =>
       /\ Len(p.body) <= MaxBody
       /\ p.chunked \/ Len(p.body) = p.length

(* Only the second character of an empty line, or a bare LF where a header *)
(* should begin, ends a request without error before it was checked.       *)
InStep(c) ==
  /\ ready[c] <=> parser[c].step = "END"
  /\ Sound(parser[c])
  /\ sent[c].crlf =>
       /\ parser[c].step = "HEADER" => pos[c] > 0 /\ input[c][pos[c]] = "LF"
       /\ parser[c].step = "END" /\ parser[c].status = 0 => parser[c].checked

CrlfOnly(s) == \A k \in 1..Len(s) : s[k] = "LF" => k > 1 /\ s[k - 1] = "CR"

(* A request that has failed is at its end, with a status that is not 0.   *)
LEMMA EndsInError ==
  ASSUME NEW p \in ParserType, NEW s \in Errors
  PROVE  Sound(Fail(p, s)) /\ Fail(p, s).step = "END" /\ Fail(p, s).status # 0
<1>1. Fail(p, s).step = "END" /\ Fail(p, s).status = s  BY DEF Fail, ParserType
<1> QED  BY <1>1 DEF Sound, Before, Measured, InChunks, Errors

(* One byte before the body.                                               *)
LEMMA BeforeSound ==
  ASSUME NEW p \in ParserType, Sound(p), p.step \in Before, p.step \notin DOMAIN AfterCr,
         NEW t, NEW init1, NEW init2
  PROVE  LET q == Dispatch(p, t, init1, init2)
         IN  /\ Sound(q)
             /\ q.step \in Before \cup {"END"}
             /\ q.step = "HEADER" => t = "LF"
             /\ q.step = "END" /\ q.status = 0 => p.step = "HEADER" /\ t = "LF"
<1> DEFINE q == Dispatch(p, t, init1, init2)
<1>1. 400 \in Errors /\ 505 \in Errors  BY DEF Errors, Statuses
<1>2. ~p.checked /\ p.body = <<>> /\ p.status = 0  BY DEF Sound, Before
<1> DEFINE Good(x) == /\ x.step \in Before \cup {"END"}
                      /\ x.step = "HEADER" => t = "LF"
                      /\ x.step = "END" /\ x.status = 0 => p.step = "HEADER" /\ t = "LF"
                      /\ x.status # 0 => x.step = "END"
                      /\ ~x.checked /\ x.body = <<>>
<1>3. \A x : Good(x) => Sound(x)  BY DEF Sound, Before, Measured, InChunks
<1>4. \A s \in Errors : Good(Fail(p, s))  BY <1>2 DEF Fail, ParserType, Errors
<1>5. \A s \in Before \ {"HEADER"} : Good(Goto(p, s))  BY <1>2 DEF Goto, ParserType, Before
<1>6. ASSUME p.step = "INIT" PROVE Good(q)
  <2> DEFINE new == [Fresh EXCEPT !.step = "METHOD"]
  <2>1. /\ new.step = "METHOD" /\ ~new.checked /\ new.body = <<>>
        /\ new.status = 0 /\ new.method = <<>> /\ new \in ParserType
    <3>1. Goto(Fresh, "METHOD") \in ParserType  BY FreshType, GotoType DEF Steps
    <3>2. Goto(Fresh, "METHOD") = new  BY DEF Goto
    <3> QED  BY <3>1, <3>2 DEF Fresh
  <2>2. Method(new, t) = [new EXCEPT !.method = Append(@, t)] \/ Method(new, t) = Fail(new, 400)
    BY <2>1 DEF Method
  <2>3. Good([new EXCEPT !.method = Append(@, t)])
    BY <2>1 DEF Fresh, Before
  <2>4. Good(Fail(new, 400))  BY <2>1 DEF Fail, ParserType
  <2>5. q = Method(new, t)  BY <1>6 DEF Dispatch, ParseInit
  <2> HIDE DEF Good, q, new
  <2> QED  BY <2>2, <2>3, <2>4, <2>5
<1>7. ASSUME p.step = "METHOD" PROVE Good(q)
  <2>1. q = Method(p, t)  BY <1>7 DEF Dispatch
  <2>2. Good([p EXCEPT !.method = Append(@, t)])  BY <1>2, <1>7 DEF ParserType, Before
  <2>3. Good(Goto(p, "URI"))  BY <1>5 DEF Before
  <2> QED  BY <1>1, <1>4, <2>1, <2>2, <2>3 DEF Method
<1>8. ASSUME p.step = "URI" PROVE Good(q)
  <2>1. q = Uri(p, t, init1)  BY <1>8 DEF Dispatch
  <2>2. Good([p EXCEPT !.uri = Append(@, t)])  BY <1>2, <1>8 DEF ParserType, Before
  <2>3. Good(Goto(p, "PROTOCOL"))  BY <1>5 DEF Before
  <2>4. Good(p)  BY <1>2, <1>8 DEF Before
  <2> QED  BY <1>1, <1>4, <2>1, <2>2, <2>3, <2>4 DEF Uri
<1>9. ASSUME p.step = "PROTOCOL" PROVE Good(q)
  <2>1. q = Protocol(p, t, init2)  BY <1>9 DEF Dispatch
  <2>2. Good([p EXCEPT !.protocol = Append(@, t)])  BY <1>2, <1>9 DEF ParserType, Before
  <2>3. Good(Goto(p, "VERSION"))  BY <1>5 DEF Before
  <2>4. Good(p)  BY <1>2, <1>9 DEF Before
  <2> QED  BY <1>1, <1>4, <2>1, <2>2, <2>3, <2>4 DEF Protocol
<1>10. ASSUME p.step = "VERSION" PROVE Good(q)
  <2>1. q = Version(p, t)  BY <1>10 DEF Dispatch
  <2>2. Good([p EXCEPT !.version = Append(@, t)])  BY <1>2, <1>10 DEF ParserType, Before
  <2>3. Good(Goto(p, "CR_FIRST_LINE"))  BY <1>5 DEF Before
  <2>4. t = "LF" => Good(Goto(p, "HEADER"))  BY <1>2 DEF Goto, ParserType, Before
  <2>5. Good(p)  BY <1>2, <1>10 DEF Before
  <2>6. VersionStatus(p.version) = 0 \/ VersionStatus(p.version) \in Errors
    BY <1>1 DEF VersionStatus
  <2> QED  BY <1>1, <1>4, <2>1, <2>2, <2>3, <2>4, <2>5, <2>6 DEF Version
<1>11. ASSUME p.step \in {"HEADER", "HEADER_NAME", "HEADER_VALUE_INIT", "HEADER_VALUE"}
       PROVE  Good(q)
  <2>1. q = Header(p, t)  BY <1>11 DEF Dispatch
  <2>2. \A x \in {p, Goto(p, "HEADER_NAME"), Goto(p, "HEADER_VALUE")} :
          /\ x \in ParserType /\ x.status = 0 /\ ~x.checked /\ x.body = <<>>
          /\ x.step \in Before
    <3>1. \A s \in Before : LET x == Goto(p, s)
                             IN  /\ x.status = 0 /\ ~x.checked /\ x.body = <<>> /\ x.step = s
      BY <1>2 DEF Goto, ParserType
    <3>2. \A s \in Before : Goto(p, s) \in ParserType  BY GotoType DEF Before, Steps
    <3> QED  BY <1>2, <3>1, <3>2 DEF Before
  <2>3. ASSUME NEW x \in {p, Goto(p, "HEADER_NAME"), Goto(p, "HEADER_VALUE")}
        PROVE  /\ x.step # "HEADER" => Good(FieldName(x, t))
               /\ x.step # "HEADER" => Good(FieldValue(x, t))
    <3>1. x \in ParserType /\ x.status = 0 /\ ~x.checked /\ x.body = <<>> /\ x.step \in Before
      BY <2>2
    <3>2. Good(Fail(x, 400))  BY <3>1 DEF Fail, ParserType
    <3>3. Good(Goto(x, "HEADER_VALUE_INIT"))  BY <3>1 DEF Goto, ParserType, Before
    <3>4. AddHeader(x) \in ParserType /\ AddHeader(x).status = 0 /\ ~AddHeader(x).checked
            /\ AddHeader(x).body = <<>>
      <4>1. AddHeader(x) \in ParserType  BY <3>1, AddHeaderType
      <4>2. /\ AddHeader(x).status = x.status /\ AddHeader(x).checked = x.checked
            /\ AddHeader(x).body = x.body
        BY <3>1 DEF AddHeader, ParserType
      <4> QED  BY <3>1, <4>1, <4>2
    <3>5. Good(Goto(AddHeader(x), "CR_HEADER"))  BY <3>4 DEF Goto, ParserType, Before
    <3>6. t = "LF" => Good(Goto(AddHeader(x), "HEADER"))  BY <3>4 DEF Goto, ParserType, Before
    <3>7. ASSUME NEW y \in {[x EXCEPT !.name = Append(@, t)], [x EXCEPT !.value = Append(@, t)]},
                 x.step # "HEADER"
          PROVE  Good(y)
      <4>1. /\ y.step = x.step /\ y.checked = x.checked /\ y.body = x.body
            /\ y.status = x.status
        BY <3>1 DEF ParserType
      <4> QED  BY <3>1, <3>7, <4>1 DEF Before
    <3> QED  BY <3>2, <3>3, <3>5, <3>6, <3>7 DEF FieldName, FieldValue
  <2>4. /\ Goto(p, "HEADER_NAME").step # "HEADER" /\ Goto(p, "HEADER_VALUE").step # "HEADER"
    BY DEF Goto, ParserType
  <2>5. Good(Goto(p, "SECOND_CR_HEADER"))  BY <1>5 DEF Before
  <2>6. p.step = "HEADER" /\ t = "LF" => Good(Goto(p, "END"))
    BY <1>2 DEF Goto, ParserType
  <2>7. Good([p EXCEPT !.name = p.last, !.step = "HEADER_VALUE_INIT"])
    BY <1>2 DEF ParserType, Before
  <2>8. p.step # "HEADER" => Good(p)  BY <1>2 DEF Before
  <2> HIDE DEF Good, q
  <2>9. /\ Good(FieldName(Goto(p, "HEADER_NAME"), t))
        /\ Good(FieldValue(Goto(p, "HEADER_VALUE"), t))
        /\ p.step # "HEADER" => Good(FieldName(p, t))
    BY <2>3, <2>4
  <2> QED  BY <1>11, <2>1, <2>5, <2>6, <2>7, <2>8, <2>9 DEF Header
<1>12. Good(q)
  BY <1>6, <1>7, <1>8, <1>9, <1>10, <1>11 DEF Before, AfterCr
<1> QED  BY <1>3, <1>12

(* The second character of a CRLF, and so the checks of check_request().   *)
LEMMA CrlfSound ==
  ASSUME NEW p \in ParserType, Sound(p), p.step \in DOMAIN AfterCr,
         NEW t, NEW init1, NEW init2
  PROVE  LET q == Dispatch(p, t, init1, init2)
         IN  /\ Sound(q)
             /\ q.step = "HEADER" => t = "LF"
             /\ q.step = "END" /\ q.status = 0 => q.checked
<1> DEFINE q == Dispatch(p, t, init1, init2)
           Good(x) == /\ Sound(x)
                      /\ x.step = "HEADER" => t = "LF"
                      /\ x.step = "END" /\ x.status = 0 => x.checked
<1>1. q = CheckCrlf(p, t)  BY DEF Dispatch, AfterCr
<1>2. p.status = 0  BY DEF Sound, AfterCr
<1>3. \A x \in ParserType, s \in Errors : Good(Fail(x, s))
  BY EndsInError
<1>4. 400 \in Errors  BY DEF Errors, Statuses
<1>5. ASSUME p.step = "SECOND_CR_HEADER" PROVE Good(CheckRequest(Goto(p, "END")))
  <2> DEFINE x == Goto(p, "END")
             y == Passed(x)
  <2>1. x \in ParserType  BY GotoType DEF Steps
  <2>2. x.body = <<>> /\ x.status = 0 /\ x.method = p.method
    BY <1>2, <1>5 DEF Sound, Before, Goto, ParserType
  <2>3. ASSUME \A k \in 1..12 : ~RequestChecks(x)[k][1] PROVE Good(y)
    <3>1. ~(Length(x) > MaxBody)
      <4>1. RequestChecks(x)[3][1] <=> Length(x) > MaxBody  BY DEF RequestChecks
      <4> QED  BY <2>3, <4>1
    <3>2. ~(IsPost(x) /\ ~Chunked(x) /\ Length(x) = 0)
      <4>1. RequestChecks(x)[9][1] <=> IsPost(x) /\ ~Chunked(x) /\ Length(x) = 0
        BY DEF RequestChecks
      <4> QED  BY <2>3, <4>1
    <3>3. Length(x) \in Nat  BY <2>1, LengthIsSize, ParserAssumption DEF Sizes
    <3>4. /\ y.checked /\ y.body = <<>> /\ y.status = 0 /\ y.method = x.method
          /\ y.length = Length(x) /\ y.chunked = Chunked(x)
          /\ y.step = IF ~IsPost(x) THEN "END"
                       ELSE IF Chunked(x) THEN "CHUNK_SIZE" ELSE "BODY"
      BY <2>1, <2>2 DEF Passed, ParserType
    <3>5. Len(y.body) = 0 /\ IsPost(y) = IsPost(x)  BY <3>4 DEF IsPost
    <3> HIDE DEF x, y
    <3> QED
      BY <3>1, <3>2, <3>3, <3>4, <3>5, ParserAssumption
         DEF Sound, Before, Measured, InChunks, Steps
  <2> HIDE DEF x, Good
  <2> QED  BY <1>3, <2>1, <2>3, CheckOutcome DEF x
<1>6. ASSUME p.step # "SECOND_CR_HEADER", t = "LF" PROVE Good(Goto(p, AfterCr[p.step]))
  <2> DEFINE x == Goto(p, AfterCr[p.step])
  <2>1. /\ x.step = AfterCr[p.step] /\ x.status = 0 /\ x.checked = p.checked
        /\ x.body = p.body /\ x.length = p.length /\ x.chunked = p.chunked
    BY <1>2 DEF Goto, ParserType
  <2>2. p.body \in Seq(Token)  BY DEF ParserType
  <2>3. \/ p.step \in {"CR_FIRST_LINE", "CR_HEADER"} /\ x.step = "HEADER"
        \/ p.step = "CR_BODY" /\ x.step = "END"
        \/ p.step \in InChunks /\ x.step \in InChunks \cup {"END"}
    BY <1>6, <2>1 DEF AfterCr, InChunks, Steps, Before, Measured
  <2> HIDE DEF x
  <2>4. ASSUME p.step \in {"CR_FIRST_LINE", "CR_HEADER"} /\ x.step = "HEADER"
        PROVE  Good(x)
    BY <1>6, <2>1, <2>4 DEF Sound, Before, Measured, InChunks
  <2>5. ASSUME p.step = "CR_BODY" /\ x.step = "END"
        PROVE  Good(x)
    <3>1. p.checked /\ Len(p.body) = p.length /\ p.length <= MaxBody
      BY <2>5 DEF Sound, Before, Measured
    <3> QED  BY <2>1, <2>5, <3>1 DEF Sound, Before, Measured, InChunks
  <2>6. ASSUME p.step \in InChunks /\ x.step \in InChunks \cup {"END"}
        PROVE  Good(x)
    <3>1. p.checked /\ p.chunked /\ Len(p.body) <= MaxBody
      BY <2>6 DEF Sound, InChunks
    <3>2. x.step \notin Before \cup Measured \cup {"BODY", "HEADER"}
      BY <2>6 DEF InChunks, Before, Measured
    <3> QED  BY <2>1, <3>1, <3>2 DEF Sound
  <2>7. Good(x)
    <3> HIDE DEF Good
    <3> QED  BY <2>3, <2>4, <2>5, <2>6
  <2> QED  BY <2>7 DEF x
<1> HIDE DEF Good
<1>7. Good(q)  BY <1>1, <1>3, <1>4, <1>5, <1>6 DEF CheckCrlf
<1> QED  BY <1>7 DEF Good

(* One byte of the body.                                                   *)
LEMMA BodySound ==
  ASSUME NEW p \in ParserType, Sound(p),
         p.step \notin Before \cup DOMAIN AfterCr \cup {"END"},
         NEW t, NEW init1, NEW init2
  PROVE  LET q == Dispatch(p, t, init1, init2)
         IN  /\ Sound(q)
             /\ q.step # "HEADER"
             /\ q.step = "END" /\ q.status = 0 => q.checked
<1> DEFINE q == Dispatch(p, t, init1, init2)
           Good(x) == /\ Sound(x)
                      /\ x.step # "HEADER"
                      /\ x.step = "END" /\ x.status = 0 => x.checked
           Keeps(x) == /\ x.status = 0 /\ x.checked
                       /\ x.chunked = p.chunked /\ x.length = p.length /\ x.body = p.body
<1>1. p.status = 0 /\ p.checked /\ p.body \in Seq(Token) /\ p.length \in Nat
  BY ParserAssumption DEF Sound, ParserType, Sizes
<1>2. 400 \in Errors /\ 413 \in Errors  BY DEF Errors, Statuses
<1>3. \A s \in Errors : Good(Fail(p, s))  BY EndsInError
<1>4. \A s : Keeps(Goto(p, s)) /\ Goto(p, s).step = s  BY <1>1 DEF Goto, ParserType
<1>5. ASSUME p.step = "BODY" PROVE Good(q)
  <2>1. q = Body(p, t)  BY <1>5 DEF Dispatch, AfterCr
  <2>2. /\ q.status = 0 /\ q.checked /\ q.chunked = p.chunked /\ q.length = p.length
        /\ Len(q.body) = Len(p.body) + 1
        /\ q.step = IF Len(p.body) + 1 = p.length THEN "BODY_LENGTH_END" ELSE "BODY"
    BY <1>1, <1>5, <2>1 DEF Body, ParserType
  <2>3. Len(p.body) < p.length /\ p.length <= MaxBody  BY <1>5 DEF Sound
  <2> HIDE DEF q
  <2> QED
    BY <1>1, <2>2, <2>3, ParserAssumption DEF Sound, Before, Measured, InChunks, Steps
<1>6. ASSUME p.step = "BODY_LENGTH_END" PROVE Good(q)
  <2>1. q = EndBody(p, t)  BY <1>6 DEF Dispatch, AfterCr
  <2>2. Len(p.body) = p.length /\ p.length <= MaxBody  BY <1>6 DEF Sound, Measured
  <2>3. \A x : Keeps(x) /\ x.step \in {"CR_BODY", "END"} => Good(x)
    BY <2>2 DEF Sound, Before, Measured, InChunks
  <2>4. Good(Goto(p, "CR_BODY")) /\ Good(Goto(p, "END"))  BY <1>4, <2>3
  <2> HIDE DEF Good, Keeps
  <2> QED  BY <1>2, <1>3, <2>1, <2>4 DEF EndBody
<1>7. ASSUME p.step \in InChunks PROVE Good(q)
  <2>1. p.chunked /\ Len(p.body) <= MaxBody  BY <1>7 DEF Sound
  <2>2. \A x : Keeps(x) /\ x.step \in InChunks \cup {"END"} => Good(x)
    BY <2>1 DEF Sound, Before, Measured, InChunks, Steps
  <2>3. \A s \in InChunks \cup {"END"} : Good(Goto(p, s))  BY <1>4, <2>2
  <2>4. InChunks = {"CHUNK_SIZE", "CHUNK_PARAMETERS", "CR_CHUNK_SIZE", "CHUNK_DATA",
          "CHUNK_DATA_END", "CR_CHUNK_DATA", "CHUNK_END", "CR_CHUNK_END",
          "SECOND_CR_CHUNK_END"}
    BY DEF InChunks, Steps, Before, Measured
  <2>5. Good(p)  BY <1>1, <1>7, <2>2 DEF InChunks
  <2>6. ASSUME p.step = "CHUNK_SIZE" PROVE Good(q)
    <3>1. q = ChunkSize(p, t)  BY <2>6 DEF Dispatch, AfterCr
    <3>2. \A s \in InChunks :
            Good([p EXCEPT !.step = s, !.chunkSize = ToSize(p.chunkDigits), !.chunkRead = 0,
                           !.chunkDigits = <<>>])
      BY <1>1, <2>2 DEF ParserType
    <3>3. Good([p EXCEPT !.chunkDigits = Append(@, t)])
      BY <1>1, <2>2, <2>4, <2>6 DEF ParserType
    <3> HIDE DEF Good, q
    <3> QED  BY <1>2, <1>3, <2>4, <3>1, <3>2, <3>3 DEF ChunkSize
  <2>7. ASSUME p.step = "CHUNK_PARAMETERS" PROVE Good(q)
    <3>1. q = ChunkParameters(p, t)  BY <2>7 DEF Dispatch, AfterCr
    <3> HIDE DEF Good, q
    <3> QED  BY <2>3, <2>4, <2>5, <3>1 DEF ChunkParameters
  <2>8. ASSUME p.step = "CHUNK_DATA" PROVE Good(q)
    <3>1. q = ChunkData(p, t)  BY <2>8 DEF Dispatch, AfterCr
    <3>2. ASSUME NEW s \in InChunks, Len(p.body) # MaxBody
          PROVE  Good([p EXCEPT !.body = Append(@, t), !.chunkRead = @ + 1, !.step = s])
      <4> DEFINE x == [p EXCEPT !.body = Append(@, t), !.chunkRead = @ + 1, !.step = s]
      <4>1. /\ x.status = 0 /\ x.checked /\ x.chunked /\ x.step = s
            /\ Len(x.body) = Len(p.body) + 1
        BY <1>1, <2>1 DEF ParserType
      <4>2. Len(x.body) <= MaxBody  BY <1>1, <2>1, <3>2, <4>1, ParserAssumption
      <4> HIDE DEF x
      <4>3. s \notin Before \cup Measured \cup {"BODY", "END", "HEADER"}
        BY <2>4 DEF Before, Measured
      <4>4. Good(x)  BY <4>1, <4>2, <4>3 DEF Sound
      <4> QED  BY <4>4 DEF x
    <3>3. Len(p.body) # MaxBody =>
            Good([p EXCEPT !.body = Append(@, t), !.chunkRead = @ + 1,
                    !.step = IF p.chunkRead + 1 = p.chunkSize THEN "CHUNK_DATA_END" ELSE @])
      <4> HIDE DEF Good
      <4>1. CASE p.chunkRead + 1 = p.chunkSize  BY <2>4, <3>2, <4>1
      <4>2. CASE p.chunkRead + 1 # p.chunkSize  BY <1>7, <3>2, <4>2
      <4> QED  BY <4>1, <4>2
    <3> HIDE DEF Good, q
    <3>4. CASE Len(p.body) = MaxBody  BY <1>2, <1>3, <3>1, <3>4 DEF ChunkData
    <3>5. CASE Len(p.body) # MaxBody /\ p.chunkRead < p.chunkSize
      BY <3>1, <3>3, <3>5 DEF ChunkData
    <3>6. CASE Len(p.body) # MaxBody /\ ~(p.chunkRead < p.chunkSize)
      BY <2>5, <3>1, <3>6 DEF ChunkData
    <3> QED  BY <3>4, <3>5, <3>6
  <2>9. ASSUME p.step \in {"CHUNK_DATA_END", "CHUNK_END"} PROVE Good(q)
    <3>1. \/ q = ChunkLineEnd(p, t, "CR_CHUNK_DATA", "CHUNK_SIZE")
          \/ q = ChunkLineEnd(p, t, "SECOND_CR_CHUNK_END", "END")
      BY <2>9 DEF Dispatch, AfterCr
    <3> HIDE DEF Good, q
    <3> QED  BY <1>2, <1>3, <2>3, <2>4, <3>1 DEF ChunkLineEnd
  <2> QED  BY <1>7, <2>4, <2>6, <2>7, <2>8, <2>9 DEF AfterCr
<1>8. p.step \in Steps  BY DEF ParserType
<1>9. Good(q)
  <2> HIDE DEF Good, q
  <2> QED  BY <1>5, <1>6, <1>7, <1>8 DEF InChunks, Measured, AfterCr
<1> QED  BY <1>9

(* One byte of any request that has not ended.                             *)
LEMMA DispatchSound ==
  ASSUME NEW p \in ParserType, Sound(p), p.step # "END", NEW t, NEW init1, NEW init2
  PROVE  LET q == Dispatch(p, t, init1, init2)
         IN  /\ Sound(q)
             /\ q.step = "HEADER" => t = "LF"
             /\ q.step = "END" /\ q.status = 0 => q.checked \/ (p.step = "HEADER" /\ t = "LF")
<1> DEFINE q == Dispatch(p, t, init1, init2)
<1> HIDE DEF q
<1>1. CASE p.step \in DOMAIN AfterCr  BY <1>1, CrlfSound DEF q
<1>2. CASE p.step \in Before /\ p.step \notin DOMAIN AfterCr  BY <1>2, BeforeSound DEF q
<1>3. CASE p.step \notin Before \cup DOMAIN AfterCr  BY <1>3, BodySound DEF q
<1> QED  BY <1>1, <1>2, <1>3 DEF q

(***************************************************************************)
(* In a request whose lines end in CRLF every LF follows a CR              *)
(***************************************************************************)

(* Two texts without a bare LF, one after the other, have none.            *)
LEMMA CrlfConcat ==
  ASSUME NEW s \in Seq(Token), NEW u \in Seq(Token), CrlfOnly(s), CrlfOnly(u)
  PROVE  CrlfOnly(s \o u)
<1>1. ASSUME NEW k \in 1..Len(s \o u), (s \o u)[k] = "LF"
      PROVE  k > 1 /\ (s \o u)[k - 1] = "CR"
  <2>1. CASE k <= Len(s)
    <3>1. k \in 1..Len(s) /\ s[k] = "LF"  BY <1>1, <2>1
    <3>2. k > 1 /\ s[k - 1] = "CR"  BY <3>1 DEF CrlfOnly
    <3> QED  BY <2>1, <3>2
  <2>2. CASE k > Len(s)
    <3> DEFINE j == k - Len(s)
    <3>1. j \in 1..Len(u) /\ u[j] = "LF"  BY <1>1, <2>2
    <3>2. j > 1 /\ u[j - 1] = "CR"  BY <3>1 DEF CrlfOnly
    <3> QED  BY <3>1, <3>2
  <2> QED  BY <2>1, <2>2
<1> QED  BY <1>1 DEF CrlfOnly

(* The end of a line of a client that sends CRLF.                          *)
LEMMA CrlfAtEnd ==
  ASSUME NEW r \in Request, r.crlf
  PROVE  Eol(r) = <<"CR", "LF">> /\ CrlfOnly(Eol(r)) /\ Eol(r) \in Seq(Token)
  BY DEF Eol, CrlfOnly, Token, Controls

(* A text without LF has no bare LF.                                       *)
LEMMA WithoutLf ==
  ASSUME NEW s \in Seq(Token), \A k \in 1..Len(s) : s[k] # "LF"
  PROVE  CrlfOnly(s)
  BY DEF CrlfOnly

(* A client that ends its lines in CRLF sends no bare LF at all.           *)
LEMMA BytesCrlf ==
  ASSUME NEW r \in Request, r.crlf
  PROVE  CrlfOnly(Bytes(r))
<1> DEFINE Good(s) == s \in Seq(Token) /\ CrlfOnly(s)
<1>1. \A s, u : Good(s) /\ Good(u) => Good(s \o u)
  <2> TAKE s, u
  <2> HAVE Good(s) /\ Good(u)
  <2>1. s \o u \in Seq(Token)  OBVIOUS
  <2> QED  BY <2>1, CrlfConcat
<1>2. Good(Eol(r))  BY CrlfAtEnd
<1>3. Good(<<>>)  BY DEF CrlfOnly
<1>4. \A n \in Nat, x \in Token \ {"LF"} : Good(Times(n, x))
  BY TimesType, WithoutLf DEF Times
<1>5. \A x \in Token \ {"LF"} : Good(<<x>>)
  BY DEF CrlfOnly
<1>6. /\ {"SP", "HTTP", "SLASH", "host", "v", "x", "SEMICOLON", "content-type", "COLON",
          "transfer-encoding", "content-length"} \subseteq Token \ {"LF"}
  BY DEF Token, UpperWords, Words, Separators, Payload
<1>7. Good(FirstLine(r))
  <2>1. /\ r.method \in Token \ {"LF"} /\ r.uri \in Token \ {"LF"}
        /\ r.version \in Token \ {"LF"} /\ r.gap \in Nat
    BY <1>6 DEF Request, Token, UpperWords, Uris, Versions, Digits
  <2>2. Good(AfterUri(r))
    <3>1. \A s \in Seq(Token \ {"LF", "host"}) :
            s \in Seq(Token) /\ \A k \in 1..Len(s) : s[k] # "LF"
      OBVIOUS
    <3> QED  BY <3>1, AfterUriPlain, WithoutLf
  <2>3. Good(Times(r.gap, "SP")) /\ Good(<<r.method>>) /\ Good(<<r.uri>>)
    BY <1>4, <1>5, <1>6, <2>1
  <2> HIDE DEF Good
  <2> QED  BY <1>1, <1>2, <2>2, <2>3 DEF FirstLine
<1>8. ASSUME NEW name \in Token \ {"LF"}, NEW value \in Token \ {"LF"}
      PROVE  Good(Line(r, name, value))
  <2>1. Good(<<name, "COLON", "SP", value>>)  BY <1>6 DEF CrlfOnly
  <2> HIDE DEF Good
  <2> QED  BY <1>1, <1>2, <2>1 DEF Line
<1>9. ASSUME NEW name \in Token \ {"LF"}, NEW value \in (Token \ {"LF"}) \cup {"none"}
      PROVE  Good(Optional(r, name, value))
  <2> HIDE DEF Good
  <2> QED  BY <1>3, <1>8 DEF Optional
<1>10. Good(HostLines(r))
  <2>1. Good(Line(r, "host", "v"))  BY <1>6, <1>8
  <2> HIDE DEF Good
  <2> QED  BY <1>1, <1>3, <2>1 DEF HostLines
<1>11. Good(OtherLines(r))
  <2>1. /\ r.type \in (Token \ {"LF"}) \cup {"none"}
        /\ r.encoding \in (Token \ {"LF"}) \cup {"none"}
        /\ r.length \in (Token \ {"LF"}) \cup {"none"}
    BY DEF Request, Token, Words, Digits
  <2> HIDE DEF Good
  <2>2. Good(Optional(r, "content-type", r.type))  BY <1>6, <1>9, <2>1
  <2>3. Good(Optional(r, "transfer-encoding", r.encoding))  BY <1>6, <1>9, <2>1
  <2>4. Good(Optional(r, "content-length", r.length))  BY <1>6, <1>9, <2>1
  <2> QED  BY <1>1, <2>2, <2>3, <2>4 DEF OtherLines
<1>12. ASSUME NEW n \in 0..3, NEW where
       PROVE  Good(ChunkLine(r, n, where))
  <2>1. DigitOf[n] \in Token \ {"LF"}  BY DEF DigitOf, Token, Digits
  <2>2. Good(<<DigitOf[n]>>)  BY <1>5, <2>1
  <2>3. Good(<<"SEMICOLON", "v">>)  BY <1>6 DEF CrlfOnly
  <2> HIDE DEF Good
  <2> QED  BY <1>1, <1>2, <1>3, <2>2, <2>3 DEF ChunkLine
<1>13. Good(Content(r))
  <2>1. r.payload \in Nat /\ r.payload \in 0..3 /\ r.extra \in Nat  BY DEF Request
  <2> HIDE DEF Good
  <2>2. Good(Times(r.payload, "x")) /\ Good(Times(r.extra, "x"))  BY <1>4, <1>6, <2>1
  <2>3. Good(ChunkLine(r, r.payload, "first")) /\ Good(ChunkLine(r, 0, "last"))
    BY <1>12, <2>1
  <2>4. Good(Chunks(r))  BY <1>1, <1>2, <1>3, <2>2, <2>3 DEF Chunks
  <2> QED  BY <1>1, <2>2, <2>4 DEF Content
<1> HIDE DEF Good
<1>14. Good(Bytes(r))  BY <1>1, <1>2, <1>7, <1>10, <1>11, <1>13 DEF Bytes
<1> QED  BY <1>14 DEF Good

(***************************************************************************)
(* The invariant                                                           *)
(***************************************************************************)

SentStays == \A c \in Conns :
  sent[c] \in Request /\ input[c] = Bytes(sent[c])

(* At first every parser agrees with itself.                               *)
LEMMA InitSound == Init => SentStays /\ \A c \in Conns : InStep(c)
<1> SUFFICES ASSUME Init PROVE SentStays /\ \A c \in Conns : InStep(c)  OBVIOUS
<1>1. SentStays  BY ScenariosAssumption DEF Init, SentStays
<1>2. Sound(Fresh)
  BY DEF Fresh, Sound, Before, Measured, InChunks
<1>3. \A c \in Conns : InStep(c)  BY <1>2 DEF Init, InStep, Fresh
<1> QED  BY <1>1, <1>3

(* One turn of the loop of parse(), on one connection.                     *)
LEMMA ParseByteSound ==
  ASSUME TypeOK, SentStays, NEW c \in Conns, InStep(c), ParseByte(c)
  PROVE  InStep(c)'
<1> DEFINE p == parser[c]
           t == input[c][pos[c] + 1]
           q == Dispatch(p, t, init_uri, init_protocol)
<1>1. p \in ParserType /\ pos[c] \in Nat  BY DEF TypeOK
<1>2. p.step # "END" /\ Sound(p)  BY DEF ParseByte, InStep
<1>3. /\ Sound(q)
      /\ q.step = "HEADER" => t = "LF"
      /\ q.step = "END" /\ q.status = 0 => q.checked \/ (p.step = "HEADER" /\ t = "LF")
  BY <1>1, <1>2, DispatchSound
<1>4. parser'[c] = q /\ (ready'[c] <=> q.step = "END") /\ pos'[c] = pos[c] + 1
  <2> HIDE DEF q
  <2>1. parser' = [parser EXCEPT ![c] = q] /\ ready' = [ready EXCEPT ![c] = q.step = "END"]
    BY DEF ParseByte, q
  <2> QED  BY <2>1 DEF TypeOK, ParseByte
<1>5. sent' = sent /\ input' = input  BY DEF ParseByte
<1>6. sent[c].crlf /\ p.step = "HEADER" => t # "LF"
  <2> SUFFICES ASSUME sent[c].crlf, p.step = "HEADER", t = "LF" PROVE FALSE  OBVIOUS
  <2>1. CrlfOnly(input[c])  BY BytesCrlf DEF SentStays
  <2>2. pos[c] > 0 /\ input[c][pos[c]] = "LF"  BY DEF InStep
  <2>3. pos[c] + 1 \in 1..Len(input[c])  BY <1>1 DEF ParseByte, More, TypeOK
  <2>4. input[c][(pos[c] + 1) - 1] = "CR"  BY <2>1, <2>3 DEF CrlfOnly
  <2> QED  BY <1>1, <2>2, <2>4
<1> HIDE DEF q
<1> QED  BY <1>1, <1>3, <1>4, <1>5, <1>6 DEF InStep

(* The end of a read, on one connection.                                   *)
LEMMA EndReadSound ==
  ASSUME TypeOK, NEW c \in Conns, InStep(c), EndRead(c)
  PROVE  InStep(c)'
<1> DEFINE p == parser[c]
           q == [p EXCEPT !.step = "END"]
<1>1. CASE p.step = "BODY_LENGTH_END"
  <2>1. parser'[c] = q /\ ready'[c]
    BY <1>1 DEF EndRead, TypeOK
  <2>2. /\ q.step = "END" /\ q.status = p.status /\ q.checked = p.checked
        /\ q.body = p.body /\ q.length = p.length /\ q.chunked = p.chunked
    BY DEF TypeOK, ParserType
  <2>3. /\ Sound(p) /\ p.checked /\ Len(p.body) = p.length /\ p.length <= MaxBody
    BY <1>1 DEF InStep, Sound, Before, Measured
  <2>4. Sound(q)  BY <2>2, <2>3 DEF Sound, Before, Measured, InChunks
  <2> HIDE DEF q
  <2> QED  BY <2>1, <2>2, <2>3, <2>4 DEF InStep, EndRead
<1>2. CASE p.step # "BODY_LENGTH_END"
  BY <1>2 DEF EndRead, InStep
<1> QED  BY <1>1, <1>2

(* Each step keeps every parser in agreement with itself and its bytes.    *)
LEMMA NextSound ==
  ASSUME TypeOK, SentStays, \A c \in Conns : InStep(c), [Next]_vars
  PROVE  SentStays' /\ \A c \in Conns : InStep(c)'
<1>1. sent' = sent /\ input' = input
  BY DEF Next, vars, StartRead, ParseByte, EndRead
<1>2. ASSUME NEW c \in Conns PROVE InStep(c)'
  <2>1. CASE ParseByte(c) \/ EndRead(c)  BY <2>1, ParseByteSound, EndReadSound
  <2>2. CASE ~(ParseByte(c) \/ EndRead(c))
    <3>1. parser'[c] = parser[c] /\ ready'[c] = ready[c] /\ pos'[c] = pos[c]
      <4>1. CASE UNCHANGED vars  BY <4>1 DEF vars
      <4>2. ASSUME NEW d \in Conns, StartRead(d) \/ ParseByte(d) \/ EndRead(d)
            PROVE  parser'[c] = parser[c] /\ ready'[c] = ready[c] /\ pos'[c] = pos[c]
        <5>1. CASE StartRead(d)  BY <5>1 DEF StartRead
        <5>2. CASE (ParseByte(d) \/ EndRead(d)) /\ d # c
          BY <5>2 DEF ParseByte, EndRead, TypeOK
        <5> QED  BY <2>2, <4>2, <5>1, <5>2
      <4> QED  BY <4>1, <4>2 DEF Next
    <3> QED  BY <1>1, <3>1 DEF InStep
  <2> QED  BY <2>1, <2>2
<1> QED  BY <1>1, <1>2 DEF SentStays

(* What holds of each parser and between it and its bytes.                 *)
THEOREM Invariant == Spec => [](TypeOK /\ SentStays /\ \A c \in Conns : InStep(c))
<1> DEFINE Inv == TypeOK /\ SentStays /\ \A c \in Conns : InStep(c)
<1>1. Init => Inv  BY InitType, InitSound
<1>2. Inv /\ [Next]_vars => Inv'  BY NextType, NextSound
<1> HIDE DEF Inv
<1>3. Spec => []Inv  BY <1>1, <1>2, PTL DEF Spec
<1> QED  BY <1>3 DEF Inv

(* A request whose lines end in CRLF is accepted only after the checks of  *)
(* check_request(), and a POST only with a whole body within the limit.    *)
THEOREM CompleteWhenAccepted == Spec => []AcceptedIsComplete
<1>1. (\A c \in Conns : InStep(c)) => AcceptedIsComplete
  BY DEF InStep, AcceptedIsComplete, Accepted, Sound
<1> QED  BY <1>1, Invariant, PTL

(***************************************************************************)
(* The statics                                                             *)
(***************************************************************************)

InUri(p) == p.uri # <<>> /\ (p.step = "URI" \/ p.status # 0)
InProtocol(p) == p.protocol # <<>> /\ (p.step = "PROTOCOL" \/ p.status # 0)

(* The static of _parse_uri() is off after a handler only as explained.    *)
LEMMA UriExplained ==
  ASSUME NEW p \in ParserType, p.step = "URI", NEW t, NEW init \in BOOLEAN,
         ~UriFlag(t, init)
  PROVE  InUri(Uri(p, t, init)) \/ (~init /\ (InUri(p) => InUri(Uri(p, t, init))))
<1>1. t # "SP"  BY DEF UriFlag, IsUriChar
<1>2. CASE IsUriChar(t)
  <2>1. Uri(p, t, init) = [p EXCEPT !.uri = Append(@, t)]  BY <1>1, <1>2 DEF Uri
  <2>2. p.uri \in Seq(Token)  BY DEF ParserType
  <2>3. Append(p.uri, t) # <<>>  BY <2>2
  <2> QED  BY <2>1, <2>3 DEF InUri, ParserType
<1>3. CASE ~IsUriChar(t)
  <2>1. Uri(p, t, init) = Fail(p, 400) /\ ~init  BY <1>1, <1>3 DEF Uri, UriFlag
  <2>2. InUri(p) => InUri(Fail(p, 400))  BY DEF InUri, Fail, ParserType
  <2> QED  BY <2>1, <2>2
<1> QED  BY <1>2, <1>3

(* The static of _parse_protocol() is off after a handler only as explained.*)
LEMMA ProtocolExplained ==
  ASSUME NEW p \in ParserType, p.step = "PROTOCOL", NEW t \in Token, NEW init \in BOOLEAN,
         ~ProtocolFlag(p, t, init)
  PROVE  \/ InProtocol(Protocol(p, t, init))
         \/ ~init /\ (InProtocol(p) => InProtocol(Protocol(p, t, init)))
<1>1. CASE t \in {"SP", "CR", "LF", "SLASH"} \cup Uris
  <2>1. ~init /\ Protocol(p, t, init) = Fail(p, 400)
    BY <1>1 DEF Protocol, ProtocolFlag, StartsWithSlash, Uris
  <2>2. InProtocol(p) => InProtocol(Fail(p, 400))  BY DEF InProtocol, Fail, ParserType
  <2> QED  BY <2>1, <2>2
<1>2. CASE t \notin {"SP", "CR", "LF", "SLASH"} \cup Uris
  <2>1. Protocol(p, t, init) = [p EXCEPT !.protocol = Append(@, t)]
    BY <1>2 DEF Protocol
  <2>2. p.protocol \in Seq(Token)  BY DEF ParserType
  <2>3. Append(p.protocol, t) # <<>>  BY <2>2
  <2> QED  BY <2>1, <2>3 DEF InProtocol, ParserType
<1> QED  BY <1>1, <1>2

(* One turn of the loop of parse() keeps both statics explained.           *)
LEMMA ParseByteExplained ==
  ASSUME TypeOK, StaticsExplained, NEW c \in Conns, InStep(c), ParseByte(c)
  PROVE  StaticsExplained'
<1> DEFINE p == parser[c]
           t == input[c][pos[c] + 1]
           q == Dispatch(p, t, init_uri, init_protocol)
<1>1. p \in ParserType /\ t \in Token  BY DEF TypeOK, ParseByte, More
<1>2. p.status = 0  BY DEF ParseByte, InStep, Sound
<1>3. parser' = [parser EXCEPT ![c] = q]  BY DEF ParseByte
<1>4. parser'[c] = q /\ \A d \in Conns \ {c} : parser'[d] = parser[d]
  <2> HIDE DEF q
  <2> QED  BY <1>3 DEF TypeOK
<1>5. ~init_uri' => \E d \in Conns : InUri(parser'[d])
  <2> SUFFICES ASSUME ~init_uri' PROVE \E d \in Conns : InUri(parser'[d])  OBVIOUS
  <2>1. ~init_uri => \E d \in Conns : InUri(parser[d])  BY DEF StaticsExplained, InUri
  <2>2. CASE p.step = "URI"
    <3>1. q = Uri(p, t, init_uri) /\ ~UriFlag(t, init_uri)
      <4>1. q = Uri(p, t, init_uri)  BY <2>2 DEF Dispatch, AfterCr
      <4>2. ~UriFlag(t, init_uri)  BY <2>2 DEF ParseByte
      <4> QED  BY <4>1, <4>2
    <3>2. InUri(q) \/ (~init_uri /\ (InUri(p) => InUri(q)))
      BY <1>1, <2>2, <3>1, UriExplained DEF TypeOK
    <3> HIDE DEF q
    <3> QED  BY <1>4, <2>1, <3>2
  <2>3. CASE p.step # "URI"
    <3>1. ~init_uri /\ ~InUri(p)  BY <1>2, <2>3 DEF ParseByte, InUri
    <3> HIDE DEF q
    <3> QED  BY <1>4, <2>1, <3>1
  <2> QED  BY <2>2, <2>3
<1>6. ~init_protocol' => \E d \in Conns : InProtocol(parser'[d])
  <2> SUFFICES ASSUME ~init_protocol' PROVE \E d \in Conns : InProtocol(parser'[d])  OBVIOUS
  <2>1. ~init_protocol => \E d \in Conns : InProtocol(parser[d])
    BY DEF StaticsExplained, InProtocol
  <2>2. CASE p.step = "PROTOCOL"
    <3>1. q = Protocol(p, t, init_protocol) /\ ~ProtocolFlag(p, t, init_protocol)
      <4>1. q = Protocol(p, t, init_protocol)  BY <2>2 DEF Dispatch, AfterCr
      <4>2. ~ProtocolFlag(p, t, init_protocol)  BY <2>2 DEF ParseByte
      <4> QED  BY <4>1, <4>2
    <3>2. InProtocol(q) \/ (~init_protocol /\ (InProtocol(p) => InProtocol(q)))
      BY <1>1, <2>2, <3>1, ProtocolExplained DEF TypeOK
    <3> HIDE DEF q
    <3> QED  BY <1>4, <2>1, <3>2
  <2>3. CASE p.step # "PROTOCOL"
    <3>1. ~init_protocol /\ ~InProtocol(p)  BY <1>2, <2>3 DEF ParseByte, InProtocol
    <3> HIDE DEF q
    <3> QED  BY <1>4, <2>1, <3>1
  <2> QED  BY <2>2, <2>3
<1> QED  BY <1>5, <1>6 DEF StaticsExplained, InUri, InProtocol

(* The end of a read keeps both statics explained.                         *)
LEMMA EndReadExplained ==
  ASSUME TypeOK, StaticsExplained, NEW c \in Conns, EndRead(c)
  PROVE  StaticsExplained'
<1>1. init_uri' = init_uri /\ init_protocol' = init_protocol  BY DEF EndRead
<1>2. ASSUME NEW d \in Conns
      PROVE  (InUri(parser[d]) => InUri(parser'[d])) /\ (InProtocol(parser[d]) => InProtocol(parser'[d]))
  <2>1. CASE parser'[d] = parser[d]  BY <2>1
  <2>2. CASE parser'[d] # parser[d]
    <3>1. d = c /\ parser[d].step = "BODY_LENGTH_END"  BY <2>2 DEF EndRead, TypeOK
    <3>2. parser'[d] = [parser[d] EXCEPT !.step = "END"]  BY <3>1 DEF EndRead, TypeOK
    <3> QED  BY <3>1, <3>2 DEF InUri, InProtocol, TypeOK, ParserType
  <2> QED  BY <2>1, <2>2
<1>3. ~init_uri => \E d \in Conns : InUri(parser[d])  BY DEF StaticsExplained, InUri
<1>4. ~init_protocol => \E d \in Conns : InProtocol(parser[d])
  BY DEF StaticsExplained, InProtocol
<1>5. ~init_uri' => \E d \in Conns : InUri(parser'[d])  BY <1>1, <1>2, <1>3
<1>6. ~init_protocol' => \E d \in Conns : InProtocol(parser'[d])  BY <1>1, <1>2, <1>4
<1> QED  BY <1>5, <1>6 DEF StaticsExplained, InUri, InProtocol

(* Off its initial value a static is only for a connection in the middle   *)
(* of its token, or failed in it, whoever else is parsed in between.       *)
THEOREM StaticsAreExplained == Spec => []StaticsExplained
<1> DEFINE Inv == TypeOK /\ SentStays /\ \A c \in Conns : InStep(c)
<1>1. Init => StaticsExplained  BY DEF Init, StaticsExplained
<1>2. Inv /\ StaticsExplained /\ [Next]_vars => StaticsExplained'
  <2> SUFFICES ASSUME Inv, StaticsExplained, [Next]_vars PROVE StaticsExplained'  OBVIOUS
  <2>1. ASSUME NEW c \in Conns, StartRead(c) PROVE StaticsExplained'
    BY <2>1 DEF StartRead, StaticsExplained
  <2>2. ASSUME NEW c \in Conns, ParseByte(c) PROVE StaticsExplained'
    BY <2>2, ParseByteExplained
  <2>3. ASSUME NEW c \in Conns, EndRead(c) PROVE StaticsExplained'
    BY <2>3, EndReadExplained
  <2>4. CASE UNCHANGED vars  BY <2>4 DEF vars, StaticsExplained
  <2> QED  BY <2>1, <2>2, <2>3, <2>4 DEF Next
<1>3. Spec => []Inv  BY Invariant
<1> HIDE DEF Inv
<1> QED  BY <1>1, <1>2, <1>3, PTL DEF Spec

(***************************************************************************)
(* Host                                                                    *)
(***************************************************************************)

FirstLineSteps == {"INIT", "METHOD", "URI", "PROTOCOL", "VERSION", "CR_FIRST_LINE"}
ValueSteps == {"HEADER_VALUE_INIT", "HEADER_VALUE"}

(* Where the names of Host headers are in what is sent.                    *)
HostAt(s) == {k \in 1..Len(s) : s[k] = "host"}

(* No name that the parser holds contains a token of Host's.               *)
NoHost(p) ==
  /\ \A k \in 1..Len(p.name) : p.name[k] # "host"
  /\ \A k \in 1..Len(p.last) : p.last[k] # "host"
  /\ \A j \in 1..Len(p.headers) : p.headers[j][1] # <<"host">>

Named(p) == Given(p, "host") # {}
Twice(p) == \E j, k \in Given(p, "host") : j # k
Pending(c) ==
  LET p == parser[c]
  IN /\ p.step \in {"HEADER_NAME"} \cup ValueSteps /\ p.name = <<"host">>
     /\ p.step = "HEADER_NAME" => pos[c] > 0 /\ input[c][pos[c]] = "host"

(* Without exactly one Host header no request passes the checks: each one  *)
(* that has been parsed is among the headers, or is the name of the line   *)
(* being parsed.                                                           *)
HostTracked(c) ==
  LET p == parser[c]
      past == {k \in HostAt(input[c]) : k <= pos[c]}
  IN sent[c].crlf /\ sent[c].hosts # 1 /\ p.status = 0 =>
    /\ ~p.checked
    /\ p.step \in FirstLineSteps => p.headers = <<>> /\ p.last = <<>>
    /\ p.step \notin {"HEADER_NAME"} \cup ValueSteps => p.name = <<>>
    /\ pos[c] > 0 /\ input[c][pos[c]] = "LF" => p.step = "HEADER"
    /\ p.step = "SECOND_CR_HEADER" =>
         pos[c] > 1 /\ input[c][pos[c]] = "CR" /\ input[c][pos[c] - 1] = "LF"
    /\ sent[c].hosts = 0 => NoHost(p)
    /\ sent[c].hosts = 2 =>
         /\ past # {} => Named(p) \/ Pending(c)
         /\ (\E j, k \in past : j # k) => Twice(p) \/ (Named(p) /\ Pending(c))

(* What is sent with two Host headers: each name begins a line, and after  *)
(* the empty line there is none.                                           *)
TwoLines(s) ==
  /\ \E j, k \in HostAt(s) : j # k
  /\ \A k \in HostAt(s) : k > 1 /\ s[k - 1] = "LF" /\ k < Len(s) /\ s[k + 1] = "COLON"
  /\ \A i \in 1..Len(s) - 1 : s[i] = "LF" /\ s[i + 1] = "CR" => \A k \in HostAt(s) : k < i

HostFree(s) == \A k \in 1..Len(s) : s[k] # "host"

(* Two texts without Host, one after the other, have none.                 *)
LEMMA HostFreeConcat ==
  ASSUME NEW s \in Seq(Token), NEW u \in Seq(Token), HostFree(s), HostFree(u)
  PROVE  s \o u \in Seq(Token) /\ HostFree(s \o u)
<1>1. s \o u \in Seq(Token) /\ Len(s \o u) = Len(s) + Len(u)  OBVIOUS
<1>2. ASSUME NEW k \in 1..Len(s) + Len(u) PROVE (s \o u)[k] # "host"
  <2>1. CASE k <= Len(s)  BY <2>1 DEF HostFree
  <2>2. CASE k > Len(s)
    <3>1. k - Len(s) \in 1..Len(u) /\ (s \o u)[k] = u[k - Len(s)]  BY <2>2
    <3> QED  BY <3>1 DEF HostFree
  <2> QED  BY <2>1, <2>2
<1> QED  BY <1>1, <1>2 DEF HostFree

(* The first line is a line, and everything after the Host headers is free *)
(* of "host".                                                              *)
LEMMA AroundHosts ==
  ASSUME NEW r \in Request, r.crlf
  PROVE  /\ \E d \in Seq(Token) : /\ FirstLine(r) = d \o <<"CR", "LF">>
                                  /\ HostFree(d) /\ \A k \in 1..Len(d) : d[k] # "LF"
         /\ \A s \in {FirstLine(r), OtherLines(r), Eol(r), Content(r)} :
              s \in Seq(Token) /\ HostFree(s)
<1> DEFINE Good(s) == s \in Seq(Token) /\ HostFree(s)
           Plain == Token \ {"LF", "host"}
<1>1. \A s, u : Good(s) /\ Good(u) => Good(s \o u)  BY HostFreeConcat
<1>2. Eol(r) = <<"CR", "LF">> /\ Good(<<"CR", "LF">>)
  <2>1. Eol(r) = <<"CR", "LF">>  BY DEF Eol
  <2>2. /\ <<"CR", "LF">> \in Seq(Token)
        /\ Len(<<"CR", "LF">>) = 2 /\ <<"CR", "LF">>[1] = "CR" /\ <<"CR", "LF">>[2] = "LF"
    <3>1. "CR" \in Token /\ "LF" \in Token  BY DEF Token, Controls
    <3> QED  BY <3>1
  <2>3. HostFree(<<"CR", "LF">>)  BY <2>2 DEF HostFree
  <2> QED  BY <2>1, <2>2, <2>3
<1>3. Good(<<>>)  BY DEF HostFree
<1>4. \A n \in Nat, x \in Plain : Good(Times(n, x))
  BY TimesType DEF Times, HostFree
<1>5. \A x \in Plain : Good(<<x>>)  BY DEF HostFree
<1>6. /\ {"SP", "HTTP", "SLASH", "v", "x", "SEMICOLON", "content-type", "COLON",
          "transfer-encoding", "content-length"} \subseteq Plain
  BY DEF Token, UpperWords, Words, Separators, Payload
<1>7. /\ r.method \in Plain /\ r.uri \in Plain /\ r.version \in Plain /\ r.gap \in Nat
      /\ r.type \in Plain \cup {"none"} /\ r.encoding \in Plain \cup {"none"}
      /\ r.length \in Plain \cup {"none"} /\ r.payload \in 0..3 /\ r.payload \in Nat
      /\ r.extra \in Nat
  <2>1. UpperWords \cup Uris \cup {"v"} \cup Versions \cup Digits \subseteq Plain
    BY DEF Token, UpperWords, Uris, Words, Versions, Digits
  <2>2. {"text/plain", "font/ttf", "chunked", "gzip"} \subseteq Plain
    BY DEF Token, Words
  <2> HIDE DEF Plain
  <2> QED  BY <2>1, <2>2 DEF Request
<1>8. \E d \in Seq(Token) : /\ FirstLine(r) = d \o <<"CR", "LF">>
                            /\ HostFree(d) /\ \A k \in 1..Len(d) : d[k] # "LF"
  <2> DEFINE d1 == <<r.method>>
             d2 == Times(r.gap, "SP")
             d3 == <<r.uri>>
             d4 == AfterUri(r)
             NoLf(s) == \A k \in 1..Len(s) : s[k] # "LF"
  <2>1. Good(d1) /\ Good(d2) /\ Good(d3) /\ Good(d4) /\ NoLf(d4)
    <3>1. Good(d1) /\ Good(d2) /\ Good(d3)  BY <1>4, <1>5, <1>6, <1>7
    <3>2. \A s \in Seq(Token \ {"LF", "host"}) :
            s \in Seq(Token) /\ \A k \in 1..Len(s) : s[k] # "LF" /\ s[k] # "host"
      OBVIOUS
    <3>3. Good(d4) /\ NoLf(d4)  BY <3>2, AfterUriPlain DEF HostFree
    <3> QED  BY <3>1, <3>3
  <2>2. Good(((d1 \o d2) \o d3) \o d4)
    <3> HIDE DEF Good, d1, d2, d3, d4
    <3> QED  BY <1>1, <2>1
  <2>3. NoLf(d1) /\ NoLf(d2) /\ NoLf(d3)
    BY <1>7 DEF Times
  <2>4. NoLf(((d1 \o d2) \o d3) \o d4)
    <3> HIDE DEF d1, d2, d3, d4
    <3>1. \A s \in Seq(Token), u \in Seq(Token) : NoLf(s) /\ NoLf(u) => NoLf(s \o u)
      OBVIOUS
    <3>2. NoLf(d1 \o d2) /\ d1 \o d2 \in Seq(Token)  BY <2>1, <2>3, <3>1
    <3>3. (d1 \o d2) \o d3 \in Seq(Token)  BY <2>1, <3>2
    <3> HIDE DEF NoLf
    <3>4. NoLf((d1 \o d2) \o d3)  BY <2>1, <2>3, <3>1, <3>2
    <3> QED  BY <2>1, <3>1, <3>3, <3>4
  <2>5. FirstLine(r) = (((d1 \o d2) \o d3) \o d4) \o <<"CR", "LF">>  BY <1>2 DEF FirstLine
  <2> HIDE DEF d1, d2, d3, d4
  <2> QED  BY <2>2, <2>4, <2>5
<1>9. Good(FirstLine(r))
  <2>1. PICK d : Good(d) /\ FirstLine(r) = d \o <<"CR", "LF">>  BY <1>8
  <2> HIDE DEF Good
  <2> QED  BY <1>1, <1>2, <2>1
<1>10. ASSUME NEW name \in Plain, NEW value \in Plain \cup {"none"}
       PROVE  Good(Optional(r, name, value))
  <2>1. ASSUME value # "none" PROVE Good(<<name, "COLON", "SP", value>>)
    BY <1>6, <2>1 DEF HostFree
  <2> HIDE DEF Good
  <2> QED  BY <1>1, <1>2, <1>3, <2>1 DEF Optional, Line
<1>11. Good(OtherLines(r))
  <2> HIDE DEF Good, Plain
  <2>1. Good(Optional(r, "content-type", r.type))  BY <1>6, <1>7, <1>10
  <2>2. Good(Optional(r, "transfer-encoding", r.encoding))  BY <1>6, <1>7, <1>10
  <2>3. Good(Optional(r, "content-length", r.length))  BY <1>6, <1>7, <1>10
  <2> QED  BY <1>1, <2>1, <2>2, <2>3 DEF OtherLines
<1>12. ASSUME NEW n \in 0..3, NEW where
       PROVE  Good(ChunkLine(r, n, where))
  <2>1. DigitOf[n] \in Plain  BY DEF DigitOf, Token, Digits
  <2>2. Good(<<DigitOf[n]>>)  BY <1>5, <2>1
  <2>3. Good(<<"SEMICOLON", "v">>)  BY <1>6 DEF HostFree
  <2> HIDE DEF Good
  <2> QED  BY <1>1, <1>2, <1>3, <2>2, <2>3 DEF ChunkLine
<1>13. Good(Content(r))
  <2> HIDE DEF Good, Plain
  <2>1. Good(Times(r.payload, "x")) /\ Good(Times(r.extra, "x"))  BY <1>4, <1>6, <1>7
  <2>2. Good(ChunkLine(r, r.payload, "first")) /\ Good(ChunkLine(r, 0, "last"))
    BY <1>7, <1>12
  <2>3. Good(Chunks(r))  BY <1>1, <1>2, <1>3, <2>1, <2>2 DEF Chunks
  <2> QED  BY <1>1, <2>1, <2>3 DEF Content
<1> QED  BY <1>2, <1>8, <1>9, <1>11, <1>13

(* A client that means no Host header sends none.                          *)
LEMMA NoHostSent ==
  ASSUME NEW r \in Request, r.crlf, r.hosts = 0
  PROVE  HostAt(Bytes(r)) = {}
<1> DEFINE Good(s) == s \in Seq(Token) /\ HostFree(s)
<1>1. \A s, u : Good(s) /\ Good(u) => Good(s \o u)  BY HostFreeConcat
<1>2. Good(FirstLine(r)) /\ Good(OtherLines(r)) /\ Good(Eol(r)) /\ Good(Content(r))
  BY AroundHosts
<1>3. Good(HostLines(r))  BY DEF HostLines, HostFree
<1>4. Good(Bytes(r))
  <2> HIDE DEF Good
  <2> QED  BY <1>1, <1>2, <1>3 DEF Bytes
<1> QED  BY <1>4 DEF HostFree, HostAt

(* The elements of two texts, one after the other.                         *)
LEMMA Concat ==
  ASSUME NEW S, NEW s \in Seq(S), NEW u \in Seq(S)
  PROVE  /\ s \o u \in Seq(S) /\ Len(s \o u) = Len(s) + Len(u)
         /\ \A k \in 1..Len(s) : (s \o u)[k] = s[k]
         /\ \A k \in 1..Len(u) : (s \o u)[Len(s) + k] = u[k]
  OBVIOUS

(* A client that means two Host headers sends them on lines of their own.  *)
LEMMA TwoHostsSent ==
  ASSUME NEW r \in Request, r.crlf, r.hosts = 2
  PROVE  TwoLines(Bytes(r))
<1> DEFINE line == <<"host", "COLON", "SP", "v">> \o <<"CR", "LF">>
           lines == line \o line
           s == Bytes(r)
           After(a, u) == /\ u \in Seq(Token) /\ Len(a) <= Len(u)
                          /\ \A k \in 1..Len(a) : u[k] = a[k]
                          /\ \A k \in Len(a) + 1..Len(u) : u[k] # "host"
<1>1. HostLines(r) = lines  BY DEF HostLines, Line, Eol
<1>2. PICK d \in Seq(Token) : /\ FirstLine(r) = d \o <<"CR", "LF">>
                              /\ HostFree(d) /\ \A k \in 1..Len(d) : d[k] # "LF"
  BY AroundHosts
<1>3. /\ lines \in Seq(Token) /\ Len(lines) = 12
      /\ lines[1] = "host" /\ lines[2] = "COLON" /\ lines[3] = "SP" /\ lines[4] = "v"
      /\ lines[5] = "CR" /\ lines[6] = "LF"
      /\ lines[7] = "host" /\ lines[8] = "COLON" /\ lines[9] = "SP" /\ lines[10] = "v"
      /\ lines[11] = "CR" /\ lines[12] = "LF"
  <2>1. /\ line \in Seq(Token) /\ Len(line) = 6
        /\ line[1] = "host" /\ line[2] = "COLON" /\ line[3] = "SP" /\ line[4] = "v"
        /\ line[5] = "CR" /\ line[6] = "LF"
    BY DEF Token, Controls, Separators, Words
  <2> HIDE DEF line
  <2>6. /\ lines \in Seq(Token) /\ Len(lines) = Len(line) + Len(line)
        /\ \A k \in 1..Len(line) : lines[k] = line[k]
        /\ \A k \in 1..Len(line) : lines[Len(line) + k] = line[k]
    <3>1. line \in Seq(Token)  BY <2>1
    <3> QED  BY ONLY <3>1, Concat
  <2> HIDE DEF lines
  <2>2. lines \in Seq(Token) /\ Len(lines) = 12  BY <2>1, <2>6
  <2>3. \A k \in 1..6 : lines[k] = line[k] /\ lines[6 + k] = line[k]  BY <2>1, <2>6
  <2>4. /\ lines[1] = line[1] /\ lines[2] = line[2] /\ lines[3] = line[3]
        /\ lines[4] = line[4] /\ lines[5] = line[5] /\ lines[6] = line[6]
    BY <2>3
  <2>5. /\ lines[6 + 1] = line[1] /\ lines[6 + 2] = line[2] /\ lines[6 + 3] = line[3]
        /\ lines[6 + 4] = line[4] /\ lines[6 + 5] = line[5] /\ lines[6 + 6] = line[6]
    BY <2>3
  <2> QED  BY <2>1, <2>2, <2>4, <2>5
<1> DEFINE n == Len(d) + 2
           a == (d \o <<"CR", "LF">>) \o lines
<1>4. /\ a \in Seq(Token) /\ Len(a) = n + 12 /\ n \in Nat /\ n > 1
      /\ \A k \in 1..n - 2 : a[k] = d[k]
      /\ a[n - 1] = "CR" /\ a[n] = "LF"
      /\ \A k \in 1..12 : a[n + k] = lines[k]
  <2> HIDE DEF lines
  <2> DEFINE b == d \o <<"CR", "LF">>
  <2>1. /\ b \in Seq(Token) /\ Len(b) = n /\ b[n - 1] = "CR" /\ b[n] = "LF"
        /\ \A k \in 1..n - 2 : b[k] = d[k]
    BY DEF Token, Controls
  <2>2. a = b \o lines /\ n \in Nat /\ n > 1  OBVIOUS
  <2> HIDE DEF b, a, n
  <2>3. b \in Seq(Token) /\ Len(b) = n /\ lines \in Seq(Token) /\ Len(lines) = 12
    BY <1>3, <2>1
  <2>4. /\ b \o lines \in Seq(Token) /\ Len(b \o lines) = n + 12
        /\ \A k \in 1..n : (b \o lines)[k] = b[k]
        /\ \A k \in 1..12 : (b \o lines)[n + k] = lines[k]
    <3>1. /\ b \o lines \in Seq(Token) /\ Len(b \o lines) = Len(b) + Len(lines)
          /\ \A k \in 1..Len(b) : (b \o lines)[k] = b[k]
          /\ \A k \in 1..Len(lines) : (b \o lines)[Len(b) + k] = lines[k]
      <4>1. b \in Seq(Token) /\ lines \in Seq(Token)  BY <2>3
      <4> QED  BY ONLY <4>1, Concat
    <3> QED  BY <2>3, <3>1
  <2>5. n - 1 \in 1..n /\ n \in 1..n /\ 1..n - 2 \subseteq 1..n  BY <2>2
  <2> QED  BY <2>1, <2>2, <2>4, <2>5
<1>5. After(a, s)
  <2>1. a \in Seq(Token)  BY <1>4
  <2>2. ASSUME NEW u, After(a, u), NEW w \in Seq(Token), HostFree(w)
        PROVE  After(a, u \o w)
    <3> HIDE DEF a
    <3>1. u \o w \in Seq(Token) /\ Len(u \o w) = Len(u) + Len(w)  BY <2>2
    <3>2. \A k \in 1..Len(a) : (u \o w)[k] = a[k]  BY <2>1, <2>2
    <3>3. ASSUME NEW k \in Len(a) + 1..Len(u) + Len(w) PROVE (u \o w)[k] # "host"
      <4>1. CASE k <= Len(u)  BY <2>1, <2>2, <4>1
      <4>2. CASE k > Len(u)
        <5>1. k - Len(u) \in 1..Len(w) /\ (u \o w)[k] = w[k - Len(u)]  BY <2>1, <2>2, <4>2
        <5> QED  BY <2>2, <5>1 DEF HostFree
      <4> QED  BY <4>1, <4>2
    <3> QED  BY <2>1, <2>2, <3>1, <3>2, <3>3
  <2>3. After(a, a)
    <3> HIDE DEF a
    <3> QED  BY <2>1
  <2>4. s = ((a \o OtherLines(r)) \o Eol(r)) \o Content(r)
    BY <1>1, <1>2 DEF Bytes
  <2>5. \A w \in {OtherLines(r), Eol(r), Content(r)} : w \in Seq(Token) /\ HostFree(w)
    BY AroundHosts
  <2> HIDE DEF After, a, s
  <2> QED  BY <2>2, <2>3, <2>4, <2>5
<1> HIDE DEF lines, s, a, n, After
<1>6. n = Len(d) + 2 /\ n \in Nat /\ n > 1  BY <1>4 DEF n
<1>6a. Len(s) \in Nat /\ n + 12 <= Len(s)  BY <1>4, <1>5, <1>6 DEF After
<1>7. /\ s[n - 1] = "CR" /\ s[n] = "LF"
      /\ \A k \in 1..12 : s[n + k] = lines[k]
      /\ \A k \in n + 13..Len(s) : s[k] # "host"
      /\ \A k \in 1..n - 2 : s[k] # "host" /\ s[k] # "LF"
  <2>1. /\ s \in Seq(Token) /\ n + 12 <= Len(s)
        /\ \A k \in 1..n + 12 : s[k] = a[k]
        /\ \A k \in n + 13..Len(s) : s[k] # "host"
    BY <1>4, <1>5, <1>6 DEF After
  <2>2. s[n - 1] = "CR" /\ s[n] = "LF"
    <3>1. n - 1 \in 1..n + 12 /\ n \in 1..n + 12  BY <1>6
    <3> QED  BY <1>4, <2>1, <3>1
  <2>3. \A k \in 1..12 : s[n + k] = lines[k]
    <3> TAKE k \in 1..12
    <3>1. n + k \in 1..n + 12  BY <1>6
    <3> QED  BY <1>4, <2>1, <3>1
  <2>4. \A k \in 1..n - 2 : s[k] # "host" /\ s[k] # "LF"
    <3> TAKE k \in 1..n - 2
    <3>1. k \in 1..n + 12 /\ k \in 1..Len(d)  BY <1>6
    <3>2. s[k] = d[k]  BY <1>4, <2>1, <3>1
    <3> QED  BY <1>2, <3>1, <3>2 DEF HostFree
  <2> QED  BY <2>1, <2>2, <2>3, <2>4
<1>8. /\ s[n + 1] = "host" /\ s[n + 2] = "COLON" /\ s[n + 3] = "SP" /\ s[n + 4] = "v"
      /\ s[n + 5] = "CR" /\ s[n + 6] = "LF"
      /\ s[n + 7] = "host" /\ s[n + 8] = "COLON" /\ s[n + 9] = "SP" /\ s[n + 10] = "v"
      /\ s[n + 11] = "CR" /\ s[n + 12] = "LF"
  BY <1>3, <1>7
<1>9. HostAt(s) = {n + 1, n + 7}
  <2>1. ASSUME NEW k \in 1..Len(s), k \notin {n + 1, n + 7} PROVE s[k] # "host"
    <3>1. k \in Nat /\ k >= 1 /\ k <= Len(s) /\ k # n + 1 /\ k # n + 7
      BY <1>6, <1>6a, <2>1
    <3>2. CASE k < n + 1
      <4>1. k \in 1..n - 2 \/ k = n - 1 \/ k = n  BY <1>6, <3>1, <3>2
      <4> QED  BY <1>7, <4>1
    <3>3. CASE n + 1 <= k /\ k < n + 7
      <4>1. k = n + 2 \/ k = n + 3 \/ k = n + 4 \/ k = n + 5 \/ k = n + 6
        BY <1>6, <3>1, <3>3
      <4> QED  BY <1>8, <4>1
    <3>4. CASE n + 7 <= k /\ k < n + 13
      <4>1. k = n + 8 \/ k = n + 9 \/ k = n + 10 \/ k = n + 11 \/ k = n + 12
        BY <1>6, <3>1, <3>4
      <4> QED  BY <1>8, <4>1
    <3>5. CASE n + 13 <= k
      <4>1. k \in n + 13..Len(s)  BY <1>6, <1>6a, <3>1, <3>5
      <4> QED  BY <1>7, <4>1
    <3> QED  BY <1>6, <3>1, <3>2, <3>3, <3>4, <3>5
  <2>2. n + 1 \in 1..Len(s) /\ n + 7 \in 1..Len(s)  BY <1>6, <1>6a
  <2> QED  BY <1>8, <2>1, <2>2 DEF HostAt
<1>10. \E j, k \in HostAt(s) : j # k
  <2>1. n + 1 # n + 7  BY <1>6
  <2> QED  BY <1>9, <2>1
<1>11. ASSUME NEW k \in HostAt(s)
       PROVE  k > 1 /\ s[k - 1] = "LF" /\ k < Len(s) /\ s[k + 1] = "COLON"
  <2>1. k = n + 1 \/ k = n + 7  BY <1>9
  <2>2. (n + 1) - 1 = n /\ (n + 1) + 1 = n + 2 /\ (n + 7) - 1 = n + 6 /\ (n + 7) + 1 = n + 8
    BY <1>6
  <2>3. n + 1 > 1 /\ n + 7 > 1 /\ n + 1 < Len(s) /\ n + 7 < Len(s)  BY <1>6, <1>6a
  <2>4. CASE k = n + 1  BY <1>7, <1>8, <2>2, <2>3, <2>4
  <2>5. CASE k = n + 7  BY <1>8, <2>2, <2>3, <2>5
  <2> QED  BY <2>1, <2>4, <2>5
<1>12. ASSUME NEW i \in 1..Len(s) - 1, s[i] = "LF", s[i + 1] = "CR", NEW k \in HostAt(s)
       PROVE  k < i
  <2> SUFFICES ASSUME i <= n + 7 PROVE FALSE  BY <1>6, <1>9
  <2>1. \/ i \in 1..n - 2 \/ i = n - 1 \/ i = n \/ i = n + 1 \/ i = n + 2 \/ i = n + 3
        \/ i = n + 4 \/ i = n + 5 \/ i = n + 6 \/ i = n + 7
    BY <1>6
  <2>2. i = n \/ i = n + 6
    <3>1. i \notin 1..n - 2 /\ i # n - 1  BY <1>7, <1>12
    <3>2. i # n + 1 /\ i # n + 2 /\ i # n + 3 /\ i # n + 4 /\ i # n + 5 /\ i # n + 7
      BY <1>8, <1>12
    <3> QED  BY <2>1, <3>1, <3>2
  <2>3. i + 1 = n + 1 \/ i + 1 = n + 7  BY <1>6, <2>2
  <2> QED  BY <1>8, <1>12, <2>3
<1>13. TwoLines(s)  BY <1>10, <1>11, <1>12 DEF TwoLines
<1> QED  BY <1>13 DEF s

(***************************************************************************)
(* What a byte does to the headers                                         *)
(***************************************************************************)

SameHeaders(p, q) == q.headers = p.headers /\ q.name = p.name /\ q.last = p.last

(* In the first line.                                                      *)
LEMMA FirstLineMoves ==
  ASSUME NEW p \in ParserType, p.step \in FirstLineSteps,
         p.headers = <<>> /\ p.name = <<>> /\ p.last = <<>>,
         NEW t, NEW init1, NEW init2
  PROVE  LET q == Dispatch(p, t, init1, init2)
         IN  \/ q.status # 0
             \/ /\ q.headers = <<>> /\ q.name = <<>> /\ q.last = <<>>
                /\ q.step \in FirstLineSteps \cup {"HEADER"}
                /\ t = "LF" => q.step = "HEADER"
<1> DEFINE q == Dispatch(p, t, init1, init2)
           Good(x) == \/ x.status # 0
                      \/ /\ x.headers = <<>> /\ x.name = <<>> /\ x.last = <<>>
                         /\ x.step \in FirstLineSteps \cup {"HEADER"}
                         /\ t = "LF" => x.step = "HEADER"
<1>1. \A x \in ParserType, s \in Errors : Good(Fail(x, s))
  BY EndsInError
<1>2. 400 \in Errors /\ 505 \in Errors  BY DEF Errors, Statuses
<1>3. \A s \in FirstLineSteps : t # "LF" => Good(Goto(p, s))
  BY DEF Goto, ParserType
<1>4. t = "LF" => Good(Goto(p, "HEADER"))  BY DEF Goto, ParserType
<1>5. t # "LF" => Good(p)  OBVIOUS
<1>6. ASSUME p.step = "INIT" PROVE Good(q)
  <2> DEFINE new == [Fresh EXCEPT !.step = "METHOD"]
  <2>1. new \in ParserType
    <3>1. Goto(Fresh, "METHOD") \in ParserType  BY FreshType, GotoType DEF Steps
    <3> QED  BY <3>1 DEF Goto
  <2>2. new.step = "METHOD" /\ new.method = <<>>  BY DEF Fresh
  <2>3. t # "LF" => Good([new EXCEPT !.method = Append(@, t)])
    BY DEF Fresh, FirstLineSteps
  <2>4. Good(Fail(new, 400))  BY <1>1, <1>2, <2>1
  <2>5. q = Method(new, t)  BY <1>6 DEF Dispatch, AfterCr, ParseInit
  <2>6. t \in UpperWords => t # "LF"  BY DEF UpperWords
  <2> HIDE DEF Good, q, new
  <2> QED  BY <2>2, <2>3, <2>4, <2>5, <2>6 DEF Method
<1>7. ASSUME p.step = "METHOD" PROVE Good(q)
  <2>1. q = Method(p, t)  BY <1>7 DEF Dispatch, AfterCr
  <2>2. t # "LF" => Good([p EXCEPT !.method = Append(@, t)])
    BY <1>7 DEF ParserType, FirstLineSteps
  <2>3. t \in UpperWords => t # "LF"  BY DEF UpperWords
  <2>4. "URI" \in FirstLineSteps  BY DEF FirstLineSteps
  <2> HIDE DEF Good, q
  <2> QED  BY <1>1, <1>2, <1>3, <2>1, <2>2, <2>3, <2>4 DEF Method
<1>8. ASSUME p.step = "URI" PROVE Good(q)
  <2>1. q = Uri(p, t, init1)  BY <1>8 DEF Dispatch, AfterCr
  <2>2. t # "LF" => Good([p EXCEPT !.uri = Append(@, t)])
    BY <1>8 DEF ParserType, FirstLineSteps
  <2>3. IsUriChar(t) => t # "LF"  BY DEF IsUriChar, Controls
  <2>4. "PROTOCOL" \in FirstLineSteps  BY DEF FirstLineSteps
  <2> HIDE DEF Good, q
  <2> QED  BY <1>1, <1>2, <1>3, <1>5, <2>1, <2>2, <2>3, <2>4 DEF Uri
<1>9. ASSUME p.step = "PROTOCOL" PROVE Good(q)
  <2>1. q = Protocol(p, t, init2)  BY <1>9 DEF Dispatch, AfterCr
  <2>2. t # "LF" => Good([p EXCEPT !.protocol = Append(@, t)])
    BY <1>9 DEF ParserType, FirstLineSteps
  <2>3. "VERSION" \in FirstLineSteps  BY DEF FirstLineSteps
  <2> HIDE DEF Good, q
  <2>4. CASE t \in {"CR", "LF"} \cup Uris
    <3>1. q = Fail(p, 400)  BY <2>1, <2>4 DEF Protocol, Uris
    <3> QED  BY <1>1, <1>2, <3>1
  <2>5. CASE t \notin {"CR", "LF"} \cup Uris
    BY <1>1, <1>2, <1>3, <1>5, <2>1, <2>2, <2>3, <2>5 DEF Protocol
  <2> QED  BY <2>4, <2>5
<1>10. ASSUME p.step = "VERSION" PROVE Good(q)
  <2>1. q = Version(p, t)  BY <1>10 DEF Dispatch, AfterCr
  <2>2. t # "LF" => Good([p EXCEPT !.version = Append(@, t)])
    BY <1>10 DEF ParserType, FirstLineSteps
  <2>3. t \in Digits \cup Versions => t # "LF"  BY DEF Digits, Versions
  <2>4. "CR_FIRST_LINE" \in FirstLineSteps  BY DEF FirstLineSteps
  <2>5. VersionStatus(p.version) = 0 \/ VersionStatus(p.version) \in Errors
    BY <1>2 DEF VersionStatus
  <2> HIDE DEF Good, q
  <2> QED  BY <1>1, <1>2, <1>3, <1>4, <1>5, <2>1, <2>2, <2>3, <2>4, <2>5 DEF Version
<1>11. ASSUME p.step = "CR_FIRST_LINE" PROVE Good(q)
  <2>1. q = CheckCrlf(p, t)  BY <1>11 DEF Dispatch, AfterCr
  <2>2. AfterCr[p.step] = "HEADER"  BY <1>11 DEF AfterCr
  <2> HIDE DEF Good, q
  <2> QED  BY <1>1, <1>2, <1>4, <1>11, <2>1, <2>2 DEF CheckCrlf
<1>12. Good(q)
  <2> HIDE DEF Good, q
  <2> QED  BY <1>6, <1>7, <1>8, <1>9, <1>10, <1>11 DEF FirstLineSteps
<1> QED  BY <1>12

(* In a header line: it goes on with the same name, its name grows or is   *)
(* that of the line before, it ends, or the request ends.                  *)
LineGoesOn(p, t, q) ==
  /\ SameHeaders(p, q)
  /\ \/ p.step = "HEADER" /\ t = "CR" /\ q.step = "SECOND_CR_HEADER"
     \/ p.step \in {"HEADER", "HEADER_NAME"} /\ t = "COLON" /\ q.step = "HEADER_VALUE_INIT"
     \/ p.step \in ValueSteps /\ t \notin {"CR", "LF"} /\ q.step \in ValueSteps
     \/ p.step = "CR_HEADER" /\ t = "LF" /\ q.step = "HEADER"
NameGrows(p, t, q) ==
  /\ p.step \in {"HEADER", "HEADER_NAME"} /\ t \notin {"COLON", "CR", "LF"}
  /\ q.step = "HEADER_NAME"
  /\ q.name = Append(p.name, t) /\ q.headers = p.headers /\ q.last = p.last
LineFolds(p, t, q) ==
  /\ p.step = "HEADER" /\ t \in Blank
  /\ q.step = "HEADER_VALUE_INIT"
  /\ q.name = p.last /\ q.headers = p.headers /\ q.last = p.last
LineEnds(p, t, q) ==
  /\ p.step \in {"HEADER_NAME"} \cup ValueSteps /\ t \in {"CR", "LF"}
  /\ p.step = "HEADER_NAME" => t = "CR"
  /\ q.step = IF t = "CR" THEN "CR_HEADER" ELSE "HEADER"
  /\ q.headers = Append(p.headers, <<p.name, p.value>>)
  /\ q.last = p.name /\ q.name = <<>>
HeaderMoves(p, t, q) ==
  \/ q.status # 0 \/ (p.step = "HEADER" /\ t = "LF")
  \/ LineGoesOn(p, t, q) \/ NameGrows(p, t, q) \/ LineFolds(p, t, q) \/ LineEnds(p, t, q)

(* Each handler of a header line does one of the things of HeaderMoves.    *)
LEMMA HeaderMoved ==
  ASSUME NEW p \in ParserType,
         p.step \in {"HEADER", "HEADER_NAME", "CR_HEADER"} \cup ValueSteps,
         NEW t, NEW init1, NEW init2
  PROVE  HeaderMoves(p, t, Dispatch(p, t, init1, init2))
<1> DEFINE q == Dispatch(p, t, init1, init2)
           Good(x) == HeaderMoves(p, t, x)
<1>1. 400 \in Errors  BY DEF Errors, Statuses
<1>2. \A x \in ParserType : Good(Fail(x, 400))  BY <1>1, EndsInError DEF HeaderMoves
<1>3. ASSUME p.step = "CR_HEADER" PROVE Good(q)
  <2>1. q = CheckCrlf(p, t)  BY <1>3 DEF Dispatch, AfterCr
  <2>2. AfterCr[p.step] = "HEADER"  BY <1>3 DEF AfterCr
  <2>3. t = "LF" => Good(Goto(p, "HEADER"))
    BY <1>3 DEF Goto, ParserType, HeaderMoves, LineGoesOn, SameHeaders
  <2> HIDE DEF Good, q
  <2> QED  BY <1>2, <1>3, <2>1, <2>2, <2>3 DEF CheckCrlf
<1>4. ASSUME p.step # "CR_HEADER" PROVE q = Header(p, t)
  BY <1>4 DEF Dispatch, AfterCr, ValueSteps
<1>5. ASSUME NEW x \in ParserType, x \in {p, Goto(p, "HEADER_NAME")}, x.step = "HEADER_NAME",
             p.step \in {"HEADER", "HEADER_NAME"}, p.step = "HEADER" => t \notin {"CR", "LF"}
      PROVE  Good(FieldName(x, t))
  <2>1. SameHeaders(p, x) /\ x.value = p.value  BY <1>5 DEF Goto, ParserType, SameHeaders
  <2>2. t = "COLON" => Good(Goto(x, "HEADER_VALUE_INIT"))
    BY <1>5, <2>1 DEF Goto, ParserType, HeaderMoves, LineGoesOn, SameHeaders
  <2>3. ASSUME t = "CR" PROVE Good(Goto(AddHeader(x), "CR_HEADER"))
    <3> DEFINE y == Goto(AddHeader(x), "CR_HEADER")
    <3>1. /\ y.step = "CR_HEADER" /\ y.headers = Append(x.headers, <<x.name, x.value>>)
          /\ y.last = x.name /\ y.name = <<>>
      BY DEF Goto, AddHeader, ParserType
    <3> HIDE DEF y
    <3>2. LineEnds(p, t, y)  BY <1>5, <2>1, <2>3, <3>1 DEF LineEnds, SameHeaders
    <3> QED  BY <3>2 DEF HeaderMoves, y
  <2>4. t \notin {"COLON", "CR", "LF"} => Good([x EXCEPT !.name = Append(@, t)])
    BY <1>5, <2>1 DEF ParserType, HeaderMoves, NameGrows, SameHeaders
  <2> HIDE DEF Good
  <2> QED  BY <1>2, <1>5, <2>2, <2>3, <2>4 DEF FieldName, Controls
<1>6. ASSUME p.step \in ValueSteps
      PROVE  Good(FieldValue(Goto(p, "HEADER_VALUE"), t))
  <2> DEFINE x == Goto(p, "HEADER_VALUE")
  <2>1. /\ x \in ParserType /\ x.step = "HEADER_VALUE" /\ SameHeaders(p, x)
        /\ x.value = p.value
    <3>1. x \in ParserType  BY GotoType DEF Steps
    <3> QED  BY <3>1 DEF Goto, ParserType, SameHeaders
  <2> HIDE DEF x
  <2>2. ASSUME NEW s \in {"CR_HEADER", "HEADER"}, t \in {"CR", "LF"},
               s = IF t = "CR" THEN "CR_HEADER" ELSE "HEADER"
        PROVE  Good(Goto(AddHeader(x), s))
    <3> DEFINE y == Goto(AddHeader(x), s)
    <3>1. /\ y.step = s /\ y.headers = Append(x.headers, <<x.name, x.value>>)
          /\ y.last = x.name /\ y.name = <<>>
      BY <2>1 DEF Goto, AddHeader, ParserType
    <3> HIDE DEF y
    <3>2. LineEnds(p, t, y)
      BY <1>6, <2>1, <2>2, <3>1 DEF LineEnds, SameHeaders, ValueSteps
    <3> QED  BY <3>2 DEF HeaderMoves, y
  <2>3. t \notin {"CR", "LF"} => Good([x EXCEPT !.value = Append(@, t)])
    BY <1>6, <2>1 DEF ParserType, HeaderMoves, LineGoesOn, SameHeaders, ValueSteps
  <2> HIDE DEF Good
  <2>4. Good(FieldValue(x, t))  BY <2>2, <2>3 DEF FieldValue
  <2> QED  BY <2>4 DEF x
<1>7. ASSUME p.step = "HEADER" PROVE Good(q)
  <2>1. q = Header(p, t)  BY <1>4, <1>7
  <2>2. CASE t = "CR"
    <3>1. q = Goto(p, "SECOND_CR_HEADER")  BY <1>7, <2>1, <2>2 DEF Header, Blank
    <3> QED
      BY <1>7, <2>2, <3>1 DEF Goto, ParserType, HeaderMoves, LineGoesOn, SameHeaders
  <2>3. CASE t = "LF"  BY <1>7, <2>3 DEF HeaderMoves
  <2>4. CASE t \in Blank
    <3>1. q = [p EXCEPT !.name = p.last, !.step = "HEADER_VALUE_INIT"]
      BY <1>7, <2>1, <2>4 DEF Header, Blank
    <3> QED  BY <1>7, <2>4, <3>1 DEF ParserType, HeaderMoves, LineFolds
  <2>5. CASE t \notin Blank \cup {"CR", "LF"}
    <3>1. q = FieldName(Goto(p, "HEADER_NAME"), t)  BY <1>7, <2>1, <2>5 DEF Header
    <3>2. Goto(p, "HEADER_NAME") \in ParserType /\ Goto(p, "HEADER_NAME").step = "HEADER_NAME"
      <4>1. Goto(p, "HEADER_NAME") \in ParserType  BY GotoType DEF Steps
      <4> QED  BY <4>1 DEF Goto, ParserType
    <3> HIDE DEF Good, q
    <3> QED  BY <1>5, <1>7, <2>5, <3>1, <3>2
  <2> QED  BY <2>2, <2>3, <2>4, <2>5
<1>8. ASSUME p.step = "HEADER_NAME" PROVE Good(q)
  <2>1. q = FieldName(p, t)  BY <1>4, <1>8 DEF Header
  <2> HIDE DEF Good, q
  <2> QED  BY <1>5, <1>8, <2>1
<1>9. ASSUME p.step \in ValueSteps PROVE Good(q)
  <2>1. q = Header(p, t)  BY <1>4, <1>9 DEF ValueSteps
  <2>2. CASE p.step = "HEADER_VALUE_INIT" /\ t \in Blank
    <3>1. q = p  BY <2>1, <2>2 DEF Header
    <3> QED
      BY <2>2, <3>1 DEF HeaderMoves, LineGoesOn, SameHeaders, ValueSteps, Blank
  <2>3. CASE ~(p.step = "HEADER_VALUE_INIT" /\ t \in Blank)
    <3>1. q = FieldValue(Goto(p, "HEADER_VALUE"), t)
      BY <1>9, <2>1, <2>3 DEF Header, ValueSteps
    <3> HIDE DEF Good, q
    <3> QED  BY <1>6, <1>9, <3>1
  <2> QED  BY <2>2, <2>3
<1> QED  BY <1>3, <1>7, <1>8, <1>9

(* What follows for the Host headers.                                      *)
LEMMA HostsMoved ==
  ASSUME NEW p \in ParserType, NEW t, NEW q \in ParserType, HeaderMoves(p, t, q),
         q.status = 0, ~(p.step = "HEADER" /\ t = "LF")
  PROVE  /\ Named(p) => Named(q)
         /\ Twice(p) => Twice(q)
         /\ (/\ p.step \in {"HEADER_NAME"} \cup ValueSteps /\ p.name = <<"host">>
             /\ p.step = "HEADER_NAME" => t = "COLON") =>
              \/ q.step \in ValueSteps /\ q.name = <<"host">>
              \/ Named(q) /\ (Named(p) => Twice(q))
         /\ p.step = "HEADER" /\ p.name = <<>> /\ t = "host" =>
              q.step = "HEADER_NAME" /\ q.name = <<"host">>
         /\ NoHost(p) /\ t # "host" => NoHost(q)
         /\ t = "LF" => q.step = "HEADER"
         /\ (/\ q.step \notin {"HEADER_NAME"} \cup ValueSteps
             /\ p.step \notin {"HEADER_NAME"} \cup ValueSteps => p.name = <<>>) =>
              q.name = <<>>
         /\ q.step = "SECOND_CR_HEADER" => p.step = "HEADER" /\ t = "CR"
         /\ q.step \notin FirstLineSteps
<1>1. /\ p.headers \in Seq(Seq(Token) \X Seq(Token)) /\ q.headers \in Seq(Seq(Token) \X Seq(Token))
      /\ p.name \in Seq(Token) /\ p.last \in Seq(Token)
  BY DEF ParserType
<1>2. ASSUME q.headers = p.headers
      PROVE  (Named(p) <=> Named(q)) /\ (Twice(p) <=> Twice(q))
  BY <1>2 DEF Named, Twice, Given
<1>3. ASSUME q.headers = Append(p.headers, <<p.name, p.value>>)
      PROVE  /\ Named(p) => Named(q)
             /\ Twice(p) => Twice(q)
             /\ p.name = <<"host">> => Named(q) /\ (Named(p) => Twice(q))
  <2> DEFINE n == Len(p.headers)
  <2>1. /\ n \in Nat /\ Len(q.headers) = n + 1 /\ DOMAIN p.headers = 1..n
        /\ DOMAIN q.headers = 1..n + 1
        /\ \A k \in 1..n : q.headers[k] = p.headers[k]
        /\ q.headers[n + 1][1] = p.name
    BY <1>1, <1>3
  <2>2. Given(p, "host") \subseteq Given(q, "host") /\ Given(p, "host") \subseteq 1..n
    BY <2>1 DEF Given
  <2>3. p.name = <<"host">> => n + 1 \in Given(q, "host")  BY <2>1 DEF Given
  <2>4. n + 1 \notin 1..n  BY <2>1
  <2> HIDE DEF n
  <2> QED  BY <2>2, <2>3, <2>4 DEF Named, Twice
<1>4. CASE LineGoesOn(p, t, q)
  <2>1. SameHeaders(p, q)  BY <1>4 DEF LineGoesOn
  <2>2. NoHost(p) => NoHost(q)  BY <2>1 DEF SameHeaders, NoHost
  <2> QED
    BY <1>2, <1>4, <2>1, <2>2 DEF LineGoesOn, SameHeaders, ValueSteps, FirstLineSteps
<1>5. CASE NameGrows(p, t, q)
  <2>1. NoHost(p) /\ t # "host" => NoHost(q)
    <3> SUFFICES ASSUME NoHost(p), t # "host" PROVE NoHost(q)  OBVIOUS
    <3>1. q.name = Append(p.name, t) /\ q.last = p.last /\ q.headers = p.headers
      BY <1>5 DEF NameGrows
    <3>2. /\ Len(Append(p.name, t)) = Len(p.name) + 1 /\ Len(p.name) \in Nat
          /\ \A k \in 1..Len(p.name) : Append(p.name, t)[k] = p.name[k]
          /\ Append(p.name, t)[Len(p.name) + 1] = t
      BY <1>1
    <3>3. \A k \in 1..Len(q.name) : q.name[k] # "host"
      <4> TAKE k \in 1..Len(q.name)
      <4>1. k \in 1..Len(p.name) \/ k = Len(p.name) + 1  BY <3>1, <3>2
      <4> QED  BY <3>1, <3>2, <4>1 DEF NoHost
    <3> QED  BY <3>1, <3>3 DEF NoHost
  <2>2. p.name = <<>> => q.name = <<t>>  BY <1>5 DEF NameGrows
  <2> QED
    BY <1>2, <1>5, <2>1, <2>2 DEF NameGrows, ValueSteps, FirstLineSteps
<1>6. CASE LineFolds(p, t, q)
  <2>1. NoHost(p) => NoHost(q)  BY <1>6 DEF LineFolds, NoHost
  <2> QED
    BY <1>2, <1>6, <2>1 DEF LineFolds, Blank, ValueSteps, FirstLineSteps
<1>7. CASE LineEnds(p, t, q)
  <2>1. NoHost(p) => NoHost(q)
    <3> SUFFICES ASSUME NoHost(p) PROVE NoHost(q)  OBVIOUS
    <3>1. p.name # <<"host">>
      <4>1. Len(<<"host">>) = 1 /\ <<"host">>[1] = "host"  OBVIOUS
      <4> QED  BY <4>1 DEF NoHost
    <3>2. q.headers = Append(p.headers, <<p.name, p.value>>) /\ q.last = p.name /\ q.name = <<>>
      BY <1>7 DEF LineEnds
    <3>3. \A j \in 1..Len(q.headers) : q.headers[j][1] # <<"host">>
      <4> TAKE j \in 1..Len(q.headers)
      <4>1. /\ Len(q.headers) = Len(p.headers) + 1 /\ Len(p.headers) \in Nat
            /\ \A k \in 1..Len(p.headers) : q.headers[k] = p.headers[k]
            /\ q.headers[Len(p.headers) + 1] = <<p.name, p.value>>
        BY <1>1, <3>2
      <4>2. j \in 1..Len(p.headers) \/ j = Len(p.headers) + 1  BY <4>1
      <4>3. CASE j \in 1..Len(p.headers)
        <5>1. q.headers[j] = p.headers[j]  BY <4>1, <4>3
        <5>2. p.headers[j][1] # <<"host">>  BY <4>3 DEF NoHost
        <5> QED  BY <5>1, <5>2
      <4>4. CASE j = Len(p.headers) + 1
        <5>1. <<p.name, p.value>>[1] = p.name  OBVIOUS
        <5> QED  BY <3>1, <4>1, <4>4, <5>1
      <4> QED  BY <4>2, <4>3, <4>4
    <3> QED  BY <3>2, <3>3 DEF NoHost
  <2> QED
    BY <1>3, <1>7, <2>1 DEF LineEnds, ValueSteps, FirstLineSteps
<1> QED  BY <1>4, <1>5, <1>6, <1>7 DEF HeaderMoves

(* check_request() lets no request without exactly one Host header pass.   *)
LEMMA HostChecked ==
  ASSUME NEW p \in ParserType, p.step = "SECOND_CR_HEADER", NEW t, NEW init1, NEW init2,
         Dispatch(p, t, init1, init2).status = 0
  PROVE  Once(p, "host")
<1> DEFINE q == Dispatch(p, t, init1, init2)
           x == Goto(p, "END")
<1>1. q = CheckCrlf(p, t)  BY DEF Dispatch, AfterCr
<1>2. 400 \in Errors  BY DEF Errors, Statuses
<1>3. t = "LF"
  <2> SUFFICES ASSUME t # "LF" PROVE FALSE  OBVIOUS
  <2>1. q = Fail(p, 400)  BY <1>1 DEF CheckCrlf
  <2> QED  BY <1>2, <2>1, EndsInError
<1>4. q = CheckRequest(x)  BY <1>1, <1>3 DEF CheckCrlf
<1>5. x \in ParserType  BY GotoType DEF Steps
<1>6. x.headers = p.headers  BY DEF Goto, ParserType
<1> HIDE DEF x
<1>7. \A k \in 1..12 : ~RequestChecks(x)[k][1]  BY <1>4, <1>5, CheckOutcome, EndsInError
<1>8. RequestChecks(x)[1][1] <=> ~Once(x, "host") \/ Value(x, "host") = <<>>
  BY DEF RequestChecks
<1>9. Once(x, "host")  BY <1>7, <1>8
<1> QED  BY <1>6, <1>9 DEF Once, Given

(* One turn of the loop of parse() loses no Host header.                   *)
LEMMA ParseByteHosts ==
  ASSUME TypeOK, TypeOK', SentStays, NEW c \in Conns, InStep(c), InStep(c)', HostTracked(c),
         ParseByte(c)
  PROVE  HostTracked(c)'
<1> DEFINE p == parser[c]
           s == input[c]
           t == s[pos[c] + 1]
           q == Dispatch(p, t, init_uri, init_protocol)
           past == {k \in HostAt(s) : k <= pos[c]}
           next == {k \in HostAt(s) : k <= pos[c] + 1}
<1>1. /\ p \in ParserType /\ pos[c] \in Nat /\ pos[c] + 1 \in 1..Len(s) /\ s \in Seq(Token)
      /\ p.step # "END" /\ p.status = 0 /\ Sound(p)
  BY DEF TypeOK, ParseByte, More, InStep, Sound
<1>2. parser'[c] = q /\ pos'[c] = pos[c] + 1 /\ sent' = sent /\ input' = input
  <2> HIDE DEF q
  <2>1. parser' = [parser EXCEPT ![c] = q]  BY DEF ParseByte, q
  <2> QED  BY <2>1 DEF TypeOK, ParseByte
<1>3. q \in ParserType /\ Sound(q)
  <2> HIDE DEF q
  <2> QED  BY <1>2 DEF TypeOK, InStep
<1> SUFFICES ASSUME sent[c].crlf, sent[c].hosts # 1, q.status = 0
             PROVE  /\ ~q.checked
                    /\ q.step \in FirstLineSteps => q.headers = <<>> /\ q.last = <<>>
                    /\ q.step \notin {"HEADER_NAME"} \cup ValueSteps => q.name = <<>>
                    /\ t = "LF" => q.step = "HEADER"
                    /\ q.step = "SECOND_CR_HEADER" =>
                         pos[c] > 0 /\ t = "CR" /\ s[pos[c]] = "LF"
                    /\ sent[c].hosts = 0 => NoHost(q)
                    /\ sent[c].hosts = 2 =>
                         /\ next # {} => Named(q) \/ Pending(c)'
                         /\ (\E j, k \in next : j # k) =>
                              Twice(q) \/ (Named(q) /\ Pending(c)')
  <2> HIDE DEF q
  <2>1. pos[c] + 1 > 0 /\ (pos[c] > 0 => pos[c] + 1 > 1) /\ (pos[c] + 1) - 1 = pos[c]  BY <1>1
  <2> QED  BY <1>2, <2>1 DEF HostTracked
<1> HIDE DEF q
<1>4. /\ ~p.checked
      /\ p.step \in FirstLineSteps => p.headers = <<>> /\ p.last = <<>>
      /\ p.step \notin {"HEADER_NAME"} \cup ValueSteps => p.name = <<>>
      /\ pos[c] > 0 /\ s[pos[c]] = "LF" => p.step = "HEADER"
      /\ p.step = "SECOND_CR_HEADER" =>
           pos[c] > 1 /\ s[pos[c]] = "CR" /\ s[pos[c] - 1] = "LF"
      /\ sent[c].hosts = 0 => NoHost(p)
      /\ sent[c].hosts = 2 =>
           /\ past # {} => Named(p) \/ Pending(c)
           /\ (\E j, k \in past : j # k) => Twice(p) \/ (Named(p) /\ Pending(c))
  BY <1>1 DEF HostTracked
<1>5. p.step \in Before  BY <1>1, <1>4 DEF Sound
<1>6. sent[c].hosts = 0 => t # "host"
  <2> SUFFICES ASSUME sent[c].hosts = 0, t = "host" PROVE FALSE  OBVIOUS
  <2>1. HostAt(s) = {}  BY NoHostSent DEF SentStays
  <2> QED  BY <1>1, <2>1 DEF HostAt
<1>7. sent[c].hosts = 2 => TwoLines(s)  BY TwoHostsSent DEF SentStays
<1>8. sent[c].hosts \in {0, 2}  BY DEF SentStays, Request
<1>9. ~(p.step = "HEADER" /\ t = "LF")
  <2> SUFFICES ASSUME p.step = "HEADER", t = "LF" PROVE FALSE  OBVIOUS
  <2>1. CrlfOnly(s)  BY BytesCrlf DEF SentStays
  <2>2. pos[c] > 0 /\ s[pos[c]] = "LF"  BY DEF InStep
  <2>3. s[(pos[c] + 1) - 1] = "CR"  BY <1>1, <2>1 DEF CrlfOnly
  <2> QED  BY <1>1, <2>2, <2>3
<1>10. next = IF t = "host" THEN past \cup {pos[c] + 1} ELSE past
  <2>1. pos[c] + 1 \in HostAt(s) <=> t = "host"  BY <1>1 DEF HostAt
  <2>2. HostAt(s) \subseteq Nat  BY DEF HostAt
  <2> QED  BY <1>1, <2>1, <2>2
<1>11. sent[c].hosts = 2 /\ t = "host" => p.step = "HEADER"
  <2> SUFFICES ASSUME sent[c].hosts = 2, t = "host" PROVE p.step = "HEADER"  OBVIOUS
  <2>1. pos[c] + 1 \in HostAt(s)  BY <1>1 DEF HostAt
  <2>2. pos[c] + 1 > 1 /\ s[(pos[c] + 1) - 1] = "LF"  BY <1>7, <2>1 DEF TwoLines
  <2> QED  BY <1>1, <1>4, <2>2
<1>12. CASE p.step \in FirstLineSteps
  <2>1. p.name = <<>> /\ p.headers = <<>> /\ p.last = <<>>
    BY <1>4, <1>12 DEF FirstLineSteps, ValueSteps
  <2>2. /\ q.headers = <<>> /\ q.name = <<>> /\ q.last = <<>>
        /\ q.step \in FirstLineSteps \cup {"HEADER"}
        /\ t = "LF" => q.step = "HEADER"
    BY <1>1, <1>12, <2>1, FirstLineMoves DEF q
  <2>3. ~q.checked  BY <1>3, <2>2 DEF Sound, FirstLineSteps, Before
  <2>4. NoHost(q)  BY <2>2 DEF NoHost
  <2>5. sent[c].hosts = 2 => past = {}
    <3>1. ~Named(p)  BY <2>1 DEF Named, Given
    <3>2. ~Pending(c)  BY <2>1 DEF Pending
    <3> QED  BY <1>4, <3>1, <3>2
  <2>6. sent[c].hosts = 2 => t # "host"  BY <1>11, <1>12 DEF FirstLineSteps
  <2> QED  BY <1>10, <2>2, <2>3, <2>4, <2>5, <2>6 DEF FirstLineSteps
<1>13. CASE p.step = "SECOND_CR_HEADER"
  <2>1. Once(p, "host")  BY <1>1, <1>13, HostChecked DEF q
  <2>2. CASE sent[c].hosts = 0
    <3>1. p.headers \in Seq(Seq(Token) \X Seq(Token))  BY <1>1 DEF ParserType
    <3>2. DOMAIN p.headers = 1..Len(p.headers)  BY <3>1
    <3>3. \A k \in 1..Len(p.headers) : p.headers[k][1] # <<"host">>
      BY <1>4, <2>2 DEF NoHost
    <3>4. Given(p, "host") = {}  BY <3>2, <3>3 DEF Given
    <3> QED  BY <2>1, <3>4 DEF Once
  <2>3. CASE sent[c].hosts = 2
    <3>1. pos[c] - 1 \in 1..Len(s) - 1 /\ s[pos[c] - 1] = "LF" /\ s[(pos[c] - 1) + 1] = "CR"
      BY <1>1, <1>4, <1>13
    <3>2. \A k \in HostAt(s) : k < pos[c] - 1  BY <1>7, <2>3, <3>1 DEF TwoLines
    <3>3. past = HostAt(s)  BY <1>1, <3>2 DEF HostAt
    <3>4. Twice(p)
      <4>1. \E j, k \in past : j # k  BY <1>7, <2>3, <3>3 DEF TwoLines
      <4>2. ~Pending(c)  BY <1>13 DEF Pending, ValueSteps
      <4> QED  BY <1>4, <2>3, <4>1, <4>2
    <3> QED  BY <2>1, <3>4 DEF Once, Twice
  <2> QED  BY <1>8, <2>2, <2>3
<1>14. CASE p.step \in {"HEADER", "HEADER_NAME", "CR_HEADER"} \cup ValueSteps
  <2>1. HeaderMoves(p, t, q)  BY <1>1, <1>14, HeaderMoved DEF q
  <2>2. /\ Named(p) => Named(q)
        /\ Twice(p) => Twice(q)
        /\ (/\ p.step \in {"HEADER_NAME"} \cup ValueSteps /\ p.name = <<"host">>
            /\ p.step = "HEADER_NAME" => t = "COLON") =>
             \/ q.step \in ValueSteps /\ q.name = <<"host">>
             \/ Named(q) /\ (Named(p) => Twice(q))
        /\ p.step = "HEADER" /\ p.name = <<>> /\ t = "host" =>
             q.step = "HEADER_NAME" /\ q.name = <<"host">>
        /\ NoHost(p) /\ t # "host" => NoHost(q)
        /\ t = "LF" => q.step = "HEADER"
        /\ (/\ q.step \notin {"HEADER_NAME"} \cup ValueSteps
            /\ p.step \notin {"HEADER_NAME"} \cup ValueSteps => p.name = <<>>) =>
             q.name = <<>>
        /\ q.step = "SECOND_CR_HEADER" => p.step = "HEADER" /\ t = "CR"
        /\ q.step \notin FirstLineSteps
    BY <1>1, <1>3, <1>9, <2>1, HostsMoved
  <2>3. ~q.checked
    <3>1. q.step \in Before
      BY <1>9, <2>1, <1>14 DEF HeaderMoves, LineGoesOn, NameGrows, LineFolds, LineEnds,
                              Before, ValueSteps
    <3> QED  BY <1>3, <3>1 DEF Sound
  <2>4. q.step = "SECOND_CR_HEADER" => pos[c] > 0 /\ t = "CR" /\ s[pos[c]] = "LF"
    BY <2>2 DEF InStep
  <2>5. Pending(c)' <=> /\ q.step \in {"HEADER_NAME"} \cup ValueSteps /\ q.name = <<"host">>
                        /\ q.step = "HEADER_NAME" => t = "host"
    <3>1. pos[c] + 1 > 0  BY <1>1
    <3> QED  BY <1>2, <3>1 DEF Pending
  <2>6. ASSUME sent[c].hosts = 2
        PROVE  /\ next # {} => Named(q) \/ Pending(c)'
               /\ (\E j, k \in next : j # k) => Twice(q) \/ (Named(q) /\ Pending(c)')
    <3>1. CASE t = "host"
      <4>1. p.step = "HEADER" /\ p.name = <<>>  BY <1>4, <1>11, <2>6, <3>1 DEF ValueSteps
      <4>2. Pending(c)'  BY <2>2, <2>5, <3>1, <4>1
      <4>3. ~Pending(c)  BY <4>1 DEF Pending, ValueSteps
      <4>4. (\E j, k \in next : j # k) => past # {}  BY <1>10, <3>1
      <4> QED  BY <1>4, <2>2, <2>6, <4>2, <4>3, <4>4
    <3>2. CASE t # "host"
      <4>1. next = past  BY <1>10, <3>2
      <4>2. Pending(c) => \/ Pending(c)'
                          \/ Named(q) /\ (Named(p) => Twice(q))
        <5> SUFFICES ASSUME Pending(c) PROVE Pending(c)' \/ (Named(q) /\ (Named(p) => Twice(q)))
          OBVIOUS
        <5>1. p.step = "HEADER_NAME" => t = "COLON"
          <6> SUFFICES ASSUME p.step = "HEADER_NAME" PROVE t = "COLON"  OBVIOUS
          <6>1. pos[c] > 0 /\ s[pos[c]] = "host"  BY DEF Pending
          <6>2. pos[c] \in HostAt(s)  BY <1>1, <6>1 DEF HostAt
          <6> QED  BY <1>7, <2>6, <6>2 DEF TwoLines
        <5> QED  BY <2>2, <2>5, <5>1 DEF Pending, ValueSteps
      <4> QED  BY <1>4, <2>2, <2>6, <4>1, <4>2
    <3> QED  BY <3>1, <3>2
  <2> QED  BY <1>4, <1>6, <2>2, <2>3, <2>4, <2>6
<1> QED  BY <1>5, <1>12, <1>13, <1>14 DEF Before, FirstLineSteps, ValueSteps

(* At first there is no Host header to lose.                               *)
LEMMA InitHosts == Init => \A c \in Conns : HostTracked(c)
<1> SUFFICES ASSUME Init, NEW c \in Conns PROVE HostTracked(c)  OBVIOUS
<1>1. /\ pos[c] = 0 /\ ~parser[c].checked /\ parser[c].step = "INIT"
      /\ parser[c].headers = <<>> /\ parser[c].name = <<>> /\ parser[c].last = <<>>
  BY DEF Init, Fresh
<1>2. {k \in HostAt(input[c]) : k <= pos[c]} = {}  BY <1>1 DEF HostAt
<1>3. NoHost(parser[c])  BY <1>1 DEF NoHost
<1> QED  BY <1>1, <1>2, <1>3 DEF HostTracked, Pending

(* Whatever leaves a parser and its place in the bytes alone.              *)
LEMMA UntouchedHosts ==
  ASSUME NEW c \in Conns, HostTracked(c), UNCHANGED <<sent, input>>,
         parser'[c] = parser[c], pos'[c] = pos[c]
  PROVE  HostTracked(c)'
BY DEF HostTracked, Pending

(* The end of a read loses no Host header.                                 *)
LEMMA EndReadHosts ==
  ASSUME TypeOK, NEW c \in Conns, InStep(c), HostTracked(c), EndRead(c)
  PROVE  HostTracked(c)'
<1>1. CASE parser[c].step = "BODY_LENGTH_END"
  <2>1. parser[c].checked  BY <1>1 DEF InStep, Sound, Before, Measured
  <2>2. parser'[c] = [parser[c] EXCEPT !.step = "END"]
    BY <1>1 DEF EndRead, TypeOK
  <2>3. parser'[c].status = parser[c].status /\ sent' = sent
    BY <2>2 DEF EndRead, TypeOK, ParserType
  <2>4. ~(sent[c].crlf /\ sent[c].hosts # 1 /\ parser[c].status = 0)
    BY <2>1 DEF HostTracked
  <2> QED  BY <2>3, <2>4 DEF HostTracked
<1>2. CASE parser[c].step # "BODY_LENGTH_END"
  BY <1>2, UntouchedHosts DEF EndRead
<1> QED  BY <1>1, <1>2

(* No step loses a Host header.                                            *)
LEMMA NextHosts ==
  ASSUME TypeOK, TypeOK', SentStays, \A c \in Conns : InStep(c) /\ InStep(c)',
         \A c \in Conns : HostTracked(c), [Next]_vars
  PROVE  \A c \in Conns : HostTracked(c)'
<1> SUFFICES ASSUME NEW c \in Conns PROVE HostTracked(c)'  OBVIOUS
<1>1. sent' = sent /\ input' = input
  BY DEF Next, vars, StartRead, ParseByte, EndRead
<1>2. CASE ParseByte(c)  BY <1>2, ParseByteHosts
<1>3. CASE EndRead(c)  BY <1>3, EndReadHosts
<1>4. CASE ~(ParseByte(c) \/ EndRead(c))
  <2>1. parser'[c] = parser[c] /\ pos'[c] = pos[c]
    <3>1. CASE UNCHANGED vars  BY <3>1 DEF vars
    <3>2. ASSUME NEW d \in Conns, StartRead(d) \/ ParseByte(d) \/ EndRead(d)
          PROVE  parser'[c] = parser[c] /\ pos'[c] = pos[c]
      <4>1. CASE StartRead(d)  BY <4>1 DEF StartRead
      <4>2. CASE (ParseByte(d) \/ EndRead(d)) /\ d # c
        BY <4>2 DEF ParseByte, EndRead, TypeOK
      <4> QED  BY <1>4, <3>2, <4>1, <4>2
    <3> QED  BY <3>1, <3>2 DEF Next
  <2> QED  BY <1>1, <2>1, UntouchedHosts
<1> QED  BY <1>2, <1>3, <1>4

(* A request whose lines end in CRLF is accepted only with exactly one     *)
(* Host header, however its bytes were cut into reads and whatever the     *)
(* other connections' bytes do to the static flags of the parser.          *)
THEOREM HostIsMandatory == Spec => []HostMandatory
<1> DEFINE Inv == TypeOK /\ SentStays /\ \A c \in Conns : InStep(c)
           Hosts == \A c \in Conns : HostTracked(c)
<1>1. Init => Hosts  BY InitHosts
<1>2. Inv /\ Inv' /\ Hosts /\ [Next]_vars => Hosts'  BY NextHosts
<1>3. Inv /\ Hosts => HostMandatory
  <2> SUFFICES ASSUME Inv, Hosts, NEW c \in Conns, Accepted(c), sent[c].crlf
               PROVE  sent[c].hosts = 1
    BY DEF HostMandatory
  <2>1. parser[c].checked  BY DEF Accepted, InStep, Sound
  <2> QED  BY <2>1 DEF Accepted, HostTracked
<1> HIDE DEF Inv, Hosts
<1>4. Spec => []Inv  BY Invariant DEF Inv
<1> QED  BY <1>1, <1>2, <1>3, <1>4, PTL DEF Spec
=============================================================================
