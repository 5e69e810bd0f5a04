------------------------- MODULE RequestParserWhole -------------------------
(***************************************************************************)
(* A well-formed request is understood: whatever reads its bytes come in,  *)
(* whatever other requests are parsed in between, it is never refused, it  *)
(* is ready with its last byte and not before, and its body is its payload *)
(* (UnderstoodAlways, ReadyAlways).  By ParsedAlone only the parser of one *)
(* request alone matters (Parsed), so the request is followed to its last  *)
(* two bytes: what happens there says what happened before, since a parser *)
(* that has ended stays as it is (EndStays).                               *)
(***************************************************************************)
EXTENDS RequestParserCuts

(* The requests that WellFormedUnderstood is about.                        *)
Understood(r) == WellFormed(r) /\ (EndHidden(r) => r.payload < MaxBody)

(***************************************************************************)
(* The parser in a chunked body                                            *)
(***************************************************************************)

(* A chunk size of one digit is what it counts.                            *)
LEMMA OneHexDigit == \A d \in Digits : ToSize(<<d>>) = DigitValue[d]
<1> TAKE d \in Digits
<1>1. SizeMod - 1 \in Sizes /\ 0 \in Sizes  BY ParserAssumption DEF Sizes
<1>2. HexStep \in [Digits -> [Sizes -> Sizes]]
  <2>1. \A e \in Digits, n \in Sizes : (n * 16 + DigitValue[e]) % SizeMod \in Sizes
    BY DigitValues, ParserAssumption DEF Sizes
  <2> QED  BY <2>1 DEF HexStep
<1>3. <<d>> \in Seq(Digits) /\ Len(<<d>>) = 1 /\ <<d>>[1] = d  OBVIOUS
<1>4. ToSize(<<d>>) = HexStep[d][0]  BY <1>2, <1>3, ConvertGivesSize DEF ToSize
<1>5. DigitValue[d] \in 0..3 /\ 0 * 16 + DigitValue[d] = DigitValue[d]  BY DigitValues
<1>6. HexStep[d][0] = DigitValue[d] % SizeMod  BY <1>1, <1>5 DEF HexStep
<1>7. \A n \in 0..3 : n % SizeMod = n  BY ParserAssumption
<1> QED  BY <1>4, <1>5, <1>6, <1>7

(* The digit of a number of bytes counts them.                             *)
LEMMA DigitCounts ==
  \A n \in 0..3 : /\ DigitOf[n] \in Digits /\ DigitValue[DigitOf[n]] = n
                  /\ DigitOf[n] = "0" <=> n = 0
  BY DEF DigitOf, DigitValue, Digits

(* The parser after its checks, with what it knows of the current chunk    *)
(* and n bytes of body.                                                    *)
Framed(p, step, digits, size, read, n) ==
  /\ p.step = step /\ p.checked /\ p.status = 0
  /\ p.chunkDigits = digits /\ p.chunkSize = size /\ p.chunkRead = read /\ Len(p.body) = n

(* The tokens of a chunk's first line up to its end.                       *)
LEMMA SizeTurns ==
  ASSUME NEW p \in ParserType, NEW d \in Digits, NEW size, NEW read, NEW n
  PROVE  /\ Framed(p, "CHUNK_SIZE", <<>>, size, read, n) =>
              Framed(Turn(p, d), "CHUNK_SIZE", <<d>>, size, read, n)
         /\ Framed(p, "CHUNK_SIZE", <<d>>, size, read, n) =>
              /\ Framed(Turn(p, "CR"), IF DigitValue[d] = 0 THEN "CR_CHUNK_END" ELSE "CR_CHUNK_SIZE",
                        <<>>, DigitValue[d], 0, n)
              /\ Framed(Turn(p, "SEMICOLON"), "CHUNK_PARAMETERS", <<>>, DigitValue[d], 0, n)
<1>1. \A t : p.step = "CHUNK_SIZE" => Turn(p, t) = ChunkSize(p, t)
  BY DEF Turn, Dispatch, AfterCr
<1>2. d \notin {"CR", "LF", "SEMICOLON"}  BY DEF Digits
<1>3. ASSUME Framed(p, "CHUNK_SIZE", <<>>, size, read, n)
      PROVE  Framed(Turn(p, d), "CHUNK_SIZE", <<d>>, size, read, n)
  <2>1. Turn(p, d) = [p EXCEPT !.chunkDigits = Append(@, d)]
    BY <1>1, <1>2, <1>3 DEF Framed, ChunkSize
  <2>2. p.chunkDigits = <<>> /\ Append(<<>>, d) = <<d>>  BY <1>3 DEF Framed
  <2> QED  BY <1>3, <2>1, <2>2 DEF Framed, ParserType
<1>4. ASSUME Framed(p, "CHUNK_SIZE", <<d>>, size, read, n)
      PROVE  /\ Framed(Turn(p, "CR"), IF DigitValue[d] = 0 THEN "CR_CHUNK_END" ELSE "CR_CHUNK_SIZE",
                       <<>>, DigitValue[d], 0, n)
             /\ Framed(Turn(p, "SEMICOLON"), "CHUNK_PARAMETERS", <<>>, DigitValue[d], 0, n)
  <2> DEFINE v == DigitValue[d]
             Sized(step) == [p EXCEPT !.step = step, !.chunkSize = v, !.chunkRead = 0,
                                      !.chunkDigits = <<>>]
  <2>1. p.step = "CHUNK_SIZE" /\ ToSize(p.chunkDigits) = v  BY <1>4, OneHexDigit DEF Framed
  <2>2. ChunkSize(p, "CR") = Sized(IF v = 0 THEN "CR_CHUNK_END" ELSE "CR_CHUNK_SIZE")
    <3> HIDE DEF v
    <3> QED  BY <2>1 DEF ChunkSize, Digits
  <2>3. ChunkSize(p, "SEMICOLON") = Sized("CHUNK_PARAMETERS")
    <3> HIDE DEF v
    <3> QED  BY <2>1 DEF ChunkSize, Digits
  <2>4. \A step : Framed(Sized(step), step, <<>>, v, 0, n)
    <3> HIDE DEF v
    <3> QED  BY <1>4 DEF Framed, ParserType
  <2> HIDE DEF v, Sized
  <2>5. /\ Framed(Turn(p, "CR"), IF v = 0 THEN "CR_CHUNK_END" ELSE "CR_CHUNK_SIZE", <<>>, v, 0, n)
        /\ Framed(Turn(p, "SEMICOLON"), "CHUNK_PARAMETERS", <<>>, v, 0, n)
    BY <1>1, <2>1, <2>2, <2>3, <2>4
  <2> QED  BY <2>5 DEF v
<1> QED  BY <1>3, <1>4

(* The other tokens between the chunks.                                    *)
LEMMA FrameTurns ==
  ASSUME NEW p \in ParserType, NEW size, NEW read, NEW n
  PROVE  /\ Framed(p, "CHUNK_PARAMETERS", <<>>, size, read, n) =>
              /\ Turn(p, "v") = p
              /\ Framed(Turn(p, "CR"), "CR_CHUNK_SIZE", <<>>, size, read, n)
         /\ Framed(p, "CR_CHUNK_SIZE", <<>>, size, read, n) =>
              Framed(Turn(p, "LF"), "CHUNK_DATA", <<>>, size, read, n)
         /\ Framed(p, "CHUNK_DATA_END", <<>>, size, read, n) =>
              Framed(Turn(p, "CR"), "CR_CHUNK_DATA", <<>>, size, read, n)
         /\ Framed(p, "CR_CHUNK_DATA", <<>>, size, read, n) =>
              Framed(Turn(p, "LF"), "CHUNK_SIZE", <<>>, size, read, n)
         /\ Framed(p, "CR_CHUNK_END", <<>>, size, read, n) =>
              Framed(Turn(p, "LF"), "CHUNK_END", <<>>, size, read, n)
         /\ Framed(p, "CHUNK_END", <<>>, size, read, n) =>
              Framed(Turn(p, "CR"), "SECOND_CR_CHUNK_END", <<>>, size, read, n)
         /\ Framed(p, "SECOND_CR_CHUNK_END", <<>>, size, read, n) =>
              Framed(Turn(p, "LF"), "END", <<>>, size, read, n)
<1> DEFINE F(x, step) == Framed(x, step, <<>>, size, read, n)
<1>1. \A a, b : F(p, a) => F(Goto(p, b), b)  BY DEF Framed, Goto, ParserType
<1>2. \A a : F(p, a) => p.step = a  BY DEF Framed
<1>3. p.step \in DOMAIN AfterCr \ {"SECOND_CR_HEADER"} =>
        Turn(p, "LF") = Goto(p, AfterCr[p.step])
  <2> SUFFICES ASSUME p.step \in DOMAIN AfterCr \ {"SECOND_CR_HEADER"}
               PROVE  Turn(p, "LF") = Goto(p, AfterCr[p.step])
    OBVIOUS
  <2>1. p.step # "END" /\ Turn(p, "LF") = CheckCrlf(p, "LF")
    BY DEF AfterCr, Turn, Dispatch
  <2> QED  BY <2>1 DEF CheckCrlf
<1>4. \A t : /\ p.step = "CHUNK_PARAMETERS" => Turn(p, t) = ChunkParameters(p, t)
             /\ p.step = "CHUNK_DATA_END" =>
                  Turn(p, t) = ChunkLineEnd(p, t, "CR_CHUNK_DATA", "CHUNK_SIZE")
             /\ p.step = "CHUNK_END" =>
                  Turn(p, t) = ChunkLineEnd(p, t, "SECOND_CR_CHUNK_END", "END")
  BY DEF Turn, Dispatch, AfterCr
<1> HIDE DEF F
<1>5. F(p, "CHUNK_PARAMETERS") => Turn(p, "v") = p /\ F(Turn(p, "CR"), "CR_CHUNK_SIZE")
  BY <1>1, <1>2, <1>4 DEF ChunkParameters
<1>6. F(p, "CR_CHUNK_SIZE") => F(Turn(p, "LF"), "CHUNK_DATA")
  BY <1>1, <1>2, <1>3 DEF AfterCr
<1>7. F(p, "CHUNK_DATA_END") => F(Turn(p, "CR"), "CR_CHUNK_DATA")
  BY <1>1, <1>2, <1>4 DEF ChunkLineEnd
<1>8. F(p, "CR_CHUNK_DATA") => F(Turn(p, "LF"), "CHUNK_SIZE")
  BY <1>1, <1>2, <1>3 DEF AfterCr
<1>9. F(p, "CR_CHUNK_END") => F(Turn(p, "LF"), "CHUNK_END")
  BY <1>1, <1>2, <1>3 DEF AfterCr
<1>10. F(p, "CHUNK_END") => F(Turn(p, "CR"), "SECOND_CR_CHUNK_END")
  BY <1>1, <1>2, <1>4 DEF ChunkLineEnd
<1>11. F(p, "SECOND_CR_CHUNK_END") => F(Turn(p, "LF"), "END")
  BY <1>1, <1>2, <1>3 DEF AfterCr
<1> QED  BY <1>5, <1>6, <1>7, <1>8, <1>9, <1>10, <1>11 DEF F

(* A byte of a chunk; and of what follows a last chunk with a hidden size. *)
LEMMA DataTurns ==
  ASSUME NEW p \in ParserType, NEW size \in Nat, NEW read \in Nat, NEW n \in Nat, n < MaxBody,
         Framed(p, "CHUNK_DATA", <<>>, size, read, n)
  PROVE  /\ read < size =>
              Framed(Turn(p, "x"), IF read + 1 = size THEN "CHUNK_DATA_END" ELSE "CHUNK_DATA",
                     <<>>, size, read + 1, n + 1)
         /\ size = 0 => \A t : Turn(p, t) = p
<1>1. /\ p.step = "CHUNK_DATA" /\ p.chunkSize = size /\ p.chunkRead = read /\ Len(p.body) = n
      /\ p.chunkDigits = <<>> /\ p.checked /\ p.status = 0
  BY DEF Framed
<1>2. \A t : Turn(p, t) = ChunkData(p, t)  BY <1>1 DEF Turn, Dispatch, AfterCr
<1>3. MaxBody \in Nat /\ Len(p.body) # MaxBody  BY <1>1, ParserAssumption
<1>4. ASSUME read < size
      PROVE  Framed(Turn(p, "x"), IF read + 1 = size THEN "CHUNK_DATA_END" ELSE "CHUNK_DATA",
                    <<>>, size, read + 1, n + 1)
  <2> DEFINE step == IF read + 1 = size THEN "CHUNK_DATA_END" ELSE "CHUNK_DATA"
             q == [p EXCEPT !.body = Append(@, "x"), !.chunkRead = @ + 1, !.step = step]
  <2>1. ChunkData(p, "x") = q  BY <1>1, <1>3, <1>4 DEF ChunkData
  <2>2. Len(Append(p.body, "x")) = n + 1
    <3>1. p.body \in Seq(Token)  BY DEF ParserType
    <3> QED  BY <1>1, <3>1
  <2>3. /\ q.step = step /\ q.body = Append(p.body, "x") /\ q.chunkRead = read + 1
        /\ q.chunkSize = size /\ q.chunkDigits = <<>> /\ q.checked /\ q.status = 0
    BY <1>1 DEF ParserType
  <2> HIDE DEF q
  <2> QED  BY <1>2, <2>1, <2>2, <2>3 DEF Framed
<1>5. ASSUME size = 0 PROVE \A t : Turn(p, t) = p
  <2>1. ~(p.chunkRead < p.chunkSize)  BY <1>1, <1>5
  <2> QED  BY <1>2, <1>3, <2>1 DEF ChunkData
<1> QED  BY <1>4, <1>5

(***************************************************************************)
(* A parser that has ended                                                 *)
(***************************************************************************)

(* The parser of one request alone agrees with itself after every byte.    *)
LEMMA AlwaysSound ==
  ASSUME NEW s \in Seq(Token)
  PROVE  \A k \in 0..Len(s) : Sound(Parsed(s)[k])
<1> DEFINE T == Parsed(s)
           S == {k \in 0..Len(s) : Sound(T[k])}
<1>1. 0 \in S
  <2>1. T[0] = Fresh /\ 0 \in 0..Len(s)  BY ParsedSteps
  <2>2. Sound(Fresh)  BY DEF Fresh, Sound, Before, Measured, InChunks
  <2> QED  BY <2>1, <2>2
<1>2. \A k \in 0..Len(s) - 1 : k \in S => k + 1 \in S
  <2> SUFFICES ASSUME NEW k \in 0..Len(s) - 1, k \in S PROVE k + 1 \in S  OBVIOUS
  <2>1. k \in Nat /\ k < Len(s) /\ k + 1 \in 0..Len(s)  OBVIOUS
  <2>2. T[k] \in ParserType /\ T[k + 1] = Turn(T[k], s[k + 1])  BY <2>1, Along
  <2>3. Sound(T[k])  OBVIOUS
  <2> HIDE DEF T, S
  <2>4. Sound(T[k + 1])
    <3>1. CASE T[k].step = "END"
      <4>1. T[k + 1] = T[k]  BY <2>2, <3>1 DEF Turn
      <4> QED  BY <2>3, <4>1
    <3>2. CASE T[k].step # "END"
      <4>1. T[k + 1] = Dispatch(T[k], s[k + 1], T[k].uri = <<>>, T[k].protocol = <<>>)
        BY <2>2, <3>2 DEF Turn
      <4> QED  BY <2>2, <2>3, <3>2, <4>1, DispatchSound
    <3> QED  BY <3>1, <3>2
  <2> QED  BY <2>1, <2>4 DEF S
<1> HIDE DEF S
<1>a. 0 \in Nat /\ Len(s) \in Nat  OBVIOUS
<1>3. \A k \in 0..Len(s) : k \in S  BY <1>a, <1>1, <1>2, Counting
<1> QED  BY <1>3 DEF S

(* A parser that has ended stays as it is.                                 *)
LEMMA EndStays ==
  ASSUME NEW s \in Seq(Token), NEW j \in 0..Len(s), Parsed(s)[j].step = "END"
  PROVE  \A k \in j..Len(s) : Parsed(s)[k] = Parsed(s)[j]
<1> DEFINE T == Parsed(s)
           S == {k \in j..Len(s) : T[k] = T[j]}
<1>1. j \in S /\ Len(s) \in Nat /\ j \in Nat  OBVIOUS
<1>2. \A k \in j..Len(s) - 1 : k \in S => k + 1 \in S
  <2> SUFFICES ASSUME NEW k \in j..Len(s) - 1, k \in S PROVE k + 1 \in S  OBVIOUS
  <2>1. k \in Nat /\ k < Len(s) /\ k + 1 \in j..Len(s)  BY <1>1
  <2>2. T[k + 1] = Turn(T[k], s[k + 1])  BY <2>1, Along
  <2>3. T[k + 1] = T[k]  BY <2>2 DEF Turn
  <2> QED  BY <2>1, <2>3
<1> HIDE DEF S
<1>3. \A k \in j..Len(s) : k \in S  BY <1>1, <1>2, Counting
<1> QED  BY <1>3 DEF S

(* Without an error after the last byte there was none before; and a       *)
(* parser that has not ended after the last byte but one had not before.   *)
LEMMA Backwards ==
  ASSUME NEW s \in Seq(Token), s # <<>>,
         Parsed(s)[Len(s) - 1].step # "END", Parsed(s)[Len(s)].status = 0
  PROVE  /\ \A k \in 0..Len(s) : Parsed(s)[k].status = 0
         /\ \A k \in 0..Len(s) - 1 : Parsed(s)[k].step # "END"
<1> DEFINE T == Parsed(s)
           N == Len(s)
<1>1. N \in Nat /\ N - 1 \in 0..N /\ N # 0
  <2>1. Len(s) # 0  OBVIOUS
  <2> QED  BY <2>1
<1>2. \A k \in 0..N - 1 : T[k].step # "END"
  <2> SUFFICES ASSUME NEW k \in 0..N - 1, T[k].step = "END" PROVE FALSE  OBVIOUS
  <2>1. k \in 0..N /\ N - 1 \in k..N  BY <1>1
  <2>2. T[N - 1] = T[k]  BY <2>1, EndStays
  <2> QED  BY <2>2
<1>3. \A k \in 0..N : T[k].status = 0
  <2> SUFFICES ASSUME NEW k \in 0..N PROVE T[k].status = 0  OBVIOUS
  <2>1. CASE k = N  BY <2>1
  <2>2. CASE k # N
    <3>1. k \in 0..N - 1  BY <1>1, <2>2
    <3>2. Sound(T[k])  BY AlwaysSound
    <3> QED  BY <1>2, <3>1, <3>2 DEF Sound
  <2> QED  BY <2>1, <2>2
<1> QED  BY <1>2, <1>3

(***************************************************************************)
(* The chunks of a well-formed request                                     *)
(***************************************************************************)

(* Two tokens among the bytes.                                             *)
LEMMA PairAt ==
  ASSUME NEW s \in Seq(Token), NEW j, NEW u, NEW v, At(s, j, <<u, v>>)
  PROVE  j \in Nat /\ j + 2 <= Len(s) /\ s[j + 1] = u /\ s[j + 2] = v
<1>1. Len(<<u, v>>) = 2 /\ <<u, v>>[1] = u /\ <<u, v>>[2] = v  OBVIOUS
<1>2. 1 \in 1..2 /\ 2 \in 1..2  OBVIOUS
<1>3. \A i \in 1..Len(<<u, v>>) : s[j + i] = <<u, v>>[i]  BY DEF At
<1>4. \A i \in 1..2 : s[j + i] = <<u, v>>[i]  BY <1>1, <1>3
<1>5. j \in Nat /\ j + 2 <= Len(s)  BY <1>1 DEF At
<1> QED  BY <1>1, <1>2, <1>4, <1>5

(* One part after the other.                                               *)
LEMMA Split ==
  \A s, a, b \in Seq(Token) : \A k \in Nat :
    At(s, k, a \o b) => At(s, k, a) /\ At(s, k + Len(a), b)
  BY AtSplit

(* Three parts, one after the other.                                       *)
LEMMA ThreeParts ==
  ASSUME NEW s \in Seq(Token), NEW k \in Nat, NEW a \in Seq(Token), NEW x \in Seq(Token),
         NEW e \in Seq(Token), At(s, k, (a \o x) \o e)
  PROVE  At(s, k, a) /\ At(s, k + Len(a), x) /\ At(s, (k + Len(a)) + Len(x), e)
<1>1. /\ a \o x \in Seq(Token) /\ Len(a \o x) = Len(a) + Len(x)
      /\ Len(a) \in Nat /\ Len(x) \in Nat
  BY Joined
<1>2. At(s, k, a \o x) /\ At(s, k + Len(a \o x), e)  BY <1>1, Split
<1>3. At(s, k, a) /\ At(s, k + Len(a), x)  BY <1>2, Split
<1>4. k + Len(a \o x) = (k + Len(a)) + Len(x)  BY <1>1
<1> QED  BY <1>2, <1>3, <1>4

(* The parts of a line among the bytes: a token, a text, an end of two.    *)
LEMMA LineParts ==
  ASSUME NEW s \in Seq(Token), NEW k \in Nat, NEW a \in Seq(Token), NEW x \in Seq(Token),
         NEW e \in Seq(Token), Len(a) = 1, Len(e) = 2, At(s, k, (a \o x) \o e)
  PROVE  /\ s[k + 1] = a[1] /\ At(s, k + 1, x)
         /\ At(s, (k + 1) + Len(x), e) /\ Len((a \o x) \o e) = Len(x) + 3
<1>1. At(s, k, a) /\ At(s, k + Len(a), x) /\ At(s, (k + Len(a)) + Len(x), e)
  BY ThreeParts
<1>2. s[k + 1] = a[1]
  <2>1. \A i \in 1..1 : s[k + i] = a[i]  BY <1>1 DEF At
  <2> QED  BY <2>1
<1>3. Len((a \o x) \o e) = Len(x) + 3
  <2>1. a \o x \in Seq(Token)  OBVIOUS
  <2>2. Len(a \o x) = Len(a) + Len(x)  BY Joined
  <2>3. Len((a \o x) \o e) = Len(a \o x) + Len(e)  BY <2>1, Joined
  <2>4. Len(x) \in Nat  OBVIOUS
  <2> QED  BY <2>2, <2>3, <2>4
<1>4. At(s, k + 1, x) /\ At(s, (k + 1) + Len(x), e)  BY <1>1
<1> QED  BY <1>2, <1>3, <1>4

(* The first line of a chunk of m bytes.                                   *)
LEMMA ChunkLineTurns ==
  ASSUME NEW r \in Request, r.crlf, NEW s \in Seq(Token), NEW k, NEW m \in 0..3, NEW where,
         NEW size, NEW read, NEW n,
         At(s, k, ChunkLine(r, m, where)),
         Framed(Parsed(s)[k], "CHUNK_SIZE", <<>>, size, read, n)
  PROVE  LET e == k + Len(ChunkLine(r, m, where))
         IN /\ e \in 0..Len(s)
            /\ Framed(Parsed(s)[e],
                      IF m = 0 /\ r.ext # where THEN "CHUNK_END" ELSE "CHUNK_DATA", <<>>, m, 0, n)
<1> DEFINE T == Parsed(s)
           l == ChunkLine(r, m, where)
           d == DigitOf[m]
           a == <<d>>
           e == <<"CR", "LF">>
<1>1. d \in Digits /\ DigitValue[d] = m  BY DigitCounts
<1>2. \A i \in Nat : i < Len(s) => /\ T[i] \in ParserType
                                   /\ T[i + 1] = Turn(T[i], s[i + 1])
  BY Along
<1>3. k \in Nat /\ Len(s) \in Nat  BY DEF At
<1>6. At(s, k, l)  OBVIOUS
<1>a. a[1] = d  OBVIOUS
<1>7. a \in Seq(Token) /\ Len(a) = 1
  <2>1. d \in Token  BY <1>1, TokenKinds
  <2> HIDE DEF d
  <2> QED  BY <2>1
<1>8. e \in Seq(Token) /\ Len(e) = 2
  <2>1. {"CR", "LF"} \subseteq Token  BY DEF Token, Controls
  <2> QED  BY <2>1
<1>4. CASE r.ext # where
  <2> DEFINE x == <<>>
  <2>1. l = (a \o x) \o e  BY <1>4 DEF ChunkLine, Eol
  <2>a. x \in Seq(Token)  OBVIOUS
  <2>0. Len(x) = 0  OBVIOUS
  <2> HIDE DEF T, l, d, x, a, e
  <2>f. At(s, k, (a \o x) \o e)  BY <1>6, <2>1
  <2>h. /\ s[k + 1] = a[1] /\ At(s, k + 1, x) /\ At(s, (k + 1) + Len(x), e)
        /\ Len((a \o x) \o e) = Len(x) + 3
    BY <1>3, <1>7, <1>8, <2>a, <2>f, LineParts
  <2>2. /\ s[k + 1] = d /\ At(s, (k + 1) + Len(x), e) /\ Len((a \o x) \o e) = Len(x) + 3
    BY <1>a, <2>h
  <2>g. Len(l) = 3  BY <2>0, <2>1, <2>2
  <2>b. (k + 1) + Len(x) = k + 1  BY <1>3, <2>0
  <2>c. /\ (k + 1) + 2 <= Len(s) /\ s[(k + 1) + 1] = "CR" /\ s[(k + 1) + 2] = "LF"
    BY <2>2, <2>b, PairAt DEF e
  <2>3. /\ k + Len(l) = k + 3 /\ k + 3 <= Len(s) /\ k < Len(s)
        /\ k + 1 \in Nat /\ k + 1 < Len(s) /\ (k + 1) + 1 = k + 2 /\ (k + 1) + 2 = k + 3
        /\ k + 2 \in Nat /\ k + 2 < Len(s) /\ (k + 2) + 1 = k + 3 /\ k + 3 \in 0..Len(s)
    BY <1>3, <2>g, <2>b, <2>c
  <2>4. s[k + 1] = d /\ s[k + 2] = "CR" /\ s[k + 3] = "LF"
    BY <2>2, <2>3, <2>c
  <2>5. /\ T[k] \in ParserType /\ T[k + 1] \in ParserType /\ T[k + 2] \in ParserType
        /\ T[k + 1] = Turn(T[k], d) /\ T[k + 2] = Turn(T[k + 1], "CR")
        /\ T[k + 3] = Turn(T[k + 2], "LF")
    BY <1>2, <1>3, <2>3, <2>4
  <2>6. Framed(T[k], "CHUNK_SIZE", <<>>, size, read, n)  BY DEF T
  <2>7. Framed(T[k + 1], "CHUNK_SIZE", <<d>>, size, read, n)  BY <1>1, <2>5, <2>6, SizeTurns
  <2>8. Framed(T[k + 2], IF m = 0 THEN "CR_CHUNK_END" ELSE "CR_CHUNK_SIZE", <<>>, m, 0, n)
    BY <1>1, <2>5, <2>7, SizeTurns
  <2>9. Framed(T[k + 3], IF m = 0 THEN "CHUNK_END" ELSE "CHUNK_DATA", <<>>, m, 0, n)
    <3>1. CASE m = 0  BY <2>5, <2>8, <3>1, FrameTurns
    <3>2. CASE m # 0  BY <2>5, <2>8, <3>2, FrameTurns
    <3> QED  BY <3>1, <3>2
  <2> QED  BY <1>4, <2>3, <2>9 DEF T, l
<1>5. CASE r.ext = where
  <2> DEFINE x == <<"SEMICOLON", "v">>
  <2>1. l = (a \o x) \o e  BY <1>5 DEF ChunkLine, Eol
  <2>a. x \in Seq(Token) /\ Len(x) = 2
    <3>1. {"SEMICOLON", "v"} \subseteq Token  BY DEF Token, Separators, Words
    <3> QED  BY <3>1
  <2>d. x = <<"SEMICOLON", "v">>  OBVIOUS
  <2> HIDE DEF T, l, d, x, a, e
  <2>f. At(s, k, (a \o x) \o e)  BY <1>6, <2>1
  <2>2. /\ s[k + 1] = d /\ At(s, k + 1, x) /\ At(s, (k + 1) + Len(x), e)
        /\ Len((a \o x) \o e) = Len(x) + 3
    BY <1>3, <1>7, <1>8, <1>a, <2>a, <2>f, LineParts
  <2>g. Len(l) = 5  BY <2>1, <2>2, <2>a
  <2>b. (k + 1) + Len(x) = k + 3  BY <1>3, <2>a
  <2>c. /\ (k + 3) + 2 <= Len(s) /\ s[(k + 3) + 1] = "CR" /\ s[(k + 3) + 2] = "LF"
    BY <2>2, <2>b, PairAt DEF e
  <2>e. s[(k + 1) + 1] = "SEMICOLON" /\ s[(k + 1) + 2] = "v"
    BY <2>2, <2>d, PairAt
  <2>3. /\ k + Len(l) = k + 5 /\ k + 5 <= Len(s) /\ k < Len(s) /\ k + 5 \in 0..Len(s)
        /\ k + 1 \in Nat /\ k + 1 < Len(s) /\ (k + 1) + 1 = k + 2
        /\ k + 2 \in Nat /\ k + 2 < Len(s) /\ (k + 2) + 1 = k + 3
        /\ k + 3 \in Nat /\ k + 3 < Len(s) /\ (k + 3) + 1 = k + 4
        /\ k + 4 \in Nat /\ k + 4 < Len(s) /\ (k + 4) + 1 = k + 5
        /\ (k + 1) + 2 = k + 3 /\ (k + 3) + 2 = k + 5
    BY <1>3, <2>g, <2>b, <2>c
  <2>4. /\ s[k + 1] = d /\ s[k + 2] = "SEMICOLON" /\ s[k + 3] = "v"
        /\ s[k + 4] = "CR" /\ s[k + 5] = "LF"
    BY <2>2, <2>3, <2>c, <2>e
  <2>5. /\ T[k] \in ParserType /\ T[k + 1] \in ParserType /\ T[k + 2] \in ParserType
        /\ T[k + 3] \in ParserType /\ T[k + 4] \in ParserType
        /\ T[k + 1] = Turn(T[k], d) /\ T[k + 2] = Turn(T[k + 1], "SEMICOLON")
        /\ T[k + 3] = Turn(T[k + 2], "v") /\ T[k + 4] = Turn(T[k + 3], "CR")
        /\ T[k + 5] = Turn(T[k + 4], "LF")
    BY <1>2, <1>3, <2>3, <2>4
  <2>6. Framed(T[k], "CHUNK_SIZE", <<>>, size, read, n)  BY DEF T
  <2>7. Framed(T[k + 1], "CHUNK_SIZE", <<d>>, size, read, n)  BY <1>1, <2>5, <2>6, SizeTurns
  <2>8. Framed(T[k + 2], "CHUNK_PARAMETERS", <<>>, m, 0, n)  BY <1>1, <2>5, <2>7, SizeTurns
  <2>9. Framed(T[k + 3], "CHUNK_PARAMETERS", <<>>, m, 0, n)
    <3>1. Turn(T[k + 2], "v") = T[k + 2]  BY <2>5, <2>8, FrameTurns
    <3> QED  BY <2>5, <2>8, <3>1
  <2>10. Framed(T[k + 4], "CR_CHUNK_SIZE", <<>>, m, 0, n)  BY <2>5, <2>9, FrameTurns
  <2>11. Framed(T[k + 5], "CHUNK_DATA", <<>>, m, 0, n)  BY <2>5, <2>10, FrameTurns
  <2> QED  BY <1>5, <2>3, <2>11 DEF T, l
<1> QED  BY <1>4, <1>5

(* The bytes of a chunk within the limit.                                  *)
LEMMA PayloadTurns ==
  ASSUME NEW s \in Seq(Token), NEW k, NEW m \in Nat \ {0}, m <= MaxBody,
         At(s, k, Times(m, "x")), Framed(Parsed(s)[k], "CHUNK_DATA", <<>>, m, 0, 0)
  PROVE  k + m \in 0..Len(s) /\ Framed(Parsed(s)[k + m], "CHUNK_DATA_END", <<>>, m, m, m)
<1> DEFINE T == Parsed(s)
           Step(i) == IF i = m THEN "CHUNK_DATA_END" ELSE "CHUNK_DATA"
           S == {i \in 0..m : Framed(T[k + i], Step(i), <<>>, m, i, i)}
<1>1. Len(Times(m, "x")) = m /\ \A i \in 1..m : Times(m, "x")[i] = "x"
  BY DEF Times
<1>2. /\ k \in Nat /\ Len(s) \in Nat /\ k + m <= Len(s)
      /\ \A i \in 1..m : s[k + i] = "x"
  <2> DEFINE w == Times(m, "x")
  <2>1. /\ k \in Nat /\ k + Len(w) <= Len(s)
        /\ \A i \in 1..Len(w) : s[k + i] = w[i]
    BY DEF At
  <2>2. Len(w) = m /\ \A i \in 1..m : w[i] = "x"  BY <1>1
  <2> HIDE DEF w
  <2> QED  BY <2>1, <2>2
<1>3. 0 \in S
  <2>1. 0 \in 0..m /\ k + 0 = k /\ 0 # m  BY <1>2
  <2> QED  BY <2>1
<1>4. \A i \in 0..m - 1 : i \in S => i + 1 \in S
  <2> SUFFICES ASSUME NEW i \in 0..m - 1, i \in S PROVE i + 1 \in S  OBVIOUS
  <2>1. /\ i \in Nat /\ i < m /\ i < MaxBody /\ i # m /\ i + 1 \in 0..m /\ i + 1 \in 1..m
        /\ k + i \in Nat /\ k + i < Len(s) /\ (k + i) + 1 = k + (i + 1)
    BY <1>2, ParserAssumption
  <2>2. /\ T[k + i] \in ParserType /\ s[k + (i + 1)] = "x"
        /\ T[(k + i) + 1] = Turn(T[k + i], s[(k + i) + 1])
    BY <1>2, <2>1, Along
  <2>3. T[k + (i + 1)] = Turn(T[k + i], "x")  BY <2>1, <2>2
  <2>4. Framed(T[k + i], "CHUNK_DATA", <<>>, m, i, i)  BY <2>1
  <2> HIDE DEF T
  <2>5. Framed(Turn(T[k + i], "x"), Step(i + 1), <<>>, m, i + 1, i + 1)
    BY <2>1, <2>2, <2>4, DataTurns
  <2> QED  BY <2>1, <2>3, <2>5
<1>5. \A i \in 0..m : i \in S
  <2> HIDE DEF S
  <2> QED  BY <1>3, <1>4, Counting
<1>6. m \in 0..m /\ k + m \in 0..Len(s)  BY <1>2
<1>7. Framed(T[k + m], Step(m), <<>>, m, m, m)  BY <1>5, <1>6
<1> QED  BY <1>6, <1>7

(* The parts of the chunks are texts.                                      *)
LEMMA ChunkTypes ==
  ASSUME NEW r \in Request, r.crlf
  PROVE  /\ \A m \in 0..3, where \in {"first", "last"} : ChunkLine(r, m, where) \in Seq(Token)
         /\ Eol(r) = <<"CR", "LF">> /\ Eol(r) \in Seq(Token) /\ Len(Eol(r)) = 2
         /\ \A m \in Nat : Times(m, "x") \in Seq(Token) /\ Len(Times(m, "x")) = m
<1>1. {"CR", "LF", "SEMICOLON", "v", "x"} \subseteq Token
  BY DEF Token, Controls, Separators, Words, Payload
<1>2. Eol(r) = <<"CR", "LF">>  BY DEF Eol
<1>3. Eol(r) \in Seq(Token) /\ Len(Eol(r)) = 2  BY <1>1, <1>2
<1>4. ASSUME NEW m \in 0..3, NEW where \in {"first", "last"}
      PROVE  ChunkLine(r, m, where) \in Seq(Token)
  <2> DEFINE a == <<DigitOf[m]>>
             x == IF r.ext = where THEN <<"SEMICOLON", "v">> ELSE <<>>
  <2>1. a \in Seq(Token)
    <3>1. DigitOf[m] \in Token  BY DigitCounts, TokenKinds
    <3> QED  BY <3>1
  <2>2. x \in Seq(Token)
    <3>1. <<"SEMICOLON", "v">> \in Seq(Token)  BY <1>1
    <3>2. <<>> \in Seq(Token)  OBVIOUS
    <3> QED  BY <3>1, <3>2
  <2>3. ChunkLine(r, m, where) = (a \o x) \o Eol(r)  BY DEF ChunkLine
  <2> HIDE DEF a, x
  <2> QED  BY <1>3, <2>1, <2>2, <2>3
<1>5. ASSUME NEW m \in Nat PROVE Times(m, "x") \in Seq(Token) /\ Len(Times(m, "x")) = m
  BY <1>1, TimesType DEF Times
<1> QED  BY <1>2, <1>3, <1>4, <1>5

(* The last chunk and the end of the body, after n bytes of payload.       *)
LEMMA LastChunkTurns ==
  ASSUME NEW r \in Request, r.crlf, NEW s \in Seq(Token), NEW k \in Nat,
         NEW size, NEW read, NEW n \in Nat,
         At(s, k, ChunkLine(r, 0, "last")),
         At(s, k + Len(ChunkLine(r, 0, "last")), Eol(r)),
         Framed(Parsed(s)[k], "CHUNK_SIZE", <<>>, size, read, n)
  PROVE  LET e == (k + Len(ChunkLine(r, 0, "last"))) + 2
         IN /\ e \in 2..Len(s)
            /\ r.ext # "last" => /\ Parsed(s)[e - 1].step # "END"
                                 /\ Framed(Parsed(s)[e], "END", <<>>, 0, 0, n)
            /\ r.ext = "last" /\ n < MaxBody =>
                 /\ Parsed(s)[e - 1].step # "END"
                 /\ Framed(Parsed(s)[e], "CHUNK_DATA", <<>>, 0, 0, n)
<1> DEFINE T == Parsed(s)
           j == k + Len(ChunkLine(r, 0, "last"))
<1>1. 0 \in 0..3  OBVIOUS
<1>2. /\ j \in 0..Len(s)
      /\ Framed(T[j], IF r.ext # "last" THEN "CHUNK_END" ELSE "CHUNK_DATA", <<>>, 0, 0, n)
  BY <1>1, ChunkLineTurns
<1>3. j + 2 <= Len(s) /\ s[j + 1] = "CR" /\ s[j + 2] = "LF"
  <2>1. At(s, j, <<"CR", "LF">>)  BY ChunkTypes
  <2> HIDE DEF j
  <2> QED  BY <2>1, PairAt
<1> HIDE DEF j, T
<1>4. /\ j \in Nat /\ j < Len(s) /\ j + 1 \in Nat /\ j + 1 < Len(s) /\ (j + 1) + 1 = j + 2
      /\ j + 2 \in 2..Len(s) /\ (j + 2) - 1 = j + 1
  BY <1>2, <1>3
<1>5. /\ T[j] \in ParserType /\ T[j + 1] \in ParserType
      /\ T[j + 1] = Turn(T[j], "CR") /\ T[j + 2] = Turn(T[j + 1], "LF")
  <2>1. \A i \in Nat : i < Len(s) => T[i] \in ParserType /\ T[i + 1] = Turn(T[i], s[i + 1])
    BY Along DEF T
  <2> QED  BY <1>3, <1>4, <2>1
<1>6. ASSUME r.ext # "last"
      PROVE  T[(j + 2) - 1].step # "END" /\ Framed(T[j + 2], "END", <<>>, 0, 0, n)
  <2>1. Framed(T[j + 1], "SECOND_CR_CHUNK_END", <<>>, 0, 0, n)  BY <1>2, <1>5, <1>6, FrameTurns
  <2>2. Framed(T[j + 2], "END", <<>>, 0, 0, n)  BY <1>5, <2>1, FrameTurns
  <2>3. T[j + 1].step # "END"  BY <2>1 DEF Framed
  <2> QED  BY <1>4, <2>2, <2>3
<1>7. ASSUME r.ext = "last", n < MaxBody
      PROVE  T[(j + 2) - 1].step # "END" /\ Framed(T[j + 2], "CHUNK_DATA", <<>>, 0, 0, n)
  <2>1. Framed(T[j], "CHUNK_DATA", <<>>, 0, 0, n)  BY <1>2, <1>7
  <2>2. T[j + 1] = T[j]  BY <1>5, <1>7, <2>1, DataTurns
  <2>3. T[j + 2] = T[j + 1]  BY <1>5, <1>7, <2>1, <2>2, DataTurns
  <2>4. T[j + 1].step # "END"  BY <2>1, <2>2 DEF Framed
  <2> QED  BY <1>4, <2>1, <2>2, <2>3, <2>4
<1> QED  BY <1>4, <1>6, <1>7 DEF j, T

(* All the chunks of a payload within the limit.                           *)
LEMMA ChunksTurns ==
  ASSUME NEW r \in Request, r.crlf, r.payload <= MaxBody, NEW s \in Seq(Token), NEW k \in Nat,
         NEW size, NEW read, At(s, k, Chunks(r)),
         Framed(Parsed(s)[k], "CHUNK_SIZE", <<>>, size, read, 0)
  PROVE  LET e == k + Len(Chunks(r))
             n == r.payload
         IN /\ e \in 2..Len(s)
            /\ r.ext # "last" => /\ Parsed(s)[e - 1].step # "END"
                                 /\ Framed(Parsed(s)[e], "END", <<>>, 0, 0, n)
            /\ r.ext = "last" /\ n < MaxBody =>
                 /\ Parsed(s)[e - 1].step # "END"
                 /\ Framed(Parsed(s)[e], "CHUNK_DATA", <<>>, 0, 0, n)
<1> DEFINE T == Parsed(s)
           m == r.payload
           l == ChunkLine(r, 0, "last")
           e == Eol(r)
<1>1. l \in Seq(Token) /\ e \in Seq(Token) /\ Len(e) = 2  BY ChunkTypes
<1>2. m \in 0..3 /\ m \in Nat  BY DEF Request
<1>3. CASE m = 0
  <2>1. Chunks(r) = (<<>> \o l) \o e  BY <1>3 DEF Chunks
  <2> HIDE DEF l, e
  <2>2. <<>> \o l = l  BY <1>1
  <2>3. Chunks(r) = l \o e  BY <2>1, <2>2
  <2>4. At(s, k, l \o e)  BY <2>3
  <2>5. At(s, k, l) /\ At(s, k + Len(l), e)  BY <1>1, <2>4, Split
  <2>a. Len(l) \in Nat  BY <1>1
  <2>6. Len(l \o e) = Len(l) + Len(e)  BY <1>1, Joined
  <2>7. k + Len(Chunks(r)) = (k + Len(l)) + 2  BY <1>1, <2>3, <2>6, <2>a
  <2> DEFINE j == (k + Len(l)) + 2
  <2>8. /\ j \in 2..Len(s)
        /\ r.ext # "last" => /\ Parsed(s)[j - 1].step # "END"
                             /\ Framed(Parsed(s)[j], "END", <<>>, 0, 0, 0)
        /\ r.ext = "last" /\ 0 < MaxBody =>
             /\ Parsed(s)[j - 1].step # "END"
             /\ Framed(Parsed(s)[j], "CHUNK_DATA", <<>>, 0, 0, 0)
    <3>1. 0 \in Nat  OBVIOUS
    <3> QED  BY <2>5, <3>1, LastChunkTurns DEF l, e
  <2> HIDE DEF j
  <2>9. k + Len(Chunks(r)) = j  BY <2>7 DEF j
  <2> QED  BY <1>3, <2>8, <2>9
<1>4. CASE m # 0
  <2> DEFINE f == ChunkLine(r, m, "first")
             x == Times(m, "x")
             g == (f \o x) \o e
             j == k + Len(f)
  <2>1. Chunks(r) = (g \o l) \o e  BY <1>4 DEF Chunks
  <2>2. f \in Seq(Token) /\ x \in Seq(Token) /\ Len(x) = m  BY <1>2, ChunkTypes
  <2>a. Framed(T[k], "CHUNK_SIZE", <<>>, size, read, 0)  OBVIOUS
  <2> HIDE DEF l, e, f, x, T, m
  <2>3. g \in Seq(Token)  BY <1>1, <2>2
  <2>4. Len(g) = (Len(f) + m) + 2 /\ Len(f) \in Nat
    <3>1. f \o x \in Seq(Token) /\ Len(f \o x) = Len(f) + m  BY <2>2, Joined
    <3>2. Len(g) = Len(f \o x) + Len(e)  BY <1>1, <3>1, Joined
    <3>3. Len(f) \in Nat  BY <2>2
    <3> HIDE DEF g
    <3> QED  BY <1>1, <1>2, <3>1, <3>2, <3>3
  <2> HIDE DEF g
  <2>5. At(s, k, (g \o l) \o e)  BY <2>1
  <2>6. At(s, k, g) /\ At(s, k + Len(g), l) /\ At(s, (k + Len(g)) + Len(l), e)
    BY <1>1, <2>3, <2>5, ThreeParts
  <2>7. At(s, k, f) /\ At(s, j, x) /\ At(s, j + Len(x), e)
    <3>1. At(s, k, (f \o x) \o e)  BY <2>6 DEF g
    <3> QED  BY <1>1, <2>2, <3>1, ThreeParts
  <2>8. j \in 0..Len(s) /\ Framed(T[j], "CHUNK_DATA", <<>>, m, 0, 0)
    BY <1>2, <1>4, <2>7, <2>a, ChunkLineTurns DEF f, T
  <2> HIDE DEF j
  <2>9. j + m \in 0..Len(s) /\ Framed(T[j + m], "CHUNK_DATA_END", <<>>, m, m, m)
    <3>1. m \in Nat \ {0} /\ m <= MaxBody  BY <1>2, <1>4 DEF m
    <3>2. At(s, j, Times(m, "x"))  BY <2>7 DEF x
    <3> QED  BY <2>8, <3>1, <3>2, PayloadTurns DEF T
  <2>10. /\ (j + m) + 2 <= Len(s) /\ s[(j + m) + 1] = "CR" /\ s[(j + m) + 2] = "LF"
    <3>1. At(s, j + m, <<"CR", "LF">>)  BY <2>2, <2>7, ChunkTypes DEF e
    <3> QED  BY <3>1, PairAt
  <2> DEFINE i == j + m
  <2>11. Framed(T[i + 2], "CHUNK_SIZE", <<>>, m, m, m)
    <3>1. i \in Nat /\ i < Len(s) /\ i + 1 \in Nat /\ i + 1 < Len(s) /\ (i + 1) + 1 = i + 2
      BY <2>9, <2>10
    <3>2. s[i + 1] = "CR" /\ s[i + 2] = "LF"  BY <2>10
    <3>3. Framed(T[i], "CHUNK_DATA_END", <<>>, m, m, m)  BY <2>9
    <3> HIDE DEF i
    <3>4. /\ T[i] \in ParserType /\ T[i + 1] \in ParserType
          /\ T[i + 1] = Turn(T[i], "CR") /\ T[i + 2] = Turn(T[i + 1], "LF")
      <4>1. \A y \in Nat : y < Len(s) => T[y] \in ParserType /\ T[y + 1] = Turn(T[y], s[y + 1])
        BY Along DEF T
      <4> QED  BY <3>1, <3>2, <4>1
    <3>5. Framed(T[i + 1], "CR_CHUNK_DATA", <<>>, m, m, m)  BY <3>3, <3>4, FrameTurns
    <3> QED  BY <3>4, <3>5, FrameTurns
  <2>12. k + Len(g) = i + 2  BY <1>2, <2>4 DEF j
  <2>13. /\ At(s, i + 2, l) /\ At(s, (i + 2) + Len(l), e) /\ i + 2 \in Nat
    BY <2>6, <2>9, <2>12
  <2>14. k + Len(Chunks(r)) = ((i + 2) + Len(l)) + 2
    <3>1. g \o l \in Seq(Token) /\ Len(g \o l) = Len(g) + Len(l)  BY <1>1, <2>3, Joined
    <3>2. Len((g \o l) \o e) = Len(g \o l) + Len(e)  BY <1>1, <3>1, Joined
    <3>3. Len(g) \in Nat /\ Len(l) \in Nat  BY <1>1, <2>3
    <3>4. Len(Chunks(r)) = (Len(g) + Len(l)) + 2  BY <1>1, <2>1, <3>1, <3>2
    <3>5. k + Len(Chunks(r)) = ((k + Len(g)) + Len(l)) + 2  BY <3>3, <3>4
    <3> HIDE DEF i
    <3> QED  BY <2>12, <3>5
  <2> HIDE DEF i
  <2> QED  BY <1>2, <2>11, <2>13, <2>14, LastChunkTurns DEF l, e, T, m
<1> QED  BY <1>3, <1>4

(***************************************************************************)
(* The checks of a well-formed request                                     *)
(***************************************************************************)

(* No check of check_request() fails.                                      *)
LEMMA ChecksPass ==
  ASSUME NEW r \in Request, WellFormed(r), NEW x \in ParserType,
         InLine(x, r, "END", HeadersOf(r), <<>>, <<>>)
  PROVE  /\ CheckRequest(x) = Passed(x)
         /\ Length(x) = IF r.length \in Digits THEN DigitValue[r.length] ELSE 0
         /\ Chunked(x) <=> r.encoding = "chunked"
         /\ IsPost(x) <=> r.method = "POST"
<1>1. /\ BadLength(x) <=> r.length = "v"
      /\ Length(x) = IF r.length \in Digits THEN DigitValue[r.length] ELSE 0
      /\ HasEncoding(x) <=> r.encoding # "none"
      /\ HasEncoding(x) => Once(x, "transfer-encoding")
      /\ Chunked(x) <=> r.encoding = "chunked"
      /\ ContentType(x) = IF r.type = "none" THEN <<>> ELSE <<r.type>>
      /\ Once(x, "host") /\ Value(x, "host") = <<"v">>
  BY HeadersFound DEF InLine, WellFormed
<1>2. x.method = <<r.method>> /\ x.uri = <<r.uri>>  BY DEF InLine
<1>3. IsPost(x) <=> r.method = "POST"  BY <1>2 DEF IsPost
<1>4. /\ r.uri = "/ok" /\ r.method \in AllowedMethods /\ r.method \in {"GET", "POST"}
      /\ r.method = "POST" => r.type = "text/plain" /\ r.payload <= MaxBody
      /\ r.method = "GET" => r.encoding = "none" /\ r.length = "none"
      /\ r.method = "POST" => \/ /\ r.encoding = "none" /\ r.payload # 0
                                 /\ r.length = DigitOf[r.payload]
                              \/ r.encoding = "chunked" /\ r.length = "none"
  BY DEF WellFormed
<1>5. r.payload \in 0..3 /\ "none" \notin Digits /\ "v" \notin Digits  BY DEF Request, Digits
<1>6. Length(x) = IF r.method = "POST" /\ r.encoding = "none" THEN r.payload ELSE 0
  BY <1>1, <1>4, <1>5, DigitCounts
<1>7. \A k \in 1..12 : ~RequestChecks(x)[k][1]
  <2> DEFINE C == RequestChecks(x)
  <2>1. ~C[1][1]
    <3>1. C[1][1] = (~Once(x, "host") \/ Value(x, "host") = <<>>)  BY DEF RequestChecks
    <3>2. Value(x, "host") # <<>>  BY <1>1
    <3> HIDE DEF C
    <3> QED  BY <1>1, <3>1, <3>2
  <2>2. ~C[2][1]
    <3>1. C[2][1] = BadLength(x)  BY DEF RequestChecks
    <3>2. r.length # "v"  BY <1>4, <1>5, DigitCounts
    <3> HIDE DEF C
    <3> QED  BY <1>1, <3>1, <3>2
  <2>3. ~C[3][1]
    <3>1. C[3][1] = (Length(x) > MaxBody)  BY DEF RequestChecks
    <3>2. ~(Length(x) > MaxBody)  BY <1>4, <1>5, <1>6, ParserAssumption
    <3> HIDE DEF C
    <3> QED  BY <3>1, <3>2
  <2>4. ~C[4][1] /\ ~C[5][1]
    <3>1. /\ C[4][1] = (HasEncoding(x) /\ ~Once(x, "transfer-encoding"))
          /\ C[5][1] = (HasEncoding(x) /\ ~Chunked(x))
      BY DEF RequestChecks
    <3> HIDE DEF C
    <3> QED  BY <1>1, <1>4, <3>1
  <2>5. ~C[6][1] /\ ~C[7][1]
    <3>1. /\ C[6][1] = (x.uri = <<>> \/ ~StartsWithSlash(Head(x.uri)))
          /\ C[7][1] = (x.uri # <<"/ok">>)
      BY DEF RequestChecks
    <3>2. x.uri = <<"/ok">>  BY <1>2, <1>4
    <3>3. Head(<<"/ok">>) = "/ok" /\ <<"/ok">> # <<>>  OBVIOUS
    <3>4. StartsWithSlash("/ok")  BY DEF StartsWithSlash, Uris
    <3> HIDE DEF C
    <3> QED  BY <3>1, <3>2, <3>3, <3>4
  <2>6. ~C[8][1]
    <3>1. C[8][1] = (x.method \notin {<<m>> : m \in AllowedMethods})  BY DEF RequestChecks
    <3>2. x.method \in {<<m>> : m \in AllowedMethods}  BY <1>2, <1>4
    <3> HIDE DEF C
    <3> QED  BY <3>1, <3>2
  <2>7. ~C[9][1] /\ ~C[10][1]
    <3>1. /\ C[9][1] = (IsPost(x) /\ ~Chunked(x) /\ Length(x) = 0)
          /\ C[10][1] = (IsPost(x) /\ Chunked(x) /\ Length(x) # 0)
      BY DEF RequestChecks
    <3> HIDE DEF C
    <3> QED  BY <1>1, <1>3, <1>4, <1>6, <3>1
  <2>8. ~C[11][1] /\ ~C[12][1]
    <3>1. /\ C[11][1] = (IsPost(x) /\ ContentType(x) = <<>>)
          /\ C[12][1] = (IsPost(x) /\ ContentType(x) # <<"text/plain">>)
      BY DEF RequestChecks
    <3>2. IsPost(x) => ContentType(x) = <<"text/plain">>  BY <1>1, <1>3, <1>4
    <3>3. <<"text/plain">> # <<>>  OBVIOUS
    <3> HIDE DEF C
    <3> QED  BY <3>1, <3>2, <3>3
  <2> HIDE DEF C
  <2>9. \A k \in 1..12 : ~C[k][1]
    <3> TAKE k \in 1..12
    <3>1. CASE k \in 1..6  BY <2>1, <2>2, <2>3, <2>4, <2>5, <3>1
    <3>2. CASE k \in 7..12  BY <2>5, <2>6, <2>7, <2>8, <3>2
    <3> QED  BY <3>1, <3>2
  <2> QED  BY <2>9 DEF C
<1>8. CheckRequest(x) = Passed(x)  BY <1>7, CheckOutcome
<1> QED  BY <1>1, <1>3, <1>8

(* The parser after the head of a well-formed request.                     *)
LEMMA HeadUnderstood ==
  ASSUME NEW r \in Request, WellFormed(r)
  PROVE  LET T == Parsed(Bytes(r))
             h == HeadEnd(r)
             q == T[h]
         IN /\ h \in Nat /\ h >= 2 /\ h <= Len(Bytes(r)) /\ T[h - 1].step # "END"
            /\ q.step = IF r.method # "POST" THEN "END"
                        ELSE IF r.encoding = "chunked" THEN "CHUNK_SIZE" ELSE "BODY"
            /\ q.length = IF r.length \in Digits THEN DigitValue[r.length] ELSE 0
            /\ q.checked /\ q.status = 0 /\ q.body = <<>> /\ q.chunkDigits = <<>>
<1> DEFINE T == Parsed(Bytes(r))
           h == HeadEnd(r)
           o == OtherEnd(r)
           q == T[h]
<1>1. r.gap # 0 /\ r.cut = "no" /\ r.version = "1.1" /\ r.crlf  BY DEF WellFormed
<1>2. /\ o \in Nat /\ h = o + 2 /\ h <= Len(Bytes(r))
      /\ InLine(T[o + 1], r, "SECOND_CR_HEADER", HeadersOf(r), <<>>, <<>>)
      /\ \E x \in ParserType : /\ InLine(x, r, "END", HeadersOf(r), <<>>, <<>>)
                               /\ T[o + 2] = CheckRequest(x)
  BY <1>1, HeadChecked
<1> HIDE DEF T, h, o
<1>3. h - 1 = o + 1 /\ h \in Nat /\ h >= 2  BY <1>2
<1>4. T[h - 1].step # "END"  BY <1>2, <1>3 DEF InLine
<1>5. PICK x \in ParserType : /\ InLine(x, r, "END", HeadersOf(r), <<>>, <<>>)
                              /\ q = CheckRequest(x)
  BY <1>2
<1>6. /\ q = Passed(x)
      /\ Length(x) = IF r.length \in Digits THEN DigitValue[r.length] ELSE 0
      /\ Chunked(x) <=> r.encoding = "chunked"
      /\ IsPost(x) <=> r.method = "POST"
  BY <1>5, ChecksPass
<1>7. x.status = 0 /\ x.body = <<>> /\ x.chunkDigits = <<>>  BY <1>5 DEF InLine
<1> HIDE DEF q
<1>8. /\ q.step = IF ~IsPost(x) THEN "END" ELSE IF Chunked(x) THEN "CHUNK_SIZE" ELSE "BODY"
      /\ q.length = Length(x) /\ q.checked /\ q.status = x.status /\ q.body = x.body
      /\ q.chunkDigits = x.chunkDigits
  BY <1>6 DEF Passed, ParserType
<1>9. /\ q.step = IF r.method # "POST" THEN "END"
                  ELSE IF r.encoding = "chunked" THEN "CHUNK_SIZE" ELSE "BODY"
      /\ q.length = IF r.length \in Digits THEN DigitValue[r.length] ELSE 0
  BY <1>6, <1>8
<1>10. q.checked /\ q.status = 0 /\ q.body = <<>> /\ q.chunkDigits = <<>>  BY <1>7, <1>8
<1> QED  BY <1>2, <1>3, <1>4, <1>9, <1>10 DEF T, h, q

(***************************************************************************)
(* A well-formed request to its last byte                                  *)
(***************************************************************************)

(* What is to be shown of the last two bytes.                              *)
EndsWell(r) ==
  LET T == Parsed(Bytes(r))
      N == Len(Bytes(r))
  IN /\ N >= 2 /\ T[N - 1].step # "END" /\ T[N].status = 0
     /\ ~EndHidden(r) => /\ T[N].step \in {"END", "BODY_LENGTH_END"}
                         /\ T[N].checked /\ Len(T[N].body) = r.payload
     /\ EndHidden(r) => T[N].step = "CHUNK_DATA"

(* Without a body.                                                         *)
LEMMA GetEndsWell ==
  ASSUME NEW r \in Request, WellFormed(r), r.method # "POST"
  PROVE  EndsWell(r)
<1> DEFINE s == Bytes(r)
           T == Parsed(s)
           h == HeadEnd(r)
<1>1. r.payload = 0 /\ r.extra = 0 /\ r.encoding = "none"  BY DEF WellFormed
<1>2. Len(Content(r)) = 0  BY <1>1, ContentLength
<1>3. /\ h \in Nat /\ h >= 2 /\ T[h - 1].step # "END" /\ T[h].step = "END"
      /\ T[h].checked /\ T[h].status = 0 /\ T[h].body = <<>>
  BY HeadUnderstood
<1>4. Len(s) = h + Len(Content(r))  BY PartsAt
<1> HIDE DEF s, T, h
<1>5. Len(s) = h  BY <1>2, <1>3, <1>4
<1>6. Len(T[h].body) = 0  BY <1>3
<1> QED  BY <1>1, <1>3, <1>5, <1>6 DEF EndsWell, EndHidden, s, T

(* With a body of an announced length.                                     *)
LEMMA SizedEndsWell ==
  ASSUME NEW r \in Request, WellFormed(r), r.method = "POST", r.encoding = "none"
  PROVE  EndsWell(r)
<1> DEFINE s == Bytes(r)
           T == Parsed(s)
           h == HeadEnd(r)
           n == r.payload
           Step(i) == IF i = n THEN "BODY_LENGTH_END" ELSE "BODY"
           Inside(q, i) == /\ q.step = Step(i) /\ q.status = 0 /\ q.checked
                           /\ q.length = n /\ Len(q.body) = i
           S == {i \in 0..n : Inside(T[h + i], i)}
<1>1. n \in 1..3 /\ r.extra = 0 /\ r.length = DigitOf[n]
  BY DEF WellFormed, Request
<1>2. r.length \in Digits /\ DigitValue[r.length] = n  BY <1>1, DigitCounts
<1>3. /\ h \in Nat /\ h >= 2 /\ T[h].step = "BODY" /\ T[h].length = n
      /\ T[h].checked /\ T[h].status = 0 /\ T[h].body = <<>>
  BY <1>2, HeadUnderstood
<1>4. Len(Content(r)) = n + r.extra  BY ContentLength
<1>5. s \in Seq(Token) /\ Len(s) = h + Len(Content(r))  BY PartsAt
<1> HIDE DEF s, T, h, n
<1>6. Len(s) = h + n  BY <1>1, <1>3, <1>4, <1>5
<1>7. 0 \in S
  <2>1. 0 \in 0..n /\ h + 0 = h /\ 0 # n  BY <1>1, <1>3
  <2>2. Len(T[h].body) = 0  BY <1>3
  <2> QED  BY <1>3, <2>1, <2>2
<1>8. \A i \in 0..n - 1 : i \in S => i + 1 \in S
  <2> SUFFICES ASSUME NEW i \in 0..n - 1, i \in S PROVE i + 1 \in S  OBVIOUS
  <2>1. /\ i \in Nat /\ i # n /\ i + 1 \in 0..n /\ h + i \in Nat /\ h + i < Len(s)
        /\ (h + i) + 1 = h + (i + 1)
    BY <1>1, <1>3, <1>6
  <2> DEFINE p == T[h + i]
             t == s[(h + i) + 1]
  <2>2. p \in ParserType /\ T[h + (i + 1)] = Turn(p, t)
    <3>1. T[h + i] \in ParserType /\ T[(h + i) + 1] = Turn(T[h + i], s[(h + i) + 1])
      BY <1>5, <2>1, Along DEF T
    <3> QED  BY <2>1, <3>1
  <2>3. Inside(p, i)  OBVIOUS
  <2> HIDE DEF p, t, S
  <2>4. p.step = "BODY" /\ p.status = 0 /\ p.checked /\ p.length = n /\ Len(p.body) = i
    BY <2>1, <2>3
  <2>5. Turn(p, t) = Body(p, t)  BY <2>2, <2>4, OneTurn
  <2> DEFINE q == Body(p, t)
  <2>6. /\ q.step = IF Len(p.body) + 1 = p.length THEN "BODY_LENGTH_END" ELSE p.step
        /\ q.status = p.status /\ q.checked = p.checked /\ q.length = p.length
        /\ q.body = Append(p.body, t)
    BY <2>2 DEF Body, ParserType
  <2>7. Len(Append(p.body, t)) = i + 1
    <3>1. p.body \in Seq(Token)  BY <2>2 DEF ParserType
    <3> QED  BY <2>4, <3>1
  <2> HIDE DEF q
  <2>8. Inside(q, i + 1)  BY <2>4, <2>6, <2>7
  <2>9. Inside(T[h + (i + 1)], i + 1)  BY <2>2, <2>5, <2>8 DEF q
  <2> QED  BY <2>1, <2>9 DEF S
<1>9. \A i \in 0..n : i \in S
  <2>1. 0 \in Nat /\ n \in Nat  BY <1>1
  <2> HIDE DEF S
  <2> QED  BY <1>7, <1>8, <2>1, Counting
<1>10. n \in 0..n /\ n - 1 \in 0..n /\ n - 1 # n /\ h + (n - 1) = Len(s) - 1 /\ Len(s) >= 2
  BY <1>1, <1>3, <1>6
<1>11. Inside(T[Len(s)], n) /\ Inside(T[Len(s) - 1], n - 1)
  <2>1. Inside(T[h + n], n) /\ Inside(T[h + (n - 1)], n - 1)  BY <1>9, <1>10
  <2> HIDE DEF Inside
  <2> QED  BY <1>6, <1>10, <2>1
<1>12. /\ T[Len(s)].step = "BODY_LENGTH_END" /\ T[Len(s) - 1].step = "BODY"
       /\ T[Len(s)].status = 0 /\ T[Len(s)].checked /\ Len(T[Len(s)].body) = n
  BY <1>10, <1>11
<1> QED  BY <1>10, <1>12 DEF EndsWell, EndHidden, s, T, n

(* With a chunked body.                                                    *)
LEMMA ChunkedEndsWell ==
  ASSUME NEW r \in Request, Understood(r), r.method = "POST", r.encoding = "chunked"
  PROVE  EndsWell(r)
<1> DEFINE s == Bytes(r)
           T == Parsed(s)
           h == HeadEnd(r)
           c == Chunks(r)
           x == Times(0, "x")
           q == T[h]
<1>1. /\ WellFormed(r) /\ r.crlf /\ r.extra = 0 /\ r.payload <= MaxBody
      /\ r.ext = "last" => r.payload < MaxBody
  BY DEF Understood, EndHidden, WellFormed
<1>2. /\ h \in Nat /\ h >= 2 /\ q.step = "CHUNK_SIZE"
      /\ q.checked /\ q.status = 0 /\ q.body = <<>> /\ q.chunkDigits = <<>>
  BY <1>1, HeadUnderstood
<1>3. s \in Seq(Token) /\ At(s, h, Content(r)) /\ Len(s) = h + Len(Content(r))  BY PartsAt
<1>4. Content(r) = c \o x  BY <1>1 DEF Content
<1>5. x \in Seq(Token) /\ Len(x) = 0  BY <1>1, ChunkTypes
<1>6. c \in Seq(Token)
  <2> DEFINE l == ChunkLine(r, 0, "last")
             f == ChunkLine(r, r.payload, "first")
             y == Times(r.payload, "x")
             e == Eol(r)
             g == (f \o y) \o e
  <2>1. r.payload \in 0..3 /\ r.payload \in Nat  BY DEF Request
  <2>2. l \in Seq(Token) /\ f \in Seq(Token) /\ y \in Seq(Token) /\ e \in Seq(Token)
    <3>1. 0 \in 0..3 /\ "first" \in {"first", "last"} /\ "last" \in {"first", "last"}  OBVIOUS
    <3>2. l \in Seq(Token)  BY <1>1, <3>1, ChunkTypes
    <3>3. f \in Seq(Token)  BY <1>1, <2>1, <3>1, ChunkTypes
    <3>4. y \in Seq(Token)  BY <1>1, <2>1, ChunkTypes
    <3>5. e \in Seq(Token)  BY <1>1, ChunkTypes
    <3> QED  BY <3>2, <3>3, <3>4, <3>5
  <2>3. c = ((IF r.payload = 0 THEN <<>> ELSE g) \o l) \o e  BY DEF Chunks
  <2> HIDE DEF l, f, y, e, c
  <2>4. g \in Seq(Token)  BY <2>2
  <2> HIDE DEF g
  <2>5. CASE r.payload = 0
    <3>1. c = (<<>> \o l) \o e  BY <2>3, <2>5
    <3> QED  BY <2>2, <3>1
  <2>6. CASE r.payload # 0
    <3>1. c = (g \o l) \o e  BY <2>3, <2>6
    <3> QED  BY <2>2, <2>4, <3>1
  <2> QED  BY <2>5, <2>6
<1> HIDE DEF c, x, s, h, T, q
<1>7. At(s, h, c)
  <2>1. At(s, h, c \o x)  BY <1>3, <1>4
  <2> QED  BY <1>2, <1>3, <1>5, <1>6, <2>1, Split
<1>8. Len(s) = h + Len(c)
  <2>1. Len(c \o x) = Len(c) + Len(x)  BY <1>5, <1>6, Joined
  <2>2. Len(c) \in Nat  BY <1>6
  <2> QED  BY <1>2, <1>3, <1>4, <1>5, <2>1, <2>2
<1>9. Framed(T[h], "CHUNK_SIZE", <<>>, q.chunkSize, q.chunkRead, 0)
  <2>1. Len(q.body) = 0  BY <1>2
  <2> QED  BY <1>2, <2>1 DEF Framed, q
<1> DEFINE e == h + Len(Chunks(r))
           n == r.payload
<1>10. /\ e \in 2..Len(s)
       /\ r.ext # "last" => /\ Parsed(s)[e - 1].step # "END"
                            /\ Framed(Parsed(s)[e], "END", <<>>, 0, 0, n)
       /\ r.ext = "last" /\ n < MaxBody =>
            /\ Parsed(s)[e - 1].step # "END"
            /\ Framed(Parsed(s)[e], "CHUNK_DATA", <<>>, 0, 0, n)
  BY <1>1, <1>2, <1>3, <1>7, <1>9, ChunksTurns DEF c, T
<1>11. e = Len(s)  BY <1>8 DEF c
<1> HIDE DEF e, n
<1>12. Len(s) >= 2  BY <1>10, <1>11
<1>13. CASE r.ext # "last"
  <2>1. Parsed(s)[Len(s) - 1].step # "END" /\ Framed(Parsed(s)[Len(s)], "END", <<>>, 0, 0, n)
    BY <1>10, <1>11, <1>13
  <2> QED  BY <1>12, <1>13, <2>1 DEF EndsWell, EndHidden, Framed, s, n
<1>14. CASE r.ext = "last"
  <2>1. /\ Parsed(s)[Len(s) - 1].step # "END"
        /\ Framed(Parsed(s)[Len(s)], "CHUNK_DATA", <<>>, 0, 0, n)
    BY <1>1, <1>10, <1>11, <1>14 DEF n
  <2> QED  BY <1>12, <1>14, <2>1 DEF EndsWell, EndHidden, Framed, s, n
<1> QED  BY <1>13, <1>14

(* Every well-formed request but one whose hidden end is at the limit.     *)
LEMMA AllEndWell ==
  ASSUME NEW r \in Request, Understood(r)
  PROVE  EndsWell(r)
<1>1. WellFormed(r)  BY DEF Understood
<1>2. r.method = "POST" => r.encoding \in {"none", "chunked"}  BY <1>1 DEF WellFormed
<1> QED  BY <1>1, <1>2, GetEndsWell, SizedEndsWell, ChunkedEndsWell

(* What holds along the way.                                               *)
LEMMA WholeWay ==
  ASSUME NEW r \in Request, Understood(r), NEW k \in 0..Len(Bytes(r))
  PROVE  LET q == Parsed(Bytes(r))[k]
             N == Len(Bytes(r))
         IN /\ q.status = 0
            /\ q.step \in {"END", "BODY_LENGTH_END"} =>
                 k = N /\ q.checked /\ Len(q.body) = r.payload
            /\ ~EndHidden(r) /\ k = N => q.step \in {"END", "BODY_LENGTH_END"}
<1> DEFINE s == Bytes(r)
           T == Parsed(s)
           N == Len(s)
<1>1. /\ N >= 2 /\ T[N - 1].step # "END" /\ T[N].status = 0
      /\ ~EndHidden(r) => /\ T[N].step \in {"END", "BODY_LENGTH_END"}
                          /\ T[N].checked /\ Len(T[N].body) = r.payload
      /\ EndHidden(r) => T[N].step = "CHUNK_DATA"
  BY AllEndWell DEF EndsWell
<1>2. s \in Seq(Token)  BY PartsAt
<1>3. ~TooLong(r)
  <2>1. WellFormed(r) /\ r.payload \in 0..3  BY DEF Understood, Request
  <2>2. r.length \in Digits => r.length = DigitOf[r.payload] /\ r.extra = 0
    <3>1. "none" \notin Digits  BY DEF Digits
    <3> QED  BY <2>1, <3>1 DEF WellFormed
  <2>3. r.length \in Digits => r.payload + r.extra = DigitValue[r.length]
    BY <2>1, <2>2, DigitCounts
  <2>4. r.length \in Digits => ~(r.payload + r.extra > DigitValue[r.length])
    <3>1. \A d \in Digits : ~(DigitValue[d] > DigitValue[d])  BY DigitValues
    <3> QED  BY <2>3, <3>1
  <2> QED  BY <2>4 DEF TooLong
<1>4. k \in 0..N /\ (T[k].step = "BODY_LENGTH_END" => k = N)  BY <1>3, LengthEnds
<1> HIDE DEF s, T, N
<1>5. N = Len(s) /\ N \in Nat  BY <1>2 DEF N
<1>6. (\A j \in 0..N : T[j].status = 0) /\ (\A j \in 0..N - 1 : T[j].step # "END")
  <2>1. s # <<>>  BY <1>1, <1>5
  <2> QED  BY <1>1, <1>2, <1>5, <2>1, Backwards DEF T
<1>7. T[k].step = "END" => k = N  BY <1>4, <1>5, <1>6
<1>8. T[k].step \in {"END", "BODY_LENGTH_END"} => T[k].checked /\ Len(T[k].body) = r.payload
  BY <1>1, <1>4, <1>7
<1> QED  BY <1>1, <1>4, <1>6, <1>7, <1>8 DEF s, T, N

(***************************************************************************)
(* The parsers of the server                                               *)
(***************************************************************************)

(* Where a connection is in its well-formed request.                       *)
LEMMA OnItsWay ==
  ASSUME TypeOK, SentStays, NEW c \in Conns, Follows(c), Understood(sent[c])
  PROVE  LET q == parser[c]
         IN /\ q.status = 0
            /\ q.step \in {"END", "BODY_LENGTH_END"} =>
                 ~More(c) /\ q.checked /\ Len(q.body) = sent[c].payload
            /\ ~EndHidden(sent[c]) /\ ~More(c) => q.step \in {"END", "BODY_LENGTH_END"}
<1> DEFINE r == sent[c]
           s == Bytes(r)
           k == pos[c]
           p == Parsed(s)[k]
           q == parser[c]
           Ended(x) == x.step \in {"END", "BODY_LENGTH_END"}
<1>1. r \in Request /\ input[c] = s  BY DEF SentStays
<1>2. s \in Seq(Token) /\ k \in Nat /\ q \in ParserType  BY <1>1 DEF TypeOK
<1>4. k \in 0..Len(s)  BY <1>1, <1>2 DEF Follows
<1>5. p \in ParserType  BY <1>2, <1>4, ParsedSteps
<1>6. q = p \/ (p.step = "BODY_LENGTH_END" /\ q = [p EXCEPT !.step = "END"])
  BY <1>1 DEF Follows
<1>7. More(c) <=> k < Len(s)  BY <1>1 DEF More
<1>8. /\ p.status = 0
      /\ Ended(p) => k = Len(s) /\ p.checked /\ Len(p.body) = r.payload
      /\ ~EndHidden(r) /\ k = Len(s) => Ended(p)
  BY <1>1, <1>4, WholeWay
<1>9. q.status = p.status /\ q.checked = p.checked /\ q.body = p.body /\ (Ended(q) <=> Ended(p))
  <2> HIDE DEF q, p
  <2>1. CASE q = p  BY <2>1
  <2>2. CASE p.step = "BODY_LENGTH_END" /\ q = [p EXCEPT !.step = "END"]
    BY <1>5, <2>2 DEF ParserType
  <2> QED  BY <1>6, <2>1, <2>2
<1>10. Len(s) \in Nat  BY <1>2
<1> HIDE DEF r, s, k, p, q
<1>11. Ended(q) => ~More(c) /\ q.checked /\ Len(q.body) = r.payload
  BY <1>7, <1>8, <1>9, <1>10
<1>12. ~EndHidden(r) /\ ~More(c) => Ended(q)
  BY <1>4, <1>7, <1>8, <1>9, <1>10
<1> QED  BY <1>8, <1>9, <1>11, <1>12 DEF r, q

(* A parser that has taken a space for the end of the URI has not seen the *)
(* last byte yet.                                                          *)
LEMMA NotAstray ==
  ASSUME TypeOK, SentStays, NEW c \in Conns, Understood(sent[c]),
         ~EndHidden(sent[c]), ~More(c)
  PROVE  ~Astray(c)
<1> DEFINE s == Bytes(sent[c])
           q == Parsed(s)[pos[c]]
<1>1. sent[c] \in Request /\ input[c] = s  BY DEF SentStays
<1>2. s \in Seq(Token) /\ pos[c] \in Nat  BY <1>1 DEF TypeOK
<1>3. SUFFICES ASSUME Astray(c) PROVE FALSE  OBVIOUS
<1>4. pos[c] <= Len(s) /\ q.step = "URI"  BY <1>1, <1>3 DEF Astray
<1>5. ~(pos[c] < Len(s))  BY <1>1 DEF More
<1> HIDE DEF q
<1>6. pos[c] = Len(s) /\ pos[c] \in 0..Len(s)  BY <1>2, <1>4, <1>5
<1>7. q.step \in {"END", "BODY_LENGTH_END"}  BY <1>1, <1>6, WholeWay DEF q
<1> QED  BY <1>4, <1>7

(* A well-formed request is never turned into an error, and is not ready   *)
(* before its last byte: its body is then exactly the payload, whatever    *)
(* reads it came in and whatever else is parsed in between; but for one    *)
(* with more spaces than one after another request line was broken off.    *)
THEOREM UnderstoodAlways ==
  ASSUME ~LinesInterleave
  PROVE  Spec => []WellFormedUnderstood
<1> DEFINE Inv == TypeOK /\ SentStays /\ \A c \in Conns : InStep(c)
<1>1. Inv /\ Undisturbed => WellFormedUnderstood
  <2> SUFFICES ASSUME Inv, Undisturbed, NEW c \in Conns,
                      WellFormed(sent[c]), Unharmed(sent[c]),
                      EndHidden(sent[c]) => sent[c].payload < MaxBody
               PROVE  /\ parser[c].status = 0
                      /\ ready[c] => /\ parser[c].checked
                                     /\ Len(parser[c].body) = sent[c].payload
                                     /\ ~More(c)
    BY DEF WellFormedUnderstood
  <2>1. Understood(sent[c])  BY DEF Understood
  <2>2. ready[c] => parser[c].step = "END"  BY DEF InStep
  <2>3. Follows(c)  BY DEF Undisturbed, Lost, Unharmed
  <2> QED  BY <2>1, <2>2, <2>3, OnItsWay
<1>2. Spec => []Inv  BY Invariant
<1>3. Spec => []Undisturbed  BY ParsedAlone
<1> HIDE DEF Inv
<1> QED  BY <1>1, <1>2, <1>3, PTL

(* A body that has reached its length is ended by the read it came in.     *)
Closed == \A c \in Conns : reading # c => parser[c].step # "BODY_LENGTH_END"

(* Closed holds at first and each step keeps it.                           *)
LEMMA InitClosed == Init => Closed
  BY DEF Init, Closed, Fresh

LEMMA NextClosed ==
  ASSUME TypeOK, Closed, [Next]_vars
  PROVE  Closed'
<1>1. ASSUME NEW c \in Conns, StartRead(c) PROVE Closed'
  BY <1>1, ParserAssumption DEF StartRead, Closed
<1>2. ASSUME NEW c \in Conns, ParseByte(c) PROVE Closed'
  <2>1. reading' = reading /\ reading = c /\ \A d \in Conns \ {c} : parser'[d] = parser[d]
    BY <1>2 DEF ParseByte, TypeOK
  <2> QED  BY <2>1 DEF Closed
<1>3. ASSUME NEW c \in Conns, EndRead(c) PROVE Closed'
  <2>1. reading = c  BY <1>3 DEF EndRead
  <2>2. \A d \in Conns \ {c} : parser'[d] = parser[d]  BY <1>3 DEF EndRead, TypeOK
  <2>3. parser'[c].step # "BODY_LENGTH_END"
    <3>1. CASE parser[c].step = "BODY_LENGTH_END"
      <4>1. parser' = [parser EXCEPT ![c].step = "END"]  BY <1>3, <3>1 DEF EndRead
      <4>2. parser[c] \in ParserType /\ parser'[c] = [parser[c] EXCEPT !.step = "END"]
        BY <4>1 DEF TypeOK
      <4>3. parser'[c].step = "END"  BY <4>2 DEF ParserType
      <4> QED  BY <4>3
    <3>2. CASE parser[c].step # "BODY_LENGTH_END"
      BY <1>3, <3>2 DEF EndRead
    <3> QED  BY <3>1, <3>2
  <2> QED  BY <2>1, <2>2, <2>3 DEF Closed
<1>4. CASE UNCHANGED vars
  BY <1>4 DEF vars, Closed
<1> QED  BY <1>1, <1>2, <1>3, <1>4 DEF Next

(* Once a well-formed request has arrived whole it is ready, if only to be *)
(* refused, so that the client is not left without an answer; except for a *)
(* hidden end.                                                             *)
THEOREM ReadyAlways ==
  ASSUME ~LinesInterleave
  PROVE  Spec => []WholeRequestReady
<1> DEFINE Inv == TypeOK /\ SentStays /\ \A c \in Conns : InStep(c)
<1>1. Inv /\ Undisturbed /\ Closed => WholeRequestReady
  <2> SUFFICES ASSUME Inv, Undisturbed, Closed, NEW c \in Conns,
                      WellFormed(sent[c]), ~EndHidden(sent[c]), ~More(c), reading = NoConn
               PROVE  ready[c]
    BY DEF WholeRequestReady
  <2>1. Understood(sent[c])  BY DEF Understood
  <2>2. parser[c].step \in {"END", "BODY_LENGTH_END"}
    <3>1. CASE Follows(c)  BY <2>1, <3>1, OnItsWay
    <3>2. CASE Lost(c)
      <4>1. ~Astray(c)  BY <2>1, NotAstray
      <4> QED  BY <3>2, <4>1 DEF Lost
    <3> QED  BY <3>1, <3>2 DEF Undisturbed
  <2>3. reading # c  BY ParserAssumption
  <2>4. parser[c].step = "END"  BY <2>2, <2>3 DEF Closed
  <2> QED  BY <2>4 DEF InStep
<1>2. Spec => []Inv  BY Invariant
<1>3. Spec => []Undisturbed  BY ParsedAlone
<1>4. Inv /\ Closed /\ [Next]_vars => Closed'  BY NextClosed
<1> HIDE DEF Inv
<1>5. Spec => []Closed  BY InitClosed, <1>2, <1>4, PTL DEF Spec
<1> QED  BY <1>1, <1>2, <1>3, <1>5, PTL
=============================================================================
