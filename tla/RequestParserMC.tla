--------------------------- MODULE RequestParserMC ---------------------------
(* The instances of RequestParser that TLC checks.                         *)
EXTENDS RequestParser

CONSTANTS a, b   \* connections, as model values

Two == {a, b}
GetAndPost == {"GET", "POST"}

Simple == [method |-> "GET", gap |-> 1, uri |-> "/ok", space |-> 1, version |-> "1.1",
           cut |-> "no", crlf |-> TRUE,
           hosts |-> 1, type |-> "none", encoding |-> "none", length |-> "none",
           payload |-> 0, ext |-> "none", extra |-> 0]

With(r, field, values) == {[r EXCEPT ![field] = v] : v \in values}

Posts(payloads, lengths, encodings, exts) ==
  {[Simple EXCEPT !.method = "POST", !.type = "text/plain", !.payload = n,
                  !.length = l, !.encoding = e, !.ext = x] :
     n \in payloads, l \in lengths, e \in encodings, x \in exts}

Gets == With(Simple, "gap", 1..3) \cup With(Simple, "space", {2})
Sized == {r \in Posts(1..2, {"1", "2"}, {"none"}, {"none"}) : r.length = DigitOf[r.payload]}
ChunkedPosts(exts) == Posts(0..2, {"none"}, {"chunked"}, exts)

(* Well-formed requests; the chunk extensions are on data chunks.          *)
Good == Gets \cup Sized \cup {r \in ChunkedPosts({"none", "first"}) : r.payload # 0 \/ r.ext = "none"}

(* Each differs from a good one in one respect.                            *)
Flawed ==
  UNION {With(r, "hosts", {0, 2}) \cup With(r, "version", {"1.0", "1"})
         \cup With(r, "uri", {"/gone", "v"}) \cup With(r, "method", {"PUT"})
         \cup With(r, "type", {"font/ttf", "none"})
         \cup With(r, "encoding", {"gzip"}) \cup With(r, "length", {"0", "1", "3", "v"}) :
           r \in {Simple} \cup Sized \cup ChunkedPosts({"none"})}
  \cup Posts({3}, {"none"}, {"chunked"}, {"none"})   \* over the body limit

(* Bare LF line ends, an extension on the last chunk, a byte too many.     *)
Odd == With([Simple EXCEPT !.crlf = FALSE], "hosts", {0, 1})
       \cup Posts({1, 2}, {"none"}, {"chunked"}, {"last"})
       \cup UNION {With(r, "extra", {1}) : r \in Sized}

(* Request lines that break off in the URI or the protocol.                *)
Broken == UNION {With(r, "cut", {"uri", "tab", "protocol"}) :
                   r \in {Simple, [Simple EXCEPT !.crlf = FALSE], [Simple EXCEPT !.gap = 2]}}

AllRequests == Good \cup Flawed \cup Odd \cup Broken

(* Both connections send the same request, or one breaks off its line and  *)
(* the other means well; or both send GETs with any number of spaces.      *)
SameRequest == {[c \in Two |-> r] : r \in AllRequests}
OneBroken == {[c \in Two |-> IF c = a THEN q ELSE r] :
                q \in Broken, r \in Gets \cup Posts({1}, {"none"}, {"chunked"}, {"none"})}
SameOrBroken == SameRequest \cup OneBroken
TwoGets == [Two -> Gets]
=============================================================================
