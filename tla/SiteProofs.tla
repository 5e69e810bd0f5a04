------------------------------ MODULE SiteProofs ------------------------------
(***************************************************************************)
(* Theorems about Site.  The server starts as Config says and as its file  *)
(* means (SiteStarts, SiteStartsRight, SiteServersRight); a URI is routed  *)
(* to the longest location that covers it (RoutedToLongestAlways); what    *)
(* clients send is understood (FormsUnderstoodAlways), and images and      *)
(* texts are kept (UploadsKeptAlways, TextsKeptAlways); every answer did   *)
(* to the files what it says (ChangesAccountedForAlways); and variables    *)
(* have their types (TypeCorrect).  What the names of files look like, as  *)
(* strings, is a hypothesis of all but the start (NamesApart).             *)
(***************************************************************************)
EXTENDS Site, ConfigProofs

(***************************************************************************)
(* Sequences as paths                                                      *)
(***************************************************************************)

(* A name in a directory.                                                  *)
LEMMA NameInDir ==
  ASSUME NEW T, NEW u \in Seq(T), NEW a \in T, NEW b \in T
  PROVE  LET p == u \o <<a, b>>
         IN p \in Seq(T) /\ Last(p) = b /\ DirOf(p) = u
<1> DEFINE e == <<a, b>>
           p == u \o e
<1>1. e \in Seq(T) /\ Len(e) = 2 /\ e[2] = b /\ Len(u) \in Nat
      /\ DOMAIN u = 1..Len(u)
  OBVIOUS
<1>2. /\ p \in Seq(T) /\ Len(p) = Len(u) + 2
      /\ \A i \in 1..Len(u) : p[i] = u[i]
      /\ \A i \in 1..2 : p[Len(u) + i] = e[i]
  <2> HIDE DEF e
  <2>1. /\ p \in Seq(T) /\ Len(p) = Len(u) + Len(e)
        /\ \A i \in 1..Len(u) : p[i] = u[i]
        /\ \A i \in 1..Len(e) : p[Len(u) + i] = e[i]
    <3>1. u \in Seq(T) /\ e \in Seq(T)  BY <1>1
    <3> QED  BY <3>1, Joined
  <2> HIDE DEF p
  <2> QED  BY <1>1, <2>1
<1> HIDE DEF e, p
<1>3. Last(p) = b
  <2>1. 2 \in 1..2  OBVIOUS
  <2> QED  BY <1>1, <1>2, <2>1 DEF Last
<1> DEFINE q == SubSeq(p, 1, Len(u) + 1)
           r == SubSeq(q, 1, Len(u))
<1>4. Front(p) = q
  <2>1. Len(p) - 1 = Len(u) + 1  BY <1>1, <1>2
  <2> QED  BY <2>1 DEF Front
<1>5. q \in Seq(T) /\ Len(q) = Len(u) + 1 /\ \A i \in 1..Len(u) : q[i] = u[i]
  <2>1. q \in Seq(T) /\ Len(q) = Len(u) + 1 /\ \A i \in 1..Len(u) + 1 : q[i] = p[i]
    BY <1>1, <1>2
  <2>2. \A i \in 1..Len(u) : i \in 1..Len(u) + 1  BY <1>1
  <2> HIDE DEF q
  <2> QED  BY <1>2, <2>1, <2>2
<1> HIDE DEF q
<1>6. Front(q) = r
  <2>1. Len(q) - 1 = Len(u)  BY <1>1, <1>5
  <2> QED  BY <2>1 DEF Front
<1>7. r \in Seq(T) /\ Len(r) = Len(u) /\ \A i \in 1..Len(u) : r[i] = u[i]
  <2>1. r \in Seq(T) /\ Len(r) = Len(u) /\ \A i \in 1..Len(u) : r[i] = q[i]
    BY <1>1, <1>5
  <2> HIDE DEF r
  <2> QED  BY <1>5, <2>1
<1> HIDE DEF r
<1>8. r = u  BY <1>7, Same
<1> QED  BY <1>2, <1>3, <1>4, <1>6, <1>8 DEF DirOf, p, e

(* The first n elements of a sequence.                                     *)
LEMMA Beginning ==
  ASSUME NEW s, IsSequence(s)
  PROVE  /\ Len(s) \in Nat /\ DOMAIN s = 1..Len(s)
         /\ \A n \in 0..Len(s) :
              /\ IsSequence(SubSeq(s, 1, n)) /\ Len(SubSeq(s, 1, n)) = n
              /\ \A i \in 1..n : SubSeq(s, 1, n)[i] = s[i]
<1> DEFINE T == ToSet(s)
<1>1. s \in Seq(T)  BY DEF IsSequence
<1> HIDE DEF T
<1>2. Len(s) \in Nat /\ DOMAIN s = 1..Len(s)  BY <1>1
<1>3. ASSUME NEW n \in 0..Len(s)
      PROVE  /\ IsSequence(SubSeq(s, 1, n)) /\ Len(SubSeq(s, 1, n)) = n
             /\ \A i \in 1..n : SubSeq(s, 1, n)[i] = s[i]
  <2> DEFINE p == SubSeq(s, 1, n)
  <2>1. p \in Seq(T) /\ Len(p) = n /\ \A i \in 1..n : p[i] = s[i]  BY <1>1, <1>2
  <2> HIDE DEF p
  <2>2. IsSequence(p)  BY <2>1, AnySequence
  <2> QED  BY <2>1, <2>2 DEF p
<1> QED  BY <1>2, <1>3

(* A prefix is the beginning, and holds what the whole holds there.        *)
LEMMA PrefixIs ==
  ASSUME NEW s, IsSequence(s), NEW t, IsSequence(t)
  PROVE  /\ IsPrefix(s, t) => Len(s) \in 0..Len(t) /\ s = SubSeq(t, 1, Len(s))
         /\ IsPrefix(s, t) <=> Len(s) <= Len(t) /\ \A i \in 1..Len(s) : s[i] = t[i]
<1>1. Len(s) \in Nat /\ Len(t) \in Nat  BY Beginning
<1>2. SubSeq(s, 1, Len(s)) = s
  <2> DEFINE T == ToSet(s)
  <2>1. s \in Seq(T)  BY DEF IsSequence
  <2> HIDE DEF T
  <2> QED  BY <2>1
<1>3. IsPrefix(s, t) <=> Len(s) <= Len(t) /\ s = SubSeq(t, 1, Len(s))
  BY <1>2 DEF IsPrefix
<1>4. ASSUME Len(s) <= Len(t)
      PROVE  s = SubSeq(t, 1, Len(s)) <=> \A i \in 1..Len(s) : s[i] = t[i]
  <2> DEFINE p == SubSeq(t, 1, Len(s))
  <2>1. Len(s) \in 0..Len(t)  BY <1>1, <1>4
  <2>2. IsSequence(p) /\ Len(p) = Len(s) /\ \A i \in 1..Len(s) : p[i] = t[i]
    BY <2>1, Beginning
  <2> HIDE DEF p
  <2>3. ASSUME \A i \in 1..Len(s) : s[i] = t[i] PROVE s = p
    <3> DEFINE T == ToSet(s) \cup ToSet(p)
               A == ToSet(s)
               B == ToSet(p)
    <3>1. s \in Seq(A) /\ p \in Seq(B)  BY <2>2 DEF IsSequence
    <3> HIDE DEF A, B
    <3>2. s \in Seq(A \cup B) /\ p \in Seq(A \cup B)  BY <3>1
    <3> QED  BY <2>2, <2>3, <3>2, Same
  <2> QED  BY <2>2, <2>3 DEF p
<1> QED  BY <1>1, <1>3, <1>4

(* The path of a URI ends at its query, or with it.                        *)
LEMMA PathPartIs ==
  ASSUME NEW uri, IsSequence(uri)
  PROVE  \E m \in 0..Len(uri) :
           /\ DOMAIN PathPart(uri) = 1..m /\ \A j \in 1..m : uri[j] # "?"
           /\ m = Len(uri) \/ uri[m + 1] = "?"
           /\ m = Len(uri) => PathPart(uri) = uri
           /\ IsSequence(PathPart(uri))
<1>1. Len(uri) \in Nat /\ DOMAIN uri = 1..Len(uri)  BY Beginning
<1> DEFINE I == {i \in 1..Len(uri) : uri[i] = "?"}
           query == SelectInSeq(uri, LAMBDA c : c = "?")
<1>2. query = IF I # {} THEN Min(I) ELSE 0  BY DEF SelectInSeq
<1>3. PathPart(uri) = IF query = 0 THEN uri ELSE SubSeq(uri, 1, query - 1)  BY DEF PathPart
<1> HIDE DEF query
<1>4. CASE I = {}
  <2>1. PathPart(uri) = uri /\ \A j \in 1..Len(uri) : uri[j] # "?"  BY <1>2, <1>3, <1>4
  <2>2. Len(uri) \in 0..Len(uri)  BY <1>1
  <2> QED  BY <1>1, <2>1, <2>2, Zenon
<1>5. CASE I # {}
  <2>1. PICK q \in I : \A j \in I : q <= j
    <3>1. I \in SUBSET Nat  OBVIOUS
    <3> HIDE DEF I
    <3> QED  BY <1>5, <3>1, LeastExists
  <2>2. Min(I) = q
    <3>1. I \in SUBSET Int  OBVIOUS
    <3> HIDE DEF I
    <3> QED  BY <2>1, <3>1, MinIs
  <2>3. q \in 1..Len(uri) /\ uri[q] = "?"  OBVIOUS
  <2>4. q - 1 \in 0..Len(uri) /\ q - 1 + 1 = q /\ q # 0  BY <1>1, <2>3
  <2>5. \A j \in 1..q - 1 : uri[j] # "?"
    <3> TAKE j \in 1..q - 1
    <3>1. j \in 1..Len(uri) /\ ~(q <= j)  BY <1>1, <2>3
    <3>2. j \notin I  BY <2>1, <3>1
    <3> QED  BY <3>1, <3>2
  <2>6. PathPart(uri) = SubSeq(uri, 1, q - 1)  BY <1>2, <1>3, <1>5, <2>2, <2>4
  <2>7. DOMAIN PathPart(uri) = 1..q - 1
    <3>1. IsSequence(SubSeq(uri, 1, q - 1)) /\ Len(SubSeq(uri, 1, q - 1)) = q - 1
      BY <2>4, Beginning
    <3> QED  BY <2>6, <3>1, Beginning
  <2>8. q - 1 # Len(uri) /\ IsSequence(PathPart(uri))  BY <1>1, <2>3, <2>4, <2>6, Beginning
  <2> QED  BY <2>3, <2>4, <2>5, <2>7, <2>8
<1> QED  BY <1>4, <1>5

(* What is not empty has an element.                                       *)
LEMMA NotEmpty ==
  ASSUME NEW s, IsSequence(s), s # <<>>
  PROVE  Len(s) \in Nat /\ Len(s) > 0
<1> DEFINE T == ToSet(s)
<1>1. s \in Seq(T)  BY DEF IsSequence
<1> HIDE DEF T
<1> QED  BY <1>1

(* A part of a sequence is one.                                            *)
LEMMA PartOf ==
  ASSUME NEW s, IsSequence(s), NEW a \in Nat, a > 0, NEW b \in Int, b <= Len(s)
  PROVE  IsSequence(SubSeq(s, a, b))
<1> DEFINE T == ToSet(s)
           p == SubSeq(s, a, b)
<1>1. s \in Seq(T)  BY DEF IsSequence
<1> HIDE DEF T
<1>2. p \in Seq(T)  BY <1>1
<1> HIDE DEF p
<1>3. IsSequence(p)  BY <1>2, AnySequence
<1> QED  BY <1>3 DEF p

(* What is put together of two sequences is one.                           *)
LEMMA Glued ==
  ASSUME NEW s, IsSequence(s), NEW t, IsSequence(t)
  PROVE  IsSequence(s \o t)
<1> DEFINE A == ToSet(s)
           B == ToSet(t)
           u == s \o t
<1>1. s \in Seq(A) /\ t \in Seq(B)  BY DEF IsSequence
<1> HIDE DEF A, B
<1>2. s \in Seq(A \cup B) /\ t \in Seq(A \cup B)  BY <1>1
<1>3. u \in Seq(A \cup B)  BY <1>2, Joined
<1> HIDE DEF u
<1>4. IsSequence(u)  BY <1>3, AnySequence
<1> QED  BY <1>4 DEF u

(* A path without its slash at the end, with one, and without its name.    *)
LEMMA Slashes ==
  ASSUME NEW p, IsSequence(p)
  PROVE  /\ IsSequence(Unslashed(p)) /\ IsSequence(Slashed(p))
         /\ Slashed(p) = Append(Unslashed(p), "/") /\ IsSequence(DirOf(Unslashed(p)))
<1>1. \A q : IsSequence(q) => IsSequence(Front(q))
  <2> SUFFICES ASSUME NEW q, IsSequence(q) PROVE IsSequence(Front(q))  OBVIOUS
  <2>1. Len(q) - 1 \in Int /\ Len(q) - 1 <= Len(q)  BY Beginning
  <2> QED  BY <2>1, PartOf DEF Front
<1> PICK u : u = Unslashed(p)  OBVIOUS
<1>2. IsSequence(u)  BY <1>1 DEF Unslashed
<1>3. u \o <<"/">> = Append(u, "/") /\ IsSequence(u \o <<"/">>)
  <2> DEFINE T == ToSet(u)
             U == T \cup {"/"}
  <2>1. u \in Seq(T)  BY <1>2 DEF IsSequence
  <2> HIDE DEF T
  <2>2. u \in Seq(U) /\ "/" \in U /\ <<"/">> \in Seq(U)  BY <2>1
  <2> HIDE DEF U
  <2>3. u \o <<"/">> = Append(u, "/")  BY <2>2
  <2>4. Append(u, "/") \in Seq(U)  BY <2>2
  <2>5. IsSequence(Append(u, "/"))  BY <2>4, AnySequence
  <2> QED  BY <2>3, <2>5
<1>4. IsSequence(DirOf(u))  BY <1>1, <1>2 DEF DirOf
<1> QED  BY <1>2, <1>3, <1>4 DEF Slashed

(***************************************************************************)
(* Where paths lead                                                        *)
(***************************************************************************)

(* The way along s: where it starts, and where each token leads.           *)
Leads(f, s, n) == f[0] = <<>> /\ \A k \in 1..n : f[k] = Enter(f[k - 1], s[k])

(* The place of a path is where its last token leads.                      *)
LEMMA PlaceSteps ==
  ASSUME NEW s, NEW n \in Nat, DOMAIN s = 1..n
  PROVE  \E f : Leads(f, s, n) /\ Place(s) = f[n]
<1> DEFINE Of(g, t) == IF t = {} THEN <<>> ELSE Enter(g[t \ {Max(t)}], s[Max(t)])
           Whole(g, m) == g = [t \in SUBSET (1..m) |-> Of(g, t)]
           whole == CHOOSE g : Whole(g, n)
<1>1. \A m \in 0..n : \E g : Whole(g, m)
  <2> DEFINE S == {m \in 0..n : \E g : Whole(g, m)}
  <2>1. 0 \in S
    <3> DEFINE g == [t \in SUBSET (1..0) |-> <<>>]
    <3>1. \A t \in SUBSET (1..0) : t = {}  OBVIOUS
    <3>2. Whole(g, 0)  BY <3>1
    <3> HIDE DEF Whole, g
    <3> QED  BY <3>2
  <2>2. ASSUME NEW m \in 0..n - 1, m \in S PROVE m + 1 \in S
    <3>1. PICK g : Whole(g, m)  BY <2>2
    <3> DEFINE h == [t \in SUBSET (1..m + 1) |->
                       IF m + 1 \in t THEN Enter(g[t \ {m + 1}], s[m + 1]) ELSE g[t]]
    <3>2. ASSUME NEW t \in SUBSET (1..m + 1) PROVE h[t] = Of(h, t)
      <4>1. CASE m + 1 \in t
        <5>1. t \ {m + 1} \in SUBSET (1..m) /\ t \ {m + 1} \in SUBSET (1..m + 1)  OBVIOUS
        <5>2. m + 1 \notin t \ {m + 1}  OBVIOUS
        <5>3. h[t \ {m + 1}] = g[t \ {m + 1}]  BY <5>1, <5>2
        <5>4. Max(t) = m + 1
          <6>1. \A y \in t : m + 1 >= y /\ y \in 1..m + 1  OBVIOUS
          <6>2. \A x \in t : (\A y \in t : x >= y) => x = m + 1  BY <4>1, <6>1
          <6> QED  BY <4>1, <6>1, <6>2 DEF Max
        <5>5. t # {}  BY <4>1
        <5>6. h[t] = Enter(g[t \ {m + 1}], s[m + 1])  BY <4>1
        <5> HIDE DEF h
        <5> QED  BY <5>3, <5>4, <5>5, <5>6
      <4>2. CASE m + 1 \notin t
        <5>1. t \in SUBSET (1..m)  BY <4>2
        <5>2. h[t] = g[t] /\ g[t] = Of(g, t)  BY <3>1, <4>2, <5>1
        <5>3. CASE t = {}  BY <5>2, <5>3
        <5>4. CASE t # {}
          <6> DEFINE u == t \ {Max(t)}
          <6>1. u \in SUBSET (1..m) /\ u \in SUBSET (1..m + 1) /\ m + 1 \notin u
            <7>1. u \subseteq t /\ t \subseteq 1..m  BY <5>1
            <7>2. m + 1 \notin 1..m /\ 1..m \subseteq 1..m + 1  OBVIOUS
            <7> HIDE DEF u
            <7> QED  BY <7>1, <7>2
          <6>2. h[u] = g[u]  BY <6>1
          <6> HIDE DEF h
          <6> QED  BY <5>2, <5>4, <6>2
        <5> QED  BY <5>3, <5>4
      <4> QED  BY <4>1, <4>2
    <3>3. Whole(h, m + 1)
      <4>1. h = [t \in SUBSET (1..m + 1) |-> h[t]]  OBVIOUS
      <4> HIDE DEF h, Of
      <4> QED  BY <3>2, <4>1
    <3>4. m + 1 \in 0..n  OBVIOUS
    <3> HIDE DEF Whole, h
    <3> QED  BY <3>3, <3>4
  <2> HIDE DEF S
  <2>3. \A m \in 0..n : m \in S  BY <2>1, <2>2, Counting
  <2> QED  BY <2>3 DEF S
<1>2. Whole(whole, n)
  <2> HIDE DEF Whole
  <2> QED  BY <1>1
<1>3. Place(s) = whole[1..n]
  BY DEF Place, FoldLeft, MapThenFoldSet
<1> HIDE DEF whole
<1> DEFINE f == [k \in 0..n |-> whole[1..k]]
<1>4. \A k \in 0..n : 1..k \in SUBSET (1..n)  OBVIOUS
<1>5. f[0] = <<>>
  <2>1. 1..0 = {}  OBVIOUS
  <2>2. f[0] = whole[1..0]  OBVIOUS
  <2> HIDE DEF f
  <2> QED  BY <1>2, <2>1, <2>2
<1>6. \A k \in 1..n : f[k] = Enter(f[k - 1], s[k])
  <2> TAKE k \in 1..n
  <2>1. k \in 0..n /\ k - 1 \in 0..n  OBVIOUS
  <2>2. (1..k) \ {k} = 1..k - 1 /\ 1..k # {}  OBVIOUS
  <2>3. Max(1..k) = k
    <3>1. \A y \in 1..k : k >= y  OBVIOUS
    <3>2. \A x \in 1..k : (\A y \in 1..k : x >= y) => x = k  OBVIOUS
    <3>3. k \in 1..k  OBVIOUS
    <3> QED  BY <3>1, <3>2, <3>3 DEF Max
  <2>4. f[k] = whole[1..k] /\ f[k - 1] = whole[1..k - 1]  BY <2>1
  <2> HIDE DEF f
  <2>5. whole[1..k] = Of(whole, 1..k)  BY <1>2, <1>4, <2>1
  <2> QED  BY <2>2, <2>3, <2>4, <2>5
<1>7. f[n] = whole[1..n]  OBVIOUS
<1> HIDE DEF f
<1> QED  BY <1>3, <1>5, <1>6, <1>7 DEF Leads


(* Every place is a sequence.                                              *)
LEMMA PlaceIsSequence ==
  ASSUME NEW s, IsSequence(s)
  PROVE  IsSequence(Place(s))
<1> PICK n : n = Len(s)  OBVIOUS
<1>1. n \in Nat /\ DOMAIN s = 1..n  BY Beginning
<1>2. PICK f : Leads(f, s, n) /\ Place(s) = f[n]  BY <1>1, PlaceSteps
<1> DEFINE S == {k \in 0..n : IsSequence(f[k])}
<1>3. 0 \in S
  <2>1. <<>> \in Seq({})  OBVIOUS
  <2>2. IsSequence(<<>>)  BY <2>1, AnySequence
  <2> QED  BY <1>1, <1>2, <2>2 DEF Leads
<1>4. ASSUME NEW k \in 0..n - 1, k \in S PROVE k + 1 \in S
  <2> PICK a : a = f[k]  OBVIOUS
  <2> PICK c : c = s[k + 1]  OBVIOUS
  <2>1. k + 1 \in 1..n /\ k + 1 \in 0..n /\ (k + 1) - 1 = k  BY <1>1
  <2>2. f[k + 1] = Enter(a, c)  BY <1>2, <2>1 DEF Leads
  <2>3. IsSequence(a)  BY <1>4
  <2>4. /\ IsSequence(Nowhere) /\ IsSequence(Unslashed(a)) /\ IsSequence(Slashed(a))
        /\ IsSequence(DirOf(Unslashed(a))) /\ IsSequence(Append(a, c))
    <3>1. <<"">> \in Seq({""})  OBVIOUS
    <3>2. IsSequence(Nowhere)  BY <3>1, AnySequence DEF Nowhere
    <3>3. IsSequence(Append(a, c))  BY <2>3, OneMore
    <3> QED  BY <2>3, <3>2, <3>3, Slashes
  <2>5. Enter(a, c) \in {Nowhere, Unslashed(a), Slashed(a), DirOf(Unslashed(a)), Append(a, c)}
    BY DEF Enter
  <2>6. IsSequence(f[k + 1])  BY <2>2, <2>4, <2>5
  <2> QED  BY <2>1, <2>6
<1> HIDE DEF S
<1>5. \A k \in 0..n : k \in S  BY <1>1, <1>3, <1>4, Counting
<1> QED  BY <1>1, <1>2, <1>5 DEF S

(* A path that mentions an upload still does without its slash at the end, *)
(* and with one more token.                                                *)
LEMMA StillMentions ==
  ASSUME NEW p, IsSequence(p), Mentions(p)
  PROVE  Mentions(Unslashed(p)) /\ \A c : Mentions(Append(p, c))
<1> PICK n : n = Len(p)  OBVIOUS
<1>1. n \in Nat /\ DOMAIN p = 1..n  BY Beginning
<1>2. PICK k \in 1..n - 2 : p[k] \in LikeContent /\ p[k + 1] = "/" /\ p[k + 2] \in LikeUpload
  BY DEF Mentions
<1>3. ASSUME NEW q, NEW m \in Nat, Len(q) = m, \A i \in 1..k + 2 : q[i] = p[i], k + 2 <= m
      PROVE  Mentions(q)
  <2>1. k \in 1..k + 2 /\ k + 1 \in 1..k + 2 /\ k + 2 \in 1..k + 2 /\ k \in 1..m - 2
    BY <1>1, <1>3
  <2> QED  BY <1>2, <1>3, <2>1 DEF Mentions
<1>4. Mentions(Unslashed(p))
  <2>1. CASE p # <<>> /\ Last(p) = "/"
    <3>1. k + 2 # n  BY <1>2, <2>1, SiteAssumption DEF Last
    <3>2. n - 1 \in 0..n /\ k + 2 <= n - 1  BY <1>1, <3>1
    <3>3. Unslashed(p) = SubSeq(p, 1, n - 1)  BY <2>1 DEF Unslashed, Front
    <3>4. Len(Unslashed(p)) = n - 1 /\ \A i \in 1..n - 1 : Unslashed(p)[i] = p[i]
      BY <3>2, <3>3, Beginning
    <3>5. \A i \in 1..k + 2 : i \in 1..n - 1  BY <1>1, <3>2
    <3>6. n - 1 \in Nat  BY <1>1, <3>2
    <3> QED  BY <1>3, <3>2, <3>4, <3>5, <3>6
  <2>2. CASE ~(p # <<>> /\ Last(p) = "/")  BY <2>2 DEF Unslashed
  <2> QED  BY <2>1, <2>2
<1>5. ASSUME NEW c PROVE Mentions(Append(p, c))
  <2>1. Len(Append(p, c)) = n + 1 /\ \A i \in 1..n : Append(p, c)[i] = p[i]  BY OneMore
  <2>2. n + 1 \in Nat /\ k + 2 <= n + 1 /\ \A i \in 1..k + 2 : i \in 1..n  BY <1>1
  <2> QED  BY <1>3, <2>1, <2>2
<1> QED  BY <1>4, <1>5

(* Where a path leads without going back: the last token is the last of    *)
(* the place, a slash follows the name before it, and what was mentioned   *)
(* on the way still is.                                                    *)
FollowsTo(s, k, here) ==
  here # Nowhere =>
    /\ IsSequence(here)
    /\ k > 0 /\ s[k] \notin {"/", "."} => here # <<>> /\ Last(here) = s[k]
    /\ k > 1 /\ s[k] = "/" /\ s[k - 1] \notin {"/", "."} =>
         Len(here) > 1 /\ here[Len(here)] = "/" /\ here[Len(here) - 1] = s[k - 1]
    /\ (\E j \in 1..k - 2 : s[j] \in LikeContent /\ s[j + 1] = "/" /\ s[j + 2] \in LikeUpload) =>
         Mentions(here)

(* One token further.                                                      *)
LEMMA FollowsOn ==
  ASSUME NEW s, NEW k \in Nat, NEW c, c = s[k + 1], c # "..",
         NEW here, FollowsTo(s, k, here)
  PROVE  FollowsTo(s, k + 1, Enter(here, c))
<1> PICK there : there = Enter(here, c)  OBVIOUS
<1> SUFFICES ASSUME there # Nowhere PROVE FollowsTo(s, k + 1, there)  BY DEF FollowsTo
<1> DEFINE Passed(m) ==
             \E j \in 1..m - 2 : s[j] \in LikeContent /\ s[j + 1] = "/" /\ s[j + 2] \in LikeUpload
           Now == k > 1 /\ s[k - 1] \in LikeContent /\ s[k] = "/" /\ s[k + 1] \in LikeUpload
<1>1. here # Nowhere  BY DEF Enter
<1>2. /\ IsSequence(here)
      /\ k > 0 /\ s[k] \notin {"/", "."} => here # <<>> /\ Last(here) = s[k]
      /\ k > 1 /\ s[k] = "/" /\ s[k - 1] \notin {"/", "."} =>
           Len(here) > 1 /\ here[Len(here)] = "/" /\ here[Len(here) - 1] = s[k - 1]
      /\ Passed(k) => Mentions(here)
  BY <1>1 DEF FollowsTo
<1>3. ASSUME Passed(k + 1) PROVE Passed(k) \/ Now
  <2>1. PICK j \in 1..k - 1 : s[j] \in LikeContent /\ s[j + 1] = "/" /\ s[j + 2] \in LikeUpload
    BY <1>3
  <2>2. CASE j = k - 1
    <3>1. j + 1 = k /\ j + 2 = k + 1 /\ k > 1  BY <2>2
    <3> QED  BY <2>1, <2>2, <3>1
  <2>3. CASE j # k - 1
    <3>1. j \in 1..k - 2  BY <2>3
    <3> QED  BY <2>1, <3>1
  <2> QED  BY <2>2, <2>3
<1> HIDE DEF Passed
<1>4. k + 1 > 0 /\ (k + 1) - 1 = k /\ (k + 1 > 1 <=> k > 0)  OBVIOUS
<1>5. SUFFICES
        /\ IsSequence(there)
        /\ c \notin {"/", "."} => there # <<>> /\ Last(there) = c
        /\ k > 0 /\ c = "/" /\ s[k] \notin {"/", "."} =>
             Len(there) > 1 /\ there[Len(there)] = "/" /\ there[Len(there) - 1] = s[k]
        /\ Passed(k + 1) => Mentions(there)
  BY <1>4 DEF FollowsTo, Passed
<1>6. CASE c = "/"
  <2> PICK u : u = Unslashed(here)  OBVIOUS
  <2>1. there = Append(u, "/") /\ IsSequence(u)  BY <1>1, <1>2, <1>6, Slashes DEF Enter
  <2> PICK n : n = Len(u)  OBVIOUS
  <2>2. n \in Nat /\ IsSequence(there) /\ Len(there) = n + 1 /\ there[n + 1] = "/"
        /\ \A i \in 1..n : there[i] = u[i]
    BY <2>1, OneMore
  <2>3. ASSUME k > 0, s[k] \notin {"/", "."}
        PROVE  Len(there) > 1 /\ there[Len(there)] = "/" /\ there[Len(there) - 1] = s[k]
    <3>1. u = here /\ u # <<>> /\ u[n] = s[k]  BY <1>2, <2>3 DEF Unslashed, Last
    <3>2. n \in 1..n  BY <1>2, <2>2, <3>1, NotEmpty
    <3> QED  BY <2>2, <3>1, <3>2
  <2>4. Passed(k + 1) => Mentions(there)
    <3>1. ~Now  BY <1>6, SiteAssumption
    <3> QED  BY <1>2, <1>3, <2>1, <3>1, StillMentions
  <2> QED  BY <1>6, <2>2, <2>3, <2>4
<1>7. CASE c = "."
  <2>1. there = Unslashed(here)  BY <1>1, <1>7 DEF Enter
  <2>2. IsSequence(there)  BY <1>2, <2>1, Slashes
  <2>3. ~Now  BY <1>7, SiteAssumption
  <2> QED  BY <1>2, <1>3, <1>7, <2>1, <2>2, <2>3, StillMentions
<1>8. CASE c \notin {"/", "."}
  <2>1. there = Append(here, c)  BY <1>1, <1>8 DEF Enter
  <2> PICK n : n = Len(here)  OBVIOUS
  <2>2. n \in Nat /\ IsSequence(there) /\ Len(there) = n + 1 /\ there[n + 1] = c
        /\ \A i \in 1..n : there[i] = here[i]
    BY <1>2, <2>1, OneMore
  <2>3. there # <<>> /\ Last(there) = c
    <3>1. Len(<<>>) = 0 /\ n + 1 # 0  BY <2>2
    <3> QED  BY <2>2, <3>1 DEF Last
  <2>4. ASSUME Now PROVE Mentions(there)
    <3>1. s[k - 1] \notin {"/", "."}  BY <2>4, SiteAssumption
    <3>2. n > 1 /\ here[n] = "/" /\ here[n - 1] = s[k - 1]  BY <1>2, <2>4, <3>1
    <3>3. n - 1 \in 1..n /\ n \in 1..n /\ n - 1 \in 1..(n + 1) - 2
          /\ (n - 1) + 1 = n /\ (n - 1) + 2 = n + 1
      BY <2>2, <3>2
    <3>4. /\ there[n - 1] \in LikeContent /\ there[n] = "/" /\ there[n + 1] \in LikeUpload
      BY <2>2, <2>4, <3>2, <3>3
    <3> QED  BY <2>2, <3>3, <3>4 DEF Mentions
  <2> QED  BY <1>2, <1>3, <1>8, <2>1, <2>2, <2>3, <2>4, StillMentions
<1> QED  BY <1>6, <1>7, <1>8

(* A path that mentions an upload leads to a place that does, unless it    *)
(* goes back.                                                              *)
LEMMA PlaceMentions ==
  ASSUME NEW s, IsSequence(s), ".." \notin ToSet(s), Mentions(s), Place(s) # Nowhere
  PROVE  Mentions(Place(s))
<1> PICK n : n = Len(s)  OBVIOUS
<1>1. n \in Nat /\ DOMAIN s = 1..n  BY Beginning
<1>2. PICK f : Leads(f, s, n) /\ Place(s) = f[n]  BY <1>1, PlaceSteps
<1> DEFINE S == {k \in 0..n : FollowsTo(s, k, f[k])}
<1>3. 0 \in S
  <2>1. f[0] = <<>> /\ IsSequence(<<>>)
    <3>1. <<>> \in Seq({})  OBVIOUS
    <3> QED  BY <1>2, <3>1, AnySequence DEF Leads
  <2>2. \A j \in 1..0 - 2 : FALSE  OBVIOUS
  <2> QED  BY <1>1, <2>1, <2>2 DEF FollowsTo
<1>4. ASSUME NEW k \in 0..n - 1, k \in S PROVE k + 1 \in S
  <2>1. k \in Nat /\ k + 1 \in 1..n /\ k + 1 \in 0..n /\ (k + 1) - 1 = k  BY <1>1
  <2>2. f[k + 1] = Enter(f[k], s[k + 1])  BY <1>2, <2>1 DEF Leads
  <2>3. s[k + 1] # ".."  BY <1>1, <2>1 DEF ToSet
  <2>4. FollowsTo(s, k + 1, f[k + 1])  BY <1>4, <2>1, <2>2, <2>3, FollowsOn
  <2> QED  BY <2>1, <2>4
<1> HIDE DEF S
<1>5. \A k \in 0..n : k \in S  BY <1>1, <1>3, <1>4, Counting
<1>6. FollowsTo(s, n, f[n])  BY <1>1, <1>5 DEF S
<1> QED  BY <1>2, <1>6 DEF FollowsTo, Mentions

(***************************************************************************)
(* The names of uploads                                                    *)
(***************************************************************************)

(* The types that setFileName() may put into a name.                       *)
ImageTypes == {"", "png", "jpg"}
IsImageName(p) == \E n \in Nat, t \in ImageTypes : p = ImageName(n, t)

(* What decimal numerals and the names give: images of one type and other  *)
(* numbers have other names, and none is a listing, the texts' file or "/".*)
NamesApart ==
  /\ \A t \in ImageTypes : \A k, j \in Nat : ImageName(k, t) = ImageName(j, t) => k = j
  /\ \A t \in ImageTypes : \A k \in Nat :
       Last(ImageName(k, t)) \notin {"autoindex.html", "listing.json", "hello.txt", "/"}

(* The upload directory is a sequence, and so is a name in it.             *)
LEMMA InUploads ==
  /\ \A b : LET p == UploadDir \o <<"/", b>>
            IN IsSequence(p) /\ Last(p) = b /\ DirOf(p) = UploadDir
  /\ IsSequence(UploadDir)
<1>1. ASSUME NEW b
      PROVE  LET p == UploadDir \o <<"/", b>>
             IN IsSequence(p) /\ Last(p) = b /\ DirOf(p) = UploadDir
  <2> DEFINE T == {"content", "/", "upload", b}
             p == UploadDir \o <<"/", b>>
  <2>1. UploadDir \in Seq(T) /\ "/" \in T /\ b \in T  BY DEF UploadDir
  <2> HIDE DEF T
  <2>2. p \in Seq(T) /\ Last(p) = b /\ DirOf(p) = UploadDir  BY <2>1, NameInDir
  <2> HIDE DEF p
  <2>3. IsSequence(p)
    <3>1. p \in Seq(T)  BY <2>2
    <3> QED  BY <3>1, AnySequence
  <2> QED  BY <2>2, <2>3 DEF p
<1>2. IsSequence(UploadDir)
  <2> DEFINE T == {"content", "/", "upload"}
  <2>1. UploadDir \in Seq(T)  BY DEF UploadDir
  <2> QED  BY <2>1, AnySequence
<1> QED  BY <1>1, <1>2

(* Names of images, of the texts' file and of the listing.                 *)
LEMMA UploadNames ==
  /\ \A n, t : IsSequence(ImageName(n, t)) /\ DirOf(ImageName(n, t)) = UploadDir
  /\ IsSequence(TextPath) /\ Last(TextPath) = "hello.txt" /\ DirOf(TextPath) = UploadDir
  /\ IsSequence(JsonPath) /\ Last(JsonPath) = "listing.json" /\ DirOf(JsonPath) = UploadDir
<1>1. \A n, t : IsSequence(ImageName(n, t)) /\ DirOf(ImageName(n, t)) = UploadDir
  <2> TAKE n, t
  <2> DEFINE b == "image" \o (IF n = 0 THEN "" ELSE ToString(n)) \o "." \o t
  <2>1. ImageName(n, t) = UploadDir \o <<"/", b>>  BY DEF ImageName
  <2> HIDE DEF b
  <2> QED  BY <2>1, InUploads
<1> QED  BY <1>1, InUploads DEF TextPath, JsonPath

(* Uploads keep away from the pages and the texts.                         *)
LEMMA OthersNames ==
  ASSUME NamesApart, NEW p, IsImageName(p)
  PROVE  p # TextPath /\ p # JsonPath
<1>1. Last(p) \notin {"listing.json", "hello.txt"}  BY DEF NamesApart, IsImageName
<1> QED  BY <1>1, UploadNames

(* setFileName() finds a name that no file has.                            *)
LEMMA FreeName ==
  ASSUME NamesApart, IsFiniteSet(DOMAIN files), NEW type \in ImageTypes
  PROVE  IsImageName(SetFileName(type)) /\ SetFileName(type) \notin DOMAIN files
<1> DEFINE F == DOMAIN files
           N == Cardinality(F)
           S == {k \in 0..N : ImageName(k, type) \notin F}
           Free(k) == /\ ImageName(k, type) \notin DOMAIN files
                      /\ \A j \in 0..k - 1 : ImageName(j, type) \in DOMAIN files
<1>1. N \in Nat  BY FS_CardinalityType
<1> HIDE DEF N
<1>2. S # {}
  <2> SUFFICES ASSUME S = {} PROVE FALSE  OBVIOUS
  <2> DEFINE g == [k \in 0..N |-> ImageName(k, type)]
  <2>1. g \in [0..N -> F]  OBVIOUS
  <2>2. IsFiniteSet(0..N) /\ Cardinality(0..N) = N + 1
    <3>1. 0 \in Int /\ N \in Int /\ ~(0 > N) /\ N - 0 + 1 = N + 1  BY <1>1
    <3> QED  BY <3>1, FS_Interval
  <2>3. Cardinality(F) < Cardinality(0..N)  BY <1>1, <2>2 DEF N
  <2>4. \E x, y \in 0..N : x # y /\ g[x] = g[y]
    <3> DEFINE I == 0..N
    <3>1. /\ IsFiniteSet(I) /\ IsFiniteSet(F) /\ Cardinality(F) < Cardinality(I)
          /\ g \in [I -> F]
      BY <2>1, <2>2, <2>3
    <3> HIDE DEF g, F, I
    <3>2. \E x, y \in I : x # y /\ g[x] = g[y]  BY <3>1, FS_PigeonHole
    <3> QED  BY <3>2 DEF I
  <2>5. PICK x, y \in 0..N : x # y /\ ImageName(x, type) = ImageName(y, type)  BY <2>4
  <2>6. x \in Nat /\ y \in Nat  BY <1>1
  <2> QED  BY <2>5, <2>6 DEF NamesApart
<1>3. PICK k \in S : \A j \in S : k <= j
  <2>1. S \in SUBSET Nat  BY <1>1
  <2> HIDE DEF S
  <2> QED  BY <1>2, <2>1, LeastExists
<1>4. k \in 0..N /\ ImageName(k, type) \notin F  OBVIOUS
<1>5. \A j \in 0..k - 1 : ImageName(j, type) \in F
  <2> TAKE j \in 0..k - 1
  <2>1. j \in 0..N /\ ~(k <= j)  BY <1>1, <1>4
  <2>2. j \notin S  BY <1>3, <2>1
  <2> QED  BY <2>1, <2>2
<1>6. \E i \in 0..Cardinality(DOMAIN files) : Free(i)  BY <1>4, <1>5 DEF N
<1> DEFINE c == CHOOSE i \in 0..Cardinality(DOMAIN files) : Free(i)
<1>7. c \in 0..Cardinality(DOMAIN files) /\ Free(c)
  <2> HIDE DEF Free
  <2> QED  BY <1>6
<1>8. SetFileName(type) = ImageName(c, type)  BY DEF SetFileName
<1> HIDE DEF c
<1>9. c \in Nat  BY <1>1, <1>7 DEF N
<1> QED  BY <1>7, <1>8, <1>9 DEF IsImageName

(***************************************************************************)
(* Requests                                                                *)
(***************************************************************************)

(* A body that was sent as it is meant is understood: nothing is wrong     *)
(* with it, it is not too short, and its data is what is left of it.       *)
LEMMA SentUnderstood ==
  ASSUME NEW i \in AllInputs, SentAsMeant(i)
  PROVE  BodyError(i) = 0 /\ ~Erased(i) /\ Data(i) = i.data
<1>1. CASE IsMultipart(i)
  <2> DEFINE m == Multipart(i.body)
             D == ToSet(i.data)
  <2>1. Parsed[i] = m  BY <1>1 DEF Parsed
  <2>2. PICK type \in DOMAIN MediaOf :
          MediaOf[type] # "unsupported" /\ i.body = Part(<<type>>, i.data)
    BY <1>1 DEF SentAsMeant
  <2>3. i.data \in Seq(D)  BY DataAssumption DEF IsSequence
  <2> HIDE DEF D
  <2>4. m.error = 0 /\ ~TooShort(m.data) /\ WithoutEnding(m.data) = i.data
    BY <2>2, <2>3, PartUnderstood
  <2> HIDE DEF m
  <2> QED  BY <1>1, <2>1, <2>4 DEF BodyError, Erased, Data
<1>2. CASE ~IsMultipart(i)
  BY <1>2 DEF BodyError, Erased, Data, SentAsMeant
<1> QED  BY <1>1, <1>2

(* An image that is not empty is one of these.                             *)
LEMMA ImageUnderstood ==
  ASSUME NEW i \in AllInputs, Media(i) \in {"png", "jpg"}, i.data # <<>>
  PROVE  IsMultipart(i) /\ BodyError(i) = 0 /\ ~Erased(i) /\ Data(i) = i.data
<1>1. IsMultipart(i) /\ SentAsMeant(i)  BY DataAssumption
<1> QED  BY <1>1, SentUnderstood

(* Every variable has its type; the server is one that was built.          *)
FilesTyped == IsFiniteSet(DOMAIN files) /\ \A p \in DOMAIN files : IsSequence(p)
Typed ==
  /\ file \in DOMAIN Files
  /\ site # NoSite => \E k \in DOMAIN Built[file] : site = Built[file][k]
  /\ dirs \subseteq Directories /\ FilesTyped
  /\ asked \in [Requests -> AllInputs \cup {NoInput}]
  /\ phase \in [Requests -> {"none", "body", "done"}]
  /\ \A r \in Requests : phase[r] # "none" => asked[r] \in AllInputs

(* A request that is checked is one that may come.                         *)
LEMMA Comes ==
  ASSUME Typed, NEW methods, NEW e \in Checked(methods)
  PROVE  /\ e.input \in AllInputs /\ e.input.method \in methods
         /\ \E t : /\ t.path = Destination(site.settings, site.locations, e.input.uri).path
                   /\ t.at = Walk(site.locations, e.input.uri)
                   /\ e.to = CheckRequest(e.input, t)
<1>1. PICK i \in {j \in Inputs[file] : j.method \in methods} :
        LET there == Destination(site.settings, site.locations, i.uri)
        IN e = [input |-> i, to |-> CheckRequest(i, there)]
  BY DEF Checked
<1> DEFINE there == Destination(site.settings, site.locations, i.uri)
<1>2. e.input = i /\ e.to = CheckRequest(i, there)  BY <1>1
<1>3. i \in AllInputs
  <2>1. file \in DOMAIN Files  BY DEF Typed
  <2> QED  BY <2>1 DEF AllInputs
<1>4. there.at = Walk(site.locations, i.uri)  BY DEF Destination
<1> HIDE DEF there
<1> QED  BY <1>1, <1>2, <1>3, <1>4 DEF there

(* A location that is found is one of the server's.                        *)
LEMMA WalkFinds ==
  ASSUME NEW locations, IsSequence(locations), NEW uri
  PROVE  LET n == Walk(locations, uri) IN n > 0 => n \in DOMAIN locations
<1>1. DOMAIN locations = 1..Len(locations) /\ Len(locations) \in Nat
  <2> DEFINE T == ToSet(locations)
  <2>1. locations \in Seq(T)  BY DEF IsSequence
  <2> HIDE DEF T
  <2> QED  BY <2>1
<1>2. ASSUME NEW name PROVE FirstNamed(locations, name) \in {0} \cup DOMAIN locations
  <2> DEFINE I == {i \in 1..Len(locations) : locations[i].name = name}
  <2>1. FirstNamed(locations, name) = IF I # {} THEN Min(I) ELSE 0
    BY DEF FirstNamed, SelectInSeq
  <2>2. ASSUME I # {} PROVE Min(I) \in I
    <3>1. I \in SUBSET Nat  OBVIOUS
    <3> HIDE DEF I
    <3>2. \E x \in I : \A y \in I : x <= y  BY <2>2, <3>1, LeastExists
    <3> QED  BY <3>2 DEF Min
  <2> QED  BY <1>1, <2>1, <2>2
<1>3. Walk(locations, uri) \in {0} \cup DOMAIN locations
  BY <1>2 DEF Walk
<1> QED  BY <1>3

(* A root and what follows a location in a URI are a path.                 *)
LEMMA TranslatedIsSequence ==
  ASSUME NEW s, s.redirect = <<>>, IsSequence(s.root), NEW path, IsSequence(path)
  PROVE  IsSequence(Translated(s, path))
<1> DEFINE rest == IF Len(s.name) > 1 THEN SubSeq(path, Len(s.name) + 1, Len(path)) ELSE path
           p == s.root \o rest
<1>1. IsSequence(rest)
  <2>1. Len(path) \in Nat  BY Beginning
  <2>2. PICK n : n = Len(s.name)  OBVIOUS
  <2>3. CASE n > 1 /\ n \in Nat
    <3>1. IsSequence(SubSeq(path, n + 1, Len(path)))  BY <2>1, <2>3, PartOf
    <3> QED  BY <2>2, <2>3, <3>1
  <2> QED  BY <2>2, <2>3
<1> HIDE DEF rest
<1>2. IsSequence(p)  BY <1>1, Glued
<1> HIDE DEF p
<1>3. IsSequence(OneSlash(p))
  <2>1. CASE Len(p) > 1 /\ p[1] = "/" /\ p[2] = "/"
    <3>1. Tail(p) = SubSeq(p, 2, Len(p))  OBVIOUS
    <3>2. IsSequence(SubSeq(p, 2, Len(p)))  BY <1>2, Beginning, PartOf
    <3> QED  BY <2>1, <3>1, <3>2 DEF OneSlash
  <2>2. CASE ~(Len(p) > 1 /\ p[1] = "/" /\ p[2] = "/")  BY <1>2, <2>2 DEF OneSlash
  <2> QED  BY <2>1, <2>2
<1> QED  BY <1>3 DEF Translated, p, rest

(* A request that is let through asks by a path, with a method that the    *)
(* settings allow.                                                         *)
LEMMA LetThrough ==
  ASSUME Typed, site # NoSite, NEW methods, NEW e \in Checked(methods), e.to.code = 200
  PROVE  /\ e.input.uri[1] = "/"
         /\ e.input.method \in
              SettingsAt(site.settings, site.locations, Walk(site.locations, e.input.uri)).methods
         /\ IsSequence(e.to.path)
<1>1. PICK t : /\ t.path = Destination(site.settings, site.locations, e.input.uri).path
               /\ t.at = Walk(site.locations, e.input.uri)
               /\ e.to = CheckRequest(e.input, t)
  BY Comes
<1> DEFINE s == SettingsOf(t)
           routing == CheckUri(s, t, Exists(t.path), e.input.uri)
<1>2. PICK k \in DOMAIN Built[file] : site = Built[file][k]  BY DEF Typed
<1>3. IsSequence(s.index) /\ IsSequence(s.root)
  <2>1. /\ IsSequence(site.settings.index) /\ IsSequence(site.settings.root)
        /\ IsSequence(site.locations)
        /\ \A j \in DOMAIN site.locations :
             IsSequence(site.locations[j].index) /\ IsSequence(site.locations[j].root)
    <3>1. file \in DOMAIN Files  BY DEF Typed
    <3> QED  BY <1>2, <3>1, LocationAssumption
  <2>2. t.at > 0 => t.at \in DOMAIN site.locations  BY <1>1, <2>1, WalkFinds
  <2> QED  BY <2>1, <2>2 DEF SettingsOf, SettingsAt
<1>4. s = SettingsAt(site.settings, site.locations, Walk(site.locations, e.input.uri))
  BY <1>1 DEF SettingsOf
<1> HIDE DEF s
<1>5. e.to = CheckMethod(s, routing, e.input.method)  BY <1>1 DEF CheckRequest, s
<1>6. routing.code = 200 /\ e.to = routing /\ e.input.method \in s.methods
  <2>1. routing = Routed(routing.code, routing.path, routing.at)
    BY DEF routing, CheckUri, Routed
  <2> HIDE DEF routing
  <2>2. CASE routing.code < 400 /\ e.input.method \notin s.methods
    <3>1. e.to = [routing EXCEPT !.code = 405]  BY <1>5, <2>2 DEF CheckMethod
    <3>2. [Routed(routing.code, routing.path, routing.at) EXCEPT !.code = 405].code = 405
      BY DEF Routed
    <3>3. e.to.code = 405  BY <2>1, <3>1, <3>2
    <3> QED  BY <3>3
  <2>3. CASE ~(routing.code < 400 /\ e.input.method \notin s.methods)
    <3>1. e.to = routing  BY <1>5, <2>3 DEF CheckMethod
    <3> QED  BY <2>3, <3>1
  <2> QED  BY <2>2, <2>3
<1> DEFINE path == t.path
<1>7. e.input.uri[1] = "/"
  BY <1>6 DEF CheckUri, Routed
<1>8. s.redirect = <<>>
  BY <1>6, <1>7 DEF CheckUri, Routed
<1>9. routing.path \in {path, Slashed(path), s.index}
  BY <1>6, <1>7, <1>8 DEF CheckUri, Routed
<1> HIDE DEF routing
<1>10. IsSequence(path)
  <2> PICK uri : uri = e.input.uri  OBVIOUS
  <2>1. IsSequence(uri)  BY Comes, DataAssumption
  <2>2. IsSequence(PathPart(uri))  BY <2>1, PathPartIs
  <2>3. path = Translated(s, PathPart(uri))  BY <1>1, <1>4 DEF Destination
  <2> HIDE DEF path
  <2> QED  BY <1>3, <1>8, <2>2, <2>3, TranslatedIsSequence
<1>11. IsSequence(e.to.path)  BY <1>3, <1>6, <1>9, <1>10, Slashes
<1> QED  BY <1>4, <1>6, <1>7, <1>11

(* The page that lists a directory is in it.                               *)
LEMMA PageNamed ==
  ASSUME Typed, site # NoSite, NEW methods, NEW e \in Checked(methods), e.to.code = 200
  PROVE  LET page == Append(Slashed(Place(e.to.path)), "autoindex.html")
         IN IsSequence(page) /\ Last(page) = "autoindex.html"
<1> DEFINE s == Slashed(Place(e.to.path))
           page == Append(s, "autoindex.html")
<1>1. IsSequence(s)  BY LetThrough, PlaceIsSequence, Slashes
<1> HIDE DEF s
<1>2. IsSequence(page) /\ Len(page) = Len(s) + 1 /\ page[Len(s) + 1] = "autoindex.html"
  BY <1>1, OneMore
<1> HIDE DEF page
<1>3. Last(page) = "autoindex.html"  BY <1>2 DEF Last
<1> QED  BY <1>2, <1>3 DEF page, s

(***************************************************************************)
(* What is kept                                                            *)
(***************************************************************************)

(* Each request is answered once, and the answers are in a sequence.       *)
LogTyped ==
  IsSequence(log) /\ \A k \in DOMAIN log : log[k].by \in Requests /\ phase[log[k].by] = "done"

(* The upload directory goes with an answer that says so.                  *)
GoneKnown ==
  \/ UploadDir \in dirs
  \/ \E j \in DOMAIN log : log[j].code = 204 /\ Unslashed(log[j].path) = UploadDir

(* UploadsKept, and that uploads have the names of images.                 *)
UploadsSafe ==
  \A k \in DOMAIN log : IsImage(k) =>
    /\ IsImageName(log[k].path)
    /\ ~UploadsGoneBefore(k) /\ ~RemovedAfter(k, log[k].path) =>
         /\ log[k].path \in DOMAIN files /\ files[log[k].path] = asked[log[k].by].data
         /\ \A j \in k + 1..Len(log) : IsImage(j) => log[j].path # log[k].path

SiteInv == Typed /\ LogTyped /\ GoneKnown /\ UploadsSafe

(* An answer to a request that says that an image was saved.               *)
ImageAnswer(e, i) ==
  e.code = 201 /\ i.method = "POST" /\ Media(i) \in {"png", "jpg"} /\ i.data # <<>>

(* What an answer to r does: the files of uploads stay, but for one that a *)
(* DELETE names; an image gets a file of its own, and has it while there   *)
(* is a directory for it; and the directory goes only by its name.         *)
Answers(r, e) ==
  /\ e.by = r /\ log' = Append(log, e) /\ phase' = [phase EXCEPT ![r] = "done"]
  /\ \A q \in Requests \ {r} : asked'[q] = asked[q]
  /\ \A p \in DOMAIN files : IsImageName(p) =>
       (p \in DOMAIN files' /\ files'[p] = files[p]) \/ (e.code = 204 /\ e.path = p)
  /\ ImageAnswer(e, asked'[r]) =>
       /\ IsImageName(e.path) /\ e.path \notin DOMAIN files
       /\ UploadDir \in dirs => e.path \in DOMAIN files' /\ files'[e.path] = asked'[r].data
  /\ UploadDir \in dirs /\ UploadDir \notin dirs' => e.code = 204 /\ Unslashed(e.path) = UploadDir

(* An answer leaves what was saved alone.                                  *)
LEMMA AnswerKeeps ==
  ASSUME SiteInv, NEW r \in Requests, phase[r] # "done", NEW e, Answers(r, e)
  PROVE  LogTyped' /\ GoneKnown' /\ UploadsSafe'
<1>0. PICK n : n = Len(log)  OBVIOUS
<1>1. /\ IsSequence(log') /\ n \in Nat /\ Len(log') = n + 1
      /\ DOMAIN log = 1..n /\ DOMAIN log' = 1..n + 1
      /\ \A k \in 1..n : log'[k] = log[k]
      /\ log'[n + 1] = e
  <2>1. IsSequence(log) /\ log' = Append(log, e)  BY DEF SiteInv, LogTyped, Answers
  <2> QED  BY <1>0, <2>1, OneMore
<1>2. \A k \in 1..n + 1 : k = n + 1 \/ k \in 1..n  BY <1>1
<1>3. ASSUME NEW k \in 1..n
      PROVE  /\ log[k].by \in Requests /\ log[k].by # r /\ log'[k] = log[k] /\ k \in 1..n + 1
             /\ phase'[log[k].by] = "done" /\ asked'[log[k].by] = asked[log[k].by]
  <2>1. log[k].by \in Requests /\ phase[log[k].by] = "done"  BY <1>1 DEF SiteInv, LogTyped
  <2>2. log[k].by # r  BY <2>1
  <2>3. phase' = [phase EXCEPT ![r] = "done"] /\ phase \in [Requests -> {"none", "body", "done"}]
    BY DEF Answers, SiteInv, Typed
  <2>4. asked'[log[k].by] = asked[log[k].by]  BY <2>1, <2>2 DEF Answers
  <2>5. k \in 1..n + 1  BY <1>1
  <2> QED  BY <1>1, <2>1, <2>2, <2>3, <2>4, <2>5
<1>4. LogTyped'
  <2>1. phase'[r] = "done" /\ e.by = r  BY DEF Answers, SiteInv, Typed
  <2>2. ASSUME NEW k \in 1..n + 1 PROVE log'[k].by \in Requests /\ phase'[log'[k].by] = "done"
    <3>1. CASE k = n + 1  BY <1>1, <2>1, <3>1
    <3>2. CASE k \in 1..n  BY <1>3, <3>2
    <3> QED  BY <1>2, <3>1, <3>2
  <2>3. IsSequence(log)'  BY <1>1 DEF IsSequence
  <2> QED  BY <1>1, <2>2, <2>3 DEF LogTyped
<1>5. GoneKnown'
  <2>1. CASE UploadDir \in dirs'  BY <2>1 DEF GoneKnown
  <2>2. CASE UploadDir \in dirs /\ UploadDir \notin dirs'
    <3>1. n + 1 \in DOMAIN log' /\ log'[n + 1] = e  BY <1>1
    <3>2. e.code = 204 /\ Unslashed(e.path) = UploadDir  BY <2>2 DEF Answers
    <3> QED  BY <3>1, <3>2 DEF GoneKnown
  <2>3. CASE UploadDir \notin dirs
    <3>1. PICK j \in 1..n : log[j].code = 204 /\ Unslashed(log[j].path) = UploadDir
      BY <1>1, <2>3 DEF SiteInv, GoneKnown
    <3>2. j \in DOMAIN log' /\ log'[j] = log[j]  BY <1>1, <1>3
    <3> QED  BY <3>1, <3>2 DEF GoneKnown
  <2> QED  BY <2>1, <2>2, <2>3
<1>6. ASSUME NEW k \in 1..n PROVE IsImage(k)' <=> IsImage(k)
  BY <1>3 DEF IsImage
<1>7. IsImage(n + 1)' <=> ImageAnswer(e, asked'[r])
  <2>1. e.by = r  BY DEF Answers
  <2> QED  BY <1>1, <2>1 DEF IsImage, ImageAnswer
<1>8. ASSUME NEW k \in 1..n PROVE UploadsGoneBefore(k)' <=> UploadsGoneBefore(k)
  <2>1. \A j \in 1..k - 1 : j \in 1..n  BY <1>1
  <2>2. \A j \in 1..k - 1 : log'[j] = log[j]  BY <1>1, <2>1
  <2> QED  BY <2>2 DEF UploadsGoneBefore
<1>9. UploadDir \in dirs \/ UploadsGoneBefore(n + 1)'
  <2> SUFFICES ASSUME UploadDir \notin dirs PROVE UploadsGoneBefore(n + 1)'  OBVIOUS
  <2>1. PICK j \in 1..n : log[j].code = 204 /\ Unslashed(log[j].path) = UploadDir
    BY <1>1 DEF SiteInv, GoneKnown
  <2>2. log'[j] = log[j] /\ j \in 1..(n + 1) - 1  BY <1>1
  <2> QED  BY <2>1, <2>2 DEF UploadsGoneBefore
<1>10. ASSUME NEW k \in 1..n, NEW p, ~RemovedAfter(k, p)'
       PROVE  ~RemovedAfter(k, p) /\ ~(e.code = 204 /\ e.path = p)
  <2>1. \A j \in k + 1..n + 1 : ~(log'[j].code = 204 /\ log'[j].path = p)
    BY <1>1, <1>10 DEF RemovedAfter
  <2>2. n + 1 \in k + 1..n + 1  BY <1>1
  <2>3. \A j \in k + 1..n : j \in k + 1..n + 1 /\ j \in 1..n  BY <1>1
  <2>4. \A j \in k + 1..n : ~(log[j].code = 204 /\ log[j].path = p)  BY <1>1, <2>1, <2>3
  <2> QED  BY <1>0, <1>1, <2>1, <2>2, <2>4 DEF RemovedAfter
<1>11. ASSUME NEW k \in 1..n, IsImage(k)
       PROVE  /\ IsImageName(log'[k].path)
              /\ ~UploadsGoneBefore(k)' /\ ~RemovedAfter(k, log[k].path)' =>
                   /\ log'[k].path \in DOMAIN files' /\ files'[log'[k].path] = asked'[log'[k].by].data
                   /\ \A j \in k + 1..n + 1 : IsImage(j)' => log'[j].path # log'[k].path
  <2>0. PICK p : p = log[k].path  OBVIOUS
  <2>1. log'[k] = log[k] /\ asked'[log[k].by] = asked[log[k].by]  BY <1>3
  <2>2. k \in DOMAIN log /\ IsImageName(p)  BY <1>1, <1>11, <2>0 DEF SiteInv, UploadsSafe
  <2>3. ASSUME ~UploadsGoneBefore(k)', ~RemovedAfter(k, p)'
        PROVE  /\ p \in DOMAIN files' /\ files'[p] = asked[log[k].by].data
               /\ \A j \in k + 1..n + 1 : IsImage(j)' => log'[j].path # p
    <3>1. ~UploadsGoneBefore(k) /\ ~RemovedAfter(k, p) /\ ~(e.code = 204 /\ e.path = p)
      BY <1>8, <1>10, <2>3
    <3>2. /\ p \in DOMAIN files /\ files[p] = asked[log[k].by].data
          /\ \A j \in k + 1..n : IsImage(j) => log[j].path # p
      BY <1>0, <1>11, <2>0, <2>2, <3>1 DEF SiteInv, UploadsSafe
    <3>3. p \in DOMAIN files' /\ files'[p] = files[p]  BY <2>2, <3>1, <3>2 DEF Answers
    <3>4. ASSUME NEW j \in k + 1..n + 1, IsImage(j)' PROVE log'[j].path # p
      <4>1. CASE j = n + 1
        <5>1. ImageAnswer(e, asked'[r])  BY <1>7, <3>4, <4>1
        <5>2. e.path \notin DOMAIN files  BY <5>1 DEF Answers
        <5> QED  BY <1>1, <3>2, <4>1, <5>2
      <4>2. CASE j # n + 1
        <5>1. j \in 1..n /\ j \in k + 1..n  BY <1>1, <4>2
        <5> QED  BY <1>1, <1>6, <3>2, <3>4, <5>1
      <4> QED  BY <4>1, <4>2
    <3> QED  BY <3>2, <3>3, <3>4
  <2>4. RemovedAfter(k, log[k].path)' = RemovedAfter(k, p)'
    BY <2>0, <2>1 DEF RemovedAfter
  <2> QED  BY <2>0, <2>1, <2>2, <2>3, <2>4
<1>12. ASSUME ImageAnswer(e, asked'[r])
       PROVE  /\ IsImageName(e.path)
              /\ ~UploadsGoneBefore(n + 1)' =>
                   e.path \in DOMAIN files' /\ files'[e.path] = asked'[e.by].data
  BY <1>9, <1>12 DEF Answers
<1>13. UploadsSafe'
  <2> SUFFICES ASSUME NEW k \in 1..n + 1, IsImage(k)'
               PROVE  /\ IsImageName(log'[k].path)
                      /\ ~UploadsGoneBefore(k)' /\ ~RemovedAfter(k, log[k].path)' =>
                           /\ log'[k].path \in DOMAIN files'
                           /\ files'[log'[k].path] = asked'[log'[k].by].data
                           /\ \A j \in k + 1..n + 1 : IsImage(j)' => log'[j].path # log'[k].path
    BY <1>1 DEF UploadsSafe, IsImageName, ImageName
  <2>1. CASE k = n + 1
    <3>1. \A j \in k + 1..n + 1 : FALSE  BY <1>1, <2>1
    <3> QED  BY <1>1, <1>7, <1>12, <2>1, <3>1
  <2>2. CASE k \in 1..n  BY <1>6, <1>11, <2>2
  <2> QED  BY <1>2, <2>1, <2>2
<1> QED  BY <1>4, <1>5, <1>13

(* A step without an answer leaves it alone, too.                          *)
LEMMA QuietKeeps ==
  ASSUME SiteInv, UNCHANGED <<files, dirs, log>>,
         \A q \in Requests : phase[q] = "done" => phase'[q] = "done" /\ asked'[q] = asked[q]
  PROVE  LogTyped' /\ GoneKnown' /\ UploadsSafe'
<1>1. log' = log /\ files' = files /\ dirs' = dirs  OBVIOUS
<1>2. \A k \in DOMAIN log : /\ log[k].by \in Requests /\ phase'[log[k].by] = "done"
                            /\ asked'[log[k].by] = asked[log[k].by]
  BY DEF SiteInv, LogTyped
<1>3. LogTyped'  BY <1>1, <1>2 DEF SiteInv, LogTyped, IsSequence
<1>4. GoneKnown'  BY <1>1 DEF SiteInv, GoneKnown
<1>5. \A k \in DOMAIN log : IsImage(k)' <=> IsImage(k)
  BY <1>1, <1>2 DEF IsImage
<1>6. UploadsSafe'
  <2> SUFFICES ASSUME NEW k \in DOMAIN log, IsImage(k)'
               PROVE  /\ IsImageName(log'[k].path)
                      /\ ~UploadsGoneBefore(k)' /\ ~RemovedAfter(k, log[k].path)' =>
                           /\ log'[k].path \in DOMAIN files'
                           /\ files'[log'[k].path] = asked'[log'[k].by].data
                           /\ \A j \in k + 1..Len(log') : IsImage(j)' => log'[j].path # log'[k].path
    BY <1>1 DEF UploadsSafe, IsImageName, ImageName
  <2>1. \A j \in k + 1..Len(log) : j \in DOMAIN log
    <3>1. IsSequence(log)  BY DEF SiteInv, LogTyped
    <3>2. Len(log) \in Nat /\ DOMAIN log = 1..Len(log)  BY <3>1, OneMore
    <3> QED  BY <3>2
  <2>2. IsImage(k)  BY <1>5
  <2>3. UploadsGoneBefore(k)' = UploadsGoneBefore(k)  BY <1>1 DEF UploadsGoneBefore
  <2>4. RemovedAfter(k, log[k].path)' = RemovedAfter(k, log[k].path)
    BY <1>1 DEF RemovedAfter
  <2> QED  BY <1>1, <1>2, <1>5, <2>1, <2>2, <2>3, <2>4 DEF SiteInv, UploadsSafe
<1> QED  BY <1>3, <1>4, <1>6

(* What was written is a file, if there is a directory for it; the others  *)
(* are what they were.                                                     *)
LEMMA WrittenKeeps ==
  ASSUME FilesTyped, NEW path, IsSequence(path), NEW content, files' = Written(path, content)
  PROVE  /\ FilesTyped'
         /\ \A p \in DOMAIN files : p # path => p \in DOMAIN files' /\ files'[p] = files[p]
         /\ DirOf(path) \in dirs => path \in DOMAIN files' /\ files'[path] = content
<1>1. CASE DirOf(path) \notin dirs
  BY <1>1 DEF Written, FilesTyped, IsSequence
<1>2. CASE DirOf(path) \in dirs
  <2> DEFINE F == DOMAIN files \cup {path}
  <2>1. files' = [p \in F |-> IF p = path THEN content ELSE files[p]]  BY <1>2 DEF Written
  <2>2. DOMAIN files' = F  BY <2>1
  <2>3. IsFiniteSet(F)  BY FS_AddElement DEF FilesTyped
  <2>4. \A p \in F : p \in Seq(ToSet(p))  BY DEF FilesTyped, IsSequence
  <2>5. FilesTyped'  BY <2>2, <2>3, <2>4 DEF FilesTyped, IsSequence
  <2> QED  BY <2>1, <2>2, <2>5
<1> QED  BY <1>1, <1>2

(* A file that uploads do not have is written, or one that is new.         *)
Elsewhere(path) == ~IsImageName(path) \/ path \notin DOMAIN files

(* The uploads that are there stay as they are.                            *)
LEMMA WritesElsewhere ==
  ASSUME FilesTyped, NEW path, IsSequence(path), Elsewhere(path),
         NEW content, files' = Written(path, content)
  PROVE  FilesTyped' /\ \A p \in DOMAIN files :
           IsImageName(p) => p \in DOMAIN files' /\ files'[p] = files[p]
BY WrittenKeeps DEF Elsewhere

(* At the start nothing was answered, and the files are those published.   *)
LEMMA InitSite ==
  ASSUME Init
  PROVE  SiteInv
<1>1. Typed
  <2>1. DOMAIN files = Published  BY SiteAssumption DEF Init
  <2>2. FilesTyped  BY <2>1, PathAssumption DEF FilesTyped
  <2>3. asked \in [Requests -> AllInputs \cup {NoInput}]  BY DEF Init
  <2>4. phase \in [Requests -> {"none", "body", "done"}] /\ \A r \in Requests : phase[r] = "none"
    BY DEF Init
  <2> QED  BY <2>2, <2>3, <2>4 DEF Typed, Init, ConfigInit
<1>2. log = <<>> /\ DOMAIN log = {}  BY DEF Init
<1>3. LogTyped
  <2>1. <<>> \in Seq({})  OBVIOUS
  <2>2. IsSequence(<<>>)  BY <2>1, AnySequence
  <2> QED  BY <1>2, <2>2 DEF LogTyped
<1>4. GoneKnown  BY SiteAssumption DEF GoneKnown, Init
<1>5. UploadsSafe  BY <1>2 DEF UploadsSafe
<1> QED  BY <1>1, <1>3, <1>4, <1>5 DEF SiteInv

(* Request r is seen to ask for i, and comes to a phase.                   *)
Moves(r, i, b) == asked' = [asked EXCEPT ![r] = i] /\ phase' = [phase EXCEPT ![r] = b]

(* A step of a request keeps the types.                                    *)
LEMMA TypedKeeps ==
  ASSUME Typed, NEW r \in Requests, NEW i \in AllInputs, NEW b \in {"body", "done"},
         file' = file, site' = site, FilesTyped', dirs' \subseteq dirs, Moves(r, i, b)
  PROVE  Typed'
<1>2. asked' \in [Requests -> AllInputs \cup {NoInput}]
      /\ phase' \in [Requests -> {"none", "body", "done"}]
  BY DEF Typed, Moves
<1>3. \A q \in Requests : phase'[q] # "none" => asked'[q] \in AllInputs
  BY DEF Typed, Moves
<1>4. site' # NoSite => \E k \in DOMAIN Built[file'] : site' = Built[file'][k]
  BY DEF Typed, Moves
<1> QED  BY <1>2, <1>3, <1>4 DEF Typed, NoSite, Built

(* The answer a to r, which asks for i, is given.                          *)
Given(r, i, a) ==
  /\ i \in AllInputs /\ phase[r] # "done" /\ file' = file /\ site' = site
  /\ asked' = [asked EXCEPT ![r] = i] /\ phase' = [phase EXCEPT ![r] = "done"]
  /\ log' = Append(log, a) /\ a.by = r

(* Every file of an upload stays, or is the one a removal names; and so    *)
(* does the directory.                                                     *)
Spares(a) ==
  /\ \A p \in DOMAIN files : IsImageName(p) =>
       (p \in DOMAIN files' /\ files'[p] = files[p]) \/ (a.code = 204 /\ a.path = p)
  /\ dirs' \subseteq dirs
  /\ UploadDir \in dirs /\ UploadDir \notin dirs' => a.code = 204 /\ Unslashed(a.path) = UploadDir

(* An image that is answered for is in a file of its own.                  *)
Saves(a, i) ==
  ImageAnswer(a, i) =>
    /\ IsImageName(a.path) /\ a.path \notin DOMAIN files
    /\ UploadDir \in dirs => a.path \in DOMAIN files' /\ files'[a.path] = i.data

(* An answer keeps the invariant.                                          *)
LEMMA AnswerSteps ==
  ASSUME SiteInv, NEW r \in Requests, NEW i, NEW a,
         Given(r, i, a), FilesTyped', Spares(a), Saves(a, i)
  PROVE  SiteInv'
<1>1. asked'[r] = i /\ \A q \in Requests \ {r} : asked'[q] = asked[q]
  BY DEF SiteInv, Typed, Given
<1>2. Answers(r, a)  BY <1>1 DEF Answers, Given, Spares, Saves
<1>3. LogTyped' /\ GoneKnown' /\ UploadsSafe'  BY <1>2, AnswerKeeps DEF Given
<1>4. Typed'
  <2>1. Moves(r, i, "done") /\ file' = file /\ site' = site /\ i \in AllInputs
    BY DEF Given, Moves
  <2>2. Typed /\ dirs' \subseteq dirs  BY DEF SiteInv, Spares
  <2> QED  BY <2>1, <2>2, TypedKeeps
<1> QED  BY <1>3, <1>4 DEF SiteInv

(* So does one that changes no file and promises no image.                 *)
LEMMA PlainAnswer ==
  ASSUME SiteInv, NEW r \in Requests, NEW i, NEW a,
         Given(r, i, a), files' = files, dirs' = dirs, ~ImageAnswer(a, i)
  PROVE  SiteInv'
<1>1. FilesTyped'  BY DEF SiteInv, Typed, FilesTyped, IsSequence
<1>2. Spares(a) /\ Saves(a, i)  BY DEF Spares, Saves
<1> QED  BY <1>1, <1>2, AnswerSteps

(* So does one that writes a file that is no upload's.                     *)
LEMMA WritingAnswer ==
  ASSUME SiteInv, NEW r \in Requests, NEW i, NEW a,
         Given(r, i, a), dirs' = dirs, ~ImageAnswer(a, i),
         NEW path, IsSequence(path), ~IsImageName(path),
         NEW content, files' = Written(path, content)
  PROVE  SiteInv'
<1>1. FilesTyped' /\ \A p \in DOMAIN files :
        IsImageName(p) => p \in DOMAIN files' /\ files'[p] = files[p]
  BY WritesElsewhere DEF SiteInv, Typed, Elsewhere
<1>2. Spares(a) /\ Saves(a, i)  BY <1>1 DEF Spares, Saves
<1> QED  BY <1>1, <1>2, AnswerSteps

(* So does one that a new image makes.                                     *)
LEMMA ImageAnswered ==
  ASSUME NamesApart, SiteInv, NEW r \in Requests, NEW i, NEW type \in ImageTypes, NEW data, NEW a,
         Given(r, i, a), a.code = 201, a.path = SetFileName(type),
         dirs' = dirs, files' = Written(SetFileName(type), data),
         Media(i) \in {"png", "jpg"} /\ i.data # <<>> => data = i.data
  PROVE  SiteInv'
<1> DEFINE path == SetFileName(type)
<1>1. IsImageName(path) /\ path \notin DOMAIN files  BY FreeName DEF SiteInv, Typed, FilesTyped
<1>2. IsSequence(path) /\ DirOf(path) = UploadDir  BY <1>1, UploadNames DEF IsImageName
<1>3. files' = Written(path, data) /\ a.path = path  OBVIOUS
<1> HIDE DEF path
<1>4. /\ FilesTyped'
      /\ \A p \in DOMAIN files : p # path => p \in DOMAIN files' /\ files'[p] = files[p]
      /\ UploadDir \in dirs => path \in DOMAIN files' /\ files'[path] = data
  BY <1>2, <1>3, WrittenKeeps DEF SiteInv, Typed
<1>5. Spares(a)  BY <1>1, <1>4 DEF Spares
<1>6. Saves(a, i)  BY <1>1, <1>3, <1>4 DEF Saves, ImageAnswer
<1> QED  BY <1>4, <1>5, <1>6, AnswerSteps

(***************************************************************************)
(* The steps                                                               *)
(***************************************************************************)

(* A request that is checked is seen to ask for something.                 *)
LEMMA HeadSeen ==
  ASSUME SiteInv, NEW r \in Requests, NEW methods, NEW e \in Checked(methods),
         Arrives(r), Check(r, e)
  PROVE  /\ e.input \in AllInputs /\ e.input.method \in methods
         /\ asked' = [asked EXCEPT ![r] = e.input]
         /\ file' = file /\ site' = site /\ site # NoSite /\ phase[r] # "done"
<1>1. e.input \in AllInputs /\ e.input.method \in methods  BY Comes DEF SiteInv
<1>2. asked' = [asked EXCEPT ![r] = e.input] /\ file' = file /\ site' = site
  BY DEF Check, startup
<1>3. site # NoSite /\ phase[r] # "done"  BY DEF Arrives
<1> QED  BY <1>1, <1>2, <1>3

(* It may be answered at once.                                             *)
LEMMA HeadAnswered ==
  ASSUME SiteInv, NEW r \in Requests, NEW methods, NEW e \in Checked(methods),
         Arrives(r), Check(r, e), NEW code, NEW path, NEW body, Respond(r, code, path, body)
  PROVE  \E a : /\ Given(r, e.input, a) /\ a.code = code /\ a.path = path
                /\ e.input.method \in methods
<1> DEFINE a == Answer(r, code, path, body, {})
<1>1. a.by = r /\ a.code = code /\ a.path = path  BY DEF Answer
<1>2. log' = Append(log, a) /\ phase' = [phase EXCEPT ![r] = "done"]  BY DEF Respond
<1> HIDE DEF a
<1>3. Given(r, e.input, a) /\ e.input.method \in methods  BY HeadSeen, <1>1, <1>2 DEF Given
<1> QED  BY <1>1, <1>3

(* The heads of requests.                                                  *)
LEMMA HeadsKeep ==
  ASSUME NamesApart, SiteInv, NEW r \in Requests, Heads(r)
  PROVE  SiteInv'
<1>2. CASE CheckFails(r)
  <2>1. PICK e \in Checked(AllMethods) :
          Arrives(r) /\ e.to.code >= 400 /\ Check(r, e) /\ Refuse(r, e.to, e.to.code)
    BY <1>2 DEF CheckFails
  <2> DEFINE page == ErrorPage(SettingsOf(e.to), DOMAIN files, e.to.code)
  <2>2. Respond(r, e.to.code, page, Content(page)) /\ files' = files /\ dirs' = dirs
    BY <2>1 DEF Refuse
  <2>3. PICK a : Given(r, e.input, a) /\ a.code = e.to.code  BY HeadAnswered, <2>1, <2>2
  <2>4. ~ImageAnswer(a, e.input)
    <3>1. a.code # 201  BY <2>1, <2>3
    <3> QED  BY <3>1 DEF ImageAnswer
  <2> QED  BY <2>2, <2>3, <2>4, PlainAnswer
<1>3. CASE Redirects(r)
  <2>1. PICK e \in Checked({"GET", "DELETE"}) :
          /\ Arrives(r) /\ Check(r, e) /\ Respond(r, 301, e.to.path, <<>>)
          /\ files' = files /\ dirs' = dirs
    BY <1>3 DEF Redirects
  <2>2. PICK a : Given(r, e.input, a) /\ a.code = 301  BY HeadAnswered, <2>1
  <2>3. ~ImageAnswer(a, e.input)  BY <2>2 DEF ImageAnswer
  <2> QED  BY <2>1, <2>2, <2>3, PlainAnswer
<1>4. CASE AwaitsBody(r)
  <2>1. PICK e \in Checked({"POST"}) : Arrives(r) /\ Check(r, e)
    BY <1>4 DEF AwaitsBody
  <2>2. phase' = [phase EXCEPT ![r] = "body"] /\ files' = files /\ dirs' = dirs /\ log' = log
    BY <1>4 DEF AwaitsBody
  <2>3. /\ e.input \in AllInputs /\ asked' = [asked EXCEPT ![r] = e.input]
        /\ file' = file /\ site' = site /\ phase[r] # "done"
    BY HeadSeen, <2>1
  <2>4. \A q \in Requests : phase[q] = "done" => phase'[q] = "done" /\ asked'[q] = asked[q]
    BY <2>2, <2>3 DEF SiteInv, Typed
  <2>5. LogTyped' /\ GoneKnown' /\ UploadsSafe'  BY <2>2, <2>4, QuietKeeps
  <2>6. FilesTyped' /\ dirs' \subseteq dirs
    BY <2>2 DEF SiteInv, Typed, FilesTyped, IsSequence
  <2>7. Typed'
    <3>1. Moves(r, e.input, "body")  BY <2>2, <2>3 DEF Moves
    <3> QED  BY <2>2, <2>3, <2>6, <3>1, TypedKeeps DEF SiteInv
  <2> QED  BY <2>5, <2>7 DEF SiteInv
<1>5. CASE GetsDirectory(r)
  <2>1. PICK e \in Checked({"GET"}) :
          /\ Arrives(r) /\ e.to.code = 200 /\ Check(r, e) /\ dirs' = dirs
          /\ files' = Written(Append(Slashed(Place(e.to.path)), "autoindex.html"), Listing)
          /\ Respond(r, 200, Append(Slashed(Place(e.to.path)), "autoindex.html"), Listing)
    BY <1>5 DEF GetsDirectory
  <2> DEFINE page == Append(Slashed(Place(e.to.path)), "autoindex.html")
  <2>2. IsSequence(page) /\ Last(page) = "autoindex.html"
    <3>1. site # NoSite  BY <2>1 DEF Arrives
    <3> QED  BY <2>1, <3>1, PageNamed DEF SiteInv
  <2>3. ~IsImageName(page)  BY <2>2 DEF NamesApart, IsImageName
  <2>4. files' = Written(page, Listing)  BY <2>1
  <2> HIDE DEF page
  <2>5. PICK a : Given(r, e.input, a) /\ a.code = 200  BY HeadAnswered, <2>1
  <2>6. ~ImageAnswer(a, e.input)  BY <2>5 DEF ImageAnswer
  <2> QED  BY <2>1, <2>2, <2>3, <2>4, <2>5, <2>6, WritingAnswer
<1>6. CASE GetsJson(r)
  <2>1. PICK e \in Checked({"GET"}) :
          /\ Arrives(r) /\ Check(r, e) /\ dirs' = dirs
          /\ files' = Written(JsonPath, Listing)
          /\ Respond(r, 200, e.to.path, Listing)
    BY <1>6 DEF GetsJson
  <2>2. IsSequence(JsonPath) /\ ~IsImageName(JsonPath)  BY UploadNames, OthersNames
  <2>3. PICK a : Given(r, e.input, a) /\ a.code = 200  BY HeadAnswered, <2>1
  <2>4. ~ImageAnswer(a, e.input)  BY <2>3 DEF ImageAnswer
  <2> QED  BY <2>1, <2>2, <2>3, <2>4, WritingAnswer
<1>7. CASE GetsFile(r)
  <2>1. PICK e \in Checked({"GET"}) :
          /\ Arrives(r) /\ Check(r, e) /\ files' = files /\ dirs' = dirs
          /\ Respond(r, 200, e.to.path, Content(Place(e.to.path)))
    BY <1>7 DEF GetsFile
  <2>2. PICK a : Given(r, e.input, a) /\ a.code = 200  BY HeadAnswered, <2>1
  <2>3. ~ImageAnswer(a, e.input)  BY <2>2 DEF ImageAnswer
  <2> QED  BY <2>1, <2>2, <2>3, PlainAnswer
<1>8. CASE Deletes(r)
  <2> DEFINE Gone(e) == RemovalAllowed(e.to.path) /\ Removable(e.to.path)
             Code(e) == CASE ~RemovalAllowed(e.to.path) -> 403
                          [] RemovalAllowed(e.to.path) /\ ~Gone(e) -> 500
                          [] Gone(e) -> 204
  <2>1. PICK e \in Checked({"DELETE"}) :
          /\ Arrives(r) /\ Check(r, e)
          /\ files' = IF Gone(e) THEN [p \in DOMAIN files \ {Place(e.to.path)} |-> files[p]] ELSE files
          /\ dirs' = IF Gone(e) THEN dirs \ {Unslashed(Place(e.to.path))} ELSE dirs
          /\ Respond(r, Code(e), Place(e.to.path), <<>>)
    BY <1>8 DEF Deletes
  <2>2. Code(e) # 201 /\ (Gone(e) => Code(e) = 204)  OBVIOUS
  <2> HIDE DEF Gone, Code
  <2>3. PICK a : Given(r, e.input, a) /\ a.code = Code(e) /\ a.path = Place(e.to.path)
    BY HeadAnswered, <2>1
  <2>4. Saves(a, e.input)  BY <2>2, <2>3 DEF Saves, ImageAnswer
  <2>5. FilesTyped'
    <3>1. IsFiniteSet(DOMAIN files) /\ \A p \in DOMAIN files : p \in Seq(ToSet(p))
      BY DEF SiteInv, Typed, FilesTyped, IsSequence
    <3>2. CASE Gone(e)
      <4>1. DOMAIN files' = DOMAIN files \ {Place(e.to.path)}  BY <2>1, <3>2
      <4>2. IsFiniteSet(DOMAIN files')  BY <3>1, <4>1, FS_RemoveElement
      <4> QED  BY <3>1, <4>1, <4>2 DEF FilesTyped, IsSequence
    <3>3. CASE ~Gone(e)  BY <2>1, <3>1, <3>3 DEF FilesTyped, IsSequence
    <3> QED  BY <3>2, <3>3
  <2>6. Spares(a)  BY <2>1, <2>2, <2>3 DEF Spares
  <2> QED  BY <2>3, <2>4, <2>5, <2>6, AnswerSteps
<1> QED  BY <1>2, <1>3, <1>4, <1>5, <1>6, <1>7, <1>8 DEF Heads

(* A request whose body is parsed was seen.                                *)
LEMMA BodySeen ==
  ASSUME SiteInv, NEW r \in Requests, AtBody(r), NEW i, i = asked[r]
  PROVE  /\ i \in AllInputs /\ phase[r] = "body" /\ file' = file /\ site' = site
         /\ asked' = asked /\ asked' = [asked EXCEPT ![r] = i]
<1>1. phase[r] = "body" /\ asked' = asked /\ file' = file /\ site' = site
  BY DEF AtBody, startup
<1>2. asked = [asked EXCEPT ![r] = i] /\ i \in AllInputs  BY <1>1 DEF SiteInv, Typed
<1> QED  BY <1>1, <1>2

(* What ends a request.                                                    *)
Concludes(r, a) ==
  log' = Append(log, a) /\ a.by = r /\ phase' = [phase EXCEPT ![r] = "done"]

(* It is answered then.                                                    *)
LEMMA BodyEnds ==
  ASSUME SiteInv, NEW r \in Requests, AtBody(r), NEW i, i = asked[r], NEW a, Concludes(r, a)
  PROVE  Given(r, i, a)
BY BodySeen DEF Given, Concludes

(* It may be answered with a code, a path and what to send.                *)
LEMMA BodyAnswered ==
  ASSUME SiteInv, NEW r \in Requests, AtBody(r), NEW i, i = asked[r],
         NEW code, NEW path, NEW body, Respond(r, code, path, body)
  PROVE  \E a : Given(r, i, a) /\ a.code = code /\ a.path = path
<1> DEFINE a == Answer(r, code, path, body, {})
<1>1. a.by = r /\ a.code = code /\ a.path = path  BY DEF Answer
<1>2. Concludes(r, a)  BY <1>1 DEF Respond, Concludes
<1> HIDE DEF a
<1>3. Given(r, i, a)  BY <1>2, BodyEnds
<1> QED  BY <1>1, <1>3

(* The bodies of requests.                                                 *)
LEMMA PostsKeep ==
  ASSUME NamesApart, SiteInv, NEW r \in Requests, Posts(r)
  PROVE  SiteInv'
<1>1. PICK i : i = asked[r]  OBVIOUS
<1>5. ASSUME AtBody(r), files' = files, dirs' = dirs, phase' = phase, log' = log
      PROVE  SiteInv'
  <2>1. LogTyped' /\ GoneKnown' /\ UploadsSafe'  BY <1>1, BodySeen, <1>5, QuietKeeps
  <2>2. Typed'
    BY <1>1, BodySeen, <1>5 DEF SiteInv, Typed, FilesTyped, IsSequence, NoSite, Built
  <2> QED  BY <2>1, <2>2 DEF SiteInv
<1>6. BodyTaken(r) \/ BodyLost(r) => AtBody(r)  BY DEF BodyTaken, BodyLost
<1>7. CASE BodyRefused(r)
  <2> DEFINE code == BodyError(i)
             page == ErrorPage(SettingsOf(routed[r]), DOMAIN files, code)
  <2>1. /\ AtBody(r) /\ code # 0 /\ files' = files /\ dirs' = dirs
        /\ Respond(r, code, page, Content(page))
    BY <1>1, <1>7 DEF BodyRefused, Refuse
  <2>2. PICK a : Given(r, i, a)  BY <1>1, BodyAnswered, <2>1
  <2>3. ~ImageAnswer(a, i)
    <3>1. i \in AllInputs  BY <1>1, BodySeen, <2>1
    <3> QED  BY <2>1, <3>1, ImageUnderstood DEF ImageAnswer
  <2> QED  BY <2>1, <2>2, <2>3, PlainAnswer
<1>8. CASE BuildThrows(r)  BY <1>5, <1>8 DEF BuildThrows
<1>9. CASE Crashes(r)  BY <1>5, <1>9 DEF Crashes
<1>10. CASE RedirectsPost(r)
  <2>1. /\ AtBody(r) /\ files' = files /\ dirs' = dirs
        /\ Respond(r, 301, routed[r].path, <<>>)
    BY <1>6, <1>10 DEF RedirectsPost
  <2>2. PICK a : Given(r, i, a) /\ a.code = 301  BY <1>1, BodyAnswered, <2>1
  <2>3. ~ImageAnswer(a, i)  BY <2>2 DEF ImageAnswer
  <2> QED  BY <2>1, <2>2, <2>3, PlainAnswer
<1>11. ASSUME AtBody(r), NEW type \in ImageTypes, NEW data, SaveImage(r, type, data),
              Media(i) \in {"png", "jpg"} /\ i.data # <<>> => data = i.data
       PROVE  SiteInv'
  <2>1. /\ files' = Written(SetFileName(type), data) /\ dirs' = dirs
        /\ Respond(r, 201, SetFileName(type), SetFileName(type))
    BY <1>11 DEF SaveImage
  <2>2. PICK a : Given(r, i, a) /\ a.code = 201 /\ a.path = SetFileName(type)
    BY <1>1, BodyAnswered, <1>11, <2>1
  <2> QED  BY <1>11, <2>1, <2>2, ImageAnswered
<1>12. CASE UploadsImage(r)
  <2>1. /\ AtBody(r) /\ Media(i) \in {"png", "jpg"}
        /\ SaveImage(r, Media(i), Data(i))
    BY <1>1, <1>6, <1>12 DEF UploadsImage
  <2>2. Media(i) \in ImageTypes  BY <2>1 DEF ImageTypes
  <2>3. i \in AllInputs  BY <1>1, BodySeen, <2>1
  <2>4. i.data # <<>> => Data(i) = i.data  BY <2>1, <2>3, ImageUnderstood
  <2> QED  BY <1>11, <2>1, <2>2, <2>4
<1>13. CASE SavesJunk(r)
  <2>1. PICK type \in {""} \cup (IF Erased(i) THEN {Media(i)} ELSE {}) :
          SaveImage(r, type, <<"junk">>)
    BY <1>1, <1>13 DEF SavesJunk
  <2>2. AtBody(r) /\ Undefined(r) /\ Media(i) \in {"png", "jpg"}
    BY <1>1, <1>6, <1>13 DEF SavesJunk, BodyLost
  <2>3. type \in ImageTypes  BY <2>1, <2>2 DEF ImageTypes
  <2>4. i \in AllInputs  BY <1>1, BodySeen, <2>2
  <2>5. i.data = <<>>
    <3>1. i.data # <<>> => IsMultipart(i) /\ ~Erased(i) /\ Data(i) = i.data
      BY <2>2, <2>4, ImageUnderstood
    <3> QED  BY <1>1, <2>2, <3>1 DEF Undefined
  <2> QED  BY <1>11, <2>1, <2>2, <2>3, <2>5
<1>14. CASE UploadsText(r)
  <2> DEFINE text == Append(Data(i), "LF")
  <2>1. /\ AtBody(r) /\ Media(i) = "text" /\ dirs' = dirs
        /\ files' = Written(TextPath, Appended(text))
        /\ Respond(r, 200, TextPath, text)
    BY <1>1, <1>6, <1>14 DEF UploadsText
  <2>2. IsSequence(TextPath) /\ ~IsImageName(TextPath)  BY UploadNames, OthersNames
  <2>3. PICK a : Given(r, i, a) /\ a.code = 200  BY <1>1, BodyAnswered, <2>1
  <2>4. ~ImageAnswer(a, i)  BY <2>3 DEF ImageAnswer
  <2> HIDE DEF text
  <2> QED  BY <2>1, <2>2, <2>3, <2>4, WritingAnswer
<1>15. CASE TakesForm(r)
  <2>1. /\ AtBody(r) /\ Media(i) \notin {"png", "jpg", "text"} /\ dirs' = dirs
        /\ files' = (IF IsJson(i.uri) THEN Written(JsonPath, Listing) ELSE files)
        /\ phase' = [phase EXCEPT ![r] = "done"]
        /\ \E body, fields : log' = Append(log, Answer(r, 201, i.uri, body, fields))
    BY <1>1, <1>6, <1>15 DEF TakesForm
  <2>2. PICK a : Concludes(r, a) /\ a.code = 201  BY <2>1 DEF Answer, Concludes
  <2>3. Given(r, i, a)  BY <1>1, BodyEnds, <2>1, <2>2
  <2>4. ~ImageAnswer(a, i)  BY <2>1 DEF ImageAnswer
  <2>5. CASE IsJson(i.uri)
    <3>1. IsSequence(JsonPath) /\ ~IsImageName(JsonPath)  BY UploadNames, OthersNames
    <3>2. files' = Written(JsonPath, Listing)  BY <2>1, <2>5
    <3> QED  BY <2>1, <2>3, <2>4, <3>1, <3>2, WritingAnswer
  <2>6. CASE ~IsJson(i.uri)
    <3>1. files' = files  BY <2>1, <2>6
    <3> QED  BY <2>1, <2>3, <2>4, <3>1, PlainAnswer
  <2> QED  BY <2>5, <2>6
<1> QED
  BY <1>7, <1>8, <1>9, <1>10, <1>12, <1>13, <1>14, <1>15 DEF Posts

(* What the program does before, and what it does not look at.             *)
LEMMA OthersKeep ==
  ASSUME SiteInv, UNCHANGED requests, file' = file,
         site' # NoSite => \E k \in DOMAIN Built[file] : site' = Built[file][k]
  PROVE  SiteInv'
<1>1. /\ files' = files /\ dirs' = dirs /\ log' = log
      /\ asked' = asked /\ phase' = phase
  BY DEF requests
<1>2. LogTyped' /\ GoneKnown' /\ UploadsSafe'  BY <1>1, QuietKeeps
<1>3. Typed'  BY <1>1 DEF SiteInv, Typed, FilesTyped, IsSequence, NoSite, Built
<1> QED  BY <1>2, <1>3 DEF SiteInv

(* Every step keeps the invariant.                                         *)
LEMMA NextKeeps ==
  ASSUME NamesApart, SiteInv, [Next]_vars
  PROVE  SiteInv'
<1>1. site # NoSite => \E k \in DOMAIN Built[file] : site = Built[file][k]
  BY DEF SiteInv, Typed
<1>2. CASE UNCHANGED vars
  <2>1. UNCHANGED requests /\ file' = file /\ site' = site  BY <1>2 DEF vars, startup
  <2> QED  BY <1>1, <2>1, OthersKeep
<1>3. CASE Startup /\ UNCHANGED <<site, requests>>
  <2>1. file' = file
    BY <1>3 DEF Startup, CheckConf, CreateFails, PortSeemsTaken, CreateServer, CreateDone
  <2>2. UNCHANGED requests /\ site' = site  BY <1>3
  <2> QED  BY <1>1, <2>1, <2>2, OthersKeep
<1>4. CASE Opens
  <2>1. PICK k \in DOMAIN servers :
          servers[k].from \in Starts(Lines) /\ site' = Built[file][servers[k].from]
    BY <1>4 DEF Opens
  <2>2. UNCHANGED requests /\ file' = file  BY <1>4 DEF Opens, startup
  <2>3. servers[k].from \in DOMAIN Built[file]
    <3>1. file \in DOMAIN Files  BY DEF SiteInv, Typed
    <3>2. DOMAIN Built[file] = Starts(Files[file])  BY <3>1 DEF Built
    <3> QED  BY <2>1, <3>2 DEF Lines
  <2> QED  BY <2>1, <2>2, <2>3, OthersKeep
<1>5. CASE \E r \in Requests : Heads(r) \/ Posts(r)
  BY <1>5, HeadsKeep, PostsKeep
<1> QED  BY <1>2, <1>3, <1>4, <1>5 DEF Next

(* An image that is answered with 201 is in the file the answer names,     *)
(* byte for byte what the client meant, until a request removes it; and    *)
(* no two share a file.                                                    *)
THEOREM UploadsKeptAlways ==
  ASSUME NamesApart
  PROVE  Spec => []UploadsKept
<1>1. Init => SiteInv  BY InitSite
<1>2. SiteInv /\ [Next]_vars => SiteInv'  BY NextKeeps
<1>3. SiteInv => UploadsKept
  BY DEF SiteInv, UploadsSafe, UploadsKept, Content
<1> QED  BY <1>1, <1>2, <1>3, PTL DEF Spec

(***************************************************************************)
(* The texts                                                               *)
(***************************************************************************)

(* The texts after none of the answers and after each.                     *)
TextsSoFar(f, l, a, n) ==
  f[0] = <<>> /\ \A k \in 1..n : f[k] = TextsAfter(f[k - 1], l[k], a[l[k].by])

(* The texts of some answers come of them one by one, in order.            *)
LEMMA TextsSteps ==
  ASSUME NEW l, NEW a, NEW n \in Nat, Len(l) = n
  PROVE  \E f : TextsSoFar(f, l, a, n) /\ TextsOf(l, a) = f[n]
<1> DEFINE Of(g, k) == IF k = 0 THEN <<>> ELSE TextsAfter(g[k - 1], l[k], a[l[k].by])
           Whole(g, m) == g = [k \in 0..m |-> Of(g, k)]
           whole == CHOOSE g : Whole(g, n)
<1>1. \A m \in 0..n : \E g : Whole(g, m)
  <2> DEFINE S == {m \in 0..n : \E g : Whole(g, m)}
  <2>1. 0 \in S
    <3> DEFINE g == [k \in 0..0 |-> <<>>]
    <3>1. \A k \in 0..0 : k = 0  OBVIOUS
    <3>2. Whole(g, 0)  BY <3>1
    <3> HIDE DEF Whole, g
    <3> QED  BY <3>2
  <2>2. ASSUME NEW m \in 0..n - 1, m \in S PROVE m + 1 \in S
    <3>1. PICK g : Whole(g, m)  BY <2>2
    <3> DEFINE h == [k \in 0..m + 1 |-> IF k = m + 1 THEN Of(g, k) ELSE g[k]]
    <3>2. ASSUME NEW k \in 0..m + 1 PROVE h[k] = Of(h, k)
      <4>1. k = 0 \/ (k # 0 /\ k - 1 \in 0..m)  OBVIOUS
      <4>2. h[k] = Of(g, k)
        <5>1. CASE k = m + 1  BY <5>1
        <5>2. CASE k # m + 1
          <6>1. k \in 0..m /\ h[k] = g[k]  BY <5>2
          <6> HIDE DEF h, Of
          <6> QED  BY <3>1, <6>1
        <5> QED  BY <5>1, <5>2
      <4>3. k # 0 => h[k - 1] = g[k - 1]
        <5>1. k # 0 => k - 1 \in 0..m + 1 /\ k - 1 # m + 1  BY <4>1
        <5> QED  BY <5>1
      <4> HIDE DEF h
      <4> QED  BY <4>2, <4>3
    <3>3. Whole(h, m + 1)
      <4>1. h = [k \in 0..m + 1 |-> h[k]]  OBVIOUS
      <4> HIDE DEF h, Of
      <4> QED  BY <3>2, <4>1
    <3>4. m + 1 \in 0..n  OBVIOUS
    <3> HIDE DEF Whole, h
    <3> QED  BY <3>3, <3>4
  <2> HIDE DEF S
  <2>3. \A m \in 0..n : m \in S  BY <2>1, <2>2, Counting
  <2> QED  BY <2>3 DEF S
<1>2. Whole(whole, n)
  <2> HIDE DEF Whole
  <2> QED  BY <1>1
<1>3. TextsOf(l, a) = whole[n]  BY DEF TextsOf
<1> HIDE DEF whole
<1>4. \A k \in 0..n : whole[k] = Of(whole, k)
  <2> HIDE DEF Of
  <2> QED  BY <1>2
<1>5. whole[0] = <<>>  BY <1>4
<1>6. \A k \in 1..n : whole[k] = TextsAfter(whole[k - 1], l[k], a[l[k].by])
  <2>1. \A k \in 1..n : k \in 0..n /\ k # 0  OBVIOUS
  <2> QED  BY <1>4, <2>1
<1> QED  BY <1>3, <1>5, <1>6 DEF TextsSoFar

(* The answers are the same, and so are the requests they answer.          *)
Agree(l, a, m, b, n) == \A k \in 1..n : m[k] = l[k] /\ b[l[k].by] = a[l[k].by]
(* The texts depend on nothing else.                                       *)
LEMMA TextsAgree ==
  ASSUME NEW l, NEW a, NEW m, NEW b, NEW n \in Nat, NEW f, NEW g,
         TextsSoFar(f, l, a, n), TextsSoFar(g, m, b, n), Agree(l, a, m, b, n)
  PROVE  g[n] = f[n]
<1> DEFINE S == {k \in 0..n : g[k] = f[k]}
<1>1. 0 \in S  BY DEF TextsSoFar
<1>2. ASSUME NEW k \in 0..n - 1, k \in S PROVE k + 1 \in S
  <2>1. k + 1 \in 1..n /\ k + 1 \in 0..n /\ (k + 1) - 1 = k  OBVIOUS
  <2>2. f[k + 1] = TextsAfter(f[k], l[k + 1], a[l[k + 1].by])  BY <2>1 DEF TextsSoFar
  <2>3. g[k + 1] = TextsAfter(g[k], m[k + 1], b[m[k + 1].by])  BY <2>1 DEF TextsSoFar
  <2>4. m[k + 1] = l[k + 1] /\ b[l[k + 1].by] = a[l[k + 1].by]  BY <2>1 DEF Agree
  <2> QED  BY <1>2, <2>1, <2>2, <2>3, <2>4
<1> HIDE DEF S
<1>3. \A k \in 0..n : k \in S  BY <1>1, <1>2, Counting
<1> QED  BY <1>3 DEF S

(* The answers and the requests they answer are as they were.              *)
LEMMA SameTexts ==
  ASSUME NEW l, NEW a, NEW b, NEW n \in Nat, Len(l) = n,
         \A k \in 1..n : b[l[k].by] = a[l[k].by]
  PROVE  TextsOf(l, b) = TextsOf(l, a)
<1>1. PICK f : TextsSoFar(f, l, a, n) /\ TextsOf(l, a) = f[n]  BY TextsSteps
<1>2. PICK g : TextsSoFar(g, l, b, n) /\ TextsOf(l, b) = g[n]  BY TextsSteps
<1>3. Agree(l, a, l, b, n)  BY DEF Agree
<1>4. g[n] = f[n]  BY <1>1, <1>2, <1>3, TextsAgree
<1> QED  BY <1>1, <1>2, <1>4

(* There is one more answer.                                               *)
LEMMA OneMoreText ==
  ASSUME NEW l, NEW a, NEW m, NEW b, NEW e, NEW n \in Nat, Len(l) = n, Len(m) = n + 1,
         \A k \in 1..n : m[k] = l[k] /\ b[l[k].by] = a[l[k].by],
         m[n + 1] = e
  PROVE  TextsOf(m, b) = TextsAfter(TextsOf(l, a), e, b[e.by])
<1>1. PICK f : TextsSoFar(f, l, a, n) /\ TextsOf(l, a) = f[n]  BY TextsSteps
<1>2. PICK g : TextsSoFar(g, m, b, n + 1) /\ TextsOf(m, b) = g[n + 1]  BY TextsSteps
<1>3. TextsSoFar(g, m, b, n)
  <2>1. \A k \in 1..n : k \in 1..n + 1  OBVIOUS
  <2> QED  BY <1>2, <2>1 DEF TextsSoFar
<1>7. Agree(l, a, m, b, n)  BY DEF Agree
<1>4. g[n] = f[n]  BY <1>1, <1>3, <1>7, TextsAgree
<1>5. n + 1 \in 1..n + 1 /\ (n + 1) - 1 = n  OBVIOUS
<1>6. g[n + 1] = TextsAfter(g[n], e, b[e.by])  BY <1>2, <1>5 DEF TextsSoFar
<1> QED  BY <1>1, <1>2, <1>4, <1>6

(* A body is understood, or refused with 400 or 415.                       *)
LEMMA BodyErrors ==
  ASSUME NEW i \in AllInputs
  PROVE  BodyError(i) \in {0, 400, 415}
<1> SUFFICES ASSUME IsMultipart(i) PROVE Multipart(i.body).error \in {0, 400, 415}
  BY DEF BodyError, Parsed
<1>1. PICK n : n = Len(i.body)  OBVIOUS
<1>2. DOMAIN i.body = 1..n /\ n \in Nat
  <2>1. IsSequence(i.body)  BY DataAssumption
  <2> QED  BY <1>1, <2>1, OneMore
<1>3. PICK f : PartlyParsed(f, i.body, n) /\ Multipart(i.body) = f[n]
  BY <1>2, MultipartSteps
<1> DEFINE S == {k \in 0..n : Shaped(f[k]) /\ Fits(f[k])}
<1>4. 0 \in S
  <2>1. f[0] = Started  BY <1>3 DEF PartlyParsed
  <2>2. Shaped(Started) /\ Fits(Started)  BY DEF Started, Shaped, Fits, ParserStates
  <2> QED  BY <1>2, <2>1, <2>2
<1>5. ASSUME NEW k \in 0..n - 1, k \in S PROVE k + 1 \in S
  <2>1. k + 1 \in 1..n /\ k + 1 \in 0..n /\ (k + 1) - 1 = k  BY <1>2
  <2>2. f[k + 1] = ParseMultipart(f[k], i.body[k + 1])  BY <1>3, <2>1 DEF PartlyParsed
  <2>3. Shaped(f[k]) /\ Fits(f[k])  BY <1>5
  <2>4. Shaped(f[k + 1]) /\ Fits(f[k + 1])  BY <2>2, <2>3, ByteFits
  <2> QED  BY <2>1, <2>4
<1> HIDE DEF S
<1>6. \A k \in 0..n : k \in S  BY <1>2, <1>4, <1>5, Counting
<1>7. Fits(f[n])  BY <1>2, <1>6 DEF S
<1> QED  BY <1>3, <1>7 DEF Fits, ParserStates

(* TextsKept, and that only a POST request has a body that is awaited.     *)
TextsSafe ==
  /\ TextsKept
  /\ \A r \in Requests : phase[r] = "body" => asked[r].method = "POST"

(* What an answer says of the texts is what happened to their file.        *)
Tells(a, i) ==
  UploadDir \in dirs' =>
    /\ UploadDir \in dirs
    /\ Content(TextPath)' = TextsAfter(Content(TextPath), a, i)

(* An answer that tells keeps the texts.                                   *)
LEMMA TellsKeeps ==
  ASSUME SiteInv, TextsSafe, NEW r \in Requests, NEW i, NEW a, Given(r, i, a), Tells(a, i)
  PROVE  TextsSafe'
<1>0. PICK n : n = Len(log)  OBVIOUS
<1>1. /\ n \in Nat /\ Len(log') = n + 1 /\ log'[n + 1] = a
      /\ DOMAIN log = 1..n /\ \A k \in 1..n : log'[k] = log[k]
  <2>1. IsSequence(log) /\ log' = Append(log, a)  BY DEF SiteInv, LogTyped, Given
  <2> QED  BY <1>0, <2>1, OneMore
<1>2. /\ asked'[r] = i /\ phase'[r] = "done" /\ a.by = r
      /\ \A q \in Requests \ {r} : asked'[q] = asked[q] /\ phase'[q] = phase[q]
  BY DEF SiteInv, Typed, Given
<1>3. \A k \in 1..n : log[k].by \in Requests \ {r}
  <2>1. \A k \in 1..n : log[k].by \in Requests /\ phase[log[k].by] = "done"
    BY <1>1 DEF SiteInv, LogTyped
  <2>2. phase[r] # "done"  BY DEF Given
  <2> QED  BY <2>1, <2>2
<1>4. \A k \in 1..n : log'[k] = log[k] /\ asked'[log[k].by] = asked[log[k].by]
  BY <1>1, <1>2, <1>3
<1>5. TextsOf(log', asked') = TextsAfter(TextsOf(log, asked), a, asked'[a.by])
  <2>1. Len(log) = n /\ Len(log') = n + 1 /\ n \in Nat /\ log'[n + 1] = a  BY <1>0, <1>1
  <2> QED  BY <1>4, <2>1, OneMoreText
<1>6. TextsKept'
  <2> SUFFICES ASSUME UploadDir \in dirs' PROVE Content(TextPath)' = Texts'
    BY DEF TextsKept
  <2>1. UploadDir \in dirs /\ Content(TextPath)' = TextsAfter(Content(TextPath), a, i)
    BY DEF Tells
  <2>2. Content(TextPath) = TextsOf(log, asked)  BY <2>1 DEF TextsSafe, TextsKept, Texts
  <2>3. Texts' = TextsAfter(TextsOf(log, asked), a, i)  BY <1>2, <1>5 DEF Texts
  <2> QED  BY <2>1, <2>2, <2>3
<1>7. ASSUME NEW q \in Requests, phase'[q] = "body" PROVE asked'[q].method = "POST"
  BY <1>2, <1>7 DEF TextsSafe
<1> QED  BY <1>6, <1>7 DEF TextsSafe

(* An answer that is not about texts.                                      *)
NotOfTexts(a, i) ==
  ~(a.code = 204 /\ a.path = TextPath) /\ ~(a.code = 200 /\ i.method = "POST")

(* Such an answer keeps the texts, when their file stays.                  *)
LEMMA OtherAnswer ==
  ASSUME SiteInv, TextsSafe, NEW r \in Requests, NEW i, NEW a, Given(r, i, a),
         NotOfTexts(a, i), dirs' \subseteq dirs, Content(TextPath)' = Content(TextPath)
  PROVE  TextsSafe'
<1>1. Tells(a, i)  BY DEF Tells, NotOfTexts, TextsAfter
<1> QED  BY <1>1, TellsKeeps

(* Another file is written.                                                *)
LEMMA TextStays ==
  ASSUME NEW path, path # TextPath, NEW content, files' = Written(path, content)
  PROVE  Content(TextPath)' = Content(TextPath)
<1>1. CASE DirOf(path) \notin dirs  BY <1>1 DEF Written, Content, TextPath, UploadDir
<1>2. CASE DirOf(path) \in dirs
  <2> DEFINE F == DOMAIN files \cup {path}
  <2>1. files' = [p \in F |-> IF p = path THEN content ELSE files[p]]  BY <1>2 DEF Written
  <2>2. DOMAIN files' = F  BY <2>1
  <2>3. TextPath \in F <=> TextPath \in DOMAIN files  OBVIOUS
  <2>4. TextPath \in F => files'[TextPath] = files[TextPath]  BY <2>1
  <2> HIDE DEF F
  <2> QED  BY <2>2, <2>3, <2>4 DEF Content, TextPath, UploadDir
<1> QED  BY <1>1, <1>2

(* A step without an answer keeps the texts, too.                          *)
LEMMA QuietTexts ==
  ASSUME SiteInv, TextsSafe, UNCHANGED <<files, dirs, log>>,
         \A q \in Requests : phase[q] = "done" => asked'[q] = asked[q],
         \A q \in Requests : phase'[q] = "body" => asked'[q].method = "POST"
  PROVE  TextsSafe'
<1>0. PICK n : n = Len(log)  OBVIOUS
<1>1. n \in Nat /\ DOMAIN log = 1..n
  <2>1. IsSequence(log)  BY DEF SiteInv, LogTyped
  <2> QED  BY <1>0, <2>1, OneMore
<1>2. \A k \in 1..n : asked'[log[k].by] = asked[log[k].by]
  BY <1>1 DEF SiteInv, LogTyped
<1>3. TextsOf(log, asked') = TextsOf(log, asked)
  <2>1. Len(log) = n /\ n \in Nat  BY <1>0, <1>1
  <2> QED  BY <1>2, <2>1, SameTexts
<1>4. Texts' = Texts  BY <1>3 DEF Texts
<1>5. Content(TextPath)' = Content(TextPath)  BY DEF Content, TextPath, UploadDir
<1>6. TextsKept'  BY <1>4, <1>5 DEF TextsSafe, TextsKept, UploadDir
<1> QED  BY <1>6 DEF TextsSafe

(* At the start there is no text.                                          *)
LEMMA InitTexts ==
  ASSUME Init
  PROVE  TextsSafe
<1>1. TextPath \notin DOMAIN files  BY SiteAssumption, PathAssumption DEF Init
<1>2. Len(log) = 0  BY DEF Init
<1>3. Texts = <<>>
  <2>1. PICK f : TextsSoFar(f, log, asked, 0) /\ TextsOf(log, asked) = f[0]
    BY <1>2, TextsSteps
  <2> QED  BY <2>1 DEF TextsSoFar, Texts
<1>4. \A r \in Requests : phase[r] # "body"  BY DEF Init
<1> QED  BY <1>1, <1>3, <1>4 DEF TextsSafe, TextsKept, Content

(* The heads of requests, and the texts: only a DELETE takes them away.    *)
LEMMA HeadsTell ==
  ASSUME NamesApart, SiteInv, TextsSafe, NEW r \in Requests, Heads(r)
  PROVE  TextsSafe'
<1>1. CASE CheckFails(r)
  <2>1. PICK e \in Checked(AllMethods) :
          Arrives(r) /\ e.to.code >= 400 /\ Check(r, e) /\ Refuse(r, e.to, e.to.code)
    BY <1>1 DEF CheckFails
  <2> DEFINE page == ErrorPage(SettingsOf(e.to), DOMAIN files, e.to.code)
  <2>2. Respond(r, e.to.code, page, Content(page)) /\ files' = files /\ dirs' = dirs
    BY <2>1 DEF Refuse
  <2>3. PICK a : Given(r, e.input, a) /\ a.code = e.to.code  BY HeadAnswered, <2>1, <2>2
  <2>4. NotOfTexts(a, e.input)
    <3>1. a.code # 200 /\ a.code # 204  BY <2>1, <2>3
    <3> QED  BY <3>1 DEF NotOfTexts
  <2>5. Content(TextPath)' = Content(TextPath)  BY <2>2 DEF Content, TextPath, UploadDir
  <2> QED  BY <2>2, <2>3, <2>4, <2>5, OtherAnswer
<1>2. CASE Redirects(r)
  <2>1. PICK e \in Checked({"GET", "DELETE"}) :
          /\ Arrives(r) /\ Check(r, e) /\ Respond(r, 301, e.to.path, <<>>)
          /\ files' = files /\ dirs' = dirs
    BY <1>2 DEF Redirects
  <2>2. PICK a : Given(r, e.input, a) /\ a.code = 301  BY HeadAnswered, <2>1
  <2>3. NotOfTexts(a, e.input)  BY <2>2 DEF NotOfTexts
  <2>4. Content(TextPath)' = Content(TextPath)  BY <2>1 DEF Content, TextPath, UploadDir
  <2> QED  BY <2>1, <2>2, <2>3, <2>4, OtherAnswer
<1>3. CASE AwaitsBody(r)
  <2>1. PICK e \in Checked({"POST"}) : Arrives(r) /\ Check(r, e)
    BY <1>3 DEF AwaitsBody
  <2>2. phase' = [phase EXCEPT ![r] = "body"] /\ files' = files /\ dirs' = dirs /\ log' = log
    BY <1>3 DEF AwaitsBody
  <2>3. /\ e.input.method \in {"POST"} /\ asked' = [asked EXCEPT ![r] = e.input]
        /\ phase[r] # "done"
    BY HeadSeen, <2>1
  <2>4. \A q \in Requests : phase[q] = "done" => asked'[q] = asked[q]
    BY <2>2, <2>3 DEF SiteInv, Typed
  <2>5. asked'[r].method = "POST"  BY <2>3 DEF SiteInv, Typed
  <2>6. \A q \in Requests \ {r} : asked'[q] = asked[q] /\ phase'[q] = phase[q]
    BY <2>2, <2>3 DEF SiteInv, Typed
  <2>7. \A q \in Requests : phase'[q] = "body" => asked'[q].method = "POST"
    BY <2>5, <2>6 DEF TextsSafe
  <2> QED  BY <2>2, <2>4, <2>7, QuietTexts
<1>4. CASE GetsDirectory(r)
  <2>1. PICK e \in Checked({"GET"}) :
          /\ Arrives(r) /\ e.to.code = 200 /\ Check(r, e) /\ dirs' = dirs
          /\ files' = Written(Append(Slashed(Place(e.to.path)), "autoindex.html"), Listing)
          /\ Respond(r, 200, Append(Slashed(Place(e.to.path)), "autoindex.html"), Listing)
    BY <1>4 DEF GetsDirectory
  <2> DEFINE page == Append(Slashed(Place(e.to.path)), "autoindex.html")
  <2>2. page # TextPath
    <3>1. site # NoSite  BY <2>1 DEF Arrives
    <3>2. Last(page) = "autoindex.html"  BY <2>1, <3>1, PageNamed DEF SiteInv
    <3> QED  BY <3>2, UploadNames
  <2>3. files' = Written(page, Listing)  BY <2>1
  <2> HIDE DEF page
  <2>4. PICK a : Given(r, e.input, a) /\ a.code = 200 /\ e.input.method \in {"GET"}
    BY HeadAnswered, <2>1
  <2>5. NotOfTexts(a, e.input)  BY <2>4 DEF NotOfTexts
  <2>6. Content(TextPath)' = Content(TextPath)  BY <2>2, <2>3, TextStays
  <2> QED  BY <2>1, <2>4, <2>5, <2>6, OtherAnswer
<1>5. CASE GetsJson(r)
  <2>1. PICK e \in Checked({"GET"}) :
          /\ Arrives(r) /\ Check(r, e) /\ dirs' = dirs
          /\ files' = Written(JsonPath, Listing)
          /\ Respond(r, 200, e.to.path, Listing)
    BY <1>5 DEF GetsJson
  <2>2. PICK a : Given(r, e.input, a) /\ a.code = 200 /\ e.input.method \in {"GET"}
    BY HeadAnswered, <2>1
  <2>3. NotOfTexts(a, e.input)  BY <2>2 DEF NotOfTexts
  <2>4. JsonPath # TextPath  BY UploadNames
  <2>5. Content(TextPath)' = Content(TextPath)  BY <2>1, <2>4, TextStays
  <2> QED  BY <2>1, <2>2, <2>3, <2>5, OtherAnswer
<1>6. CASE GetsFile(r)
  <2>1. PICK e \in Checked({"GET"}) :
          /\ Arrives(r) /\ Check(r, e) /\ files' = files /\ dirs' = dirs
          /\ Respond(r, 200, e.to.path, Content(Place(e.to.path)))
    BY <1>6 DEF GetsFile
  <2>2. PICK a : Given(r, e.input, a) /\ a.code = 200 /\ e.input.method \in {"GET"}
    BY HeadAnswered, <2>1
  <2>3. NotOfTexts(a, e.input)  BY <2>2 DEF NotOfTexts
  <2>4. Content(TextPath)' = Content(TextPath)  BY <2>1 DEF Content, TextPath, UploadDir
  <2> QED  BY <2>1, <2>2, <2>3, <2>4, OtherAnswer
<1>7. CASE Deletes(r)
  <2> DEFINE Gone(e) == RemovalAllowed(e.to.path) /\ Removable(e.to.path)
             Code(e) == CASE ~RemovalAllowed(e.to.path) -> 403
                          [] RemovalAllowed(e.to.path) /\ ~Gone(e) -> 500
                          [] Gone(e) -> 204
  <2>1. PICK e \in Checked({"DELETE"}) :
          /\ Arrives(r) /\ Check(r, e)
          /\ files' = IF Gone(e) THEN [p \in DOMAIN files \ {Place(e.to.path)} |-> files[p]] ELSE files
          /\ dirs' = IF Gone(e) THEN dirs \ {Unslashed(Place(e.to.path))} ELSE dirs
          /\ Respond(r, Code(e), Place(e.to.path), <<>>)
    BY <1>7 DEF Deletes
  <2>2. Code(e) # 200 /\ (Gone(e) <=> Code(e) = 204)  OBVIOUS
  <2> HIDE DEF Gone, Code
  <2>3. PICK a : Given(r, e.input, a) /\ a.code = Code(e) /\ a.path = Place(e.to.path)
    BY HeadAnswered, <2>1
  <2>4. CASE Gone(e)
    <3> DEFINE F == DOMAIN files \ {Place(e.to.path)}
    <3>1. files' = [p \in F |-> files[p]]  BY <2>1, <2>4
    <3>2. DOMAIN files' = F /\ \A p \in F : files'[p] = files[p]  BY <3>1
    <3>3. Content(TextPath)' = IF TextPath = Place(e.to.path) THEN <<>> ELSE Content(TextPath)
      BY <3>2 DEF Content, TextPath, UploadDir
    <3> HIDE DEF F
    <3>4. a.code = 204 /\ a.path = Place(e.to.path)  BY <2>2, <2>3, <2>4
    <3>5. Content(TextPath)' = TextsAfter(Content(TextPath), a, e.input)
      BY <3>3, <3>4 DEF TextsAfter
    <3>6. dirs' \subseteq dirs  BY <2>1, <2>4
    <3> QED  BY <2>3, <3>5, <3>6, TellsKeeps DEF Tells
  <2>5. CASE ~Gone(e)
    <3>1. files' = files /\ dirs' = dirs  BY <2>1, <2>5
    <3>2. NotOfTexts(a, e.input)  BY <2>2, <2>3, <2>5 DEF NotOfTexts
    <3>3. Content(TextPath)' = Content(TextPath)  BY <3>1 DEF Content, TextPath, UploadDir
    <3> QED  BY <2>3, <3>1, <3>2, <3>3, OtherAnswer
  <2> QED  BY <2>4, <2>5
<1> QED  BY <1>1, <1>2, <1>3, <1>4, <1>5, <1>6, <1>7 DEF Heads

(* The bodies of requests, and the texts: only a text is added.            *)
LEMMA PostsTell ==
  ASSUME NamesApart, SiteInv, TextsSafe, NEW r \in Requests, Posts(r)
  PROVE  TextsSafe'
<1>1. PICK i : i = asked[r]  OBVIOUS
<1>2. ASSUME AtBody(r), NEW code, NEW path, NEW body, Respond(r, code, path, body),
             code # 200, code # 204, dirs' = dirs, Content(TextPath)' = Content(TextPath)
      PROVE  TextsSafe'
  <2>1. PICK a : Given(r, i, a) /\ a.code = code  BY <1>1, <1>2, BodyAnswered
  <2>2. NotOfTexts(a, i)  BY <1>2, <2>1 DEF NotOfTexts
  <2> QED  BY <1>2, <2>1, <2>2, OtherAnswer
<1>3. files' = files => Content(TextPath)' = Content(TextPath)
  BY DEF Content, TextPath, UploadDir
<1>4. ASSUME AtBody(r), files' = files, dirs' = dirs, phase' = phase, log' = log
      PROVE  TextsSafe'
  <2>1. asked' = asked  BY <1>1, <1>4, BodySeen
  <2>2. \A q \in Requests : phase'[q] = "body" => asked'[q].method = "POST"
    BY <1>4, <2>1 DEF TextsSafe
  <2> QED  BY <1>4, <2>1, <2>2, QuietTexts
<1>5. BodyTaken(r) \/ BodyLost(r) => AtBody(r)  BY DEF BodyTaken, BodyLost
<1>6. CASE BodyRefused(r)
  <2> DEFINE code == BodyError(i)
             page == ErrorPage(SettingsOf(routed[r]), DOMAIN files, code)
  <2>1. /\ AtBody(r) /\ code # 0 /\ files' = files /\ dirs' = dirs
        /\ Respond(r, code, page, Content(page))
    BY <1>1, <1>6 DEF BodyRefused, Refuse
  <2>2. code \in {0, 400, 415}
    <3>1. i \in AllInputs  BY <1>1, <2>1, BodySeen
    <3> QED  BY <3>1, BodyErrors
  <2> HIDE DEF code, page
  <2>3. code # 200 /\ code # 204  BY <2>2
  <2> QED  BY <1>2, <1>3, <2>1, <2>3
<1>7. CASE BuildThrows(r)  BY <1>4, <1>7 DEF BuildThrows
<1>8. CASE Crashes(r)  BY <1>4, <1>8 DEF Crashes
<1>9. CASE RedirectsPost(r)
  <2>1. /\ AtBody(r) /\ files' = files /\ dirs' = dirs
        /\ Respond(r, 301, routed[r].path, <<>>)
    BY <1>5, <1>9 DEF RedirectsPost
  <2>2. 301 # 200 /\ 301 # 204  OBVIOUS
  <2> QED  BY <1>2, <1>3, <2>1, <2>2
<1>10. ASSUME AtBody(r), NEW type \in ImageTypes, NEW data, SaveImage(r, type, data)
       PROVE  TextsSafe'
  <2> DEFINE path == SetFileName(type)
  <2>1. files' = Written(path, data) /\ dirs' = dirs /\ Respond(r, 201, path, path)
    BY <1>10 DEF SaveImage
  <2>2. path # TextPath
    <3>1. IsImageName(path)  BY FreeName DEF SiteInv, Typed, FilesTyped
    <3> QED  BY <3>1, OthersNames
  <2> HIDE DEF path
  <2>3. Content(TextPath)' = Content(TextPath)  BY <2>1, <2>2, TextStays
  <2>4. 201 # 200 /\ 201 # 204  OBVIOUS
  <2> QED  BY <1>2, <1>10, <2>1, <2>3, <2>4
<1>11. CASE UploadsImage(r)
  <2>1. AtBody(r) /\ Media(i) \in {"png", "jpg"} /\ SaveImage(r, Media(i), Data(i))
    BY <1>1, <1>5, <1>11 DEF UploadsImage
  <2>2. Media(i) \in ImageTypes  BY <2>1 DEF ImageTypes
  <2> QED  BY <1>10, <2>1, <2>2
<1>12. CASE SavesJunk(r)
  <2>1. PICK type \in {""} \cup (IF Erased(i) THEN {Media(i)} ELSE {}) :
          SaveImage(r, type, <<"junk">>)
    BY <1>1, <1>12 DEF SavesJunk
  <2>2. AtBody(r) /\ Media(i) \in {"png", "jpg"}
    BY <1>1, <1>5, <1>12 DEF SavesJunk
  <2>3. type \in ImageTypes  BY <2>1, <2>2 DEF ImageTypes
  <2> QED  BY <1>10, <2>1, <2>2, <2>3
<1>13. CASE UploadsText(r)
  <2> DEFINE text == Append(Data(i), "LF")
  <2>1. /\ AtBody(r) /\ Media(i) = "text" /\ dirs' = dirs
        /\ files' = Written(TextPath, Appended(text))
        /\ Respond(r, 200, TextPath, text)
    BY <1>1, <1>5, <1>13 DEF UploadsText
  <2>2. i \in AllInputs /\ i.method = "POST"
    <3>1. i \in AllInputs /\ phase[r] = "body"  BY <1>1, <2>1, BodySeen
    <3> QED  BY <1>1, <3>1 DEF TextsSafe
  <2>3. Data(i) = i.data
    <3>1. SentAsMeant(i)  BY <2>1, <2>2, DataAssumption
    <3> QED  BY <2>2, <3>1, SentUnderstood
  <2>4. PICK a : Given(r, i, a) /\ a.code = 200  BY <1>1, <2>1, BodyAnswered
  <2>5. TextsAfter(Content(TextPath), a, i) = Content(TextPath) \o text
    BY <2>2, <2>3, <2>4 DEF TextsAfter
  <2> HIDE DEF text
  <2>6. UploadDir \in dirs => Content(TextPath)' = Content(TextPath) \o text
    <3> SUFFICES ASSUME UploadDir \in dirs PROVE Content(TextPath)' = Appended(text)
      BY DEF Appended
    <3>1. FilesTyped /\ IsSequence(TextPath) /\ DirOf(TextPath) \in dirs
      BY UploadNames DEF SiteInv, Typed
    <3>2. TextPath \in DOMAIN files' /\ files'[TextPath] = Appended(text)
      BY <2>1, <3>1, WrittenKeeps
    <3> QED  BY <3>2 DEF Content, TextPath, UploadDir
  <2>7. Tells(a, i)  BY <2>1, <2>5, <2>6 DEF Tells
  <2> QED  BY <2>4, <2>7, TellsKeeps
<1>14. CASE TakesForm(r)
  <2>1. /\ AtBody(r) /\ dirs' = dirs
        /\ files' = (IF IsJson(i.uri) THEN Written(JsonPath, Listing) ELSE files)
        /\ phase' = [phase EXCEPT ![r] = "done"]
        /\ \E body, fields : log' = Append(log, Answer(r, 201, i.uri, body, fields))
    BY <1>1, <1>5, <1>14 DEF TakesForm
  <2>2. PICK a : Concludes(r, a) /\ a.code = 201  BY <2>1 DEF Answer, Concludes
  <2>3. Given(r, i, a)  BY <1>1, BodyEnds, <2>1, <2>2
  <2>4. NotOfTexts(a, i)  BY <2>2 DEF NotOfTexts
  <2>5. JsonPath # TextPath  BY UploadNames
  <2>6. Content(TextPath)' = Content(TextPath)
    <3>1. CASE IsJson(i.uri)
      <4>1. files' = Written(JsonPath, Listing)  BY <2>1, <3>1
      <4> QED  BY <2>5, <4>1, TextStays
    <3>2. CASE ~IsJson(i.uri)  BY <1>3, <2>1, <3>2
    <3> QED  BY <3>1, <3>2
  <2> QED  BY <2>1, <2>3, <2>4, <2>6, OtherAnswer
<1> QED
  BY <1>6, <1>7, <1>8, <1>9, <1>11, <1>12, <1>13, <1>14 DEF Posts

(* Every step keeps the texts.                                             *)
LEMMA NextTells ==
  ASSUME NamesApart, SiteInv, TextsSafe, [Next]_vars
  PROVE  TextsSafe'
<1>1. CASE UNCHANGED requests
  <2>1. /\ files' = files /\ dirs' = dirs /\ log' = log
        /\ asked' = asked /\ phase' = phase
    BY <1>1 DEF requests
  <2>2. \A q \in Requests : phase'[q] = "body" => asked'[q].method = "POST"
    BY <2>1 DEF TextsSafe
  <2> QED  BY <2>1, <2>2, QuietTexts
<1>2. CASE \E r \in Requests : Heads(r) \/ Posts(r)
  BY <1>2, HeadsTell, PostsTell
<1> QED  BY <1>1, <1>2 DEF Next, Opens, vars

(* hello.txt holds the texts that were answered with 200, in the order of  *)
(* the answers, since it was last removed: none is lost, cut or mixed with *)
(* another, whatever else is asked between the head and the body of each.  *)
THEOREM TextsKeptAlways ==
  ASSUME NamesApart
  PROVE  Spec => []TextsKept
<1>1. Init => SiteInv /\ TextsSafe  BY InitSite, InitTexts
<1>2. SiteInv /\ TextsSafe /\ [Next]_vars => (SiteInv /\ TextsSafe)'  BY NextKeeps, NextTells
<1>3. SiteInv /\ TextsSafe => TextsKept  BY DEF TextsSafe
<1> QED  BY <1>1, <1>2, <1>3, PTL DEF Spec

(***************************************************************************)
(* The forms                                                               *)
(***************************************************************************)

(* A form has the fields that can be heard of those that were meant.       *)
LEMMA FormMeant ==
  ASSUME NEW i \in AllInputs, i.media = "form", i.fields # <<>>,
         NEW plain \in SUBSET {"=", "SP"}, i.body = FormBody(i.fields, plain)
  PROVE  Media(i) = "form" /\ Form(Data(i)).fields = LastOfEach(HeardPairs(i.fields, plain))
<1> DEFINE pairs == i.fields
           Names == UNION {ToSet(pairs[k][1]) : k \in DOMAIN pairs}
           Values == UNION {ToSet(pairs[k][2]) : k \in DOMAIN pairs}
           T == Names \cup Values \cup Marks
<1>1. Media(i) = "form" /\ Data(i) = i.body  BY DEF Media, Data, IsMultipart
<1>2. Marks \subseteq T /\ plain \subseteq {"=", "SP"}  OBVIOUS
<1>3. \A k \in DOMAIN pairs : pairs[k] \in Seq(T) \X Seq(T)
  <2> TAKE k \in DOMAIN pairs
  <2> DEFINE name == pairs[k][1]
             value == pairs[k][2]
             A == ToSet(name)
             B == ToSet(value)
  <2>1. pairs[k] = <<name, value>> /\ name \in Seq(A) /\ value \in Seq(B)
    BY FormAssumption DEF IsSequence
  <2>2. A \subseteq T /\ B \subseteq T  BY Zenon
  <2> HIDE DEF A, B, T, name, value
  <2>3. name \in Seq(T) /\ value \in Seq(T)  BY <2>1, <2>2
  <2> QED  BY <2>1, <2>3
<1>4. pairs \in Seq(Seq(T) \X Seq(T))
  <2> DEFINE P == ToSet(pairs)
  <2>1. pairs \in Seq(P)  BY FormAssumption DEF IsSequence
  <2>2. \A p \in P : p \in Seq(T) \X Seq(T)  BY <1>3, Zenon DEF ToSet
  <2> HIDE DEF P, T, pairs
  <2> QED  BY <2>1, <2>2
<1>5. pairs # <<>> /\ i.body = FormBody(pairs, plain)  OBVIOUS
<1> HIDE DEF T, pairs
<1>6. Form(FormBody(pairs, plain)).fields = LastOfEach(HeardPairs(pairs, plain))
  BY <1>2, <1>4, <1>5, FormUnderstood
<1> QED  BY <1>1, <1>5, <1>6 DEF pairs

(* Codes of requests that are checked.                                     *)
LEMMA CheckedCodes ==
  ASSUME Typed, NEW methods, NEW e \in Checked(methods)
  PROVE  e.to.code \in {200, 301, 404, 405, 500}
<1>1. PICK t : e.to = CheckRequest(e.input, t)  BY Comes
<1> DEFINE s == SettingsOf(t)
           routing == CheckUri(s, t, Exists(t.path), e.input.uri)
<1>2. e.to = CheckMethod(s, routing, e.input.method)  BY <1>1 DEF CheckRequest
<1>3. \E code, path, to : code \in {200, 301, 404, 500} /\ routing = Routed(code, path, to)
  BY DEF CheckUri
<1> HIDE DEF s, routing
<1>4. PICK code, path, to :
        code \in {200, 301, 404, 500} /\ routing = Routed(code, path, to)
  BY <1>3
<1>5. \/ e.to = Routed(code, path, to)
      \/ e.to = [Routed(code, path, to) EXCEPT !.code = 405]
  BY <1>2, <1>4 DEF CheckMethod
<1>6. /\ Routed(code, path, to).code = code
      /\ [Routed(code, path, to) EXCEPT !.code = 405].code = 405
  BY DEF Routed
<1>7. e.to.code = code \/ e.to.code = 405  BY <1>5, <1>6
<1>8. code \in {200, 301, 404, 500}  BY <1>4
<1> QED  BY <1>7, <1>8

(* A form that is answered with 201 has its fields.                        *)
FormTold(a, i) ==
  i.media = "form" /\ i.fields # <<>> /\ a.code = 201 =>
    \A plain \in SUBSET {"=", "SP"} :
      i.body = FormBody(i.fields, plain) => a.fields = LastOfEach(HeardPairs(i.fields, plain))

(* What a step of a request says: nothing, or an answer.                   *)
SaysNothing == log' = log /\ \A q \in Requests : phase[q] = "done" => asked'[q] = asked[q]
SaysAnswer(r) == \E i, a : Given(r, i, a) /\ a.code \in Codes /\ FormTold(a, i)

(* The heads of requests.                                                  *)
LEMMA HeadsSay ==
  ASSUME SiteInv, NEW r \in Requests, Heads(r)
  PROVE  SaysNothing \/ SaysAnswer(r)
<1>1. ASSUME NEW methods, NEW e \in Checked(methods), Arrives(r), Check(r, e),
             NEW code \in Codes \ {201}, NEW path, NEW body, Respond(r, code, path, body)
      PROVE  SaysAnswer(r)
  <2>1. PICK a : Given(r, e.input, a) /\ a.code = code  BY HeadAnswered, <1>1
  <2> QED  BY <2>1 DEF SaysAnswer, FormTold
<1>2. CASE CheckFails(r)
  <2>1. PICK e \in Checked(AllMethods) :
          Arrives(r) /\ e.to.code >= 400 /\ Check(r, e) /\ Refuse(r, e.to, e.to.code)
    BY <1>2 DEF CheckFails
  <2>2. e.to.code \in Codes \ {201}
    <3>1. e.to.code \in {200, 301, 404, 405, 500}  BY CheckedCodes DEF SiteInv
    <3> QED  BY <2>1, <3>1 DEF Codes
  <2> QED  BY <1>1, <2>1, <2>2 DEF Refuse
<1>3. CASE Redirects(r)
  <2>1. PICK e \in Checked({"GET", "DELETE"}) :
          Arrives(r) /\ Check(r, e) /\ Respond(r, 301, e.to.path, <<>>)
    BY <1>3 DEF Redirects
  <2>2. 301 \in Codes \ {201}  BY DEF Codes
  <2> QED  BY <1>1, <2>1, <2>2
<1>4. CASE AwaitsBody(r)
  <2>1. PICK e \in Checked({"POST"}) : Arrives(r) /\ Check(r, e)
    BY <1>4 DEF AwaitsBody
  <2>2. asked' = [asked EXCEPT ![r] = e.input] /\ phase[r] # "done"  BY HeadSeen, <2>1
  <2>3. \A q \in Requests : phase[q] = "done" => asked'[q] = asked[q]
    BY <2>2 DEF SiteInv, Typed
  <2> QED  BY <1>4, <2>3 DEF AwaitsBody, SaysNothing
<1>5. CASE GetsDirectory(r)
  <2>1. PICK e \in Checked({"GET"}) :
          /\ Arrives(r) /\ Check(r, e)
          /\ Respond(r, 200, Append(Slashed(Place(e.to.path)), "autoindex.html"), Listing)
    BY <1>5 DEF GetsDirectory
  <2>2. 200 \in Codes \ {201}  BY DEF Codes
  <2> QED  BY <1>1, <2>1, <2>2
<1>6. CASE GetsJson(r)
  <2>1. PICK e \in Checked({"GET"}) :
          Arrives(r) /\ Check(r, e) /\ Respond(r, 200, e.to.path, Listing)
    BY <1>6 DEF GetsJson
  <2>2. 200 \in Codes \ {201}  BY DEF Codes
  <2> QED  BY <1>1, <2>1, <2>2
<1>7. CASE GetsFile(r)
  <2>1. PICK e \in Checked({"GET"}) :
          Arrives(r) /\ Check(r, e) /\ Respond(r, 200, e.to.path, Content(Place(e.to.path)))
    BY <1>7 DEF GetsFile
  <2>2. 200 \in Codes \ {201}  BY DEF Codes
  <2> QED  BY <1>1, <2>1, <2>2
<1>8. CASE Deletes(r)
  <2> DEFINE Gone(e) == RemovalAllowed(e.to.path) /\ Removable(e.to.path)
             Code(e) == CASE ~RemovalAllowed(e.to.path) -> 403
                          [] RemovalAllowed(e.to.path) /\ ~Gone(e) -> 500
                          [] Gone(e) -> 204
  <2>1. PICK e \in Checked({"DELETE"}) :
          Arrives(r) /\ Check(r, e) /\ Respond(r, Code(e), Place(e.to.path), <<>>)
    BY <1>8 DEF Deletes
  <2>2. Code(e) \in Codes \ {201}
    <3>1. Code(e) \in {403, 500, 204}  OBVIOUS
    <3> HIDE DEF Code
    <3> QED  BY <3>1 DEF Codes
  <2> HIDE DEF Gone, Code
  <2> QED  BY <1>1, <2>1, <2>2
<1> QED  BY <1>2, <1>3, <1>4, <1>5, <1>6, <1>7, <1>8 DEF Heads

(* The bodies of requests.                                                 *)
LEMMA PostsSay ==
  ASSUME SiteInv, NEW r \in Requests, Posts(r)
  PROVE  SaysNothing \/ SaysAnswer(r)
<1>1. PICK i : i = asked[r]  OBVIOUS
<1>2. ASSUME AtBody(r), NEW code \in Codes, NEW path, NEW body, Respond(r, code, path, body),
             code # 201 \/ Media(i) \in {"png", "jpg"}
      PROVE  SaysAnswer(r)
  <2>1. PICK a : Given(r, i, a) /\ a.code = code  BY <1>1, <1>2, BodyAnswered
  <2>2. Media(i) \in {"png", "jpg"} => i.media # "form"  BY DEF Media, IsMultipart
  <2> QED  BY <1>2, <2>1, <2>2 DEF SaysAnswer, FormTold
<1>3. ASSUME AtBody(r), log' = log PROVE SaysNothing
  BY <1>1, <1>3, BodySeen DEF SaysNothing
<1>4. BodyTaken(r) \/ BodyLost(r) => AtBody(r)  BY DEF BodyTaken, BodyLost
<1>5. {200, 201, 301, 400, 415} \subseteq Codes  BY DEF Codes
<1>6. CASE BodyRefused(r)
  <2> DEFINE page == ErrorPage(SettingsOf(routed[r]), DOMAIN files, BodyError(i))
  <2>1. AtBody(r) /\ BodyError(i) # 0 /\ Respond(r, BodyError(i), page, Content(page))
    BY <1>1, <1>6 DEF BodyRefused, Refuse
  <2>2. i \in AllInputs  BY <1>1, BodySeen, <2>1
  <2>3. BodyError(i) \in {400, 415}  BY <2>1, <2>2, BodyErrors
  <2> HIDE DEF page
  <2>4. BodyError(i) \in Codes /\ BodyError(i) # 201  BY <1>5, <2>3
  <2> QED  BY <1>2, <2>1, <2>4
<1>7. CASE BuildThrows(r)  BY <1>3, <1>7 DEF BuildThrows
<1>8. CASE Crashes(r)  BY <1>3, <1>8 DEF Crashes
<1>9. CASE RedirectsPost(r)
  <2>1. AtBody(r) /\ Respond(r, 301, routed[r].path, <<>>)
    BY <1>4, <1>9 DEF RedirectsPost
  <2>2. 301 \in Codes /\ 301 # 201  BY <1>5
  <2> QED  BY <1>2, <2>1, <2>2
<1>10. ASSUME AtBody(r), NEW type, NEW data, SaveImage(r, type, data),
              Media(i) \in {"png", "jpg"}
       PROVE  SaysAnswer(r)
  <2>1. Respond(r, 201, SetFileName(type), SetFileName(type))  BY <1>10 DEF SaveImage
  <2>2. 201 \in Codes  BY <1>5
  <2> QED  BY <1>2, <1>10, <2>1, <2>2
<1>11. CASE UploadsImage(r)
  BY <1>1, <1>4, <1>10, <1>11 DEF UploadsImage
<1>12. CASE SavesJunk(r)
  BY <1>1, <1>4, <1>10, <1>12 DEF SavesJunk
<1>13. CASE UploadsText(r)
  <2> DEFINE text == Append(Data(i), "LF")
  <2>1. AtBody(r) /\ Respond(r, 200, TextPath, text)
    BY <1>1, <1>4, <1>13 DEF UploadsText
  <2> HIDE DEF text
  <2>2. 200 \in Codes /\ 200 # 201  BY <1>5
  <2> QED  BY <1>2, <2>1, <2>2
<1>14. CASE TakesForm(r)
  <2> DEFINE fields == IF Media(i) = "form" THEN Form(Data(i)).fields ELSE {}
             body == IF IsJson(i.uri) THEN Listing ELSE <<>>
             a == Answer(r, 201, i.uri, body, fields)
  <2>1. /\ AtBody(r)
        /\ BodyTaken(r) \/ BodyLost(r)
        /\ log' = Append(log, a) /\ phase' = [phase EXCEPT ![r] = "done"]
    BY <1>1, <1>4, <1>14 DEF TakesForm
  <2>2. a.by = r /\ a.code = 201 /\ a.fields = fields  BY DEF Answer
  <2>3. FormTold(a, i)
    <3> SUFFICES ASSUME i.media = "form", i.fields # <<>>,
                        NEW plain \in SUBSET {"=", "SP"}, i.body = FormBody(i.fields, plain)
                 PROVE  fields = LastOfEach(HeardPairs(i.fields, plain))
      BY <2>2 DEF FormTold
    <3>1. i \in AllInputs  BY <1>1, <1>4, BodySeen, <2>1
    <3>2. /\ Media(i) = "form"
          /\ Form(Data(i)).fields = LastOfEach(HeardPairs(i.fields, plain))
      BY <3>1, FormMeant
    <3> QED  BY <3>2
  <2> HIDE DEF a
  <2>4. Concludes(r, a)  BY <2>1, <2>2 DEF Concludes
  <2>5. Given(r, i, a)  BY <1>1, <1>4, <2>1, <2>4, BodyEnds
  <2> QED  BY <1>5, <2>2, <2>3, <2>5 DEF SaysAnswer
<1> QED
  BY <1>6, <1>7, <1>8, <1>9, <1>11, <1>12, <1>13, <1>14 DEF Posts

(* Answers stay, and so does what they answer.                             *)
LEMMA AnswersStay ==
  ASSUME SiteInv, NEW r \in Requests, NEW i, NEW a, Given(r, i, a)
  PROVE  \E n \in Nat :
           /\ DOMAIN log = 1..n /\ DOMAIN log' = 1..n + 1 /\ log'[n + 1] = a
           /\ a.by = r /\ asked'[r] = i
           /\ \A k \in 1..n : log'[k] = log[k] /\ asked'[log[k].by] = asked[log[k].by]
<1>1. PICK n : n = Len(log)  OBVIOUS
<1>2. /\ n \in Nat /\ Len(log') = n + 1 /\ log'[n + 1] = a
      /\ DOMAIN log = 1..n /\ DOMAIN log' = 1..n + 1 /\ \A k \in 1..n : log'[k] = log[k]
  <2>1. IsSequence(log) /\ log' = Append(log, a)  BY DEF SiteInv, LogTyped, Given
  <2> QED  BY <1>1, <2>1, OneMore
<1>3. a.by = r /\ asked'[r] = i /\ \A q \in Requests \ {r} : asked'[q] = asked[q]
  BY DEF SiteInv, Typed, Given
<1>4. \A k \in 1..n : log[k].by \in Requests \ {r}
  <2>1. \A k \in 1..n : log[k].by \in Requests /\ phase[log[k].by] = "done"
    BY <1>2 DEF SiteInv, LogTyped
  <2>2. phase[r] # "done"  BY DEF Given
  <2> QED  BY <2>1, <2>2
<1> QED  BY <1>2, <1>3, <1>4

(* What was said so far: the codes, and the fields of forms.               *)
SaidWell ==
  \A k \in DOMAIN log : log[k].code \in Codes /\ FormTold(log[k], asked[log[k].by])

(* At first nothing was.                                                   *)
LEMMA InitSaid ==
  Init => SaidWell
<1>1. Init => DOMAIN log = {}  BY DEF Init
<1> QED  BY <1>1 DEF SaidWell

(* It stays so with every step.                                            *)
LEMMA NextSays ==
  ASSUME SiteInv, SaidWell, [Next]_vars
  PROVE  SaidWell'
<1>1. CASE SaysNothing
  <2>1. \A k \in DOMAIN log : asked'[log[k].by] = asked[log[k].by]
    BY <1>1 DEF SiteInv, LogTyped, SaysNothing
  <2> QED  BY <1>1, <2>1 DEF SaidWell, SaysNothing
<1>2. ASSUME NEW r \in Requests, SaysAnswer(r) PROVE SaidWell'
  <2>1. PICK i, a : Given(r, i, a) /\ a.code \in Codes /\ FormTold(a, i)
    BY <1>2 DEF SaysAnswer
  <2>2. PICK n \in Nat :
           /\ DOMAIN log = 1..n /\ DOMAIN log' = 1..n + 1 /\ log'[n + 1] = a
           /\ a.by = r /\ asked'[r] = i
           /\ \A k \in 1..n : log'[k] = log[k] /\ asked'[log[k].by] = asked[log[k].by]
    BY <2>1, AnswersStay
  <2>3. \A k \in 1..n + 1 : k \in 1..n \/ k = n + 1  BY <2>2
  <2>4. ASSUME NEW k \in 1..n + 1
        PROVE  log'[k].code \in Codes /\ FormTold(log'[k], asked'[log'[k].by])
    <3>1. CASE k = n + 1  BY <2>1, <2>2, <3>1
    <3>2. CASE k \in 1..n
      <4>1. log[k].code \in Codes /\ FormTold(log[k], asked[log[k].by])
        BY <2>2, <3>2 DEF SaidWell
      <4> QED  BY <2>2, <3>2, <4>1
    <3> QED  BY <2>3, <3>1, <3>2
  <2> QED  BY <2>2, <2>4 DEF SaidWell
<1>3. CASE UNCHANGED requests
  <2>1. SaysNothing  BY <1>3 DEF requests, SaysNothing
  <2> QED  BY <1>1, <2>1
<1>4. CASE \E r \in Requests : Heads(r) \/ Posts(r)
  BY <1>1, <1>2, <1>4, HeadsSay, PostsSay
<1> QED  BY <1>3, <1>4 DEF Next, Opens, vars

(* A form that is answered with 201 was understood as the client meant it, *)
(* escaped characters, equal signs within values, and names given twice;   *)
(* but a space sent as "+" is taken for a "+".                             *)
THEOREM FormsUnderstoodAlways ==
  ASSUME NamesApart
  PROVE  Spec => []FormsUnderstood
<1>1. Init => SiteInv /\ SaidWell  BY InitSite, InitSaid
<1>2. SiteInv /\ SaidWell /\ [Next]_vars => (SiteInv /\ SaidWell)'
  BY NextKeeps, NextSays
<1>3. SiteInv /\ SaidWell => FormsUnderstood
  <2> SUFFICES ASSUME SaidWell, NEW k \in DOMAIN log PROVE
        LET i == asked[log[k].by]
        IN i.media = "form" /\ i.fields # <<>> /\ log[k].code = 201 =>
             \A plain \in SUBSET {"=", "SP"} :
               i.body = FormBody(i.fields, plain) =>
                 log[k].fields = LastOfEach(HeardPairs(i.fields, plain))
    BY DEF FormsUnderstood
  <2>1. FormTold(log[k], asked[log[k].by])  BY DEF SaidWell
  <2> QED  BY <2>1, Zenon DEF FormTold
<1> QED  BY <1>1, <1>2, <1>3, PTL DEF Spec

(***************************************************************************)
(* The servers                                                             *)
(***************************************************************************)

(* Requests leave alone what the program has started.                      *)
LEMMA RequestsLeaveServers ==
  ASSUME NEW r, Heads(r) \/ Posts(r)
  PROVE  UNCHANGED startup /\ UNCHANGED site
<1>1. \A e : Check(r, e) => UNCHANGED startup /\ UNCHANGED site  BY DEF Check
<1>2. AtBody(r) => UNCHANGED startup /\ UNCHANGED site  BY DEF AtBody
<1>3. Heads(r) => \E e : Check(r, e)
  BY DEF Heads, CheckFails, Redirects, AwaitsBody, GetsDirectory, GetsJson, GetsFile, Deletes
<1>4. Posts(r) => AtBody(r)
  BY DEF Posts, BodyRefused, BuildThrows, RedirectsPost, UploadsImage, UploadsText, TakesForm,
         Crashes, SavesJunk, BodyTaken, BodyLost
<1> QED  BY <1>1, <1>2, <1>3, <1>4

(* A step is one of starting, or leaves it alone.                          *)
LEMMA StartsStep ==
  [Next]_vars => [Startup]_startup
<1> SUFFICES ASSUME [Next]_vars PROVE Startup \/ UNCHANGED startup  OBVIOUS
<1>1. CASE \E r \in Requests : Heads(r) \/ Posts(r)  BY <1>1, RequestsLeaveServers
<1>2. CASE Opens  BY <1>2 DEF Opens
<1>3. CASE UNCHANGED vars  BY <1>3 DEF vars
<1> QED  BY <1>1, <1>2, <1>3 DEF Next

(* The program that answers requests starts as module Config says: Site    *)
(* implements it.                                                          *)
THEOREM SiteStarts ==
  Spec => ConfigSpec
<1>1. Init => ConfigInit  BY DEF Init
<1> QED  BY <1>1, StartsStep, PTL DEF Spec, ConfigSpec

(* So on a well-formed file it runs exactly if it should, ...              *)
THEOREM SiteStartsRight ==
  Spec => []StartsAsItShould
BY SiteStarts, StartsRight, PTL

(* ... with the servers that the file means.                               *)
THEOREM SiteServersRight ==
  Spec => []ServersAsWritten
BY SiteStarts, ServersRight, PTL

(***************************************************************************)
(* Where a URI leads                                                       *)
(***************************************************************************)

(* How long the path is that is looked up at k.                            *)
LengthAt(uri, k) == IF k > 1 /\ uri[k] = "/" THEN k - 1 ELSE k

(* The first location of a name, if there is one.                          *)
LEMMA NamedFirst ==
  ASSUME NEW l, IsSequence(l), NEW name
  PROVE  /\ FirstNamed(l, name) = 0 \/ (/\ FirstNamed(l, name) \in DOMAIN l
                                         /\ FirstNamed(l, name) > 0
                                         /\ l[FirstNamed(l, name)].name = name)
         /\ (\E j \in DOMAIN l : l[j].name = name) => FirstNamed(l, name) # 0
<1>1. Len(l) \in Nat /\ DOMAIN l = 1..Len(l)  BY Beginning
<1> DEFINE I == {i \in 1..Len(l) : l[i].name = name}
<1>2. FirstNamed(l, name) = IF I # {} THEN Min(I) ELSE 0  BY DEF FirstNamed, SelectInSeq
<1>3. ASSUME I # {} PROVE Min(I) \in I
  <2>1. I \in SUBSET Nat  OBVIOUS
  <2> HIDE DEF I
  <2>2. \E x \in I : \A y \in I : x <= y  BY <1>3, <2>1, LeastExists
  <2> QED  BY <2>2 DEF Min
<1>4. \A j \in I : j \in 1..Len(l) /\ j > 0 /\ l[j].name = name  BY <1>1
<1>5. (\E j \in DOMAIN l : l[j].name = name) => I # {}  BY <1>1
<1> HIDE DEF I
<1> QED  BY <1>1, <1>2, <1>3, <1>4, <1>5

(* Every name that is looked up covers the URI.                            *)
LEMMA StopsCover ==
  ASSUME NEW uri, IsSequence(uri), uri[1] = "/", NEW k \in Stops(uri)
  PROVE  /\ k \in 1..Len(uri) /\ LengthAt(uri, k) \in 1..Len(uri)
         /\ PathAt(uri, k) = SubSeq(uri, 1, LengthAt(uri, k))
         /\ IsSequence(PathAt(uri, k)) /\ Len(PathAt(uri, k)) = LengthAt(uri, k)
         /\ Covers(PathAt(uri, k), uri)
<1>1. Len(uri) \in Nat  BY Beginning
<1>2. PICK m \in 0..Len(uri) : DOMAIN PathPart(uri) = 1..m  BY PathPartIs
<1>3. k \in 1..m /\ (uri[k] = "/" \/ k = Len(uri))  BY <1>2 DEF Stops
<1>4. k \in 1..Len(uri) /\ k \in Int  BY <1>1, <1>2, <1>3
<1> DEFINE h == LengthAt(uri, k)
           p == PathAt(uri, k)
<1>5. h \in 1..Len(uri) /\ h \in 0..Len(uri)  BY <1>1, <1>4 DEF LengthAt
<1>6. p = SubSeq(uri, 1, h)  BY DEF PathAt, LengthAt
<1>7. \/ k = 1 /\ h = 1
      \/ k > 1 /\ uri[k] = "/" /\ h + 1 = k
      \/ k = Len(uri) /\ h = k
  BY <1>3, <1>4 DEF LengthAt
<1> HIDE DEF h, p
<1>8. IsSequence(p) /\ Len(p) = h /\ \A i \in 1..h : p[i] = uri[i]  BY <1>5, <1>6, Beginning
<1>9. IsPrefix(p, uri)  BY <1>5, <1>8, PrefixIs
<1>10. Covers(p, uri)
  <2>1. CASE k = 1 /\ h = 1
    <3>1. 1 \in 1..h  BY <2>1
    <3>2. p[1] = "/" /\ Len(p) = 1  BY <1>8, <2>1, <3>1
    <3>3. p = <<"/">>
      <4> DEFINE T == ToSet(p) \cup {"/"}
                 A == ToSet(p)
                 s == <<"/">>
      <4>1. s \in Seq({"/"}) /\ Len(s) = 1 /\ s[1] = "/"  OBVIOUS
      <4> HIDE DEF s
      <4>2. p \in Seq(A)  BY <1>8 DEF IsSequence
      <4> HIDE DEF A
      <4>3. p \in Seq(A \cup {"/"}) /\ s \in Seq(A \cup {"/"})  BY <4>1, <4>2
      <4>4. \A i \in 1..Len(p) : p[i] = s[i]  BY <3>2, <4>1
      <4>5. p = s  BY <3>2, <4>1, <4>3, <4>4, Same
      <4> QED  BY <4>5 DEF s
    <3> QED  BY <1>9, <3>3 DEF Covers
  <2>2. CASE k > 1 /\ uri[k] = "/" /\ h + 1 = k
    <3>1. uri[Len(p) + 1] = "/"  BY <1>8, <2>2
    <3> QED  BY <1>9, <3>1 DEF Covers
  <2>3. CASE k = Len(uri) /\ h = k
    BY <1>8, <1>9, <2>3 DEF Covers
  <2> QED  BY <1>7, <2>1, <2>2, <2>3
<1> QED  BY <1>4, <1>5, <1>6, <1>8, <1>10 DEF h, p

(* Every name that covers the URI is looked up.                            *)
LEMMA CoveringFound ==
  ASSUME NEW uri, IsSequence(uri), uri # <<>>, uri[1] = "/",
         NEW name, IsLocationName(name), Covers(name, uri)
  PROVE  \E k \in Stops(uri) : PathAt(uri, k) = name
<1> PICK c : c = Len(name)  OBVIOUS
<1> PICK u : u = Len(uri)  OBVIOUS
<1>1. u \in Nat /\ DOMAIN uri = 1..u  BY Beginning
<1>2. /\ IsSequence(name) /\ c \in Nat /\ DOMAIN name = 1..c
      /\ Last(name) = name[c] /\ (name[c] = "/" => c = 1)
      /\ \A i \in 1..c : name[i] # "?"
  <2>1. IsSequence(name) /\ "?" \notin ToSet(name) /\ (Last(name) = "/" => Len(name) = 1)
    BY DEF IsLocationName
  <2>2. c \in Nat /\ DOMAIN name = 1..c  BY <2>1, Beginning
  <2>3. \A i \in 1..c : name[i] \in ToSet(name)  BY <2>2 DEF ToSet
  <2> QED  BY <2>1, <2>2, <2>3 DEF Last
<1>3. c # 0
  <2> DEFINE T == ToSet(name)
  <2>1. name \in Seq(T)  BY <1>2 DEF IsSequence
  <2> HIDE DEF T
  <2>2. Len(name) = 0 => name = <<>>  BY <2>1
  <2> QED  BY <2>2 DEF IsLocationName
<1>4. c \in 1..u /\ name = SubSeq(uri, 1, c) /\ \A i \in 1..c : name[i] = uri[i]
  <2>1. IsPrefix(name, uri)  BY DEF Covers
  <2>2. c \in 0..u /\ name = SubSeq(uri, 1, c)  BY <1>2, <2>1, PrefixIs
  <2>3. \A i \in 1..c : name[i] = uri[i]  BY <1>2, <2>1, PrefixIs
  <2>4. c \in 1..u  BY <1>1, <1>2, <1>3, <2>2
  <2> QED  BY <2>2, <2>3, <2>4
<1>0. c \in 1..u /\ \A i \in 1..c : name[i] = uri[i]  BY <1>4
<1>5. PICK m :
        /\ m \in 0..u
        /\ DOMAIN PathPart(uri) = 1..m /\ \A j \in 1..m : uri[j] # "?"
        /\ m = u \/ uri[m + 1] = "?"
  BY PathPartIs
<1>6. \A k : k \in Stops(uri) <=> k \in 1..m /\ (uri[k] = "/" \/ k = u)
  BY <1>5 DEF Stops
<1>7. c <= m
  <2> SUFFICES ASSUME m < c PROVE FALSE  BY <1>2, <1>5
  <2>1. m + 1 \in 1..c /\ m # u  BY <1>0, <1>1, <1>5
  <2>2. uri[m + 1] = "?" /\ name[m + 1] = uri[m + 1]  BY <1>0, <1>5, <2>1
  <2> QED  BY <1>2, <2>1, <2>2
<1>8. ASSUME NEW k \in 1..m, uri[k] = "/" \/ k = u, LengthAt(uri, k) = c
      PROVE  \E j \in Stops(uri) : PathAt(uri, j) = name
  <2>1. k \in Stops(uri)  BY <1>6, <1>8
  <2>2. PathAt(uri, k) = SubSeq(uri, 1, c)  BY <1>8 DEF PathAt, LengthAt
  <2> QED  BY <1>4, <2>1, <2>2
<1>9. CASE c = 1 /\ name[c] = "/"
  <2>1. 1 \in 1..m /\ LengthAt(uri, 1) = c  BY <1>0, <1>1, <1>5, <1>7, <1>9 DEF LengthAt
  <2> QED  BY <1>8, <2>1
<1>10. CASE c = u /\ name[c] # "/"
  <2>1. c \in 1..m  BY <1>0, <1>1, <1>5, <1>7
  <2>2. uri[c] # "/"  BY <1>0, <1>10
  <2>3. LengthAt(uri, c) = c  BY <2>2 DEF LengthAt
  <2> QED  BY <1>8, <1>10, <2>1, <2>3
<1>11. CASE c # u /\ uri[c + 1] = "/"
  <2>1. c + 1 \in 1..m
    <3>1. c # m
      <4> SUFFICES ASSUME c = m PROVE FALSE  OBVIOUS
      <4>1. uri[m + 1] = "?"  BY <1>5, <1>11
      <4> QED  BY <1>11, <4>1
    <3> QED  BY <1>0, <1>1, <1>5, <1>7, <3>1
  <2>2. LengthAt(uri, c + 1) = c  BY <1>0, <1>11, <2>1 DEF LengthAt
  <2> QED  BY <1>8, <1>11, <2>1, <2>2
<1>12. ASSUME name = <<"/">> PROVE c = 1 /\ name[c] = "/"
  <2>1. Len(<<"/">>) = 1 /\ <<"/">>[1] = "/"  OBVIOUS
  <2> QED  BY <1>12, <2>1
<1>13. name = <<"/">> \/ c = u \/ uri[c + 1] = "/"  BY DEF Covers
<1> QED  BY <1>2, <1>9, <1>10, <1>11, <1>12, <1>13

(* What the block's locations w are in the list l of a server.             *)
LastIn(w, n) == \A m \in n + 1..Len(w) : w[m].name # w[n].name
Holds(l, w) ==
  /\ IsSequence(l) /\ Len(w) \in Nat /\ DOMAIN w = 1..Len(w)
  /\ ToSet(l) = {w[n] : n \in {m \in DOMAIN w : LastIn(w, m)}}
  /\ \A n \in DOMAIN l : IsLocationName(l[n].name)

(* A name is found if it is one of the block's, and it is the last of them *)
(* that is found.                                                          *)
LEMMA HeldByName ==
  ASSUME NEW l, NEW w, Holds(l, w), NEW name
  PROVE  /\ FirstNamed(l, name) > 0 =>
              \E n \in DOMAIN w : /\ LastIn(w, n) /\ w[n].name = name
                                  /\ l[FirstNamed(l, name)] = w[n]
         /\ FirstNamed(l, name) = 0 \/ FirstNamed(l, name) > 0
         /\ (\E n \in DOMAIN w : w[n].name = name) =>
              FirstNamed(l, name) > 0 /\ IsLocationName(name)
<1> PICK i : i = FirstNamed(l, name)  OBVIOUS
<1>1. /\ i = 0 \/ (i \in DOMAIN l /\ i > 0 /\ l[i].name = name)
      /\ (\E j \in DOMAIN l : l[j].name = name) => i # 0
  BY NamedFirst DEF Holds
<1>2. ASSUME i > 0
      PROVE  \E n \in DOMAIN w : LastIn(w, n) /\ w[n].name = name /\ l[i] = w[n]
  <2>1. i \in DOMAIN l /\ l[i].name = name  BY <1>1, <1>2
  <2>2. l[i] \in ToSet(l)  BY <2>1 DEF ToSet
  <2>3. PICK n \in DOMAIN w : LastIn(w, n) /\ l[i] = w[n]  BY <2>2 DEF Holds
  <2> QED  BY <2>1, <2>3
<1>3. ASSUME NEW n \in DOMAIN w, w[n].name = name PROVE i > 0 /\ IsLocationName(name)
  <2> PICK c : c = Len(w)  OBVIOUS
  <2>1. c \in Nat /\ DOMAIN w = 1..c  BY DEF Holds
  <2> DEFINE N == {m \in 1..c : w[m].name = name}
  <2>2. N \in SUBSET (0..c) /\ N # {} /\ N \in SUBSET (1..c)
    <3>1. n \in N  BY <1>3, <2>1
    <3>2. 1..c \subseteq 0..c  BY <2>1
    <3> QED  BY <3>1, <3>2
  <2> HIDE DEF N
  <2>3. PICK m \in N : \A k \in N : k <= m  BY <2>1, <2>2, GreatestExists
  <2>4. m \in 1..c /\ w[m].name = name  BY DEF N
  <2>5. LastIn(w, m)
    <3>1. ASSUME NEW k \in m + 1..c PROVE w[k].name # w[m].name
      <4>1. k \in 1..c /\ ~(k <= m)  BY <2>1, <2>4
      <4>2. k \notin N  BY <2>3, <4>1
      <4> QED  BY <2>4, <4>1, <4>2 DEF N
    <3> QED  BY <3>1 DEF LastIn
  <2>6. w[m] \in ToSet(l)  BY <2>1, <2>4, <2>5 DEF Holds
  <2>7. PICK j \in DOMAIN l : l[j] = w[m]  BY <2>6 DEF ToSet
  <2>8. l[j].name = name /\ IsLocationName(l[j].name)  BY <2>4, <2>7 DEF Holds
  <2> QED  BY <1>1, <2>8
<1> QED  BY <1>1, <1>2, <1>3

(* The last location that is found is the longest that covers the URI, and *)
(* the last of its name.                                                   *)
LEMMA LongestFound ==
  ASSUME NEW uri, IsSequence(uri), uri # <<>>, uri[1] = "/",
         NEW l, NEW w, Holds(l, w), NEW server
  PROVE  SettingsAt(server, l, Walk(l, uri)) =
           LET covering == {k \in DOMAIN w : Covers(w[k].name, uri)}
               Beats(k, j) == \/ Len(w[k].name) > Len(w[j].name)
                              \/ Len(w[k].name) = Len(w[j].name) /\ k >= j
           IN IF covering = {} THEN server
              ELSE w[CHOOSE k \in covering : \A j \in covering : Beats(k, j)]
<1> DEFINE covering == {k \in DOMAIN w : Covers(w[k].name, uri)}
           Beats(k, j) == \/ Len(w[k].name) > Len(w[j].name)
                          \/ Len(w[k].name) = Len(w[j].name) /\ k >= j
           found == Found(l, uri)
<1> PICK u : u = Len(uri)  OBVIOUS
<1>1. u \in Nat  BY Beginning
<1>2. \A k \in Stops(uri) :
        /\ k \in 1..u /\ LengthAt(uri, k) \in 1..u
        /\ PathAt(uri, k) = SubSeq(uri, 1, LengthAt(uri, k))
        /\ Len(PathAt(uri, k)) = LengthAt(uri, k)
        /\ Covers(PathAt(uri, k), uri)
  BY StopsCover
<1>3. \A k : k \in found <=> k \in Stops(uri) /\ FirstNamed(l, PathAt(uri, k)) > 0
  BY DEF Found
<1>4. Walk(l, uri) = IF found = {} THEN 0 ELSE FirstNamed(l, PathAt(uri, Max(found)))
  BY DEF Walk
<1>5. \A k \in covering : \E j \in found : PathAt(uri, j) = w[k].name
  <2> TAKE k \in covering
  <2>1. k \in DOMAIN w /\ Covers(w[k].name, uri)  OBVIOUS
  <2>2. FirstNamed(l, w[k].name) > 0 /\ IsLocationName(w[k].name)  BY <2>1, HeldByName
  <2>3. PICK j \in Stops(uri) : PathAt(uri, j) = w[k].name  BY <2>1, <2>2, CoveringFound
  <2> QED  BY <1>3, <2>2, <2>3
<1>6. \A j \in found : \E k \in covering :
        LastIn(w, k) /\ w[k].name = PathAt(uri, j) /\ l[FirstNamed(l, PathAt(uri, j))] = w[k]
  <2> TAKE j \in found
  <2>1. j \in Stops(uri) /\ FirstNamed(l, PathAt(uri, j)) > 0  BY <1>3
  <2>2. PICK k \in DOMAIN w : /\ LastIn(w, k) /\ w[k].name = PathAt(uri, j)
                              /\ l[FirstNamed(l, PathAt(uri, j))] = w[k]
    BY <2>1, HeldByName
  <2>3. Covers(w[k].name, uri)  BY <1>2, <2>1, <2>2
  <2> QED  BY <2>2, <2>3
<1> HIDE DEF found
<1>7. CASE covering = {}
  <2>1. found = {}  BY <1>6, <1>7
  <2>2. Walk(l, uri) = 0  BY <1>4, <2>1
  <2> QED  BY <1>7, <2>2 DEF SettingsAt
<1>8. CASE covering # {}
  <2>1. found # {} /\ found \in SUBSET (0..u) /\ found \in SUBSET Int
    <3>1. found # {}  BY <1>5, <1>8
    <3>2. \A k \in found : k \in 1..u  BY <1>2, <1>3
    <3>3. 1..u \subseteq 0..u /\ 1..u \subseteq Int  BY <1>1
    <3> QED  BY <3>1, <3>2, <3>3
  <2>2. PICK m \in found : \A k \in found : k <= m  BY <1>1, <2>1, GreatestExists
  <2>3. Max(found) = m  BY <2>1, <2>2, MaxIs
  <2> PICK p : p = PathAt(uri, m)  OBVIOUS
  <2>4. PICK n \in covering : LastIn(w, n) /\ w[n].name = p /\ l[FirstNamed(l, p)] = w[n]
    BY <1>6
  <2>5. SettingsAt(server, l, Walk(l, uri)) = w[n]
    <3>1. Walk(l, uri) = FirstNamed(l, p) /\ FirstNamed(l, p) > 0  BY <1>3, <1>4, <2>1, <2>3
    <3> QED  BY <2>4, <3>1 DEF SettingsAt
  <2>6. \A j \in covering : Len(w[j].name) \in Nat /\ j \in Nat /\ Beats(n, j)
    <3> TAKE j \in covering
    <3>1. PICK k \in found : PathAt(uri, k) = w[j].name  BY <1>5
    <3>2. k \in Stops(uri) /\ m \in Stops(uri) /\ k <= m  BY <1>3, <2>2
    <3> PICK a : a = LengthAt(uri, k)  OBVIOUS
    <3> PICK b : b = LengthAt(uri, m)  OBVIOUS
    <3>3. /\ k \in 1..u /\ m \in 1..u /\ a \in 1..u /\ b \in 1..u
          /\ w[j].name = SubSeq(uri, 1, a) /\ Len(w[j].name) = a
          /\ w[n].name = SubSeq(uri, 1, b) /\ Len(w[n].name) = b
      BY <1>2, <2>4, <3>1, <3>2
    <3>4. a <= b
      <4>1. a \in {k, k - 1} /\ b \in {m, m - 1} /\ (k = m => a = b)
        BY DEF LengthAt
      <4>2. k \in 1..u /\ m \in 1..u /\ k <= m  BY <3>2, <3>3
      <4> QED  BY <1>1, <4>1, <4>2
    <3>5. j \in 1..Len(w) /\ n \in 1..Len(w) /\ Len(w) \in Nat  BY DEF Holds
    <3>6. ASSUME a = b PROVE j <= n
      <4>1. w[j].name = w[n].name  BY <3>3, <3>6
      <4>2. j \notin n + 1..Len(w)  BY <2>4, <4>1 DEF LastIn
      <4> QED  BY <3>5, <4>2
    <3>7. a \in Nat /\ j \in Nat /\ (b > a \/ (b = a /\ n >= j))
      <4>1. a \in 1..u /\ b \in 1..u  BY <3>3
      <4> QED  BY <1>1, <3>4, <3>5, <3>6, <4>1
    <3> QED  BY <3>3, <3>7
  <2>7. \A k \in covering : (\A j \in covering : Beats(k, j)) => k = n
    <3> TAKE k \in covering
    <3> HAVE \A j \in covering : Beats(k, j)
    <3>1. Beats(k, n) /\ Beats(n, k)  BY <2>6
    <3>2. Len(w[k].name) \in Nat /\ Len(w[n].name) \in Nat /\ k \in Nat /\ n \in Nat  BY <2>6
    <3> HIDE DEF covering
    <3> QED  BY <3>1, <3>2
  <2>8. \A j \in covering : Beats(n, j)  BY <2>6
  <2> HIDE DEF Beats, covering
  <2>9. (CHOOSE k \in covering : \A j \in covering : Beats(k, j)) = n  BY <2>7, <2>8
  <2> QED  BY <1>8, <2>5, <2>9 DEF Beats, covering
<1> QED  BY <1>7, <1>8

(***************************************************************************)
(* Requests go to the longest location                                     *)
(***************************************************************************)

(* A server that is asked holds what its block means.                      *)
LEMMA AskedHolds ==
  ASSUME Typed, site # NoSite, file \in WellFormedFiles
  PROVE  /\ Declared[file][site.from].server = site.settings
         /\ Holds(site.locations, Declared[file][site.from].locations)
<1>1. PICK k \in DOMAIN Built[file] : site = Built[file][k]  BY DEF Typed
<1>2. file \in DOMAIN Files /\ GoodFile(Lines)  BY GoodFiles DEF Typed
<1>3. DOMAIN Built[file] = Starts(Lines) /\ site = ServerFrom(Lines, k)
  BY <1>1, <1>2 DEF Built, Lines
<1>4. Lines \in TextFiles /\ WellFormed(Lines)  BY <1>2 DEF GoodFile
<1>5. k \in Openings(Lines) /\ ~ConstructorThrows(Lines, k)
  <2>1. k \in ToSet(Blocks(Lines)) /\ ~ConstructorThrows(Lines, k)  BY <1>1, <1>3 DEF Starts
  <2> QED  BY <1>4, <2>1, BlocksAre
<1>6. site.from = k  BY <1>3 DEF ServerFrom
<1>7. Means(Lines, k, site)
  <2>1. k \in Understood[file]  BY <1>2, <1>5, AllUnderstood
  <2>2. Understood[file] = {j \in DOMAIN Built[file] : Means(Files[file], j, Built[file][j])}
    BY DEF Understood
  <2> QED  BY <1>1, <2>1, <2>2 DEF Lines
<1>8. Declared[file] = [j \in DOMAIN Built[file] |->
                          [locations |-> DeclaredLocations(Files[file], j),
                           server |-> DeclaredSettings(Files[file], <<>>, j)]]
  BY DEF Declared
<1> DEFINE w == DeclaredLocations(Lines, k)
<1>9. Declared[file][k].locations = w
      /\ Declared[file][k].server = DeclaredSettings(Lines, <<>>, k)
  BY <1>1, <1>8 DEF Lines
<1>10. Len(w) \in Nat /\ DOMAIN w = 1..Len(w)
  <2>1. PICK d : Shape(Lines, Len(Lines), d)  BY <1>4, ShapeOf
  <2>2. PICK e : ProperBlock(Lines, Len(Lines), d, k, e)  BY <1>4, <1>5, <2>1, BlockOf
  <2>3. LocationsWithin(Lines, k) \in Seq(Located(Lines, k, e))
    BY <2>2, LocationsAre DEF ProperBlock
  <2> DEFINE c == Len(LocationsWithin(Lines, k))
             D == [n \in 1..c |-> DeclaredSettings(Lines,
                       PathOf[Lines[LocationsWithin(Lines, k)[n]][2]], LocationsWithin(Lines, k)[n])]
  <2>4. c \in Nat /\ DOMAIN LocationsWithin(Lines, k) = 1..c  BY <2>3
  <2>5. w = D  BY <2>4 DEF DeclaredLocations
  <2>6. D \in Seq({D[n] : n \in 1..c})  BY <2>4
  <2>7. DOMAIN D = 1..c  OBVIOUS
  <2> HIDE DEF w, D, c
  <2> QED  BY <2>4, <2>5, <2>6, <2>7
<1> HIDE DEF w
<1>11. /\ site.settings = DeclaredSettings(Lines, <<>>, k)
       /\ ToSet(site.locations) = {w[n] : n \in {m \in DOMAIN w : LastIn(w, m)}}
  BY <1>7 DEF Means, LastIn, w
<1>12. IsSequence(site.locations) /\ \A n \in DOMAIN site.locations : IsLocationName(site.locations[n].name)
  BY <1>1, <1>2, LocationAssumption
<1> QED  BY <1>6, <1>9, <1>10, <1>11, <1>12 DEF Holds

(* So a URI leads to the location that the file means.                     *)
LEMMA LeadsToLongest ==
  ASSUME Typed, site # NoSite, file \in WellFormedFiles,
         NEW i \in AllInputs, i.uri[1] = "/"
  PROVE  SettingsAt(site.settings, site.locations, Walk(site.locations, i.uri))
           = LocationFor(i.uri)
<1> DEFINE w == Declared[file][site.from].locations
           server == Declared[file][site.from].server
<1>1. server = site.settings /\ Holds(site.locations, w)  BY AskedHolds
<1>2. IsSequence(i.uri) /\ i.uri # <<>>  BY DataAssumption
<1> HIDE DEF w, server
<1>3. SettingsAt(server, site.locations, Walk(site.locations, i.uri)) =
        LET covering == {k \in DOMAIN w : Covers(w[k].name, i.uri)}
            Beats(k, j) == \/ Len(w[k].name) > Len(w[j].name)
                           \/ Len(w[k].name) = Len(w[j].name) /\ k >= j
        IN IF covering = {} THEN server
           ELSE w[CHOOSE k \in covering : \A j \in covering : Beats(k, j)]
  BY <1>1, <1>2, LongestFound
<1> QED  BY <1>1, <1>3, Zenon DEF LocationFor, w, server

(* What a URI that is checked leads to, if it is a path.                   *)
WalkOf(uri) == IF uri[1] = "/" THEN Walk(site.locations, uri) ELSE 0
RoutedWell ==
  /\ DOMAIN routed = Requests
  /\ \A r \in Requests :
       /\ routed[r].code \in Codes \cup {0}
       /\ phase[r] # "none" => site # NoSite /\ routed[r].at = WalkOf(asked[r].uri)
       /\ phase[r] = "body" => routed[r].code < 400

(* A request that is checked goes there.                                   *)
LEMMA CheckedAt ==
  ASSUME Typed, NEW methods, NEW e \in Checked(methods)
  PROVE  e.to.at = WalkOf(e.input.uri)
<1>1. PICK t : t.at = Walk(site.locations, e.input.uri) /\ e.to = CheckRequest(e.input, t)
  BY Comes
<1> DEFINE s == SettingsOf(t)
           routing == CheckUri(s, t, Exists(t.path), e.input.uri)
<1>2. e.to = CheckMethod(s, routing, e.input.method)  BY <1>1 DEF CheckRequest
<1>3. \E code, path : routing = Routed(code, path, WalkOf(e.input.uri))
  BY <1>1 DEF CheckUri, WalkOf
<1> HIDE DEF s, routing
<1>4. PICK code, path : routing = Routed(code, path, WalkOf(e.input.uri))  BY <1>3
<1> PICK n : n = WalkOf(e.input.uri)  OBVIOUS
<1>5. \/ e.to = Routed(code, path, n)
      \/ e.to = [Routed(code, path, n) EXCEPT !.code = 405]
  BY <1>2, <1>4 DEF CheckMethod
<1>6. Routed(code, path, n).at = n /\ [Routed(code, path, n) EXCEPT !.code = 405].at = n
  BY DEF Routed
<1> QED  BY <1>5, <1>6

(* The heads of requests are checked, ...                                  *)
LEMMA HeadGoes ==
  ASSUME NEW r, Heads(r)
  PROVE  \E methods : \E e \in Checked(methods), b \in {"body", "done"} :
           /\ Arrives(r) /\ Check(r, e) /\ phase' = [phase EXCEPT ![r] = b]
           /\ b = "body" => e.to.code < 400
<1>1. CASE CheckFails(r)  BY <1>1 DEF CheckFails, Refuse, Respond
<1>2. CASE Redirects(r)  BY <1>2 DEF Redirects, Respond
<1>3. CASE AwaitsBody(r)  BY <1>3 DEF AwaitsBody
<1>4. CASE GetsDirectory(r)  BY <1>4 DEF GetsDirectory, Respond
<1>5. CASE GetsJson(r)  BY <1>5 DEF GetsJson, Respond
<1>6. CASE GetsFile(r)  BY <1>6 DEF GetsFile, Respond
<1>7. CASE Deletes(r)  BY <1>7 DEF Deletes, Respond
<1> QED  BY <1>1, <1>2, <1>3, <1>4, <1>5, <1>6, <1>7 DEF Heads

(* ... and their bodies no more.                                           *)
LEMMA PostGoes ==
  ASSUME NEW r, Posts(r)
  PROVE  AtBody(r) /\ (phase' = phase \/ phase' = [phase EXCEPT ![r] = "done"])
<1>1. CASE BodyRefused(r)  BY <1>1 DEF BodyRefused, Refuse, Respond
<1>2. CASE BuildThrows(r)  BY <1>2 DEF BuildThrows
<1>3. CASE RedirectsPost(r)  BY <1>3 DEF RedirectsPost, Respond, BodyTaken, BodyLost
<1>4. CASE UploadsImage(r)  BY <1>4 DEF UploadsImage, SaveImage, Respond, BodyTaken
<1>5. CASE UploadsText(r)  BY <1>5 DEF UploadsText, Respond, BodyTaken
<1>6. CASE TakesForm(r)  BY <1>6 DEF TakesForm, BodyTaken, BodyLost
<1>7. CASE Crashes(r)  BY <1>7 DEF Crashes
<1>8. CASE SavesJunk(r)  BY <1>8 DEF SavesJunk, SaveImage, Respond, BodyLost
<1> QED  BY <1>1, <1>2, <1>3, <1>4, <1>5, <1>6, <1>7, <1>8 DEF Posts

(* At first no request goes anywhere.                                      *)
LEMMA InitRouted ==
  Init => RoutedWell
<1>1. Init => routed = [r \in Requests |-> Routed(0, <<>>, 0)] /\ \A r \in Requests : phase[r] = "none"
  BY DEF Init
<1> QED  BY <1>1 DEF RoutedWell, Routed

(* Where requests go stays so.                                             *)
LEMMA RoutedKeeps ==
  ASSUME SiteInv, RoutedWell, [Next]_vars
  PROVE  RoutedWell'
<1>1. ASSUME NEW r \in Requests, Heads(r) PROVE RoutedWell'
  <2>1. PICK methods : \E e \in Checked(methods), b \in {"body", "done"} :
                         /\ Arrives(r) /\ Check(r, e) /\ phase' = [phase EXCEPT ![r] = b]
                         /\ b = "body" => e.to.code < 400
    BY <1>1, HeadGoes
  <2>2. PICK e \in Checked(methods), b \in {"body", "done"} :
          /\ Arrives(r) /\ Check(r, e) /\ phase' = [phase EXCEPT ![r] = b]
          /\ b = "body" => e.to.code < 400
    BY <2>1
  <2>3. e.to.at = WalkOf(e.input.uri) /\ e.to.code \in Codes
    <3>1. e.to.code \in {200, 301, 404, 405, 500}  BY CheckedCodes DEF SiteInv
    <3> QED  BY <3>1, CheckedAt DEF SiteInv, Codes
  <2>4. /\ site # NoSite /\ site' = site
        /\ asked' = [asked EXCEPT ![r] = e.input] /\ routed' = [routed EXCEPT ![r] = e.to]
    BY <2>2 DEF Arrives, Check
  <2>5. \A uri : WalkOf(uri)' = WalkOf(uri)  BY <2>4 DEF WalkOf
  <2>6. DOMAIN routed' = Requests /\ routed'[r] = e.to
        /\ \A q \in Requests \ {r} : routed'[q] = routed[q]
    BY <2>4 DEF RoutedWell
  <2>7. asked'[r] = e.input /\ \A q \in Requests \ {r} : asked'[q] = asked[q] /\ phase'[q] = phase[q]
    BY <2>2, <2>4 DEF SiteInv, Typed
  <2>8. ASSUME NEW q \in Requests
        PROVE  /\ routed'[q].code \in Codes \cup {0}
               /\ phase'[q] # "none" => routed'[q].at = WalkOf(asked'[q].uri)
               /\ phase'[q] = "body" => routed'[q].code < 400
    <3>1. CASE q = r
      <4>1. phase'[r] = b  BY <2>2 DEF SiteInv, Typed
      <4> QED  BY <2>2, <2>3, <2>6, <2>7, <3>1, <4>1
    <3>2. CASE q # r  BY <2>6, <2>7, <3>2 DEF RoutedWell
    <3> QED  BY <3>1, <3>2
  <2> QED  BY <2>4, <2>5, <2>6, <2>8 DEF RoutedWell, NoSite, WalkOf, Codes
<1>2. ASSUME NEW r \in Requests, Posts(r) PROVE RoutedWell'
  <2>1. /\ site' = site /\ asked' = asked /\ routed' = routed /\ phase[r] = "body"
        /\ phase' = phase \/ phase' = [phase EXCEPT ![r] = "done"]
    BY <1>2, PostGoes DEF AtBody
  <2>2. \A q \in Requests : /\ phase'[q] # "none" => phase[q] # "none"
                            /\ phase'[q] = "body" => phase[q] = "body"
    BY <2>1 DEF SiteInv, Typed
  <2> QED  BY <2>1, <2>2 DEF RoutedWell, NoSite, WalkOf, Codes
<1>3. CASE UNCHANGED requests /\ (site' = site \/ site = NoSite)
  <2>1. routed' = routed /\ phase' = phase /\ asked' = asked  BY <1>3 DEF requests
  <2>2. site' # site => \A r \in Requests : phase[r] = "none"  BY <1>3 DEF RoutedWell
  <2> QED  BY <1>3, <2>1, <2>2 DEF RoutedWell, NoSite, WalkOf, Codes
<1>4. CASE Startup /\ UNCHANGED <<site, requests>>  BY <1>3, <1>4
<1>5. CASE Opens  BY <1>3, <1>5 DEF Opens
<1>6. CASE UNCHANGED vars  BY <1>3, <1>6 DEF vars
<1> QED  BY <1>1, <1>2, <1>4, <1>5, <1>6 DEF Next

(* A request without a query goes to the longest location of its server's  *)
(* block that covers its URI, as the block gives it last; and to the       *)
(* server itself where there is none.                                      *)
THEOREM RoutedToLongestAlways ==
  ASSUME NamesApart
  PROVE  Spec => []RoutedToLongest
<1>1. Init => SiteInv /\ RoutedWell  BY InitSite, InitRouted
<1>2. SiteInv /\ RoutedWell /\ [Next]_vars => (SiteInv /\ RoutedWell)'
  BY NextKeeps, RoutedKeeps
<1>3. SiteInv /\ RoutedWell => RoutedToLongest
  <2> SUFFICES ASSUME SiteInv, RoutedWell, file \in WellFormedFiles,
                      NEW r \in Requests, phase[r] # "none", asked[r].uri[1] = "/"
               PROVE  SettingsOf(routed[r]) = LocationFor(asked[r].uri)
    BY DEF RoutedToLongest
  <2>1. asked[r] \in AllInputs  BY DEF SiteInv, Typed
  <2>2. site # NoSite /\ routed[r].at = Walk(site.locations, asked[r].uri)
    BY DEF RoutedWell, WalkOf
  <2> QED  BY <2>1, <2>2, LeadsToLongest DEF SettingsOf, SiteInv
<1> QED  BY <1>1, <1>2, <1>3, PTL DEF Spec

(***************************************************************************)
(* Files and directories                                                   *)
(***************************************************************************)

(* The texts' file is a text.                                              *)
TextTyped == IsSequence(Content(TextPath))

(* A step writes a file that is new, a listing, or texts to which it adds. *)
Writes(path, content) ==
  /\ dirs' = dirs /\ files' = Written(path, content)
  /\ path # TextPath => path \notin DOMAIN files \/ Last(path) \in {"autoindex.html", "listing.json"}
  /\ path = TextPath => \E text : IsSequence(text) /\ content = Content(TextPath) \o text

(* The answer a to r, which asks for i, is that a file or a directory went *)
(* that a path leads to which mentions an upload.                          *)
Removes(r, a, i) ==
  /\ a.code = 204 /\ i.method = "DELETE"
  /\ file \in WellFormedFiles => "DELETE" \in LocationFor(i.uri).methods
  /\ files' = [p \in DOMAIN files \ {a.path} |-> files[p]]
  /\ ".." \in ToSet(routed'[r].path) \/ Mentions(a.path)

LeavesFiles == files' = files /\ dirs' = dirs
WritesFile == \E path, content : Writes(path, content)

(* What an answer does to the files.                                       *)
Does(r, a, i) == LeavesFiles \/ WritesFile \/ Removes(r, a, i)

(* A step does nothing to them, or what its answer says.                   *)
DoesSome(r) == LeavesFiles \/ \E i, a : Given(r, i, a) /\ Does(r, a, i)

(* The listing is written, or an upload.                                   *)
LEMMA WritesListing ==
  ASSUME dirs' = dirs, files' = Written(JsonPath, Listing)
  PROVE  WritesFile
<1>1. Last(JsonPath) = "listing.json" /\ Last(TextPath) = "hello.txt"  BY UploadNames
<1>2. JsonPath # TextPath
  <2>1. "listing.json" # "hello.txt"  OBVIOUS
  <2> QED  BY <1>1, <2>1
<1>3. Writes(JsonPath, Listing)  BY <1>1, <1>2 DEF Writes
<1> QED  BY <1>3 DEF WritesFile

(* The heads of requests.                                                  *)
LEMMA HeadsDo ==
  ASSUME NamesApart, SiteInv, RoutedWell, NEW r \in Requests, Heads(r)
  PROVE  DoesSome(r)
<1>1. CASE CheckFails(r)  BY <1>1 DEF CheckFails, Refuse, DoesSome, LeavesFiles
<1>2. CASE Redirects(r)  BY <1>2 DEF Redirects, DoesSome, LeavesFiles
<1>3. CASE AwaitsBody(r)  BY <1>3 DEF AwaitsBody, DoesSome, LeavesFiles
<1>4. CASE GetsFile(r)  BY <1>4 DEF GetsFile, DoesSome, LeavesFiles
<1>5. CASE GetsDirectory(r)
  <2>1. PICK e \in Checked({"GET"}) :
          /\ Arrives(r) /\ e.to.code = 200 /\ Last(e.to.path) = "/" /\ Check(r, e) /\ dirs' = dirs
          /\ files' = Written(Append(Slashed(Place(e.to.path)), "autoindex.html"), Listing)
          /\ Respond(r, 200, Append(Slashed(Place(e.to.path)), "autoindex.html"), Listing)
    BY <1>5 DEF GetsDirectory
  <2> DEFINE page == Append(Slashed(Place(e.to.path)), "autoindex.html")
  <2>2. Last(page) = "autoindex.html"
    <3>1. site # NoSite /\ Typed  BY <2>1 DEF Arrives, SiteInv
    <3> QED  BY <2>1, <3>1, PageNamed
  <2>3. files' = Written(page, Listing)  BY <2>1
  <2> HIDE DEF page
  <2>4. page # TextPath  BY <2>2, UploadNames
  <2>5. Writes(page, Listing)  BY <2>1, <2>2, <2>3, <2>4 DEF Writes
  <2>6. PICK a : Given(r, e.input, a)  BY HeadAnswered, <2>1
  <2> QED  BY <2>5, <2>6 DEF WritesFile, DoesSome, Does
<1>6. CASE GetsJson(r)
  <2>1. PICK e \in Checked({"GET"}) :
          /\ Arrives(r) /\ Check(r, e) /\ dirs' = dirs
          /\ files' = Written(JsonPath, Listing)
          /\ Respond(r, 200, e.to.path, Listing)
    BY <1>6 DEF GetsJson
  <2>2. PICK a : Given(r, e.input, a)  BY HeadAnswered, <2>1
  <2>3. WritesFile  BY <2>1, WritesListing
  <2> QED  BY <2>2, <2>3 DEF DoesSome, Does
<1>7. CASE Deletes(r)
  <2> DEFINE Gone(e) == RemovalAllowed(e.to.path) /\ Removable(e.to.path)
             Code(e) == CASE ~RemovalAllowed(e.to.path) -> 403
                          [] RemovalAllowed(e.to.path) /\ ~Gone(e) -> 500
                          [] Gone(e) -> 204
  <2>1. PICK e \in Checked({"DELETE"}) :
          /\ Arrives(r) /\ e.to.code = 200 /\ Check(r, e)
          /\ files' = IF Gone(e) THEN [p \in DOMAIN files \ {Place(e.to.path)} |-> files[p]] ELSE files
          /\ dirs' = IF Gone(e) THEN dirs \ {Unslashed(Place(e.to.path))} ELSE dirs
          /\ Respond(r, Code(e), Place(e.to.path), <<>>)
    BY <1>7 DEF Deletes
  <2>2. Gone(e) => Code(e) = 204  OBVIOUS
  <2>3. Gone(e) <=> RemovalAllowed(e.to.path) /\ Removable(e.to.path)  OBVIOUS
  <2> HIDE DEF Gone, Code
  <2>4. CASE ~Gone(e)  BY <2>1, <2>4 DEF DoesSome, LeavesFiles
  <2>5. CASE Gone(e)
    <3>1. PICK a : Given(r, e.input, a) /\ a.code = Code(e) /\ a.path = Place(e.to.path)
      BY HeadAnswered, <2>1
    <3>2. e.input \in AllInputs /\ e.input.method \in {"DELETE"} /\ site # NoSite
      BY HeadSeen, <2>1
    <3>3. Typed  BY DEF SiteInv
    <3>4. /\ e.input.uri[1] = "/"
          /\ e.input.method \in
               SettingsAt(site.settings, site.locations, Walk(site.locations, e.input.uri)).methods
      BY <2>1, <3>2, <3>3, LetThrough
    <3>5. ASSUME file \in WellFormedFiles PROVE "DELETE" \in LocationFor(e.input.uri).methods
      <4>1. SettingsAt(site.settings, site.locations, Walk(site.locations, e.input.uri))
              = LocationFor(e.input.uri)
        BY <3>2, <3>3, <3>4, <3>5, LeadsToLongest
      <4> QED  BY <3>2, <3>4, <4>1
    <3>6. ".." \in ToSet(routed'[r].path) \/ Mentions(a.path)
      <4>1. routed'[r] = e.to  BY <2>1 DEF Check, RoutedWell
      <4>2. IsSequence(e.to.path)  BY <2>1, <3>2, <3>3, LetThrough
      <4>3. Mentions(e.to.path) /\ Place(e.to.path) # Nowhere
        BY <2>3, <2>5 DEF RemovalAllowed, Removable, IsFile, IsDirectory
      <4> QED  BY <3>1, <4>1, <4>2, <4>3, PlaceMentions
    <3>7. Removes(r, a, e.input)  BY <2>1, <2>2, <2>5, <3>1, <3>2, <3>5, <3>6 DEF Removes
    <3> QED  BY <3>1, <3>7 DEF DoesSome, Does
  <2> QED  BY <2>4, <2>5
<1> QED  BY <1>1, <1>2, <1>3, <1>4, <1>5, <1>6, <1>7 DEF Heads

(* The bodies of requests.                                                 *)
LEMMA PostsDo ==
  ASSUME NamesApart, SiteInv, TextTyped, NEW r \in Requests, Posts(r)
  PROVE  DoesSome(r)
<1>1. PICK i : i = asked[r]  OBVIOUS
<1>2. BodyTaken(r) \/ BodyLost(r) => AtBody(r)  BY DEF BodyTaken, BodyLost
<1>3. CASE BodyRefused(r)  BY <1>3 DEF BodyRefused, Refuse, DoesSome, LeavesFiles
<1>4. CASE BuildThrows(r)  BY <1>4 DEF BuildThrows, DoesSome, LeavesFiles
<1>5. CASE Crashes(r)  BY <1>5 DEF Crashes, DoesSome, LeavesFiles
<1>6. CASE RedirectsPost(r)  BY <1>6 DEF RedirectsPost, DoesSome, LeavesFiles
<1>7. ASSUME AtBody(r), NEW type \in ImageTypes, NEW data, SaveImage(r, type, data)
      PROVE  DoesSome(r)
  <2> PICK path : path = SetFileName(type)  OBVIOUS
  <2>1. files' = Written(path, data) /\ dirs' = dirs /\ Respond(r, 201, path, path)
    BY <1>7 DEF SaveImage
  <2>2. IsImageName(path) /\ path \notin DOMAIN files
    BY FreeName DEF SiteInv, Typed, FilesTyped
  <2>3. path # TextPath  BY <2>2, OthersNames
  <2>4. Writes(path, data)  BY <2>1, <2>2, <2>3 DEF Writes
  <2>5. PICK a : Given(r, i, a)  BY <1>1, <1>7, <2>1, BodyAnswered
  <2> QED  BY <2>4, <2>5 DEF WritesFile, DoesSome, Does
<1>8. CASE UploadsImage(r)
  <2>1. AtBody(r) /\ Media(i) \in {"png", "jpg"} /\ SaveImage(r, Media(i), Data(i))
    BY <1>1, <1>2, <1>8 DEF UploadsImage
  <2>2. Media(i) \in ImageTypes  BY <2>1 DEF ImageTypes
  <2> QED  BY <1>7, <2>1, <2>2
<1>9. CASE SavesJunk(r)
  <2>1. PICK type \in {""} \cup (IF Erased(i) THEN {Media(i)} ELSE {}) :
          SaveImage(r, type, <<"junk">>)
    BY <1>1, <1>9 DEF SavesJunk
  <2>2. AtBody(r) /\ Media(i) \in {"png", "jpg"}  BY <1>1, <1>2, <1>9 DEF SavesJunk
  <2>3. type \in ImageTypes  BY <2>1, <2>2 DEF ImageTypes
  <2> QED  BY <1>7, <2>1, <2>2, <2>3
<1>10. CASE UploadsText(r)
  <2> DEFINE text == Append(Data(i), "LF")
  <2>1. /\ AtBody(r) /\ Media(i) = "text" /\ dirs' = dirs
        /\ files' = Written(TextPath, Appended(text))
        /\ Respond(r, 200, TextPath, text)
    BY <1>1, <1>2, <1>10 DEF UploadsText
  <2>2. IsSequence(text)
    <3>1. i \in AllInputs  BY <1>1, <2>1, BodySeen
    <3>2. SentAsMeant(i) /\ IsSequence(i.data)  BY <2>1, <3>1, DataAssumption
    <3>3. Data(i) = i.data  BY <3>1, <3>2, SentUnderstood
    <3> QED  BY <3>2, <3>3, OneMore
  <2>3. PICK a : Given(r, i, a)  BY <1>1, <2>1, BodyAnswered
  <2> HIDE DEF text
  <2>4. Appended(text) = Content(TextPath) \o text  BY DEF Appended
  <2>5. Writes(TextPath, Appended(text))  BY <2>1, <2>2, <2>4 DEF Writes
  <2> QED  BY <2>3, <2>5 DEF WritesFile, DoesSome, Does
<1>11. CASE TakesForm(r)
  <2>1. /\ AtBody(r) /\ dirs' = dirs
        /\ files' = (IF IsJson(i.uri) THEN Written(JsonPath, Listing) ELSE files)
        /\ phase' = [phase EXCEPT ![r] = "done"]
        /\ \E body, fields : log' = Append(log, Answer(r, 201, i.uri, body, fields))
    BY <1>1, <1>2, <1>11 DEF TakesForm
  <2>2. PICK a : Concludes(r, a)  BY <2>1 DEF Answer, Concludes
  <2>3. Given(r, i, a)  BY <1>1, BodyEnds, <2>1, <2>2
  <2>4. CASE IsJson(i.uri)
    <3>1. WritesFile  BY <2>1, <2>4, WritesListing
    <3> QED  BY <2>3, <3>1 DEF DoesSome, Does
  <2>5. CASE ~IsJson(i.uri)  BY <2>1, <2>5 DEF DoesSome, LeavesFiles
  <2> QED  BY <2>4, <2>5
<1> QED
  BY <1>3, <1>4, <1>5, <1>6, <1>8, <1>9, <1>10, <1>11 DEF Posts

(* A sequence and what is added to it.                                     *)
LEMMA Extended ==
  ASSUME NEW s, IsSequence(s), NEW t, IsSequence(t)
  PROVE  IsPrefix(s, s \o t)
<1> DEFINE A == ToSet(s)
           B == ToSet(t)
           u == s \o t
<1>1. s \in Seq(A) /\ t \in Seq(B)  BY DEF IsSequence
<1> HIDE DEF A, B
<1>2. s \in Seq(A \cup B) /\ t \in Seq(A \cup B)  BY <1>1
<1>3. Len(u) = Len(s) + Len(t) /\ \A i \in 1..Len(s) : u[i] = s[i]  BY <1>2, Joined
<1>4. Len(s) \in Nat /\ Len(t) \in Nat  BY <1>2
<1>5. IsSequence(u)  BY Glued
<1> HIDE DEF u
<1>6. Len(s) <= Len(u)  BY <1>3, <1>4
<1>7. IsPrefix(s, u)  BY <1>3, <1>5, <1>6, PrefixIs
<1> QED  BY <1>7 DEF u

(* The texts' file stays a text.                                           *)
LEMMA NextKeepsText ==
  ASSUME NamesApart, SiteInv, RoutedWell, TextTyped, [Next]_vars
  PROVE  TextTyped'
<1>1. CASE LeavesFiles
  BY <1>1 DEF LeavesFiles, TextTyped, Content, TextPath, UploadDir, IsSequence
<1>2. ASSUME NEW path, NEW content, Writes(path, content) PROVE TextTyped'
  <2>1. files' = Written(path, content)  BY <1>2 DEF Writes
  <2>2. CASE path = TextPath /\ DirOf(path) \in dirs
    <3>1. PICK text : IsSequence(text) /\ content = Content(TextPath) \o text
      BY <1>2, <2>2 DEF Writes
    <3>2. files' = [p \in DOMAIN files \cup {path} |-> IF p = path THEN content ELSE files[p]]
      BY <2>1, <2>2 DEF Written
    <3>3. TextPath \in DOMAIN files' /\ files'[TextPath] = content  BY <2>2, <3>2
    <3>4. Content(TextPath)' = content  BY <3>3 DEF Content, TextPath, UploadDir
    <3>5. IsSequence(content)  BY <3>1, Glued DEF TextTyped
    <3> QED  BY <3>4, <3>5 DEF TextTyped, IsSequence, TextPath, UploadDir
  <2>3. CASE DirOf(path) \notin dirs
    <3>1. files' = files  BY <2>1, <2>3 DEF Written
    <3> QED  BY <3>1 DEF TextTyped, Content, TextPath, UploadDir, IsSequence
  <2>4. CASE path # TextPath
    <3>1. Content(TextPath)' = Content(TextPath)  BY <2>1, <2>4, TextStays
    <3> QED  BY <3>1 DEF TextTyped, IsSequence, TextPath, UploadDir
  <2> QED  BY <2>2, <2>3, <2>4
<1>3. ASSUME NEW r, NEW a, NEW i, Removes(r, a, i) PROVE TextTyped'
  <2>1. files' = [p \in DOMAIN files \ {a.path} |-> files[p]]  BY <1>3 DEF Removes
  <2>2. Content(TextPath)' = Content(TextPath) \/ Content(TextPath)' = <<>>
    <3>1. TextPath \in DOMAIN files' => TextPath \in DOMAIN files /\ files'[TextPath] = files[TextPath]
      BY <2>1
    <3>2. Content(TextPath)' = IF TextPath \in DOMAIN files' THEN files'[TextPath] ELSE <<>>
      BY DEF Content, TextPath, UploadDir
    <3> QED  BY <3>1, <3>2 DEF Content
  <2>3. IsSequence(<<>>)
    <3>1. <<>> \in Seq({})  OBVIOUS
    <3> QED  BY <3>1, AnySequence
  <2> QED  BY <2>2, <2>3 DEF TextTyped, IsSequence, TextPath, UploadDir
<1>4. ASSUME NEW r \in Requests, DoesSome(r) PROVE TextTyped'
  BY <1>1, <1>2, <1>3, <1>4 DEF DoesSome, Does, WritesFile
<1>5. CASE \E r \in Requests : Heads(r) \/ Posts(r)  BY <1>4, <1>5, HeadsDo, PostsDo
<1>6. CASE UNCHANGED requests  BY <1>1, <1>6 DEF requests, LeavesFiles
<1> QED  BY <1>5, <1>6 DEF Next, Opens, vars

(* At the start no text is there.                                          *)
LEMMA InitText ==
  ASSUME Init
  PROVE  TextTyped
<1>1. Content(TextPath) = <<>>  BY SiteAssumption, PathAssumption DEF Init, Content
<1>2. <<>> \in Seq({})  OBVIOUS
<1> QED  BY <1>1, <1>2, AnySequence DEF TextTyped

(* A file that changes is accounted for by the answer that is given.       *)
LEMMA StepAccounted ==
  ASSUME NamesApart, SiteInv, RoutedWell, TextTyped, [Next]_vars
  PROVE  [Accounted]_vars
<1>1. CASE LeavesFiles  BY <1>1 DEF LeavesFiles, Accounted, Changed
<1>2. ASSUME NEW r \in Requests, NEW i, NEW a, Given(r, i, a), Does(r, a, i) PROVE Accounted
  <2>1. Last(log') = a /\ a.by = r
    <3>1. IsSequence(log) /\ log' = Append(log, a) /\ a.by = r  BY <1>2 DEF SiteInv, LogTyped, Given
    <3>2. Len(log') = Len(log) + 1 /\ log'[Len(log) + 1] = a  BY <3>1, OneMore
    <3> QED  BY <3>1, <3>2 DEF Last
  <2>2. asked'[r] = i  BY <1>2 DEF SiteInv, Typed, Given
  <2> SUFFICES ASSUME NEW p \in DOMAIN files, Changed(p)
               PROVE  \/ Last(p) \in {"autoindex.html", "listing.json"} /\ p \in DOMAIN files'
                      \/ p = TextPath /\ p \in DOMAIN files' /\ IsPrefix(files[p], files'[p])
                      \/ /\ a.path = p /\ a.code = 204 /\ i.method = "DELETE"
                         /\ ".." \in ToSet(routed'[r].path) \/ Mentions(p)
                         /\ file \in WellFormedFiles => "DELETE" \in LocationFor(i.uri).methods
    BY <2>1, <2>2 DEF Accounted
  <2>3. CASE LeavesFiles  BY <2>3 DEF LeavesFiles, Changed
  <2>4. CASE WritesFile
    <3>1. PICK path, content : Writes(path, content)  BY <2>4 DEF WritesFile
    <3>2. files' = Written(path, content)  BY <3>1 DEF Writes
    <3>3. DirOf(path) \in dirs  BY <3>2 DEF Changed, Written
    <3>4. files' = [q \in DOMAIN files \cup {path} |-> IF q = path THEN content ELSE files[q]]
      BY <3>2, <3>3 DEF Written
    <3>5. p = path /\ p \in DOMAIN files' /\ files'[p] = content  BY <3>4 DEF Changed
    <3>6. CASE path # TextPath  BY <3>1, <3>5, <3>6 DEF Writes
    <3>7. CASE path = TextPath
      <4>1. PICK text : IsSequence(text) /\ content = Content(TextPath) \o text
        BY <3>1, <3>7 DEF Writes
      <4>2. Content(TextPath) = files[p]  BY <3>5, <3>7 DEF Content
      <4>3. IsPrefix(Content(TextPath), Content(TextPath) \o text)  BY <4>1, Extended DEF TextTyped
      <4> QED  BY <3>5, <3>7, <4>1, <4>2, <4>3
    <3> QED  BY <3>6, <3>7
  <2>5. CASE Removes(r, a, i)
    <3>1. a.path = p  BY <2>5 DEF Removes, Changed
    <3> QED  BY <2>5, <3>1 DEF Removes
  <2> QED  BY <1>2, <2>3, <2>4, <2>5 DEF Does
<1>3. CASE \E r \in Requests : Heads(r) \/ Posts(r)
  BY <1>1, <1>2, <1>3, HeadsDo, PostsDo DEF DoesSome
<1>4. CASE UNCHANGED requests  BY <1>1, <1>4 DEF requests, LeavesFiles
<1> QED  BY <1>3, <1>4 DEF Next, Opens, vars

(* A file changes or goes only if it is a listing, the text file, which    *)
(* grows, or one that a DELETE removes where DELETE is allowed, which has  *)
(* "content/upload" in its path unless there is a ".." in the one asked.   *)
THEOREM ChangesAccountedForAlways ==
  ASSUME NamesApart
  PROVE  Spec => ChangesAccountedFor
<1> DEFINE Inv == SiteInv /\ RoutedWell /\ TextTyped
<1>1. Init => Inv  BY InitSite, InitRouted, InitText
<1>2. Inv /\ [Next]_vars => Inv'  BY NextKeeps, RoutedKeeps, NextKeepsText
<1>3. Inv /\ [Next]_vars => [Accounted]_vars  BY StepAccounted
<1> QED  BY <1>1, <1>2, <1>3, PTL DEF Spec, ChangesAccountedFor

(***************************************************************************)
(* Types                                                                   *)
(***************************************************************************)

(* The server that is asked is one of those made.                          *)
Asked == /\ site # NoSite => \E k \in DOMAIN servers : site.from = servers[k].from
         /\ proc \in {"running", "recovering", "crashed"}

(* It stays one.                                                           *)
LEMMA AskedKeeps ==
  ASSUME SiteInv, StartupTyped, Asked, [Next]_vars
  PROVE  Asked'
<1>1. proc' \in {"running", "recovering", "crashed"}
  <2>1. ASSUME NEW r, Heads(r) PROVE proc' \in {proc, "recovering", "crashed"}
    BY <2>1 DEF Heads, CheckFails, Redirects, AwaitsBody, GetsDirectory, GetsJson, GetsFile, Deletes,
           Refuse
  <2>2. ASSUME NEW r, Posts(r) PROVE proc' \in {proc, "recovering", "crashed"}
    BY <2>2 DEF Posts, BodyRefused, BuildThrows, RedirectsPost, UploadsImage, UploadsText, TakesForm,
                Crashes, SavesJunk, Refuse
  <2>3. UNCHANGED requests => proc' = proc  BY DEF requests
  <2>4. proc' \in {proc, "recovering", "crashed"}  BY <2>1, <2>2, <2>3 DEF Next, Opens, vars
  <2> QED  BY <2>4 DEF Asked
<1>2. \A k \in DOMAIN servers : k \in DOMAIN servers' /\ servers'[k] = servers[k]
  <2>1. servers' = servers \/ \E x : servers' = Append(servers, x)
    <3>1. \A r : Heads(r) \/ Posts(r) => servers' = servers  BY RequestsLeaveServers DEF startup
    <3>2. Opens \/ UNCHANGED vars => servers' = servers  BY DEF Opens, vars, startup
    <3>3. Startup => servers' = servers \/ \E x : servers' = Append(servers, x)
      BY DEF Startup, CheckConf, CreateFails, PortSeemsTaken, CreateServer, CreateDone
    <3> QED  BY <3>1, <3>2, <3>3 DEF Next
  <2>2. CASE servers' = servers  BY <2>2
  <2>3. ASSUME NEW x, servers' = Append(servers, x)
        PROVE  \A k \in DOMAIN servers : k \in DOMAIN servers' /\ servers'[k] = servers[k]
    <3> PICK c : c = Len(servers)  OBVIOUS
    <3>1. /\ c \in Nat /\ DOMAIN servers = 1..c /\ DOMAIN servers' = 1..c + 1
          /\ \A k \in 1..c : servers'[k] = servers[k]
      BY <2>3, OneMore DEF StartupTyped
    <3> QED  BY <3>1
  <2> QED  BY <2>1, <2>2, <2>3
<1>3. site' # NoSite => \E k \in DOMAIN servers : site'.from = servers[k].from
  <2>1. CASE site' = site  BY <2>1 DEF Asked
  <2>2. CASE Opens
    <3>1. PICK k \in DOMAIN servers :
            servers[k].from \in Starts(Lines) /\ site' = Built[file][servers[k].from]
      BY <2>2 DEF Opens
    <3>2. file \in DOMAIN Files  BY DEF SiteInv, Typed
    <3>3. site' = ServerFrom(Files[file], servers[k].from)  BY <3>1, <3>2 DEF Built, Lines
    <3>4. site'.from = servers[k].from  BY <3>3 DEF ServerFrom
    <3> QED  BY <3>4
  <2>3. \A r : Heads(r) \/ Posts(r) => site' = site  BY RequestsLeaveServers
  <2> QED  BY <2>1, <2>2, <2>3 DEF Next, vars
<1> QED  BY <1>1, <1>2, <1>3 DEF Asked, NoSite

(* Every variable has its type, answers have codes that responses know,    *)
(* and no body is awaited of a request that was refused.                   *)
THEOREM TypeCorrect ==
  ASSUME NamesApart
  PROVE  Spec => []TypeOK
<1> DEFINE Inv == SiteInv /\ RoutedWell /\ SaidWell /\ StartupTyped /\ Asked
<1>1. Init => Inv
  <2> SUFFICES ASSUME Init PROVE Inv  OBVIOUS
  <2>1. SiteInv  BY InitSite
  <2>2. RoutedWell /\ SaidWell  BY InitRouted, InitSaid
  <2>3. StartupTyped  BY StartupTypedInit DEF Init
  <2>4. Asked  BY DEF Init, Asked
  <2> QED  BY <2>1, <2>2, <2>3, <2>4
<1>2. Inv /\ [Next]_vars => Inv'
  <2> SUFFICES ASSUME Inv, [Next]_vars PROVE Inv'  OBVIOUS
  <2>1. SiteInv'  BY NextKeeps
  <2>2. RoutedWell' /\ SaidWell'  BY RoutedKeeps, NextSays
  <2>3. StartupTyped'  BY StartsStep, StartupTypedStep
  <2>4. Asked'  BY AskedKeeps
  <2> QED  BY <2>1, <2>2, <2>3, <2>4
<1>3. Inv => TypeOK
  BY DEF SiteInv, Typed, FilesTyped, LogTyped, RoutedWell, SaidWell, StartupTyped, Asked, TypeOK
<1> QED  BY <1>1, <1>2, <1>3, PTL DEF Spec

=============================================================================
