------------------------------ MODULE BodyProofs ------------------------------
(***************************************************************************)
(* Theorems about Bodies: a multipart body with one part, and a form, are  *)
(* understood as they are meant (PartUnderstood, FormUnderstood).  The     *)
(* folds over bytes are taken apart into steps.                            *)
(*                                                                         *)
(* Before them, what other modules need too: least elements, counting, and *)
(* what sequences consist of.                                              *)
(***************************************************************************)
EXTENDS Bodies, FiniteSetTheorems, WellFoundedInduction, TLAPS

(***************************************************************************)
(* Numbers, and parts of sequences                                         *)
(***************************************************************************)

(* A set of numbers that is not empty has a least element.                 *)
LEMMA LeastExists ==
  ASSUME NEW S \in SUBSET Nat, S # {}
  PROVE  \E x \in S : \A y \in S : x <= y
<1> DEFINE R == OpToRel(<, Nat)
<1>1. \E x \in S : \A y \in S : ~ (<<y, x>> \in R)
  BY NatLessThanWellFounded, WFMin
<1>2. \A x, y \in Nat : y < x => <<y, x>> \in R
  BY Zenon DEF OpToRel
<1> HIDE DEF R
<1>3. PICK x \in S : \A y \in S : ~ (<<y, x>> \in R)  BY <1>1
<1>4. \A y \in S : ~ (y < x)  BY <1>2, <1>3
<1>5. x \in Nat /\ S \subseteq Nat  OBVIOUS
<1>6. \A y \in S : x <= y  BY <1>4, <1>5
<1> QED  BY <1>6

(* What holds of m, and of k + 1 if it holds of k, holds from m to n.      *)
LEMMA Counting ==
  ASSUME NEW m \in Nat, NEW n \in Nat, NEW S, m \in S,
         \A k \in m..n - 1 : k \in S => k + 1 \in S
  PROVE  \A k \in m..n : k \in S
<1> DEFINE Out == {k \in m..n : k \notin S}
<1> SUFFICES ASSUME Out # {} PROVE FALSE  OBVIOUS
<1>1. Out \in SUBSET Nat  OBVIOUS
<1> HIDE DEF Out
<1>2. PICK k \in Out : \A j \in Out : k <= j  BY <1>1, LeastExists
<1>3. k \in m..n /\ k \notin S  BY DEF Out
<1>4. k - 1 \in m..n - 1 /\ (k - 1) + 1 = k /\ ~(k <= k - 1)
  <2>1. k # m  BY <1>3
  <2> QED  BY <1>3, <2>1
<1>5. k - 1 \notin Out  BY <1>2, <1>4
<1>6. k - 1 \in S  BY <1>4, <1>5 DEF Out
<1> QED  BY <1>3, <1>4, <1>6

(* Two texts, one after the other.                                         *)
LEMMA Joined ==
  \A T : \A a, b \in Seq(T) :
    /\ a \o b \in Seq(T) /\ Len(a \o b) = Len(a) + Len(b)
    /\ \A i \in 1..Len(a) : (a \o b)[i] = a[i]
    /\ \A i \in 1..Len(b) : (a \o b)[Len(a) + i] = b[i]
  OBVIOUS

(* One more of what was read so far.                                       *)
LEMMA Longer ==
  \A T : \A tmp \in Seq(T), x \in T :
    /\ Append(tmp, x) \in Seq(T) /\ Len(Append(tmp, x)) = Len(tmp) + 1
    /\ Append(tmp, x)[Len(tmp) + 1] = x
    /\ \A i \in 1..Len(tmp) : Append(tmp, x)[i] = tmp[i]
  OBVIOUS

(* What is as long and holds the same is the same.                         *)
LEMMA Same ==
  \A T : \A a, b \in Seq(T) :
    Len(a) = Len(b) /\ (\A i \in 1..Len(a) : a[i] = b[i]) => a = b
  OBVIOUS

(* What is a sequence of anything is one of its own elements.              *)
LEMMA AnySequence ==
  ASSUME NEW T, NEW s \in Seq(T)
  PROVE  IsSequence(s)
<1>1. DOMAIN s = 1..Len(s) /\ Len(s) \in Nat /\ s \in [1..Len(s) -> T]  OBVIOUS
<1>2. \A i \in 1..Len(s) : s[i] \in ToSet(s)  BY <1>1 DEF ToSet
<1> DEFINE S == ToSet(s)
<1> HIDE DEF S
<1>3. s \in [1..Len(s) -> S]  BY <1>1, <1>2 DEF S
<1>4. s \in Seq(S)  BY <1>1, <1>3
<1> QED  BY <1>4 DEF IsSequence, S

(* One more element.                                                       *)
LEMMA OneMore ==
  ASSUME NEW s, IsSequence(s), NEW x
  PROVE  /\ IsSequence(Append(s, x)) /\ Len(s) \in Nat /\ Len(Append(s, x)) = Len(s) + 1
         /\ DOMAIN s = 1..Len(s) /\ DOMAIN Append(s, x) = 1..Len(s) + 1
         /\ \A k \in 1..Len(s) : Append(s, x)[k] = s[k]
         /\ Append(s, x)[Len(s) + 1] = x
<1> DEFINE T == ToSet(s) \cup {x}
           t == Append(s, x)
<1>1. s \in Seq(T) /\ x \in T
  <2> DEFINE S == ToSet(s)
  <2>1. s \in Seq(S)  BY DEF IsSequence
  <2> HIDE DEF S
  <2>2. s \in Seq(S \cup {x})  BY <2>1
  <2> QED  BY <2>2 DEF S
<1> HIDE DEF T
<1>2. /\ t \in Seq(T) /\ Len(t) = Len(s) + 1
      /\ t[Len(s) + 1] = x
      /\ \A i \in 1..Len(s) : t[i] = s[i]
  BY <1>1, Longer
<1>3. Len(s) \in Nat /\ DOMAIN s = 1..Len(s)  BY <1>1
<1> HIDE DEF t
<1>4. DOMAIN t = 1..Len(t)  BY <1>2
<1>5. IsSequence(t)
  <2>1. t \in Seq(T)  BY <1>2
  <2> QED  BY <2>1, AnySequence
<1> QED  BY <1>2, <1>3, <1>4, <1>5 DEF t

(***************************************************************************)
(* Multipart bodies                                                        *)
(***************************************************************************)

(* The parser before the first byte of s and after each.                   *)
PartlyParsed(f, s, n) ==
  /\ f[0] = Started
  /\ \A k \in 1..n : f[k] = ParseMultipart(f[k - 1], s[k])

(* The fold over the bytes takes them one by one, in order.                *)
LEMMA MultipartSteps ==
  ASSUME NEW s, NEW n \in Nat, DOMAIN s = 1..n
  PROVE  \E f : PartlyParsed(f, s, n) /\ Multipart(s) = f[n]
<1> DEFINE Of(g, t) == IF t = {} THEN Started ELSE ParseMultipart(g[t \ {Max(t)}], s[Max(t)])
           Whole(g, m) == g = [t \in SUBSET (1..m) |-> Of(g, t)]
           whole == CHOOSE g : Whole(g, n)
<1>1. \A m \in 0..n : \E g : Whole(g, m)
  <2> DEFINE S == {m \in 0..n : \E g : Whole(g, m)}
  <2>1. 0 \in S
    <3> DEFINE g == [t \in SUBSET (1..0) |-> Started]
    <3>1. \A t \in SUBSET (1..0) : t = {}  OBVIOUS
    <3>2. Whole(g, 0)  BY <3>1
    <3> HIDE DEF Whole, g
    <3> QED  BY <3>2
  <2>2. ASSUME NEW m \in 0..n - 1, m \in S PROVE m + 1 \in S
    <3>1. PICK g : Whole(g, m)  BY <2>2
    <3> DEFINE h == [t \in SUBSET (1..m + 1) |->
                       IF m + 1 \in t THEN ParseMultipart(g[t \ {m + 1}], s[m + 1]) ELSE g[t]]
    <3>2. ASSUME NEW t \in SUBSET (1..m + 1) PROVE h[t] = Of(h, t)
      <4>1. CASE m + 1 \in t
        <5>1. t \ {m + 1} \in SUBSET (1..m) /\ t \ {m + 1} \in SUBSET (1..m + 1)  OBVIOUS
        <5>2. m + 1 \notin t \ {m + 1}  OBVIOUS
        <5>3. h[t \ {m + 1}] = g[t \ {m + 1}]  BY <5>1, <5>2
        <5>4. Max(t) = m + 1
          <6>1. \A y \in t : m + 1 >= y /\ y \in 1..m + 1  OBVIOUS
          <6>2. \A x \in t : (\A y \in t : x >= y) => x = m + 1  BY <4>1, <6>1
          <6> QED  BY <4>1, <6>1, <6>2 DEF Max
        <5>5. t # {}  BY <4>1
        <5>6. h[t] = ParseMultipart(g[t \ {m + 1}], s[m + 1])  BY <4>1
        <5> HIDE DEF h
        <5> QED  BY <5>3, <5>4, <5>5, <5>6
      <4>2. CASE m + 1 \notin t
        <5>1. t \in SUBSET (1..m)  BY <4>2
        <5>2. h[t] = g[t] /\ g[t] = Of(g, t)  BY <3>1, <4>2, <5>1
        <5>3. CASE t = {}  BY <5>2, <5>3
        <5>4. CASE t # {}
          <6> DEFINE u == t \ {Max(t)}
          <6>1. u \in SUBSET (1..m) /\ u \in SUBSET (1..m + 1) /\ m + 1 \notin u
            <7>1. u \subseteq t /\ t \subseteq 1..m  BY <5>1
            <7>2. m + 1 \notin 1..m /\ 1..m \subseteq 1..m + 1  OBVIOUS
            <7> HIDE DEF u
            <7> QED  BY <7>1, <7>2
          <6>2. h[u] = g[u]  BY <6>1
          <6> HIDE DEF h
          <6> QED  BY <5>2, <5>4, <6>2
        <5> QED  BY <5>3, <5>4
      <4> QED  BY <4>1, <4>2
    <3>3. Whole(h, m + 1)
      <4>1. h = [t \in SUBSET (1..m + 1) |-> h[t]]  OBVIOUS
      <4> HIDE DEF h, Of
      <4> QED  BY <3>2, <4>1
    <3>4. m + 1 \in 0..n  OBVIOUS
    <3> HIDE DEF Whole, h
    <3> QED  BY <3>3, <3>4
  <2> HIDE DEF S
  <2>3. \A m \in 0..n : m \in S  BY <2>1, <2>2, Counting
  <2> QED  BY <2>3 DEF S
<1>2. Whole(whole, n)
  <2> HIDE DEF Whole
  <2> QED  BY <1>1
<1>3. Multipart(s) = whole[1..n]
  BY DEF Multipart, FoldLeft, MapThenFoldSet
<1> HIDE DEF whole
<1> DEFINE f == [k \in 0..n |-> whole[1..k]]
<1>4. \A k \in 0..n : 1..k \in SUBSET (1..n)  OBVIOUS
<1>5. f[0] = Started
  <2>1. 1..0 = {}  OBVIOUS
  <2>2. f[0] = whole[1..0]  OBVIOUS
  <2> HIDE DEF f
  <2> QED  BY <1>2, <2>1, <2>2
<1>6. \A k \in 1..n : f[k] = ParseMultipart(f[k - 1], s[k])
  <2> TAKE k \in 1..n
  <2>1. k \in 0..n /\ k - 1 \in 0..n  OBVIOUS
  <2>2. (1..k) \ {k} = 1..k - 1 /\ 1..k # {}  OBVIOUS
  <2>3. Max(1..k) = k
    <3>1. \A y \in 1..k : k >= y  OBVIOUS
    <3>2. \A x \in 1..k : (\A y \in 1..k : x >= y) => x = k  OBVIOUS
    <3>3. k \in 1..k  OBVIOUS
    <3> QED  BY <3>1, <3>2, <3>3 DEF Max
  <2>4. f[k] = whole[1..k] /\ f[k - 1] = whole[1..k - 1]  BY <2>1
  <2> HIDE DEF f
  <2>5. whole[1..k] = Of(whole, 1..k)  BY <1>2, <1>4, <2>1
  <2> QED  BY <2>2, <2>3, <2>4, <2>5
<1>7. f[n] = whole[1..n]  OBVIOUS
<1> HIDE DEF f
<1> QED  BY <1>3, <1>5, <1>6, <1>7 DEF PartlyParsed

(* A part of a text, after the first k.                                    *)
At(s, k, part) ==
  /\ k \in Nat /\ k + Len(part) <= Len(s)
  /\ \A i \in 1..Len(part) : s[k + i] = part[i]

(* One part after the other.                                               *)
LEMMA AtSplit ==
  ASSUME NEW T, NEW s \in Seq(T), NEW k, NEW a \in Seq(T), NEW b \in Seq(T),
         At(s, k, a \o b)
  PROVE  At(s, k, a) /\ At(s, k + Len(a), b)
<1>1. /\ Len(a \o b) = Len(a) + Len(b)
      /\ \A i \in 1..Len(a) : (a \o b)[i] = a[i]
      /\ \A i \in 1..Len(b) : (a \o b)[Len(a) + i] = b[i]
  BY Joined
<1>2. k \in Nat /\ Len(a) \in Nat /\ Len(b) \in Nat /\ Len(s) \in Nat  BY DEF At
<1>3. k + (Len(a) + Len(b)) <= Len(s)
      /\ \A i \in 1..Len(a) + Len(b) : s[k + i] = (a \o b)[i]
  BY <1>1 DEF At
<1>4. At(s, k, a)
  <2>1. \A i \in 1..Len(a) : i \in 1..Len(a) + Len(b)  BY <1>2
  <2>2. k + Len(a) <= Len(s)  BY <1>2, <1>3
  <2> QED  BY <1>1, <1>2, <1>3, <2>1, <2>2 DEF At
<1>5. At(s, k + Len(a), b)
  <2>1. \A i \in 1..Len(b) : /\ Len(a) + i \in 1..Len(a) + Len(b)
                             /\ k + (Len(a) + i) = (k + Len(a)) + i
    BY <1>2
  <2>2. \A i \in 1..Len(b) : s[(k + Len(a)) + i] = b[i]
    <3> TAKE i \in 1..Len(b)
    <3> QED  BY <1>1, <1>3, <2>1
  <2>3. (k + Len(a)) + Len(b) <= Len(s) /\ k + Len(a) \in Nat  BY <1>2, <1>3
  <2> QED  BY <2>2, <2>3 DEF At
<1> QED  BY <1>4, <1>5

(* A part of a text, seen the other way round.                             *)
LEMMA Split ==
  \A T : \A s, a, b \in Seq(T) : \A k \in Nat :
    At(s, k, a \o b) => At(s, k, a) /\ At(s, k + Len(a), b)
  BY AtSplit

(* Where the pieces of a body with one part are.                           *)
LEMMA PartPieces ==
  ASSUME NEW D, NEW type, NEW data \in Seq(D)
  PROVE  LET s == Part(<<type>>, data)
             b == Len(Boundary)
         IN /\ DOMAIN s = 1..Len(s) /\ b \in Nat /\ Len(data) \in Nat
            /\ Len(s) = (12 + b + Len(data)) + (8 + b)
            /\ s[1] = "-" /\ s[2] = "-"
            /\ \A i \in 1..b : s[2 + i] = Boundary[i]
            /\ s[3 + b] = "CR" /\ s[4 + b] = "LF" /\ s[5 + b] = Disposition
            /\ s[6 + b] = "CR" /\ s[7 + b] = "LF" /\ s[8 + b] = type
            /\ s[9 + b] = "CR" /\ s[10 + b] = "LF" /\ s[11 + b] = "CR" /\ s[12 + b] = "LF"
            /\ \A i \in 1..Len(data) : s[(12 + b) + i] = data[i]
<1> DEFINE T == D \cup ToSet(Boundary) \cup {"-", "CR", "LF", Disposition, type}
           b == Len(Boundary)
           n == Len(data)
           dd == <<"-", "-">>
           e == <<"CR", "LF">>
           u == dd \o Boundary
           l1 == u \o e
           l2 == <<Disposition>> \o e
           l3 == <<type>> \o e
           l4 == <<>> \o e
           v == u \o dd
           l5 == v \o e
           p2 == l1 \o l2
           p3 == p2 \o l3
           p4 == p3 \o l4
           p5 == p4 \o data
           p6 == p5 \o l4
           s == p6 \o l5
<1>1. /\ Boundary \in Seq(T) /\ dd \in Seq(T) /\ e \in Seq(T)
      /\ <<Disposition>> \in Seq(T) /\ <<type>> \in Seq(T) /\ b \in Nat /\ n \in Nat
      /\ data \in Seq(T)
  <2>1. Boundary \in Seq(ToSet(Boundary))  BY BoundaryAssumption
  <2> HIDE DEF b, n
  <2>2. Boundary \in Seq(T) /\ data \in Seq(T)  BY <2>1
  <2>3. {"-", "CR", "LF", Disposition, type} \subseteq T  OBVIOUS
  <2> HIDE DEF T
  <2>4. dd \in Seq(T) /\ e \in Seq(T) /\ <<Disposition>> \in Seq(T) /\ <<type>> \in Seq(T)
    BY <2>3
  <2>5. b \in Nat /\ n \in Nat  BY <2>1 DEF b, n
  <2> QED  BY <2>2, <2>4, <2>5
<1> HIDE DEF T
<1>2. Part(<<type>>, data) = s
  <2>1. <<type>> # <<>>  OBVIOUS
  <2> QED  BY <2>1 DEF Part, Line
<1>3. /\ l4 = e
      /\ Len(dd) = 2 /\ dd[1] = "-" /\ dd[2] = "-"
      /\ Len(e) = 2 /\ e[1] = "CR" /\ e[2] = "LF"
      /\ l2 \in Seq(T) /\ Len(l2) = 3 /\ l2[1] = Disposition /\ l2[2] = "CR" /\ l2[3] = "LF"
      /\ l3 \in Seq(T) /\ Len(l3) = 3 /\ l3[1] = type /\ l3[2] = "CR" /\ l3[3] = "LF"
  <2>1. l4 = e  OBVIOUS
  <2>2. Len(dd) = 2 /\ dd[1] = "-" /\ dd[2] = "-" /\ Len(e) = 2 /\ e[1] = "CR" /\ e[2] = "LF"
    OBVIOUS
  <2>3. ASSUME NEW x, <<x>> \in Seq(T)
        PROVE  LET l == <<x>> \o e
               IN l \in Seq(T) /\ Len(l) = 3 /\ l[1] = x /\ l[2] = "CR" /\ l[3] = "LF"
    <3> DEFINE a == <<x>>
               l == a \o e
    <3>1. Len(a) = 1 /\ a[1] = x /\ a \in Seq(T)  BY <2>3
    <3>2. /\ l \in Seq(T) /\ Len(l) = Len(a) + Len(e)
          /\ \A i \in 1..Len(a) : l[i] = a[i]
          /\ \A i \in 1..Len(e) : l[Len(a) + i] = e[i]
      <4>1. a \in Seq(T) /\ e \in Seq(T)  BY <1>1, <3>1
      <4> HIDE DEF a, e
      <4> QED  BY <4>1, Joined
    <3> HIDE DEF a, e
    <3>3. 1 \in 1..Len(a) /\ 1 \in 1..Len(e) /\ 2 \in 1..Len(e)  BY <2>2, <3>1
    <3> HIDE DEF l
    <3>4. l[1] = x /\ l[1 + 1] = "CR" /\ l[1 + 2] = "LF" /\ Len(l) = 3
      BY <2>2, <3>1, <3>2, <3>3
    <3> QED  BY <3>2, <3>4 DEF l, a
  <2> QED  BY <1>1, <2>1, <2>2, <2>3
<1>4. /\ u \in Seq(T) /\ Len(u) = 2 + b
      /\ l1 \in Seq(T) /\ Len(l1) = 4 + b
  <2> HIDE DEF dd, e
  <2>1. u \in Seq(T) /\ Len(u) = Len(dd) + Len(Boundary)  BY <1>1, Joined
  <2> HIDE DEF u
  <2>2. l1 \in Seq(T) /\ Len(l1) = Len(u) + Len(e)  BY <1>1, <2>1, Joined
  <2> QED  BY <1>1, <1>3, <2>1, <2>2
<1>5. l4 \in Seq(T) /\ Len(l4) = 2  BY <1>1, <1>3
<1>6. v \in Seq(T) /\ Len(v) = 4 + b /\ l5 \in Seq(T) /\ Len(l5) = 6 + b
  <2> HIDE DEF dd, e, u
  <2>1. v \in Seq(T) /\ Len(v) = Len(u) + Len(dd)  BY <1>1, <1>4, Joined
  <2> HIDE DEF v
  <2>2. l5 \in Seq(T) /\ Len(l5) = Len(v) + Len(e)  BY <1>1, <2>1, Joined
  <2> QED  BY <1>1, <1>3, <1>4, <2>1, <2>2
<1> HIDE DEF l1, l2, l3, l4, l5
<1>7. p2 \in Seq(T) /\ Len(p2) = 7 + b
  <2>0. l1 \in Seq(T) /\ l2 \in Seq(T)  BY <1>3, <1>4
  <2>1. p2 \in Seq(T) /\ Len(p2) = Len(l1) + Len(l2)  BY <2>0, Joined
  <2> QED  BY <1>1, <1>3, <1>4, <2>1
<1> HIDE DEF p2
<1>8. p3 \in Seq(T) /\ Len(p3) = 10 + b
  <2>0. p2 \in Seq(T) /\ l3 \in Seq(T)  BY <1>3, <1>7
  <2>1. p3 \in Seq(T) /\ Len(p3) = Len(p2) + Len(l3)  BY <2>0, Joined
  <2> QED  BY <1>1, <1>3, <1>7, <2>1
<1> HIDE DEF p3
<1>9. p4 \in Seq(T) /\ Len(p4) = 12 + b
  <2>0. p3 \in Seq(T) /\ l4 \in Seq(T)  BY <1>5, <1>8
  <2>1. p4 \in Seq(T) /\ Len(p4) = Len(p3) + Len(l4)  BY <2>0, Joined
  <2> QED  BY <1>1, <1>5, <1>8, <2>1
<1> HIDE DEF p4
<1>10. p5 \in Seq(T) /\ Len(p5) = 12 + b + n
  <2>1. p5 \in Seq(T) /\ Len(p5) = Len(p4) + Len(data)  BY <1>1, <1>9, Joined
  <2> QED  BY <1>1, <1>9, <2>1
<1> HIDE DEF p5
<1>11. p6 \in Seq(T) /\ Len(p6) = 14 + b + n
  <2>1. p6 \in Seq(T) /\ Len(p6) = Len(p5) + Len(l4)  BY <1>5, <1>10, Joined
  <2> QED  BY <1>1, <1>5, <1>10, <2>1
<1> HIDE DEF p6
<1>12. s \in Seq(T) /\ Len(s) = (12 + b + n) + (8 + b)
  <2>1. s \in Seq(T) /\ Len(s) = Len(p6) + Len(l5)  BY <1>6, <1>11, Joined
  <2> QED  BY <1>1, <1>6, <1>11, <2>1
<1>13. At(s, 0, p6)
  <2>1. \A i \in 1..Len(p6) : 0 + i = i /\ s[i] = p6[i]  BY <1>6, <1>11, Joined
  <2>2. 0 + Len(p6) <= Len(s)  BY <1>1, <1>11, <1>12
  <2> HIDE DEF s
  <2> QED  BY <1>11, <2>1, <2>2 DEF At
<1> HIDE DEF s
<1>14. At(s, 0, p5)  BY <1>5, <1>10, <1>12, <1>13, Split DEF p6
<1>15. At(s, 0, p4) /\ At(s, 12 + b, data)
  <2>1. At(s, 0, p4) /\ At(s, 0 + Len(p4), data)  BY <1>1, <1>9, <1>12, <1>14, Split DEF p5
  <2> QED  BY <1>1, <1>9, <2>1
<1>16. At(s, 0, p3) /\ At(s, 10 + b, l4)
  <2>1. At(s, 0, p3) /\ At(s, 0 + Len(p3), l4)  BY <1>5, <1>8, <1>12, <1>15, Split DEF p4
  <2> QED  BY <1>1, <1>8, <2>1
<1>17. At(s, 0, p2) /\ At(s, 7 + b, l3)
  <2>1. At(s, 0, p2) /\ At(s, 0 + Len(p2), l3)  BY <1>3, <1>7, <1>12, <1>16, Split DEF p3
  <2> QED  BY <1>1, <1>7, <2>1
<1>18. At(s, 0, l1) /\ At(s, 4 + b, l2)
  <2>1. At(s, 0, l1) /\ At(s, 0 + Len(l1), l2)  BY <1>3, <1>4, <1>12, <1>17, Split DEF p2
  <2> QED  BY <1>1, <1>4, <2>1
<1>19. At(s, 0, u) /\ At(s, 2 + b, e)
  <2> HIDE DEF u, e
  <2>1. At(s, 0, u) /\ At(s, 0 + Len(u), e)  BY <1>1, <1>4, <1>12, <1>18, Split DEF l1
  <2> QED  BY <1>1, <1>4, <2>1
<1>20. At(s, 0, dd) /\ At(s, 2, Boundary)
  <2> HIDE DEF dd
  <2>1. At(s, 0, dd) /\ At(s, 0 + Len(dd), Boundary)  BY <1>1, <1>12, <1>19, Split DEF u
  <2> QED  BY <1>1, <1>3, <2>1
<1> HIDE DEF dd, e
<1>21. \A i \in 1..b : s[2 + i] = Boundary[i]  BY <1>20 DEF At
<1>22. \A i \in 1..n : s[(12 + b) + i] = data[i]  BY <1>15 DEF At
<1>23. s[1] = "-" /\ s[2] = "-"
  <2>1. 1 \in 1..Len(dd) /\ 2 \in 1..Len(dd) /\ 0 + 1 = 1 /\ 0 + 2 = 2  BY <1>3
  <2>2. s[0 + 1] = dd[1] /\ s[0 + 2] = dd[2]  BY <1>20, <2>1 DEF At
  <2> QED  BY <1>3, <2>1, <2>2
<1>24. s[3 + b] = "CR" /\ s[4 + b] = "LF"
  <2>1. 1 \in 1..Len(e) /\ 2 \in 1..Len(e) /\ (2 + b) + 1 = 3 + b /\ (2 + b) + 2 = 4 + b
    BY <1>1, <1>3
  <2>2. s[(2 + b) + 1] = e[1] /\ s[(2 + b) + 2] = e[2]  BY <1>19, <2>1 DEF At
  <2> QED  BY <1>3, <2>1, <2>2
<1>25. s[5 + b] = Disposition /\ s[6 + b] = "CR" /\ s[7 + b] = "LF"
  <2>1. /\ 1 \in 1..Len(l2) /\ 2 \in 1..Len(l2) /\ 3 \in 1..Len(l2)
        /\ (4 + b) + 1 = 5 + b /\ (4 + b) + 2 = 6 + b /\ (4 + b) + 3 = 7 + b
    BY <1>1, <1>3
  <2>2. s[(4 + b) + 1] = l2[1] /\ s[(4 + b) + 2] = l2[2] /\ s[(4 + b) + 3] = l2[3]
    BY <1>18, <2>1 DEF At
  <2> QED  BY <1>3, <2>1, <2>2
<1>26. s[8 + b] = type /\ s[9 + b] = "CR" /\ s[10 + b] = "LF"
  <2>1. /\ 1 \in 1..Len(l3) /\ 2 \in 1..Len(l3) /\ 3 \in 1..Len(l3)
        /\ (7 + b) + 1 = 8 + b /\ (7 + b) + 2 = 9 + b /\ (7 + b) + 3 = 10 + b
    BY <1>1, <1>3
  <2>2. s[(7 + b) + 1] = l3[1] /\ s[(7 + b) + 2] = l3[2] /\ s[(7 + b) + 3] = l3[3]
    BY <1>17, <2>1 DEF At
  <2> QED  BY <1>3, <2>1, <2>2
<1>27. s[11 + b] = "CR" /\ s[12 + b] = "LF"
  <2>1. /\ 1 \in 1..Len(l4) /\ 2 \in 1..Len(l4)
        /\ (10 + b) + 1 = 11 + b /\ (10 + b) + 2 = 12 + b
    BY <1>1, <1>5
  <2>2. s[(10 + b) + 1] = l4[1] /\ s[(10 + b) + 2] = l4[2]  BY <1>16, <2>1 DEF At
  <2> QED  BY <1>3, <2>1, <2>2
<1>28. DOMAIN s = 1..Len(s)  BY <1>12
<1> HIDE DEF b, n
<1> QED  BY <1>28, <1>1, <1>2, <1>12, <1>21, <1>22, <1>23, <1>24, <1>25, <1>26, <1>27 DEF b, n

(* A parser that is well, in this step.                                    *)
Well(step, tmp, media, data) ==
  [step |-> step, tmp |-> tmp, media |-> media, data |-> data, error |-> 0]

(* The next step begins with nothing collected.                            *)
LEMMA StepTurns ==
  ASSUME NEW a, NEW b, NEW tmp, NEW media, NEW data
  PROVE  NextStep(Well(a, tmp, media, data), b) = Well(b, <<>>, media, data)
<1> DEFINE p == Well(a, tmp, media, data)
           q == [p EXCEPT !.step = b]
<1>1. q = Well(b, tmp, media, data)  BY DEF Well
<1>2. [Well(b, tmp, media, data) EXCEPT !.tmp = <<>>] = Well(b, <<>>, media, data)
  BY DEF Well
<1>3. NextStep(p, b) = [q EXCEPT !.tmp = <<>>]  BY DEF NextStep
<1> QED  BY <1>1, <1>2, <1>3

(* What each token of a part does to it.                                   *)
LEMMA TokenTurns ==
  ASSUME NEW tmp, NEW media, NEW data
  PROVE  /\ \A c : c # "CR" =>
              /\ ParseMultipart(Well("BOUNDARY", tmp, media, data), c)
                   = Well("BOUNDARY", Append(tmp, c), media, data)
              /\ ParseMultipart(Well("CONTENT_DISPOSITION", tmp, media, data), c)
                   = Well("CONTENT_DISPOSITION", Append(tmp, c), media, data)
              /\ ParseMultipart(Well("CONTENT_TYPE", tmp, media, data), c)
                   = Well("CONTENT_TYPE", Append(tmp, c), media, data)
         /\ ParseMultipart(Well("BOUNDARY", Boundary, media, data), "CR")
              = Well("CRLF_BOUNDARY", <<>>, media, data)
         /\ ParseMultipart(Well("CRLF_BOUNDARY", tmp, media, data), "LF")
              = Well("CONTENT_DISPOSITION", <<>>, media, data)
         /\ ParseMultipart(Well("CONTENT_DISPOSITION", <<Disposition>>, media, data), "CR")
              = Well("CRLF_DISPOSITION", <<>>, media, data)
         /\ ParseMultipart(Well("CRLF_DISPOSITION", tmp, media, data), "LF")
              = Well("CONTENT_TYPE", <<>>, media, data)
         /\ ParseMultipart(Well("CRLF_CONTENT_TYPE", tmp, media, data), "LF")
              = Well("CRLF_INITIAL_CONTENT1", <<>>, media, data)
         /\ ParseMultipart(Well("CRLF_INITIAL_CONTENT1", tmp, media, data), "CR")
              = Well("CRLF_INITIAL_CONTENT2", <<>>, media, data)
         /\ ParseMultipart(Well("CRLF_INITIAL_CONTENT2", tmp, media, data), "LF")
              = Well("CONTENT", <<>>, media, data)
         /\ \A c : ParseMultipart(Well("CONTENT", tmp, media, data), c)
                     = Well("CONTENT", tmp, media, Append(data, c))
<1>1. ASSUME NEW c, c # "CR"
      PROVE  /\ ParseMultipart(Well("BOUNDARY", tmp, media, data), c)
                   = Well("BOUNDARY", Append(tmp, c), media, data)
             /\ ParseMultipart(Well("CONTENT_DISPOSITION", tmp, media, data), c)
                   = Well("CONTENT_DISPOSITION", Append(tmp, c), media, data)
             /\ ParseMultipart(Well("CONTENT_TYPE", tmp, media, data), c)
                   = Well("CONTENT_TYPE", Append(tmp, c), media, data)
  BY <1>1 DEF ParseMultipart, Collect, Well, LineFeed
<1>2. ParseMultipart(Well("BOUNDARY", Boundary, media, data), "CR")
        = Well("CRLF_BOUNDARY", <<>>, media, data)
  BY DEF ParseMultipart, LineEnd, BoundaryLine, NextStep, Well, LineFeed
<1>3. ParseMultipart(Well("CONTENT_DISPOSITION", <<Disposition>>, media, data), "CR")
        = Well("CRLF_DISPOSITION", <<>>, media, data)
  BY DEF ParseMultipart, LineEnd, DispositionLine, NextStep, Well, LineFeed
<1>4. /\ ParseMultipart(Well("CRLF_BOUNDARY", tmp, media, data), "LF")
           = Well("CONTENT_DISPOSITION", <<>>, media, data)
      /\ ParseMultipart(Well("CRLF_DISPOSITION", tmp, media, data), "LF")
           = Well("CONTENT_TYPE", <<>>, media, data)
      /\ ParseMultipart(Well("CRLF_CONTENT_TYPE", tmp, media, data), "LF")
           = Well("CRLF_INITIAL_CONTENT1", <<>>, media, data)
      /\ ParseMultipart(Well("CRLF_INITIAL_CONTENT2", tmp, media, data), "LF")
           = Well("CONTENT", <<>>, media, data)
  BY DEF ParseMultipart, NextStep, Well, LineFeed
<1>5. ParseMultipart(Well("CRLF_INITIAL_CONTENT1", tmp, media, data), "CR")
        = Well("CRLF_INITIAL_CONTENT2", <<>>, media, data)
  BY DEF ParseMultipart, NextStep, Well, LineFeed
<1>6. \A c : ParseMultipart(Well("CONTENT", tmp, media, data), c)
               = Well("CONTENT", tmp, media, Append(data, c))
  BY DEF ParseMultipart, Well, LineFeed
<1> QED  BY <1>1, <1>2, <1>3, <1>4, <1>5, <1>6

(* A line of a type that is supported.                                     *)
LEMMA TypeTurns ==
  ASSUME NEW type \in DOMAIN MediaOf, MediaOf[type] # "unsupported", NEW media, NEW data
  PROVE  ParseMultipart(Well("CONTENT_TYPE", <<type>>, media, data), "CR")
           = Well("CRLF_CONTENT_TYPE", <<>>, MediaOf[type], data)
<1>1. <<type>> # <<>> /\ Len(<<type>>) = 1 /\ <<type>>[1] = type  OBVIOUS
<1> DEFINE p == Well("CONTENT_TYPE", <<type>>, media, data)
<1>2. p.tmp = <<type>> /\ p.step = "CONTENT_TYPE" /\ p.error = 0  BY DEF Well
<1>3. ContentTypeLine(p) = [NextStep(p, "CRLF_CONTENT_TYPE") EXCEPT !.media = MediaOf[type]]
  <2> HIDE DEF p
  <2> QED  BY <1>1, <1>2 DEF ContentTypeLine
<1>4. ContentTypeLine(p) = Well("CRLF_CONTENT_TYPE", <<>>, MediaOf[type], data)
  BY <1>3 DEF NextStep, Well
<1>5. ParseMultipart(p, "CR") = ContentTypeLine(p)
  <2> HIDE DEF p
  <2> QED  BY <1>2 DEF ParseMultipart, LineEnd, LineFeed
<1> QED  BY <1>4, <1>5

(* The first n of a text, collected one by one.                            *)
Collected(T, text, n, tmp) ==
  /\ tmp \in Seq(T) /\ Len(tmp) = n
  /\ \A i \in 1..n : tmp[i] = text[i]

(* A part that names a supported type is understood as the client meant    *)
(* it: its type is the line's, and once the ending was cut off its data is *)
(* the client's, whatever it looks like and however long it is             *)
(* (_parse_multipart() and _remove_boundary()).                            *)
THEOREM PartUnderstood ==
  ASSUME NEW D, NEW data \in Seq(D),
         NEW type \in DOMAIN MediaOf, MediaOf[type] # "unsupported"
  PROVE  LET m == Multipart(Part(<<type>>, data))
         IN /\ m.error = 0 /\ m.media = MediaOf[type]
            /\ ~TooShort(m.data) /\ WithoutEnding(m.data) = data
<1> DEFINE s == Part(<<type>>, data)
           b == Len(Boundary)
           n == Len(data)
           N == (12 + b + n) + (8 + b)
           B == ToSet(Boundary)
<1>1. /\ DOMAIN s = 1..Len(s) /\ b \in Nat /\ n \in Nat /\ Len(s) = N
      /\ s[1] = "-" /\ s[2] = "-"
      /\ \A i \in 1..b : s[2 + i] = Boundary[i]
      /\ s[3 + b] = "CR" /\ s[4 + b] = "LF" /\ s[5 + b] = Disposition
      /\ s[6 + b] = "CR" /\ s[7 + b] = "LF" /\ s[8 + b] = type
      /\ s[9 + b] = "CR" /\ s[10 + b] = "LF" /\ s[11 + b] = "CR" /\ s[12 + b] = "LF"
      /\ \A i \in 1..n : s[(12 + b) + i] = data[i]
  BY PartPieces, SMTT(30)
<1> HIDE DEF s
<1>2. /\ Boundary \in Seq(B) /\ "CR" \notin B
      /\ \A i \in 1..b : Boundary[i] \in B
  <2>1. Boundary \in Seq(B) /\ "CR" \notin B  BY BoundaryAssumption
  <2> HIDE DEF B
  <2> QED  BY <2>1
<1> HIDE DEF B, n
<1>3. N \in Nat /\ DOMAIN s = 1..N
  <2>1. N \in Nat  BY <1>1
  <2> HIDE DEF N
  <2> QED  BY <1>1, <2>1
<1> HIDE DEF b
<1>4. PICK f : PartlyParsed(f, s, N) /\ Multipart(s) = f[N]
  <2> HIDE DEF N
  <2> QED  BY <1>3, MultipartSteps
<1>5. ASSUME NEW k \in 1..N PROVE f[k] = ParseMultipart(f[k - 1], s[k])
  BY <1>4 DEF PartlyParsed
<1>6. f[2] = Well("BOUNDARY", <<>>, "multipart", <<>>)
  <2>1. f[0] = Started  BY <1>4 DEF PartlyParsed
  <2>2. 1 \in 1..N /\ 2 \in 1..N /\ 1 - 1 = 0 /\ 2 - 1 = 1  BY <1>1
  <2>3. f[1] = ParseMultipart(Started, "-") /\ f[2] = ParseMultipart(f[1], "-")
    BY <1>1, <1>5, <2>1, <2>2
  <2>4. ParseMultipart(Started, "-") = Well("INITIAL_BOUNDARY", <<"-">>, "multipart", <<>>)
    <3>1. Append(<<>>, "-") = <<"-">> /\ Len(<<"-">>) < 2  OBVIOUS
    <3>2. ParseMultipart(Started, "-") = BoundaryDelimiter(Started, "-")
      BY DEF ParseMultipart, Started, LineFeed
    <3>3. Started.tmp = <<>>  BY DEF Started
    <3>4. BoundaryDelimiter(Started, "-") = Collect(Started, "-")
      BY <3>1, <3>3 DEF BoundaryDelimiter
    <3>5. Collect(Started, "-") = [Started EXCEPT !.tmp = <<"-">>]
      BY <3>1, <3>3 DEF Collect
    <3>6. [Started EXCEPT !.tmp = <<"-">>] = Well("INITIAL_BOUNDARY", <<"-">>, "multipart", <<>>)
      BY DEF Started, Well
    <3> QED  BY <3>2, <3>4, <3>5, <3>6
  <2>5. ParseMultipart(Well("INITIAL_BOUNDARY", <<"-">>, "multipart", <<>>), "-")
          = Well("BOUNDARY", <<>>, "multipart", <<>>)
    <3> DEFINE p == Well("INITIAL_BOUNDARY", <<"-">>, "multipart", <<>>)
    <3>1. Append(<<"-">>, "-") = <<"-", "-">> /\ Len(<<"-", "-">>) = 2
      <4> DEFINE x == "-"
                 one == <<x>>
      <4>1. one \in Seq({x}) /\ x \in {x} /\ Len(one) = 1 /\ one[1] = x
            /\ <<x, x>> \in Seq({x}) /\ Len(<<x, x>>) = 2
            /\ <<x, x>>[1] = x /\ <<x, x>>[2] = x
        OBVIOUS
      <4> DEFINE two == Append(one, x)
                 also == <<x, x>>
      <4>2. two \in Seq({x}) /\ Len(two) = 2 /\ two[2] = x /\ two[1] = x
        <5> DEFINE X == {x}
        <5>0. one \in Seq(X) /\ x \in X  BY <4>1
        <5> HIDE DEF one, x, X
        <5>1. two \in Seq({x}) /\ Len(two) = Len(one) + 1 /\ two[Len(one) + 1] = x
              /\ \A i \in 1..Len(one) : two[i] = one[i]
          BY <5>0, Longer DEF X
        <5> HIDE DEF two
        <5> QED  BY <4>1, <5>1
      <4> HIDE DEF one, two, also, x
      <4>3. \A i \in 1..2 : i = 1 \/ i = 2  OBVIOUS
      <4>4. two = also  BY <4>1, <4>2, <4>3, Same DEF also
      <4> QED  BY <4>1, <4>4 DEF one, two, also, x
    <3>2. p.tmp = <<"-">> /\ p.step = "INITIAL_BOUNDARY" /\ p.error = 0  BY DEF Well
    <3>3. NextStep(p, "BOUNDARY") = Well("BOUNDARY", <<>>, "multipart", <<>>)
      BY StepTurns
    <3> HIDE DEF p
    <3>4. ParseMultipart(p, "-") = BoundaryDelimiter(p, "-")
      BY <3>2 DEF ParseMultipart, LineFeed
    <3>5. BoundaryDelimiter(p, "-") = NextStep(p, "BOUNDARY")
      BY <3>1, <3>2 DEF BoundaryDelimiter
    <3> QED  BY <3>3, <3>4, <3>5 DEF p
  <2> QED  BY <2>3, <2>4, <2>5
<1>7. f[2 + b] = Well("BOUNDARY", Boundary, "multipart", <<>>)
  <2> DEFINE S == {j \in 0..b : \E tmp : /\ Collected(B, Boundary, j, tmp)
                                         /\ f[2 + j] = Well("BOUNDARY", tmp, "multipart", <<>>)}
  <2>1. 0 \in S
    <3>1. Collected(B, Boundary, 0, <<>>)  BY DEF Collected
    <3>2. 2 + 0 = 2 /\ 0 \in 0..b  BY <1>1
    <3> QED  BY <1>6, <3>1, <3>2
  <2>2. ASSUME NEW j \in 0..b - 1, j \in S PROVE j + 1 \in S
    <3>1. PICK tmp : /\ Collected(B, Boundary, j, tmp)
                     /\ f[2 + j] = Well("BOUNDARY", tmp, "multipart", <<>>)
      BY <2>2
    <3> DEFINE c == Boundary[j + 1]
    <3>2. /\ j + 1 \in 1..b /\ j + 1 \in 0..b /\ j \in Nat
          /\ 2 + (j + 1) \in 1..N /\ (2 + (j + 1)) - 1 = 2 + j
      BY <1>1
    <3>3. c \in B /\ c # "CR" /\ s[2 + (j + 1)] = c  BY <1>1, <1>2, <3>2
    <3> HIDE DEF S, N
    <3>4. f[2 + (j + 1)] = Well("BOUNDARY", Append(tmp, c), "multipart", <<>>)
      <4>1. f[2 + (j + 1)] = ParseMultipart(f[2 + j], c)  BY <1>5, <3>2, <3>3
      <4> HIDE DEF c
      <4> QED  BY <3>1, <3>3, <4>1, TokenTurns
    <3>5. Collected(B, Boundary, j + 1, Append(tmp, c))
      <4>1. tmp \in Seq(B) /\ Len(tmp) = j /\ \A i \in 1..j : tmp[i] = Boundary[i]
        BY <3>1 DEF Collected
      <4>2. /\ Append(tmp, c) \in Seq(B) /\ Len(Append(tmp, c)) = j + 1
            /\ Append(tmp, c)[j + 1] = c
            /\ \A i \in 1..j : Append(tmp, c)[i] = tmp[i]
        BY <3>3, <4>1, Longer
      <4>3. \A i \in 1..j + 1 : i = j + 1 \/ i \in 1..j  BY <3>2
      <4> DEFINE t == Append(tmp, c)
      <4> HIDE DEF t
      <4> QED  BY <4>1, <4>2, <4>3 DEF Collected, t
    <3> QED  BY <3>2, <3>4, <3>5 DEF S
  <2> HIDE DEF S
  <2>3. b \in S
    <3>1. 0 \in Nat /\ b \in Nat /\ b \in 0..b  BY <1>1
    <3>2. \A j \in 0..b : j \in S  BY <2>1, <2>2, <3>1, Counting
    <3> QED  BY <3>1, <3>2
  <2>4. PICK tmp : /\ Collected(B, Boundary, b, tmp)
                   /\ f[2 + b] = Well("BOUNDARY", tmp, "multipart", <<>>)
    BY <2>3 DEF S
  <2>5. tmp = Boundary
    <3>1. tmp \in Seq(B) /\ Len(tmp) = Len(Boundary)
          /\ \A i \in 1..Len(tmp) : tmp[i] = Boundary[i]
      BY <2>4 DEF Collected, b
    <3> QED  BY <1>2, <3>1, Same
  <2> QED  BY <2>4, <2>5
<1>8. \A k \in 3..12 : k + b \in 1..N /\ (k + b) - 1 = (k - 1) + b  BY <1>1
<1>9. f[12 + b] = Well("CONTENT", <<>>, MediaOf[type], <<>>)
  <2> DEFINE W(step, tmp, media) == Well(step, tmp, media, <<>>)
  <2> HIDE DEF N
  <2>0. ASSUME NEW k \in 3..12 PROVE f[k + b] = ParseMultipart(f[(k - 1) + b], s[k + b])
    BY <1>5, <1>8
  <2>1. /\ 3 \in 3..12 /\ 4 \in 3..12 /\ 5 \in 3..12 /\ 6 \in 3..12 /\ 7 \in 3..12
        /\ 8 \in 3..12 /\ 9 \in 3..12 /\ 10 \in 3..12 /\ 11 \in 3..12 /\ 12 \in 3..12
        /\ 3 - 1 = 2 /\ 4 - 1 = 3 /\ 5 - 1 = 4 /\ 6 - 1 = 5 /\ 7 - 1 = 6
        /\ 8 - 1 = 7 /\ 9 - 1 = 8 /\ 10 - 1 = 9 /\ 11 - 1 = 10 /\ 12 - 1 = 11
    OBVIOUS
  <2>2. Disposition # "CR" /\ type # "CR"  BY DEF Disposition, MediaOf
  <2>3. f[3 + b] = W("CRLF_BOUNDARY", <<>>, "multipart")
    BY <1>1, <1>7, <2>0, <2>1, TokenTurns
  <2>4. f[4 + b] = W("CONTENT_DISPOSITION", <<>>, "multipart")
    BY <1>1, <2>0, <2>1, <2>3, TokenTurns
  <2>5. f[5 + b] = W("CONTENT_DISPOSITION", <<Disposition>>, "multipart")
    <3>1. Append(<<>>, Disposition) = <<Disposition>>  OBVIOUS
    <3>2. f[5 + b] = ParseMultipart(Well("CONTENT_DISPOSITION", <<>>, "multipart", <<>>), Disposition)
      BY <1>1, <2>0, <2>1, <2>4
    <3>3. ParseMultipart(Well("CONTENT_DISPOSITION", <<>>, "multipart", <<>>), Disposition)
            = Well("CONTENT_DISPOSITION", Append(<<>>, Disposition), "multipart", <<>>)
      <4>1. \A tmp, c : c # "CR" =>
              ParseMultipart(Well("CONTENT_DISPOSITION", tmp, "multipart", <<>>), c)
                = Well("CONTENT_DISPOSITION", Append(tmp, c), "multipart", <<>>)
        BY TokenTurns
      <4> QED  BY <2>2, <4>1
    <3> QED  BY <3>1, <3>2, <3>3
  <2>6. f[6 + b] = W("CRLF_DISPOSITION", <<>>, "multipart")
    BY <1>1, <2>0, <2>1, <2>5, TokenTurns
  <2>7. f[7 + b] = W("CONTENT_TYPE", <<>>, "multipart")
    BY <1>1, <2>0, <2>1, <2>6, TokenTurns
  <2>8. f[8 + b] = W("CONTENT_TYPE", <<type>>, "multipart")
    <3>1. Append(<<>>, type) = <<type>>  OBVIOUS
    <3>2. f[8 + b] = ParseMultipart(Well("CONTENT_TYPE", <<>>, "multipart", <<>>), type)
      BY <1>1, <2>0, <2>1, <2>7
    <3>3. ParseMultipart(Well("CONTENT_TYPE", <<>>, "multipart", <<>>), type)
            = Well("CONTENT_TYPE", Append(<<>>, type), "multipart", <<>>)
      <4>1. \A tmp, c : c # "CR" =>
              ParseMultipart(Well("CONTENT_TYPE", tmp, "multipart", <<>>), c)
                = Well("CONTENT_TYPE", Append(tmp, c), "multipart", <<>>)
        BY TokenTurns
      <4> QED  BY <2>2, <4>1
    <3> QED  BY <3>1, <3>2, <3>3
  <2>9. f[9 + b] = W("CRLF_CONTENT_TYPE", <<>>, MediaOf[type])
    BY <1>1, <2>0, <2>1, <2>8, TypeTurns
  <2>10. f[10 + b] = W("CRLF_INITIAL_CONTENT1", <<>>, MediaOf[type])
    BY <1>1, <2>0, <2>1, <2>9, TokenTurns
  <2>11. f[11 + b] = W("CRLF_INITIAL_CONTENT2", <<>>, MediaOf[type])
    BY <1>1, <2>0, <2>1, <2>10, TokenTurns
  <2> QED  BY <1>1, <2>0, <2>1, <2>11, TokenTurns
<1> DEFINE C == n + Ending
           V == {s[i] : i \in 1..N}
           rest == [i \in 1..C |-> s[(12 + b) + i]]
<1>10. C \in Nat /\ (12 + b) + C = N /\ C = n + (8 + b)  BY <1>1 DEF Ending, b
<1>11. rest \in Seq(V) /\ Len(rest) = C
  <2>1. \A i \in 1..C : (12 + b) + i \in 1..N  BY <1>1, <1>10
  <2> HIDE DEF N, C
  <2>2. rest \in [1..C -> V]  BY <2>1
  <2> HIDE DEF V, rest
  <2> QED  BY <1>10, <2>2
<1>12. PICK read : Collected(V, rest, C, read) /\ f[N] = Well("CONTENT", <<>>, MediaOf[type], read)
  <2> DEFINE S == {j \in 0..C : \E tmp : /\ Collected(V, rest, j, tmp)
                                         /\ f[(12 + b) + j] = Well("CONTENT", <<>>, MediaOf[type], tmp)}
  <2>1. 0 \in S
    <3>1. Collected(V, rest, 0, <<>>)  BY DEF Collected
    <3>2. (12 + b) + 0 = 12 + b /\ 0 \in 0..C  BY <1>1, <1>10
    <3> HIDE DEF C, N, rest
    <3> QED  BY <1>9, <3>1, <3>2
  <2>2. ASSUME NEW j \in 0..C - 1, j \in S PROVE j + 1 \in S
    <3>1. PICK tmp : /\ Collected(V, rest, j, tmp)
                     /\ f[(12 + b) + j] = Well("CONTENT", <<>>, MediaOf[type], tmp)
      BY <2>2
    <3> DEFINE c == s[(12 + b) + (j + 1)]
    <3>2. /\ j + 1 \in 1..C /\ j + 1 \in 0..C /\ j \in Nat
          /\ (12 + b) + (j + 1) \in 1..N /\ ((12 + b) + (j + 1)) - 1 = (12 + b) + j
      <4>1. C \in Nat /\ j \in Nat /\ j + 1 <= C /\ N = (12 + b) + C  BY <1>1, <1>10
      <4> HIDE DEF C, N
      <4> QED  BY <1>1, <4>1
    <3> HIDE DEF C, N, S
    <3>3. c \in V /\ rest[j + 1] = c  BY <3>2
    <3> HIDE DEF V, rest
    <3>4. f[(12 + b) + (j + 1)] = Well("CONTENT", <<>>, MediaOf[type], Append(tmp, c))
      <4>1. f[(12 + b) + (j + 1)] = ParseMultipart(f[(12 + b) + j], c)  BY <1>5, <3>2
      <4> HIDE DEF c
      <4> QED  BY <3>1, <4>1, TokenTurns
    <3> HIDE DEF c
    <3>5. Collected(V, rest, j + 1, Append(tmp, c))
      <4>1. tmp \in Seq(V) /\ Len(tmp) = j /\ \A i \in 1..j : tmp[i] = rest[i]
        BY <3>1 DEF Collected
      <4>2. /\ Append(tmp, c) \in Seq(V) /\ Len(Append(tmp, c)) = j + 1
            /\ Append(tmp, c)[j + 1] = c
            /\ \A i \in 1..j : Append(tmp, c)[i] = tmp[i]
        BY <3>3, <4>1, Longer
      <4>3. \A i \in 1..j + 1 : i = j + 1 \/ i \in 1..j  BY <3>2
      <4> DEFINE t == Append(tmp, c)
      <4> HIDE DEF t
      <4> QED  BY <3>3, <4>1, <4>2, <4>3 DEF Collected, t
    <3> QED  BY <3>2, <3>4, <3>5 DEF S
  <2> HIDE DEF S, rest, V
  <2>3. C \in S
    <3> HIDE DEF C
    <3>1. 0 \in Nat /\ C \in 0..C  BY <1>10
    <3>2. \A j \in 0..C : j \in S  BY <1>10, <2>1, <2>2, <3>1, Counting
    <3> QED  BY <3>1, <3>2
  <2> HIDE DEF C, N
  <2> QED  BY <1>10, <2>3 DEF S
<1>13. read \in Seq(V) /\ Len(read) = n + Ending /\ \A i \in 1..n : read[i] = data[i]
  <2>1. \A i \in 1..n : i \in 1..C  BY <1>1, <1>10
  <2> HIDE DEF C
  <2>2. \A i \in 1..n : rest[i] = data[i]  BY <1>1, <2>1
  <2> HIDE DEF rest, V
  <2> QED  BY <1>12, <2>1, <2>2 DEF Collected, C
<1> HIDE DEF V, C, rest, N
<1>14. ~TooShort(read) /\ WithoutEnding(read) = data
  <2>1. Ending \in Nat  BY <1>1 DEF Ending, b
  <2> HIDE DEF Ending
  <2>2. (n + Ending) - Ending = n /\ n + Ending \in Nat /\ ~(n + Ending < Ending) /\ n <= n + Ending
    BY <1>1, <2>1
  <2>3. ~TooShort(read)  BY <1>13, <2>2 DEF TooShort
  <2>4. WithoutEnding(read) = SubSeq(read, 1, n)  BY <1>13, <2>2 DEF WithoutEnding
  <2>5. SubSeq(read, 1, n) = [i \in 1..n |-> read[i]]  BY <1>13, <1>1, <2>2
  <2>6. data = [i \in 1..n |-> data[i]]  BY DEF n
  <2> QED  BY <1>13, <2>3, <2>4, <2>5, <2>6
<1>15. Multipart(s) = Well("CONTENT", <<>>, MediaOf[type], read)  BY <1>4, <1>12
<1> QED  BY <1>14, <1>15 DEF Well, s

(* What steps and errors the parser of a body may have.                    *)
ParserStates ==
  [step : {"INITIAL_BOUNDARY", "BOUNDARY", "CONTENT_DISPOSITION", "CONTENT_TYPE",
           "CRLF_BOUNDARY", "CRLF_DISPOSITION", "CRLF_CONTENT_TYPE", "CRLF_INITIAL_CONTENT1",
           "CRLF_INITIAL_CONTENT2", "CONTENT"},
   error : {0, 400, 415}]
Fits(p) == [step |-> p.step, error |-> p.error] \in ParserStates
Shaped(p) == p = [step |-> p.step, tmp |-> p.tmp, media |-> p.media,
                  data |-> p.data, error |-> p.error]

(* A byte leads from one of these to one of these.                         *)
LEMMA ByteFits ==
  ASSUME NEW p, NEW c, Shaped(p), Fits(p)
  PROVE  Shaped(ParseMultipart(p, c)) /\ Fits(ParseMultipart(p, c))
<1> DEFINE Good(q) == Shaped(q) /\ Fits(q)
<1>0. PICK step, tmp, media, data, error :
        p = [step |-> step, tmp |-> tmp, media |-> media, data |-> data, error |-> error]
  BY DEF Shaped
<1>1. /\ p.step = step /\ p.tmp = tmp /\ p.media = media /\ p.data = data /\ p.error = error
      /\ [step |-> step, error |-> error] \in ParserStates
  BY <1>0 DEF Fits
<1>2. Good(Bad(p))  BY <1>0, <1>1 DEF Bad, Fits, Shaped, ParserStates
<1> DEFINE R(s, t, m, d, e) == [step |-> s, tmp |-> t, media |-> m, data |-> d, error |-> e]
<1>12. p = R(step, tmp, media, data, error)  BY <1>0
<1>3. Good(Collect(p, c))
  <2>1. [R(step, tmp, media, data, error) EXCEPT !.tmp = Append(@, c)]
          = R(step, Append(tmp, c), media, data, error)
    OBVIOUS
  <2>2. Collect(p, c) = R(step, Append(tmp, c), media, data, error)
    <3> HIDE DEF R
    <3> QED  BY <1>12, <2>1 DEF Collect
  <2> QED  BY <1>1, <2>2 DEF Fits, Shaped
<1>13. ASSUME NEW s PROVE NextStep(p, s) = R(s, <<>>, media, data, error)
  <2> DEFINE q == [p EXCEPT !.step = s]
  <2>1. q = R(s, tmp, media, data, error)
    <3>1. [R(step, tmp, media, data, error) EXCEPT !.step = s] = R(s, tmp, media, data, error)
      OBVIOUS
    <3> HIDE DEF R
    <3> QED  BY <1>12, <3>1
  <2>2. [R(s, tmp, media, data, error) EXCEPT !.tmp = <<>>] = R(s, <<>>, media, data, error)
    OBVIOUS
  <2>3. NextStep(p, s) = [q EXCEPT !.tmp = <<>>]  BY DEF NextStep
  <2> HIDE DEF R, q
  <2> QED  BY <2>1, <2>2, <2>3
<1>4. ASSUME NEW s, [step |-> s, error |-> error] \in ParserStates PROVE Good(NextStep(p, s))
  BY <1>4, <1>13 DEF Fits, Shaped
<1>5. CASE p.error # 0  BY <1>5 DEF ParseMultipart
<1>6. CASE p.error = 0 /\ step = "INITIAL_BOUNDARY"
  <2>1. Good(NextStep(p, "BOUNDARY"))  BY <1>1, <1>4, <1>6 DEF ParserStates
  <2>2. ParseMultipart(p, c) = BoundaryDelimiter(p, c)  BY <1>1, <1>6 DEF ParseMultipart, LineFeed
  <2> HIDE DEF Good
  <2> QED  BY <1>2, <1>3, <2>1, <2>2 DEF BoundaryDelimiter, Good
<1>7. CASE p.error = 0 /\ step \in {"BOUNDARY", "CONTENT_DISPOSITION", "CONTENT_TYPE"}
  <2>1. ParseMultipart(p, c) = IF c = "CR" THEN LineEnd(p) ELSE Collect(p, c)
    BY <1>1, <1>7 DEF ParseMultipart, LineFeed
  <2>2. /\ Good(NextStep(p, "CRLF_BOUNDARY")) /\ Good(NextStep(p, "CRLF_DISPOSITION"))
        /\ Good(NextStep(p, "CRLF_CONTENT_TYPE"))
    BY <1>1, <1>4, <1>7 DEF ParserStates
  <2>3. Good([p EXCEPT !.error = 415])  BY <1>0, <1>1 DEF Fits, Shaped, ParserStates
  <2>4. ASSUME NEW m PROVE Good([NextStep(p, "CRLF_CONTENT_TYPE") EXCEPT !.media = m])
    <3>1. [NextStep(p, "CRLF_CONTENT_TYPE") EXCEPT !.media = m] =
            R("CRLF_CONTENT_TYPE", <<>>, m, data, error)
      <4>1. [R("CRLF_CONTENT_TYPE", <<>>, media, data, error) EXCEPT !.media = m] =
              R("CRLF_CONTENT_TYPE", <<>>, m, data, error)
        OBVIOUS
      <4> HIDE DEF R
      <4> QED  BY <1>13, <4>1
    <3> QED  BY <3>1, <1>1 DEF Fits, Shaped, ParserStates
  <2> HIDE DEF Good
  <2>5. Good(BoundaryLine(p)) /\ Good(DispositionLine(p))
    BY <1>2, <2>2 DEF BoundaryLine, DispositionLine
  <2>6. Good(ContentTypeLine(p))  BY <1>2, <2>2, <2>3, <2>4 DEF ContentTypeLine
  <2>7. Good(LineEnd(p))
    BY <1>1, <1>7, <2>5, <2>6 DEF LineEnd
  <2> QED  BY <1>3, <2>1, <2>7 DEF Good
<1>8. CASE p.error = 0 /\ step = "CRLF_INITIAL_CONTENT1"
  <2>1. ParseMultipart(p, c) = IF c = "CR" THEN NextStep(p, "CRLF_INITIAL_CONTENT2") ELSE Bad(p)
    BY <1>1, <1>8 DEF ParseMultipart, LineFeed
  <2>2. Good(NextStep(p, "CRLF_INITIAL_CONTENT2"))  BY <1>1, <1>4, <1>8 DEF ParserStates
  <2> HIDE DEF Good
  <2> QED  BY <1>2, <2>1, <2>2 DEF Good
<1>9. CASE p.error = 0 /\ step \in DOMAIN LineFeed
  <2>1. DOMAIN LineFeed = {"CRLF_BOUNDARY", "CRLF_DISPOSITION", "CRLF_CONTENT_TYPE",
                           "CRLF_INITIAL_CONTENT2"}
    BY DEF LineFeed
  <2>2. ParseMultipart(p, c) = IF c = "LF" THEN NextStep(p, LineFeed[step]) ELSE Bad(p)
    BY <1>1, <1>9, <2>1 DEF ParseMultipart
  <2>3. LineFeed[step] \in {"CONTENT_DISPOSITION", "CONTENT_TYPE", "CRLF_INITIAL_CONTENT1",
                            "CONTENT"}
    BY <1>9, <2>1 DEF LineFeed
  <2>4. Good(NextStep(p, LineFeed[step]))  BY <1>1, <1>4, <2>3 DEF ParserStates
  <2> HIDE DEF Good
  <2> QED  BY <1>2, <2>2, <2>4 DEF Good
<1>10. CASE p.error = 0 /\ step = "CONTENT"
  <2>1. ParseMultipart(p, c) = [p EXCEPT !.data = Append(@, c)]
    BY <1>1, <1>10 DEF ParseMultipart, LineFeed
  <2>2. [p EXCEPT !.data = Append(@, c)] = R(step, tmp, media, Append(data, c), error)
    <3>1. [R(step, tmp, media, data, error) EXCEPT !.data = Append(@, c)]
            = R(step, tmp, media, Append(data, c), error)
      OBVIOUS
    <3> HIDE DEF R
    <3> QED  BY <1>12, <3>1
  <2> QED  BY <1>1, <2>1, <2>2 DEF Fits, Shaped
<1>11. step \in {"INITIAL_BOUNDARY", "BOUNDARY", "CONTENT_DISPOSITION", "CONTENT_TYPE",
                 "CRLF_INITIAL_CONTENT1", "CONTENT"} \cup DOMAIN LineFeed
  BY <1>1 DEF ParserStates, LineFeed
<1> HIDE DEF Good
<1> QED  BY <1>1, <1>5, <1>6, <1>7, <1>8, <1>9, <1>10, <1>11 DEF Good

(***************************************************************************)
(* Forms                                                                   *)
(***************************************************************************)

(* The parser of forms before the first byte of s, in state p, and after   *)
(* each.                                                                   *)
Passing(f, p, s, n) == f[0] = p /\ \A k \in 1..n : f[k] = FormChar(f[k - 1], s[k])

(* The fold over the bytes takes them one by one, in order.                *)
LEMMA FormSteps ==
  ASSUME NEW s, NEW n \in Nat, DOMAIN s = 1..n
  PROVE  \E f : Passing(f, FormStarted, s, n) /\ FoldLeft(FormChar, FormStarted, s) = f[n]
<1> DEFINE Of(g, t) == IF t = {} THEN FormStarted ELSE FormChar(g[t \ {Max(t)}], s[Max(t)])
           Whole(g, m) == g = [t \in SUBSET (1..m) |-> Of(g, t)]
           whole == CHOOSE g : Whole(g, n)
<1>1. \A m \in 0..n : \E g : Whole(g, m)
  <2> DEFINE S == {m \in 0..n : \E g : Whole(g, m)}
  <2>1. 0 \in S
    <3> DEFINE g == [t \in SUBSET (1..0) |-> FormStarted]
    <3>1. \A t \in SUBSET (1..0) : t = {}  OBVIOUS
    <3>2. Whole(g, 0)  BY <3>1
    <3> HIDE DEF Whole, g
    <3> QED  BY <3>2
  <2>2. ASSUME NEW m \in 0..n - 1, m \in S PROVE m + 1 \in S
    <3>1. PICK g : Whole(g, m)  BY <2>2
    <3> DEFINE h == [t \in SUBSET (1..m + 1) |->
                       IF m + 1 \in t THEN FormChar(g[t \ {m + 1}], s[m + 1]) ELSE g[t]]
    <3>2. ASSUME NEW t \in SUBSET (1..m + 1) PROVE h[t] = Of(h, t)
      <4>1. CASE m + 1 \in t
        <5>1. t \ {m + 1} \in SUBSET (1..m) /\ t \ {m + 1} \in SUBSET (1..m + 1)  OBVIOUS
        <5>2. m + 1 \notin t \ {m + 1}  OBVIOUS
        <5>3. h[t \ {m + 1}] = g[t \ {m + 1}]  BY <5>1, <5>2
        <5>4. Max(t) = m + 1
          <6>1. \A y \in t : m + 1 >= y /\ y \in 1..m + 1  OBVIOUS
          <6>2. \A x \in t : (\A y \in t : x >= y) => x = m + 1  BY <4>1, <6>1
          <6> QED  BY <4>1, <6>1, <6>2 DEF Max
        <5>5. t # {}  BY <4>1
        <5>6. h[t] = FormChar(g[t \ {m + 1}], s[m + 1])  BY <4>1
        <5> HIDE DEF h
        <5> QED  BY <5>3, <5>4, <5>5, <5>6
      <4>2. CASE m + 1 \notin t
        <5>1. t \in SUBSET (1..m)  BY <4>2
        <5>2. h[t] = g[t] /\ g[t] = Of(g, t)  BY <3>1, <4>2, <5>1
        <5>3. CASE t = {}  BY <5>2, <5>3
        <5>4. CASE t # {}
          <6> DEFINE u == t \ {Max(t)}
          <6>1. u \in SUBSET (1..m) /\ u \in SUBSET (1..m + 1) /\ m + 1 \notin u
            <7>1. u \subseteq t /\ t \subseteq 1..m  BY <5>1
            <7>2. m + 1 \notin 1..m /\ 1..m \subseteq 1..m + 1  OBVIOUS
            <7> HIDE DEF u
            <7> QED  BY <7>1, <7>2
          <6>2. h[u] = g[u]  BY <6>1
          <6> HIDE DEF h
          <6> QED  BY <5>2, <5>4, <6>2
        <5> QED  BY <5>3, <5>4
      <4> QED  BY <4>1, <4>2
    <3>3. Whole(h, m + 1)
      <4>1. h = [t \in SUBSET (1..m + 1) |-> h[t]]  OBVIOUS
      <4> HIDE DEF h, Of
      <4> QED  BY <3>2, <4>1
    <3>4. m + 1 \in 0..n  OBVIOUS
    <3> HIDE DEF Whole, h
    <3> QED  BY <3>3, <3>4
  <2> HIDE DEF S
  <2>3. \A m \in 0..n : m \in S  BY <2>1, <2>2, Counting
  <2> QED  BY <2>3 DEF S
<1>2. Whole(whole, n)
  <2> HIDE DEF Whole
  <2> QED  BY <1>1
<1>3. FoldLeft(FormChar, FormStarted, s) = whole[1..n]
  BY DEF FoldLeft, MapThenFoldSet
<1> HIDE DEF whole
<1> DEFINE f == [k \in 0..n |-> whole[1..k]]
<1>4. \A k \in 0..n : 1..k \in SUBSET (1..n)  OBVIOUS
<1>5. f[0] = FormStarted
  <2>1. 1..0 = {}  OBVIOUS
  <2>2. f[0] = whole[1..0]  OBVIOUS
  <2> HIDE DEF f
  <2> QED  BY <1>2, <2>1, <2>2
<1>6. \A k \in 1..n : f[k] = FormChar(f[k - 1], s[k])
  <2> TAKE k \in 1..n
  <2>1. k \in 0..n /\ k - 1 \in 0..n  OBVIOUS
  <2>2. (1..k) \ {k} = 1..k - 1 /\ 1..k # {}  OBVIOUS
  <2>3. Max(1..k) = k
    <3>1. \A y \in 1..k : k >= y  OBVIOUS
    <3>2. \A x \in 1..k : (\A y \in 1..k : x >= y) => x = k  OBVIOUS
    <3>3. k \in 1..k  OBVIOUS
    <3> QED  BY <3>1, <3>2, <3>3 DEF Max
  <2>4. f[k] = whole[1..k] /\ f[k - 1] = whole[1..k - 1]  BY <2>1
  <2> HIDE DEF f
  <2>5. whole[1..k] = Of(whole, 1..k)  BY <1>2, <1>4, <2>1
  <2> QED  BY <2>2, <2>3, <2>4, <2>5
<1>7. f[n] = whole[1..n]  OBVIOUS
<1> HIDE DEF f
<1> QED  BY <1>3, <1>5, <1>6, <1>7 DEF Passing

(* Only one sequence of states is possible.                                *)
LEMMA PassingOnce ==
  ASSUME NEW p, NEW s, NEW n \in Nat, NEW f, NEW g, Passing(f, p, s, n), Passing(g, p, s, n)
  PROVE  g[n] = f[n]
<1> DEFINE S == {k \in 0..n : g[k] = f[k]}
<1>1. 0 \in S  BY DEF Passing
<1>2. ASSUME NEW k \in 0..n - 1, k \in S PROVE k + 1 \in S
  <2>1. k + 1 \in 1..n /\ k + 1 \in 0..n /\ (k + 1) - 1 = k  OBVIOUS
  <2>2. f[k + 1] = FormChar(f[k], s[k + 1])  BY <2>1 DEF Passing
  <2>3. g[k + 1] = FormChar(g[k], s[k + 1])  BY <2>1 DEF Passing
  <2> QED  BY <1>2, <2>1, <2>2, <2>3
<1> HIDE DEF S
<1>3. \A k \in 0..n : k \in S  BY <1>1, <1>2, Counting
<1> QED  BY <1>3 DEF S

(* Reading s leads from p to q.                                            *)
Reads(p, s, q) == \E f : Passing(f, p, s, Len(s)) /\ f[Len(s)] = q

(* Reading one byte.                                                       *)
LEMMA ReadsOne ==
  \A p, c : Reads(p, <<c>>, FormChar(p, c))
<1> TAKE p, c
<1> DEFINE f == [k \in 0..1 |-> IF k = 0 THEN p ELSE FormChar(p, c)]
           s == <<c>>
<1>1. Len(s) = 1 /\ s[1] = c  OBVIOUS
<1> HIDE DEF s
<1>2. f[0] = p /\ f[1] = FormChar(p, c)  OBVIOUS
<1> HIDE DEF f
<1>3. \A k \in 1..1 : k = 1 /\ k - 1 = 0  OBVIOUS
<1>4. Passing(f, p, s, 1)  BY <1>1, <1>2, <1>3 DEF Passing
<1> QED  BY <1>1, <1>2, <1>4 DEF Reads, s

(* Reading one text after the other.                                       *)
LEMMA ReadsBoth ==
  ASSUME NEW T, NEW a \in Seq(T), NEW b \in Seq(T), NEW p, NEW q, NEW r,
         Reads(p, a, q), Reads(q, b, r)
  PROVE  Reads(p, a \o b, r)
<1>1. PICK f : Passing(f, p, a, Len(a)) /\ f[Len(a)] = q  BY DEF Reads
<1>2. PICK g : Passing(g, q, b, Len(b)) /\ g[Len(b)] = r  BY DEF Reads
<1>3. PICK m : m = Len(a)  OBVIOUS
<1>4. PICK n : n = Len(b)  OBVIOUS
<1> DEFINE s == a \o b
           h == [k \in 0..m + n |-> IF k <= m THEN f[k] ELSE g[k - m]]
<1>5. /\ m \in Nat /\ n \in Nat /\ Len(s) = m + n
      /\ \A i \in 1..m : s[i] = a[i]
      /\ \A i \in 1..n : s[m + i] = b[i]
  BY <1>3, <1>4, Joined
<1> HIDE DEF s
<1>6. h[0] = p
  <2>1. 0 \in 0..m + n /\ 0 <= m  BY <1>5
  <2> QED  BY <1>1, <2>1 DEF Passing
<1>7. \A k \in 1..m + n : h[k] = FormChar(h[k - 1], s[k])
  <2> TAKE k \in 1..m + n
  <2>1. k \in 0..m + n /\ k - 1 \in 0..m + n  BY <1>5
  <2>2. CASE k <= m
    <3>1. k \in 1..m /\ k - 1 <= m  BY <1>5, <2>2
    <3>2. h[k] = f[k] /\ h[k - 1] = f[k - 1]  BY <2>1, <2>2, <3>1
    <3>3. f[k] = FormChar(f[k - 1], a[k])  BY <1>1, <1>3, <3>1 DEF Passing
    <3> HIDE DEF h
    <3> QED  BY <1>5, <3>1, <3>2, <3>3
  <2>3. CASE ~(k <= m)
    <3>1. k - m \in 1..n /\ m + (k - m) = k /\ (k - m) - 1 = (k - 1) - m  BY <1>5, <2>3
    <3>2. h[k] = g[k - m]  BY <2>1, <2>3
    <3>3. h[k - 1] = g[(k - m) - 1]
      <4>1. CASE k - 1 <= m
        <5>1. k - 1 = m /\ (k - m) - 1 = 0  BY <1>5, <2>3, <4>1
        <5>2. h[k - 1] = f[m]  BY <2>1, <5>1
        <5>3. f[m] = g[0]  BY <1>1, <1>2, <1>3 DEF Passing
        <5> QED  BY <5>1, <5>2, <5>3
      <4>2. CASE ~(k - 1 <= m)  BY <2>1, <3>1, <4>2
      <4> QED  BY <4>1, <4>2
    <3>4. g[k - m] = FormChar(g[(k - m) - 1], b[k - m])  BY <1>2, <1>4, <3>1 DEF Passing
    <3>5. s[k] = b[k - m]
      <4>1. s[m + (k - m)] = b[k - m]  BY <1>5, <3>1
      <4> QED  BY <3>1, <4>1
    <3> HIDE DEF h
    <3> QED  BY <3>2, <3>3, <3>4, <3>5
  <2> QED  BY <2>2, <2>3
<1>8. h[m + n] = r
  <2>1. m + n \in 0..m + n /\ (m + n) - m = n  BY <1>5
  <2>2. CASE n = 0
    <3>1. h[m + n] = f[m]  BY <1>5, <2>1, <2>2
    <3>2. g[0] = q  BY <1>2 DEF Passing
    <3> QED  BY <1>1, <1>2, <1>3, <1>4, <2>2, <3>1, <3>2
  <2>3. CASE n # 0
    <3>1. ~(m + n <= m)  BY <1>5, <2>3
    <3>2. h[m + n] = g[n]  BY <2>1, <3>1
    <3> QED  BY <1>2, <1>4, <3>2
  <2> QED  BY <2>2, <2>3
<1> HIDE DEF h
<1>9. Passing(h, p, s, Len(s)) /\ h[Len(s)] = r  BY <1>5, <1>6, <1>7, <1>8 DEF Passing
<1> QED  BY <1>9 DEF Reads, s

(* And reading a whole form.                                               *)
LEMMA ReadsForm ==
  ASSUME NEW T, NEW s \in Seq(T), NEW q, Reads(FormStarted, s, q)
  PROVE  Form(s) = EndField(q)
<1>1. PICK n : n = Len(s)  OBVIOUS
<1>2. n \in Nat /\ DOMAIN s = 1..n  BY <1>1
<1>3. PICK f : Passing(f, FormStarted, s, n) /\ f[n] = q  BY <1>1 DEF Reads
<1>4. PICK g : Passing(g, FormStarted, s, n) /\ FoldLeft(FormChar, FormStarted, s) = g[n]
  BY <1>2, FormSteps
<1>5. g[n] = f[n]  BY <1>2, <1>3, <1>4, PassingOnce
<1> QED  BY <1>3, <1>4, <1>5 DEF Form

(* A state of the parser.                                                  *)
State(a, b, c, d, e, f, g) ==
  [name |-> a, value |-> b, inValue |-> c, escaped |-> d, hex |-> e, fields |-> f, thrown |-> g]

(* A state with one field changed, for any fields.                         *)
LEMMA OneChange ==
  \A a, b, c, d, e, f, g, x :
    /\ [State(a, b, c, d, e, f, g) EXCEPT !.name = x] = State(x, b, c, d, e, f, g)
    /\ [State(a, b, c, d, e, f, g) EXCEPT !.value = x] = State(a, x, c, d, e, f, g)
    /\ [State(a, b, c, d, e, f, g) EXCEPT !.inValue = x] = State(a, b, x, d, e, f, g)
    /\ [State(a, b, c, d, e, f, g) EXCEPT !.escaped = x] = State(a, b, c, x, e, f, g)
    /\ [State(a, b, c, d, e, f, g) EXCEPT !.hex = x] = State(a, b, c, d, x, f, g)
    /\ [State(a, b, c, d, e, f, g) EXCEPT !.fields = x] = State(a, b, c, d, e, x, g)
BY DEF State

(* And with more than one.                                                 *)
LEMMA MoreChanges ==
  \A r, w, x, y, z :
    /\ [r EXCEPT !.escaped = x, !.hex = y] = [[r EXCEPT !.escaped = x] EXCEPT !.hex = y]
    /\ [r EXCEPT !.fields = w, !.name = x, !.value = y, !.inValue = z] =
         [[[[r EXCEPT !.fields = w] EXCEPT !.name = x] EXCEPT !.value = y] EXCEPT !.inValue = z]
OBVIOUS

(* Truth values behind a name, so that the provers take them as values.    *)
Yes == TRUE
No == FALSE

(* The parser between two characters of a name or a value.                 *)
Reading(name, value, inValue, fields) ==
  State(name, value, inValue, No, <<>>, fields, No)
(* And within an escaped one.                                              *)
Escaping(name, value, inValue, hex, fields) ==
  State(name, value, inValue, Yes, hex, fields, No)

(* Two elements.                                                           *)
LEMMA TwoOf ==
  \A g, h : Append(<<g>>, h) = <<g, h>>
<1> TAKE g, h
<1> DEFINE T == {g, h}
           s == <<g>>
           t == Append(s, h)
           u == <<g, h>>
<1>1. s \in Seq(T) /\ Len(s) = 1 /\ s[1] = g  OBVIOUS
<1>2. u \in Seq(T) /\ Len(u) = 2 /\ u[1] = g /\ u[2] = h  OBVIOUS
<1>3. h \in T  OBVIOUS
<1> HIDE DEF s, u, T
<1>4. t \in Seq(T) /\ Len(t) = 2 /\ t[2] = h /\ t[1] = g
  <2>0. s \in Seq(T)  BY <1>1
  <2>1. /\ t \in Seq(T) /\ Len(t) = Len(s) + 1 /\ t[Len(s) + 1] = h
        /\ \A i \in 1..Len(s) : t[i] = s[i]
    BY <1>3, <2>0, Longer
  <2> HIDE DEF t
  <2> QED  BY <1>1, <2>1
<1> HIDE DEF t
<1>5. \A i \in 1..2 : i = 1 \/ i = 2  OBVIOUS
<1>6. \A i \in 1..Len(t) : t[i] = u[i]  BY <1>2, <1>4, <1>5
<1>7. t = u  BY <1>2, <1>4, <1>6, Same
<1> QED  BY <1>7 DEF t, s, u

(* What each kind of byte does to it.                                      *)
LEMMA PlainTurns ==
  \A n, v, fl, c :
    /\ c \notin {"=", "%"} /\ IsUriChar(c) =>
         FormChar(Reading(n, v, No, fl), c) = Reading(Append(n, c), v, No, fl)
    /\ c \notin {"&", "%"} /\ IsUriChar(c) =>
         FormChar(Reading(n, v, Yes, fl), c) = Reading(n, Append(v, c), Yes, fl)
<1> TAKE n, v, fl, c
<1>1. ASSUME c \notin {"=", "%"}, IsUriChar(c)
      PROVE  FormChar(Reading(n, v, No, fl), c) = Reading(Append(n, c), v, No, fl)
  <2> DEFINE p == Reading(n, v, No, fl)
  <2>1. p.thrown = No /\ p.inValue = No /\ p.escaped = No /\ p.name = n
    BY DEF Reading, State
  <2>2. \A x : [p EXCEPT !.name = x] = Reading(x, v, No, fl)  BY OneChange DEF Reading
  <2> HIDE DEF p
  <2>3. FormChar(p, c) = Put(p, c)  BY <1>1, <2>1 DEF FormChar, No
  <2>4. Put(p, c) = [p EXCEPT !.name = Append(n, c)]  BY <2>1 DEF Put, No
  <2> QED  BY <2>2, <2>3, <2>4 DEF p
<1>2. ASSUME c \notin {"&", "%"}, IsUriChar(c)
      PROVE  FormChar(Reading(n, v, Yes, fl), c) = Reading(n, Append(v, c), Yes, fl)
  <2> DEFINE p == Reading(n, v, Yes, fl)
  <2>1. p.thrown = No /\ p.inValue = Yes /\ p.escaped = No /\ p.value = v
    BY DEF Reading, State
  <2>2. \A x : [p EXCEPT !.value = x] = Reading(n, x, Yes, fl)  BY OneChange DEF Reading
  <2> HIDE DEF p
  <2>3. FormChar(p, c) = Put(p, c)  BY <1>2, <2>1 DEF FormChar, Yes, No
  <2>4. Put(p, c) = [p EXCEPT !.value = Append(v, c)]  BY <2>1 DEF Put, Yes
  <2> QED  BY <2>2, <2>3, <2>4 DEF p
<1> QED  BY <1>1, <1>2

(* "=" ends a name; "&", and the end of the body, end a value.             *)
LEMMA MarkTurns ==
  \A n, v, fl :
    /\ FormChar(Reading(n, v, No, fl), "=") = Reading(n, v, Yes, fl)
    /\ EndField(Reading(n, v, Yes, fl)) = Reading(<<>>, <<>>, No, AddPostData(fl, n, v))
    /\ FormChar(Reading(n, v, Yes, fl), "&") = Reading(<<>>, <<>>, No, AddPostData(fl, n, v))
<1> TAKE n, v, fl
<1>1. FormChar(Reading(n, v, No, fl), "=") = Reading(n, v, Yes, fl)
  <2> DEFINE p == Reading(n, v, No, fl)
  <2>1. p.thrown = No /\ p.inValue = No  BY DEF Reading, State
  <2>2. [p EXCEPT !.inValue = Yes] = Reading(n, v, Yes, fl)  BY OneChange DEF Reading
  <2> HIDE DEF p
  <2>3. FormChar(p, "=") = [p EXCEPT !.inValue = Yes]  BY <2>1 DEF FormChar, Yes, No
  <2> QED  BY <2>2, <2>3 DEF p
<1>2. EndField(Reading(n, v, Yes, fl)) = Reading(<<>>, <<>>, No, AddPostData(fl, n, v))
  <2> DEFINE p == Reading(n, v, Yes, fl)
             q == State(n, v, Yes, No, <<>>, AddPostData(fl, n, v), No)
  <2>1. p.fields = fl /\ p.name = n /\ p.value = v  BY DEF Reading, State
  <2>2. [p EXCEPT !.fields = AddPostData(fl, n, v)] = q  BY OneChange DEF Reading
  <2>3. \A x, y : [[[q EXCEPT !.name = x] EXCEPT !.value = y] EXCEPT !.inValue = No]
                   = Reading(x, y, No, AddPostData(fl, n, v))
    <3> TAKE x, y
    <3>1. [q EXCEPT !.name = x] = State(x, v, Yes, No, <<>>, AddPostData(fl, n, v), No)
      BY OneChange
    <3>2. [State(x, v, Yes, No, <<>>, AddPostData(fl, n, v), No) EXCEPT !.value = y]
            = State(x, y, Yes, No, <<>>, AddPostData(fl, n, v), No)
      BY OneChange
    <3>3. [State(x, y, Yes, No, <<>>, AddPostData(fl, n, v), No) EXCEPT !.inValue = No]
            = State(x, y, No, No, <<>>, AddPostData(fl, n, v), No)
      BY OneChange
    <3> HIDE DEF q
    <3> QED  BY <3>1, <3>2, <3>3 DEF Reading
  <2> HIDE DEF p, q
  <2>4. EndField(p) = [p EXCEPT !.fields = AddPostData(fl, n, v), !.name = <<>>,
                                !.value = <<>>, !.inValue = No]
    BY <2>1 DEF EndField, No
  <2>5. EndField(p) = [[[q EXCEPT !.name = <<>>] EXCEPT !.value = <<>>] EXCEPT !.inValue = No]
    BY <2>2, <2>4, MoreChanges
  <2> QED  BY <2>3, <2>5 DEF p
<1>3. FormChar(Reading(n, v, Yes, fl), "&") = EndField(Reading(n, v, Yes, fl))
  <2> DEFINE p == Reading(n, v, Yes, fl)
  <2>1. p.thrown = No /\ p.inValue = Yes  BY DEF Reading, State
  <2> HIDE DEF p
  <2>2. p.thrown = FALSE /\ p.inValue = TRUE  BY <2>1 DEF Yes, No
  <2>3. FormChar(p, "&") = EndField(p)  BY <2>2 DEF FormChar
  <2> QED  BY <2>3 DEF p
<1> QED  BY <1>1, <1>2, <1>3

(* The first digits of what is escaped, and the second ones.               *)
Highs == {"0", "2", "3"}
Lows == {"0", "5", "6", "A", "B", "D"}

(* "%" and two digits are the character they stand for.                    *)
LEMMA EscapeTurns ==
  \A n, v, fl : \A b \in {Yes, No} :
    /\ FormChar(Reading(n, v, b, fl), "%") = Escaping(n, v, b, <<>>, fl)
    /\ \A h \in Highs :
         FormChar(Escaping(n, v, b, <<>>, fl), h) = Escaping(n, v, b, <<h>>, fl)
    /\ \A g \in Highs, h \in Lows :
         FormChar(Escaping(n, v, b, <<g>>, fl), h) = Put(Reading(n, v, b, fl), Decoded(<<g, h>>))
<1> TAKE n, v, fl
<1> TAKE b \in {Yes, No}
<1>0. b \in BOOLEAN  BY DEF Yes, No
<1>1. FormChar(Reading(n, v, b, fl), "%") = Escaping(n, v, b, <<>>, fl)
  <2> DEFINE p == Reading(n, v, b, fl)
  <2>1. p.thrown = No /\ p.inValue = b /\ p.escaped = No  BY DEF Reading, State
  <2>2. [p EXCEPT !.escaped = Yes] = Escaping(n, v, b, <<>>, fl)
    BY OneChange DEF Reading, Escaping
  <2> HIDE DEF p
  <2>3. FormChar(p, "%") = [p EXCEPT !.escaped = Yes]
    BY <1>0, <2>1 DEF FormChar, IsUriChar, Yes, No
  <2> QED  BY <2>2, <2>3 DEF p
<1>2. ASSUME NEW h \in Highs
      PROVE  FormChar(Escaping(n, v, b, <<>>, fl), h) = Escaping(n, v, b, <<h>>, fl)
  <2> DEFINE p == Escaping(n, v, b, <<>>, fl)
  <2>1. /\ p.thrown = No /\ p.inValue = b /\ p.escaped = Yes /\ p.hex = <<>>
        /\ ~(Len(p.hex) = 1)
    BY DEF Escaping, State
  <2>2. Append(<<>>, h) = <<h>>  OBVIOUS
  <2>3. [p EXCEPT !.hex = Append(<<>>, h)] = Escaping(n, v, b, Append(<<>>, h), fl)
    BY OneChange DEF Escaping
  <2> HIDE DEF p
  <2>4. FormChar(p, h) = [p EXCEPT !.hex = Append(p.hex, h)]
    BY <1>0, <2>1 DEF FormChar, IsUriChar, Highs, Yes, No
  <2> QED  BY <2>1, <2>2, <2>3, <2>4 DEF p
<1>3. ASSUME NEW g \in Highs, NEW h \in Lows
      PROVE  FormChar(Escaping(n, v, b, <<g>>, fl), h) = Put(Reading(n, v, b, fl), Decoded(<<g, h>>))
  <2> DEFINE p == Escaping(n, v, b, <<g>>, fl)
             q == [p EXCEPT !.escaped = No, !.hex = <<>>]
  <2>1. /\ p.thrown = No /\ p.inValue = b /\ p.escaped = Yes /\ p.hex = <<g>>
        /\ Len(p.hex) = 1
    BY DEF Escaping, State
  <2>2. Append(<<g>>, h) = <<g, h>>  BY TwoOf
  <2>3. [[p EXCEPT !.escaped = No] EXCEPT !.hex = <<>>] = Reading(n, v, b, fl)
    <3>1. [p EXCEPT !.escaped = No] = State(n, v, b, No, <<g>>, fl, No)
      BY OneChange DEF Escaping
    <3>2. [State(n, v, b, No, <<g>>, fl, No) EXCEPT !.hex = <<>>] = Reading(n, v, b, fl)
      BY OneChange DEF Reading
    <3> HIDE DEF p
    <3> QED  BY <3>1, <3>2
  <2> HIDE DEF p
  <2>4. q = [[p EXCEPT !.escaped = No] EXCEPT !.hex = <<>>]  BY MoreChanges
  <2>5. FormChar(p, h) = Put(q, Decoded(Append(p.hex, h)))
    BY <1>0, <2>1 DEF FormChar, IsUriChar, Lows, Yes, No
  <2> HIDE DEF q
  <2> QED  BY <2>1, <2>2, <2>3, <2>4, <2>5 DEF p
<1> QED  BY <1>1, <1>2, <1>3

(* A character put after what was read of the name or the value.           *)
LEMMA PutTurns ==
  \A n, v, fl, c :
    /\ Put(Reading(n, v, No, fl), c) = Reading(Append(n, c), v, No, fl)
    /\ Put(Reading(n, v, Yes, fl), c) = Reading(n, Append(v, c), Yes, fl)
<1> TAKE n, v, fl, c
<1>1. Put(Reading(n, v, No, fl), c) = Reading(Append(n, c), v, No, fl)
  <2> DEFINE p == Reading(n, v, No, fl)
  <2>1. p.inValue = No /\ p.name = n  BY DEF Reading, State
  <2>2. \A x : [p EXCEPT !.name = x] = Reading(x, v, No, fl)  BY OneChange DEF Reading
  <2> HIDE DEF p
  <2>3. Put(p, c) = [p EXCEPT !.name = Append(n, c)]  BY <2>1 DEF Put, No
  <2> QED  BY <2>2, <2>3 DEF p
<1>2. Put(Reading(n, v, Yes, fl), c) = Reading(n, Append(v, c), Yes, fl)
  <2> DEFINE p == Reading(n, v, Yes, fl)
  <2>1. p.inValue = Yes /\ p.value = v  BY DEF Reading, State
  <2>2. \A x : [p EXCEPT !.value = x] = Reading(n, x, Yes, fl)  BY OneChange DEF Reading
  <2> HIDE DEF p
  <2>3. Put(p, c) = [p EXCEPT !.value = Append(v, c)]  BY <2>1 DEF Put, Yes
  <2> QED  BY <2>2, <2>3 DEF p
<1> QED  BY <1>1, <1>2

(* The bytes that a form's spelling adds.                                  *)
Marks == {"&", "=", "%", "+", "0", "2", "3", "5", "6", "A", "B", "D"}
(* The characters that are escaped.                                        *)
Escaped == {"&", "=", "%", "+", "SP", "CR", "LF"}

(* The digits of the characters that are escaped, and back.                *)
LEMMA HexBack ==
  \A c \in Escaped :
    \E g \in Highs, h \in Lows : HexOf[c] = <<g, h>> /\ Decoded(<<g, h>>) = c
<1>1. DOMAIN HexOf = Escaped  BY DEF HexOf, Escaped
<1>2. /\ HexOf["&"] = <<"2", "6">>
      /\ HexOf["="] = <<"3", "D">>
      /\ HexOf["%"] = <<"2", "5">>
      /\ HexOf["+"] = <<"2", "B">>
      /\ HexOf["SP"] = <<"2", "0">>
      /\ HexOf["CR"] = <<"0", "D">>
      /\ HexOf["LF"] = <<"0", "A">>
  BY DEF HexOf
<1>3. \A c, d \in Escaped : HexOf[c] = HexOf[d] => c = d
  <2>1. \A g, h, x, y : <<g, h>> = <<x, y>> => g = x /\ h = y  OBVIOUS
  <2> TAKE c \in Escaped, d \in Escaped
  <2> QED  BY <1>2, <2>1 DEF Escaped
<1>4. \A c \in Escaped : Decoded(HexOf[c]) = c
  <2> TAKE c \in Escaped
  <2>1. \A d \in DOMAIN HexOf : HexOf[d] = HexOf[c] <=> d = c  BY <1>1, <1>3
  <2> QED  BY <1>1, <2>1 DEF Decoded
<1>5. \A c \in Escaped : \E g \in Highs, h \in Lows : HexOf[c] = <<g, h>>
  BY <1>2 DEF Escaped, Highs, Lows
<1> QED  BY <1>4, <1>5

(* Three bytes.                                                            *)
LEMMA ThreeOf ==
  ASSUME NEW T, NEW e \in T, NEW g \in T, NEW h \in T
  PROVE  /\ <<e>> \in Seq(T) /\ <<g>> \in Seq(T) /\ <<h>> \in Seq(T)
         /\ <<g, h>> \in Seq(T) /\ <<g>> \o <<h>> = <<g, h>> /\ <<e>> \o <<g, h>> \in Seq(T)
<1>1. <<e>> \in Seq(T) /\ <<g>> \in Seq(T) /\ <<h>> \in Seq(T) /\ <<g, h>> \in Seq(T)  OBVIOUS
<1>2. <<g>> \o <<h>> = <<g, h>>
  <2> DEFINE a == <<g>>
             b == <<h>>
             s == a \o b
             u == <<g, h>>
  <2>1. /\ a \in Seq(T) /\ Len(a) = 1 /\ a[1] = g
        /\ b \in Seq(T) /\ Len(b) = 1 /\ b[1] = h
        /\ u \in Seq(T) /\ Len(u) = 2 /\ u[1] = g /\ u[2] = h
    BY <1>1
  <2> HIDE DEF a, b, u
  <2>2. s \in Seq(T) /\ Len(s) = 2 /\ s[1] = g /\ s[2] = h
    <3>0. a \in Seq(T) /\ b \in Seq(T)  BY <2>1
    <3>1. /\ s \in Seq(T) /\ Len(s) = Len(a) + Len(b)
          /\ \A i \in 1..Len(a) : s[i] = a[i]
          /\ \A i \in 1..Len(b) : s[Len(a) + i] = b[i]
      BY <3>0, Joined
    <3> HIDE DEF s
    <3>2. s[1] = a[1] /\ s[1 + 1] = b[1]  BY <2>1, <3>1
    <3> QED  BY <2>1, <3>1, <3>2
  <2> HIDE DEF s
  <2>3. \A i \in 1..2 : i = 1 \/ i = 2  OBVIOUS
  <2>4. \A i \in 1..Len(s) : s[i] = u[i]  BY <2>1, <2>2, <2>3
  <2>5. s = u  BY <2>1, <2>2, <2>4, Same
  <2> QED  BY <2>5 DEF s, a, b, u
<1>3. <<e>> \o <<g, h>> \in Seq(T)
  <2> DEFINE a == <<e>>
             b == <<g, h>>
  <2>1. a \in Seq(T) /\ b \in Seq(T)  BY <1>1
  <2> HIDE DEF a, b
  <2>2. a \o b \in Seq(T)  BY <2>1, Joined
  <2> QED  BY <2>2 DEF a, b
<1> QED  BY <1>1, <1>2, <1>3

(* An escaped character is read as the character.                          *)
LEMMA EscapedRead ==
  ASSUME NEW T, Marks \subseteq T, NEW c \in Escaped,
         NEW n, NEW v, NEW b \in {Yes, No}, NEW fl
  PROVE  /\ <<"%">> \o HexOf[c] \in Seq(T)
         /\ Reads(Reading(n, v, b, fl), <<"%">> \o HexOf[c], Put(Reading(n, v, b, fl), c))
<1>1. PICK g \in Highs, h \in Lows :
        HexOf[c] = <<g, h>> /\ Decoded(<<g, h>>) = c
  BY HexBack
<1>2. "%" \in T /\ g \in T /\ h \in T  BY DEF Marks, Highs, Lows
<1>3. /\ <<"%">> \in Seq(T) /\ <<g>> \in Seq(T) /\ <<h>> \in Seq(T)
      /\ <<g, h>> \in Seq(T) /\ <<g>> \o <<h>> = <<g, h>> /\ <<"%">> \o <<g, h>> \in Seq(T)
  BY <1>2, ThreeOf
<1> DEFINE p == Reading(n, v, b, fl)
           q == Escaping(n, v, b, <<>>, fl)
           r == Escaping(n, v, b, <<g>>, fl)
           x == <<"%">>
           y == <<g>>
           z == <<h>>
<1>4. Reads(p, x, q) /\ Reads(q, y, r) /\ Reads(r, z, Put(p, c))
  <2>1. FormChar(p, "%") = q /\ FormChar(q, g) = r /\ FormChar(r, h) = Put(p, Decoded(<<g, h>>))
    BY EscapeTurns
  <2> HIDE DEF p, q, r
  <2> QED  BY <1>1, <2>1, ReadsOne
<1>5. x \in Seq(T) /\ y \in Seq(T) /\ z \in Seq(T) /\ y \o z \in Seq(T)  BY <1>3
<1>6. y \o z = HexOf[c]  BY <1>1, <1>3
<1> HIDE DEF p, q, r, x, y, z
<1>7. Reads(q, y \o z, Put(p, c))  BY <1>4, <1>5, ReadsBoth
<1>8. Reads(p, x \o (y \o z), Put(p, c))  BY <1>4, <1>5, <1>7, ReadsBoth
<1>9. x \o HexOf[c] \in Seq(T)  BY <1>1, <1>3 DEF x
<1> QED  BY <1>6, <1>8, <1>9 DEF p, x

(* What clients may leave plain: "=" in values, and spaces, as "+".        *)
LeftPlain(plain) == plain \subseteq {"=", "SP"}

(* A character is read as what can be heard of it, however it was spelled. *)
LEMMA SpelledRead ==
  ASSUME NEW T, Marks \subseteq T, NEW c \in T, NEW plain, LeftPlain(plain),
         NEW n, NEW v, NEW fl
  PROVE  /\ Heard(c, plain) \in T
         /\ Spelled(c, plain) \in Seq(T)
         /\ "=" \notin plain => Reads(Reading(n, v, No, fl), Spelled(c, plain),
                                     Reading(Append(n, Heard(c, plain)), v, No, fl))
         /\ Reads(Reading(n, v, Yes, fl), Spelled(c, plain),
                  Reading(n, Append(v, Heard(c, plain)), Yes, fl))
<1>1. DOMAIN HexOf = Escaped  BY DEF HexOf, Escaped
<1>2. CASE c \in Escaped \ plain
  <2>1. /\ Put(Reading(n, v, No, fl), c) = Reading(Append(n, c), v, No, fl)
        /\ Put(Reading(n, v, Yes, fl), c) = Reading(n, Append(v, c), Yes, fl)
    BY PutTurns
  <2>2. /\ <<"%">> \o HexOf[c] \in Seq(T)
        /\ Reads(Reading(n, v, No, fl), <<"%">> \o HexOf[c], Put(Reading(n, v, No, fl), c))
        /\ Reads(Reading(n, v, Yes, fl), <<"%">> \o HexOf[c], Put(Reading(n, v, Yes, fl), c))
    BY <1>2, EscapedRead
  <2>3. Spelled(c, plain) = <<"%">> \o HexOf[c]  BY <1>1, <1>2 DEF Spelled
  <2>4. Heard(c, plain) = c  BY <1>2 DEF Heard
  <2> QED  BY <2>1, <2>2, <2>3, <2>4
<1>3. CASE c \notin Escaped \ plain
  <2>1. PICK d : d = IF c = "SP" THEN "+" ELSE c  OBVIOUS
  <2>2. Spelled(c, plain) = <<d>>  BY <1>1, <1>3, <2>1 DEF Spelled
  <2>3. Heard(c, plain) = d  BY <1>3, <2>1 DEF Heard, Escaped
  <2>4. d \in T  BY <2>1 DEF Marks
  <2>5. /\ d \notin {"&", "%"} /\ IsUriChar(d)
        /\ "=" \notin plain => d # "="
    BY <1>3, <2>1 DEF Escaped, LeftPlain, IsUriChar
  <2>6. /\ "=" \notin plain => FormChar(Reading(n, v, No, fl), d) = Reading(Append(n, d), v, No, fl)
        /\ FormChar(Reading(n, v, Yes, fl), d) = Reading(n, Append(v, d), Yes, fl)
    BY <2>5, PlainTurns
  <2>7. <<d>> \in Seq(T)  BY <2>4
  <2> QED  BY <2>2, <2>3, <2>4, <2>6, <2>7, ReadsOne
<1> QED  BY <1>2, <1>3

(* Pieces put together one after the other.                                *)
LEMMA FlattenSteps ==
  ASSUME NEW s, NEW n \in Nat \ {0}, DOMAIN s = 1..n, Len(s) = n
  PROVE  \E f : /\ f[1] = s[1] /\ FlattenSeq(s) = f[n]
                /\ \A k \in 2..n : f[k] = f[k - 1] \o s[k]
<1> DEFINE Of(g, i) == IF i = 1 THEN s[i] ELSE g[i - 1] \o s[i]
           Whole(g, m) == g = [i \in 1..m |-> Of(g, i)]
           whole == CHOOSE g : Whole(g, n)
<1>1. \A m \in 1..n : \E g : Whole(g, m)
  <2> DEFINE S == {m \in 1..n : \E g : Whole(g, m)}
  <2>1. 1 \in S
    <3> DEFINE g == [i \in 1..1 |-> s[1]]
    <3>1. \A i \in 1..1 : i = 1  OBVIOUS
    <3>2. Whole(g, 1)  BY <3>1
    <3> HIDE DEF Whole, g
    <3> QED  BY <3>2
  <2>2. ASSUME NEW m \in 1..n - 1, m \in S PROVE m + 1 \in S
    <3>1. PICK g : Whole(g, m)  BY <2>2
    <3> DEFINE h == [i \in 1..m + 1 |-> IF i = m + 1 THEN g[m] \o s[m + 1] ELSE g[i]]
    <3>2. ASSUME NEW i \in 1..m + 1 PROVE h[i] = Of(h, i)
      <4>1. CASE i = m + 1
        <5>1. m \in 1..m + 1 /\ m # m + 1 /\ i # 1 /\ i - 1 = m  BY <4>1
        <5>2. h[m] = g[m]  BY <5>1
        <5>3. h[i] = g[m] \o s[i]  BY <4>1
        <5> HIDE DEF h
        <5> QED  BY <5>1, <5>2, <5>3
      <4>2. CASE i # m + 1
        <5>1. i \in 1..m  BY <4>2
        <5>2. h[i] = g[i] /\ g[i] = Of(g, i)  BY <3>1, <4>2, <5>1
        <5>3. CASE i = 1  BY <5>2, <5>3
        <5>4. CASE i # 1
          <6>1. i - 1 \in 1..m + 1 /\ i - 1 # m + 1  BY <5>1, <5>4
          <6>2. h[i - 1] = g[i - 1]  BY <6>1
          <6> HIDE DEF h
          <6> QED  BY <5>2, <5>4, <6>2
        <5> QED  BY <5>3, <5>4
      <4> QED  BY <4>1, <4>2
    <3>3. Whole(h, m + 1)
      <4>1. h = [i \in 1..m + 1 |-> h[i]]  OBVIOUS
      <4> HIDE DEF h, Of
      <4> QED  BY <3>2, <4>1
    <3>4. m + 1 \in 1..n  OBVIOUS
    <3> HIDE DEF Whole, h
    <3> QED  BY <3>3, <3>4
  <2> HIDE DEF S
  <2>3. \A m \in 1..n : m \in S  BY <2>1, <2>2, Counting
  <2> QED  BY <2>3 DEF S
<1>2. Whole(whole, n)
  <2> HIDE DEF Whole
  <2>1. n \in 1..n  OBVIOUS
  <2> QED  BY <1>1, <2>1
<1>3. FlattenSeq(s) = whole[n]
  BY DEF FlattenSeq
<1> HIDE DEF whole
<1>4. \A i \in 1..n : whole[i] = Of(whole, i)  BY <1>2
<1>5. whole[1] = s[1]
  <2>1. 1 \in 1..n  OBVIOUS
  <2> QED  BY <1>4, <2>1
<1>6. \A k \in 2..n : whole[k] = whole[k - 1] \o s[k]
  <2> TAKE k \in 2..n
  <2>1. k \in 1..n /\ k # 1  OBVIOUS
  <2> QED  BY <1>4, <2>1
<1> QED  BY <1>3, <1>5, <1>6

(* The parser with a name or a value read so far.                          *)
Grown(kind, other, fl, tmp) ==
  IF kind = "value" THEN Reading(other, tmp, Yes, fl) ELSE Reading(tmp, other, No, fl)
Spelling(kind, plain) == LeftPlain(plain) /\ (kind # "value" => "=" \notin plain)

(* A name or a value grows by what can be heard of the character.          *)
LEMMA GrownRead ==
  ASSUME NEW T, Marks \subseteq T, NEW c \in T,
         NEW kind, NEW plain, Spelling(kind, plain), NEW other, NEW fl, NEW tmp
  PROVE  /\ Heard(c, plain) \in T
         /\ Spelled(c, plain) \in Seq(T)
         /\ Reads(Grown(kind, other, fl, tmp), Spelled(c, plain),
                  Grown(kind, other, fl, Append(tmp, Heard(c, plain))))
<1>1. LeftPlain(plain)  BY DEF Spelling
<1>2. Heard(c, plain) \in T /\ Spelled(c, plain) \in Seq(T)  BY <1>1, SpelledRead
<1>3. CASE kind = "value"
  <2>1. Reads(Reading(other, tmp, Yes, fl), Spelled(c, plain),
              Reading(other, Append(tmp, Heard(c, plain)), Yes, fl))
    BY <1>1, SpelledRead
  <2> QED  BY <1>2, <1>3, <2>1 DEF Grown
<1>4. CASE kind # "value"
  <2>1. "=" \notin plain  BY <1>4 DEF Spelling
  <2>2. Reads(Reading(tmp, other, No, fl), Spelled(c, plain),
              Reading(Append(tmp, Heard(c, plain)), other, No, fl))
    BY <1>1, <2>1, SpelledRead
  <2> QED  BY <1>2, <1>4, <2>2 DEF Grown
<1> QED  BY <1>3, <1>4

(* Reading nothing.                                                        *)
LEMMA ReadsNothing ==
  \A p, s : Len(s) = 0 => Reads(p, s, p)
<1> TAKE p, s
<1> HAVE Len(s) = 0
<1> DEFINE f == [k \in 0..0 |-> p]
<1>1. f[0] = p /\ \A k \in 1..0 : FALSE  OBVIOUS
<1> HIDE DEF f
<1>2. Passing(f, p, s, 0)  BY <1>1 DEF Passing
<1> QED  BY <1>1, <1>2 DEF Reads

(* A text is read as what can be heard of it.                              *)
LEMMA TextRead ==
  ASSUME NEW T, Marks \subseteq T, NEW text \in Seq(T),
         NEW kind, NEW plain, Spelling(kind, plain), NEW other, NEW fl
  PROVE  /\ SpelledText(text, plain) \in Seq(T)
         /\ Reads(Grown(kind, other, fl, <<>>), SpelledText(text, plain),
                  Grown(kind, other, fl, HeardText(text, plain)))
<1> DEFINE s == [k \in 1..Len(text) |-> Spelled(text[k], plain)]
           heard == HeardText(text, plain)
<1>1. PICK n : n = Len(text)  OBVIOUS
<1>2. n \in Nat  BY <1>1
<1>3. DOMAIN s = 1..n /\ Len(s) = n /\ \A k \in 1..n : s[k] = Spelled(text[k], plain)
  BY <1>1, <1>2
<1>4. SpelledText(text, plain) = FlattenSeq(s)  BY DEF SpelledText
<1>5. \A k \in 1..n : text[k] \in T  BY <1>1, <1>2
<1>8. heard \in Seq(T) /\ Len(heard) = n /\ \A k \in 1..n : heard[k] = Heard(text[k], plain)
  <2>1. \A k \in 1..n : Heard(text[k], plain) \in T  BY <1>5, GrownRead
  <2>2. heard = [k \in 1..n |-> Heard(text[k], plain)]  BY <1>1 DEF HeardText
  <2> HIDE DEF heard
  <2> QED  BY <1>2, <2>1, <2>2
<1> HIDE DEF heard
<1>6. CASE n = 0
  <2>1. heard = <<>>
    <3>1. <<>> \in Seq(T) /\ Len(<<>>) = 0  OBVIOUS
    <3>2. Len(heard) = 0 /\ \A i \in 1..Len(heard) : FALSE  BY <1>6, <1>8
    <3> QED  BY <1>8, <3>1, <3>2, Same
  <2>2. s = <<>>  BY <1>1, <1>6
  <2> HIDE DEF s
  <2>3. FlattenSeq(<<>>) = <<>>  BY DEF FlattenSeq
  <2>4. <<>> \in Seq(T) /\ Len(<<>>) = 0  OBVIOUS
  <2> QED  BY <1>4, <2>1, <2>2, <2>3, <2>4, ReadsNothing DEF heard
<1>7. CASE n # 0
  <2> HIDE DEF s
  <2>1. n \in Nat \ {0}  BY <1>2, <1>7
  <2>2. PICK f : /\ f[1] = s[1] /\ FlattenSeq(s) = f[n]
                 /\ \A k \in 2..n : f[k] = f[k - 1] \o s[k]
    BY <1>3, <2>1, FlattenSteps
  <2> DEFINE p == Grown(kind, other, fl, <<>>)
             So(j) == /\ f[j] \in Seq(T)
                      /\ \E tmp : /\ Collected(T, heard, j, tmp)
                                  /\ Reads(p, f[j], Grown(kind, other, fl, tmp))
             S == {j \in 1..n : So(j)}
  <2>3. 1 \in S
    <3>1. 1 \in 1..n  BY <2>1
    <3>2. text[1] \in T /\ heard[1] = Heard(text[1], plain)  BY <1>5, <1>8, <3>1
    <3>3. /\ heard[1] \in T /\ Spelled(text[1], plain) \in Seq(T)
          /\ Reads(p, Spelled(text[1], plain), Grown(kind, other, fl, Append(<<>>, heard[1])))
      BY <3>2, GrownRead
    <3>4. f[1] = Spelled(text[1], plain)  BY <1>3, <2>2, <3>1
    <3>5. Collected(T, heard, 1, Append(<<>>, heard[1]))
      <4>1. <<>> \in Seq(T) /\ Len(<<>>) = 0  OBVIOUS
      <4>2. Append(<<>>, heard[1]) = <<heard[1]>>  OBVIOUS
      <4> DEFINE x == heard[1]
                 one == <<x>>
      <4>3. one \in Seq(T) /\ Len(one) = 1 /\ one[1] = x  BY <3>3
      <4> HIDE DEF one
      <4>4. \A i \in 1..1 : i = 1  OBVIOUS
      <4>5. Collected(T, heard, 1, one)  BY <4>3, <4>4 DEF Collected
      <4> QED  BY <4>2, <4>5 DEF one
    <3> HIDE DEF p
    <3> QED  BY <3>1, <3>3, <3>4, <3>5
  <2>4. ASSUME NEW j \in 1..n - 1, j \in S PROVE j + 1 \in S
    <3>1. /\ j \in 1..n /\ j + 1 \in 1..n /\ j + 1 \in 2..n /\ (j + 1) - 1 = j /\ j \in Nat
      BY <2>1
    <3> HIDE DEF p
    <3>2. f[j] \in Seq(T)  BY <2>4
    <3>3. PICK tmp : Collected(T, heard, j, tmp) /\ Reads(p, f[j], Grown(kind, other, fl, tmp))
      BY <2>4
    <3>4. text[j + 1] \in T /\ heard[j + 1] = Heard(text[j + 1], plain)  BY <1>5, <1>8, <3>1
    <3>5. /\ heard[j + 1] \in T /\ Spelled(text[j + 1], plain) \in Seq(T)
          /\ Reads(Grown(kind, other, fl, tmp), Spelled(text[j + 1], plain),
                   Grown(kind, other, fl, Append(tmp, heard[j + 1])))
      BY <3>4, GrownRead
    <3>6. f[j + 1] = f[j] \o Spelled(text[j + 1], plain)  BY <1>3, <2>2, <3>1
    <3>7. Reads(p, f[j + 1], Grown(kind, other, fl, Append(tmp, heard[j + 1])))
      <4> DEFINE q == Grown(kind, other, fl, tmp)
                 r == Grown(kind, other, fl, Append(tmp, heard[j + 1]))
                 b == Spelled(text[j + 1], plain)
      <4>1. Reads(p, f[j], q) /\ Reads(q, b, r) /\ b \in Seq(T)  BY <3>3, <3>5
      <4> HIDE DEF q, r, b
      <4>2. Reads(p, f[j] \o b, r)  BY <3>2, <4>1, ReadsBoth
      <4> QED  BY <3>6, <4>2 DEF b, r
    <3>8. Collected(T, heard, j + 1, Append(tmp, heard[j + 1]))
      <4>1. tmp \in Seq(T) /\ Len(tmp) = j /\ \A i \in 1..j : tmp[i] = heard[i]
        BY <3>3 DEF Collected
      <4> DEFINE x == heard[j + 1]
                 more == Append(tmp, x)
      <4>2. tmp \in Seq(T) /\ x \in T  BY <3>5, <4>1
      <4> HIDE DEF x
      <4>3. /\ more \in Seq(T) /\ Len(more) = Len(tmp) + 1 /\ more[Len(tmp) + 1] = x
            /\ \A i \in 1..Len(tmp) : more[i] = tmp[i]
        BY <4>2, Longer
      <4> HIDE DEF more
      <4>4. more[j + 1] = heard[j + 1]  BY <4>1, <4>3 DEF x
      <4>5. \A i \in 1..j + 1 : i \in 1..j \/ i = j + 1  BY <3>1
      <4>6. \A i \in 1..j + 1 : more[i] = heard[i]  BY <4>1, <4>3, <4>4, <4>5
      <4>7. Collected(T, heard, j + 1, more)  BY <4>1, <4>3, <4>6 DEF Collected
      <4> QED  BY <4>7 DEF more, x
    <3>9. f[j + 1] \in Seq(T)
      <4> DEFINE b == Spelled(text[j + 1], plain)
      <4>1. b \in Seq(T)  BY <3>5
      <4> HIDE DEF b
      <4>2. f[j] \o b \in Seq(T)  BY <3>2, <4>1, Joined
      <4> QED  BY <3>6, <4>2 DEF b
    <3>10. So(j + 1)  BY <3>7, <3>8, <3>9
    <3> HIDE DEF So
    <3> QED  BY <3>1, <3>10
  <2> HIDE DEF S
  <2>5. \A j \in 1..n : j \in S  BY <2>1, <2>3, <2>4, Counting
  <2>6. n \in S  BY <2>1, <2>5
  <2> HIDE DEF p
  <2>7. So(n)  BY <2>6 DEF S
  <2>8. PICK tmp : Collected(T, heard, n, tmp) /\ Reads(p, f[n], Grown(kind, other, fl, tmp))
    BY <2>7
  <2>9. tmp = heard
    <3>1. tmp \in Seq(T) /\ Len(tmp) = n /\ \A i \in 1..n : tmp[i] = heard[i]
      BY <2>8 DEF Collected
    <3>2. tmp \in Seq(T) /\ heard \in Seq(T)  BY <1>8, <3>1
    <3>3. Len(tmp) = Len(heard) /\ \A i \in 1..Len(tmp) : tmp[i] = heard[i]  BY <1>8, <3>1
    <3> QED  BY <3>2, <3>3, Same
  <2> QED  BY <1>4, <2>2, <2>7, <2>8, <2>9 DEF p, heard
<1> QED  BY <1>6, <1>7

(* A pair, spelled out.                                                    *)
Field(name, value, plain) ==
  SpelledText(name, plain \ {"="}) \o <<"=">> \o SpelledText(value, plain)

(* Only the space tells how a text is heard.                               *)
LEMMA HeardAlike ==
  \A text, plain : HeardText(text, plain \ {"="}) = HeardText(text, plain)
<1> TAKE text, plain
<1>1. \A c : Heard(c, plain \ {"="}) = Heard(c, plain)  BY DEF Heard
<1> QED  BY <1>1 DEF HeardText

(* A pair is read as what can be heard of its name and its value.          *)
LEMMA FieldRead ==
  ASSUME NEW T, Marks \subseteq T, NEW name \in Seq(T), NEW value \in Seq(T),
         NEW plain, LeftPlain(plain), NEW fl
  PROVE  /\ Field(name, value, plain) \in Seq(T)
         /\ Reads(Reading(<<>>, <<>>, No, fl), Field(name, value, plain),
                  Reading(HeardText(name, plain), HeardText(value, plain), Yes, fl))
<1> DEFINE a == SpelledText(name, plain \ {"="})
           b == <<"=">>
           c == SpelledText(value, plain)
           p == Reading(<<>>, <<>>, No, fl)
           m == HeardText(name, plain)
           w == HeardText(value, plain)
           q == Reading(m, <<>>, No, fl)
           r == Reading(m, <<>>, Yes, fl)
           z == Reading(m, w, Yes, fl)
<1>1. a \in Seq(T) /\ Reads(p, a, q)
  <2>1. Spelling("name", plain \ {"="})  BY DEF Spelling, LeftPlain
  <2>2. HeardText(name, plain \ {"="}) = m  BY HeardAlike
  <2>4. a \in Seq(T) /\ Reads(Grown("name", <<>>, fl, <<>>), a, Grown("name", <<>>, fl, m))
    BY <2>1, <2>2, TextRead
  <2>3. Grown("name", <<>>, fl, <<>>) = p /\ Grown("name", <<>>, fl, m) = q
    BY DEF Grown
  <2> HIDE DEF a, m, p, q
  <2> QED  BY <2>3, <2>4
<1>2. b \in Seq(T) /\ Reads(q, b, r)
  <2>1. "=" \in T  BY DEF Marks
  <2>2. FormChar(q, "=") = r  BY MarkTurns
  <2> HIDE DEF q, r
  <2>3. Reads(q, b, r)  BY <2>2, ReadsOne
  <2> QED  BY <2>1, <2>3
<1>3. c \in Seq(T) /\ Reads(r, c, z)
  <2>1. Spelling("value", plain)  BY DEF Spelling
  <2>2. c \in Seq(T) /\ Reads(Grown("value", m, fl, <<>>), c, Grown("value", m, fl, w))
    BY <2>1, TextRead
  <2>3. Grown("value", m, fl, <<>>) = r /\ Grown("value", m, fl, w) = z
    BY DEF Grown
  <2> HIDE DEF c, m, w, r, z
  <2> QED  BY <2>2, <2>3
<1>4. Field(name, value, plain) = (a \o b) \o c  BY DEF Field
<1> HIDE DEF a, b, c, p, q, r, z
<1>5. a \o b \in Seq(T)  BY <1>1, <1>2, Joined
<1>6. (a \o b) \o c \in Seq(T)  BY <1>3, <1>5, Joined
<1>7. Reads(p, a \o b, r)  BY <1>1, <1>2, ReadsBoth
<1>8. Reads(p, (a \o b) \o c, z)  BY <1>3, <1>5, <1>7, ReadsBoth
<1> QED  BY <1>4, <1>6, <1>8 DEF p, z

(* And one more pair, after "&".                                           *)
LEMMA NextFieldRead ==
  ASSUME NEW T, Marks \subseteq T, NEW name \in Seq(T), NEW value \in Seq(T),
         NEW plain, LeftPlain(plain), NEW fl, NEW n, NEW v
  PROVE  /\ <<"&">> \o Field(name, value, plain) \in Seq(T)
         /\ Reads(Reading(n, v, Yes, fl), <<"&">> \o Field(name, value, plain),
                  Reading(HeardText(name, plain), HeardText(value, plain), Yes,
                          AddPostData(fl, n, v)))
<1> DEFINE a == <<"&">>
           b == Field(name, value, plain)
           p == Reading(n, v, Yes, fl)
           q == Reading(<<>>, <<>>, No, AddPostData(fl, n, v))
           z == Reading(HeardText(name, plain), HeardText(value, plain), Yes,
                        AddPostData(fl, n, v))
<1>1. a \in Seq(T) /\ Reads(p, a, q)
  <2>1. "&" \in T  BY DEF Marks
  <2>2. FormChar(p, "&") = q  BY MarkTurns
  <2> HIDE DEF p, q
  <2>3. Reads(p, a, q)  BY <2>2, ReadsOne
  <2> QED  BY <2>1, <2>3
<1>2. b \in Seq(T) /\ Reads(q, b, z)  BY FieldRead
<1> HIDE DEF a, b, p, q, z
<1>3. a \o b \in Seq(T)  BY <1>1, <1>2, Joined
<1>4. Reads(p, a \o b, z)  BY <1>1, <1>2, ReadsBoth
<1> QED  BY <1>3, <1>4 DEF a, b, p, z

(* What the first k pairs leave: of each name the last.                    *)
LastOfFirst(pairs, k) ==
  {pairs[i] : i \in {j \in 1..k : \A h \in j + 1..k : pairs[h][1] # pairs[j][1]}}

(* One more pair is one more entry of the map, or another value for one.   *)
LEMMA LastGrows ==
  ASSUME NEW pairs, NEW k \in Nat, NEW name, NEW value, pairs[k + 1] = <<name, value>>
  PROVE  LastOfFirst(pairs, k + 1) = AddPostData(LastOfFirst(pairs, k), name, value)
<1> DEFINE Latest(m) == {j \in 1..m : \A h \in j + 1..m : pairs[h][1] # pairs[j][1]}
<1>1. \A j \in 1..k : j \in Latest(k + 1) <=> j \in Latest(k) /\ pairs[j][1] # name
  <2> TAKE j \in 1..k
  <2>1. pairs[k + 1][1] = name  OBVIOUS
  <2>2. j + 1..k + 1 = (j + 1..k) \cup {k + 1}  OBVIOUS
  <2>3. j \in 1..k + 1  OBVIOUS
  <2> QED  BY <2>1, <2>2, <2>3
<1>2. k + 1 \in Latest(k + 1)  OBVIOUS
<1>3. \A j \in Latest(k + 1) : j = k + 1 \/ j \in 1..k  OBVIOUS
<1>4. \A j \in Latest(k) : j \in 1..k  OBVIOUS
<1>5. LastOfFirst(pairs, k + 1) = {pairs[i] : i \in Latest(k + 1)}
  BY DEF LastOfFirst
<1>6. LastOfFirst(pairs, k) = {pairs[i] : i \in Latest(k)}
  BY DEF LastOfFirst
<1> HIDE DEF Latest
<1> DEFINE New == {pairs[i] : i \in Latest(k + 1)}
           Old == {pairs[i] : i \in Latest(k)}
<1>7. \A f : f \in New <=> f \in {g \in Old : g[1] # name} \cup {pairs[k + 1]}
  BY <1>1, <1>2, <1>3, <1>4
<1>8. New = {g \in Old : g[1] # name} \cup {pairs[k + 1]}
  <2> HIDE DEF New, Old
  <2> QED  BY <1>7
<1> QED  BY <1>5, <1>6, <1>8 DEF AddPostData

(* However long its names and values are and whatever they hold, marks,    *)
(* spaces, line ends or "%" itself: where the client escapes all that      *)
(* means something else, the fields are its pairs, the last of those with  *)
(* one name (_parse_form_data(), addPostData()); where it sends spaces     *)
(* as "+", as browsers do, they are the pairs with "+" in their place, for *)
(* is_uri_char() lets a "+" through and nothing decodes it.                *)
THEOREM FormUnderstood ==
  ASSUME NEW T, Marks \subseteq T,
         NEW pairs \in Seq(Seq(T) \X Seq(T)), pairs # <<>>,
         NEW plain, plain \subseteq {"=", "SP"}
  PROVE  LET form == Form(FormBody(pairs, plain))
         IN ~form.thrown /\ form.fields = LastOfEach(HeardPairs(pairs, plain))
<1> DEFINE heard == HeardPairs(pairs, plain)
           Of(k) == Field(pairs[k][1], pairs[k][2], plain)
           s == [k \in 1..Len(pairs) |-> IF k = 1 THEN Of(k) ELSE <<"&">> \o Of(k)]
<1>1. PICK n : n = Len(pairs)  OBVIOUS
<1>2. n \in Nat \ {0}
  <2>1. Len(pairs) \in Nat /\ Len(pairs) # 0  OBVIOUS
  <2> QED  BY <1>1, <2>1
<1>3. \A k \in 1..n : pairs[k] \in Seq(T) \X Seq(T)  BY <1>1
<1>4. \A k \in 1..n : pairs[k][1] \in Seq(T) /\ pairs[k][2] \in Seq(T)  BY <1>3
<1>21. /\ DOMAIN heard = 1..n /\ Len(heard) = n
       /\ \A k \in 1..n : /\ heard[k][1] = HeardText(pairs[k][1], plain)
                          /\ heard[k][2] = HeardText(pairs[k][2], plain)
                          /\ heard[k] = <<heard[k][1], heard[k][2]>>
  <2>1. heard = [k \in 1..n |-> <<HeardText(pairs[k][1], plain), HeardText(pairs[k][2], plain)>>]
    BY <1>1 DEF HeardPairs
  <2> HIDE DEF heard
  <2> QED  BY <1>2, <2>1
<1> HIDE DEF heard
<1>5. FormBody(pairs, plain) = FlattenSeq(s)  BY DEF FormBody, Field
<1>6. DOMAIN s = 1..n /\ Len(s) = n  BY <1>1, <1>2
<1>7. s[1] = Of(1) /\ \A k \in 2..n : s[k] = <<"&">> \o Of(k)
  <2>1. 1 \in 1..n /\ \A k \in 2..n : k \in 1..n /\ k # 1  BY <1>2
  <2> HIDE DEF Of
  <2> QED  BY <1>1, <2>1
<1> HIDE DEF s
<1>8. PICK f : /\ f[1] = s[1] /\ FlattenSeq(s) = f[n]
               /\ \A k \in 2..n : f[k] = f[k - 1] \o s[k]
  BY <1>2, <1>6, FlattenSteps
<1>9. LeftPlain(plain)  BY DEF LeftPlain
<1> DEFINE Now(k) == Reading(heard[k][1], heard[k][2], Yes, LastOfFirst(heard, k - 1))
           S == {k \in 1..n : f[k] \in Seq(T) /\ Reads(FormStarted, f[k], Now(k))}
<1>10. FormStarted = Reading(<<>>, <<>>, No, {})
  BY DEF FormStarted, Reading, State, No
<1>11. 1 \in S
  <2>1. 1 \in 1..n  BY <1>2
  <2>2. LastOfFirst(heard, 1 - 1) = {}
    <3>1. 1..(1 - 1) = {}  OBVIOUS
    <3> QED  BY <3>1 DEF LastOfFirst
  <2>3. /\ Of(1) \in Seq(T)
        /\ Reads(Reading(<<>>, <<>>, No, {}), Of(1), Reading(heard[1][1], heard[1][2], Yes, {}))
    <3>1. pairs[1][1] \in Seq(T) /\ pairs[1][2] \in Seq(T)  BY <1>4, <2>1
    <3>2. heard[1][1] = HeardText(pairs[1][1], plain) /\ heard[1][2] = HeardText(pairs[1][2], plain)
      BY <1>21, <2>1
    <3> QED  BY <1>9, <3>1, <3>2, FieldRead
  <2> HIDE DEF Of
  <2>4. f[1] = Of(1)  BY <1>7, <1>8
  <2> QED  BY <1>10, <2>1, <2>2, <2>3, <2>4
<1>12. ASSUME NEW k \in 1..n - 1, k \in S PROVE k + 1 \in S
  <2>1. /\ k \in 1..n /\ k + 1 \in 1..n /\ k + 1 \in 2..n /\ (k + 1) - 1 = k
        /\ k - 1 \in Nat /\ (k - 1) + 1 = k
    BY <1>2
  <2>2. heard[k] = <<heard[k][1], heard[k][2]>>  BY <1>21, <2>1
  <2>3. LastOfFirst(heard, (k - 1) + 1)
          = AddPostData(LastOfFirst(heard, k - 1), heard[k][1], heard[k][2])
    <3>1. PICK m \in Nat : m = k - 1 /\ m + 1 = k  BY <2>1
    <3>2. heard[m + 1] = <<heard[k][1], heard[k][2]>>  BY <2>2, <3>1
    <3> HIDE DEF heard, S
    <3>3. LastOfFirst(heard, m + 1) = AddPostData(LastOfFirst(heard, m), heard[k][1], heard[k][2])
      BY <3>2, LastGrows
    <3> QED  BY <2>1, <3>1, <3>3
  <2> DEFINE b == <<"&">> \o Of(k + 1)
             q == Reading(heard[k + 1][1], heard[k + 1][2], Yes,
                          AddPostData(LastOfFirst(heard, k - 1), heard[k][1], heard[k][2]))
  <2>4. b \in Seq(T) /\ Reads(Now(k), b, q)
    <3>1. pairs[k + 1][1] \in Seq(T) /\ pairs[k + 1][2] \in Seq(T)  BY <1>4, <2>1
    <3>2. /\ heard[k + 1][1] = HeardText(pairs[k + 1][1], plain)
          /\ heard[k + 1][2] = HeardText(pairs[k + 1][2], plain)
      BY <1>21, <2>1
    <3> QED  BY <1>9, <3>1, <3>2, NextFieldRead
  <2>5. q = Now(k + 1)  BY <2>1, <2>3
  <2>6. f[k] \in Seq(T) /\ Reads(FormStarted, f[k], Now(k))  BY <1>12
  <2>7. f[k + 1] = f[k] \o b
    <3> HIDE DEF Of
    <3> QED  BY <1>7, <1>8, <2>1
  <2> HIDE DEF b, q, Now
  <2>8. f[k] \o b \in Seq(T)  BY <2>4, <2>6, Joined
  <2>9. Reads(FormStarted, f[k] \o b, q)  BY <2>4, <2>6, ReadsBoth
  <2> QED  BY <2>1, <2>5, <2>7, <2>8, <2>9
<1> HIDE DEF S
<1>13. \A k \in 1..n : k \in S  BY <1>2, <1>11, <1>12, Counting
<1>14. f[n] \in Seq(T) /\ Reads(FormStarted, f[n], Now(n))
  <2>1. n \in S  BY <1>2, <1>13
  <2> QED  BY <2>1 DEF S
<1>15. Form(f[n]) = EndField(Now(n))
  <2> HIDE DEF Now
  <2> QED  BY <1>14, ReadsForm
<1>16. EndField(Now(n)) = Reading(<<>>, <<>>, No,
         AddPostData(LastOfFirst(heard, n - 1), heard[n][1], heard[n][2]))
  BY MarkTurns
<1>17. AddPostData(LastOfFirst(heard, n - 1), heard[n][1], heard[n][2]) = LastOfFirst(heard, n)
  <2>1. PICK m : m = n - 1  OBVIOUS
  <2>2. m \in Nat /\ m + 1 = n /\ n \in 1..n  BY <1>2, <2>1
  <2>3. heard[m + 1] = <<heard[n][1], heard[n][2]>>  BY <1>21, <2>2
  <2>4. LastOfFirst(heard, m + 1)
          = AddPostData(LastOfFirst(heard, m), heard[n][1], heard[n][2])
    <3>1. PICK a, b : a = heard[n][1] /\ b = heard[n][2]  OBVIOUS
    <3>2. heard[m + 1] = <<a, b>>  BY <2>3, <3>1
    <3>3. LastOfFirst(heard, m + 1) = AddPostData(LastOfFirst(heard, m), a, b)
      BY <2>2, <3>2, LastGrows
    <3> QED  BY <3>1, <3>3
  <2> QED  BY <2>1, <2>2, <2>4
<1>18. LastOfFirst(heard, n) = LastOfEach(heard)
  BY <1>21 DEF LastOfFirst, LastOfEach
<1>19. \A fl : Reading(<<>>, <<>>, No, fl).fields = fl /\ Reading(<<>>, <<>>, No, fl).thrown = No
  BY DEF Reading, State
<1>20. Form(FormBody(pairs, plain)) = Reading(<<>>, <<>>, No, LastOfEach(heard))
  BY <1>5, <1>8, <1>15, <1>16, <1>17, <1>18
<1> QED  BY <1>19, <1>20 DEF No, heard
=============================================================================
