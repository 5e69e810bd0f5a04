----------------------------- MODULE ConfigProofs -----------------------------
(***************************************************************************)
(* Theorems about Config: on a well-formed file the program starts exactly *)
(* if it should, as far as it follows the documents, and its servers are   *)
(* those that the file means (StartsRight, ServersRight); and types, on    *)
(* any file (StartupTypes).                                                *)
(*                                                                         *)
(* The readers of a file count brackets, each in its own way.  What they   *)
(* count is the depth of a line (Shape); so they agree on where a block    *)
(* ends, and which lines are its own.                                      *)
(***************************************************************************)
EXTENDS Config, BodyProofs

(***************************************************************************)
(* Sets of numbers                                                         *)
(***************************************************************************)

(* The least element of a set of numbers.                                  *)
LEMMA MinIs ==
  ASSUME NEW S \in SUBSET Int, NEW m \in S, \A k \in S : m <= k
  PROVE  Min(S) = m
<1>1. \A x \in S : (\A y \in S : x <= y) => x = m  OBVIOUS
<1> QED  BY <1>1 DEF Min

(* The greatest one.                                                       *)
LEMMA MaxIs ==
  ASSUME NEW S \in SUBSET Int, NEW m \in S, \A k \in S : k <= m
  PROVE  Max(S) = m
<1>1. \A x \in S : (\A y \in S : x >= y) => x = m  OBVIOUS
<1> QED  BY <1>1 DEF Max

(* There is a greatest one of what is bounded.                             *)
LEMMA GreatestExists ==
  ASSUME NEW n \in Nat, NEW S \in SUBSET (0..n), S # {}
  PROVE  \E m \in S : \A k \in S : k <= m
<1> DEFINE R == {n - k : k \in S}
<1>1. R \in SUBSET Nat /\ R # {}
  <2>1. \A k \in S : k \in 0..n /\ n - k \in Nat  OBVIOUS
  <2> QED  BY <2>1
<1> HIDE DEF R
<1>2. PICK r \in R : \A q \in R : r <= q  BY <1>1, LeastExists
<1>3. PICK m \in S : r = n - m  BY DEF R
<1>4. \A k \in S : n - k \in R  BY DEF R
<1>5. \A k \in S : k <= m
  <2> TAKE k \in S
  <2>1. r <= n - k /\ k \in Int /\ m \in Int  BY <1>2, <1>4
  <2> QED  BY <1>3, <2>1
<1> QED  BY <1>5

(* How many numbers of a set are in an interval, and in one more.          *)
LEMMA CountStep ==
  ASSUME NEW S, NEW a \in Int, NEW b \in Int, a <= b + 1
  PROVE  /\ Cardinality(S \cap (a..b)) \in Nat
         /\ Cardinality(S \cap (a..b + 1)) =
              Cardinality(S \cap (a..b)) + (IF b + 1 \in S THEN 1 ELSE 0)
<1> DEFINE T == S \cap (a..b)
<1>1. IsFiniteSet(T)  BY FS_Interval, FS_Subset
<1>2. Cardinality(T) \in Nat  BY <1>1, FS_CardinalityType
<1>3. CASE b + 1 \in S
  <2>1. S \cap (a..b + 1) = T \cup {b + 1} /\ b + 1 \notin T  BY <1>3
  <2> HIDE DEF T
  <2>2. Cardinality(T \cup {b + 1}) = Cardinality(T) + 1  BY <1>1, <2>1, FS_AddElement
  <2> QED  BY <1>2, <1>3, <2>1, <2>2 DEF T
<1>4. CASE b + 1 \notin S
  <2>1. S \cap (a..b + 1) = T  BY <1>4
  <2> QED  BY <1>2, <1>4, <2>1
<1> QED  BY <1>3, <1>4

(* A list in order holds what the set holds.                               *)
LEMMA Ordered ==
  ASSUME NEW n \in Nat, NEW S \in SUBSET (1..n)
  PROVE  /\ InOrder(S) \in Seq(S) /\ ToSet(InOrder(S)) = S
         /\ \A i, j \in DOMAIN InOrder(S) : i < j => InOrder(S)[i] < InOrder(S)[j]
<1> DEFINE Below(k) == {j \in S : j < k}
           c == Cardinality(S)
           rank == [k \in S |-> Cardinality(Below(k)) + 1]
<1>0. \A k \in S : k \in 1..n /\ k \in Int  OBVIOUS
<1>1. IsFiniteSet(S) /\ c \in Nat
  <2>1. IsFiniteSet(1..n)  BY FS_Interval
  <2>2. IsFiniteSet(S)  BY <2>1, FS_Subset
  <2> QED  BY <2>2, FS_CardinalityType
<1>2. \A k \in S : /\ IsFiniteSet(Below(k)) /\ Cardinality(Below(k)) \in 0..c - 1
                   /\ IsFiniteSet(Below(k) \cup {k})
                   /\ Cardinality(Below(k) \cup {k}) = Cardinality(Below(k)) + 1
  <2> TAKE k \in S
  <2>1. IsFiniteSet(Below(k))  BY <1>1, FS_Subset
  <2>2. k \notin Below(k) /\ Below(k) \cup {k} \in SUBSET S  OBVIOUS
  <2> HIDE DEF Below
  <2>3. Cardinality(Below(k)) \in Nat  BY <2>1, FS_CardinalityType
  <2>4. Cardinality(Below(k) \cup {k}) = Cardinality(Below(k)) + 1 /\ IsFiniteSet(Below(k) \cup {k})
    BY <2>1, <2>2, FS_AddElement
  <2>5. Cardinality(Below(k) \cup {k}) <= Cardinality(S)  BY <1>1, <2>2, FS_Subset
  <2> QED  BY <1>1, <2>1, <2>3, <2>4, <2>5
<1>3. \A k, j \in S : j < k => rank[j] < rank[k]
  <2> TAKE k, j \in S
  <2> HAVE j < k
  <2>1. Below(j) \cup {j} \in SUBSET Below(k)
    <3>1. \A i \in S : i < j => i < k  BY <1>0
    <3> QED  BY <3>1
  <2>2. rank[j] = Cardinality(Below(j)) + 1 /\ rank[k] = Cardinality(Below(k)) + 1  OBVIOUS
  <2> HIDE DEF Below, rank
  <2>3. Cardinality(Below(j) \cup {j}) <= Cardinality(Below(k))
    <3>1. IsFiniteSet(Below(k))  BY <1>2
    <3> QED  BY <2>1, <3>1, FS_Subset
  <2>4. /\ Cardinality(Below(j)) \in Int /\ Cardinality(Below(k)) \in Int
        /\ Cardinality(Below(j) \cup {j}) = Cardinality(Below(j)) + 1
    <3>1. Cardinality(Below(j)) \in 0..c - 1 /\ Cardinality(Below(k)) \in 0..c - 1  BY <1>2
    <3>2. Cardinality(Below(j) \cup {j}) = Cardinality(Below(j)) + 1  BY <1>2
    <3> HIDE DEF Below, c
    <3> QED  BY <1>1, <3>1, <3>2
  <2> QED  BY <2>2, <2>3, <2>4
<1>4. \A k, j \in S : rank[j] = rank[k] => j = k
  <2> TAKE k, j \in S
  <2>1. rank[j] \in Int /\ rank[k] \in Int
    <3>1. Cardinality(Below(j)) \in 0..c - 1 /\ Cardinality(Below(k)) \in 0..c - 1  BY <1>2
    <3> HIDE DEF Below
    <3> QED  BY <1>1, <3>1
  <2>2. j < k \/ k < j \/ j = k  BY <1>0
  <2> HIDE DEF rank
  <2> QED  BY <1>3, <2>1, <2>2
<1>5. rank \in [S -> 1..c]
  <2>1. \A k \in S : Cardinality(Below(k)) \in 0..c - 1  BY <1>2
  <2> HIDE DEF Below, c
  <2>2. \A k \in S : Cardinality(Below(k)) + 1 \in 1..c  BY <1>1, <2>1
  <2> QED  BY <2>2
<1>6. \A i \in 1..c : \E k \in S : rank[k] = i
  <2>1. rank \in Injection(S, 1..c)
    <3> HIDE DEF rank
    <3> QED  BY <1>4, <1>5 DEF Injection, IsInjective
  <2>2. IsFiniteSet(1..c) /\ Cardinality(1..c) = c  BY <1>1, FS_Interval
  <2> HIDE DEF rank
  <2>3. rank \in Surjection(S, 1..c)  BY <2>1, <2>2, FS_Injection
  <2> QED  BY <2>3 DEF Surjection
<1> DEFINE s == InOrder(S)
<1>7. /\ s = [i \in 1..c |-> CHOOSE k \in S : Cardinality(Below(k)) = i - 1]
  BY DEF InOrder
<1>8. \A i \in 1..c : s[i] \in S /\ rank[s[i]] = i
  <2> TAKE i \in 1..c
  <2>1. PICK k \in S : rank[k] = i  BY <1>6
  <2>2. Cardinality(Below(k)) = i - 1
    <3>1. rank[k] = Cardinality(Below(k)) + 1 /\ Cardinality(Below(k)) \in 0..c - 1  BY <1>2
    <3> HIDE DEF Below, rank
    <3> QED  BY <1>1, <2>1, <3>1
  <2>3. s[i] = CHOOSE q \in S : Cardinality(Below(q)) = i - 1  BY <1>7
  <2> HIDE DEF Below, s
  <2>4. s[i] \in S /\ Cardinality(Below(s[i])) = i - 1  BY <2>2, <2>3
  <2> QED  BY <1>1, <2>4
<1>9. DOMAIN s = 1..c  BY <1>7
<1>10. s \in [1..c -> S]
  <2>1. s = [i \in 1..c |-> s[i]]  BY <1>7
  <2> HIDE DEF s
  <2> QED  BY <1>8, <2>1
<1> HIDE DEF s, rank, Below
<1>11. s \in Seq(S)  BY <1>1, <1>10
<1>12. ToSet(s) = S
  <2>1. \A k \in S : \E i \in 1..c : s[i] = k
    <3> TAKE k \in S
    <3>1. rank[k] \in 1..c  BY <1>5
    <3>2. rank[s[rank[k]]] = rank[k] /\ s[rank[k]] \in S  BY <1>8, <3>1
    <3>3. s[rank[k]] = k  BY <1>4, <3>2
    <3> QED  BY <3>1, <3>3
  <2>2. ToSet(s) = {s[i] : i \in 1..c}  BY <1>9 DEF ToSet
  <2> QED  BY <1>8, <2>1, <2>2
<1>13. ASSUME NEW i \in 1..c, NEW j \in 1..c, i < j PROVE s[i] < s[j]
  <2>1. s[i] \in S /\ s[j] \in S /\ rank[s[i]] = i /\ rank[s[j]] = j  BY <1>8
  <2>2. s[i] < s[j] \/ s[j] < s[i] \/ s[i] = s[j]
    <3>1. s[i] \in Int /\ s[j] \in Int  BY <1>0, <2>1
    <3> QED  BY <3>1
  <2>3. s[j] < s[i] => j < i  BY <1>3, <2>1
  <2> QED  BY <1>1, <1>13, <2>1, <2>2, <2>3
<1> QED  BY <1>9, <1>11, <1>12, <1>13 DEF s

(***************************************************************************)
(* Brackets                                                                *)
(***************************************************************************)

(* A file: lines of words, none of them empty.                             *)
TextFiles == Seq(Seq(STRING) \ {<<>>})

(* Where a word is in a line, and in the first k lines.                    *)
In(line, word) == {m \in DOMAIN line : line[m] = word}
Places(f, word, k) == UNION {{<<h, m>> : m \in In(f[h], word)} : h \in 1..k}

(* One line more.                                                          *)
LEMMA PlacesGrow ==
  ASSUME NEW f \in TextFiles, NEW word
  PROVE  /\ Occurrences(SubSeq(f, 1, 0), word) = 0
         /\ \A k \in 0..Len(f) : /\ Occurrences(SubSeq(f, 1, k), word) = Cardinality(Places(f, word, k))
                                 /\ Cardinality(Places(f, word, k)) \in Nat
         /\ \A k \in 1..Len(f) :
              /\ In(f[k], word) = {} => Places(f, word, k) = Places(f, word, k - 1)
              /\ \A m : In(f[k], word) = {m} =>
                   Cardinality(Places(f, word, k)) = Cardinality(Places(f, word, k - 1)) + 1
<1> DEFINE n == Len(f)
           New(k) == {<<k, m>> : m \in In(f[k], word)}
<1>1. n \in Nat /\ \A k \in 1..n : f[k] \in Seq(STRING)  BY DEF TextFiles
<1>2. ASSUME NEW k \in 0..n
      PROVE  Occurrences(SubSeq(f, 1, k), word) = Cardinality(Places(f, word, k))
  <2> DEFINE g == SubSeq(f, 1, k)
  <2>1. DOMAIN g = 1..k /\ \A h \in 1..k : g[h] = f[h]
    <3>1. f \in Seq(Seq(STRING) \ {<<>>})  BY DEF TextFiles
    <3> QED  BY <1>1, <3>1
  <2> HIDE DEF g
  <2>2. \A h \in DOMAIN g :
          {<<h, m>> : m \in {i \in DOMAIN g[h] : g[h][i] = word}} = {<<h, m>> : m \in In(f[h], word)}
    BY <2>1 DEF In
  <2>3. UNION {{<<h, m>> : m \in {i \in DOMAIN g[h] : g[h][i] = word}} : h \in DOMAIN g}
          = Places(f, word, k)
    BY <2>1, <2>2 DEF Places
  <2> QED  BY <2>3 DEF Occurrences, g
<1>3. ASSUME NEW k \in 1..n
      PROVE  Places(f, word, k) = Places(f, word, k - 1) \cup New(k)
  <2>1. 1..k = (1..k - 1) \cup {k}  OBVIOUS
  <2> QED  BY <2>1 DEF Places
<1>4. ASSUME NEW k \in 1..n PROVE IsFiniteSet(New(k))
  <2>1. IsFiniteSet({k}) /\ IsFiniteSet(1..Len(f[k])) /\ DOMAIN f[k] = 1..Len(f[k])
    <3>1. f[k] \in Seq(STRING)  BY <1>1
    <3>2. Len(f[k]) \in Nat /\ DOMAIN f[k] = 1..Len(f[k])  BY <3>1
    <3>3. IsFiniteSet(1..Len(f[k]))  BY <3>2, FS_Interval
    <3> QED  BY <3>2, <3>3, FS_Singleton
  <2>2. IsFiniteSet({k} \X DOMAIN f[k])  BY <2>1, FS_Product
  <2>3. New(k) \in SUBSET ({k} \X DOMAIN f[k])  BY DEF In
  <2> QED  BY <2>2, <2>3, FS_Subset
<1>5. Places(f, word, 0) = {}
  <2>1. 1..0 = {}  OBVIOUS
  <2> QED  BY <2>1 DEF Places
<1>6. \A k \in 0..n : IsFiniteSet(Places(f, word, k))
  <2> DEFINE S == {k \in 0..n : IsFiniteSet(Places(f, word, k))}
  <2>1. 0 \in S
    <3>1. 0 \in 0..n  BY <1>1
    <3>2. IsFiniteSet(Places(f, word, 0))  BY <1>5, FS_EmptySet
    <3> QED  BY <3>1, <3>2
  <2>2. ASSUME NEW k \in 0..n - 1, k \in S PROVE k + 1 \in S
    <3>1. k + 1 \in 1..n /\ k + 1 \in 0..n /\ (k + 1) - 1 = k  BY <1>1
    <3> HIDE DEF New
    <3>2. IsFiniteSet(Places(f, word, k) \cup New(k + 1))  BY <1>4, <2>2, <3>1, FS_Union
    <3>3. Places(f, word, k + 1) = Places(f, word, k) \cup New(k + 1)  BY <1>3, <3>1
    <3> QED  BY <3>1, <3>2, <3>3
  <2> HIDE DEF S
  <2>3. \A k \in 0..n : k \in S  BY <1>1, <2>1, <2>2, Counting
  <2> QED  BY <2>3 DEF S
<1>7. \A k \in 0..n : Cardinality(Places(f, word, k)) \in Nat  BY <1>6, FS_CardinalityType
<1>8. ASSUME NEW k \in 1..n
      PROVE  /\ In(f[k], word) = {} => Places(f, word, k) = Places(f, word, k - 1)
             /\ \A m : In(f[k], word) = {m} =>
                  Cardinality(Places(f, word, k)) = Cardinality(Places(f, word, k - 1)) + 1
  <2>1. ASSUME In(f[k], word) = {} PROVE Places(f, word, k) = Places(f, word, k - 1)
    <3>1. New(k) = {}  BY <2>1
    <3> HIDE DEF New
    <3> QED  BY <1>3, <3>1
  <2>2. ASSUME NEW m, In(f[k], word) = {m}
        PROVE  Cardinality(Places(f, word, k)) = Cardinality(Places(f, word, k - 1)) + 1
    <3>1. New(k) = {<<k, m>>}  BY <2>2
    <3>2. <<k, m>> \notin Places(f, word, k - 1)
      <4>1. \A h \in 1..k - 1 : h # k  OBVIOUS
      <4> QED  BY <4>1 DEF Places
    <3>3. k - 1 \in 0..n  BY <1>1
    <3>4. IsFiniteSet(Places(f, word, k - 1))  BY <1>6, <3>3
    <3>5. Places(f, word, k) = Places(f, word, k - 1) \cup {<<k, m>>}  BY <1>3, <3>1
    <3> QED  BY <3>2, <3>4, <3>5, FS_AddElement
  <2> QED  BY <2>1, <2>2
<1>9. 0 \in 0..n /\ Cardinality(Places(f, word, 0)) = 0
  <2>1. 0 \in 0..n  BY <1>1
  <2> QED  BY <1>5, <2>1, FS_EmptySet
<1> QED  BY <1>2, <1>7, <1>8, <1>9

(* The kinds of lines in a well-formed file.                               *)
Begins(line) == line = Opening
Locates(line) == Has(line, "location")
Closes(line) == line = Closing
Plain(line) == ~Begins(line) /\ ~Locates(line) /\ ~Closes(line)

(* The words that matter differ.                                           *)
LEMMA Apart ==
  /\ Open # Close /\ Close # "location" /\ Close # "server" /\ Close # "listen"
  /\ Open # "location" /\ Open # "server" /\ "server" # "location"
  BY Zenon DEF Open, Close

(* A line is of one kind.                                                  *)
LEMMA Kinds ==
  \A line : /\ Begins(line) => /\ ~Locates(line) /\ ~Closes(line) /\ Len(line) = 2
                              /\ line[1] = "server" /\ line[2] = Open /\ DOMAIN line = {1, 2}
            /\ Closes(line) => /\ ~Locates(line) /\ Len(line) = 1
                              /\ line[1] = Close /\ DOMAIN line = {1}
<1>1. /\ Len(Opening) = 2 /\ DOMAIN Opening = {1, 2}
      /\ Opening[1] = "server" /\ Opening[2] = Open
  BY DEF Opening
<1>2. Len(Closing) = 1 /\ Closing[1] = Close /\ DOMAIN Closing = {1}  BY DEF Closing
<1> QED  BY <1>1, <1>2, Apart DEF Begins, Locates, Closes, Has

(* How deep each line of f leaves us: a server opens at depth 0, a         *)
(* location at depth 1, and every line is within a server.                 *)
Shape(f, n, d) ==
  /\ n \in Nat \ {0} /\ Len(f) = n /\ DOMAIN f = 1..n
  /\ d \in [0..n -> 0..2] /\ d[0] = 0 /\ d[n] = 0
  /\ \A k \in 0..n : Braces(f, k) = d[k]
  /\ \A k \in 1..n :
       \/ Begins(f[k]) /\ d[k - 1] = 0 /\ d[k] = 1
       \/ Locates(f[k]) /\ d[k - 1] = 1 /\ d[k] = 2
       \/ Closes(f[k]) /\ d[k - 1] # 0 /\ d[k] = d[k - 1] - 1
       \/ Plain(f[k]) /\ d[k - 1] # 0 /\ d[k] = d[k - 1]

(* Well-formed lines hold as many brackets as their kind says.             *)
LEMMA Brackets ==
  ASSUME NEW line \in Seq(STRING),
         Open \in ToSet(line) <=> Begins(line) \/ (Locates(line) /\ Len(line) = 3),
         Close \in ToSet(line) <=> Closes(line),
         Locates(line) => Len(line) = 3 /\ line[2] # Open /\ line[3] = Open
  PROVE  /\ Begins(line) \/ Locates(line) => (\E m : In(line, Open) = {m}) /\ In(line, Close) = {}
         /\ Closes(line) => (\E m : In(line, Close) = {m}) /\ In(line, Open) = {}
         /\ Plain(line) => In(line, Open) = {} /\ In(line, Close) = {}
<1>1. \A w : w \notin ToSet(line) => In(line, w) = {}  BY DEF In, ToSet
<1>2. CASE Begins(line)
  <2>1. DOMAIN line = {1, 2} /\ line[1] = "server" /\ line[2] = Open
    BY <1>2, Kinds
  <2>2. In(line, Open) = {2}  BY <2>1, Apart DEF In
  <2>3. Close \notin ToSet(line)  BY <1>2, Kinds
  <2> QED  BY <1>1, <1>2, <2>2, <2>3, Kinds DEF Plain
<1>3. CASE Locates(line)
  <2>1. Len(line) = 3 /\ line[1] = "location" /\ line[2] # Open /\ line[3] = Open
    BY <1>3 DEF Locates, Has
  <2>2. DOMAIN line = {1, 2, 3}
    <3>1. DOMAIN line = 1..Len(line)  OBVIOUS
    <3>2. 1..3 = {1, 2, 3}  OBVIOUS
    <3> QED  BY <2>1, <3>1, <3>2
  <2>3. In(line, Open) = {3}  BY <2>1, <2>2, Apart DEF In
  <2>4. ~Closes(line) /\ Close \notin ToSet(line)  BY <1>3, Kinds
  <2> QED  BY <1>1, <1>3, <2>3, <2>4, Kinds DEF Plain
<1>4. CASE Closes(line)
  <2>1. DOMAIN line = {1} /\ line[1] = Close  BY <1>4, Kinds
  <2>2. In(line, Close) = {1}  BY <2>1 DEF In
  <2>3. Open \notin ToSet(line)  BY <1>4, Kinds
  <2> QED  BY <1>1, <1>4, <2>2, <2>3, Kinds DEF Plain
<1>5. CASE Plain(line)
  <2>1. Open \notin ToSet(line) /\ Close \notin ToSet(line)  BY <1>5 DEF Plain
  <2> QED  BY <1>1, <1>5, <2>1 DEF Plain
<1> QED  BY <1>2, <1>3, <1>4, <1>5 DEF Plain

(* A well-formed file has a shape.                                         *)
LEMMA ShapeOf ==
  ASSUME NEW f \in TextFiles, WellFormed(f)
  PROVE  \E d : Shape(f, Len(f), d)
<1> DEFINE n == Len(f)
           d == [k \in 0..n |-> Braces(f, k)]
           Left(k) == Cardinality(Places(f, Open, k))
           Right(k) == Cardinality(Places(f, Close, k))
<1>1. n \in Nat \ {0} /\ DOMAIN f = 1..n /\ \A k \in 1..n : f[k] \in Seq(STRING)
  BY DEF TextFiles, WellFormed
<1>2. \A k \in 0..n : Left(k) \in Nat /\ Right(k) \in Nat /\ d[k] = Left(k) - Right(k)
  BY PlacesGrow DEF Braces
<1>3. \A k \in 1..n :
        /\ Begins(f[k]) \/ Locates(f[k]) => Left(k) = Left(k - 1) + 1 /\ Right(k) = Right(k - 1)
        /\ Closes(f[k]) => Left(k) = Left(k - 1) /\ Right(k) = Right(k - 1) + 1
        /\ Plain(f[k]) => Left(k) = Left(k - 1) /\ Right(k) = Right(k - 1)
  <2> TAKE k \in 1..n
  <2> DEFINE line == f[k]
  <2>1. /\ line \in Seq(STRING)
        /\ Open \in ToSet(line) <=> Begins(line) \/ (Locates(line) /\ Len(line) = 3)
        /\ Close \in ToSet(line) <=> Closes(line)
        /\ Locates(line) => Len(line) = 3 /\ line[2] # Open /\ line[3] = Open
    BY <1>1 DEF WellFormed, Begins, Locates, Closes
  <2> HIDE DEF line
  <2>2. /\ Begins(line) \/ Locates(line) => (\E m : In(line, Open) = {m}) /\ In(line, Close) = {}
        /\ Closes(line) => (\E m : In(line, Close) = {m}) /\ In(line, Open) = {}
        /\ Plain(line) => In(line, Open) = {} /\ In(line, Close) = {}
    BY <2>1, Brackets
  <2>3. \A w : /\ In(line, w) = {} => Places(f, w, k) = Places(f, w, k - 1)
               /\ \A m : In(line, w) = {m} =>
                    Cardinality(Places(f, w, k)) = Cardinality(Places(f, w, k - 1)) + 1
    BY PlacesGrow DEF line
  <2> QED  BY <2>2, <2>3 DEF line
<1>4. d[0] = 0
  <2>1. 0 \in 0..n  BY <1>1
  <2>2. Braces(f, 0) = 0  BY PlacesGrow DEF Braces
  <2> QED  BY <2>1, <2>2
<1>5. \A k \in 1..n :
        /\ d[k] >= 0 /\ (f[k] = Opening <=> d[k - 1] = 0)
        /\ Locates(f[k]) => d[k - 1] = 1
  <2> TAKE k \in 1..n
  <2>1. k \in 0..n /\ k - 1 \in 0..n /\ k \in DOMAIN f  BY <1>1
  <2>2. d[k] = Braces(f, k) /\ d[k - 1] = Braces(f, k - 1)  BY <2>1
  <2> HIDE DEF d
  <2> QED  BY <2>1, <2>2 DEF WellFormed, Locates
<1>6. d[n] = 0
  <2>1. n \in 0..n  BY <1>1
  <2>2. d[n] = Braces(f, n)  BY <2>1
  <2> HIDE DEF d
  <2> QED  BY <2>2 DEF WellFormed
<1>7. \A k \in 0..n : Braces(f, k) = d[k]  OBVIOUS
<1>8. DOMAIN d = 0..n /\ d = [k \in 0..n |-> d[k]]  OBVIOUS
<1> HIDE DEF d, Left, Right, n
<1>9. \A k \in 1..n :
        \/ Begins(f[k]) /\ d[k - 1] = 0 /\ d[k] = 1
        \/ Locates(f[k]) /\ d[k - 1] = 1 /\ d[k] = 2
        \/ Closes(f[k]) /\ d[k - 1] # 0 /\ d[k] = d[k - 1] - 1
        \/ Plain(f[k]) /\ d[k - 1] # 0 /\ d[k] = d[k - 1]
  <2> TAKE k \in 1..n
  <2>1. k \in 0..n /\ k - 1 \in 0..n  BY <1>1
  <2>2. /\ Left(k) \in Nat /\ Right(k) \in Nat /\ Left(k - 1) \in Nat /\ Right(k - 1) \in Nat
        /\ d[k] = Left(k) - Right(k) /\ d[k - 1] = Left(k - 1) - Right(k - 1)
    BY <1>2, <2>1
  <2>3. Begins(f[k]) <=> d[k - 1] = 0  BY <1>5 DEF Begins
  <2>4. CASE Begins(f[k])  BY <1>3, <2>2, <2>3, <2>4
  <2>5. CASE Locates(f[k])
    <3>1. d[k - 1] = 1  BY <1>5, <2>5
    <3> QED  BY <1>3, <2>2, <2>5, <3>1
  <2>6. CASE Closes(f[k])
    <3>1. ~Begins(f[k])  BY <2>6, Kinds
    <3> QED  BY <1>3, <2>2, <2>3, <2>6, <3>1
  <2>7. CASE Plain(f[k])
    <3>1. ~Begins(f[k])  BY <2>7 DEF Plain
    <3> QED  BY <1>3, <2>2, <2>3, <2>7, <3>1
  <2> QED  BY <2>4, <2>5, <2>6, <2>7 DEF Plain
<1>10. \A k \in 0..n : d[k] \in 0..2
  <2> DEFINE S == {k \in 0..n : d[k] \in 0..2}
  <2>1. 0 \in S  BY <1>1, <1>4
  <2>2. ASSUME NEW k \in 0..n - 1, k \in S PROVE k + 1 \in S
    <3>1. k + 1 \in 1..n /\ k + 1 \in 0..n /\ (k + 1) - 1 = k  BY <1>1
    <3>2. d[k] \in 0..2  BY <2>2
    <3>3. d[k + 1] \in {1, 2, d[k] - 1, d[k]} /\ (d[k + 1] = d[k] - 1 => d[k] # 0)
      BY <1>9, <3>1, <3>2
    <3>4. d[k + 1] \in 0..2  BY <3>2, <3>3
    <3> QED  BY <3>1, <3>4
  <2> HIDE DEF S
  <2>3. \A k \in 0..n : k \in S  BY <1>1, <2>1, <2>2, Counting
  <2> QED  BY <2>3 DEF S
<1>11. d \in [0..n -> 0..2]  BY <1>8, <1>10
<1>12. Len(f) = n  BY DEF n
<1>13. Shape(f, n, d)
  <2> HIDE DEF d, n
  <2> QED  BY <1>1, <1>4, <1>6, <1>7, <1>9, <1>11, <1>12 DEF Shape
<1> QED  BY <1>12, <1>13

(* Line e ends what line k begins.                                         *)
Ends(n, d, k, e) ==
  /\ e \in k + 1..n /\ d[e] = d[k] - 1
  /\ \A j \in k..e - 1 : d[j] >= d[k]

(* Everything that is begun is ended, by a closing line; the extent of it  *)
(* and its level are those that the file means.                            *)
LEMMA EndOf ==
  ASSUME NEW f, NEW n, NEW d, Shape(f, n, d), NEW k \in 1..n, d[k] # 0
  PROVE  \E e : /\ Ends(n, d, k, e) /\ Closes(f[e]) /\ d[e - 1] = d[k]
                /\ Extent(f, k) = k..e /\ Level(f, k) = {j \in k..e - 1 : d[j] = d[k]}
<1>1. n \in Nat /\ k \in Nat /\ k <= n /\ Len(f) = n /\ \A j \in 0..n : d[j] \in 0..2 /\ Braces(f, j) = d[j]
  BY DEF Shape
<1> DEFINE S == {j \in k..n : d[j] < d[k]}
<1>2. k \in 0..n /\ n \in 0..n /\ d[n] = 0  BY <1>1 DEF Shape
<1>3. n \in S
  <2>1. d[k] \in 0..2  BY <1>1, <1>2
  <2>2. d[n] < d[k] /\ n \in k..n  BY <1>1, <1>2, <2>1
  <2> QED  BY <2>2
<1>4. S \in SUBSET Nat  BY <1>1
<1>5. PICK e \in S : \A j \in S : e <= j
  <2> HIDE DEF S
  <2> QED  BY <1>3, <1>4, LeastExists
<1>6. e \in k..n /\ d[e] < d[k]  OBVIOUS
<1>7. e \in k + 1..n /\ e - 1 \in k..n /\ e \in 1..n /\ e - 1 \in 0..n /\ e \in 0..n
  <2>1. d[k] \in 0..2 /\ e # k  BY <1>1, <1>2, <1>6
  <2> QED  BY <1>1, <1>6, <2>1
<1>8. \A j \in k..e - 1 : d[j] >= d[k]
  <2> TAKE j \in k..e - 1
  <2>1. j \in k..n /\ ~(e <= j)  BY <1>1, <1>7
  <2>2. j \notin S  BY <1>5, <2>1
  <2>3. j \in 0..n  BY <1>1, <2>1
  <2>4. d[j] \in 0..2 /\ d[k] \in 0..2 /\ ~(d[j] < d[k])  BY <1>1, <1>2, <2>1, <2>2, <2>3
  <2> QED  BY <2>4
<1>9. d[e - 1] >= d[k] /\ d[e] < d[k]
  <2>1. e - 1 \in k..e - 1  BY <1>7
  <2> QED  BY <1>6, <1>8, <2>1
<1>10. d[e - 1] \in 0..2 /\ d[e] \in 0..2 /\ d[k] \in 0..2  BY <1>1, <1>2, <1>7
<1>11. Closes(f[e]) /\ d[e] = d[e - 1] - 1
  <2>1. \/ Begins(f[e]) /\ d[e - 1] = 0 /\ d[e] = 1
        \/ Locates(f[e]) /\ d[e - 1] = 1 /\ d[e] = 2
        \/ Closes(f[e]) /\ d[e - 1] # 0 /\ d[e] = d[e - 1] - 1
        \/ Plain(f[e]) /\ d[e - 1] # 0 /\ d[e] = d[e - 1]
    BY <1>7 DEF Shape
  <2> QED  BY <1>9, <1>10, <2>1
<1>12. d[e - 1] = d[k] /\ d[e] = d[k] - 1  BY <1>9, <1>10, <1>11
<1>13. Ends(n, d, k, e)  BY <1>7, <1>8, <1>12 DEF Ends
<1>14. Extent(f, k) = k..e
  <2> DEFINE E == {j \in k..Len(f) : Braces(f, j) = Braces(f, k) - 1}
  <2>1. E \in SUBSET Int  BY <1>1
  <2>2. e \in E  BY <1>1, <1>2, <1>6, <1>7, <1>12
  <2>3. \A j \in E : e <= j
    <3> TAKE j \in E
    <3>1. j \in k..n /\ j \in 0..n  BY <1>1
    <3>2. d[j] = d[k] - 1  BY <1>1, <1>2, <3>1
    <3>3. j \in S  BY <1>10, <3>1, <3>2
    <3> QED  BY <1>5, <3>3
  <2> HIDE DEF E
  <2>4. Min(E) = e  BY <2>1, <2>2, <2>3, MinIs
  <2> QED  BY <2>4 DEF Extent, E
<1>15. Level(f, k) = {j \in k..e - 1 : d[j] = d[k]}
  <2>1. \A j \in k..e : j \in 0..n /\ Braces(f, j) = d[j]  BY <1>1, <1>7
  <2>2. Braces(f, k) = d[k] /\ d[e] # d[k]  BY <1>1, <1>2, <1>10, <1>12
  <2>3. \A j : j \in k..e <=> j \in k..e - 1 \/ j = e  BY <1>1, <1>7
  <2>4. \A j : j \in Level(f, k) <=> j \in k..e /\ d[j] = d[k]
    BY <1>14, <2>1, <2>2 DEF Level
  <2> QED  BY <2>2, <2>3, <2>4
<1> QED  BY <1>11, <1>12, <1>13, <1>14, <1>15

(* A location: no bracket in it but its own.                               *)
LEMMA LocationBlock ==
  ASSUME NEW f, NEW n, NEW d, Shape(f, n, d), NEW k \in 1..n, Locates(f[k])
  PROVE  \E e : /\ Ends(n, d, k, e) /\ Closes(f[e])
                /\ Extent(f, k) = k..e /\ Level(f, k) = k..e - 1 /\ LocationLines(f, k) = k..e
                /\ \A j \in k + 1..e - 1 : Plain(f[j])
                /\ \A j \in k..e - 1 : d[j] = 2
<1>1. d[k] = 2
  <2>1. ~Begins(f[k]) /\ ~Closes(f[k]) /\ ~Plain(f[k])  BY Kinds DEF Plain
  <2> QED  BY <2>1 DEF Shape
<1>2. PICK e : /\ Ends(n, d, k, e) /\ Closes(f[e])
               /\ Extent(f, k) = k..e /\ Level(f, k) = {j \in k..e - 1 : d[j] = d[k]}
  BY <1>1, EndOf
<1>3. n \in Nat /\ k \in Nat /\ e \in k + 1..n /\ Len(f) = n /\ \A j \in 0..n : d[j] \in 0..2
  BY <1>2 DEF Shape, Ends
<1>4. \A j \in k..e - 1 : d[j] = 2
  <2> TAKE j \in k..e - 1
  <2>1. j \in 0..n  BY <1>3
  <2>2. d[j] >= 2  BY <1>1, <1>2 DEF Ends
  <2> QED  BY <1>3, <2>1, <2>2
<1>5. \A j \in k + 1..e - 1 : Plain(f[j])
  <2> TAKE j \in k + 1..e - 1
  <2>1. j \in 1..n /\ j \in k..e - 1 /\ j - 1 \in k..e - 1  BY <1>3
  <2>2. d[j] = 2 /\ d[j - 1] = 2  BY <1>4, <2>1
  <2>3. \/ Begins(f[j]) /\ d[j - 1] = 0 /\ d[j] = 1
        \/ Locates(f[j]) /\ d[j - 1] = 1 /\ d[j] = 2
        \/ Closes(f[j]) /\ d[j - 1] # 0 /\ d[j] = d[j - 1] - 1
        \/ Plain(f[j]) /\ d[j - 1] # 0 /\ d[j] = d[j - 1]
    BY <2>1 DEF Shape
  <2> QED  BY <2>2, <2>3
<1>6. Level(f, k) = k..e - 1  BY <1>1, <1>2, <1>4
<1>7. LocationLines(f, k) = k..e
  <2> DEFINE E == {j \in k..Len(f) : f[j] = Closing} \cup {Len(f)}
  <2>1. E \in SUBSET Int /\ e \in E  BY <1>2, <1>3 DEF Closes
  <2>2. \A j \in E : e <= j
    <3> TAKE j \in E
    <3> SUFFICES ASSUME j < e PROVE FALSE  BY <1>3
    <3>1. j \in k..n /\ Closes(f[j])  BY <1>3 DEF Closes
    <3>2. j = k \/ j \in k + 1..e - 1  BY <1>3, <3>1
    <3> QED  BY <1>5, <3>1, <3>2, Kinds DEF Plain
  <2> HIDE DEF E
  <2>3. Min(E) = e  BY <2>1, <2>2, MinIs
  <2> QED  BY <2>3 DEF LocationLines, FirstClosing, E
<1> QED  BY <1>2, <1>4, <1>5, <1>6, <1>7

(* A server's block: line k opens it, and line e closes it.                *)
ServerBlock(f, n, d, k, e) == Shape(f, n, d) /\ k \in 1..n /\ Begins(f[k]) /\ Ends(n, d, k, e)

(* The kinds and the depths of its lines.                                  *)
LEMMA InBlock ==
  ASSUME NEW f, NEW n, NEW d, NEW k, NEW e, ServerBlock(f, n, d, k, e)
  PROVE  /\ n \in Nat /\ Len(f) = n /\ DOMAIN f = 1..n /\ k \in 1..n /\ e \in k + 1..n
         /\ d[k] = 1 /\ d[e] = 0 /\ d[k - 1] = 0 /\ d[e - 1] = 1
         /\ \A j \in k..e - 1 : d[j] \in 1..2
         /\ \A j \in k + 1..e :
              \/ Locates(f[j]) /\ d[j - 1] = 1 /\ d[j] = 2 /\ ~Closes(f[j]) /\ ~Begins(f[j])
              \/ Closes(f[j]) /\ d[j - 1] # 0 /\ d[j] = d[j - 1] - 1 /\ ~Locates(f[j]) /\ ~Begins(f[j])
              \/ Plain(f[j]) /\ d[j - 1] # 0 /\ d[j] = d[j - 1] /\ ~Locates(f[j]) /\ ~Closes(f[j])
                 /\ ~Begins(f[j])
         /\ Closes(f[e]) /\ ~Locates(f[k]) /\ ~Closes(f[k])
<1>1. Shape(f, n, d) /\ k \in 1..n /\ Begins(f[k]) /\ Ends(n, d, k, e)  BY DEF ServerBlock
<1>2. n \in Nat /\ Len(f) = n /\ DOMAIN f = 1..n /\ e \in k + 1..n /\ \A j \in 0..n : d[j] \in 0..2
  BY <1>1 DEF Shape, Ends
<1>3. ~Locates(f[k]) /\ ~Closes(f[k]) /\ ~Plain(f[k])  BY <1>1, Kinds DEF Plain
<1>4. d[k] = 1 /\ d[k - 1] = 0  BY <1>1, <1>3 DEF Shape
<1>5. d[e] = 0  BY <1>1, <1>4 DEF Ends
<1>6. \A j \in k..e - 1 : d[j] \in 1..2
  <2> TAKE j \in k..e - 1
  <2>1. j \in 0..n  BY <1>1, <1>2
  <2>2. d[j] >= 1  BY <1>1, <1>4 DEF Ends
  <2> QED  BY <1>2, <2>1, <2>2
<1>7. ASSUME NEW j \in k + 1..e
      PROVE  \/ Locates(f[j]) /\ d[j - 1] = 1 /\ d[j] = 2 /\ ~Closes(f[j]) /\ ~Begins(f[j])
             \/ Closes(f[j]) /\ d[j - 1] # 0 /\ d[j] = d[j - 1] - 1 /\ ~Locates(f[j]) /\ ~Begins(f[j])
             \/ Plain(f[j]) /\ d[j - 1] # 0 /\ d[j] = d[j - 1] /\ ~Locates(f[j]) /\ ~Closes(f[j])
                /\ ~Begins(f[j])
  <2>1. j \in 1..n /\ j - 1 \in k..e - 1  BY <1>1, <1>2
  <2>2. d[j - 1] # 0  BY <1>6, <2>1
  <2>3. \/ Begins(f[j]) /\ d[j - 1] = 0 /\ d[j] = 1
        \/ Locates(f[j]) /\ d[j - 1] = 1 /\ d[j] = 2
        \/ Closes(f[j]) /\ d[j - 1] # 0 /\ d[j] = d[j - 1] - 1
        \/ Plain(f[j]) /\ d[j - 1] # 0 /\ d[j] = d[j - 1]
    BY <1>1, <2>1 DEF Shape
  <2>4. /\ Closes(f[j]) => ~Locates(f[j]) /\ ~Begins(f[j])
        /\ Locates(f[j]) => ~Closes(f[j]) /\ ~Begins(f[j])
    BY Kinds
  <2> QED  BY <2>2, <2>3, <2>4 DEF Plain
<1>8. Closes(f[e]) /\ d[e - 1] = 1
  <2>1. e \in k + 1..e /\ e - 1 \in k..e - 1  BY <1>1, <1>2
  <2>2. d[e - 1] \in 1..2  BY <1>6, <2>1
  <2> QED  BY <1>5, <1>7, <2>1, <2>2
<1> QED  BY <1>1, <1>2, <1>3, <1>4, <1>5, <1>6, <1>7, <1>8

(* setPort() and create_servers() find the end of the block.               *)
LEMMA FindsEnd ==
  ASSUME NEW f, NEW n, NEW d, NEW k, NEW e, ServerBlock(f, n, d, k, e)
  PROVE  BlockEnd(f, k) = e
<1>1. /\ n \in Nat /\ Len(f) = n /\ k \in 1..n /\ e \in k + 1..n
      /\ d[k] = 1 /\ d[e] = 0 /\ Closes(f[e]) /\ ~Locates(f[k]) /\ ~Closes(f[k])
      /\ \A j \in k..e - 1 : d[j] \in 1..2
      /\ \A j \in k + 1..e :
              \/ Locates(f[j]) /\ d[j - 1] = 1 /\ d[j] = 2 /\ ~Closes(f[j])
              \/ Closes(f[j]) /\ d[j - 1] # 0 /\ d[j] = d[j - 1] - 1 /\ ~Locates(f[j])
              \/ Plain(f[j]) /\ d[j - 1] # 0 /\ d[j] = d[j - 1] /\ ~Locates(f[j]) /\ ~Closes(f[j])
  BY InBlock
<1> DEFINE L == {j \in Nat : Locates(f[j])}
           C == {j \in Nat : Closes(f[j])}
           l(j) == Cardinality(L \cap (k..j))
           c(j) == Cardinality(C \cap (k..j))
<1>2. l(k) = 0 /\ c(k) = 0
  <2>1. L \cap (k..k) = {} /\ C \cap (k..k) = {}
    <3>1. \A j \in k..k : j = k  BY <1>1
    <3> QED  BY <1>1, <3>1
  <2> QED  BY <2>1, FS_EmptySet
<1>3. \A j \in k..e - 1 :
        /\ l(j) \in Nat /\ c(j) \in Nat
        /\ l(j + 1) = l(j) + (IF Locates(f[j + 1]) THEN 1 ELSE 0)
        /\ c(j + 1) = c(j) + (IF Closes(f[j + 1]) THEN 1 ELSE 0)
  <2> TAKE j \in k..e - 1
  <2>1. j \in Int /\ k \in Int /\ k <= j + 1 /\ j + 1 \in Nat  BY <1>1
  <2>2. j + 1 \in L <=> Locates(f[j + 1])  BY <2>1
  <2>3. j + 1 \in C <=> Closes(f[j + 1])  BY <2>1
  <2> HIDE DEF L, C
  <2>4. /\ l(j) \in Nat
        /\ l(j + 1) = l(j) + (IF j + 1 \in L THEN 1 ELSE 0)
    BY <2>1, CountStep
  <2>5. /\ c(j) \in Nat
        /\ c(j + 1) = c(j) + (IF j + 1 \in C THEN 1 ELSE 0)
    BY <2>1, CountStep
  <2> QED  BY <2>2, <2>3, <2>4, <2>5
<1> HIDE DEF l, c
<1>4. \A j \in k..e : l(j) \in Int /\ c(j) \in Int /\ d[j] = 1 + l(j) - c(j)
  <2> DEFINE S == {j \in k..e : l(j) \in Int /\ c(j) \in Int /\ d[j] = 1 + l(j) - c(j)}
  <2>1. k \in S  BY <1>1, <1>2
  <2>2. ASSUME NEW j \in k..e - 1, j \in S PROVE j + 1 \in S
    <3>1. j + 1 \in k + 1..e /\ j + 1 \in k..e /\ (j + 1) - 1 = j  BY <1>1
    <3>2. l(j) \in Int /\ c(j) \in Int /\ d[j] = 1 + l(j) - c(j)  BY <2>2
    <3>3. \/ Locates(f[j + 1]) /\ d[j + 1] = d[j] + 1 /\ ~Closes(f[j + 1])
          \/ Closes(f[j + 1]) /\ d[j + 1] = d[j] - 1 /\ ~Locates(f[j + 1])
          \/ d[j + 1] = d[j] /\ ~Locates(f[j + 1]) /\ ~Closes(f[j + 1])
      BY <1>1, <3>1
    <3>4. /\ l(j + 1) = l(j) + (IF Locates(f[j + 1]) THEN 1 ELSE 0)
          /\ c(j + 1) = c(j) + (IF Closes(f[j + 1]) THEN 1 ELSE 0)
      BY <1>3
    <3>5. l(j + 1) \in Int /\ c(j + 1) \in Int /\ d[j + 1] = 1 + l(j + 1) - c(j + 1)
      BY <3>2, <3>3, <3>4
    <3> QED  BY <3>1, <3>5
  <2> HIDE DEF S
  <2>3. k \in Nat /\ e \in Nat  BY <1>1
  <2>4. \A j \in k..e : j \in S  BY <2>1, <2>2, <2>3, Counting
  <2> QED  BY <2>4 DEF S
<1> DEFINE before(j) == Cardinality({h \in k..j : Has(f[h], "location")})
                          - Cardinality({h \in k..j - 1 : f[h] = Closing})
<1>5. \A j \in k + 1..e : Closes(f[j]) => before(j) = d[j]
  <2> TAKE j \in k + 1..e
  <2> HAVE Closes(f[j])
  <2>1. j \in k..e /\ j - 1 \in k..e - 1 /\ (j - 1) + 1 = j  BY <1>1
  <2>2. {h \in k..j : Has(f[h], "location")} = L \cap (k..j)  BY <1>1 DEF Locates
  <2>3. {h \in k..j - 1 : f[h] = Closing} = C \cap (k..j - 1)  BY <1>1 DEF Closes
  <2>4. before(j) = l(j) - c(j - 1)  BY <2>2, <2>3 DEF l, c
  <2>5. c(j) = c(j - 1) + 1 /\ c(j - 1) \in Int
    <3>1. c((j - 1) + 1) = c(j - 1) + (IF Closes(f[(j - 1) + 1]) THEN 1 ELSE 0) /\ c(j - 1) \in Int
      BY <1>3, <2>1
    <3> QED  BY <2>1, <3>1
  <2> HIDE DEF before
  <2> QED  BY <1>4, <2>1, <2>4, <2>5
<1> HIDE DEF L, C
<1> DEFINE E == {j \in k..Len(f) : f[j] = Closing /\ before(j) = 0} \cup {Len(f)}
<1>6. BlockEnd(f, k) = Min(E)  BY DEF BlockEnd
<1>7. E \in SUBSET Int /\ e \in E
  <2>1. e \in k + 1..e /\ e \in k..n  BY <1>1
  <2>2. before(e) = 0  BY <1>1, <1>5, <2>1
  <2>3. e \in E
    <3> HIDE DEF before
    <3> QED  BY <1>1, <2>1, <2>2 DEF Closes
  <2> HIDE DEF before
  <2> QED  BY <1>1, <2>3
<1>8. \A j \in E : e <= j
  <2> TAKE j \in E
  <2> HIDE DEF before
  <2> SUFFICES ASSUME j < e PROVE FALSE  BY <1>1
  <2>1. j \in k..n /\ Closes(f[j]) /\ before(j) = 0  BY <1>1 DEF Closes
  <2>2. j # k  BY <1>1, <2>1
  <2>3. j \in k + 1..e /\ j \in k..e - 1  BY <1>1, <2>1, <2>2
  <2>4. d[j] = 0 /\ d[j] \in 1..2  BY <1>1, <1>5, <2>1, <2>3
  <2> QED  BY <2>4
<1> HIDE DEF E
<1>9. Min(E) = e  BY <1>7, <1>8, MinIs
<1> QED  BY <1>6, <1>9

(* A block has one end.                                                    *)
LEMMA EndsOnce ==
  ASSUME NEW f, NEW n, NEW d, Shape(f, n, d), NEW k \in 1..n,
         NEW e, Ends(n, d, k, e), NEW g, Ends(n, d, k, g)
  PROVE  e = g
<1>1. n \in Nat /\ e \in k + 1..n /\ g \in k + 1..n /\ \A j \in 0..n : d[j] \in 0..2
  BY DEF Shape, Ends
<1>2. k \in 0..n /\ d[k] \in 0..2  BY <1>1
<1>3. ASSUME e < g PROVE FALSE
  <2>1. e \in k..g - 1  BY <1>1, <1>3
  <2>2. d[e] >= d[k] /\ d[e] = d[k] - 1  BY <2>1 DEF Ends
  <2> QED  BY <1>2, <2>2
<1>4. ASSUME g < e PROVE FALSE
  <2>1. g \in k..e - 1  BY <1>1, <1>4
  <2>2. d[g] >= d[k] /\ d[g] = d[k] - 1  BY <2>1 DEF Ends
  <2> QED  BY <1>2, <2>2
<1> QED  BY <1>1, <1>3, <1>4

(* A location of a server ends before the server does.                     *)
LEMMA LocationInBlock ==
  ASSUME NEW f, NEW n, NEW d, NEW k, NEW e, ServerBlock(f, n, d, k, e),
         NEW j \in k..e, Locates(f[j])
  PROVE  \E g \in j + 1..e - 1 :
            /\ Closes(f[g]) /\ Extent(f, j) = j..g /\ Level(f, j) = j..g - 1
            /\ LocationLines(f, j) = j..g
            /\ \A i \in j + 1..g - 1 : Plain(f[i])
            /\ \A i \in j..g - 1 : d[i] = 2
<1>1. /\ n \in Nat /\ k \in 1..n /\ e \in k + 1..n /\ d[e] = 0
  BY InBlock
<1>2. j \in 1..n  BY <1>1
<1>3. Shape(f, n, d)  BY DEF ServerBlock
<1>4. PICK g : /\ Ends(n, d, j, g) /\ Closes(f[g])
               /\ Extent(f, j) = j..g /\ Level(f, j) = j..g - 1 /\ LocationLines(f, j) = j..g
               /\ \A i \in j + 1..g - 1 : Plain(f[i])
               /\ \A i \in j..g - 1 : d[i] = 2
  BY <1>2, <1>3, LocationBlock
<1>5. g \in j + 1..n /\ d[g] = d[j] - 1  BY <1>4 DEF Ends
<1>6. j \in j..g - 1  BY <1>2, <1>5
<1>7. d[g] = 1  BY <1>4, <1>5, <1>6
<1>8. e \notin j..g - 1 /\ e # g  BY <1>1, <1>4, <1>7
<1>9. g \in j + 1..e - 1  BY <1>1, <1>2, <1>5, <1>8
<1> QED  BY <1>4, <1>9

(* The lines that the constructor skips are those within a location.       *)
LEMMA SkippedIs ==
  ASSUME NEW f, NEW n, NEW d, NEW k, NEW e, ServerBlock(f, n, d, k, e), NEW j \in k..e
  PROVE  Skipped(f, k, j) <=> j > k /\ d[j - 1] = 2
<1>1. /\ n \in Nat /\ k \in 1..n /\ e \in k + 1..n /\ d[k] = 1 /\ ~Locates(f[k])
      /\ \A i \in k..e - 1 : d[i] \in 1..2
      /\ \A i \in k + 1..e :
              \/ Locates(f[i]) /\ d[i - 1] = 1 /\ d[i] = 2 /\ ~Closes(f[i])
              \/ Closes(f[i]) /\ d[i - 1] # 0 /\ d[i] = d[i - 1] - 1 /\ ~Locates(f[i])
              \/ Plain(f[i]) /\ d[i - 1] # 0 /\ d[i] = d[i - 1] /\ ~Locates(f[i]) /\ ~Closes(f[i])
  BY InBlock
<1>2. ASSUME Skipped(f, k, j) PROVE j > k /\ d[j - 1] = 2
  <2>1. PICK h \in k..j - 1 : Locates(f[h]) /\ \A i \in h..j - 1 : ~Closes(f[i])
    BY <1>2 DEF Skipped, Locates, Closes
  <2>2. h \in k + 1..e /\ h \in Nat /\ j - 1 \in Nat /\ h # k  BY <1>1, <2>1
  <2>3. d[h] = 2  BY <1>1, <2>1, <2>2
  <2> DEFINE S == {i \in h..j - 1 : d[i] = 2}
  <2>4. h \in S  BY <2>1, <2>2, <2>3
  <2>5. ASSUME NEW i \in h..(j - 1) - 1, i \in S PROVE i + 1 \in S
    <3>1. i + 1 \in h..j - 1 /\ i + 1 \in k + 1..e /\ (i + 1) - 1 = i  BY <1>1, <2>1, <2>2
    <3>2. ~Closes(f[i + 1]) /\ d[i] = 2  BY <2>1, <2>5, <3>1
    <3>3. d[i + 1] = 2  BY <1>1, <3>1, <3>2
    <3> QED  BY <3>1, <3>3
  <2> HIDE DEF S
  <2>6. \A i \in h..j - 1 : i \in S  BY <2>2, <2>4, <2>5, Counting
  <2>7. j - 1 \in h..j - 1  BY <2>1, <2>2
  <2>8. j - 1 \in S  BY <2>6, <2>7
  <2> QED  BY <1>1, <2>1, <2>8 DEF S
<1>3. ASSUME j > k, d[j - 1] = 2 PROVE Skipped(f, k, j)
  <2> DEFINE S == {i \in k..j - 1 : d[i] = 1}
  <2>1. k \in S  BY <1>1, <1>3
  <2>2. j \in Nat /\ S \in SUBSET (0..j)  BY <1>1
  <2>3. PICK m \in S : \A i \in S : i <= m
    <3> HIDE DEF S
    <3> QED  BY <2>1, <2>2, GreatestExists
  <2>4. m \in k..j - 1 /\ d[m] = 1  OBVIOUS
  <2>5. m + 1 \in k + 1..j - 1 /\ (m + 1) - 1 = m
    <3>1. m # j - 1  BY <1>3, <2>4
    <3> QED  BY <1>1, <2>4, <3>1
  <2>6. \A i \in m + 1..j - 1 : d[i] = 2
    <3> TAKE i \in m + 1..j - 1
    <3>1. i \in k..j - 1 /\ i \in k..e - 1 /\ ~(i <= m)  BY <1>1, <2>5
    <3>2. i \notin S  BY <2>3, <3>1
    <3> QED  BY <1>1, <3>1, <3>2
  <2>7. m + 1 \in k + 1..e /\ m + 1 \in m + 1..j - 1  BY <1>1, <2>4, <2>5
  <2>8. Locates(f[m + 1]) /\ ~Closes(f[m + 1])
    <3>1. d[m + 1] = 2 /\ d[(m + 1) - 1] = 1  BY <2>4, <2>5, <2>6, <2>7
    <3> QED  BY <1>1, <2>7, <3>1
  <2>9. \A i \in m + 1..j - 1 : ~Closes(f[i])
    <3> TAKE i \in m + 1..j - 1
    <3>1. CASE i = m + 1  BY <2>8, <3>1
    <3>2. CASE i # m + 1
      <4>1. i \in k + 1..e /\ i - 1 \in m + 1..j - 1  BY <1>1, <2>4, <3>2
      <4>2. d[i] = 2 /\ d[i - 1] = 2  BY <2>6, <4>1
      <4> QED  BY <1>1, <4>1, <4>2
    <3> QED  BY <3>1, <3>2
  <2>10. m + 1 \in k..j - 1  BY <1>1, <2>5
  <2> QED  BY <2>8, <2>9, <2>10 DEF Skipped, Locates, Closes
<1> QED  BY <1>2, <1>3

(* The lines that say what a key is.                                       *)
Keyed(f, where, key) == {j \in where : Has(f[j], key)}

(* A bracket says nothing.                                                 *)
LEMMA ClosingSaysNothing ==
  ASSUME NEW line, Closes(line), NEW key
  PROVE  ~Has(line, key)
<1>1. Len(line) = 1  BY Kinds
<1> QED  BY <1>1 DEF Has

(* What is in a server's block.                                            *)
LEMMA BlockLevel ==
  ASSUME NEW f, NEW n, NEW d, NEW k, NEW e, ServerBlock(f, n, d, k, e)
  PROVE  Extent(f, k) = k..e /\ Level(f, k) = {j \in k..e - 1 : d[j] = 1}
<1>1. Shape(f, n, d) /\ k \in 1..n /\ Ends(n, d, k, e) /\ d[k] = 1
  <2>1. d[k] = 1  BY InBlock
  <2> QED  BY <2>1 DEF ServerBlock
<1>2. PICK g : /\ Ends(n, d, k, g) /\ Extent(f, k) = k..g
               /\ Level(f, k) = {j \in k..g - 1 : d[j] = d[k]}
  BY <1>1, EndOf
<1>3. g = e  BY <1>1, <1>2, EndsOnce
<1> QED  BY <1>1, <1>2, <1>3

(* The constructor finds the locations of its block and of what is left    *)
(* has read, for each key, the lines that are the block's own.             *)
LEMMA OwnLines ==
  ASSUME NEW f, NEW n, NEW d, NEW k, NEW e, ServerBlock(f, n, d, k, e)
  PROVE  /\ BodyLines(f, k).locations = LocationsWithin(f, k)
         /\ BodyLines(f, k).own \subseteq k..e /\ \A j \in BodyLines(f, k).own : ~Locates(f[j])
         /\ \A key : key # "location" =>
              Keyed(f, BodyLines(f, k).own, key) = Keyed(f, Level(f, k), key)
<1>1. /\ n \in Nat /\ Len(f) = n /\ k \in 1..n /\ e \in k + 1..n /\ d[k] = 1 /\ d[e] = 0 /\ d[e - 1] = 1
      /\ \A i \in k..e - 1 : d[i] \in 1..2
      /\ Closes(f[e]) /\ ~Locates(f[k]) /\ ~Closes(f[k])
      /\ \A i \in k + 1..e :
              \/ Locates(f[i]) /\ d[i - 1] = 1 /\ d[i] = 2 /\ ~Closes(f[i])
              \/ Closes(f[i]) /\ d[i - 1] # 0 /\ d[i] = d[i - 1] - 1 /\ ~Locates(f[i])
              \/ Plain(f[i]) /\ d[i - 1] # 0 /\ d[i] = d[i - 1] /\ ~Locates(f[i]) /\ ~Closes(f[i])
  BY InBlock
<1> DEFINE kept == {j \in k..Len(f) : ~Skipped(f, k, j)}
           Endings == {j \in kept : f[j] = Closing} \cup {Len(f)}
           end == Min(Endings)
           lines == {j \in kept : j <= end}
           places == {j \in lines : Has(f[j], "location")}
<1>2. \A j \in k..e : j \in kept <=> ~(j > k /\ d[j - 1] = 2)
  BY <1>1, SkippedIs
<1>3. end = e
  <2>1. e \in Endings
    <3>1. e \in kept  BY <1>1, <1>2
    <3> HIDE DEF kept
    <3> QED  BY <1>1, <3>1 DEF Closes
  <2>2. Endings \in SUBSET Int  BY <1>1
  <2>3. \A j \in Endings : e <= j
    <3> TAKE j \in Endings
    <3> SUFFICES ASSUME j < e PROVE FALSE  BY <1>1
    <3>1. j \in kept /\ Closes(f[j]) /\ j \in k..e  BY <1>1 DEF Closes
    <3>2. j # k  BY <1>1, <3>1
    <3>3. j \in k + 1..e /\ j - 1 \in k..e - 1 /\ j \in k..e - 1  BY <1>1, <3>1, <3>2
    <3>4. d[j - 1] # 2
      <4>1. j > k  BY <1>1, <3>3
      <4> HIDE DEF kept
      <4> QED  BY <1>2, <3>1, <4>1
    <3>5. d[j] = d[j - 1] - 1  BY <1>1, <3>1, <3>3
    <3>6. d[j] \in 1..2 /\ d[j - 1] \in 1..2  BY <1>1, <3>3
    <3> QED  BY <3>4, <3>5, <3>6
  <2> HIDE DEF Endings
  <2> QED  BY <2>1, <2>2, <2>3, MinIs
<1> HIDE DEF Endings
<1>4. lines = {j \in k..e : ~(j > k /\ d[j - 1] = 2)}
  <2>1. \A j : j \in lines <=> j \in k..e /\ j \in kept
    <3>1. \A j \in kept : j <= e <=> j \in k..e  BY <1>1
    <3>2. \A j \in k..e : j <= e  BY <1>1
    <3> HIDE DEF kept, end
    <3> QED  BY <1>3, <3>1, <3>2
  <2> HIDE DEF kept, lines
  <2> QED  BY <1>2, <2>1
<1>5. places = {j \in k..e : Locates(f[j])}
  <2>1. \A j \in k..e : Locates(f[j]) => j > k /\ d[j - 1] # 2
    <3> TAKE j \in k..e
    <3> HAVE Locates(f[j])
    <3>1. j \in k + 1..e  BY <1>1
    <3> QED  BY <1>1, <3>1
  <2> HIDE DEF lines
  <2> QED  BY <1>4, <2>1 DEF Locates
<1>6. BodyLines(f, k) = [own |-> lines \ places, locations |-> InOrder(places)]
  BY DEF BodyLines, Endings
<1> HIDE DEF places, lines
<1>7. BodyLines(f, k).own = lines \ places /\ BodyLines(f, k).locations = InOrder(places)
  BY <1>6
<1>8. BodyLines(f, k).locations = LocationsWithin(f, k)
  <2>1. Extent(f, k) = k..e  BY BlockLevel
  <2> QED  BY <1>5, <1>7, <2>1 DEF LocationsWithin, Locates
<1>9. ASSUME NEW key, key # "location"
      PROVE  Keyed(f, BodyLines(f, k).own, key) = Keyed(f, Level(f, k), key)
  <2>1. ASSUME NEW j \in k..e, Has(f[j], key)
        PROVE  j \in lines \ places <=> j \in {i \in k..e - 1 : d[i] = 1}
    <3>1. ~Closes(f[j])  BY <2>1, ClosingSaysNothing
    <3>2. ~Locates(f[j])  BY <1>9, <2>1 DEF Locates, Has
    <3>3. j \in k..e - 1  BY <1>1, <3>1
    <3>4. CASE j = k
      <4>1. j \in lines /\ j \notin places /\ d[j] = 1  BY <1>1, <1>4, <1>5, <3>2, <3>4
      <4> QED  BY <3>3, <4>1
    <3>5. CASE j # k
      <4>1. j \in k + 1..e  BY <1>1, <3>5
      <4>2. d[j] = d[j - 1] /\ d[j] \in 1..2  BY <1>1, <3>1, <3>2, <3>3, <4>1
      <4>3. j \in lines <=> d[j - 1] # 2  BY <1>1, <1>4, <4>1
      <4>4. j \notin places  BY <1>5, <3>2
      <4> QED  BY <3>3, <4>2, <4>3, <4>4
    <3> QED  BY <3>4, <3>5
  <2>2. Level(f, k) = {i \in k..e - 1 : d[i] = 1}  BY BlockLevel
  <2>3. lines \ places \subseteq k..e /\ \A j \in k..e - 1 : j \in k..e  BY <1>1, <1>4
  <2>4. Level(f, k) \subseteq k..e  BY <2>2, <2>3
  <2> QED  BY <1>7, <2>1, <2>2, <2>3, <2>4 DEF Keyed
<1>10. BodyLines(f, k).own \subseteq k..e /\ \A j \in BodyLines(f, k).own : ~Locates(f[j])
  BY <1>4, <1>5, <1>7
<1> QED  BY <1>8, <1>9, <1>10

(* The root and the methods are looked for up to the first location, which *)
(* they are written before.                                                *)
LEMMA HeadFound ==
  ASSUME NEW f, NEW n, NEW d, NEW k, NEW e, ServerBlock(f, n, d, k, e),
         \A j \in Level(f, k), h \in k..e :
           Locates(f[h]) /\ f[j][1] \in {"root", "allowed_methods"} => j < h,
         NEW key \in {"root", "allowed_methods"}
  PROVE  Keyed(f, HeadLines(f, k), key) = Keyed(f, Level(f, k), key)
<1>1. /\ n \in Nat /\ Len(f) = n /\ k \in 1..n /\ e \in k + 1..n /\ d[k] = 1 /\ d[e] = 0
      /\ \A i \in k..e - 1 : d[i] \in 1..2
      /\ Closes(f[e]) /\ ~Locates(f[k]) /\ ~Closes(f[k])
      /\ \A i \in k + 1..e :
              \/ Locates(f[i]) /\ d[i - 1] = 1 /\ d[i] = 2 /\ ~Closes(f[i])
              \/ Closes(f[i]) /\ d[i - 1] # 0 /\ d[i] = d[i - 1] - 1 /\ ~Locates(f[i])
              \/ Plain(f[i]) /\ d[i - 1] # 0 /\ d[i] = d[i - 1] /\ ~Locates(f[i]) /\ ~Closes(f[i])
  BY InBlock
<1> DEFINE S == {j \in k..Len(f) : Has(f[j], "location") \/ f[j] = Closing} \cup {Len(f)}
<1>2. e \in S /\ S \in SUBSET Nat  BY <1>1 DEF Closes
<1>3. PICK m \in S : \A j \in S : m <= j
  <2> HIDE DEF S
  <2> QED  BY <1>2, LeastExists
<1>4. HeadLines(f, k) = k..m
  <2>1. S \in SUBSET Int  BY <1>2
  <2> HIDE DEF S
  <2>2. Min(S) = m  BY <1>3, <2>1, MinIs
  <2> QED  BY <2>2 DEF HeadLines, S
<1>5. m \in k + 1..e /\ (Locates(f[m]) \/ Closes(f[m]))
  <2>1. m \in k..e  BY <1>1, <1>2, <1>3
  <2>2. m # e => Locates(f[m]) \/ Closes(f[m])  BY <1>1, <2>1 DEF Locates, Closes
  <2>3. Locates(f[m]) \/ Closes(f[m])  BY <1>1, <2>2
  <2>4. m # k  BY <1>1, <2>3
  <2> QED  BY <1>1, <2>1, <2>3, <2>4
<1>6. \A j \in k..m - 1 : ~Locates(f[j]) /\ ~Closes(f[j])
  <2> TAKE j \in k..m - 1
  <2>1. j \in k..n /\ ~(m <= j)  BY <1>1, <1>5
  <2>2. j \notin S  BY <1>3, <2>1
  <2> QED  BY <1>1, <2>1, <2>2 DEF Locates, Closes
<1> HIDE DEF S
<1>7. \A j \in k..m - 1 : d[j] = 1
  <2> DEFINE T == {j \in k..m - 1 : d[j] = 1}
  <2>1. k \in T  BY <1>1, <1>5
  <2>2. ASSUME NEW j \in k..(m - 1) - 1, j \in T PROVE j + 1 \in T
    <3>1. j + 1 \in k + 1..e /\ j + 1 \in k..m - 1 /\ (j + 1) - 1 = j  BY <1>1, <1>5
    <3>2. d[j] = 1 /\ ~Locates(f[j + 1]) /\ ~Closes(f[j + 1])  BY <1>6, <2>2, <3>1
    <3>3. d[j + 1] = 1  BY <1>1, <3>1, <3>2
    <3> QED  BY <3>1, <3>3
  <2> HIDE DEF T
  <2>3. k \in Nat /\ m - 1 \in Nat  BY <1>1, <1>5
  <2>4. \A j \in k..m - 1 : j \in T  BY <2>1, <2>2, <2>3, Counting
  <2> QED  BY <2>4 DEF T
<1>8. Level(f, k) = {i \in k..e - 1 : d[i] = 1}  BY BlockLevel
<1>9. ASSUME NEW j, Has(f[j], key) PROVE j \in k..m <=> j \in Level(f, k)
  <2>1. ~Closes(f[j]) /\ ~Locates(f[j])
    <3>1. ~Closes(f[j])  BY <1>9, ClosingSaysNothing
    <3>2. f[j][1] = key  BY <1>9 DEF Has
    <3>3. key # "location"  OBVIOUS
    <3> QED  BY <3>1, <3>2, <3>3 DEF Locates, Has
  <2>2. ASSUME j \in k..m PROVE j \in Level(f, k)
    <3>1. j # m  BY <1>5, <2>1
    <3>2. j \in k..m - 1 /\ j \in k..e - 1  BY <1>1, <1>5, <2>2, <3>1
    <3> QED  BY <1>7, <1>8, <3>2
  <2>3. ASSUME j \in Level(f, k) PROVE j \in k..m
    <3>1. j \in k..e - 1  BY <1>8, <2>3
    <3> SUFFICES ASSUME m < j PROVE FALSE  BY <1>1, <1>5, <3>1
    <3>2. m \in k..e - 1 /\ m - 1 \in k..m - 1 /\ m \in k..e  BY <1>1, <1>5, <3>1
    <3>3. d[m] \in 1..2 /\ d[m - 1] = 1  BY <1>1, <1>7, <3>2
    <3>4. Locates(f[m])  BY <1>1, <1>5, <3>3
    <3>5. f[j][1] \in {"root", "allowed_methods"}  BY <1>9 DEF Has
    <3>6. j < m  BY <2>3, <3>2, <3>4, <3>5
    <3> QED  BY <1>1, <1>5, <3>1, <3>6
  <2> QED  BY <2>2, <2>3
<1>10. {j \in k..m : Has(f[j], key)} = {j \in Level(f, k) : Has(f[j], key)}  BY <1>9
<1> QED  BY <1>4, <1>10 DEF Keyed

(* What two sets of lines that agree on the keys mean.                     *)
LEMMA SameValues ==
  ASSUME NEW f, NEW A, NEW B, NEW key, Keyed(f, A, key) = Keyed(f, B, key)
  PROVE  LastWith(f, A, key) = LastWith(f, B, key)
<1>1. {j \in A : Has(f[j], key)} = {j \in B : Has(f[j], key)}  BY DEF Keyed
<1> QED  BY <1>1 DEF LastWith

(* Lines that agree on error_page give the same pages.                     *)
LEMMA SamePages ==
  ASSUME NEW f, NEW A, NEW B, Keyed(f, A, "error_page") = Keyed(f, B, "error_page")
  PROVE  PagesIn(f, A) = PagesIn(f, B)
<1>1. \A c : {j \in A : Has(f[j], "error_page") /\ Numeral[f[j][2]] = c}
               = {j \in B : Has(f[j], "error_page") /\ Numeral[f[j][2]] = c}
  <2>1. {j \in A : Has(f[j], "error_page")} = {j \in B : Has(f[j], "error_page")}  BY DEF Keyed
  <2>2. \A j : j \in A /\ Has(f[j], "error_page") <=> j \in B /\ Has(f[j], "error_page")  BY <2>1
  <2> QED  BY <2>2
<1> QED  BY <1>1 DEF PagesIn

(* Lines that agree on their keys give the same settings.                  *)
LEMMA SameSettings ==
  ASSUME NEW f, NEW name, NEW H, NEW B, NEW L,
         \A key \in {"root", "allowed_methods"} : Keyed(f, H, key) = Keyed(f, L, key),
         \A key \in {"redirect", "index", "autoindex", "error_page"} :
           Keyed(f, B, key) = Keyed(f, L, key)
  PROVE  SettingsIn(f, name, H, B) = SettingsIn(f, name, L, L)
<1>1. \A key \in {"root", "allowed_methods"} : LastWith(f, H, key) = LastWith(f, L, key)
  BY SameValues
<1>2. \A key \in {"redirect", "index", "autoindex"} : LastWith(f, B, key) = LastWith(f, L, key)
  BY SameValues
<1>3. PagesIn(f, B) = PagesIn(f, L)  BY SamePages
<1> QED  BY <1>1, <1>2, <1>3 DEF SettingsIn, Value

(* A location of a server is obtained as it is declared.                   *)
LEMMA Obtained ==
  ASSUME NEW f, NEW n, NEW d, NEW k, NEW e, ServerBlock(f, n, d, k, e),
         NEW j \in k..e, Locates(f[j])
  PROVE  ObtainLoc(f, j) = DeclaredSettings(f, PathOf[f[j][2]], j)
<1>1. PICK g \in j + 1..e - 1 :
         /\ Closes(f[g]) /\ Level(f, j) = j..g - 1 /\ LocationLines(f, j) = j..g
         /\ \A i \in j + 1..g - 1 : Plain(f[i])
  BY LocationInBlock
<1>2. j \in Nat /\ e \in Nat /\ g \in j + 1..e - 1  BY InBlock
<1>3. LastWith(f, j..g, "location") = j
  <2> DEFINE S == {i \in j..g : Has(f[i], "location")}
  <2>1. S = {j}
    <3>1. \A i \in j..g : i = j \/ i \in j + 1..g - 1 \/ i = g  BY <1>2
    <3>2. \A i \in j..g : Locates(f[i]) => i = j  BY <1>1, <3>1, Kinds DEF Plain
    <3>3. j \in j..g  BY <1>2
    <3> QED  BY <3>2, <3>3 DEF Locates
  <2>2. S \cup {0} \in SUBSET Int /\ j \in S \cup {0} /\ \A i \in S \cup {0} : i <= j
    <3> HIDE DEF S
    <3> QED  BY <1>2, <2>1
  <2> HIDE DEF S
  <2>3. Max(S \cup {0}) = j  BY <2>2, MaxIs
  <2> QED  BY <2>3 DEF LastWith, S
<1>4. \A key : Keyed(f, j..g, key) = Keyed(f, j..g - 1, key)
  <2>1. \A i : i \in j..g <=> i \in j..g - 1 \/ i = g  BY <1>2
  <2>2. \A key : ~Has(f[g], key)  BY <1>1, ClosingSaysNothing
  <2> QED  BY <2>1, <2>2 DEF Keyed
<1>5. \A name : SettingsIn(f, name, j..g, j..g) = SettingsIn(f, name, j..g - 1, j..g - 1)
  BY <1>4, SameSettings
<1> QED  BY <1>1, <1>3, <1>5 DEF ObtainLoc, DeclaredSettings

(***************************************************************************)
(* Locations                                                               *)
(***************************************************************************)

(* The locations of a server before the first is added, and after each.    *)
Adding(f, s, n) == f[0] = <<>> /\ \A k \in 1..n : f[k] = AddLocation(f[k - 1], s[k])

(* They are added one by one, in order.                                    *)
LEMMA AddingSteps ==
  ASSUME NEW s, NEW n \in Nat, DOMAIN s = 1..n
  PROVE  \E f : Adding(f, s, n) /\ Locations(s) = f[n]
<1> DEFINE Of(g, t) == IF t = {} THEN <<>> ELSE AddLocation(g[t \ {Max(t)}], s[Max(t)])
           Whole(g, m) == g = [t \in SUBSET (1..m) |-> Of(g, t)]
           whole == CHOOSE g : Whole(g, n)
<1>1. \A m \in 0..n : \E g : Whole(g, m)
  <2> DEFINE S == {m \in 0..n : \E g : Whole(g, m)}
  <2>1. 0 \in S
    <3> DEFINE g == [t \in SUBSET (1..0) |-> <<>>]
    <3>1. \A t \in SUBSET (1..0) : t = {}  OBVIOUS
    <3>2. Whole(g, 0)  BY <3>1
    <3> HIDE DEF Whole, g
    <3> QED  BY <3>2
  <2>2. ASSUME NEW m \in 0..n - 1, m \in S PROVE m + 1 \in S
    <3>1. PICK g : Whole(g, m)  BY <2>2
    <3> DEFINE h == [t \in SUBSET (1..m + 1) |->
                       IF m + 1 \in t THEN AddLocation(g[t \ {m + 1}], s[m + 1]) ELSE g[t]]
    <3>2. ASSUME NEW t \in SUBSET (1..m + 1) PROVE h[t] = Of(h, t)
      <4>1. CASE m + 1 \in t
        <5>1. t \ {m + 1} \in SUBSET (1..m) /\ t \ {m + 1} \in SUBSET (1..m + 1)  OBVIOUS
        <5>2. m + 1 \notin t \ {m + 1}  OBVIOUS
        <5>3. h[t \ {m + 1}] = g[t \ {m + 1}]  BY <5>1, <5>2
        <5>4. Max(t) = m + 1
          <6>1. \A y \in t : m + 1 >= y /\ y \in 1..m + 1  OBVIOUS
          <6>2. \A x \in t : (\A y \in t : x >= y) => x = m + 1  BY <4>1, <6>1
          <6> QED  BY <4>1, <6>1, <6>2 DEF Max
        <5>5. t # {}  BY <4>1
        <5>6. h[t] = AddLocation(g[t \ {m + 1}], s[m + 1])  BY <4>1
        <5> HIDE DEF h
        <5> QED  BY <5>3, <5>4, <5>5, <5>6
      <4>2. CASE m + 1 \notin t
        <5>1. t \in SUBSET (1..m)  BY <4>2
        <5>2. h[t] = g[t] /\ g[t] = Of(g, t)  BY <3>1, <4>2, <5>1
        <5>3. CASE t = {}  BY <5>2, <5>3
        <5>4. CASE t # {}
          <6> DEFINE u == t \ {Max(t)}
          <6>1. u \in SUBSET (1..m) /\ u \in SUBSET (1..m + 1) /\ m + 1 \notin u
            <7>1. u \subseteq t /\ t \subseteq 1..m  BY <5>1
            <7>2. m + 1 \notin 1..m /\ 1..m \subseteq 1..m + 1  OBVIOUS
            <7> HIDE DEF u
            <7> QED  BY <7>1, <7>2
          <6>2. h[u] = g[u]  BY <6>1
          <6> HIDE DEF h
          <6> QED  BY <5>2, <5>4, <6>2
        <5> QED  BY <5>3, <5>4
      <4> QED  BY <4>1, <4>2
    <3>3. Whole(h, m + 1)
      <4>1. h = [t \in SUBSET (1..m + 1) |-> h[t]]  OBVIOUS
      <4> HIDE DEF h, Of
      <4> QED  BY <3>2, <4>1
    <3>4. m + 1 \in 0..n  OBVIOUS
    <3> HIDE DEF Whole, h
    <3> QED  BY <3>3, <3>4
  <2> HIDE DEF S
  <2>3. \A m \in 0..n : m \in S  BY <2>1, <2>2, Counting
  <2> QED  BY <2>3 DEF S
<1>2. Whole(whole, n)
  <2> HIDE DEF Whole
  <2> QED  BY <1>1
<1>3. Locations(s) = whole[1..n]
  BY DEF Locations, FoldLeft, MapThenFoldSet
<1> HIDE DEF whole
<1> DEFINE f == [k \in 0..n |-> whole[1..k]]
<1>4. \A k \in 0..n : 1..k \in SUBSET (1..n)  OBVIOUS
<1>5. f[0] = <<>>
  <2>1. 1..0 = {}  OBVIOUS
  <2>2. f[0] = whole[1..0]  OBVIOUS
  <2> HIDE DEF f
  <2> QED  BY <1>2, <2>1, <2>2
<1>6. \A k \in 1..n : f[k] = AddLocation(f[k - 1], s[k])
  <2> TAKE k \in 1..n
  <2>1. k \in 0..n /\ k - 1 \in 0..n  OBVIOUS
  <2>2. (1..k) \ {k} = 1..k - 1 /\ 1..k # {}  OBVIOUS
  <2>3. Max(1..k) = k
    <3>1. \A y \in 1..k : k >= y  OBVIOUS
    <3>2. \A x \in 1..k : (\A y \in 1..k : x >= y) => x = k  OBVIOUS
    <3>3. k \in 1..k  OBVIOUS
    <3> QED  BY <3>1, <3>2, <3>3 DEF Max
  <2>4. f[k] = whole[1..k] /\ f[k - 1] = whole[1..k - 1]  BY <2>1
  <2> HIDE DEF f
  <2>5. whole[1..k] = Of(whole, 1..k)  BY <1>2, <1>4, <2>1
  <2> QED  BY <2>2, <2>3, <2>4, <2>5
<1>7. f[n] = whole[1..n]  OBVIOUS
<1> HIDE DEF f
<1> QED  BY <1>3, <1>5, <1>6, <1>7 DEF Adding

(* One more location replaces all of its name, and is there.               *)
Added(l, new, m) ==
  /\ IsSequence(m)
  /\ \A i \in DOMAIN m : \/ m[i] = new
                         \/ \E j \in DOMAIN l : m[i] = l[j] /\ l[j].name # new.name
  /\ \A j \in DOMAIN l : l[j].name # new.name => \E i \in DOMAIN m : m[i] = l[j]
  /\ \E i \in DOMAIN m : m[i] = new

(* A location that is added takes the place of those of its name.          *)
LEMMA AddsOne ==
  ASSUME NEW l, IsSequence(l), NEW new
  PROVE  Added(l, new, AddLocation(l, new))
<1> DEFINE m == AddLocation(l, new)
<1>1. Len(l) \in Nat /\ DOMAIN l = 1..Len(l) /\ l \in Seq(ToSet(l))
  BY OneMore DEF IsSequence
<1>2. ASSUME l = <<>> PROVE Added(l, new, m)
  <2>1. m = <<new>>  BY <1>2 DEF AddLocation
  <2>2. DOMAIN m = {1} /\ m[1] = new  BY <2>1
  <2>3. DOMAIN l = {}  BY <1>2
  <2> HIDE DEF m
  <2>4. IsSequence(m)
    <3>1. m \in Seq({new})  BY <2>1
    <3> QED  BY <3>1, AnySequence
  <2> QED  BY <2>2, <2>3, <2>4 DEF Added
<1>3. ASSUME l # <<>> PROVE Added(l, new, m)
  <2> DEFINE T == ToSet(l) \cup {new}
             Other == {j \in DOMAIN l : ~(l[j].name = new.name)}
             c == Cardinality(Other)
             a == [k \in DOMAIN l |-> IF l[k].name = new.name THEN new ELSE l[k]]
             b == [k \in 1..c |-> new]
  <2>1. m = a \o b  BY <1>3 DEF AddLocation
  <2>2. IsFiniteSet(Other) /\ c \in Nat
    <3>1. IsFiniteSet(DOMAIN l)  BY <1>1, FS_Interval
    <3>2. IsFiniteSet(Other)  BY <3>1, FS_Subset
    <3> HIDE DEF Other
    <3> QED  BY <3>2, FS_CardinalityType
  <2>3. a \in Seq(T) /\ Len(a) = Len(l)
    <3>1. \A k \in 1..Len(l) : a[k] \in T  BY <1>1 DEF ToSet
    <3>2. a = [k \in 1..Len(l) |-> a[k]]  BY <1>1
    <3> HIDE DEF a, T
    <3>3. a \in [1..Len(l) -> T]  BY <3>1, <3>2
    <3> QED  BY <1>1, <3>3
  <2>4. b \in Seq(T) /\ Len(b) = c
    <3>1. new \in T  OBVIOUS
    <3> HIDE DEF c, T
    <3> QED  BY <2>2, <3>1
  <2>5. \A k \in 1..Len(l) : a[k] = IF l[k].name = new.name THEN new ELSE l[k]  BY <1>1
  <2>6. \A k \in 1..c : b[k] = new  OBVIOUS
  <2>7. (\E j \in DOMAIN l : l[j].name = new.name) \/ c # 0
    <3> SUFFICES ASSUME \A j \in DOMAIN l : l[j].name # new.name, c = 0 PROVE FALSE  OBVIOUS
    <3>1. Other = DOMAIN l  OBVIOUS
    <3>2. Other = {}
      <4> HIDE DEF Other
      <4> QED  BY <2>2, FS_EmptySet
    <3> HIDE DEF Other
    <3>3. Len(l) = 0  BY <1>1, <3>1, <3>2
    <3>4. l = <<>>  BY <1>1, <3>3
    <3> QED  BY <1>3, <3>4
  <2> HIDE DEF T, Other, c, a, b, m
  <2>8. /\ m \in Seq(T) /\ Len(m) = Len(l) + c
        /\ \A i \in 1..Len(l) : m[i] = a[i]
        /\ \A i \in 1..c : m[Len(l) + i] = b[i]
    <3>0. a \in Seq(T) /\ b \in Seq(T)  BY <2>3, <2>4
    <3>1. /\ a \o b \in Seq(T) /\ Len(a \o b) = Len(a) + Len(b)
          /\ \A i \in 1..Len(a) : (a \o b)[i] = a[i]
          /\ \A i \in 1..Len(b) : (a \o b)[Len(a) + i] = b[i]
      BY <3>0, Joined
    <3> QED  BY <2>1, <2>3, <2>4, <3>1
  <2>9. DOMAIN m = 1..Len(l) + c
    <3>1. DOMAIN m = 1..Len(m)  BY <2>8
    <3> QED  BY <2>8, <3>1
  <2>10. IsSequence(m)  BY <2>8, AnySequence
  <2>11. ASSUME NEW i \in DOMAIN m
         PROVE  m[i] = new \/ \E j \in DOMAIN l : m[i] = l[j] /\ l[j].name # new.name
    <3>1. CASE i <= Len(l)
      <4>1. i \in 1..Len(l) /\ i \in DOMAIN l  BY <1>1, <2>2, <2>9, <3>1
      <4> QED  BY <2>5, <2>8, <4>1
    <3>2. CASE ~(i <= Len(l))
      <4>1. i - Len(l) \in 1..c /\ Len(l) + (i - Len(l)) = i  BY <1>1, <2>2, <2>9, <3>2
      <4>2. m[Len(l) + (i - Len(l))] = new  BY <2>6, <2>8, <4>1
      <4> QED  BY <4>1, <4>2
    <3> QED  BY <3>1, <3>2
  <2>12. \A j \in DOMAIN l : j \in DOMAIN m /\ m[j] = a[j]  BY <1>1, <2>2, <2>8, <2>9
  <2>13. \A j \in DOMAIN l : l[j].name # new.name => \E i \in DOMAIN m : m[i] = l[j]
    BY <1>1, <2>5, <2>12
  <2>14. \E i \in DOMAIN m : m[i] = new
    <3>1. CASE \E j \in DOMAIN l : l[j].name = new.name  BY <1>1, <2>5, <2>12, <3>1
    <3>2. CASE c # 0
      <4>1. 1 \in 1..c /\ Len(l) + 1 \in DOMAIN m  BY <1>1, <2>2, <2>9, <3>2
      <4> QED  BY <2>6, <2>8, <4>1
    <3> QED  BY <2>7, <3>1, <3>2
  <2> QED  BY <2>10, <2>11, <2>13, <2>14 DEF Added
<1> QED  BY <1>2, <1>3

(* Of those of one name the last stays, wherever it is.                    *)
LastOf(s, p, m) == \A q \in p + 1..m : s[q].name # s[p].name
(* What is kept of the first m: for each name the last.                    *)
Kept(l, s, m) ==
  /\ IsSequence(l)
  /\ \A i \in DOMAIN l : \E p \in 1..m : l[i] = s[p] /\ LastOf(s, p, m)
  /\ \A p \in 1..m : LastOf(s, p, m) => \E i \in DOMAIN l : l[i] = s[p]

(* So of those of one name the last is what is kept.                       *)
LEMMA LastKept ==
  ASSUME NEW s, NEW n \in Nat, DOMAIN s = 1..n
  PROVE  Kept(Locations(s), s, n)
<1>1. PICK f : Adding(f, s, n) /\ Locations(s) = f[n]  BY AddingSteps
<1> DEFINE S == {m \in 0..n : Kept(f[m], s, m)}
<1>2. 0 \in S
  <2>1. f[0] = <<>>  BY <1>1 DEF Adding
  <2>2. IsSequence(<<>>)
    <3>1. <<>> \in Seq({})  OBVIOUS
    <3> QED  BY <3>1, AnySequence
  <2>3. DOMAIN f[0] = {} /\ 1..0 = {}  BY <2>1
  <2>4. Kept(f[0], s, 0)  BY <2>1, <2>2, <2>3 DEF Kept
  <2> QED  BY <2>4
<1>3. ASSUME NEW m \in 0..n - 1, m \in S PROVE m + 1 \in S
  <2>0. m + 1 \in 1..n /\ m + 1 \in 0..n /\ (m + 1) - 1 = m /\ m \in Nat  OBVIOUS
  <2>1. Kept(f[m], s, m)  BY <1>3
  <2> DEFINE l == f[m]
             k == f[m + 1]
  <2> PICK new : new = s[m + 1]  OBVIOUS
  <2>2. k = AddLocation(l, new)
    <3>1. f[m + 1] = AddLocation(f[(m + 1) - 1], s[m + 1])  BY <1>1, <2>0 DEF Adding
    <3> QED  BY <2>0, <3>1
  <2>3. /\ IsSequence(l)
        /\ \A i \in DOMAIN l : \E p \in 1..m : l[i] = s[p] /\ LastOf(s, p, m)
        /\ \A p \in 1..m : LastOf(s, p, m) => \E i \in DOMAIN l : l[i] = s[p]
    BY <2>1 DEF Kept
  <2> HIDE DEF l, k
  <2>4. /\ IsSequence(k)
        /\ \A i \in DOMAIN k : \/ k[i] = new
                               \/ \E j \in DOMAIN l : k[i] = l[j] /\ l[j].name # new.name
        /\ \A j \in DOMAIN l : l[j].name # new.name => \E i \in DOMAIN k : k[i] = l[j]
        /\ \E i \in DOMAIN k : k[i] = new
    <3>1. Added(l, new, AddLocation(l, new))  BY <2>3, AddsOne
    <3> QED  BY <2>2, <3>1 DEF Added
  <2>5. LastOf(s, m + 1, m + 1)
    <3>1. (m + 1) + 1..m + 1 = {}  BY <2>0
    <3> QED  BY <3>1 DEF LastOf
  <2>6. \A p \in 1..m : LastOf(s, p, m + 1) <=> LastOf(s, p, m) /\ s[p].name # new.name
    <3>1. \A p \in 1..m : p + 1..m + 1 = (p + 1..m) \cup {m + 1}  BY <2>0
    <3> QED  BY <3>1 DEF LastOf
  <2>7. \A p : p \in 1..m + 1 <=> p \in 1..m \/ p = m + 1  BY <2>0
  <2>8. ASSUME NEW i \in DOMAIN k PROVE \E p \in 1..m + 1 : k[i] = s[p] /\ LastOf(s, p, m + 1)
    <3>1. CASE k[i] = new  BY <2>5, <2>7, <3>1
    <3>2. CASE k[i] # new
      <4>1. PICK j \in DOMAIN l : k[i] = l[j] /\ l[j].name # new.name  BY <2>4, <3>2
      <4>2. PICK p \in 1..m : l[j] = s[p] /\ LastOf(s, p, m)  BY <2>3
      <4>3. LastOf(s, p, m + 1)
        <5>1. s[p].name # new.name  BY <4>1, <4>2
        <5> QED  BY <2>6, <4>2, <5>1
      <4> QED  BY <2>7, <4>1, <4>2, <4>3
    <3> QED  BY <3>1, <3>2
  <2>9. ASSUME NEW p \in 1..m + 1, LastOf(s, p, m + 1) PROVE \E i \in DOMAIN k : k[i] = s[p]
    <3>1. CASE p = m + 1  BY <2>4, <3>1
    <3>2. CASE p # m + 1
      <4>1. p \in 1..m  BY <2>7, <3>2
      <4>2. LastOf(s, p, m) /\ s[p].name # new.name  BY <2>6, <2>9, <4>1
      <4>3. PICK j \in DOMAIN l : l[j] = s[p]  BY <2>3, <4>1, <4>2
      <4>4. l[j].name # new.name  BY <4>2, <4>3
      <4> QED  BY <2>4, <4>3, <4>4
    <3> QED  BY <3>1, <3>2
  <2>10. Kept(k, s, m + 1)  BY <2>4, <2>8, <2>9 DEF Kept
  <2> QED  BY <2>0, <2>10 DEF k
<1> HIDE DEF S
<1>4. n \in 0..n /\ 0 \in Nat  OBVIOUS
<1>5. \A m \in 0..n : m \in S  BY <1>2, <1>3, <1>4, Counting
<1>6. n \in S  BY <1>4, <1>5
<1> QED  BY <1>1, <1>6 DEF S

(***************************************************************************)
(* Servers                                                                 *)
(***************************************************************************)

(* The lines that open blocks; in order, they are the file's Blocks.       *)
Openings(f) == {k \in DOMAIN f : f[k] = Opening}

(* The blocks of a file are the lines that open one, in order.             *)
LEMMA BlocksAre ==
  ASSUME NEW f \in TextFiles
  PROVE  /\ ToSet(Blocks(f)) = Openings(f)
         /\ Blocks(f) \in Seq(Openings(f))
         /\ \A i, j \in DOMAIN Blocks(f) : i < j => Blocks(f)[i] < Blocks(f)[j]
<1>1. Len(f) \in Nat /\ DOMAIN f = 1..Len(f)  BY DEF TextFiles
<1>2. Openings(f) \in SUBSET (1..Len(f))  BY <1>1 DEF Openings
<1>3. Blocks(f) = InOrder(Openings(f))  BY DEF Blocks, Openings
<1> QED  BY <1>1, <1>2, <1>3, Ordered

(* A block as a well-formed file has it: one listen line of its own, and   *)
(* the root and the methods before the locations.                          *)
ProperBlock(f, n, d, k, e) ==
  /\ ServerBlock(f, n, d, k, e)
  /\ \E j \in Level(f, k) : Keyed(f, k..e, "listen") = {j}
  /\ \A j \in Level(f, k), h \in k..e :
       Locates(f[h]) /\ f[j][1] \in {"root", "allowed_methods"} => j < h

(* The places of the locations of a block.                                 *)
Located(f, k, e) == {j \in k..e : Locates(f[j])}

(* The locations of a block are the location lines within it, in order.    *)
LEMMA LocationsAre ==
  ASSUME NEW f, NEW n, NEW d, NEW k, NEW e, ServerBlock(f, n, d, k, e)
  PROVE  /\ ToSet(LocationsWithin(f, k)) = Located(f, k, e)
         /\ LocationsWithin(f, k) \in Seq(Located(f, k, e))
<1> DEFINE S == {j \in k..e : Locates(f[j])}
<1>1. e \in Nat /\ k \in 1..n /\ n \in Nat  BY InBlock
<1>2. S \in SUBSET (1..e)  BY <1>1
<1>3. Extent(f, k) = k..e  BY BlockLevel
<1>4. LocationsWithin(f, k) = InOrder(S)  BY <1>3 DEF LocationsWithin, Locates
<1> HIDE DEF S
<1>5. InOrder(S) \in Seq(S) /\ ToSet(InOrder(S)) = S  BY <1>1, <1>2, Ordered
<1> QED  BY <1>4, <1>5 DEF S, Located

(* A line that opens a block of a well-formed file opens a proper one.     *)
LEMMA BlockOf ==
  ASSUME NEW f \in TextFiles, WellFormed(f), NEW d, Shape(f, Len(f), d), NEW k \in Openings(f)
  PROVE  \E e : ProperBlock(f, Len(f), d, k, e)
<1> DEFINE n == Len(f)
<1>1. k \in 1..n /\ Begins(f[k])  BY DEF Shape, Openings, Begins
<1>2. d[k] = 1  BY <1>1, Kinds DEF Shape, Plain
<1>3. PICK e : Ends(n, d, k, e)  BY <1>1, <1>2, EndOf
<1>4. ServerBlock(f, n, d, k, e)  BY <1>1, <1>3 DEF ServerBlock
<1> HIDE DEF n
<1>5. Extent(f, k) = k..e /\ ToSet(LocationsWithin(f, k)) = Located(f, k, e)
  <2>1. Extent(f, k) = k..e  BY <1>4, BlockLevel
  <2>2. ToSet(LocationsWithin(f, k)) = Located(f, k, e)  BY <1>4, LocationsAre
  <2> QED  BY <2>1, <2>2
<1>6. k \in ToSet(Blocks(f))  BY BlocksAre
<1>7. /\ \E j \in Level(f, k) : {h \in Extent(f, k) : Has(f[h], "listen")} = {j}
      /\ \A j \in Level(f, k), h \in ToSet(LocationsWithin(f, k)) :
            f[j][1] \in {"root", "allowed_methods"} => j < h
  BY <1>6 DEF WellFormed
<1>8. \E j \in Level(f, k) : Keyed(f, k..e, "listen") = {j}  BY <1>5, <1>7 DEF Keyed
<1>9. \A j \in Level(f, k), h \in k..e :
         Locates(f[h]) /\ f[j][1] \in {"root", "allowed_methods"} => j < h
  BY <1>5, <1>7 DEF Located
<1> QED  BY <1>4, <1>8, <1>9 DEF ProperBlock, n

(* The port of a block.                                                    *)
LEMMA PortLine ==
  ASSUME NEW f, NEW n, NEW d, NEW k, NEW e, ProperBlock(f, n, d, k, e)
  PROVE  \E j \in Level(f, k) :
           /\ Keyed(f, k..e, "listen") = {j} /\ Keyed(f, Level(f, k), "listen") = {j}
           /\ j \in k..e /\ Has(f[j], "listen")
           /\ PortIn(f, k..e) = Numeral[f[j][2]] /\ PortIn(f, Level(f, k)) = Numeral[f[j][2]]
<1>1. PICK j \in Level(f, k) : Keyed(f, k..e, "listen") = {j}  BY DEF ProperBlock
<1>2. n \in Nat /\ k \in 1..n /\ e \in k + 1..n /\ Level(f, k) = {i \in k..e - 1 : d[i] = 1}
  BY InBlock, BlockLevel DEF ProperBlock
<1>3. \A i \in Level(f, k) : i \in k..e  BY <1>2
<1>4. Keyed(f, Level(f, k), "listen") = {j}  BY <1>1, <1>3 DEF Keyed
<1>5. j \in k..e /\ Has(f[j], "listen")  BY <1>1 DEF Keyed
<1>6. \A A : Keyed(f, A, "listen") = {j} => PortIn(f, A) = Numeral[f[j][2]]
  <2> TAKE A
  <2> HAVE Keyed(f, A, "listen") = {j}
  <2>1. j \in Nat /\ j # 0  BY <1>2, <1>5
  <2>2. {j} \cup {0} \in SUBSET Int /\ \A i \in {j} \cup {0} : i <= j  BY <2>1
  <2>3. Max({j} \cup {0}) = j  BY <2>2, MaxIs
  <2>4. LastWith(f, A, "listen") = j  BY <2>3 DEF LastWith, Keyed
  <2> QED  BY <2>1, <2>4 DEF PortIn, Value
<1> QED  BY <1>1, <1>4, <1>5, <1>6

(* The server that a block becomes is the one it means.                    *)
LEMMA ServerMeant ==
  ASSUME NEW f, NEW n, NEW d, NEW k, NEW e, ProperBlock(f, n, d, k, e)
  PROVE  Means(f, k, ServerFrom(f, k))
<1> DEFINE server == ServerFrom(f, k)
           body == BodyLines(f, k)
           L == Level(f, k)
           declared == DeclaredLocations(f, k)
           c == Len(LocationsWithin(f, k))
<1>1. ServerBlock(f, n, d, k, e)  BY DEF ProperBlock
<1>2. /\ body.locations = LocationsWithin(f, k)
      /\ \A key : key # "location" => Keyed(f, body.own, key) = Keyed(f, L, key)
  BY <1>1, OwnLines
<1>3. BlockEnd(f, k) = e  BY <1>1, FindsEnd
<1>4. \A key \in {"root", "allowed_methods"} : Keyed(f, HeadLines(f, k), key) = Keyed(f, L, key)
  BY <1>1, HeadFound DEF ProperBlock
<1> HIDE DEF body, L
<1>5. /\ server.port = PortIn(f, k..BlockEnd(f, k))
      /\ server.limit = LimitIn(f, body.own)
      /\ server.buffer = BufferIn(f, body.own)
      /\ server.settings = SettingsIn(f, <<>>, HeadLines(f, k), body.own)
      /\ server.locations = Locations([i \in DOMAIN body.locations |-> ObtainLoc(f, body.locations[i])])
  BY DEF ServerFrom, body
<1>6. server.port = PortIn(f, L)
  <2>1. PortIn(f, k..e) = PortIn(f, L)  BY PortLine DEF L
  <2> QED  BY <1>3, <1>5, <2>1
<1>7. server.limit = LimitIn(f, L) /\ server.buffer = BufferIn(f, L)
  <2>1. \A key \in {"client_max_body_size", "buffer_size"} :
          LastWith(f, body.own, key) = LastWith(f, L, key)
    BY <1>2, SameValues
  <2> QED  BY <1>5, <2>1 DEF LimitIn, BufferIn, Value
<1>8. server.settings = DeclaredSettings(f, <<>>, k)
  <2>1. \A key \in {"redirect", "index", "autoindex", "error_page"} :
          Keyed(f, body.own, key) = Keyed(f, L, key)
    BY <1>2
  <2>2. SettingsIn(f, <<>>, HeadLines(f, k), body.own) = SettingsIn(f, <<>>, L, L)
    BY <1>4, <2>1, SameSettings
  <2> QED  BY <1>5, <2>2 DEF DeclaredSettings, L
<1>9. c \in Nat /\ DOMAIN LocationsWithin(f, k) = 1..c
      /\ \A i \in 1..c : LocationsWithin(f, k)[i] \in k..e /\ Locates(f[LocationsWithin(f, k)[i]])
  <2>1. LocationsWithin(f, k) \in Seq(Located(f, k, e))  BY <1>1, LocationsAre
  <2> QED  BY <2>1 DEF Located
<1>10. declared = [i \in 1..c |-> DeclaredSettings(f, PathOf[f[LocationsWithin(f, k)[i]][2]],
                                                   LocationsWithin(f, k)[i])]
  BY <1>9 DEF DeclaredLocations
<1>11. [i \in DOMAIN body.locations |-> ObtainLoc(f, body.locations[i])] = declared
  <2> DEFINE places == LocationsWithin(f, k)
  <2> HIDE DEF places, c
  <2>1. \A i \in 1..c : ObtainLoc(f, places[i]) = DeclaredSettings(f, PathOf[f[places[i]][2]], places[i])
    <3> TAKE i \in 1..c
    <3>1. places[i] \in k..e /\ Locates(f[places[i]])  BY <1>9 DEF places
    <3> QED  BY <1>1, <3>1, Obtained
  <2>2. body.locations = places /\ DOMAIN places = 1..c  BY <1>2, <1>9 DEF places
  <2>3. declared = [i \in 1..c |-> DeclaredSettings(f, PathOf[f[places[i]][2]], places[i])]
    BY <1>10 DEF places
  <2> HIDE DEF declared
  <2> QED  BY <2>1, <2>2, <2>3
<1>12. DOMAIN declared = 1..c  BY <1>10
<1> HIDE DEF server, declared, c
<1>13. server.locations = Locations(declared)  BY <1>5, <1>11
<1>14. Kept(server.locations, declared, c)  BY <1>9, <1>12, <1>13, LastKept
<1>15. Len(declared) = c
  <2>1. declared = [i \in 1..c |-> declared[i]]  BY <1>10, <1>12
  <2>2. declared \in Seq({declared[i] : i \in 1..c})  BY <1>9, <2>1
  <2> QED  BY <1>9, <1>12, <2>2
<1>16. \A i \in 1..c : LastOf(declared, i, c) <=>
         \A m \in i + 1..Len(declared) : declared[m].name # declared[i].name
  BY <1>15 DEF LastOf
<1>17. ToSet(server.locations) =
         {declared[i] : i \in {j \in DOMAIN declared :
            \A m \in j + 1..Len(declared) : declared[m].name # declared[j].name}}
  <2>1. ToSet(server.locations) = {declared[i] : i \in {j \in 1..c : LastOf(declared, j, c)}}
    BY <1>14 DEF Kept, ToSet
  <2>2. {j \in DOMAIN declared : \A m \in j + 1..Len(declared) : declared[m].name # declared[j].name}
          = {j \in 1..c : LastOf(declared, j, c)}
    BY <1>12, <1>16
  <2> QED  BY <2>1, <2>2
<1> QED  BY <1>6, <1>7, <1>8, <1>17 DEF Means, server, declared, L

(***************************************************************************)
(* setConf()                                                               *)
(***************************************************************************)

(* What ExtraBrackets() counts, and what a line adds to it.                *)
Balance(f, j) ==
  Cardinality({h \in 1..j : Has(f[h], "location")}) - Cardinality({h \in 1..j : f[h] = Closing})

(* The balance changes with location lines and closing lines alone.        *)
LEMMA Balanced ==
  ASSUME NEW f, NEW n \in Nat
  PROVE  /\ Balance(f, 0) = 0
         /\ \A j \in 0..n :
              /\ Balance(f, j) \in Int
              /\ Balance(f, j + 1) = Balance(f, j) + (IF Locates(f[j + 1]) THEN 1 ELSE 0)
                                       - (IF Closes(f[j + 1]) THEN 1 ELSE 0)
<1> DEFINE L == {j \in Nat : Has(f[j], "location")}
           C == {j \in Nat : f[j] = Closing}
           l(j) == Cardinality(L \cap (1..j))
           c(j) == Cardinality(C \cap (1..j))
<1>1. \A j \in 0..n + 1 : Balance(f, j) = l(j) - c(j)
  <2> TAKE j \in 0..n + 1
  <2>1. {h \in 1..j : Has(f[h], "location")} = L \cap (1..j)  OBVIOUS
  <2>2. {h \in 1..j : f[h] = Closing} = C \cap (1..j)  OBVIOUS
  <2> QED  BY <2>1, <2>2 DEF Balance
<1>2. l(0) = 0 /\ c(0) = 0
  <2>1. L \cap (1..0) = {} /\ C \cap (1..0) = {}  OBVIOUS
  <2> QED  BY <2>1, FS_EmptySet
<1>3. \A j \in 0..n :
        /\ l(j) \in Nat /\ c(j) \in Nat
        /\ l(j + 1) = l(j) + (IF Locates(f[j + 1]) THEN 1 ELSE 0)
        /\ c(j + 1) = c(j) + (IF Closes(f[j + 1]) THEN 1 ELSE 0)
  <2> TAKE j \in 0..n
  <2>1. j \in Int /\ 1 \in Int /\ 1 <= j + 1 /\ j + 1 \in Nat  OBVIOUS
  <2>2. j + 1 \in L <=> Locates(f[j + 1])  BY <2>1 DEF Locates
  <2>3. j + 1 \in C <=> Closes(f[j + 1])  BY <2>1 DEF Closes
  <2> HIDE DEF L, C
  <2>4. /\ l(j) \in Nat
        /\ l(j + 1) = l(j) + (IF j + 1 \in L THEN 1 ELSE 0)
    BY <2>1, CountStep
  <2>5. /\ c(j) \in Nat
        /\ c(j + 1) = c(j) + (IF j + 1 \in C THEN 1 ELSE 0)
    BY <2>1, CountStep
  <2> QED  BY <2>2, <2>3, <2>4, <2>5
<1> HIDE DEF l, c
<1>4. \A j \in 0..n : j \in 0..n + 1 /\ j + 1 \in 0..n + 1  OBVIOUS
<1>5. 0 \in 0..n + 1  OBVIOUS
<1>6. Balance(f, 0) = 0  BY <1>1, <1>2, <1>5
<1>7. ASSUME NEW j \in 0..n
      PROVE  /\ Balance(f, j) \in Int
             /\ Balance(f, j + 1) = Balance(f, j) + (IF Locates(f[j + 1]) THEN 1 ELSE 0)
                                      - (IF Closes(f[j + 1]) THEN 1 ELSE 0)
  <2>1. Balance(f, j) = l(j) - c(j) /\ Balance(f, j + 1) = l(j + 1) - c(j + 1)  BY <1>1, <1>4
  <2> QED  BY <1>3, <2>1
<1> QED  BY <1>6, <1>7

(* Where a location or a server is open, it is above its least by as much  *)
(* as is open within the server.                                           *)
LEMMA LeastBalance ==
  ASSUME NEW f, NEW n, NEW d, Shape(f, n, d)
  PROVE  \A j \in 0..n : \A i \in 0..j :
           Balance(f, i) >= Balance(f, j) - (IF d[j] = 0 THEN 0 ELSE d[j] - 1)
<1>1. n \in Nat /\ \A j \in 0..n : d[j] \in 0..2  BY DEF Shape
<1> DEFINE b(j) == Balance(f, j)
           up(j) == IF d[j] = 0 THEN 0 ELSE d[j] - 1
           S == {j \in 0..n : \A i \in 0..j : b(i) >= b(j) - up(j)}
<1>2. \A j \in 0..n :
        /\ b(j) \in Int
        /\ b(j + 1) = b(j) + (IF Locates(f[j + 1]) THEN 1 ELSE 0)
                        - (IF Closes(f[j + 1]) THEN 1 ELSE 0)
  BY <1>1, Balanced
<1> HIDE DEF b
<1>3. 0 \in S
  <2>1. \A i \in 0..0 : i = 0  OBVIOUS
  <2>2. 0 \in 0..n /\ d[0] \in 0..2 /\ b(0) \in Int  BY <1>1, <1>2
  <2>3. b(0) >= b(0) - up(0)  BY <2>2
  <2> QED  BY <2>1, <2>2, <2>3
<1>4. ASSUME NEW j \in 0..n - 1, j \in S PROVE j + 1 \in S
  <2>1. j \in 0..n /\ j + 1 \in 1..n /\ j + 1 \in 0..n /\ (j + 1) - 1 = j  BY <1>1
  <2>2. \A i \in 0..j : b(i) >= b(j) - up(j)  BY <1>4
  <2>3. \/ Begins(f[j + 1]) /\ d[j] = 0 /\ d[j + 1] = 1
        \/ Locates(f[j + 1]) /\ d[j] = 1 /\ d[j + 1] = 2
        \/ Closes(f[j + 1]) /\ d[j] # 0 /\ d[j + 1] = d[j] - 1
        \/ Plain(f[j + 1]) /\ d[j] # 0 /\ d[j + 1] = d[j]
    BY <2>1 DEF Shape
  <2>4. /\ Begins(f[j + 1]) => ~Locates(f[j + 1]) /\ ~Closes(f[j + 1])
        /\ Closes(f[j + 1]) => ~Locates(f[j + 1])
    BY Kinds
  <2>5. d[j] \in 0..2 /\ d[j + 1] \in 0..2 /\ b(j) \in Int /\ b(j + 1) \in Int  BY <1>1, <1>2, <2>1
  <2>6. b(j + 1) = b(j) + (IF Locates(f[j + 1]) THEN 1 ELSE 0) - (IF Closes(f[j + 1]) THEN 1 ELSE 0)
    BY <1>2, <2>1
  <2>7. b(j) - up(j) >= b(j + 1) - up(j + 1)
    <3>1. CASE Begins(f[j + 1])  BY <2>3, <2>4, <2>5, <2>6, <3>1 DEF Plain
    <3>2. CASE Locates(f[j + 1])  BY <2>3, <2>4, <2>5, <2>6, <3>2 DEF Plain
    <3>3. CASE Closes(f[j + 1])  BY <2>3, <2>4, <2>5, <2>6, <3>3 DEF Plain
    <3>4. CASE Plain(f[j + 1])  BY <2>3, <2>4, <2>5, <2>6, <3>4 DEF Plain
    <3> QED  BY <3>1, <3>2, <3>3, <3>4 DEF Plain
  <2>8. up(j) \in Int /\ up(j + 1) \in Nat  BY <2>5
  <2> HIDE DEF up
  <2>9. \A i \in 0..j + 1 : b(i) >= b(j + 1) - up(j + 1)
    <3> TAKE i \in 0..j + 1
    <3>1. CASE i = j + 1  BY <2>5, <2>8, <3>1
    <3>2. CASE i # j + 1
      <4>1. i \in 0..j /\ i \in 0..n  BY <1>1, <2>1, <3>2
      <4>2. b(i) >= b(j) - up(j) /\ b(i) \in Int  BY <1>2, <2>2, <4>1
      <4> QED  BY <2>5, <2>7, <2>8, <4>2
    <3> QED  BY <3>1, <3>2
  <2> QED  BY <2>1, <2>9
<1> HIDE DEF S
<1>5. \A j \in 0..n : j \in S
  <2>1. 0 \in Nat  OBVIOUS
  <2> QED  BY <1>1, <1>3, <1>4, <2>1, Counting
<1> QED  BY <1>5 DEF S, b

(* Within the first server it is the depth itself, but for one.            *)
LEMMA FirstBalance ==
  ASSUME NEW f, NEW n, NEW d, NEW e, ServerBlock(f, n, d, 1, e)
  PROVE  \A j \in 1..e : Balance(f, j) \in Int /\ Balance(f, j) = d[j] - 1
<1>1. /\ n \in Nat /\ e \in 2..n /\ d[1] = 1 /\ ~Locates(f[1]) /\ ~Closes(f[1])
      /\ \A j \in 1..e - 1 : d[j] \in 1..2
      /\ \A j \in 2..e :
              \/ Locates(f[j]) /\ d[j - 1] = 1 /\ d[j] = 2 /\ ~Closes(f[j])
              \/ Closes(f[j]) /\ d[j - 1] # 0 /\ d[j] = d[j - 1] - 1 /\ ~Locates(f[j])
              \/ Plain(f[j]) /\ d[j - 1] # 0 /\ d[j] = d[j - 1] /\ ~Locates(f[j]) /\ ~Closes(f[j])
  <2>1. 1 + 1 = 2  OBVIOUS
  <2> QED  BY <2>1, InBlock
<1> DEFINE b(j) == Balance(f, j)
           S == {j \in 1..e : b(j) \in Int /\ b(j) = d[j] - 1}
<1>2. /\ b(0) = 0
      /\ \A j \in 0..n :
        /\ b(j) \in Int
        /\ b(j + 1) = b(j) + (IF Locates(f[j + 1]) THEN 1 ELSE 0)
                        - (IF Closes(f[j + 1]) THEN 1 ELSE 0)
  BY <1>1, Balanced
<1> HIDE DEF b
<1>3. 1 \in S
  <2>1. 0 \in 0..n /\ 0 + 1 = 1 /\ 1 \in 1..e  BY <1>1
  <2>2. b(0 + 1) = b(0) + (IF Locates(f[0 + 1]) THEN 1 ELSE 0) - (IF Closes(f[0 + 1]) THEN 1 ELSE 0)
    BY <1>2, <2>1
  <2>3. b(1) = 0  BY <1>1, <1>2, <2>1, <2>2
  <2> QED  BY <1>1, <2>1, <2>3
<1>4. ASSUME NEW j \in 1..e - 1, j \in S PROVE j + 1 \in S
  <2>1. j \in 0..n /\ j + 1 \in 2..e /\ j + 1 \in 1..e /\ (j + 1) - 1 = j  BY <1>1
  <2>2. b(j) \in Int /\ b(j) = d[j] - 1 /\ d[j] \in 1..2  BY <1>1, <1>4
  <2>3. b(j + 1) = b(j) + (IF Locates(f[j + 1]) THEN 1 ELSE 0) - (IF Closes(f[j + 1]) THEN 1 ELSE 0)
    BY <1>2, <2>1
  <2>4. \/ Locates(f[j + 1]) /\ d[j] = 1 /\ d[j + 1] = 2 /\ ~Closes(f[j + 1])
        \/ Closes(f[j + 1]) /\ d[j + 1] = d[j] - 1 /\ ~Locates(f[j + 1])
        \/ d[j + 1] = d[j] /\ ~Locates(f[j + 1]) /\ ~Closes(f[j + 1])
    BY <1>1, <2>1
  <2>5. b(j + 1) \in Int /\ b(j + 1) = d[j + 1] - 1  BY <2>2, <2>3, <2>4
  <2> QED  BY <2>1, <2>5
<1> HIDE DEF S
<1>5. \A j \in 1..e : j \in S
  <2>1. 1 \in Nat /\ e \in Nat  BY <1>1
  <2> QED  BY <1>3, <1>4, <2>1, Counting
<1> QED  BY <1>5 DEF S, b

(* setConf() has nothing to say of a well-formed file.                     *)
LEMMA Accepted ==
  ASSUME NEW f \in TextFiles, WellFormed(f)
  PROVE  Verdicts(f) = {"create"}
<1> DEFINE n == Len(f)
<1>1. PICK d : Shape(f, n, d)  BY ShapeOf
<1>2. /\ n \in Nat \ {0} /\ DOMAIN f = 1..n /\ d[0] = 0 /\ d[n] = 0 /\ Len(f) = n
      /\ \A j \in 0..n : d[j] \in 0..2 /\ Braces(f, j) = d[j]
      /\ \A k \in 1..n :
          \/ Begins(f[k]) /\ d[k - 1] = 0 /\ d[k] = 1
          \/ Locates(f[k]) /\ d[k - 1] = 1 /\ d[k] = 2
          \/ Closes(f[k]) /\ d[k - 1] # 0 /\ d[k] = d[k - 1] - 1
          \/ Plain(f[k]) /\ d[k - 1] # 0 /\ d[k] = d[k - 1]
  <2> HIDE DEF n
  <2> QED  BY <1>1 DEF Shape
<1>3. \A k \in Openings(f) : \E e : ProperBlock(f, n, d, k, e)  BY <1>1, BlockOf
<1>4. Occurrences(f, Open) = Occurrences(f, Close)
  <2>1. f \in Seq(Seq(STRING) \ {<<>>})  BY DEF TextFiles
  <2>2. SubSeq(f, 1, n) = f  BY <2>1
  <2>3. /\ Occurrences(SubSeq(f, 1, n), Open) \in Nat
        /\ Occurrences(SubSeq(f, 1, n), Close) \in Nat
    <3>1. n \in 0..Len(f)  BY <1>2
    <3> HIDE DEF n
    <3> QED  BY <3>1, PlacesGrow
  <2>4. n \in 0..n  BY <1>2
  <2>5. Braces(f, n) = 0  BY <1>2, <2>4
  <2> HIDE DEF n
  <2> DEFINE a == Occurrences(f, Open)
             b == Occurrences(f, Close)
  <2>6. a \in Nat /\ b \in Nat  BY <2>2, <2>3
  <2>7. a - b = 0  BY <2>2, <2>5 DEF Braces
  <2> HIDE DEF a, b
  <2>8. a = b  BY <2>6, <2>7
  <2> QED  BY <2>8 DEF a, b
<1> HIDE DEF n
<1>5. 1 \in Openings(f)
  <2>1. 1 \in 1..n /\ 1 - 1 = 0  BY <1>2
  <2>2. Begins(f[1])  BY <1>2, <2>1
  <2> QED  BY <1>2, <2>1, <2>2 DEF Openings, Begins
<1>6. f[1] = Opening  BY <1>5 DEF Openings
<1>7. ASSUME NEW k \in 2..n, f[k] = Closing, f[k - 1] = Opening PROVE FALSE
  <2>1. k - 1 \in 1..n /\ (k - 1) + 1 = k  BY <1>2
  <2>2. k - 1 \in Openings(f)  BY <1>2, <1>7, <2>1 DEF Openings
  <2>3. PICK e : ProperBlock(f, n, d, k - 1, e)  BY <1>3, <2>2
  <2>4. PICK j \in Level(f, k - 1) : Has(f[j], "listen")  BY <2>3, PortLine
  <2>5. /\ e \in k..n /\ d[k - 1] = 1 /\ Level(f, k - 1) = {i \in k - 1..e - 1 : d[i] = 1}
        /\ \A i \in k - 1..e - 1 : d[i] \in 1..2
    <3>1. ServerBlock(f, n, d, k - 1, e)  BY <2>3 DEF ProperBlock
    <3> QED  BY <2>1, <3>1, InBlock, BlockLevel
  <2>6. d[k] = 0
    <3>1. Closes(f[k])  BY <1>7 DEF Closes
    <3>2. k \in 1..n  BY <1>2
    <3>3. ~Locates(f[k]) /\ ~Begins(f[k]) /\ ~Plain(f[k])  BY <3>1, Kinds DEF Plain
    <3> QED  BY <1>2, <2>5, <3>2, <3>3
  <2>7. k = e
    <3>1. k \notin k - 1..e - 1  BY <2>5, <2>6
    <3> QED  BY <1>2, <2>5, <3>1
  <2>8. j = k - 1  BY <1>2, <2>5, <2>7
  <2>9. Begins(f[j])  BY <1>7, <2>8 DEF Begins
  <2> QED  BY <2>4, <2>9, Kinds DEF Has
<1>8. ASSUME NEW k \in 2..n, Stop(f, k) PROVE ListenSeen(f, k)
  <2>1. PICK e : ProperBlock(f, n, d, 1, e)  BY <1>3, <1>5
  <2>2. PICK j \in 1..e : Has(f[j], "listen")  BY <2>1, PortLine
  <2>3. ServerBlock(f, n, d, 1, e)  BY <2>1 DEF ProperBlock
  <2>4. /\ e \in 2..n /\ \A i \in 2..e : ~Begins(f[i])
        /\ \A i \in 1..e - 1 : d[i] \in 1..2
    <3>1. 1 + 1 = 2  OBVIOUS
    <3> QED  BY <2>3, <3>1, InBlock
  <2>5. f[j] # Opening /\ f[j] # Closing /\ f[j][1] = "listen"
    <3>1. ~Closes(f[j])  BY <2>2, ClosingSaysNothing
    <3>2. f[j][1] = "listen"  BY <2>2 DEF Has
    <3>3. ~Begins(f[j])  BY <3>2, Kinds
    <3> QED  BY <3>1, <3>2, <3>3 DEF Begins, Closes
  <2>6. MinimalRequirements(f, j)
    <3>1. j \in j..Len(f) /\ \A h \in j..j : h = j  BY <1>2, <2>4
    <3> QED  BY <2>5, <3>1 DEF MinimalRequirements
  <2>7. ASSUME k < j PROVE FALSE
    <3>1. k \in 2..e /\ k \in 1..n /\ k \in 1..e - 1 /\ k - 1 \in 1..e /\ k - 1 \in 1..e - 1
          /\ k - 1 \in 0..n /\ e \in Nat
      BY <1>2, <2>4, <2>7
    <3>2. Closes(f[k]) /\ ExtraBrackets(f, k - 1) = 0  BY <1>8, <2>4, <3>1 DEF Stop, Begins, Closes
    <3>3. d[k] = d[k - 1] - 1
      <4>1. ~Locates(f[k]) /\ ~Begins(f[k]) /\ ~Plain(f[k])  BY <3>2, Kinds DEF Plain
      <4> QED  BY <1>2, <3>1, <4>1
    <3>4. d[k - 1] = 2  BY <2>4, <3>1, <3>3
    <3>5. \A i \in 1..e : Balance(f, i) \in Int /\ Balance(f, i) = d[i] - 1  BY <2>3, FirstBalance
    <3>6. Balance(f, k - 1) = 1  BY <3>1, <3>4, <3>5
    <3> DEFINE B == {Balance(f, i) : i \in 0..k - 1}
    <3>7. Balance(f, 0) = 0 /\ Balance(f, 0) \in B
      <4>1. Balance(f, 0) = 0  BY <1>2, Balanced
      <4>2. 0 \in 0..k - 1  BY <1>2
      <4> QED  BY <4>1, <4>2
    <3>8. Min(B) \in Int /\ Min(B) <= 0
      <4>1. \A i \in 0..k - 1 : i = 0 \/ i \in 1..e  BY <2>4, <3>1
      <4>2. \A i \in 1..e : i \in 0..n  BY <1>2, <2>4
      <4>3. \A b \in B : b = 0 \/ b \in {0, 1, -1}
        <5> TAKE b \in B
        <5>1. PICK i \in 0..k - 1 : b = Balance(f, i)  OBVIOUS
        <5> HIDE DEF B
        <5>2. CASE i = 0  BY <3>7, <5>1, <5>2
        <5>3. CASE i \in 1..e
          <6>1. d[i] \in 0..2 /\ b = d[i] - 1  BY <1>2, <3>5, <4>2, <5>1, <5>3
          <6> QED  BY <6>1
        <5> QED  BY <4>1, <5>2, <5>3
      <4> HIDE DEF B
      <4>4. 0 \in B  BY <3>7
      <4>5. \E m \in B : \A b \in B : m <= b
        <5>1. CASE -1 \in B  BY <4>3, <5>1
        <5>2. CASE -1 \notin B  BY <4>3, <4>4, <5>2
        <5> QED  BY <5>1, <5>2
      <4>6. PICK m \in B : \A b \in B : m <= b  BY <4>5
      <4>7. B \in SUBSET Int  BY <4>3
      <4>8. Min(B) = m  BY <4>6, <4>7, MinIs
      <4> QED  BY <4>4, <4>6, <4>7, <4>8
    <3>9. ExtraBrackets(f, k - 1) = Balance(f, k - 1) - Min(B)  BY DEF ExtraBrackets, Balance
    <3> HIDE DEF B
    <3>10. Min(B) = 1
      <4>1. 0 = 1 - Min(B)  BY <3>2, <3>6, <3>9
      <4> QED  BY <3>8, <4>1
    <3> QED  BY <3>8, <3>10
  <2>8. j \in 1..k  BY <1>2, <2>4, <2>7
  <2> QED  BY <2>5, <2>6, <2>8 DEF ListenSeen
<1>9. ~SetConfThrows(f)  BY <1>2, <1>4, <1>6, <1>7, <1>8 DEF SetConfThrows
<1>10. f[n] = Closing /\ d[n - 1] = 1
  <2>1. n \in 1..n /\ n - 1 \in 0..n  BY <1>2
  <2>2. \/ Begins(f[n]) /\ d[n - 1] = 0 /\ d[n] = 1
        \/ Locates(f[n]) /\ d[n - 1] = 1 /\ d[n] = 2
        \/ Closes(f[n]) /\ d[n - 1] # 0 /\ d[n] = d[n - 1] - 1
        \/ Plain(f[n]) /\ d[n - 1] # 0 /\ d[n] = d[n - 1]
    BY <1>2, <2>1
  <2>3. d[n - 1] \in 0..2  BY <1>2, <2>1
  <2>4. Closes(f[n]) /\ d[n - 1] = 1  BY <1>2, <2>2, <2>3
  <2> QED  BY <2>4 DEF Closes
<1>11. ExtraBrackets(f, n - 1) = 0
  <2> DEFINE B == {Balance(f, i) : i \in 0..n - 1}
             m == n - 1
  <2>1. m \in 0..n /\ m \in 0..m /\ d[m] = 1  BY <1>2, <1>10
  <2>2. \A i \in 0..m : Balance(f, i) >= Balance(f, m) - (IF d[m] = 0 THEN 0 ELSE d[m] - 1)
    BY <1>1, <2>1, LeastBalance
  <2>3. \A i \in 0..m : Balance(f, i) \in Int
    <3>1. \A i \in 0..n : Balance(f, i) \in Int  BY <1>2, Balanced
    <3>2. \A i \in 0..m : i \in 0..n  BY <1>2
    <3> QED  BY <3>1, <3>2
  <2>4. \A i \in 0..m : Balance(f, m) <= Balance(f, i)
    <3> TAKE i \in 0..m
    <3>1. Balance(f, i) \in Int /\ Balance(f, m) \in Int  BY <2>1, <2>3
    <3>2. Balance(f, i) >= Balance(f, m) - 0  BY <2>1, <2>2
    <3> QED  BY <3>1, <3>2
  <2>5. B \in SUBSET Int /\ Balance(f, m) \in B /\ \A b \in B : Balance(f, m) <= b
    BY <2>1, <2>3, <2>4
  <2>6. ExtraBrackets(f, m) = Balance(f, m) - Min(B)  BY DEF ExtraBrackets, Balance
  <2> HIDE DEF B, m
  <2>7. Min(B) = Balance(f, m)  BY <2>5, MinIs
  <2>8. Balance(f, m) \in Int  BY <2>1, <2>3
  <2>9. ExtraBrackets(f, m) = 0  BY <2>6, <2>7, <2>8
  <2> QED  BY <2>9 DEF m
<1>12. Last(f) = Closing /\ Stop(f, Len(f))
  <2>1. Last(f) = f[n]  BY DEF Last, n
  <2> QED  BY <1>2, <1>10, <1>11, <2>1 DEF Stop
<1>13. f # <<>>  BY DEF WellFormed
<1> QED  BY <1>9, <1>12, <1>13 DEF Verdicts

(***************************************************************************)
(* The constructor                                                         *)
(***************************************************************************)

(* The keys of lines that the readers refuse.                              *)
Keys == {"listen", "client_max_body_size", "buffer_size", "root", "redirect", "cgi",
         "autoindex", "allowed_methods", "error_page", "index", "location"}

(* Only a line with one of the keys is invalid.                            *)
LEMMA InvalidKey ==
  ASSUME NEW line, NEW root, Invalid(line, root)
  PROVE  \E key \in Keys : Has(line, key)
BY DEF Invalid, Keys

(* The root matters to index lines alone.                                  *)
LEMMA InvalidAnywhere ==
  ASSUME NEW line, NEW root, NEW other, Invalid(line, root), ~Has(line, "index")
  PROVE  Invalid(line, other)
BY DEF Invalid

(* What a limit reads as.                                                  *)
LimitsRead(f) ==
  \A k \in DOMAIN f : Has(f[k], "client_max_body_size") =>
    Numeral[f[k][2]] \in Nat /\ Unit[f[k][2]] \in {1, 1024, 1048576}

(* A limit that is read as too large is; the converse, unless it wraps.    *)
LEMMA LimitRead ==
  ASSUME NEW word, Numeral[word] \in Nat, Unit[word] \in {1, 1024, 1048576}
  PROVE  /\ BodySize(word) > MaxBodySize => TooLarge(word)
         /\ TooLarge(word) /\ ~(Unit[word] > 1 /\ Numeral[word] > 2147483647 \div Unit[word])
              => BodySize(word) > MaxBodySize
<1> DEFINE x == Numeral[word]
<1>1. x \in Nat  OBVIOUS
<1>2. CASE Unit[word] = 1
  <2>1. BodySize(word) = x  BY <1>2 DEF BodySize
  <2>2. TooLarge(word) <=> x > 1048576 \div 1  BY <1>2 DEF TooLarge, MaxBodySize
  <2> HIDE DEF x
  <2>3. 1048576 \div 1 = 1048576  OBVIOUS
  <2> QED  BY <1>1, <2>1, <2>2, <2>3 DEF MaxBodySize
<1>3. CASE Unit[word] = 1024
  <2>1. BodySize(word) = (((x + (2147483647 \div 1024 + 1)) % (2 * (2147483647 \div 1024 + 1)))
                             - (2147483647 \div 1024 + 1)) * 1024
    BY <1>3 DEF BodySize
  <2>2. TooLarge(word) <=> x > 1048576 \div 1024  BY <1>3 DEF TooLarge, MaxBodySize
  <2>3. Unit[word] > 1 /\ Numeral[word] > 2147483647 \div Unit[word] <=> x > 2147483647 \div 1024
    BY <1>3
  <2> HIDE DEF x
  <2>4. 2147483647 \div 1024 = 2097151 /\ 1048576 \div 1024 = 1024  OBVIOUS
  <2>5. BodySize(word) = (((x + 2097152) % 4194304) - 2097152) * 1024  BY <2>1, <2>4
  <2>6. x <= 2097151 => (x + 2097152) % 4194304 = x + 2097152  BY <1>1
  <2>7. x <= 2097151 => BodySize(word) = x * 1024  BY <1>1, <2>5, <2>6
  <2> QED  BY <1>1, <2>2, <2>3, <2>4, <2>7 DEF MaxBodySize
<1>4. CASE Unit[word] = 1048576
  <2>1. BodySize(word) = (((x + (2147483647 \div 1048576 + 1)) % (2 * (2147483647 \div 1048576 + 1)))
                             - (2147483647 \div 1048576 + 1)) * 1048576
    BY <1>4 DEF BodySize
  <2>2. TooLarge(word) <=> x > 1048576 \div 1048576  BY <1>4 DEF TooLarge, MaxBodySize
  <2>3. Unit[word] > 1 /\ Numeral[word] > 2147483647 \div Unit[word] <=> x > 2147483647 \div 1048576
    BY <1>4
  <2> HIDE DEF x
  <2>4. 2147483647 \div 1048576 = 2047 /\ 1048576 \div 1048576 = 1  OBVIOUS
  <2>5. BodySize(word) = (((x + 2048) % 4096) - 2048) * 1048576  BY <2>1, <2>4
  <2>6. x <= 2047 => (x + 2048) % 4096 = x + 2048  BY <1>1
  <2>7. x <= 2047 => BodySize(word) = x * 1048576  BY <1>1, <2>5, <2>6
  <2> QED  BY <1>1, <2>2, <2>3, <2>4, <2>7 DEF MaxBodySize
<1> QED  BY <1>2, <1>3, <1>4

(* Each location is in a server.                                           *)
LEMMA LocationsInBlocks ==
  ASSUME NEW f \in TextFiles, WellFormed(f), NEW d, Shape(f, Len(f), d),
         NEW j \in DOMAIN f, Locates(f[j])
  PROVE  \E k \in Openings(f) : \E e : ProperBlock(f, Len(f), d, k, e) /\ j \in k..e
<1> DEFINE n == Len(f)
           S == {k \in 0..j : k \in Openings(f)}
<1>1. /\ n \in Nat /\ DOMAIN f = 1..n /\ j \in 1..n /\ d[0] = 0
      /\ \A i \in 0..n : d[i] \in 0..2
      /\ \A k \in 1..n :
          \/ Begins(f[k]) /\ d[k - 1] = 0 /\ d[k] = 1
          \/ Locates(f[k]) /\ d[k - 1] = 1 /\ d[k] = 2
          \/ Closes(f[k]) /\ d[k - 1] # 0 /\ d[k] = d[k - 1] - 1
          \/ Plain(f[k]) /\ d[k - 1] # 0 /\ d[k] = d[k - 1]
  BY DEF Shape
<1> HIDE DEF n
<1>2. 1 \in S
  <2>1. 1 \in 1..n /\ 1 - 1 = 0 /\ 1 \in 0..j  BY <1>1
  <2>2. Begins(f[1])  BY <1>1, <2>1
  <2> QED  BY <1>1, <2>1, <2>2 DEF Openings, Begins
<1>3. PICK k \in S : \A i \in S : i <= k
  <2>1. S \in SUBSET (0..j) /\ j \in Nat  BY <1>1
  <2> HIDE DEF S
  <2> QED  BY <1>2, <2>1, GreatestExists
<1>4. k \in Openings(f) /\ k <= j  BY <1>1
<1>5. PICK e : ProperBlock(f, n, d, k, e)  BY <1>4, BlockOf DEF n
<1>6. /\ k \in 1..n /\ e \in k + 1..n /\ d[e] = 0
  BY <1>5, InBlock DEF ProperBlock
<1>7. ASSUME e < j PROVE FALSE
  <2>1. e + 1 \in 1..n /\ (e + 1) - 1 = e /\ e + 1 \in 0..j /\ ~(e + 1 <= k)  BY <1>1, <1>6, <1>7
  <2>2. Begins(f[e + 1])  BY <1>1, <1>6, <2>1
  <2>3. e + 1 \in S  BY <1>1, <2>1, <2>2 DEF Openings, Begins
  <2> QED  BY <1>3, <2>1, <2>3
<1>8. j \in k..e  BY <1>1, <1>4, <1>6, <1>7
<1> QED  BY <1>4, <1>5, <1>8 DEF n

(* The root of a location is the one declared.                             *)
LEMMA RootOfLocation ==
  ASSUME NEW f, NEW n, NEW d, NEW k, NEW e, ServerBlock(f, n, d, k, e),
         NEW j \in k..e, Locates(f[j])
  PROVE  /\ Value(f, LocationLines(f, j), "root", RootOf, DefaultRoot) = DeclaredRoot(f, j)
         /\ \A key : Keyed(f, LocationLines(f, j), key) = Keyed(f, Level(f, j), key)
<1>1. PICK g \in j + 1..e - 1 :
         Closes(f[g]) /\ Level(f, j) = j..g - 1 /\ LocationLines(f, j) = j..g
  BY LocationInBlock
<1>2. j \in Nat /\ e \in Nat  BY InBlock
<1>3. \A key : Keyed(f, j..g, key) = Keyed(f, j..g - 1, key)
  <2>1. \A i : i \in j..g <=> i \in j..g - 1 \/ i = g  BY <1>2
  <2>2. \A key : ~Has(f[g], key)  BY <1>1, ClosingSaysNothing
  <2> QED  BY <2>1, <2>2 DEF Keyed
<1>4. LastWith(f, j..g, "root") = LastWith(f, j..g - 1, "root")  BY <1>3, SameValues
<1> QED  BY <1>1, <1>3, <1>4 DEF DeclaredRoot, Value

(* What makes a file readable, line by line and block by block.            *)
Port(f, k) == PortIn(f, Level(f, k))
(* Line j of the block or location that line k begins.                     *)
LineFits(f, k, j) ==
  IF Has(f[j], "client_max_body_size") /\ k \in Openings(f) THEN ~TooLarge(f[j][2])
  ELSE \/ k \notin Openings(f) /\ f[j][1] \in {"client_max_body_size", "buffer_size"}
       \/ ~Invalid(f[j], DeclaredRoot(f, k))
(* Ports are free, and no two blocks have the same.                        *)
PortsFit(f) ==
  \A k \in Openings(f) :
    Port(f, k) \notin Taken /\ \A j \in Openings(f) \ {k} : Port(f, j) # Port(f, k)

(* What the readers do not refuse; a limit is taken as it is written.      *)
Readable(f) ==
  LET starts == ToSet(Blocks(f))
      places == starts \cup {k \in DOMAIN f : Has(f[k], "location")}
      port == [k \in starts |-> PortIn(f, Level(f, k))]
  IN /\ \A k \in places : \A j \in Level(f, k) :
          LET size == Has(f[j], "client_max_body_size")
          IN IF size /\ k \in starts THEN ~TooLarge(f[j][2])
             ELSE \/ k \notin starts /\ f[j][1] \in {"client_max_body_size", "buffer_size"}
                  \/ ~Invalid(f[j], DeclaredRoot(f, k))
     /\ \A k \in starts : port[k] \notin Taken /\ \A j \in starts \ {k} : port[j] # port[k]

(* The same, line by line and block by block.                              *)
LEMMA ReadableIs ==
  ASSUME NEW f \in TextFiles
  PROVE  Readable(f) <=>
           /\ \A k \in DOMAIN f : k \in Openings(f) \/ Locates(f[k]) =>
                \A j \in Level(f, k) : LineFits(f, k, j)
           /\ PortsFit(f)
<1> DEFINE starts == ToSet(Blocks(f))
           places == starts \cup {k \in DOMAIN f : Has(f[k], "location")}
           port == [k \in starts |-> PortIn(f, Level(f, k))]
           A == \A k \in places : \A j \in Level(f, k) :
                  IF Has(f[j], "client_max_body_size") /\ k \in starts THEN ~TooLarge(f[j][2])
                  ELSE \/ k \notin starts /\ f[j][1] \in {"client_max_body_size", "buffer_size"}
                       \/ ~Invalid(f[j], DeclaredRoot(f, k))
           B == \A k \in starts : port[k] \notin Taken /\ \A j \in starts \ {k} : port[j] # port[k]
<1>1. starts = Openings(f)  BY BlocksAre
<1>2. Readable(f) <=> A /\ B  BY DEF Readable
<1>3. B <=> PortsFit(f)
  <2>1. \A k \in starts : port[k] = Port(f, k)  BY DEF Port
  <2> HIDE DEF starts, port
  <2> QED  BY <1>1, <2>1 DEF PortsFit
<1>4. \A k : k \in places <=> k \in DOMAIN f /\ (k \in Openings(f) \/ Locates(f[k]))
  <2> HIDE DEF starts
  <2> QED  BY <1>1 DEF Openings, Locates
<1> HIDE DEF starts, places, port
<1>5. A <=> \A k \in places : \A j \in Level(f, k) : LineFits(f, k, j)
  BY <1>1 DEF LineFits
<1> HIDE DEF A, B
<1> QED  BY <1>2, <1>3, <1>4, <1>5

(* A block is read to its end, and its port is the one listened on.        *)
LEMMA BlockRead ==
  ASSUME NEW f, NEW n, NEW d, NEW k, NEW e, ProperBlock(f, n, d, k, e),
         \A j \in k..e : Locates(f[j]) => Len(f[j]) = 3
  PROVE  /\ ~ReadsBeyond(f, k)
         /\ PortIn(f, k..BlockEnd(f, k)) = Port(f, k)
         /\ PortsOf(f, k) = {Port(f, k)}
         /\ \A ports : CannotBind(f, k, ports) <=> Port(f, k) \in ports
         /\ BehindServer(f, k) = e + 1
<1>1. ServerBlock(f, n, d, k, e)  BY DEF ProperBlock
<1>2. BlockEnd(f, k) = e /\ e \in Nat
  <2>1. e \in Nat  BY <1>1, InBlock
  <2> QED  BY <1>1, <2>1, FindsEnd
<1>3. PICK j \in Level(f, k) : /\ Keyed(f, k..e, "listen") = {j}
                               /\ PortIn(f, k..e) = Numeral[f[j][2]] /\ Port(f, k) = Numeral[f[j][2]]
  BY PortLine DEF Port
<1>4. Listening(f, k) = {j}  BY <1>2, <1>3 DEF Listening, Keyed
<1>5. PortsOf(f, k) = {Port(f, k)}
  <2>1. PortsOf(f, k) = {Numeral[f[i][2]] : i \in {j}}  BY <1>4 DEF PortsOf
  <2> QED  BY <1>3, <2>1
<1>6. ASSUME NEW ports PROVE CannotBind(f, k, ports) <=> Port(f, k) \in ports
  <2>1. Cardinality({j}) = 1 /\ Cardinality({Port(f, k)}) = 1  BY FS_Singleton
  <2>2. ~(Cardinality(PortsOf(f, k)) < Cardinality(Listening(f, k)))  BY <1>4, <1>5, <2>1
  <2> QED  BY <1>5, <2>2 DEF CannotBind
<1>7. ~ReadsBeyond(f, k)
  <2>1. ToSet(BodyLines(f, k).locations) = {i \in k..e : Locates(f[i])}
    <3>1. BodyLines(f, k).locations = LocationsWithin(f, k)  BY <1>1, OwnLines
    <3>2. ToSet(LocationsWithin(f, k)) = Located(f, k, e)  BY <1>1, LocationsAre
    <3> QED  BY <3>1, <3>2 DEF Located
  <2>2. ASSUME NEW i \in k..e, Locates(f[i])
        PROVE  /\ f[Max(LocationLines(f, i))] = Closing
               /\ \A h \in LocationLines(f, i) : Has(f[h], "location") => Len(f[h]) # 2
    <3>1. PICK g \in i + 1..e - 1 : /\ Closes(f[g]) /\ LocationLines(f, i) = i..g
                                    /\ \A h \in i + 1..g - 1 : Plain(f[h])
      BY <1>1, <2>2, LocationInBlock
    <3>2. k \in Nat /\ i \in Nat /\ e \in Nat /\ g \in i + 1..e - 1
      <4>1. n \in Nat /\ k \in 1..n /\ e \in k + 1..n  BY <1>1, InBlock
      <4> QED  BY <4>1
    <3>3. Max(i..g) = g
      <4>1. i..g \in SUBSET Int /\ g \in i..g /\ \A h \in i..g : h <= g  BY <3>2
      <4> QED  BY <4>1, MaxIs
    <3>4. \A h \in i..g : h \in k..e  BY <3>2
    <3>5. f[Max(LocationLines(f, i))] = Closing  BY <3>1, <3>3 DEF Closes
    <3>6. ASSUME NEW h \in LocationLines(f, i), Has(f[h], "location") PROVE Len(f[h]) # 2
      <4>1. h \in k..e /\ Locates(f[h])  BY <3>1, <3>4, <3>6 DEF Locates
      <4>2. Len(f[h]) = 3  BY <4>1
      <4> QED  BY <4>2
    <3> QED  BY <3>5, <3>6
  <2> QED  BY <2>1, <2>2 DEF ReadsBeyond
<1>8. BehindServer(f, k) = e + 1
  <2>1. f[k] = Opening  BY <1>1 DEF ServerBlock, Begins
  <2>2. Len(Opening) = 2 /\ SubSeq(Opening, 1, 2) = Opening
    <3> PICK T : T = {"server", Open}  OBVIOUS
    <3>1. Opening \in Seq(T) /\ Len(Opening) = 2  BY DEF Opening
    <3>2. \A s \in Seq(T) : SubSeq(s, 1, Len(s)) = s  OBVIOUS
    <3> QED  BY <3>1, <3>2
  <2>3. Min({2, Len(f[k])}) = 2
    <3>1. {2, Len(f[k])} = {2} /\ {2} \in SUBSET Int /\ 2 \in {2} /\ \A x \in {2} : 2 <= x
      BY <2>1, <2>2
    <3>2. Min({2}) = 2  BY <3>1, MinIs
    <3> QED  BY <3>1, <3>2
  <2> QED  BY <1>2, <2>1, <2>2, <2>3 DEF BehindServer
<1>9. PortIn(f, k..BlockEnd(f, k)) = Port(f, k)  BY <1>2, <1>3
<1> QED  BY <1>5, <1>6, <1>7, <1>8, <1>9

(* What the constructor throws at is not readable.                         *)
LEMMA ThrowsRightly ==
  ASSUME NEW f \in TextFiles, LimitsRead(f), NEW n, NEW d, NEW k, NEW e, ProperBlock(f, n, d, k, e),
         ConstructorThrows(f, k)
  PROVE  ~Readable(f)
<1>1. ServerBlock(f, n, d, k, e)  BY DEF ProperBlock
<1>2. /\ BlockEnd(f, k) = e /\ k \in DOMAIN f /\ k \in Openings(f)
      /\ \A j \in k..e : j \in DOMAIN f
  <2>1. n \in Nat /\ k \in 1..n /\ e \in k + 1..n /\ DOMAIN f = 1..n  BY <1>1, InBlock
  <2>2. k \in Openings(f)  BY <1>1, <2>1 DEF ServerBlock, Begins, Openings
  <2>3. \A j \in k..e : j \in 1..n  BY <2>1
  <2> QED  BY <1>1, <2>1, <2>2, <2>3, FindsEnd
<1>3. Level(f, k) \subseteq k..e
  <2>1. e \in Nat /\ Level(f, k) = {i \in k..e - 1 : d[i] = 1}  BY <1>1, InBlock, BlockLevel
  <2>2. n \in Nat /\ k \in 1..n  BY <1>1, InBlock
  <2> QED  BY <2>1, <2>2
<1> SUFFICES ASSUME \A i \in DOMAIN f : i \in Openings(f) \/ Locates(f[i]) =>
                       \A j \in Level(f, i) : LineFits(f, i, j)
             PROVE  FALSE
  BY ReadableIs
<1>4. \A j \in Level(f, k) : LineFits(f, k, j)  BY <1>2
<1>5. ASSUME NEW j \in k..e, f[j][1] = "listen", Invalid(f[j], <<>>) PROVE FALSE
  <2>1. PICK key \in Keys : Has(f[j], key)  BY <1>5, InvalidKey
  <2>2. Has(f[j], "listen")  BY <1>5, <2>1 DEF Has
  <2>3. j \in Level(f, k)
    <3>1. \E i \in Level(f, k) : Keyed(f, k..e, "listen") = {i}  BY DEF ProperBlock
    <3>2. j \in Keyed(f, k..e, "listen")  BY <2>2 DEF Keyed
    <3> QED  BY <3>1, <3>2
  <2>4. ~Has(f[j], "client_max_body_size") /\ ~Has(f[j], "index")  BY <1>5 DEF Has
  <2>5. ~Invalid(f[j], DeclaredRoot(f, k))  BY <1>2, <1>4, <2>3, <2>4 DEF LineFits
  <2> QED  BY <1>5, <2>4, <2>5, InvalidAnywhere
<1>6. ASSUME NEW j \in HeadLines(f, k), f[j][1] \in {"root", "allowed_methods"}, Invalid(f[j], <<>>)
      PROVE  FALSE
  <2>1. PICK key \in Keys : Has(f[j], key)  BY <1>6, InvalidKey
  <2>2. key \in {"root", "allowed_methods"}  BY <1>6, <2>1 DEF Has
  <2>3. Keyed(f, HeadLines(f, k), key) = Keyed(f, Level(f, k), key)
    BY <1>1, <2>2, HeadFound DEF ProperBlock
  <2>4. j \in Level(f, k)  BY <2>1, <2>3 DEF Keyed
  <2>5. ~Has(f[j], "client_max_body_size") /\ ~Has(f[j], "index")  BY <1>6 DEF Has
  <2>6. ~Invalid(f[j], DeclaredRoot(f, k))  BY <1>2, <1>4, <2>4, <2>5 DEF LineFits
  <2> QED  BY <1>6, <2>5, <2>6, InvalidAnywhere
<1>7. Value(f, HeadLines(f, k), "root", RootOf, DefaultRoot) = DeclaredRoot(f, k)
  <2>1. Keyed(f, HeadLines(f, k), "root") = Keyed(f, Level(f, k), "root")
    BY <1>1, HeadFound DEF ProperBlock
  <2>2. LastWith(f, HeadLines(f, k), "root") = LastWith(f, Level(f, k), "root")  BY <2>1, SameValues
  <2> QED  BY <2>2 DEF DeclaredRoot, Value
<1>8. ASSUME NEW j \in BodyLines(f, k).own, f[j][1] \notin {"root", "allowed_methods", "listen"},
             Invalid(f[j], DeclaredRoot(f, k))
      PROVE  FALSE
  <2>1. PICK key \in Keys : Has(f[j], key)  BY <1>8, InvalidKey
  <2>2. j \in k..e  BY <1>1, OwnLines
  <2>3. ~Locates(f[j])  BY <1>1, OwnLines
  <2>4. key # "location"  BY <2>1, <2>3 DEF Locates
  <2>5. j \in Level(f, k)
    <3>1. Keyed(f, BodyLines(f, k).own, key) = Keyed(f, Level(f, k), key)  BY <1>1, <2>4, OwnLines
    <3> QED  BY <2>1, <3>1 DEF Keyed
  <2>6. LineFits(f, k, j)  BY <1>4, <2>5
  <2>7. CASE Has(f[j], "client_max_body_size")
    <3>1. ~TooLarge(f[j][2])  BY <1>2, <2>6, <2>7 DEF LineFits
    <3>2. BodySize(f[j][2]) > MaxBodySize
      <4>1. f[j][1] = "client_max_body_size"  BY <2>7 DEF Has
      <4> QED  BY <1>8, <4>1 DEF Invalid, Has
    <3>3. Numeral[f[j][2]] \in Nat /\ Unit[f[j][2]] \in {1, 1024, 1048576}
      BY <1>2, <2>2, <2>7 DEF LimitsRead
    <3> QED  BY <3>1, <3>2, <3>3, LimitRead
  <2>8. CASE ~Has(f[j], "client_max_body_size")  BY <1>2, <1>8, <2>6, <2>8 DEF LineFits
  <2> QED  BY <2>7, <2>8
<1>9. ASSUME NEW i \in k..e, Locates(f[i]), NEW j \in LocationLines(f, i),
             f[j][1] \notin {"listen", "client_max_body_size", "buffer_size"},
             Invalid(f[j], DeclaredRoot(f, i))
      PROVE  FALSE
  <2>1. PICK key \in Keys : Has(f[j], key)  BY <1>9, InvalidKey
  <2>2. Keyed(f, LocationLines(f, i), key) = Keyed(f, Level(f, i), key)
    BY <1>1, <1>9, RootOfLocation
  <2>3. j \in Level(f, i)  BY <2>1, <2>2 DEF Keyed
  <2>4. i \in DOMAIN f  BY <1>2
  <2>5. LineFits(f, i, j)  BY <1>9, <2>3, <2>4
  <2>6. ~Has(f[j], "client_max_body_size")  BY <1>9 DEF Has
  <2> QED  BY <1>9, <2>5, <2>6 DEF LineFits
<1>10. ToSet(BodyLines(f, k).locations) = {i \in k..e : Locates(f[i])}
  <2>1. BodyLines(f, k).locations = LocationsWithin(f, k)  BY <1>1, OwnLines
  <2>2. ToSet(LocationsWithin(f, k)) = Located(f, k, e)  BY <1>1, LocationsAre
  <2> QED  BY <2>1, <2>2 DEF Located
<1>11. \A i \in k..e : Locates(f[i]) =>
          Value(f, LocationLines(f, i), "root", RootOf, DefaultRoot) = DeclaredRoot(f, i)
  BY <1>1, RootOfLocation
<1> QED  BY <1>2, <1>5, <1>6, <1>7, <1>8, <1>9, <1>10, <1>11 DEF ConstructorThrows

(* And what it does not throw at is, but for a limit that wraps around and *)
(* the ports.                                                              *)
LEMMA BlockFits ==
  ASSUME NEW f \in TextFiles, LimitsRead(f), ~LimitWraps(f),
         NEW n, NEW d, NEW k, NEW e, ProperBlock(f, n, d, k, e), ~ConstructorThrows(f, k)
  PROVE  /\ \A j \in Level(f, k) : LineFits(f, k, j)
         /\ \A i \in k..e : Locates(f[i]) => \A j \in Level(f, i) : LineFits(f, i, j)
<1>1. ServerBlock(f, n, d, k, e)  BY DEF ProperBlock
<1>2. /\ n \in Nat /\ k \in 1..n /\ e \in k + 1..n /\ DOMAIN f = 1..n /\ BlockEnd(f, k) = e
      /\ k \in Openings(f) /\ \A j \in k..e : j \in DOMAIN f
  <2>1. n \in Nat /\ k \in 1..n /\ e \in k + 1..n /\ DOMAIN f = 1..n  BY <1>1, InBlock
  <2>2. k \in Openings(f)  BY <1>1, <2>1 DEF ServerBlock, Begins, Openings
  <2>3. \A j \in k..e : j \in 1..n  BY <2>1
  <2> QED  BY <1>1, <2>1, <2>2, <2>3, FindsEnd
<1>3. Level(f, k) = {i \in k..e - 1 : d[i] = 1}  BY <1>1, BlockLevel
<1>4. \A j \in Level(f, k) : j \in k..e  BY <1>2, <1>3
<1>5. ToSet(BodyLines(f, k).locations) = {i \in k..e : Locates(f[i])}
  <2>1. BodyLines(f, k).locations = LocationsWithin(f, k)  BY <1>1, OwnLines
  <2>2. ToSet(LocationsWithin(f, k)) = Located(f, k, e)  BY <1>1, LocationsAre
  <2> QED  BY <2>1, <2>2 DEF Located
<1>6. Value(f, HeadLines(f, k), "root", RootOf, DefaultRoot) = DeclaredRoot(f, k)
  <2>1. Keyed(f, HeadLines(f, k), "root") = Keyed(f, Level(f, k), "root")
    BY <1>1, HeadFound DEF ProperBlock
  <2>2. LastWith(f, HeadLines(f, k), "root") = LastWith(f, Level(f, k), "root")  BY <2>1, SameValues
  <2> QED  BY <2>2 DEF DeclaredRoot, Value
<1>7. /\ \A j \in k..e : f[j][1] = "listen" => ~Invalid(f[j], <<>>)
      /\ \A j \in HeadLines(f, k) : f[j][1] \in {"root", "allowed_methods"} => ~Invalid(f[j], <<>>)
      /\ \A j \in BodyLines(f, k).own : f[j][1] \notin {"root", "allowed_methods", "listen"} =>
           ~Invalid(f[j], DeclaredRoot(f, k))
      /\ \A i \in k..e : Locates(f[i]) => \A j \in LocationLines(f, i) :
           f[j][1] \notin {"listen", "client_max_body_size", "buffer_size"} =>
             ~Invalid(f[j], Value(f, LocationLines(f, i), "root", RootOf, DefaultRoot))
  BY <1>2, <1>5, <1>6 DEF ConstructorThrows
<1>8. ASSUME NEW j \in Level(f, k) PROVE LineFits(f, k, j)
  <2>1. j \in k..e /\ ~Locates(f[j])
    <3>1. j \in k + 1..e \/ j = k  BY <1>2, <1>4
    <3>2. d[j] = 1  BY <1>3
    <3> QED  BY <1>1, <1>4, <3>1, <3>2, InBlock
  <2>2. ASSUME Invalid(f[j], DeclaredRoot(f, k)), ~Has(f[j], "client_max_body_size") PROVE FALSE
    <3>1. PICK key \in Keys : Has(f[j], key)  BY <2>2, InvalidKey
    <3>2. f[j][1] = key /\ key # "location"  BY <2>1, <3>1 DEF Has, Locates
    <3>3. CASE key = "listen"
      <4>1. Invalid(f[j], <<>>)
        <5>1. ~Has(f[j], "index")  BY <3>2, <3>3 DEF Has
        <5> QED  BY <2>2, <5>1, InvalidAnywhere
      <4> QED  BY <1>7, <2>1, <3>2, <3>3, <4>1
    <3>4. CASE key \in {"root", "allowed_methods"}
      <4>1. Invalid(f[j], <<>>)
        <5>1. ~Has(f[j], "index")  BY <3>2, <3>4 DEF Has
        <5> QED  BY <2>2, <5>1, InvalidAnywhere
      <4>2. Keyed(f, HeadLines(f, k), key) = Keyed(f, Level(f, k), key)
        BY <1>1, <3>4, HeadFound DEF ProperBlock
      <4>3. j \in HeadLines(f, k)  BY <3>1, <4>2 DEF Keyed
      <4> QED  BY <1>7, <3>2, <3>4, <4>1, <4>3
    <3>5. CASE key \notin {"root", "allowed_methods", "listen"}
      <4>1. Keyed(f, BodyLines(f, k).own, key) = Keyed(f, Level(f, k), key)
        BY <1>1, <3>2, OwnLines
      <4>2. j \in BodyLines(f, k).own  BY <3>1, <4>1 DEF Keyed
      <4> QED  BY <1>7, <2>2, <3>2, <3>5, <4>2
    <3> QED  BY <3>3, <3>4, <3>5
  <2>3. ASSUME Has(f[j], "client_max_body_size") PROVE ~TooLarge(f[j][2])
    <3>1. f[j][1] = "client_max_body_size"  BY <2>3 DEF Has
    <3>2. Keyed(f, BodyLines(f, k).own, "client_max_body_size")
            = Keyed(f, Level(f, k), "client_max_body_size")
      BY <1>1, OwnLines
    <3>3. j \in BodyLines(f, k).own  BY <2>3, <3>2 DEF Keyed
    <3>4. ~Invalid(f[j], DeclaredRoot(f, k))  BY <1>7, <3>1, <3>3
    <3>5. ~(BodySize(f[j][2]) > MaxBodySize)  BY <2>3, <3>4 DEF Invalid
    <3>6. Numeral[f[j][2]] \in Nat /\ Unit[f[j][2]] \in {1, 1024, 1048576}
      BY <1>2, <2>1, <2>3 DEF LimitsRead
    <3>7. ~(Unit[f[j][2]] > 1 /\ Numeral[f[j][2]] > 2147483647 \div Unit[f[j][2]])
      BY <1>2, <2>1, <2>3 DEF LimitWraps
    <3> QED  BY <3>5, <3>6, <3>7, LimitRead
  <2> QED  BY <1>2, <2>2, <2>3 DEF LineFits
<1>9. ASSUME NEW i \in k..e, Locates(f[i]), NEW j \in Level(f, i) PROVE LineFits(f, i, j)
  <2>1. PICK g \in i + 1..e - 1 : Level(f, i) = i..g - 1 /\ \A h \in i..g - 1 : d[h] = 2
    BY <1>1, <1>9, LocationInBlock
  <2>2. j \in k..e /\ d[j] = 2
    <3>1. j \in i..g - 1  BY <2>1
    <3> QED  BY <1>2, <2>1, <3>1
  <2>3. i \notin Openings(f)
    <3>1. ~Begins(f[i])  BY <1>9, Kinds
    <3> QED  BY <3>1 DEF Openings, Begins
  <2>4. ASSUME Invalid(f[j], DeclaredRoot(f, i)), f[j][1] \notin {"client_max_body_size", "buffer_size"}
        PROVE  FALSE
    <3>1. PICK key \in Keys : Has(f[j], key)  BY <2>4, InvalidKey
    <3>2. f[j][1] = key  BY <3>1 DEF Has
    <3>3. key # "listen"
      <4> SUFFICES ASSUME key = "listen" PROVE FALSE  OBVIOUS
      <4>1. \E h \in Level(f, k) : Keyed(f, k..e, "listen") = {h}  BY DEF ProperBlock
      <4>2. j \in Keyed(f, k..e, "listen")  BY <2>2, <3>1 DEF Keyed
      <4>3. d[j] = 1  BY <1>3, <4>1, <4>2
      <4> QED  BY <2>2, <4>3
    <3>4. /\ Value(f, LocationLines(f, i), "root", RootOf, DefaultRoot) = DeclaredRoot(f, i)
          /\ Keyed(f, LocationLines(f, i), key) = Keyed(f, Level(f, i), key)
      BY <1>1, <1>9, RootOfLocation
    <3>5. j \in LocationLines(f, i)  BY <3>1, <3>4 DEF Keyed
    <3>6. f[j][1] \notin {"listen", "client_max_body_size", "buffer_size"}  BY <2>4, <3>2, <3>3
    <3> QED  BY <1>7, <1>9, <2>4, <3>4, <3>5, <3>6
  <2> QED  BY <2>3, <2>4 DEF LineFits
<1> QED  BY <1>8, <1>9

(* What constructors do not throw at is readable, unless a limit wraps.    *)
LEMMA AcceptsRightly ==
  ASSUME NEW f \in TextFiles, WellFormed(f), LimitsRead(f), ~LimitWraps(f), PortsFit(f),
         \A k \in Openings(f) : ~ConstructorThrows(f, k)
  PROVE  Readable(f)
<1>1. PICK d : Shape(f, Len(f), d)  BY ShapeOf
<1>2. ASSUME NEW k \in Openings(f), NEW j \in Level(f, k) PROVE LineFits(f, k, j)
  <2>1. PICK e : ProperBlock(f, Len(f), d, k, e)  BY <1>1, BlockOf
  <2> QED  BY <2>1, BlockFits
<1>3. ASSUME NEW i \in DOMAIN f, Locates(f[i]), NEW j \in Level(f, i) PROVE LineFits(f, i, j)
  <2>1. PICK k \in Openings(f) : \E e : ProperBlock(f, Len(f), d, k, e) /\ i \in k..e
    BY <1>1, <1>3, LocationsInBlocks
  <2>2. PICK e : ProperBlock(f, Len(f), d, k, e) /\ i \in k..e  BY <2>1
  <2> QED  BY <1>3, <2>2, BlockFits
<1> QED  BY <1>2, <1>3, ReadableIs

(***************************************************************************)
(* create_servers()                                                        *)
(***************************************************************************)

(* Where the block behind the first m of them begins.                      *)
NextStart(f, m) == IF m < Len(Blocks(f)) THEN Blocks(f)[m + 1] ELSE Len(f) + 1

(* The list of blocks, by index.                                           *)
LEMMA BlockList ==
  ASSUME NEW f \in TextFiles
  PROVE  /\ Len(Blocks(f)) \in Nat /\ DOMAIN Blocks(f) = 1..Len(Blocks(f)) /\ IsSequence(Blocks(f))
         /\ \A i \in 1..Len(Blocks(f)) : Blocks(f)[i] \in Openings(f)
         /\ \A k \in Openings(f) : \E i \in 1..Len(Blocks(f)) : Blocks(f)[i] = k
         /\ \A i, j \in 1..Len(Blocks(f)) : i < j => Blocks(f)[i] < Blocks(f)[j]
<1> DEFINE B == Blocks(f)
           S == Openings(f)
<1>1. B \in Seq(S) /\ ToSet(B) = S /\ \A i, j \in DOMAIN B : i < j => B[i] < B[j]
  BY BlocksAre
<1> HIDE DEF B, S
<1>2. B \in Seq(S)  BY <1>1
<1>3. Len(B) \in Nat /\ DOMAIN B = 1..Len(B) /\ \A i \in 1..Len(B) : B[i] \in S  BY <1>2
<1>4. \A k \in S : \E i \in 1..Len(B) : B[i] = k  BY <1>1, <1>3 DEF ToSet
<1>5. IsSequence(B)  BY <1>2, AnySequence
<1> QED  BY <1>1, <1>3, <1>4, <1>5 DEF B, S

(* The first block begins at the first line.                               *)
LEMMA StartsFirst ==
  ASSUME NEW f \in TextFiles, WellFormed(f)
  PROVE  NextStart(f, 0) = 1
<1> DEFINE B == Blocks(f)
           c == Len(B)
<1>1. /\ c \in Nat /\ \A i \in 1..c : B[i] \in Openings(f)
      /\ \A k \in Openings(f) : \E i \in 1..c : B[i] = k
      /\ \A i, j \in 1..c : i < j => B[i] < B[j]
  BY BlockList
<1>2. 1 \in Openings(f)
  <2>1. PICK d : Shape(f, Len(f), d)  BY ShapeOf
  <2>2. 1 \in 1..Len(f) /\ 1 - 1 = 0  BY <2>1 DEF Shape
  <2>3. Begins(f[1])  BY <2>1, <2>2 DEF Shape
  <2> QED  BY <2>1, <2>2, <2>3 DEF Shape, Openings, Begins
<1> HIDE DEF B, c
<1>3. PICK i \in 1..c : B[i] = 1  BY <1>1, <1>2
<1>4. 1 \in 1..c  BY <1>1, <1>3
<1>5. B[1] \in 1..Len(f)
  <2>1. B[1] \in Openings(f)  BY <1>1, <1>4
  <2> QED  BY <2>1 DEF Openings, TextFiles
<1>6. i = 1
  <2>1. i # 1 => B[1] < B[i]  BY <1>1, <1>4
  <2> QED  BY <1>3, <1>5, <2>1
<1>7. 0 < c /\ B[1] = 1  BY <1>1, <1>3, <1>4, <1>6
<1> QED  BY <1>7 DEF NextStart, B, c

(* The line behind a block begins the next, if there is one.               *)
LEMMA NextBehind ==
  ASSUME NEW f \in TextFiles, NEW d, NEW k, NEW e, ServerBlock(f, Len(f), d, k, e),
         NEW m \in Nat, m < Len(Blocks(f)), k = NextStart(f, m)
  PROVE  NextStart(f, m + 1) = e + 1
<1> DEFINE B == Blocks(f)
           c == Len(B)
           n == Len(f)
<1>1. /\ c \in Nat /\ \A i \in 1..c : B[i] \in Openings(f)
      /\ \A j \in Openings(f) : \E i \in 1..c : B[i] = j
      /\ \A i, j \in 1..c : i < j => B[i] < B[j]
  BY BlockList
<1>2. m + 1 \in 1..c /\ B[m + 1] = k  BY <1>1 DEF NextStart
<1>3. /\ n \in Nat /\ DOMAIN f = 1..n /\ k \in 1..n /\ e \in k + 1..n /\ d[e] = 0
      /\ \A j \in k + 1..e : ~Begins(f[j])
  BY InBlock
<1>4. Openings(f) = {j \in 1..n : Begins(f[j])}  BY <1>3 DEF Openings, Begins
<1> HIDE DEF B, c
<1>5. e < n => e + 1 \in Openings(f)
  <2> HAVE e < n
  <2>1. e + 1 \in 1..n /\ (e + 1) - 1 = e  BY <1>3
  <2>2. Begins(f[e + 1])
    <3>1. Shape(f, n, d)  BY DEF ServerBlock
    <3> HIDE DEF n
    <3> QED  BY <1>3, <2>1, <3>1 DEF Shape
  <2> QED  BY <1>4, <2>1, <2>2
<1> HIDE DEF n
<1>6. \A i \in 1..c : B[i] \in Int /\ (B[i] > k => i > m + 1)
  <2> TAKE i \in 1..c
  <2>1. B[i] \in Int  BY <1>1, <1>4
  <2>2. i < m + 1 => B[i] < k  BY <1>1, <1>2
  <2>3. i = m + 1 => B[i] = k  BY <1>2
  <2> QED  BY <1>2, <1>3, <2>1, <2>2, <2>3
<1>7. CASE m + 1 < c
  <2>1. (m + 1) + 1 \in 1..c /\ m + 1 < (m + 1) + 1  BY <1>1, <1>2, <1>7
  <2> DEFINE b == B[(m + 1) + 1]
  <2>2. b \in 1..n /\ Begins(f[b]) /\ k < b  BY <1>1, <1>2, <1>4, <2>1
  <2> HIDE DEF b
  <2>3. e < b
    <3>1. b \notin k + 1..e  BY <1>3, <2>2
    <3> QED  BY <1>3, <2>2, <3>1
  <2>4. e < n  BY <1>3, <2>2, <2>3
  <2>5. PICK i \in 1..c : B[i] = e + 1  BY <1>1, <1>5, <2>4
  <2>6. i > m + 1
    <3>1. B[i] > k  BY <1>3, <2>5
    <3> QED  BY <1>6, <3>1
  <2>7. i = (m + 1) + 1 \/ (m + 1) + 1 < i  BY <2>6
  <2>8. (m + 1) + 1 < i => b < B[i]  BY <1>1, <2>1 DEF b
  <2>9. b = e + 1
    <3>1. ~((m + 1) + 1 < i)  BY <1>3, <2>2, <2>3, <2>5, <2>8
    <3> QED  BY <2>5, <2>7, <3>1 DEF b
  <2> QED  BY <1>7, <2>9 DEF NextStart, b, B, c
<1>8. CASE ~(m + 1 < c)
  <2>1. ~(e < n)
    <3> SUFFICES ASSUME e < n PROVE FALSE  OBVIOUS
    <3>1. PICK i \in 1..c : B[i] = e + 1  BY <1>1, <1>5
    <3>2. B[i] > k  BY <1>3, <3>1
    <3>3. i > m + 1  BY <1>6, <3>2
    <3> QED  BY <1>1, <1>8, <3>3
  <2>2. e = n  BY <1>3, <2>1
  <2> QED  BY <1>8, <2>2 DEF NextStart, B, c, n
<1> QED  BY <1>7, <1>8

(* A server's port is a port.                                              *)
LEMMA PortsAreSet ==
  \A p \in Ports : p # Unset
<1>1. FirstPort \in Int /\ LastPort \in Int /\ FirstPort > 0  BY DEF FirstPort, LastPort
<1> QED  BY <1>1 DEF Ports, Unset

(* A block that no constructor throws at has a port.                       *)
LEMMA PortIsSet ==
  ASSUME NEW f, NEW n, NEW d, NEW k, NEW e, ProperBlock(f, n, d, k, e), ~ConstructorThrows(f, k)
  PROVE  Port(f, k) # Unset
<1>1. BlockEnd(f, k) = e  BY FindsEnd DEF ProperBlock
<1>2. PICK j \in k..e : Has(f[j], "listen") /\ Port(f, k) = Numeral[f[j][2]]
  BY PortLine DEF Port
<1>3. ~Invalid(f[j], <<>>)
  <2>1. f[j][1] = "listen"  BY <1>2 DEF Has
  <2> QED  BY <1>1, <2>1 DEF ConstructorThrows
<1>4. Numeral[f[j][2]] \in Ports  BY <1>2, <1>3 DEF Invalid
<1> QED  BY <1>2, <1>4, PortsAreSet

(* Once create_servers() has made the servers s of the blocks of f, before *)
(* line a, and listens on b.                                               *)
Made(f, s, b) ==
  /\ IsSequence(s) /\ Len(s) <= Len(Blocks(f))
  /\ \A i \in 1..Len(s) :
       /\ s[i].from = Blocks(f)[i] /\ s[i].port = Port(f, Blocks(f)[i])
       /\ ~ConstructorThrows(f, Blocks(f)[i])
       /\ s[i].port \notin Taken /\ \A h \in 1..i - 1 : s[h].port # s[i].port
  /\ b = Taken \cup {s[i].port : i \in 1..Len(s)}

(* Stage st of starting on f, at line a: servers are a prefix of Blocks.   *)
Starting(f, st, a, s, b) ==
  /\ Made(f, s, b)
  /\ st \in {"check", "create"} => a = NextStart(f, Len(s))
  /\ st \in {"check", "create", "running", "refused"}
  /\ st = "running" => Len(s) = Len(Blocks(f))
  /\ st = "refused" => ~Readable(f)

(* A file whose lines are as FileAssumption says, and well-formed.         *)
GoodFile(f) == f \in TextFiles /\ LimitsRead(f) /\ WellFormed(f)

(* The block that is next is refused rightly, or becomes a server.         *)
LEMMA NextServer ==
  ASSUME NEW f, GoodFile(f), NEW a, NEW s, NEW b, Starting(f, "create", a, s, b), a <= Len(f)
  PROVE  /\ ~ReadsBeyond(f, a)
         /\ ConstructorThrows(f, a) \/ CannotBind(f, a, b) => ~Readable(f)
         /\ f[a] # Last(f)
         /\ PortIn(f, a..BlockEnd(f, a)) = Port(f, a)
         /\ ~ConstructorThrows(f, a) =>
              /\ Port(f, a) # Unset /\ \A i \in DOMAIN s : s[i].port # Unset
              /\ ~CannotBind(f, a, b) =>
                   Starting(f, "create", BehindServer(f, a), Append(s, [from |-> a, port |-> Port(f, a)]),
                            b \cup PortsOf(f, a))
<1> DEFINE B == Blocks(f)
           c == Len(B)
           m == Len(s)
           n == Len(f)
<1>1. f \in TextFiles /\ LimitsRead(f) /\ WellFormed(f)  BY DEF GoodFile
<1>2. PICK d : Shape(f, n, d)  BY <1>1, ShapeOf
<1>3. /\ c \in Nat /\ \A i \in 1..c : B[i] \in Openings(f)
      /\ \A i, j \in 1..c : i < j => B[i] < B[j]
  BY <1>1, BlockList
<1>4. /\ IsSequence(s) /\ m <= c
      /\ \A i \in 1..m :
           /\ s[i].from = B[i] /\ s[i].port = Port(f, B[i])
           /\ ~ConstructorThrows(f, B[i])
           /\ s[i].port \notin Taken /\ \A h \in 1..i - 1 : s[h].port # s[i].port
      /\ b = Taken \cup {s[i].port : i \in 1..m}
      /\ a = NextStart(f, m)
  BY DEF Starting, Made
<1>5. m \in Nat /\ DOMAIN s = 1..m  BY <1>4, OneMore
<1>6. n \in Nat /\ DOMAIN f = 1..n  BY <1>1 DEF TextFiles
<1>7. m < c /\ a = B[m + 1] /\ m + 1 \in 1..c
  <2>1. m < c  BY <1>4, <1>6 DEF NextStart
  <2>2. a = B[m + 1]  BY <1>4, <2>1 DEF NextStart
  <2> HIDE DEF m, c
  <2> QED  BY <1>3, <1>5, <2>1, <2>2
<1> HIDE DEF B, c, m, n
<1>8. a \in Openings(f) /\ a \in Int
  <2>1. a \in Openings(f)  BY <1>3, <1>7
  <2> QED  BY <1>6, <2>1 DEF Openings
<1>9. \A i \in 1..m : B[i] \in Openings(f) \ {a}
  <2> TAKE i \in 1..m
  <2>1. i \in 1..c /\ i < m + 1  BY <1>3, <1>4, <1>5
  <2>2. B[i] < a  BY <1>3, <1>7, <2>1
  <2> QED  BY <1>3, <1>8, <2>1, <2>2
<1>10. PICK e : ProperBlock(f, n, d, a, e)  BY <1>1, <1>2, <1>8, BlockOf DEF n
<1>11. /\ ~ReadsBeyond(f, a)
       /\ PortIn(f, a..BlockEnd(f, a)) = Port(f, a)
       /\ PortsOf(f, a) = {Port(f, a)}
       /\ CannotBind(f, a, b) <=> Port(f, a) \in b
       /\ BehindServer(f, a) = e + 1
  <2>1. ServerBlock(f, n, d, a, e)  BY <1>10 DEF ProperBlock
  <2>2. \A j \in a..e : j \in DOMAIN f
    <3>1. a \in 1..n /\ e \in a + 1..n  BY <2>1, InBlock
    <3> QED  BY <1>6, <3>1
  <2>3. \A j \in a..e : Locates(f[j]) => Len(f[j]) = 3
    <3> TAKE j \in a..e
    <3>1. j \in DOMAIN f  BY <2>2
    <3> QED  BY <1>1, <3>1 DEF WellFormed, Locates
  <2> QED  BY <1>10, <2>3, BlockRead
<1>12. ConstructorThrows(f, a) => ~Readable(f)  BY <1>1, <1>10, ThrowsRightly
<1>13. CannotBind(f, a, b) => ~Readable(f)
  <2> SUFFICES ASSUME Port(f, a) \in b, Readable(f) PROVE FALSE  BY <1>11
  <2>1. PortsFit(f)  BY <1>1, ReadableIs
  <2>2. Port(f, a) \notin Taken /\ \A j \in Openings(f) \ {a} : Port(f, j) # Port(f, a)
    BY <1>8, <2>1 DEF PortsFit
  <2>3. PICK i \in 1..m : Port(f, a) = s[i].port  BY <1>4, <2>2
  <2>4. Port(f, B[i]) = Port(f, a)  BY <1>4, <2>3
  <2>5. B[i] \in Openings(f) \ {a}  BY <1>9
  <2> QED  BY <2>2, <2>4, <2>5
<1>14. f[a] # Last(f)
  <2>1. f[a] = Opening  BY <1>8 DEF Openings
  <2>2. Last(f) = f[n]  BY DEF Last, n
  <2>3. ~Begins(f[n])
    <3>1. n \in 1..n /\ d[n] = 0  BY <1>2 DEF Shape
    <3> SUFFICES ASSUME Begins(f[n]) PROVE FALSE  OBVIOUS
    <3>2. d[n] = 1  BY <1>2, <3>1, Kinds DEF Shape, Plain
    <3> QED  BY <3>1, <3>2
  <2> QED  BY <2>1, <2>2, <2>3 DEF Begins
<1>15. ASSUME ~ConstructorThrows(f, a)
       PROVE  Port(f, a) # Unset /\ \A i \in DOMAIN s : s[i].port # Unset
  <2>1. Port(f, a) # Unset  BY <1>10, <1>15, PortIsSet
  <2>2. ASSUME NEW i \in 1..m PROVE s[i].port # Unset
    <3>1. s[i].port = Port(f, B[i]) /\ ~ConstructorThrows(f, B[i]) /\ B[i] \in Openings(f)
      BY <1>4, <1>9
    <3>2. PICK g : ProperBlock(f, n, d, B[i], g)  BY <1>1, <1>2, <3>1, BlockOf DEF n
    <3> QED  BY <3>1, <3>2, PortIsSet
  <2> QED  BY <1>5, <2>1, <2>2
<1>16. ASSUME ~ConstructorThrows(f, a), ~CannotBind(f, a, b)
       PROVE  Starting(f, "create", BehindServer(f, a), Append(s, [from |-> a, port |-> Port(f, a)]),
                       b \cup PortsOf(f, a))
  <2> PICK x : x = [from |-> a, port |-> Port(f, a)]  OBVIOUS
  <2> PICK t : t = Append(s, x)  OBVIOUS
  <2>1. /\ IsSequence(t) /\ Len(t) = m + 1 /\ DOMAIN t = 1..m + 1
        /\ \A i \in 1..m : t[i] = s[i]
        /\ t[m + 1] = x
    <3>1. /\ IsSequence(Append(s, x)) /\ Len(Append(s, x)) = Len(s) + 1
          /\ DOMAIN Append(s, x) = 1..Len(s) + 1
          /\ \A k \in 1..Len(s) : Append(s, x)[k] = s[k]
          /\ Append(s, x)[Len(s) + 1] = x
      BY <1>4, OneMore
    <3> QED  BY <3>1 DEF m
  <2>2. x.from = B[m + 1] /\ x.port = Port(f, B[m + 1])  BY <1>7
  <2>3. x.port \notin b  BY <1>7, <1>11, <1>16, <2>2
  <2>4. \A i : i \in 1..m + 1 <=> i \in 1..m \/ i = m + 1  BY <1>5
  <2>5. \A i \in 1..m + 1 :
           /\ t[i].from = B[i] /\ t[i].port = Port(f, B[i])
           /\ ~ConstructorThrows(f, B[i])
           /\ t[i].port \notin Taken /\ \A h \in 1..i - 1 : t[h].port # t[i].port
    <3> TAKE i \in 1..m + 1
    <3>1. CASE i \in 1..m
      <4>1. \A h \in 1..i - 1 : h \in 1..m  BY <1>5, <3>1
      <4> QED  BY <1>4, <2>1, <3>1, <4>1
    <3>2. CASE i = m + 1
      <4>1. \A h \in 1..i - 1 : h \in 1..m  BY <1>5, <3>2
      <4>2. \A h \in 1..m : t[h].port \in b  BY <1>4, <2>1
      <4> QED  BY <1>4, <1>7, <1>16, <2>1, <2>2, <2>3, <3>2, <4>1, <4>2
    <3> QED  BY <2>4, <3>1, <3>2
  <2>6. b \cup PortsOf(f, a) = Taken \cup {t[i].port : i \in 1..m + 1}
    <3>1. {t[i].port : i \in 1..m + 1} = {s[i].port : i \in 1..m} \cup {x.port}
      BY <2>1, <2>4
    <3>2. PortsOf(f, a) = {x.port}  BY <1>7, <1>11, <2>2
    <3> QED  BY <1>4, <3>1, <3>2
  <2>7. Made(f, t, b \cup PortsOf(f, a))
    <3>1. m + 1 <= c  BY <1>3, <1>7
    <3> QED  BY <2>1, <2>5, <2>6, <3>1 DEF Made, B, c
  <2>8. NextStart(f, m + 1) = BehindServer(f, a)
    <3>1. ServerBlock(f, Len(f), d, a, e)  BY <1>10 DEF ProperBlock, n
    <3>2. m \in Nat /\ m < Len(Blocks(f)) /\ a = NextStart(f, m)  BY <1>4, <1>5, <1>7 DEF c, B
    <3>3. NextStart(f, m + 1) = e + 1  BY <1>1, <3>1, <3>2, NextBehind
    <3> QED  BY <1>11, <3>3
  <2>9. Starting(f, "create", BehindServer(f, a), t, b \cup PortsOf(f, a))
    BY <2>1, <2>7, <2>8 DEF Starting
  <2> QED  BY <2>9
<1> QED  BY <1>11, <1>12, <1>13, <1>14, <1>15, <1>16

(* When all are made the file is readable, unless a limit wraps.           *)
LEMMA AllMade ==
  ASSUME NEW f, GoodFile(f), NEW s, NEW b, Made(f, s, b), Len(s) = Len(Blocks(f)), ~LimitWraps(f)
  PROVE  Readable(f)
<1> DEFINE B == Blocks(f)
           c == Len(B)
<1>1. /\ c \in Nat /\ \A i \in 1..c : B[i] \in Openings(f)
      /\ \A k \in Openings(f) : \E i \in 1..c : B[i] = k
  BY BlockList DEF GoodFile
<1>2. \A i \in 1..c :
        /\ s[i].port = Port(f, B[i]) /\ ~ConstructorThrows(f, B[i])
        /\ s[i].port \notin Taken /\ \A h \in 1..i - 1 : s[h].port # s[i].port
  BY DEF Made
<1> HIDE DEF B, c
<1>3. \A k \in Openings(f) : ~ConstructorThrows(f, k)  BY <1>1, <1>2
<1>4. PortsFit(f)
  <2>1. ASSUME NEW k \in Openings(f)
        PROVE  Port(f, k) \notin Taken /\ \A j \in Openings(f) \ {k} : Port(f, j) # Port(f, k)
    <3>1. PICK i \in 1..c : B[i] = k  BY <1>1
    <3>2. Port(f, k) = s[i].port /\ s[i].port \notin Taken  BY <1>2, <3>1
    <3>3. ASSUME NEW j \in Openings(f) \ {k}, Port(f, j) = Port(f, k) PROVE FALSE
      <4>1. PICK h \in 1..c : B[h] = j  BY <1>1
      <4>2. Port(f, j) = s[h].port  BY <1>2, <4>1
      <4>3. h \in 1..i - 1 \/ i \in 1..h - 1 \/ h = i  BY <1>1
      <4>4. h # i  BY <3>1, <3>3, <4>1
      <4> QED  BY <1>2, <3>2, <3>3, <4>2, <4>3, <4>4
    <3> QED  BY <3>2, <3>3
  <2> QED  BY <2>1 DEF PortsFit
<1> QED  BY <1>3, <1>4, AcceptsRightly DEF GoodFile

(* A server made of a block is one that can be, and the one it means.      *)
LEMMA AllUnderstood ==
  ASSUME file \in WellFormedFiles, GoodFile(Lines), NEW k \in Openings(Lines),
         ~ConstructorThrows(Lines, k)
  PROVE  k \in Understood[file]
<1>1. Lines \in TextFiles /\ WellFormed(Lines)  BY DEF GoodFile
<1>2. PICK d : Shape(Lines, Len(Lines), d)  BY <1>1, ShapeOf
<1>3. PICK e : ProperBlock(Lines, Len(Lines), d, k, e)  BY <1>1, <1>2, BlockOf
<1>4. ~ReadsBeyond(Lines, k)
  <2>1. ServerBlock(Lines, Len(Lines), d, k, e)  BY <1>3 DEF ProperBlock
  <2>2. \A j \in k..e : j \in DOMAIN Lines
    <3> DEFINE n == Len(Lines)
    <3> HIDE DEF n
    <3>1. n \in Nat /\ DOMAIN Lines = 1..n /\ k \in 1..n /\ e \in k + 1..n  BY <2>1, InBlock DEF n
    <3> QED  BY <3>1
  <2>3. \A j \in k..e : Locates(Lines[j]) => Len(Lines[j]) = 3
    <3> TAKE j \in k..e
    <3>1. j \in DOMAIN Lines  BY <2>2
    <3> QED  BY <1>1, <3>1 DEF WellFormed, Locates
  <2> QED  BY <1>3, <2>3, BlockRead
<1>5. Means(Lines, k, ServerFrom(Lines, k))  BY <1>3, ServerMeant
<1>6. ToSet(Blocks(Lines)) = Openings(Lines)  BY <1>1, BlocksAre
<1>7. k \in Starts(Lines)  BY <1>4, <1>6 DEF Starts
<1>8. file \in DOMAIN Files  BY DEF WellFormedFiles
<1>9. DOMAIN Built[file] = Starts(Lines) /\ Built[file][k] = ServerFrom(Lines, k)
  BY <1>7, <1>8 DEF Built, Lines
<1>10. Understood[file] = {j \in DOMAIN Built[file] : Means(Files[file], j, Built[file][j])}
  BY DEF Understood
<1> QED  BY <1>5, <1>7, <1>9, <1>10 DEF Lines

(* The invariant of starting on a well-formed file.                        *)
StartInv == file \in WellFormedFiles => Starting(Lines, stage, at, servers, bound)

(* What is assumed of files holds for the one the program reads.           *)
LEMMA GoodFiles ==
  ASSUME file \in WellFormedFiles
  PROVE  GoodFile(Lines)
<1>1. file \in DOMAIN Files /\ WellFormed(Lines)  BY DEF WellFormedFiles, Lines
<1>2. Lines \in Seq(Seq(STRING) \ {<<>>})  BY <1>1, FileAssumption DEF Lines
<1>3. LimitsRead(Lines)  BY <1>1, FileAssumption DEF LimitsRead, Lines, WellFormed
<1> QED  BY <1>1, <1>2, <1>3 DEF GoodFile, TextFiles

(* It holds at first, before any server is made.                           *)
LEMMA StartInvInit ==
  ConfigInit => StartInv
<1> SUFFICES ASSUME ConfigInit, file \in WellFormedFiles
             PROVE  Starting(Lines, stage, at, servers, bound)
  BY DEF StartInv
<1>1. GoodFile(Lines)  BY GoodFiles
<1>2. stage = "check" /\ at = 1 /\ servers = <<>> /\ bound = Taken  BY DEF ConfigInit
<1>3. NextStart(Lines, 0) = 1  BY <1>1, StartsFirst DEF GoodFile
<1>4. IsSequence(servers) /\ Len(servers) = 0
  <2>1. <<>> \in Seq({})  OBVIOUS
  <2> QED  BY <1>2, <2>1, AnySequence
<1>5. Len(Blocks(Lines)) \in Nat  BY <1>1, BlockList DEF GoodFile
<1>6. Made(Lines, servers, bound)
  <2>1. 1..0 = {}  OBVIOUS
  <2> QED  BY <1>2, <1>4, <1>5, <2>1 DEF Made
<1> QED  BY <1>2, <1>3, <1>4, <1>6 DEF Starting

(* It stays with every step: one more block, one more server.              *)
LEMMA StartInvStep ==
  StartInv /\ [Startup]_startup => StartInv'
<1> SUFFICES ASSUME StartInv, [Startup]_startup, file' \in WellFormedFiles'
             PROVE  Starting(Lines', stage', at', servers', bound')
  BY DEF StartInv
<1>1. file' = file /\ Lines' = Lines
  BY DEF Startup, startup, CheckConf, CreateFails, PortSeemsTaken, CreateServer, CreateDone, Lines
<1>2. file \in WellFormedFiles  BY <1>1 DEF WellFormedFiles
<1>3. Starting(Lines, stage, at, servers, bound) /\ GoodFile(Lines)  BY <1>2, GoodFiles DEF StartInv
<1> SUFFICES Starting(Lines, stage', at', servers', bound')  BY <1>1
<1>4. ASSUME AtCreate
      PROVE  /\ ~ReadsBeyond(Lines, at)
             /\ ConstructorThrows(Lines, at) \/ CannotBind(Lines, at, bound) => ~Readable(Lines)
             /\ Lines[at] # Last(Lines)
             /\ PortIn(Lines, at..BlockEnd(Lines, at)) = Port(Lines, at)
             /\ ~ConstructorThrows(Lines, at) =>
                  /\ Port(Lines, at) # Unset /\ \A i \in DOMAIN servers : servers[i].port # Unset
                  /\ ~CannotBind(Lines, at, bound) =>
                       Starting(Lines, "create", BehindServer(Lines, at),
                                Append(servers, [from |-> at, port |-> Port(Lines, at)]),
                                bound \cup PortsOf(Lines, at))
  <2>1. stage = "create" /\ at <= Len(Lines)  BY <1>4 DEF AtCreate
  <2>2. Starting(Lines, "create", at, servers, bound)  BY <1>3, <2>1
  <2> QED  BY <1>3, <2>1, <2>2, NextServer
<1>5. CASE CheckConf
  <2>1. stage = "check" /\ stage' = "create"
    <3>1. Verdicts(Lines) = {"create"}  BY <1>3, Accepted DEF GoodFile
    <3> QED  BY <1>5, <3>1 DEF CheckConf
  <2>2. at' = at /\ servers' = servers /\ bound' = bound  BY <1>5 DEF CheckConf
  <2> QED  BY <1>3, <2>1, <2>2 DEF Starting
<1>6. CASE CreateFails
  <2>1. AtCreate  BY <1>6 DEF CreateFails
  <2>2. stage' = "refused" /\ ~Readable(Lines)  BY <1>4, <1>6, <2>1 DEF CreateFails
  <2>3. at' = at /\ servers' = servers /\ bound' = bound  BY <1>6 DEF CreateFails
  <2> QED  BY <1>3, <2>2, <2>3 DEF Starting
<1>7. CASE PortSeemsTaken
  <2>1. AtCreate /\ ~ConstructorThrows(Lines, at)  BY <1>7 DEF PortSeemsTaken
  <2>2. Port(Lines, at) # Unset /\ \A i \in DOMAIN servers : servers[i].port # Unset  BY <1>4, <2>1
  <2>3. PICK k \in DOMAIN servers : Unset \in {servers[k].port, Port(Lines, at)}
    BY <1>4, <1>7, <2>1 DEF PortSeemsTaken
  <2> QED  BY <2>2, <2>3
<1>8. CASE CreateServer
  <2>1. AtCreate /\ ~ConstructorThrows(Lines, at) /\ ~CannotBind(Lines, at, bound)
    BY <1>8 DEF CreateServer
  <2>2. /\ Port(Lines, at) # Unset /\ Lines[at] # Last(Lines)
        /\ Starting(Lines, "create", BehindServer(Lines, at),
                    Append(servers, [from |-> at, port |-> Port(Lines, at)]),
                    bound \cup PortsOf(Lines, at))
    BY <1>4, <2>1
  <2>3. PortIn(Lines, at..BlockEnd(Lines, at)) = Port(Lines, at)  BY <1>4, <2>1
  <2>4. /\ at' = BehindServer(Lines, at) /\ stage' = stage /\ bound' = bound \cup PortsOf(Lines, at)
        /\ servers' = Append(servers, [from |-> at, port |-> Port(Lines, at)])
    BY <1>8, <2>2, <2>3 DEF CreateServer
  <2>5. stage = "create"  BY <2>1 DEF AtCreate
  <2> QED  BY <2>2, <2>4, <2>5
<1>9. CASE CreateDone
  <2>1. stage = "create" /\ stage' = "running" /\ at > Len(Lines)  BY <1>9 DEF CreateDone
  <2>2. at' = at /\ servers' = servers /\ bound' = bound  BY <1>9 DEF CreateDone
  <2>3. Made(Lines, servers, bound) /\ at = NextStart(Lines, Len(servers))  BY <1>3, <2>1 DEF Starting
  <2> PICK n : n = Len(Lines)  OBVIOUS
  <2> PICK m : m = Len(servers)  OBVIOUS
  <2> PICK c : c = Len(Blocks(Lines))  OBVIOUS
  <2>4. /\ c \in Nat /\ n \in Nat /\ DOMAIN Lines = 1..n
        /\ \A i \in 1..c : Blocks(Lines)[i] \in Openings(Lines)
    BY <1>3, BlockList DEF GoodFile, TextFiles
  <2>5. m \in Nat /\ m <= c  BY <2>3, OneMore DEF Made
  <2>6. m = c
    <3> SUFFICES ASSUME m < c PROVE FALSE  BY <2>4, <2>5
    <3>1. m + 1 \in 1..c /\ at = Blocks(Lines)[m + 1]  BY <2>3, <2>4, <2>5 DEF NextStart
    <3>2. at \in 1..n  BY <2>4, <3>1 DEF Openings
    <3> QED  BY <2>1, <2>4, <3>2
  <2> QED  BY <2>1, <2>2, <2>3, <2>6 DEF Starting
<1>10. CASE UNCHANGED startup
  BY <1>3, <1>10 DEF startup
<1> QED  BY <1>5, <1>6, <1>7, <1>8, <1>9, <1>10 DEF Startup

(***************************************************************************)
(* What is documented, and what is read                                    *)
(***************************************************************************)

(* What a line tells is how it begins; it is the line itself, where no     *)
(* comment is.                                                             *)
LEMMA ToldIs ==
  ASSUME NEW line \in Seq(STRING)
  PROVE  /\ "#" \notin ToSet(line) => Told(line) = line
         /\ Len(Told(line)) \in 0..Len(line) /\ Told(line) \in Seq(STRING)
         /\ \A k \in 1..Len(Told(line)) : Told(line)[k] = line[k]
         /\ Len(Told(line)) < Len(line) => line[Len(Told(line)) + 1] = "#"
<1> DEFINE n == Len(line)
           S == {k \in DOMAIN line : line[k] = "#"} \cup {n + 1}
<1>1. n \in Nat /\ DOMAIN line = 1..n /\ line = SubSeq(line, 1, n)  OBVIOUS
<1>2. S \in SUBSET (1..n + 1) /\ S \in SUBSET Nat /\ S \in SUBSET Int /\ n + 1 \in S  BY <1>1
<1>3. \A k \in S : k = n + 1 \/ line[k] = "#"  OBVIOUS
<1>4. "#" \notin ToSet(line) => S = {n + 1}  BY DEF ToSet
<1>5. Told(line) = SubSeq(line, 1, Min(S) - 1)  BY DEF Told
<1> HIDE DEF S, n
<1>6. PICK m \in S : \A k \in S : m <= k  BY <1>2, LeastExists
<1>7. Min(S) = m  BY <1>2, <1>6, MinIs
<1>8. m \in 1..n + 1 /\ m - 1 \in 0..n  BY <1>1, <1>2
<1>9. /\ Told(line) \in Seq(STRING) /\ Len(Told(line)) = m - 1
      /\ \A k \in 1..m - 1 : Told(line)[k] = line[k]
  BY <1>1, <1>5, <1>7, <1>8
<1>10. m - 1 < n => line[(m - 1) + 1] = "#"
  <2> HAVE m - 1 < n
  <2>1. m # n + 1 /\ (m - 1) + 1 = m  BY <1>1, <1>8
  <2> QED  BY <1>3, <2>1
<1>11. "#" \notin ToSet(line) => Told(line) = line
  <2> HAVE "#" \notin ToSet(line)
  <2>1. m - 1 = n  BY <1>1, <1>4
  <2> QED  BY <1>1, <1>5, <1>7, <2>1
<1> QED  BY <1>1, <1>8, <1>9, <1>10, <1>11 DEF n

(* A documented line without a comment is not refused, unless it is for    *)
(* its brackets, or the long way to name the script's program.             *)
LEMMA LineDocumented ==
  ASSUME NEW line \in Seq(STRING), NEW root, Documented(line, root),
         ~Has(line, "client_max_body_size"),
         ~(Has(line, "cgi") /\ Len(line) = 4),
         Has(line, "location") => Len(line) = 3 /\ line[3] = Open
  PROVE  ~Invalid(line, root)
<1> SUFFICES ASSUME Invalid(line, root) PROVE FALSE  OBVIOUS
<1>1. PICK key \in Keys : Has(line, key)  BY InvalidKey
<1>2. ASSUME Has(line, "listen") PROVE FALSE
  BY <1>2 DEF Documented, Invalid, Has
<1>3. ASSUME Has(line, "buffer_size") PROVE FALSE
  <2>1. Numeral[line[2]] \in 2..1023  BY <1>3 DEF Documented
  <2>2. Numeral[line[2]] \in BufferSizes  BY <2>1 DEF BufferSizes
  <2> QED  BY <1>3, <2>2 DEF Invalid, Has
<1>4. ASSUME Has(line, "root") PROVE FALSE
  BY <1>4 DEF Documented, Invalid, Has
<1>5. ASSUME Has(line, "redirect") PROVE FALSE
  BY <1>5 DEF Documented, Invalid, Has
<1>6. ASSUME Has(line, "cgi") PROVE FALSE
  <2>1. Tail(line) \in {<<".py", "python3">>, <<".py", "python", "3">>}  BY <1>6 DEF Documented
  <2>2. Tail(line) = <<".py", "python", "3">> => Len(line) = 4
    <3> HAVE Tail(line) = <<".py", "python", "3">>
    <3>0. Len(<<".py", "python", "3">>) = 3  OBVIOUS
    <3>1. Len(Tail(line)) = 3  BY <3>0
    <3>2. Len(Tail(line)) = Len(line) - 1 /\ Len(line) \in Nat  BY <1>6 DEF Has
    <3> QED  BY <3>1, <3>2
  <2> QED  BY <1>6, <2>1, <2>2 DEF Invalid, Has
<1>7. ASSUME Has(line, "autoindex") PROVE FALSE
  <2>1. Len(line) = 2 /\ line[2] \in {"true", "false"}  BY <1>7 DEF Documented
  <2>2. Tail(line) = <<line[2]>>
    <3>1. line # <<>> /\ Len(line) = 2  BY <2>1
    <3>2. /\ Tail(line) \in Seq(STRING) /\ Len(Tail(line)) = 1 /\ Tail(line)[1] = line[2]  BY <3>1
    <3> PICK t : t = Tail(line)  OBVIOUS
    <3>3. t \in Seq(STRING) /\ Len(t) = 1  BY <3>2
    <3>4. t = <<t[1]>>  BY ONLY <3>3
    <3> QED  BY <3>2, <3>4
  <2> QED  BY <1>7, <2>1, <2>2 DEF Invalid, Has
<1>8. ASSUME Has(line, "allowed_methods") PROVE FALSE
  <2>1. Len(line) <= 4 /\ Len(line) \in Nat /\ ToSet(Tail(line)) \subseteq AllMethods
    BY <1>8 DEF Documented
  <2>2. ~(Len(line) > 4)  BY <2>1
  <2> QED  BY <1>8, <2>1, <2>2 DEF Invalid, Has
<1>9. ASSUME Has(line, "error_page") PROVE FALSE
  BY <1>9 DEF Documented, Invalid, Has
<1>10. ASSUME Has(line, "index") PROVE FALSE
  BY <1>10 DEF Documented, Invalid, Has
<1>11. ASSUME Has(line, "location") PROVE FALSE
  BY <1>11 DEF Invalid, Has
<1> QED
  BY <1>1, <1>2, <1>3, <1>4, <1>5, <1>6, <1>7, <1>8, <1>9, <1>10, <1>11 DEF Keys

(* A line that the readers take is documented, unless they are looser.     *)
LEMMA LineRead ==
  ASSUME NEW f \in TextFiles, ~Looser(f), NEW j \in DOMAIN f, NEW root,
         IF Has(f[j], "client_max_body_size") THEN ~TooLarge(f[j][2]) ELSE ~Invalid(f[j], root)
  PROVE  Documented(Told(f[j]), root)
<1> DEFINE line == f[j]
           told == Told(f[j])
<1>1. line \in Seq(STRING)  BY DEF TextFiles
<1>2. /\ told \in Seq(STRING) /\ Len(told) \in Nat /\ Len(line) \in Nat /\ Len(told) <= Len(line)
      /\ \A k \in 1..Len(told) : told[k] = line[k]
      /\ Len(told) < Len(line) => line[Len(told) + 1] = "#"
  BY <1>1, ToldIs
<1>3. /\ \A key \in {"listen", "client_max_body_size", "buffer_size"} :
           Has(told, key) => ~(Len(told) > 2)
      /\ Has(line, "root") => ~(Len(line) > 2)
      /\ Has(told, "error_page") => ~(Len(told) < 3)
      /\ \A key \in {"listen", "buffer_size", "error_page"} : Has(told, key) => Number(told[2])
      /\ Has(told, "client_max_body_size") => told[2] \in Figures
      /\ Has(told, "buffer_size") => Numeral[told[2]] \notin {1, 1024}
  BY DEF Looser
<1> HIDE DEF line, told
<1> PICK m : m = Len(told)  OBVIOUS
<1> PICK n : n = Len(line)  OBVIOUS
<1>0. m \in Nat /\ n \in Nat /\ m <= n  BY <1>2
<1>4. ASSUME NEW key, Has(told, key)
      PROVE  Has(line, key) /\ told[1] = key /\ told[1] = line[1] /\ told[2] = line[2] /\ Len(told) >= 2
  <2>1. Len(told) > 1 /\ told[1] = key  BY <1>4 DEF Has
  <2>2. 1 \in 1..Len(told) /\ 2 \in 1..Len(told) /\ Len(line) > 1  BY <1>2, <2>1
  <2> QED  BY <1>2, <2>1, <2>2 DEF Has
<1>5. ~Has(line, "client_max_body_size") => ~Invalid(line, root)  BY DEF line
<1>6. \A key : Has(told, key) /\ key # "client_max_body_size" => Has(line, key) /\ ~Invalid(line, root)
  BY <1>4, <1>5 DEF Has
<1>7. \A key \in {"listen", "client_max_body_size", "buffer_size"} :
        Has(told, key) => Len(told) = 2
  <2> TAKE key \in {"listen", "client_max_body_size", "buffer_size"}
  <2> HAVE Has(told, key)
  <2>1. ~(m > 2)  BY <1>3
  <2>2. m >= 2  BY <1>4
  <2>3. m = 2  BY <1>0, <2>1, <2>2
  <2> QED  BY <2>3
<1>8. Has(told, "listen") => Len(told) = 2 /\ Number(told[2]) /\ Numeral[told[2]] \in Ports
  BY <1>3, <1>4, <1>6, <1>7 DEF Invalid
<1>9. Has(told, "client_max_body_size") => Len(told) = 2 /\ told[2] \in Figures /\ ~TooLarge(told[2])
  BY <1>3, <1>4, <1>7 DEF line
<1>10. Has(told, "buffer_size") => Len(told) = 2 /\ Number(told[2]) /\ Numeral[told[2]] \in 2..1023
  <2> HAVE Has(told, "buffer_size")
  <2>0. Has(line, "buffer_size") /\ ~Invalid(line, root) /\ told[2] = line[2]  BY <1>4, <1>6
  <2>1. PICK size : size = Numeral[told[2]]  OBVIOUS
  <2>2. size \in 1..1024
    <3>1. Numeral[line[2]] \in BufferSizes  BY <2>0 DEF Invalid
    <3> QED  BY <2>0, <2>1, <3>1 DEF BufferSizes
  <2>3. size # 1 /\ size # 1024  BY <1>3, <2>1
  <2>4. size \in 2..1023  BY <2>2, <2>3
  <2>5. Number(told[2])  BY <1>3
  <2>6. Len(told) = 2  BY <1>7
  <2> QED  BY <2>1, <2>4, <2>5, <2>6
<1>12. ASSUME \A k \in 1..Len(line) : line[k] # "#" PROVE told = line
  <2>1. Len(told) = Len(line)
    <3>1. Len(told) < Len(line) => Len(told) + 1 \in 1..Len(line)  BY <1>2
    <3> QED  BY <1>2, <1>12, <3>1
  <2> QED  BY <1>1, <1>2, <2>1
<1>13. ASSUME NEW key, Has(told, key), Len(line) <= 2 PROVE told = line
  <2>1. Len(told) = Len(line)  BY <1>2, <1>4, <1>13
  <2> QED  BY <1>1, <1>2, <2>1
<1>14. Has(told, "root") => Len(told) = 2 /\ Unslashed(RootOf(told)) \in Directories
  <2> HAVE Has(told, "root")
  <2>1. Has(line, "root") /\ Len(line) <= 2
    <3>1. Has(line, "root")  BY <1>4
    <3>2. ~(Len(line) > 2)  BY <1>3, <3>1
    <3> QED  BY <1>2, <3>1, <3>2
  <2>2. told = line  BY <1>13, <2>1
  <2>3. Len(told) = 2
    <3>1. m >= 2 /\ n <= 2  BY <1>4, <2>1
    <3>2. m = 2  BY <1>0, <3>1
    <3> QED  BY <3>2
  <2> QED  BY <1>6, <2>1, <2>2, <2>3 DEF Invalid
<1>15. Has(told, "redirect") => Len(told) = 2
  <2> HAVE Has(told, "redirect")
  <2>1. n = 2  BY <1>6 DEF Invalid
  <2>2. m >= 2  BY <1>4
  <2>3. m = 2  BY <1>0, <2>1, <2>2
  <2> QED  BY <2>3
<1>16. Has(told, "cgi") => Tail(told) = <<".py", "python3">>
  <2> HAVE Has(told, "cgi")
  <2>1. Tail(line) = <<".py", "python3">> /\ line[1] = "cgi" /\ Len(line) >= 2
    BY <1>2, <1>4, <1>6 DEF Invalid
  <2>2. Len(line) = 3 /\ line[2] = ".py" /\ line[3] = "python3"
    <3>1. Len(Tail(line)) = Len(line) - 1 /\ \A k \in 1..Len(line) - 1 : Tail(line)[k] = line[k + 1]
      BY <1>1, <2>1 DEF line
    <3>2. /\ Len(<<".py", "python3">>) = 2 /\ <<".py", "python3">>[1] = ".py"
          /\ <<".py", "python3">>[2] = "python3"
      OBVIOUS
    <3>3. Len(Tail(line)) = 2 /\ Tail(line)[1] = ".py" /\ Tail(line)[2] = "python3"  BY <2>1, <3>2
    <3>4. n = 3  BY <1>0, <3>1, <3>3
    <3>5. 1 \in 1..n - 1 /\ 2 \in 1..n - 1 /\ 1 + 1 = 2 /\ 2 + 1 = 3  BY <3>4
    <3>6. Tail(line)[1] = line[2] /\ Tail(line)[2] = line[3]  BY <3>1, <3>5
    <3> QED  BY <3>3, <3>4, <3>6
  <2>3. told = line
    <3>1. \A k \in 1..3 : k = 1 \/ k = 2 \/ k = 3  OBVIOUS
    <3> QED  BY <1>12, <2>1, <2>2, <3>1
  <2> QED  BY <2>1, <2>3
<1>17. Has(told, "autoindex") => Len(told) = 2 /\ told[2] \in {"true", "false"}
  <2> HAVE Has(told, "autoindex")
  <2>1. Tail(line) \in {<<"true">>, <<"false">>}  BY <1>6 DEF Invalid
  <2>2. Len(line) = 2 /\ line[2] = Tail(line)[1]
    <3>1. Len(line) >= 2 /\ line # <<>>  BY <1>2, <1>4
    <3>2. Len(Tail(line)) = Len(line) - 1 /\ \A k \in 1..Len(line) - 1 : Tail(line)[k] = line[k + 1]
      BY <1>1, <3>1 DEF line
    <3>3. Len(<<"true">>) = 1 /\ Len(<<"false">>) = 1  OBVIOUS
    <3>4. Len(Tail(line)) = 1  BY <2>1, <3>3
    <3>5. n = 2  BY <1>0, <3>2, <3>4
    <3>6. 1 \in 1..n - 1 /\ 1 + 1 = 2  BY <3>5
    <3>7. Tail(line)[1] = line[2]  BY <3>2, <3>6
    <3> QED  BY <3>5, <3>7
  <2>3. Tail(line)[1] \in {"true", "false"}
    <3>1. <<"true">>[1] = "true" /\ <<"false">>[1] = "false"  OBVIOUS
    <3> QED  BY <2>1, <3>1
  <2>4. told = line  BY <1>13, <2>2
  <2> QED  BY <2>2, <2>3, <2>4
<1>18. Has(told, "allowed_methods") => Len(told) <= 4 /\ ToSet(Tail(told)) \subseteq AllMethods
  <2> HAVE Has(told, "allowed_methods")
  <2>1. Len(line) <= 4 /\ ToSet(Tail(line)) \subseteq AllMethods
    BY <1>2, <1>6 DEF Invalid
  <2>2. told = line
    <3>1. Len(line) >= 2 /\ line # <<>> /\ line[1] # "#"  BY <1>2, <1>4
    <3>2. Len(Tail(line)) = Len(line) - 1 /\ \A k \in 1..Len(line) - 1 : Tail(line)[k] = line[k + 1]
      BY <1>1, <3>1 DEF line
    <3>3. \A k \in 1..Len(line) - 1 : line[k + 1] \in AllMethods
      <4>1. \A k \in 1..Len(line) - 1 : Tail(line)[k] \in ToSet(Tail(line))
        <5>1. Tail(line) \in Seq(STRING)  BY <1>1, <3>1 DEF line
        <5>2. DOMAIN Tail(line) = 1..Len(line) - 1  BY <3>2, <5>1
        <5> QED  BY <5>2 DEF ToSet
      <4> QED  BY <2>1, <3>2, <4>1
    <3>4. \A k \in 1..Len(line) : k = 1 \/ (k - 1 \in 1..Len(line) - 1 /\ (k - 1) + 1 = k)  BY <1>2
    <3>5. "#" \notin AllMethods  BY DEF AllMethods
    <3>6. \A k \in 1..Len(line) : line[k] # "#"  BY <3>1, <3>3, <3>4, <3>5
    <3> QED  BY <1>12, <3>6
  <2> QED  BY <2>1, <2>2
<1>19. Has(told, "error_page") =>
         Len(told) = 3 /\ Number(told[2]) /\ Numeral[told[2]] \in ErrorCodes /\ PageOf(told) \in Published
  <2> HAVE Has(told, "error_page")
  <2>1. Len(line) = 3 /\ Numeral[line[2]] \in ErrorCodes /\ PageOf(line) \in Published
    BY <1>6 DEF Invalid
  <2>2. Number(told[2]) /\ told[2] = line[2]  BY <1>3, <1>4
  <2>3. told = line
    <3>1. ~(m < 3) /\ n = 3  BY <1>3, <2>1
    <3>2. m = n  BY <1>0, <3>1
    <3>3. \A k \in 1..n : told[k] = line[k]  BY <1>2, <3>2
    <3>4. told \in Seq(STRING) /\ Len(told) = Len(line)  BY <1>2, <3>2
    <3> QED  BY <1>1, <3>3, <3>4
  <2> QED  BY <2>1, <2>2, <2>3
<1>20. Has(told, "index") => \A k \in 2..Len(told) : IndexPage(root, told[k]) \in Published
  <2> HAVE Has(told, "index")
  <2>1. \A k \in 2..Len(line) : IndexPage(root, line[k]) \in Published  BY <1>6 DEF Invalid
  <2>2. \A k \in 2..Len(told) : k \in 2..Len(line) /\ told[k] = line[k]  BY <1>2
  <2> QED  BY <2>1, <2>2
<1> QED
  BY <1>8, <1>9, <1>10, <1>14, <1>15, <1>16, <1>17, <1>18, <1>19, <1>20 DEF Documented, told

(* What belongs to a block or a location is in the file.                   *)
LEMMA LevelIn ==
  ASSUME NEW f \in TextFiles, WellFormed(f), NEW k, k \in Openings(f) \/ (k \in DOMAIN f /\ Locates(f[k])),
         NEW j \in Level(f, k)
  PROVE  j \in DOMAIN f /\ f[j] \in Seq(STRING)
<1>1. PICK d : Shape(f, Len(f), d)  BY ShapeOf
<1>2. ASSUME NEW i \in Openings(f), NEW e, ProperBlock(f, Len(f), d, i, e), NEW h \in i..e
      PROVE  h \in DOMAIN f
  <2>1. ServerBlock(f, Len(f), d, i, e)  BY <1>2 DEF ProperBlock
  <2> QED  BY <1>2, <2>1, InBlock
<1>3. CASE k \in Openings(f)
  <2>1. PICK e : ProperBlock(f, Len(f), d, k, e)  BY <1>1, <1>3, BlockOf
  <2>2. j \in k..e /\ k \in Int /\ e \in Int
    <3>1. ServerBlock(f, Len(f), d, k, e)  BY <2>1 DEF ProperBlock
    <3>2. Level(f, k) = {h \in k..e - 1 : d[h] = 1} /\ k \in Int /\ e \in Int  BY <3>1, BlockLevel, InBlock
    <3> QED  BY <3>2
  <2>3. j \in DOMAIN f  BY <1>2, <1>3, <2>1, <2>2
  <2> QED  BY <2>3 DEF TextFiles
<1>4. CASE k \in DOMAIN f /\ Locates(f[k])
  <2>1. PICK i \in Openings(f) : \E e : ProperBlock(f, Len(f), d, i, e) /\ k \in i..e
    BY <1>1, <1>4, LocationsInBlocks
  <2>2. PICK e : ProperBlock(f, Len(f), d, i, e) /\ k \in i..e  BY <2>1
  <2>3. ServerBlock(f, Len(f), d, i, e)  BY <2>2 DEF ProperBlock
  <2>4. PICK g \in k + 1..e - 1 : Level(f, k) = k..g - 1  BY <1>4, <2>2, <2>3, LocationInBlock
  <2>5. i \in Int /\ e \in Int  BY <2>3, InBlock
  <2>6. j \in i..e  BY <2>2, <2>4, <2>5
  <2>7. j \in DOMAIN f  BY <1>2, <2>2, <2>6
  <2> QED  BY <2>7 DEF TextFiles
<1> QED  BY <1>3, <1>4

(* A file documented throughout is read, where the code is not stricter.   *)
LEMMA DocumentedRead ==
  ASSUME NEW f \in TextFiles, WellFormed(f), Acceptable(f), ~Stricter(f)
  PROVE  Readable(f)
<1> DEFINE starts == ToSet(Blocks(f))
           places == starts \cup {k \in DOMAIN f : Has(f[k], "location")}
           port == [k \in starts |-> PortIn(f, Level(f, k))]
           P == \A k \in starts : port[k] \notin Taken /\ \A j \in starts \ {k} : port[j] # port[k]
<1>1. /\ \A k \in places : \A j \in Level(f, k) :
           \/ k \notin starts /\ f[j][1] \in {"client_max_body_size", "buffer_size"}
           \/ Documented(Told(f[j]), DeclaredRoot(f, k))
      /\ P
  BY DEF Acceptable
<1>2. \A k \in places : k \in Openings(f) \/ (k \in DOMAIN f /\ Locates(f[k]))
  <2>1. starts = Openings(f)  BY BlocksAre
  <2> HIDE DEF starts
  <2> QED  BY <2>1 DEF Locates
<1> SUFFICES ASSUME NEW k \in places, NEW j \in Level(f, k)
             PROVE  IF Has(f[j], "client_max_body_size") /\ k \in starts THEN ~TooLarge(f[j][2])
                    ELSE \/ k \notin starts /\ f[j][1] \in {"client_max_body_size", "buffer_size"}
                         \/ ~Invalid(f[j], DeclaredRoot(f, k))
  <2> HIDE DEF P
  <2> QED  BY <1>1 DEF Readable, P
<1> HIDE DEF starts, places, port
<1>3. j \in DOMAIN f /\ f[j] \in Seq(STRING)  BY <1>2, LevelIn
<1>4. Told(f[j]) = f[j] /\ ~(Has(f[j], "cgi") /\ Len(f[j]) = 4)
  BY <1>3, ToldIs DEF Stricter
<1>5. CASE k \notin starts /\ f[j][1] \in {"client_max_body_size", "buffer_size"}  BY <1>5
<1>6. CASE Documented(f[j], DeclaredRoot(f, k)) /\ Has(f[j], "client_max_body_size")
  <2>1. ~TooLarge(f[j][2])  BY <1>6 DEF Documented
  <2>2. f[j][1] = "client_max_body_size"  BY <1>6 DEF Has
  <2> QED  BY <1>6, <2>1, <2>2
<1>7. CASE Documented(f[j], DeclaredRoot(f, k)) /\ ~Has(f[j], "client_max_body_size")
  <2>1. Has(f[j], "location") => Len(f[j]) = 3 /\ f[j][3] = Open
    BY <1>3 DEF WellFormed
  <2> QED  BY <1>3, <1>4, <1>7, <2>1, LineDocumented
<1> QED  BY <1>1, <1>4, <1>5, <1>6, <1>7

(* A file that is read is documented throughout, where the code is not     *)
(* looser.                                                                 *)
LEMMA ReadDocumented ==
  ASSUME NEW f \in TextFiles, WellFormed(f), Readable(f), ~Looser(f)
  PROVE  Acceptable(f)
<1> DEFINE starts == ToSet(Blocks(f))
           places == starts \cup {k \in DOMAIN f : Has(f[k], "location")}
           port == [k \in starts |-> PortIn(f, Level(f, k))]
           P == \A k \in starts : port[k] \notin Taken /\ \A j \in starts \ {k} : port[j] # port[k]
<1>1. /\ \A k \in places : \A j \in Level(f, k) :
           IF Has(f[j], "client_max_body_size") /\ k \in starts THEN ~TooLarge(f[j][2])
           ELSE \/ k \notin starts /\ f[j][1] \in {"client_max_body_size", "buffer_size"}
                \/ ~Invalid(f[j], DeclaredRoot(f, k))
      /\ P
  BY DEF Readable
<1>2. \A k \in places : k \in Openings(f) \/ (k \in DOMAIN f /\ Locates(f[k]))
  <2>1. starts = Openings(f)  BY BlocksAre
  <2> HIDE DEF starts
  <2> QED  BY <2>1 DEF Locates
<1> SUFFICES ASSUME NEW k \in places, NEW j \in Level(f, k)
             PROVE  \/ k \notin starts /\ f[j][1] \in {"client_max_body_size", "buffer_size"}
                    \/ Documented(Told(f[j]), DeclaredRoot(f, k))
  <2> HIDE DEF P
  <2> QED  BY <1>1 DEF Acceptable, P
<1> HIDE DEF starts, places, port
<1>3. j \in DOMAIN f  BY <1>2, LevelIn
<1>4. CASE k \notin starts /\ f[j][1] \in {"client_max_body_size", "buffer_size"}  BY <1>4
<1>5. CASE ~(k \notin starts /\ f[j][1] \in {"client_max_body_size", "buffer_size"})
  <2>1. Has(f[j], "client_max_body_size") => k \in starts  BY <1>5 DEF Has
  <2>2. IF Has(f[j], "client_max_body_size") THEN ~TooLarge(f[j][2])
        ELSE ~Invalid(f[j], DeclaredRoot(f, k))
    BY <1>1, <1>5, <2>1
  <2> QED  BY <1>3, <2>2, LineRead
<1> QED  BY <1>4, <1>5

(* It says that the program starts as it should, with servers as written.  *)
LEMMA StartInvMeans ==
  StartInv => StartsAsItShould /\ ServersAsWritten
<1> SUFFICES ASSUME StartInv, file \in WellFormedFiles PROVE StartsAsItShould /\ ServersAsWritten
  BY DEF StartsAsItShould, ServersAsWritten
<1>1. Starting(Lines, stage, at, servers, bound) /\ GoodFile(Lines)  BY GoodFiles DEF StartInv
<1>2. StartsAsItShould
  <2>1. stage # "crashed" /\ (stage = "refused" => ~Readable(Lines))  BY <1>1 DEF Starting
  <2>2. stage = "running" => Readable(Lines) \/ LimitWraps(Lines)
    BY <1>1, AllMade DEF Starting
  <2>3. /\ file \in WellFormedFiles /\ Lines = Files[file]
        /\ file \in AcceptableFiles <=> Acceptable(Lines)
    BY DEF AcceptableFiles, Lines
  <2>4. Lines \in TextFiles /\ WellFormed(Lines)  BY <1>1 DEF GoodFile
  <2>5. stage = "refused" => file \in RefusableFiles
    BY <2>1, <2>3, <2>4, DocumentedRead DEF RefusableFiles
  <2>6. stage = "running" => file \in StartableFiles
    BY <2>2, <2>3, <2>4, ReadDocumented DEF StartableFiles
  <2> QED  BY <2>1, <2>5, <2>6 DEF StartsAsItShould
<1>3. ServersAsWritten
  <2> SUFFICES ASSUME stage = "running"
               PROVE  /\ [k \in DOMAIN servers |-> servers[k].from] = Blocks(Lines)
                      /\ \A k \in DOMAIN servers : servers[k].from \in Understood[file]
                      /\ bound = Taken \cup {servers[k].port : k \in DOMAIN servers}
    BY DEF ServersAsWritten
  <2>1. Made(Lines, servers, bound) /\ Len(servers) = Len(Blocks(Lines))  BY <1>1 DEF Starting
  <2>2. /\ DOMAIN Blocks(Lines) = 1..Len(Blocks(Lines)) /\ IsSequence(Blocks(Lines))
        /\ \A i \in 1..Len(Blocks(Lines)) : Blocks(Lines)[i] \in Openings(Lines)
    BY <1>1, BlockList DEF GoodFile
  <2> PICK c : c = Len(Blocks(Lines))  OBVIOUS
  <2>3. DOMAIN servers = 1..c  BY <2>1, OneMore DEF Made
  <2>4. \A i \in 1..c : servers[i].from = Blocks(Lines)[i] /\ ~ConstructorThrows(Lines, Blocks(Lines)[i])
    BY <2>1 DEF Made
  <2>5. [k \in DOMAIN servers |-> servers[k].from] = Blocks(Lines)
    <3> PICK B : B = Blocks(Lines)  OBVIOUS
    <3>1. B \in Seq(ToSet(B)) /\ DOMAIN B = 1..c  BY <2>2 DEF IsSequence
    <3>2. B = [k \in 1..c |-> B[k]]  BY <3>1
    <3> QED  BY <2>3, <2>4, <3>2
  <2>6. \A k \in DOMAIN servers : servers[k].from \in Understood[file]
    <3> TAKE k \in DOMAIN servers
    <3>1. Blocks(Lines)[k] \in Openings(Lines) /\ ~ConstructorThrows(Lines, Blocks(Lines)[k])
      BY <2>2, <2>3, <2>4
    <3>2. Blocks(Lines)[k] \in Understood[file]  BY <1>1, <3>1, AllUnderstood
    <3> QED  BY <2>3, <2>4, <3>2
  <2>7. bound = Taken \cup {servers[k].port : k \in DOMAIN servers}
    BY <2>1, <2>3 DEF Made
  <2> QED  BY <2>5, <2>6, <2>7
<1> QED  BY <1>2, <1>3

(* On a well-formed file, whatever its length, setConf(), create_servers() *)
(* and the constructor of Server refuse what is not documented, start      *)
(* otherwise, and crash at nothing.                                        *)
THEOREM StartsRight ==
  ConfigSpec => []StartsAsItShould
<1>1. ConfigSpec => []StartInv
  BY StartInvInit, StartInvStep, PTL DEF ConfigSpec
<1> QED  BY <1>1, StartInvMeans, PTL

(* Each block of a well-formed file becomes the server that it means: its  *)
(* port, limits, settings and locations, in the order of the file.         *)
THEOREM ServersRight ==
  ConfigSpec => []ServersAsWritten
<1>1. ConfigSpec => []StartInv
  BY StartInvInit, StartInvStep, PTL DEF ConfigSpec
<1> QED  BY <1>1, StartInvMeans, PTL

(***************************************************************************)
(* Types, whatever is in the file                                          *)
(***************************************************************************)

(* The end of a block is a line of the file.                               *)
LEMMA BlockEndIn ==
  ASSUME NEW f, NEW n \in Nat, Len(f) = n, NEW k \in 1..n
  PROVE  BlockEnd(f, k) \in k..n
<1> DEFINE before(j) == Cardinality({h \in k..j : Has(f[h], "location")})
                          - Cardinality({h \in k..j - 1 : f[h] = Closing})
           S == {j \in k..n : f[j] = Closing /\ before(j) = 0} \cup {n}
<1>1. BlockEnd(f, k) = Min(S)  BY DEF BlockEnd
<1>2. S \subseteq k..n /\ n \in S  OBVIOUS
<1> HIDE DEF S
<1>3. S \in SUBSET Nat /\ S \in SUBSET Int  BY <1>2
<1>4. PICK m \in S : \A j \in S : m <= j  BY <1>2, <1>3, LeastExists
<1>5. Min(S) = m  BY <1>3, <1>4, MinIs
<1> QED  BY <1>1, <1>2, <1>4, <1>5

(* A port is unset, or one of those that the lines name.                   *)
LEMMA PortInIs ==
  ASSUME NEW f, NEW n \in Nat, NEW where \in SUBSET (1..n)
  PROVE  \/ PortIn(f, where) = Unset
         \/ \E j \in where : Has(f[j], "listen") /\ PortIn(f, where) = Numeral[f[j][2]]
<1> DEFINE S == {k \in where : Has(f[k], "listen")}
           k == LastWith(f, where, "listen")
<1>1. k = Max(S \cup {0})  BY DEF LastWith
<1>2. S \cup {0} \in SUBSET (0..n) /\ S \cup {0} \in SUBSET Int /\ S \cup {0} # {}
  <2>1. S \in SUBSET (1..n)  OBVIOUS
  <2> HIDE DEF S
  <2> QED  BY <2>1
<1>3. \A j \in S \cup {0} : j = 0 \/ (j \in where /\ Has(f[j], "listen"))  OBVIOUS
<1>4. PortIn(f, where) = IF k = 0 THEN Unset ELSE Numeral[f[k][2]]  BY DEF PortIn, Value
<1> HIDE DEF S, k
<1>5. PICK m \in S \cup {0} : \A j \in S \cup {0} : j <= m  BY <1>2, GreatestExists
<1>6. Max(S \cup {0}) = m  BY <1>2, <1>5, MaxIs
<1>7. k = m  BY <1>1, <1>6
<1> QED  BY <1>3, <1>4, <1>5, <1>7

(* The ports of a server that no constructor throws at may be listened on. *)
LEMMA PortsAllowed ==
  ASSUME NEW f, NEW k, ~ConstructorThrows(f, k)
  PROVE  PortsOf(f, k) \subseteq Ports
<1>1. \A j \in k..BlockEnd(f, k) : f[j][1] = "listen" => ~Invalid(f[j], <<>>)
  BY DEF ConstructorThrows
<1>2. \A j \in Listening(f, k) : Numeral[f[j][2]] \in Ports
  <2> TAKE j \in Listening(f, k)
  <2>1. j \in k..BlockEnd(f, k) /\ Has(f[j], "listen")  BY DEF Listening
  <2>2. ~Invalid(f[j], <<>>)  BY <1>1, <2>1 DEF Has
  <2> QED  BY <2>1, <2>2 DEF Invalid
<1> QED  BY <1>2 DEF PortsOf

(* What the program has started so far.                                    *)
StartupTyped == StartupTypeOK /\ IsSequence(servers)

(* It is so at first.                                                      *)
LEMMA StartupTypedInit ==
  ConfigInit => StartupTyped
<1> SUFFICES ASSUME ConfigInit PROVE StartupTyped  OBVIOUS
<1>1. Len(Lines) \in Nat
  <2>1. Lines \in Seq(Seq(STRING) \ {<<>>})  BY FileAssumption DEF Lines, ConfigInit
  <2> QED  BY <2>1
<1>2. at \in 1..Len(Lines) + 1  BY <1>1 DEF ConfigInit
<1>3. IsSequence(servers) /\ DOMAIN servers = {}
  <2>1. <<>> \in Seq({}) /\ DOMAIN <<>> = {}  OBVIOUS
  <2>2. servers = <<>>  BY DEF ConfigInit
  <2> QED  BY <2>1, <2>2, AnySequence
<1> QED  BY <1>2, <1>3 DEF StartupTyped, StartupTypeOK, ConfigInit

(* It stays so.                                                            *)
LEMMA StartupTypedStep ==
  StartupTyped /\ [Startup]_startup => StartupTyped'
<1> SUFFICES ASSUME StartupTyped, [Startup]_startup PROVE StartupTyped'  OBVIOUS
<1>1. file' = file /\ Lines' = Lines /\ file \in DOMAIN Files
  BY DEF Startup, startup, CheckConf, CreateFails, PortSeemsTaken, CreateServer, CreateDone, Lines,
         StartupTyped, StartupTypeOK
<1> PICK n : n = Len(Lines)  OBVIOUS
<1>2. n \in Nat /\ Len(Lines') = n
  <2>1. Lines \in Seq(Seq(STRING) \ {<<>>})  BY <1>1, FileAssumption DEF Lines
  <2> QED  BY <1>1, <2>1
<1>3. at \in 1..n + 1 /\ bound \subseteq Taken \cup Ports /\ IsSequence(servers)
      /\ \A k \in DOMAIN servers : servers[k].from \in 1..at - 1 /\ servers[k].port \in {Unset} \cup bound
  BY DEF StartupTyped, StartupTypeOK
<1> SUFFICES /\ stage' \in {"check", "create", "running", "refused", "crashed"}
             /\ at' \in 1..n + 1 /\ bound' \subseteq Taken \cup Ports /\ IsSequence(servers')
             /\ \A k \in DOMAIN servers' :
                  servers'[k].from \in 1..at' - 1 /\ servers'[k].port \in {Unset} \cup bound'
  BY <1>1, <1>2 DEF StartupTyped, StartupTypeOK, IsSequence
<1>4. stage' \in {"check", "create", "running", "refused", "crashed"}
  <2>1. stage' \in {"create", "running", "refused", "crashed"} \/ stage' = stage
    BY DEF Startup, startup, CheckConf, Verdicts, CreateFails, PortSeemsTaken, CreateServer, CreateDone
  <2>2. stage \in {"check", "create", "running", "refused", "crashed"}
    BY DEF StartupTyped, StartupTypeOK
  <2> QED  BY <2>1, <2>2
<1>5. CASE UNCHANGED <<at, servers, bound>>  BY <1>3, <1>4, <1>5 DEF IsSequence
<1>6. ASSUME AtCreate, ~ConstructorThrows(Lines, at),
             bound' = bound \cup PortsOf(Lines, at)
      PROVE  /\ at \in 1..n /\ bound' \subseteq Taken \cup Ports
             /\ BehindServer(Lines, at) \in at + 1..n + 1
             /\ PortIn(Lines, at..BlockEnd(Lines, at)) \in {Unset} \cup bound'
  <2>1. at \in 1..n  BY <1>2, <1>3, <1>6 DEF AtCreate
  <2> PICK e : e = BlockEnd(Lines, at)  OBVIOUS
  <2>2. e \in at..n  BY <1>2, <2>1, BlockEndIn
  <2>3. bound' \subseteq Taken \cup Ports  BY <1>3, <1>6, PortsAllowed
  <2>4. BehindServer(Lines, at) = e + 1 \/ BehindServer(Lines, at) = at + 1  BY DEF BehindServer
  <2>5. at..e \in SUBSET (1..n)  BY <1>2, <2>1, <2>2
  <2>6. PortIn(Lines, at..e) \in {Unset} \cup bound'
    <3>1. CASE PortIn(Lines, at..e) = Unset  BY <3>1
    <3>2. ASSUME NEW j \in at..e, Has(Lines[j], "listen"), PortIn(Lines, at..e) = Numeral[Lines[j][2]]
          PROVE  PortIn(Lines, at..e) \in bound'
      <4>1. PortIn(Lines, at..e) \in PortsOf(Lines, at)  BY <3>2 DEF PortsOf, Listening
      <4> QED  BY <1>6, <4>1
    <3> QED  BY <1>2, <2>5, <3>1, <3>2, PortInIs
  <2> QED  BY <1>2, <2>1, <2>2, <2>3, <2>4, <2>6
<1>7. CASE PortSeemsTaken
  <2>1. /\ AtCreate /\ ~ConstructorThrows(Lines, at) /\ bound' = bound \cup PortsOf(Lines, at)
        /\ at' = at /\ servers' = servers
    BY <1>7 DEF PortSeemsTaken
  <2> QED  BY <1>3, <1>4, <1>6, <2>1 DEF IsSequence
<1>8. CASE CreateServer
  <2> DEFINE port == PortIn(Lines, at..BlockEnd(Lines, at))
  <2>1. /\ AtCreate /\ ~ConstructorThrows(Lines, at) /\ bound' = bound \cup PortsOf(Lines, at)
        /\ \/ at' = at /\ servers' = servers
           \/ /\ at' = BehindServer(Lines, at)
              /\ servers' = Append(servers, [from |-> at, port |-> port]) \/ servers' = servers
    BY <1>8 DEF CreateServer
  <2>2. at \in 1..n /\ bound' \subseteq Taken \cup Ports
        /\ BehindServer(Lines, at) \in at + 1..n + 1 /\ port \in {Unset} \cup bound'
    BY <1>6, <2>1
  <2>3. \A k \in DOMAIN servers :
          servers[k].from \in 1..at - 1 /\ servers[k].port \in {Unset} \cup bound'
    BY <1>3, <2>1
  <2>4. CASE at' = at /\ servers' = servers  BY <1>3, <1>4, <2>2, <2>3, <2>4 DEF IsSequence
  <2> HIDE DEF port
  <2>5. ASSUME at' = BehindServer(Lines, at)
        PROVE  at' \in 1..n + 1 /\ at \in 1..at' - 1 /\ \A k \in 1..at - 1 : k \in 1..at' - 1
    BY <1>2, <2>2, <2>5
  <2>6. CASE at' = BehindServer(Lines, at) /\ servers' = servers
    BY <1>3, <1>4, <2>2, <2>3, <2>5, <2>6 DEF IsSequence
  <2>7. CASE at' = BehindServer(Lines, at) /\ servers' = Append(servers, [from |-> at, port |-> port])
    <3> PICK s : s = [from |-> at, port |-> port]  OBVIOUS
    <3>1. s.from = at /\ s.port = port  OBVIOUS
    <3> PICK c : c = Len(servers)  OBVIOUS
    <3>2. /\ IsSequence(servers') /\ c \in Nat /\ DOMAIN servers = 1..c /\ DOMAIN servers' = 1..c + 1
          /\ servers'[c + 1] = s /\ \A k \in 1..c : servers'[k] = servers[k]
      BY <1>3, <2>7, OneMore
    <3>3. ASSUME NEW k \in 1..c + 1
          PROVE  servers'[k].from \in 1..at' - 1 /\ servers'[k].port \in {Unset} \cup bound'
      <4>1. CASE k = c + 1  BY <2>2, <2>5, <2>7, <3>1, <3>2, <4>1
      <4>2. CASE k \in 1..c  BY <2>3, <2>5, <2>7, <3>2, <4>2
      <4> QED  BY <3>2, <4>1, <4>2
    <3> QED  BY <1>4, <2>2, <2>5, <2>7, <3>2, <3>3
  <2> QED  BY <2>1, <2>4, <2>6, <2>7
<1> QED
  BY <1>5, <1>7, <1>8 DEF Startup, startup, CheckConf, CreateFails, CreateDone

(* The file, the stage and the line are what they should be; and what is   *)
(* listened on was asked for.                                              *)
THEOREM StartupTypes ==
  ConfigSpec => []StartupTypeOK
<1>1. StartupTyped => StartupTypeOK  BY DEF StartupTyped
<1> QED  BY <1>1, StartupTypedInit, StartupTypedStep, PTL DEF ConfigSpec
=============================================================================
