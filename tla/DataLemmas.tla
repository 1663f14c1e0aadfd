----------------------------- MODULE DataLemmas -----------------------------
(***************************************************************************)
(* Facts about remainders, sequences, FlattenSeq and finite sets, for      *)
(* every value, that the proofs about the components share.                *)
(***************************************************************************)
EXTENDS SequencesExt, Integers, WellFoundedInduction, SequenceTheorems, FiniteSetTheorems,
        TLAPS

(* Euclidean division, as the provers know it. *)
LEMMA Division ==
  ASSUME NEW a \in Nat, NEW c \in Nat \ {0}
  PROVE  /\ a % c \in 0 .. c - 1
         /\ a \div c \in Nat
         /\ a = c * (a \div c) + (a % c)
  OBVIOUS

(* A quotient and a remainder are determined by the number they come from. *)
LEMMA DivisionUnique ==
  ASSUME NEW c \in Nat \ {0},
         NEW q \in Int, NEW r \in 0 .. c - 1,
         NEW p \in Int, NEW s \in 0 .. c - 1,
         c * q + r = c * p + s
  PROVE  q = p /\ r = s
<1>1. c * (q - p) = s - r
  BY SMT
<1>2. CASE q - p >= 1
  <2>1. c * (q - p) >= c
    BY <1>2, SMT
  <2>2. QED
    BY <2>1, <1>1
<1>3. CASE p - q >= 1
  <2>1. c * (p - q) >= c
    BY <1>3, SMT
  <2>2. c * (p - q) = r - s
    BY SMT
  <2>3. QED
    BY <2>1, <2>2
<1>4. CASE q = p
  BY <1>1, <1>4
<1>5. QED
  BY <1>2, <1>3, <1>4

(* So a remainder is known from any way of writing the number. *)
LEMMA RemainderOf ==
  ASSUME NEW c \in Nat \ {0}, NEW p \in Nat, NEW s \in 0 .. c - 1
  PROVE  (c * p + s) % c = s
<1> DEFINE b == c * p + s
           q == b \div c
           r == b % c
<1>1. b \in Nat /\ b = c * p + s
  OBVIOUS
<1> HIDE DEF b
<1>2. b = c * q + r /\ r \in 0 .. c - 1 /\ q \in Nat
  BY <1>1, Division
<1> HIDE DEF q, r
<1>3. c * q + r = c * p + s
  BY <1>1, <1>2
<1>4. q \in Int /\ p \in Int /\ r \in 0 .. c - 1
  BY <1>2
<1>5. r = s
  BY <1>3, <1>4, DivisionUnique
<1>6. QED
  BY <1>5 DEF b, r

(* One lap later the same remainder comes up again. *)
LEMMA RemainderAfterLap ==
  ASSUME NEW c \in Nat \ {0}, NEW a \in Nat
  PROVE  (a + c) % c = a % c
<1> DEFINE q == a \div c
           r == a % c
<1>1. a = c * q + r /\ q \in Nat /\ r \in 0 .. c - 1
  BY Division
<1> HIDE DEF q, r
<1>2. a + c = c * (q + 1) + r /\ q + 1 \in Nat
  BY <1>1
<1>3. (a + c) % c = r
  BY <1>1, <1>2, RemainderOf
<1>4. QED
  BY <1>3 DEF r

(* Within one lap no two numbers share a remainder. *)
LEMMA RemaindersDiffer ==
  ASSUME NEW c \in Nat \ {0}, NEW a \in Nat, NEW b \in Nat, a < b, b - a < c
  PROVE  a % c # b % c
<1>1. b = c * (b \div c) + (b % c) /\ b \div c \in Nat
  BY Division
<1>2. a = c * (a \div c) + (a % c) /\ a \div c \in Nat
  BY Division
<1>3. SUFFICES ASSUME a % c = b % c
               PROVE  FALSE
  OBVIOUS
<1> DEFINE d == (b \div c) - (a \div c)
<1>4. d \in Int /\ b - a = c * d
  BY <1>1, <1>2, <1>3
<1> HIDE DEF d
<1>5. CASE d <= 0
  <2>1. c * d <= 0
    BY <1>4, <1>5
  <2>2. QED
    BY <2>1, <1>4
<1>6. CASE d >= 1
  <2>1. c * d >= c
    BY <1>4, <1>6
  <2>2. QED
    BY <2>1, <1>4
<1>7. QED
  BY <1>4, <1>5, <1>6

(* A lap, counted from anywhere, reaches every remainder ... *)
LEMMA RemainderReached ==
  ASSUME NEW c \in Nat \ {0}, NEW s \in 0 .. c - 1, NEW h \in Nat
  PROVE  \E i \in 0 .. c - 1 : (h + i) % c = s
<1> DEFINE q == h \div c
           r == h % c
<1>1. h = c * q + r /\ r \in 0 .. c - 1 /\ q \in Nat
  BY Division
<1> HIDE DEF q, r
<1>2. CASE r <= s
  <2>1. h + (s - r) = c * q + s /\ s - r \in 0 .. c - 1
    BY <1>1, <1>2
  <2>2. QED
    BY <1>1, <2>1, RemainderOf
<1>3. CASE s < r
  <2>1. /\ h + (s - r + c) = c * (q + 1) + s
        /\ s - r + c \in 0 .. c - 1
        /\ q + 1 \in Nat
    BY <1>1, <1>3
  <2>2. QED
    BY <2>1, RemainderOf
<1>4. QED
  BY <1>1, <1>2, <1>3

-----------------------------------------------------------------------------
(* Two sequences in a row. *)
LEMMA InARow ==
  ASSUME NEW X, NEW s \in Seq(X), NEW t \in Seq(X)
  PROVE  /\ s \o t \in Seq(X)
         /\ Len(s) \in Nat /\ Len(t) \in Nat /\ Len(s \o t) = Len(s) + Len(t)
         /\ \A i \in 1 .. Len(s) : (s \o t)[i] = s[i]
         /\ \A i \in 1 .. Len(t) : (s \o t)[Len(s) + i] = t[i]
<1>1. s \o t \in Seq(X) /\ Len(s \o t) = Len(s) + Len(t)
  OBVIOUS
<1>2. Len(s) \in Nat /\ Len(t) \in Nat
  OBVIOUS
<1>3. \A i \in 1 .. Len(s) : (s \o t)[i] = s[i]
  OBVIOUS
<1>4. \A i \in 1 .. Len(t) : (s \o t)[Len(s) + i] = t[i]
  OBVIOUS
<1>5. QED
  BY <1>1, <1>2, <1>3, <1>4

(* What two sequences in a row are, element by element. *)
LEMMA JoinIs ==
  ASSUME NEW X, NEW s \in Seq(X), NEW t \in Seq(X), NEW u \in Seq(X),
         Len(u) = Len(s) + Len(t), \A i \in 1 .. Len(s) : u[i] = s[i],
         \A i \in 1 .. Len(t) : u[Len(s) + i] = t[i]
  PROVE  s \o t = u
<1> DEFINE r == s \o t
<1>1. /\ r \in Seq(X) /\ Len(s) \in Nat /\ Len(t) \in Nat /\ Len(r) = Len(s) + Len(t)
      /\ \A i \in 1 .. Len(s) : r[i] = s[i]
      /\ \A i \in 1 .. Len(t) : r[Len(s) + i] = t[i]
  BY InARow
<1> HIDE DEF r
<1>2. ASSUME NEW i \in 1 .. Len(r) PROVE r[i] = u[i]
  <2>1. CASE i <= Len(s)
    BY <1>1, <2>1
  <2>2. CASE i > Len(s)
    <3> DEFINE k == i - Len(s)
    <3>1. k \in 1 .. Len(t) /\ i = Len(s) + k
      BY <1>1, <2>2
    <3> HIDE DEF k
    <3> QED BY <1>1, <3>1
  <2> QED BY <1>1, <2>1, <2>2
<1>3. r = u
  BY <1>1, <1>2, SeqEqual
<1> QED BY <1>3 DEF r

(* The end of a sequence, from the n-th on. *)
LEMMA EndOf ==
  ASSUME NEW X, NEW s \in Seq(X), NEW n \in 0 .. Len(s)
  PROVE  /\ Len(s) \in Nat /\ n \in Nat /\ n <= Len(s)
         /\ SubSeq(s, 1, n) \in Seq(X) /\ Len(SubSeq(s, 1, n)) = n
         /\ \A i \in 1 .. n : SubSeq(s, 1, n)[i] = s[i]
         /\ SubSeq(s, n + 1, Len(s)) \in Seq(X)
         /\ Len(SubSeq(s, n + 1, Len(s))) = Len(s) - n
         /\ \A i \in 1 .. Len(s) - n : SubSeq(s, n + 1, Len(s))[i] = s[n + i]
<1>1. Len(s) \in Nat /\ n \in Nat /\ n <= Len(s)
  BY LenProperties
<1>2. \A i \in 1 .. Len(s) : s[i] \in X
  BY ElementOfSeq
<1>3. SubSeq(s, 1, n) \in Seq(X) /\ Len(SubSeq(s, 1, n)) = n
  BY <1>1, <1>2
<1>4. \A i \in 1 .. n : SubSeq(s, 1, n)[i] = s[i]
  BY <1>1
<1>5. SubSeq(s, n + 1, Len(s)) \in Seq(X)
  BY <1>1, <1>2
<1>6. Len(SubSeq(s, n + 1, Len(s))) = Len(s) - n
  BY <1>1
<1>7. \A i \in 1 .. Len(s) - n : SubSeq(s, n + 1, Len(s))[i] = s[n + i]
  BY <1>1
<1>8. QED
  BY <1>1, <1>3, <1>4, <1>5, <1>6, <1>7

(* A segment cut in two is the segment. *)
LEMMA CutAndJoin ==
  ASSUME NEW X, NEW s \in Seq(X), NEW n \in 0 .. Len(s)
  PROVE  SubSeq(s, 1, n) \o SubSeq(s, n + 1, Len(s)) = s
<1> DEFINE u == SubSeq(s, 1, n)
           v == SubSeq(s, n + 1, Len(s))
           w == u \o v
<1>1. /\ Len(s) \in Nat /\ n \in Nat /\ n <= Len(s)
      /\ u \in Seq(X) /\ Len(u) = n /\ \A i \in 1 .. n : u[i] = s[i]
      /\ v \in Seq(X) /\ Len(v) = Len(s) - n /\ \A i \in 1 .. Len(s) - n : v[i] = s[n + i]
  BY EndOf
<1> HIDE DEF u, v
<1>2. /\ w \in Seq(X) /\ Len(w) = Len(u) + Len(v)
      /\ \A i \in 1 .. Len(u) : w[i] = u[i]
      /\ \A i \in 1 .. Len(v) : w[Len(u) + i] = v[i]
  BY <1>1, InARow
<1> HIDE DEF w
<1>3. Len(w) = Len(s)
  BY <1>1, <1>2
<1>4. ASSUME NEW i \in 1 .. Len(s) PROVE w[i] = s[i]
  <2>1. CASE i <= n
    BY <1>1, <1>2, <2>1
  <2>2. CASE i > n
    <3> DEFINE k == i - n
    <3>1. k \in 1 .. Len(s) - n /\ i = n + k
      BY <1>1, <2>2
    <3> HIDE DEF k
    <3>2. QED
      BY <1>1, <1>2, <3>1
  <2>3. QED
    BY <1>1, <2>1, <2>2
<1>5. w = s
  BY <1>2, <1>3, <1>4, SeqEqual
<1>6. QED
  BY <1>5 DEF u, v, w

-----------------------------------------------------------------------------
(* Induction over the natural numbers, for a set instead of a predicate. *)
LEMMA SetInduction ==
  ASSUME NEW S, 0 \in S, \A n \in Nat : n \in S => n + 1 \in S
  PROVE  Nat \subseteq S
<1> DEFINE T == Nat \ S
           R == OpToRel(<, Nat)
<1>1. SUFFICES ASSUME T # {} PROVE FALSE
  OBVIOUS
<1>2. IsWellFoundedOn(R, Nat)
  BY NatLessThanWellFounded
<1>3. PICK m \in T : \A k \in T : ~(<<k, m>> \in R)
  <2> HIDE DEF R
  <2> QED
    BY <1>1, <1>2, WFMin
<1>4. \A k \in T : ~(k < m)
  BY <1>3 DEF OpToRel
<1>5. m # 0 /\ m - 1 \in Nat /\ m - 1 \notin T
  BY <1>4
<1>6. QED
  BY <1>5

(* What the recursion of FlattenSeq computes on the first n segments. *)
Joins(q, n, f) ==
  /\ DOMAIN f = 1 .. n
  /\ \A i \in 1 .. n : f[i] = IF i = 1 THEN q[i] ELSE f[i - 1] \o q[i]

LEMMA JoinsExists ==
  ASSUME NEW q, NEW n \in Nat
  PROVE  \E f : Joins(q, n, f) /\ f = [i \in 1 .. n |-> f[i]]
<1> DEFINE S == {k \in Nat : \E f : Joins(q, k, f) /\ f = [i \in 1 .. k |-> f[i]]}
<1>1. 0 \in S
  <2>1. Joins(q, 0, [i \in 1 .. 0 |-> q])
    BY DEF Joins
  <2>2. [i \in 1 .. 0 |-> q] = [i \in 1 .. 0 |-> [j \in 1 .. 0 |-> q][i]]
    OBVIOUS
  <2>3. QED
    BY <2>1, <2>2
<1>2. ASSUME NEW k \in Nat, k \in S PROVE k + 1 \in S
  <2>1. PICK f : Joins(q, k, f)
    BY <1>2
  <2> DEFINE g == [i \in 1 .. k + 1 |->
                     IF i = k + 1 THEN (IF i = 1 THEN q[i] ELSE f[k] \o q[i]) ELSE f[i]]
  <2>2. ASSUME NEW i \in 1 .. k + 1
        PROVE  g[i] = IF i = 1 THEN q[i] ELSE g[i - 1] \o q[i]
    <3>1. CASE i = k + 1
      <4>1. CASE i = 1
        BY <3>1, <4>1
      <4>2. CASE i # 1
        <5>1. i - 1 \in 1 .. k + 1 /\ i - 1 = k /\ k # k + 1
          BY <3>1, <4>2
        <5>2. g[i - 1] = f[k]
          BY <5>1
        <5>3. g[i] = f[k] \o q[i]
          BY <3>1, <4>2
        <5> HIDE DEF g
        <5>4. QED
          BY <4>2, <5>2, <5>3
      <4>3. QED
        BY <4>1, <4>2
    <3>2. CASE i # k + 1
      <4>1. i \in 1 .. k /\ g[i] = f[i]
        BY <3>2
      <4>2. f[i] = IF i = 1 THEN q[i] ELSE f[i - 1] \o q[i]
        BY <2>1, <4>1 DEF Joins
      <4>3. i # 1 => g[i - 1] = f[i - 1]
        BY <4>1
      <4> HIDE DEF g
      <4>4. QED
        BY <4>1, <4>2, <4>3
    <3>3. QED
      BY <3>1, <3>2
  <2>3. DOMAIN g = 1 .. k + 1 /\ g = [i \in 1 .. k + 1 |-> g[i]]
    OBVIOUS
  <2> HIDE DEF g
  <2>4. Joins(q, k + 1, g)
    BY <2>2, <2>3 DEF Joins
  <2>5. QED
    BY <2>3, <2>4
<1>3. Nat \subseteq S
  <2> HIDE DEF S
  <2> QED
    BY <1>1, <1>2, SetInduction
<1>4. QED
  BY <1>3

LEMMA FlattenUnfolds ==
  ASSUME NEW q, Len(q) \in Nat
  PROVE  \E f : Joins(q, Len(q), f) /\ FlattenSeq(q) = IF Len(q) = 0 THEN q ELSE f[Len(q)]
<1> DEFINE J(f) == f = [i \in 1 .. Len(q) |-> IF i = 1 THEN q[i] ELSE f[i - 1] \o q[i]]
           f == CHOOSE h : J(h)
<1>1. J(f)
  <2>1. PICK g : Joins(q, Len(q), g) /\ g = [i \in 1 .. Len(q) |-> g[i]]
    BY JoinsExists
  <2>2. J(g)
    BY <2>1 DEF Joins
  <2> HIDE DEF J
  <2>3. QED
    BY <2>2
<1>2. FlattenSeq(q) = IF Len(q) = 0 THEN q ELSE f[Len(q)]
  BY DEF FlattenSeq
<1> HIDE DEF f
<1>3. Joins(q, Len(q), f)
  BY <1>1 DEF Joins
<1>4. QED
  BY <1>2, <1>3

LEMMA JoinsType ==
  ASSUME NEW X, NEW q \in Seq(Seq(X)), NEW n \in 0 .. Len(q), NEW f, Joins(q, n, f),
         NEW i \in 1 .. n
  PROVE  f[i] \in Seq(X)
<1> DEFINE S == {k \in Nat : k + 1 <= n => f[k + 1] \in Seq(X)}
<1>0. n \in Nat /\ \A k \in 1 .. n : q[k] \in Seq(X)
  BY ElementOfSeq, LenProperties
<1>1. 0 \in S
  <2>1. SUFFICES ASSUME 1 <= n PROVE f[1] \in Seq(X)
    OBVIOUS
  <2>2. 1 \in 1 .. n
    BY <1>0, <2>1
  <2>3. f[1] = IF 1 = 1 THEN q[1] ELSE f[1 - 1] \o q[1]
    BY <2>2 DEF Joins
  <2>4. QED
    BY <1>0, <2>2, <2>3
<1>2. ASSUME NEW k \in Nat, k \in S PROVE k + 1 \in S
  <2>1. SUFFICES ASSUME k + 2 <= n PROVE f[k + 2] \in Seq(X)
    OBVIOUS
  <2>2. k + 2 \in 1 .. n /\ k + 2 # 1 /\ (k + 2) - 1 = k + 1
    BY <1>0, <2>1
  <2>3. f[k + 2] = f[k + 1] \o q[k + 2]
    BY <2>2 DEF Joins
  <2>4. f[k + 1] \in Seq(X) /\ q[k + 2] \in Seq(X)
    BY <1>0, <1>2, <2>1, <2>2
  <2>5. QED
    BY <2>3, <2>4, ConcatProperties
<1>3. Nat \subseteq S
  <2> HIDE DEF S
  <2> QED
    BY <1>1, <1>2, SetInduction
<1>4. i - 1 \in Nat /\ (i - 1) + 1 = i /\ i <= n
  BY <1>0
<1>5. i - 1 \in S
  BY <1>3, <1>4
<1>6. (i - 1) + 1 <= n => f[(i - 1) + 1] \in Seq(X)
  BY <1>5
<1>7. QED
  BY <1>4, <1>6

Agree(q, r, n) == \A i \in 1 .. n : q[i] = r[i]

(* Joining is decided by the segments joined. *)
LEMMA JoinsUnique ==
  ASSUME NEW q, NEW r, NEW n \in Nat, NEW m \in Nat, n <= m, Agree(q, r, n),
         NEW f, Joins(q, n, f), NEW g, Joins(r, m, g), NEW i \in 1 .. n
  PROVE  f[i] = g[i]
<1> DEFINE S == {k \in Nat : k + 1 <= n => f[k + 1] = g[k + 1]}
<1>1. 0 \in S
  <2>1. SUFFICES ASSUME 1 <= n PROVE f[1] = g[1]
    OBVIOUS
  <2>2. 1 \in 1 .. n /\ 1 \in 1 .. m
    BY <2>1
  <2>3. /\ f[1] = IF 1 = 1 THEN q[1] ELSE f[1 - 1] \o q[1]
        /\ g[1] = IF 1 = 1 THEN r[1] ELSE g[1 - 1] \o r[1]
    BY <2>2 DEF Joins
  <2>4. QED
    BY <2>2, <2>3 DEF Agree
<1>2. ASSUME NEW k \in Nat, k \in S PROVE k + 1 \in S
  <2>1. SUFFICES ASSUME k + 2 <= n PROVE f[k + 2] = g[k + 2]
    OBVIOUS
  <2>2. k + 2 \in 1 .. n /\ k + 2 \in 1 .. m /\ k + 2 # 1 /\ (k + 2) - 1 = k + 1
    BY <2>1
  <2>3. f[k + 2] = f[k + 1] \o q[k + 2] /\ g[k + 2] = g[k + 1] \o r[k + 2]
    BY <2>2 DEF Joins
  <2>4. f[k + 1] = g[k + 1]
    BY <1>2, <2>1
  <2>5. QED
    BY <2>2, <2>3, <2>4 DEF Agree
<1>3. Nat \subseteq S
  <2> HIDE DEF S
  <2> QED
    BY <1>1, <1>2, SetInduction
<1>4. i - 1 \in Nat /\ (i - 1) + 1 = i /\ i <= n
  OBVIOUS
<1>5. i - 1 \in S
  BY <1>3, <1>4
<1>6. (i - 1) + 1 <= n => f[(i - 1) + 1] = g[(i - 1) + 1]
  BY <1>5
<1>7. QED
  BY <1>4, <1>6

LEMMA FlattenType ==
  ASSUME NEW X, NEW q \in Seq(Seq(X))
  PROVE  FlattenSeq(q) \in Seq(X)
<1>1. Len(q) \in Nat
  BY LenProperties
<1>2. PICK f : Joins(q, Len(q), f) /\ FlattenSeq(q) = IF Len(q) = 0 THEN q ELSE f[Len(q)]
  BY <1>1, FlattenUnfolds
<1>3. CASE Len(q) = 0
  BY <1>2, <1>3, EmptySeq
<1>4. CASE Len(q) # 0
  <2>1. Len(q) \in 0 .. Len(q) /\ Len(q) \in 1 .. Len(q)
    BY <1>1, <1>4
  <2>2. f[Len(q)] \in Seq(X)
    BY <1>2, <2>1, JoinsType
  <2>3. QED
    BY <1>2, <1>4, <2>2
<1>5. QED
  BY <1>3, <1>4

(* A segment put at the end is a run of bytes put at the end. *)
LEMMA FlattenAppend ==
  ASSUME NEW X, NEW q \in Seq(Seq(X)), NEW s \in Seq(X)
  PROVE  FlattenSeq(Append(q, s)) = FlattenSeq(q) \o s
<1> DEFINE r == Append(q, s)
           n == Len(q)
<1>1. n \in Nat /\ Len(r) = n + 1 /\ r[n + 1] = s /\ \A i \in 1 .. n : q[i] = r[i]
  BY AppendProperties, LenProperties
<1> HIDE DEF r
<1>2. PICK f : Joins(q, n, f) /\ FlattenSeq(q) = IF n = 0 THEN q ELSE f[n]
  BY <1>1, FlattenUnfolds
<1>3. PICK g : Joins(r, n + 1, g) /\ FlattenSeq(r) = g[n + 1]
  <2>1. PICK g : Joins(r, Len(r), g) /\ FlattenSeq(r) = IF Len(r) = 0 THEN r ELSE g[Len(r)]
    BY <1>1, FlattenUnfolds
  <2>2. QED
    BY <1>1, <2>1
<1>4. CASE n = 0
  <2>1. q = <<>>
    BY <1>4, EmptySeq
  <2>2. g[1] = s
    BY <1>1, <1>3, <1>4 DEF Joins
  <2>3. <<>> \o s = s
    BY ConcatEmptySeq
  <2>4. QED
    BY <1>2, <1>3, <1>4, <2>1, <2>2, <2>3 DEF r
<1>5. CASE n # 0
  <2>1. n \in 1 .. n /\ n + 1 \in 1 .. n + 1 /\ n + 1 # 1 /\ (n + 1) - 1 = n /\ n <= n + 1
    BY <1>1, <1>5
  <2>2. g[n + 1] = g[n] \o s
    <3>1. g[n + 1] = IF n + 1 = 1 THEN r[n + 1] ELSE g[(n + 1) - 1] \o r[n + 1]
      BY <1>3, <2>1 DEF Joins
    <3>2. QED
      BY <1>1, <2>1, <3>1
  <2>3. f[n] = g[n]
    <3> HIDE DEF n
    <3>1. n \in Nat /\ n + 1 \in Nat /\ n <= n + 1 /\ n \in 1 .. n
      BY <1>1, <2>1
    <3>2. Agree(q, r, n) /\ Joins(q, n, f) /\ Joins(r, n + 1, g)
      BY <1>1, <1>2, <1>3 DEF Agree
    <3>3. \A j \in 1 .. n : f[j] = g[j]
      <4>1. SUFFICES ASSUME NEW j \in 1 .. n PROVE f[j] = g[j]
        OBVIOUS
      <4> DEFINE m == n + 1
      <4>2. m \in Nat /\ n <= m /\ Joins(r, m, g)
        BY <3>1, <3>2
      <4> HIDE DEF m
      <4>3. QED
        BY <3>1, <3>2, <4>2, JoinsUnique, SMTT(40)
    <3>4. QED
      BY <3>1, <3>3
  <2>4. QED
    BY <1>2, <1>3, <1>5, <2>2, <2>3 DEF r
<1>6. QED
  BY <1>4, <1>5

(* The first segment comes first. *)
LEMMA FlattenHead ==
  ASSUME NEW X, NEW q \in Seq(Seq(X)), q # <<>>
  PROVE  /\ Head(q) \in Seq(X) /\ Tail(q) \in Seq(Seq(X))
         /\ FlattenSeq(q) = Head(q) \o FlattenSeq(Tail(q))
<1> DEFINE t == Tail(q)
           h == Head(q)
           n == Len(t)
<1>1. /\ h \in Seq(X) /\ t \in Seq(Seq(X)) /\ n \in Nat /\ Len(q) = n + 1
      /\ \A i \in 1 .. n : t[i] = q[i + 1] /\ t[i] \in Seq(X)
  <2>1. h \in Seq(X) /\ t \in Seq(Seq(X))
    BY HeadTailProperties
  <2>2. n \in Nat /\ Len(q) \in Nat /\ n = Len(q) - 1
    BY <2>1, HeadTailProperties, LenProperties
  <2>3. \A i \in 1 .. n : t[i] = q[i + 1]
    BY HeadTailProperties
  <2>4. \A i \in 1 .. n : t[i] \in Seq(X)
    BY <2>1, ElementOfSeq
  <2>5. QED
    BY <2>1, <2>2, <2>3, <2>4
<1>2. q[1] = h
  OBVIOUS
<1>3. PICK f : Joins(q, n + 1, f) /\ FlattenSeq(q) = f[n + 1]
  <2> HIDE DEF n
  <2>1. Len(q) \in Nat /\ Len(q) # 0
    BY <1>1
  <2>2. PICK f : Joins(q, Len(q), f) /\ FlattenSeq(q) = IF Len(q) = 0 THEN q ELSE f[Len(q)]
    BY <2>1, FlattenUnfolds
  <2>3. QED
    BY <1>1, <2>1, <2>2
<1>4. PICK g : Joins(t, n, g) /\ FlattenSeq(t) = IF n = 0 THEN t ELSE g[n]
  BY <1>1, FlattenUnfolds
<1>5. \A i \in 1 .. n : g[i] \in Seq(X)
  <2> HIDE DEF t
  <2>1. n \in 0 .. Len(t)
    BY <1>1
  <2>2. QED
    BY <1>1, <1>4, <2>1, JoinsType
<1> HIDE DEF t, h, n
<1>6. f[1] = h
  BY <1>1, <1>2, <1>3 DEF Joins
<1> DEFINE S == {k \in Nat : k + 1 <= n => f[k + 2] = h \o g[k + 1]}
<1>7. 0 \in S
  <2>1. SUFFICES ASSUME 1 <= n PROVE f[2] = h \o g[1]
    OBVIOUS
  <2>2. f[2] = f[1] \o q[2]
    <3>1. 2 \in 1 .. n + 1 /\ 2 # 1 /\ 2 - 1 = 1
      BY <1>1, <2>1
    <3>2. f[2] = IF 2 = 1 THEN q[2] ELSE f[2 - 1] \o q[2]
      BY <1>3, <3>1 DEF Joins
    <3>3. QED
      BY <3>1, <3>2
  <2>3. 1 \in 1 .. n /\ 1 + 1 = 2
    BY <1>1, <2>1
  <2>4. g[1] = IF 1 = 1 THEN t[1] ELSE g[1 - 1] \o t[1]
    BY <1>4, <2>3 DEF Joins
  <2>5. t[1] = q[2]
    BY <1>1, <2>3
  <2>6. QED
    BY <1>6, <2>2, <2>4, <2>5
<1>8. ASSUME NEW k \in Nat, k \in S PROVE k + 1 \in S
  <2>1. SUFFICES ASSUME k + 2 <= n PROVE f[k + 3] = h \o g[k + 2]
    OBVIOUS
  <2>2. /\ k + 3 \in 1 .. n + 1 /\ k + 3 # 1 /\ (k + 3) - 1 = k + 2
        /\ k + 2 \in 1 .. n /\ k + 2 # 1 /\ (k + 2) - 1 = k + 1 /\ k + 1 \in 1 .. n
        /\ (k + 2) + 1 = k + 3
    BY <1>1, <2>1
  <2>3. f[k + 3] = f[k + 2] \o q[k + 3]
    <3>1. f[k + 3] = IF k + 3 = 1 THEN q[k + 3] ELSE f[(k + 3) - 1] \o q[k + 3]
      BY <1>3, <2>2 DEF Joins
    <3>2. QED
      BY <2>2, <3>1
  <2>4. g[k + 2] = g[k + 1] \o t[k + 2]
    <3>1. g[k + 2] = IF k + 2 = 1 THEN t[k + 2] ELSE g[(k + 2) - 1] \o t[k + 2]
      BY <1>4, <2>2 DEF Joins
    <3>2. QED
      BY <2>2, <3>1
  <2>5. t[k + 2] = q[k + 3] /\ t[k + 2] \in Seq(X)
    BY <1>1, <2>2
  <2>6. f[k + 2] = h \o g[k + 1]
    BY <1>1, <1>8, <2>1
  <2>7. (h \o g[k + 1]) \o t[k + 2] = h \o (g[k + 1] \o t[k + 2])
    <3>1. h \in Seq(X) /\ g[k + 1] \in Seq(X) /\ t[k + 2] \in Seq(X)
      BY <1>1, <1>5, <2>2, <2>5
    <3> DEFINE u == g[k + 1]
               v == t[k + 2]
    <3>2. u \in Seq(X) /\ v \in Seq(X)
      BY <3>1
    <3> HIDE DEF u, v, S
    <3>3. (h \o u) \o v = h \o (u \o v)
      BY <3>1, <3>2, ConcatAssociative, SMTT(40)
    <3>4. QED
      BY <3>3 DEF u, v
  <2>8. QED
    BY <2>3, <2>4, <2>5, <2>6, <2>7
<1>9. Nat \subseteq S
  <2> HIDE DEF S
  <2> QED
    BY <1>7, <1>8, SetInduction
<1>10. CASE n = 0
  <2>1. t = <<>>
    BY <1>1, <1>10, EmptySeq DEF n
  <2>2. h \o <<>> = h
    BY <1>1, ConcatEmptySeq
  <2>3. FlattenSeq(q) = h \o FlattenSeq(t)
    BY <1>3, <1>4, <1>6, <1>10, <2>1, <2>2
  <2>4. QED
    BY <1>1, <2>3 DEF h, t
<1>11. CASE n # 0
  <2>1. n - 1 \in Nat /\ (n - 1) + 1 = n /\ (n - 1) + 2 = n + 1
    BY <1>1, <1>11
  <2>2. n - 1 \in S
    BY <1>9, <2>1
  <2>3. (n - 1) + 1 <= n => f[(n - 1) + 2] = h \o g[(n - 1) + 1]
    BY <2>2
  <2>4. f[n + 1] = h \o g[n]
    BY <1>1, <2>1, <2>3
  <2>5. FlattenSeq(q) = h \o FlattenSeq(t)
    BY <1>3, <1>4, <1>11, <2>4
  <2>6. QED
    BY <1>1, <2>5 DEF h, t
<1>12. QED
  BY <1>10, <1>11

-----------------------------------------------------------------------------
(* The largest of some of the first n positions. *)
LEMMA LastOf ==
  ASSUME NEW n \in Nat, NEW T \in SUBSET (1 .. n), T # {}
  PROVE  Max(T) \in T /\ \A k \in T : Max(T) >= k
<1> DEFINE S == {k \in Nat : \A U \in SUBSET (1 .. k) :
                               U # {} => \E x \in U : \A y \in U : x >= y}
<1>1. 0 \in S
  <2>1. 1 .. 0 = {}
    OBVIOUS
  <2>2. \A U \in SUBSET {} : U = {}
    OBVIOUS
  <2> QED BY <2>1, <2>2
<1>2. ASSUME NEW k \in Nat, k \in S PROVE k + 1 \in S
  <2>1. SUFFICES ASSUME NEW U \in SUBSET (1 .. k + 1), U # {}
                 PROVE  \E x \in U : \A y \in U : x >= y
    OBVIOUS
  <2>2. CASE k + 1 \in U
    BY <2>2
  <2>3. CASE k + 1 \notin U
    <3>1. U \in SUBSET (1 .. k)
      BY <2>3
    <3> QED BY <1>2, <2>1, <3>1
  <2> QED BY <2>2, <2>3
<1>3. Nat \subseteq S
  <2> HIDE DEF S
  <2> QED BY <1>1, <1>2, SetInduction
<1>4. n \in S
  BY <1>3
<1>5. \E x \in T : \A y \in T : x >= y
  BY <1>4
<1> QED BY <1>5 DEF Max

(* A finite set as a sequence has every member, and no other. *)
LEMMA SetAsSeq ==
  ASSUME NEW S, IsFiniteSet(S)
  PROVE  /\ SetToSeq(S) \in Seq(S)
         /\ \A x \in S : \E i \in 1 .. Len(SetToSeq(S)) : SetToSeq(S)[i] = x
<1> DEFINE n == Cardinality(S)
           Lists == [1 .. n -> S]
           s == CHOOSE f \in Lists : IsInjective(f)
<1>1. n \in Nat /\ ExistsBijection(1 .. n, S)
  BY FS_CardinalityType
<1>2. IsFiniteSet(1 .. n) /\ Cardinality(1 .. n) = n
  <2> HIDE DEF n
  <2>1. n \in Int /\ 1 \in Int
    BY <1>1
  <2>2. IsFiniteSet(1 .. n) /\ Cardinality(1 .. n) = IF 1 > n THEN 0 ELSE n - 1 + 1
    BY <2>1, FS_Interval
  <2> QED BY <1>1, <2>2
<1>3. \E f \in Lists : IsInjective(f)
  BY <1>1 DEF ExistsBijection, Bijection, Injection, IsInjective
<1>4. s \in Lists /\ IsInjective(s)
  <2> HIDE DEF Lists
  <2> QED BY <1>3
<1>5. s = SetToSeq(S)
  BY DEF SetToSeq
<1> HIDE DEF s
<1>6. s \in Injection(1 .. n, S)
  BY <1>4 DEF Injection, IsInjective
<1>7. s \in Surjection(1 .. n, S)
  <2> HIDE DEF n
  <2> DEFINE D == 1 .. n
  <2>1. s \in Injection(D, S) /\ Cardinality(D) = Cardinality(S)
    BY <1>2, <1>6 DEF n
  <2> HIDE DEF D
  <2>2. s \in Surjection(D, S)
    BY <2>1, FS_Injection
  <2> QED BY <2>2 DEF D
<1>8. s \in Seq(S) /\ Len(s) = n
  BY <1>1, <1>4
<1> QED BY <1>5, <1>7, <1>8 DEF Surjection

(* What a sequence holds is finite, and so is any part of it. *)
LEMMA ListedFinite ==
  ASSUME NEW X, NEW s \in Seq(X), NEW T \in SUBSET ToSet(s)
  PROVE  IsFiniteSet(T)
<1> DEFINE D == 1 .. Len(s)
           U == ToSet(s)
<1>1. Len(s) \in Nat /\ 1 \in Int /\ Len(s) \in Int
  BY LenProperties
<1>2. IsFiniteSet(D)
  BY <1>1, FS_Interval
<1>3. DOMAIN s = D /\ s = [i \in D |-> s[i]]
  OBVIOUS
<1>4. s \in Surjection(D, U)
  BY <1>3 DEF Surjection, ToSet
<1>5. IsFiniteSet(U)
  <2> HIDE DEF D, U
  <2> QED BY <1>2, <1>4, FS_Surjection
<1> QED BY <1>5, FS_Subset
=============================================================================
