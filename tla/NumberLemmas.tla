---------------------------- MODULE NumberLemmas ----------------------------
(***************************************************************************)
(* Induction, powers of two, division, and recursion that descends, adds   *)
(* up, searches or climbs, as the proofs about the pure functions of the   *)
(* code need them.                                                         *)
(***************************************************************************)
EXTENDS Integers, Sequences, FiniteSetTheorems, WellFoundedInduction, TLAPS

-----------------------------------------------------------------------------
(* Induction over sets of numbers.                                         *)

LEMMA LeastOf ==
  ASSUME NEW S \in SUBSET Nat, S # {}
  PROVE  \E m \in S : \A k \in S : m <= k
<1> DEFINE R == OpToRel(<, Nat)
<1>1. IsWellFoundedOn(R, Nat)
  BY NatLessThanWellFounded
<1>2. \A x, y \in Nat : x < y => <<x, y>> \in R
  BY DEF OpToRel
<1> HIDE DEF R
<1>3. PICK x \in S : \A y \in S : ~(<<y, x>> \in R)
  BY <1>1, WFMin
<1>4. ASSUME NEW y \in S PROVE x <= y
  <2>1. x \in Nat /\ y \in Nat
    OBVIOUS
  <2>2. ~(y < x)
    BY <1>2, <1>3, <2>1
  <2> QED
    BY <2>1, <2>2
<1> QED
  BY <1>4

LEMMA Induct ==
  ASSUME NEW S, 0 \in S, \A n \in Nat : n \in S => n + 1 \in S
  PROVE  Nat \subseteq S
<1> SUFFICES ASSUME Nat \ S # {} PROVE FALSE
  OBVIOUS
<1>1. PICK m \in Nat \ S : \A k \in Nat \ S : m <= k
  BY LeastOf
<1>2. m # 0
  OBVIOUS
<1>3. m - 1 \in Nat /\ m - 1 \in S
  BY <1>1, <1>2
<1> QED
  BY <1>1, <1>3

-----------------------------------------------------------------------------
(* Powers of two, as the numbers of subsets.                               *)

LEMMA PowerOfZero == 2^0 = 1
<1>1. Cardinality(SUBSET {}) = 2^Cardinality({})
  BY FS_SUBSET, FS_EmptySet
<1>2. SUBSET {} = {{}}
  OBVIOUS
<1>3. Cardinality({}) = 0 /\ Cardinality({{}}) = 1
  BY FS_EmptySet, FS_Singleton
<1> QED
  BY <1>1, <1>2, <1>3

LEMMA PowerOfNext ==
  ASSUME NEW n \in Nat
  PROVE  2^n \in Nat /\ 2^(n + 1) = 2 * 2^n
<1> DEFINE S == 1 .. n
           T == 1 .. n + 1
           P == SUBSET S
           Q == {A \cup {n + 1} : A \in P}
           f == [A \in P |-> A \cup {n + 1}]
<1>1. /\ IsFiniteSet(S) /\ Cardinality(S) = n
      /\ IsFiniteSet(T) /\ Cardinality(T) = n + 1
  BY FS_Interval
<1>2. /\ IsFiniteSet(P) /\ Cardinality(P) = 2^n /\ Cardinality(P) \in Nat
      /\ Cardinality(SUBSET T) = 2^(n + 1)
  BY <1>1, FS_SUBSET, FS_CardinalityType
<1>3. f \in Bijection(P, Q)
  <2>1. \A A \in P : (A \cup {n + 1}) \ {n + 1} = A
    <3>1. n + 1 \notin S
      OBVIOUS
    <3> QED
      BY <3>1
  <2>2. \A A \in P : A \cup {n + 1} \in Q
    OBVIOUS
  <2>3. \A B \in Q : \E A \in P : B = A \cup {n + 1}
    OBVIOUS
  <2> HIDE DEF P, Q, S
  <2>4. f \in [P -> Q]
    BY <2>2
  <2>5. ASSUME NEW A \in P, NEW B \in P, f[A] = f[B] PROVE A = B
    <3>1. A \cup {n + 1} = B \cup {n + 1}
      BY <2>5
    <3> QED
      BY <2>1, <3>1
  <2>6. \A B \in Q : \E A \in P : f[A] = B
    BY <2>3
  <2> HIDE DEF f
  <2> QED
    BY <2>4, <2>5, <2>6 DEF Bijection, Injection, Surjection, IsInjective
<1>4. IsFiniteSet(Q) /\ Cardinality(Q) = Cardinality(P)
  <2> HIDE DEF P, Q, f
  <2> QED
    BY <1>2, <1>3, FS_Bijection DEF ExistsBijection
<1>5. P \cap Q = {}
  OBVIOUS
<1>6. SUBSET T = P \cup Q
  <2>1. T = S \cup {n + 1}
    OBVIOUS
  <2>2. ASSUME NEW A \in SUBSET T, n + 1 \in A PROVE A \in Q
    <3>1. A \ {n + 1} \in P /\ A = (A \ {n + 1}) \cup {n + 1}
      BY <2>1, <2>2
    <3> QED
      BY <3>1
  <2>3. ASSUME NEW A \in SUBSET T, n + 1 \notin A PROVE A \in P
    BY <2>1, <2>3
  <2>4. P \cup Q \subseteq SUBSET T
    BY <2>1
  <2> QED
    BY <2>2, <2>3, <2>4
<1> HIDE DEF P, Q, S, T
<1>7. Cardinality(P \cup Q) = Cardinality(P) + Cardinality(Q) - Cardinality(P \cap Q)
  BY <1>2, <1>4, FS_Union
<1>8. Cardinality(P \cap Q) = 0
  BY <1>5, FS_EmptySet
<1>9. Cardinality(P \cup Q) = 2 * Cardinality(P)
  BY <1>2, <1>4, <1>7, <1>8
<1>10. Cardinality(SUBSET T) = 2 * 2^n
  BY <1>2, <1>6, <1>9, Zenon
<1> QED
  BY <1>2, <1>10, Zenon

LEMMA PowerPositive ==
  ASSUME NEW n \in Nat
  PROVE  2^n \in Nat \ {0}
<1> DEFINE S == {k \in Nat : 2^k \in Nat \ {0}}
<1>1. 0 \in S
  BY PowerOfZero
<1>2. ASSUME NEW k \in Nat, k \in S PROVE k + 1 \in S
  BY <1>2, PowerOfNext
<1> HIDE DEF S
<1>3. n \in S
  BY <1>1, <1>2, Induct
<1> QED
  BY <1>3 DEF S

LEMMA PowerOfSum ==
  ASSUME NEW i \in Nat, NEW m \in Nat
  PROVE  2^(i + m) = 2^i * 2^m
<1> DEFINE S == {k \in Nat : 2^(i + k) = 2^i * 2^k}
<1>1. 0 \in S
  <2>1. i + 0 = i /\ 2^i \in Nat
    BY PowerOfNext
  <2>2. 2^i * 1 = 2^i
    BY <2>1
  <2> QED
    BY <2>1, <2>2, PowerOfZero
<1>2. ASSUME NEW k \in Nat, k \in S PROVE k + 1 \in S
  <2> DEFINE p == 2^i
             q == 2^k
  <2>1. 2^((i + k) + 1) = 2 * 2^(i + k) /\ 2^(k + 1) = 2 * q /\ p \in Nat /\ q \in Nat
    BY PowerOfNext
  <2>2. 2^(i + k) = p * q /\ i + (k + 1) = (i + k) + 1
    BY <1>2
  <2> HIDE DEF p, q
  <2>3. 2 * (p * q) = p * (2 * q)
    BY <2>1
  <2>4. 2^(i + (k + 1)) = p * 2^(k + 1)
    BY <2>1, <2>2, <2>3
  <2> QED
    BY <2>4 DEF p
<1> HIDE DEF S
<1>3. m \in S
  BY <1>1, <1>2, Induct
<1> QED
  BY <1>3 DEF S

LEMMA PowerDivides ==
  ASSUME NEW i \in Nat, NEW j \in Nat, i <= j
  PROVE  \E c \in Nat \ {0} : 2^j = 2^i * c
<1>1. j - i \in Nat /\ i + (j - i) = j
  OBVIOUS
<1>2. 2^j = 2^i * 2^(j - i)
  BY <1>1, PowerOfSum
<1> QED
  BY <1>1, <1>2, PowerPositive

-----------------------------------------------------------------------------
(* Division.                                                               *)

LEMMA Division ==
  ASSUME NEW a \in Nat, NEW d \in Nat \ {0}
  PROVE  /\ a \div d \in Nat /\ a % d \in 0 .. d - 1
         /\ a = d * (a \div d) + (a % d)
<1> DEFINE q == a \div d
           r == a % d
<1>1. q \in Int /\ r \in 0 .. d - 1
  OBVIOUS
<1>2. a = d * q + r
  OBVIOUS
<1>3. q \in Nat
  <2> HIDE DEF q, r
  <2> SUFFICES ASSUME q < 0 PROVE FALSE
    BY <1>1
  <2>1. 0 - q - 1 \in Nat
    BY <1>1
  <2>2. d * (0 - q - 1) >= 0
    BY <2>1
  <2>3. d * (0 - q - 1) = 0 - d * q - d
    BY <1>1
  <2> QED
    BY <1>1, <1>2, <2>2, <2>3
<1> QED
  BY <1>1, <1>2, <1>3

LEMMA TimesMonotone ==
  ASSUME NEW d \in Nat, NEW a \in Nat, NEW b \in Nat, a <= b
  PROVE  d * a <= d * b
<1>1. b - a \in Nat /\ b = a + (b - a)
  OBVIOUS
<1>2. d * (b - a) >= 0
  BY <1>1
<1>3. d * (b - a) = d * b - d * a
  OBVIOUS
<1> QED
  BY <1>2, <1>3

LEMMA QuotientIs ==
  ASSUME NEW a \in Nat, NEW d \in Nat \ {0}, NEW k \in Nat, NEW r \in 0 .. d - 1,
         a = d * k + r
  PROVE  a \div d = k /\ a % d = r
<1> DEFINE q == a \div d
           m == a % d
<1>1. q \in Nat /\ m \in 0 .. d - 1 /\ a = d * q + m
  BY Division
<1> HIDE DEF q, m
<1>2. ASSUME NEW i \in Nat, NEW j \in Nat, i < j, NEW s \in 0 .. d - 1, NEW t \in 0 .. d - 1
      PROVE  d * i + s # d * j + t
  <2>1. d * (i + 1) <= d * j
    BY <1>2, TimesMonotone
  <2>2. d * (i + 1) = d * i + d
    OBVIOUS
  <2>3. d * i \in Nat /\ d * j \in Nat
    OBVIOUS
  <2> QED
    BY <2>1, <2>2, <2>3
<1>3. ~(q < k) /\ ~(k < q)
  BY <1>1, <1>2
<1>4. q = k
  BY <1>1, <1>3
<1>5. d * k \in Nat /\ m = r
  BY <1>1, <1>4
<1> QED
  BY <1>4, <1>5 DEF q, m

LEMMA QuotientOfQuotient ==
  ASSUME NEW v \in Nat, NEW b \in Nat \ {0}, NEW p \in Nat \ {0}
  PROVE  (v \div b) \div p = v \div (b * p)
<1> DEFINE u == v \div b
           r == v % b
           q == u \div p
           s == u % p
<1>1. u \in Nat /\ r \in 0 .. b - 1 /\ v = b * u + r
  BY Division
<1> HIDE DEF u, r
<1>2. q \in Nat /\ s \in 0 .. p - 1 /\ u = p * q + s
  BY <1>1, Division
<1> HIDE DEF q, s
<1>3. v = (b * p) * q + (b * s + r)
  <2>1. b * (p * q + s) = b * (p * q) + b * s
    <3> DEFINE x == p * q
    <3>1. x \in Nat
      BY <1>2
    <3> HIDE DEF x
    <3> QED
      BY <1>2, <3>1
  <2>2. b * (p * q) = (b * p) * q
    BY <1>2
  <2>3. (b * p) * q \in Nat /\ b * s \in Nat
    BY <1>2
  <2> QED
    BY <1>1, <1>2, <2>1, <2>2, <2>3
<1>4. b * s + r \in 0 .. b * p - 1
  <2>1. b * (s + 1) <= b * p
    BY <1>2, TimesMonotone
  <2>2. b * (s + 1) = b * s + b /\ b * s \in Nat /\ b * p \in Nat
    BY <1>2
  <2> QED
    BY <1>1, <2>1, <2>2
<1>5. b * p \in Nat \ {0}
  OBVIOUS
<1>6. v \div (b * p) = q
  <2> DEFINE d == b * p
             t == b * s + r
  <2>1. d \in Nat \ {0} /\ t \in 0 .. d - 1 /\ v = d * q + t
    BY <1>3, <1>4, <1>5
  <2> HIDE DEF d, t
  <2>2. v \div d = q
    BY <1>2, <2>1, QuotientIs
  <2> QED
    BY <2>2 DEF d
<1> QED
  BY <1>6 DEF u, q

-----------------------------------------------------------------------------
(* Recursion that descends: s collects d on the way down to zero, h being  *)
(* the next number.                                                        *)

Digit(s, h, d, v) == IF v = 0 THEN <<>> ELSE Append(s[h[v]], d[v])
Collects(N, s, h, d) == \A v \in 0 .. N : s[v] = Digit(s, h, d, v)
SameBelow(N, h, d, g, e) ==
  \A v \in 1 .. N : h[v] = g[v] /\ d[v] = e[v] /\ h[v] \in 0 .. v - 1

Descends(s, h, d) == s = [v \in Nat |-> Digit(s, h, d, v)]
DescendsTo(k, s, h, d) == s = [v \in 0 .. k |-> s[v]] /\ Collects(k, s, h, d)

\* What is collected from a number depends on the numbers up to it.
LEMMA SameDescent ==
  ASSUME NEW N \in Nat, NEW s, NEW t, NEW h, NEW g, NEW d, NEW e,
         SameBelow(N, h, d, g, e), Collects(N, s, h, d), Collects(N, t, g, e)
  PROVE  \A v \in 0 .. N : s[v] = t[v]
<1> USE DEF SameBelow, Collects
<1> DEFINE D == {v \in 0 .. N : s[v] # t[v]}
<1> SUFFICES ASSUME D # {} PROVE FALSE
  OBVIOUS
<1>1. PICK m \in D : \A k \in D : m <= k
  <2>1. D \in SUBSET Nat
    OBVIOUS
  <2> HIDE DEF D
  <2> QED
    BY <2>1, LeastOf
<1>2. CASE m = 0
  <2>1. s[0] = <<>> /\ t[0] = <<>>
    BY DEF Digit
  <2> QED
    BY <1>2, <2>1
<1>3. CASE m # 0
  <2>1. m \in 1 .. N
    BY <1>3
  <2>2. h[m] \in 0 .. N /\ ~(m <= h[m])
    BY <2>1
  <2>3. s[h[m]] = t[h[m]]
    BY <1>1, <2>2
  <2>4. s[m] = Append(s[h[m]], d[m]) /\ t[m] = Append(t[g[m]], e[m])
    BY <1>3 DEF Digit
  <2> QED
    BY <2>1, <2>3, <2>4
<1> QED
  BY <1>2, <1>3

LEMMA DescentExists ==
  ASSUME NEW h \in [Nat -> Nat], \A v \in Nat \ {0} : h[v] < v, NEW d
  PROVE  \E s : Descends(s, h, d)
<1> DEFINE S == {k \in Nat : \E s : DescendsTo(k, s, h, d)}
<1>1. 0 \in S
  <2> DEFINE s == [v \in 0 .. 0 |-> <<>>]
  <2>1. s = [v \in 0 .. 0 |-> s[v]] /\ \A v \in 0 .. 0 : v = 0 /\ s[v] = <<>>
    OBVIOUS
  <2> HIDE DEF s
  <2>2. DescendsTo(0, s, h, d)
    BY <2>1 DEF DescendsTo, Collects, Digit
  <2> QED
    BY <2>2
<1>2. ASSUME NEW k \in Nat, k \in S PROVE k + 1 \in S
  <2>1. PICK s : DescendsTo(k, s, h, d)
    BY <1>2
  <2> HIDE DEF S
  <2>2. \A v \in 0 .. k : s[v] = Digit(s, h, d, v)
    BY <2>1, Zenon DEF DescendsTo, Collects
  <2>3. s[0] = <<>> /\ \A v \in 1 .. k : s[v] = Append(s[h[v]], d[v])
    <3>1. 0 \in 0 .. k /\ \A v \in 1 .. k : v \in 0 .. k /\ v # 0
      OBVIOUS
    <3> QED
      BY <2>2, <3>1, Zenon DEF Digit
  <2> DEFINE t == [v \in 0 .. k + 1 |-> IF v = k + 1 THEN Append(s[h[v]], d[v]) ELSE s[v]]
  <2>4. \A v \in 0 .. k : t[v] = s[v]
    OBVIOUS
  <2>5. t[k + 1] = Append(s[h[k + 1]], d[k + 1])
    <3>1. k + 1 \in 0 .. k + 1
      OBVIOUS
    <3> QED
      BY <3>1, Zenon
  <2>6. t = [v \in 0 .. k + 1 |-> t[v]]
    OBVIOUS
  <2> HIDE DEF t
  <2>7. ASSUME NEW v \in 0 .. k + 1 PROVE t[v] = Digit(t, h, d, v)
    <3>1. CASE v = 0
      <4>1. t[0] = <<>>
        BY <2>4, <2>3
      <4> QED
        BY <3>1, <4>1 DEF Digit
    <3>2. CASE v \in 1 .. k
      <4>1. h[v] \in 0 .. k /\ v \in 0 .. k /\ v # 0
        BY <3>2
      <4>2. t[v] = Append(t[h[v]], d[v])
        BY <2>4, <2>3, <3>2, <4>1
      <4> QED
        BY <4>1, <4>2, Zenon DEF Digit
    <3>3. CASE v = k + 1
      <4>1. h[k + 1] \in 0 .. k /\ k + 1 # 0
        OBVIOUS
      <4>2. t[k + 1] = Append(t[h[k + 1]], d[k + 1])
        BY <2>4, <2>5, <4>1
      <4> QED
        BY <3>3, <4>1, <4>2, Zenon DEF Digit
    <3> QED
      BY <3>1, <3>2, <3>3
  <2>8. DescendsTo(k + 1, t, h, d)
    BY <2>6, <2>7, Zenon DEF DescendsTo, Collects
  <2> QED
    BY <2>8 DEF S
<1> DEFINE F(k) == CHOOSE s : DescendsTo(k, s, h, d)
           s == [v \in Nat |-> F(v)[v]]
<1>3. ASSUME NEW k \in Nat PROVE DescendsTo(k, F(k), h, d)
  <2> HIDE DEF S
  <2>1. k \in S
    BY <1>1, <1>2, Induct
  <2> QED
    BY <2>1 DEF S
<1> HIDE DEF S, F
<1>4. ASSUME NEW v \in Nat PROVE s[v] = Digit(s, h, d, v)
  <2>1. F(v)[v] = Digit(F(v), h, d, v)
    BY <1>3 DEF DescendsTo, Collects
  <2>2. CASE v = 0
    BY <2>1, <2>2 DEF Digit
  <2>3. CASE v # 0
    <3> DEFINE u == h[v]
    <3>1. u \in Nat /\ u < v
      BY <2>3
    <3> HIDE DEF u
    <3>2. \A w \in 0 .. u : F(v)[w] = F(u)[w]
      <4>1. SameBelow(u, h, d, h, d)
        BY <3>1 DEF SameBelow
      <4>2. Collects(u, F(v), h, d) /\ Collects(u, F(u), h, d)
        BY <1>3, <3>1 DEF DescendsTo, Collects
      <4> QED
        BY <3>1, <4>1, <4>2, SameDescent
    <3>3. F(v)[u] = s[u]
      BY <3>1, <3>2
    <3> QED
      BY <2>1, <2>3, <3>3 DEF Digit, u
  <2> QED
    BY <2>2, <2>3
<1>5. Descends(s, h, d)
  BY <1>4 DEF Descends
<1> QED
  BY <1>5

\* What is collected is a sequence.
LEMMA DescentIsSeq ==
  ASSUME NEW N \in Nat, NEW s, NEW h, NEW d, NEW C,
         \A v \in 1 .. N : d[v] \in C /\ h[v] \in 0 .. v - 1,
         Collects(N, s, h, d)
  PROVE  \A v \in 0 .. N : s[v] \in Seq(C)
<1> USE DEF Collects
<1> DEFINE D == {v \in 0 .. N : s[v] \notin Seq(C)}
<1> SUFFICES ASSUME D # {} PROVE FALSE
  OBVIOUS
<1>1. PICK m \in D : \A k \in D : m <= k
  <2>1. D \in SUBSET Nat
    OBVIOUS
  <2> HIDE DEF D
  <2> QED
    BY <2>1, LeastOf
<1>2. CASE m = 0
  <2>1. s[0] = <<>> /\ <<>> \in Seq(C)
    BY DEF Digit
  <2> QED
    BY <1>2, <2>1
<1>3. CASE m # 0
  <2>1. m \in 1 .. N
    BY <1>3
  <2>2. h[m] \in 0 .. N /\ ~(m <= h[m])
    BY <2>1
  <2>3. s[h[m]] \in Seq(C)
    BY <1>1, <2>2
  <2>4. s[m] = Append(s[h[m]], d[m])
    BY <1>3 DEF Digit
  <2>5. s[m] \in Seq(C)
    BY <2>1, <2>3, <2>4
  <2> QED
    BY <2>5
<1> QED
  BY <1>2, <1>3

-----------------------------------------------------------------------------
(* Sums of the first numbers of a list.                                    *)

SumsTo(n, s, t) == s = [j \in 0 .. n |-> IF j = 0 THEN 0 ELSE s[j - 1] + t[j - 1]]

LEMMA SumExists ==
  ASSUME NEW n \in Nat, NEW t
  PROVE  \E s : SumsTo(n, s, t)
<1> DEFINE S == {k \in Nat : \E s : SumsTo(k, s, t)}
<1>1. 0 \in S
  <2> DEFINE s == [j \in 0 .. 0 |-> 0]
  <2>1. s = [j \in 0 .. 0 |-> IF j = 0 THEN 0 ELSE s[j - 1] + t[j - 1]]
    OBVIOUS
  <2> HIDE DEF s
  <2>2. SumsTo(0, s, t)
    BY <2>1 DEF SumsTo
  <2> QED
    BY <2>2
<1>2. ASSUME NEW k \in Nat, k \in S PROVE k + 1 \in S
  <2>1. PICK s : SumsTo(k, s, t)
    BY <1>2
  <2> HIDE DEF S
  <2> DEFINE r == [j \in 0 .. k + 1 |-> IF j = k + 1 THEN s[k] + t[k] ELSE s[j]]
  <2>2. \A j \in 0 .. k : r[j] = s[j]
    OBVIOUS
  <2>3. r[k + 1] = s[k] + t[k]
    OBVIOUS
  <2>4. r = [j \in 0 .. k + 1 |-> r[j]]
    OBVIOUS
  <2> HIDE DEF r
  <2>5. \A j \in 0 .. k : s[j] = IF j = 0 THEN 0 ELSE s[j - 1] + t[j - 1]
    BY <2>1, Zenon DEF SumsTo
  <2>6. ASSUME NEW j \in 0 .. k + 1
        PROVE  r[j] = IF j = 0 THEN 0 ELSE r[j - 1] + t[j - 1]
    <3>1. CASE j = k + 1
      <4>1. j # 0 /\ j - 1 = k /\ k \in 0 .. k
        BY <3>1
      <4> QED
        BY <2>2, <2>3, <3>1, <4>1
    <3>2. CASE j = 0
      BY <2>2, <2>5, <3>2
    <3>3. CASE j \in 1 .. k
      <4>1. j \in 0 .. k /\ j - 1 \in 0 .. k /\ j # 0
        BY <3>3
      <4> QED
        BY <2>2, <2>5, <4>1
    <3> QED
      BY <3>1, <3>2, <3>3
  <2>7. SumsTo(k + 1, r, t)
    BY <2>4, <2>6, Zenon DEF SumsTo
  <2> QED
    BY <2>7 DEF S
<1> HIDE DEF S
<1>3. n \in S
  BY <1>1, <1>2, Induct
<1> QED
  BY <1>3 DEF S

-----------------------------------------------------------------------------
(* Recursion that searches: f goes on by d until it comes to S, and takes  *)
(* the value there.                                                        *)

Searches(f, S, val, d) == f = [n \in Nat |-> IF n \in S THEN val[n] ELSE f[n + d]]

\* S is come to from n after k steps.
After(n, k, S, d) == n + k * d \in S /\ \A j \in 0 .. k - 1 : n + j * d \notin S

LEMMA StepOn ==
  ASSUME NEW n \in Nat, NEW k \in Nat, NEW d \in Nat
  PROVE  n + 0 * d = n /\ (n + d) + k * d = n + (k + 1) * d /\ n + k * d \in Nat
         /\ (n + k * d) + d = n + (k + 1) * d
<1>1. (k + 1) * d = k * d + d /\ k * d \in Nat
  OBVIOUS
<1> QED
  BY <1>1

LEMMA SearchExists ==
  ASSUME NEW S, NEW val, NEW d \in Nat
  PROVE  \E f : Searches(f, S, val, d)
<1> DEFINE Comes(n) == \E k \in Nat : After(n, k, S, d)
           Steps(n) == CHOOSE k \in Nat : After(n, k, S, d)
           f == [n \in Nat |-> IF Comes(n) THEN val[n + Steps(n) * d] ELSE 0]
<1>1. ASSUME NEW n \in Nat, NEW k \in Nat, NEW m \in Nat, After(n, k, S, d), After(n, m, S, d)
      PROVE  k = m
  <2>1. ~(k < m) /\ ~(m < k)
    BY <1>1 DEF After
  <2> QED
    BY <2>1
<1>2. ASSUME NEW n \in Nat, NEW k \in Nat, After(n, k, S, d)
      PROVE  Comes(n) /\ Steps(n) = k
  <2>1. Comes(n)
    BY <1>2
  <2>2. Steps(n) \in Nat /\ After(n, Steps(n), S, d)
    BY <1>2
  <2> QED
    BY <1>1, <1>2, <2>1, <2>2
<1>3. ASSUME NEW n \in Nat, n \in S PROVE After(n, 0, S, d)
  BY <1>3, StepOn DEF After
<1>4. ASSUME NEW n \in Nat, n \notin S, NEW k \in Nat, After(n + d, k, S, d)
      PROVE  After(n, k + 1, S, d)
  <2>1. n + (k + 1) * d \in S
    BY <1>4, StepOn DEF After
  <2>2. ASSUME NEW j \in 0 .. k PROVE n + j * d \notin S
    <3>1. CASE j = 0
      BY <1>4, <3>1, StepOn
    <3>2. CASE j # 0
      <4>1. j - 1 \in Nat /\ j - 1 \in 0 .. k - 1 /\ (j - 1) + 1 = j
        BY <3>2
      <4>2. (n + d) + (j - 1) * d = n + ((j - 1) + 1) * d
        BY <4>1, StepOn
      <4>3. (n + d) + (j - 1) * d \notin S
        BY <1>4, <4>1 DEF After
      <4> QED
        BY <4>1, <4>2, <4>3
    <3> QED
      BY <3>1, <3>2
  <2>3. (k + 1) - 1 = k
    OBVIOUS
  <2> QED
    BY <2>1, <2>2, <2>3 DEF After
<1>5. ASSUME NEW n \in Nat, n \notin S, NEW k \in Nat, After(n, k, S, d)
      PROVE  k - 1 \in Nat /\ After(n + d, k - 1, S, d)
  <2>1. k # 0
    BY <1>5, StepOn DEF After
  <2>2. k - 1 \in Nat /\ (k - 1) + 1 = k
    BY <2>1
  <2>3. (n + d) + (k - 1) * d = n + ((k - 1) + 1) * d
    BY <2>2, StepOn
  <2>4. ASSUME NEW j \in 0 .. (k - 1) - 1 PROVE (n + d) + j * d \notin S
    <3>1. j \in Nat /\ j + 1 \in 0 .. k - 1
      BY <2>2
    <3>2. (n + d) + j * d = n + (j + 1) * d
      BY <3>1, StepOn
    <3> QED
      BY <1>5, <3>1, <3>2 DEF After
  <2> QED
    BY <1>5, <2>2, <2>3, <2>4 DEF After
<1> HIDE DEF Comes, Steps
<1>6. ASSUME NEW n \in Nat PROVE f[n] = IF n \in S THEN val[n] ELSE f[n + d]
  <2>0. n + d \in Nat
    OBVIOUS
  <2>1. CASE n \in S
    <3>1. Comes(n) /\ Steps(n) = 0
      BY <1>2, <1>3, <2>1
    <3>2. n + 0 * d = n
      BY StepOn
    <3> QED
      BY <2>1, <3>1, <3>2
  <2>2. CASE n \notin S /\ Comes(n)
    <3>1. PICK k \in Nat : After(n, k, S, d)
      BY <2>2 DEF Comes
    <3>2. k - 1 \in Nat /\ After(n + d, k - 1, S, d)
      BY <1>5, <2>2, <3>1
    <3>3. Steps(n) = k /\ Comes(n + d) /\ Steps(n + d) = k - 1
      BY <1>2, <2>0, <3>1, <3>2
    <3>4. (n + d) + (k - 1) * d = n + k * d
      <4>1. (n + d) + (k - 1) * d = n + ((k - 1) + 1) * d /\ (k - 1) + 1 = k
        BY <3>2, StepOn
      <4> QED
        BY <4>1
    <3>5. f[n] = val[n + k * d]
      BY <2>2, <3>3
    <3>6. f[n + d] = val[(n + d) + (k - 1) * d]
      BY <2>0, <3>3
    <3> QED
      BY <2>2, <3>4, <3>5, <3>6
  <2>3. CASE n \notin S /\ ~Comes(n)
    <3>1. ~Comes(n + d)
      BY <1>2, <1>4, <2>0, <2>3 DEF Comes
    <3> QED
      BY <2>0, <2>3, <3>1
  <2> QED
    BY <2>1, <2>2, <2>3
<1> HIDE DEF f
<1>7. f = [n \in Nat |-> f[n]]
  BY DEF f
<1>8. Searches(f, S, val, d)
  BY <1>6, <1>7, Zenon DEF Searches
<1> QED
  BY <1>8

LEMMA SearchFinds ==
  ASSUME NEW f, NEW S, NEW val, NEW d \in Nat, Searches(f, S, val, d),
         NEW n \in Nat, NEW k \in Nat, After(n, k, S, d)
  PROVE  f[n] = val[n + k * d]
<1>1. \A m \in Nat : f[m] = IF m \in S THEN val[m] ELSE f[m + d]
  BY Zenon DEF Searches
<1> DEFINE T == {j \in Nat : j <= k => f[n] = f[n + j * d]}
<1>2. 0 \in T
  BY StepOn
<1>3. ASSUME NEW j \in Nat, j \in T PROVE j + 1 \in T
  <2> SUFFICES ASSUME j + 1 <= k PROVE f[n] = f[n + (j + 1) * d]
    OBVIOUS
  <2>1. j \in 0 .. k - 1 /\ f[n] = f[n + j * d]
    BY <1>3
  <2>2. n + j * d \in Nat /\ n + j * d \notin S
    BY <2>1, StepOn DEF After
  <2>3. f[n + j * d] = f[(n + j * d) + d]
    BY <1>1, <2>2, Zenon
  <2>4. (n + j * d) + d = n + (j + 1) * d
    BY StepOn
  <2> QED
    BY <2>1, <2>3, <2>4
<1> HIDE DEF T
<1>4. k \in T
  BY <1>2, <1>3, Induct
<1>5. f[n] = f[n + k * d]
  BY <1>4 DEF T
<1>6. n + k * d \in Nat /\ n + k * d \in S
  BY StepOn DEF After
<1> QED
  BY <1>1, <1>5, <1>6

-----------------------------------------------------------------------------
(* Recursion upwards: f begins with c, and h makes the next value from the *)
(* one before it.                                                          *)

Climbs(n, f, c, h) == f[0] = c /\ \A k \in 0 .. n - 1 : f[k + 1] = h[k][f[k]]

LEMMA ClimbExists ==
  ASSUME NEW V, NEW c \in V, NEW h \in [Nat -> [V -> V]], NEW n \in Nat
  PROVE  \E f \in [0 .. n -> V] : Climbs(n, f, c, h)
<1> DEFINE S == {m \in Nat : \E f \in [0 .. m -> V] : Climbs(m, f, c, h)}
<1>1. 0 \in S
  <2> DEFINE f == [k \in 0 .. 0 |-> c]
  <2>1. f \in [0 .. 0 -> V] /\ f[0] = c
    OBVIOUS
  <2> HIDE DEF f
  <2>2. Climbs(0, f, c, h)
    BY <2>1 DEF Climbs
  <2> QED
    BY <2>1, <2>2
<1>2. ASSUME NEW m \in Nat, m \in S PROVE m + 1 \in S
  <2>1. PICK f \in [0 .. m -> V] : Climbs(m, f, c, h)
    BY <1>2
  <2> HIDE DEF S
  <2> DEFINE g == [k \in 0 .. m + 1 |-> IF k = m + 1 THEN h[m][f[m]] ELSE f[k]]
  <2>2. f[m] \in V
    BY <2>1
  <2>3. h[m][f[m]] \in V
    BY <2>2
  <2>4. g \in [0 .. m + 1 -> V] /\ g[m + 1] = h[m][f[m]] /\ \A k \in 0 .. m : g[k] = f[k]
    BY <2>1, <2>3
  <2> HIDE DEF g
  <2>5. ASSUME NEW k \in 0 .. (m + 1) - 1 PROVE g[k + 1] = h[k][g[k]]
    <3>1. CASE k = m
      <4>1. g[k] = f[m]
        BY <2>4, <3>1
      <4> QED
        BY <2>4, <3>1, <4>1
    <3>2. CASE k # m
      <4>1. k \in 0 .. m - 1 /\ k \in 0 .. m /\ k + 1 \in 0 .. m
        BY <3>2
      <4>2. f[k + 1] = h[k][f[k]]
        BY <2>1, <4>1 DEF Climbs
      <4> QED
        BY <2>4, <4>1, <4>2
    <3> QED
      BY <3>1, <3>2
  <2>6. Climbs(m + 1, g, c, h)
    <3>1. g[0] = c
      BY <2>1, <2>4 DEF Climbs
    <3> QED
      BY <2>5, <3>1 DEF Climbs
  <2>7. \E f1 \in [0 .. m + 1 -> V] : Climbs(m + 1, f1, c, h)
    BY <2>4, <2>6
  <2> QED
    BY <2>7 DEF S
<1> HIDE DEF S
<1>3. n \in S
  BY <1>1, <1>2, Induct
<1> QED
  BY <1>3 DEF S
=============================================================================
