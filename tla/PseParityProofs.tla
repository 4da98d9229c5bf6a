-------------------------- MODULE PseParityProofs --------------------------
(***************************************************************************)
(* The parity of an entry, for every width and every word: the block is    *)
(* the optimal one, three flips are noticed where rows and columns are     *)
(* both counted, and one flip goes unnoticed exactly in the columns that   *)
(* neither counts.                                                         *)
(*                                                                         *)
(* optimal_block_size is recursive.  What it computes is proved by         *)
(* induction on the set of numbers for which the claim holds.              *)
(***************************************************************************)
EXTENDS PseParity, NumberLemmas

\* The mask of a digit is the square of what the digit is worth.
LEMMA MaskIsSquare ==
  ASSUME NEW n \in Nat
  PROVE  Mask(n) = 2^n * 2^n
<1> DEFINE S == {k \in Nat : 2^(2 * k) = 2^k * 2^k}
<1>1. 0 \in S
  <2>1. 2 * 0 = 0
    OBVIOUS
  <2> QED
    BY <2>1, PowerOfZero
<1>2. ASSUME NEW k \in Nat, k \in S PROVE k + 1 \in S
  <2> DEFINE p == 2^k
  <2>1. p \in Nat /\ 2^(k + 1) = 2 * p
    BY PowerOfNext
  <2>2. 2 * (k + 1) = (2 * k + 1) + 1 /\ 2 * k \in Nat /\ 2 * k + 1 \in Nat
    OBVIOUS
  <2>3. 2^((2 * k + 1) + 1) = 2 * 2^(2 * k + 1) /\ 2^(2 * k + 1) = 2 * 2^(2 * k)
    BY <2>2, PowerOfNext
  <2>4. 2^(2 * k) = p * p
    BY <1>2
  <2> HIDE DEF p
  <2>5. 2^((2 * k + 1) + 1) = 2 * (2 * (p * p))
    BY <2>3, <2>4, Zenon
  <2>6. (2 * p) * (2 * p) = 2 * (2 * (p * p))
    BY <2>1
  <2>7. 2^(2 * (k + 1)) = 2 * (2 * (p * p))
    BY <2>2, <2>5, Zenon
  <2>8. 2^(k + 1) * 2^(k + 1) = 2 * (2 * (p * p))
    BY <2>1, <2>6, Zenon
  <2> QED
    BY <2>7, <2>8
<1> HIDE DEF S
<1>3. n \in S
  BY <1>1, <1>2, Induct
<1> QED
  BY <1>3 DEF S, Mask

-----------------------------------------------------------------------------
(* The root.  Steps(f, n) says that f is the function root of FloorRoot(n). *)

Digits == 0 .. TopMask + 1
DigitOf(f, n, e) ==
  IF e > TopMask \/ Mask(e) > n THEN [rem |-> n, res |-> 0]
                                ELSE RootDigit(f[e + 1], Mask(e))
Steps(f, n) == f = [e \in Digits |-> DigitOf(f, n, e)]

LEMMA StepsExist ==
  ASSUME NEW n \in Nat
  PROVE  \E f : Steps(f, n)
<1> DEFINE From(k, f) ==
             /\ f = [e \in Digits |-> f[e]]
             /\ \A e \in Digits : e + k >= TopMask + 1 => f[e] = DigitOf(f, n, e)
           S == {k \in Nat : \E f : From(k, f)}
<1> USE PseParityAssumption
<1>1. 0 \in S
  <2> DEFINE f == [e \in Digits |-> [rem |-> n, res |-> 0]]
  <2>1. From(0, f)
    BY DEF Digits, DigitOf
  <2> QED
    BY <2>1
<1>2. ASSUME NEW k \in Nat, k \in S PROVE k + 1 \in S
  <2>1. PICK f : From(k, f)
    BY <1>2
  <2> DEFINE d == TopMask - k
             g == [e \in Digits |-> IF e = d THEN DigitOf(f, n, d) ELSE f[e]]
  <2>2. \A e \in Digits : e > d => g[e] = f[e]
    BY DEF Digits
  <2>3. \A e \in Digits : e >= d => DigitOf(g, n, e) = DigitOf(f, n, e)
    <3> SUFFICES ASSUME NEW e \in Digits, e >= d PROVE DigitOf(g, n, e) = DigitOf(f, n, e)
      OBVIOUS
    <3>1. CASE e > TopMask
      BY <3>1 DEF DigitOf
    <3>2. CASE ~(e > TopMask)
      <4>1. e + 1 \in Digits /\ e + 1 > d
        BY <3>2 DEF Digits
      <4>2. g[e + 1] = f[e + 1]
        BY <2>2, <4>1
      <4> HIDE DEF g
      <4> QED
        BY <4>2 DEF DigitOf
    <3> QED
      BY <3>1, <3>2
  <2>4. \A e \in Digits : e + (k + 1) >= TopMask + 1 => g[e] = DigitOf(g, n, e)
    <3> SUFFICES ASSUME NEW e \in Digits, e + (k + 1) >= TopMask + 1
                 PROVE  g[e] = DigitOf(f, n, e)
      BY <2>3 DEF Digits
    <3>1. CASE e = d
      BY <3>1
    <3>2. CASE e # d
      <4>1. e + k >= TopMask + 1 /\ e > d
        BY <3>2 DEF Digits
      <4>2. f[e] = DigitOf(f, n, e)
        BY <2>1, <4>1
      <4> QED
        BY <2>2, <4>1, <4>2
    <3> QED
      BY <3>1, <3>2
  <2>5. g = [e \in Digits |-> g[e]]
    OBVIOUS
  <2> HIDE DEF g
  <2>6. From(k + 1, g)
    BY <2>4, <2>5
  <2> QED
    BY <2>6
<1> HIDE DEF S
<1>3. TopMask + 1 \in S
  BY <1>1, <1>2, Induct
<1>4. PICK f : From(TopMask + 1, f)
  BY <1>3 DEF S
<1>5. \A e \in Digits : f[e] = DigitOf(f, n, e)
  BY <1>4 DEF Digits
<1>6. Steps(f, n)
  BY <1>4, <1>5 DEF Steps
<1> QED
  BY <1>6

LEMMA RootIsLastStep ==
  ASSUME NEW n \in Nat
  PROVE  \E f : Steps(f, n) /\ FloorRoot(n) = f[0].res
<1> DEFINE f == CHOOSE f : Steps(f, n)
<1>1. Steps(f, n)
  BY StepsExist
<1>2. FloorRoot(n) = f[0].res
  BY DEF FloorRoot, Steps, DigitOf, Digits
<1> QED
  BY <1>1, <1>2

\* A digit earlier the root was x, a multiple of 2p: now it is a multiple of
\* p, p = 2^e, and no greater multiple of it has a square up to n.
RootSoFar(d, n, p) ==
  \E x \in Nat : /\ d.res = x * p /\ d.rem = n - x * x
                 /\ x * x <= n /\ n < (x + p) * (x + p)

LEMMA NextDigit ==
  ASSUME NEW n \in Nat, NEW p \in Nat, NEW d, RootSoFar(d, n, 2 * p)
  PROVE  RootSoFar(RootDigit(d, p * p), n, p)
<1>1. PICK x \in Nat : /\ d.res = x * (2 * p) /\ d.rem = n - x * x
                       /\ x * x <= n /\ n < (x + 2 * p) * (x + 2 * p)
  BY DEF RootSoFar
<1> DEFINE xx == x * x
           xp == x * p
           pp == p * p
<1>2. xx \in Nat /\ xp \in Nat /\ pp \in Nat
  OBVIOUS
<1>3. /\ x * (2 * p) = 2 * xp
      /\ (x + p) * (x + p) = xx + 2 * xp + pp
      /\ (x + p) * p = xp + pp
  OBVIOUS
<1>4. (x + p) + p = x + 2 * p
  OBVIOUS
<1>5. (2 * xp) \div 2 = xp
  <2> HIDE DEF xp
  <2> QED
    BY <1>2
<1> DEFINE r == RootDigit(d, pp)
<1>6. CASE n - xx >= 2 * xp + pp
  <2>1. r = [rem |-> n - xx - (2 * xp + pp), res |-> xp + pp]
    <3> HIDE DEF xx, xp, pp
    <3> QED
      BY <1>1, <1>2, <1>3, <1>5, <1>6 DEF RootDigit, xx
  <2>2. r.rem = n - (x + p) * (x + p) /\ r.res = (x + p) * p
    <3> HIDE DEF xx, xp, pp, r
    <3> QED
      BY <1>2, <1>3, <2>1
  <2>3. (x + p) * (x + p) <= n
    <3> HIDE DEF xx, xp, pp
    <3> QED
      BY <1>2, <1>3, <1>6
  <2>4. n < ((x + p) + p) * ((x + p) + p) /\ x + p \in Nat
    BY <1>1, <1>4
  <2> HIDE DEF r
  <2>5. RootSoFar(r, n, p)
    BY <2>2, <2>3, <2>4 DEF RootSoFar
  <2> QED
    BY <2>5 DEF r
<1>7. CASE ~(n - xx >= 2 * xp + pp)
  <2>1. r = [rem |-> n - xx, res |-> xp]
    <3> HIDE DEF xx, xp, pp
    <3> QED
      BY <1>1, <1>2, <1>3, <1>5, <1>7 DEF RootDigit, xx
  <2>2. r.rem = n - x * x /\ r.res = x * p
    <3> HIDE DEF r
    <3> QED
      BY <2>1
  <2>3. n < (x + p) * (x + p)
    <3> HIDE DEF xx, xp, pp
    <3> QED
      BY <1>2, <1>3, <1>7
  <2> HIDE DEF r
  <2>4. RootSoFar(r, n, p)
    BY <1>1, <2>2, <2>3 DEF RootSoFar
  <2> QED
    BY <2>4 DEF r
<1> QED
  BY <1>6, <1>7

LEMMA RootOfSteps ==
  ASSUME NEW n \in Nat, n \div 4 < 2^(2 * TopMask), NEW f, Steps(f, n)
  PROVE  RootSoFar(f[0], n, 1)
<1> USE PseParityAssumption
<1> DEFINE S == {k \in Nat : k <= TopMask + 1 => RootSoFar(f[TopMask + 1 - k], n, 2^(TopMask + 1 - k))}
\* Nothing has been subtracted while the square of the digit is beyond n.
<1>1. ASSUME NEW e \in Digits, f[e] = [rem |-> n, res |-> 0], n < 2^e * 2^e
      PROVE  RootSoFar(f[e], n, 2^e)
  <2> DEFINE p == 2^e
  <2>1. p \in Nat /\ n < p * p
    BY <1>1, PowerPositive DEF Digits
  <2> HIDE DEF p
  <2>2. /\ f[e].res = 0 * p /\ f[e].rem = n - 0 * 0
        /\ 0 * 0 <= n /\ n < (0 + p) * (0 + p)
    BY <1>1, <2>1
  <2>3. RootSoFar(f[e], n, p)
    BY <2>2 DEF RootSoFar
  <2> QED
    BY <2>3 DEF p
<1>2. \A e \in Digits : f[e] = DigitOf(f, n, e)
  BY DEF Steps
<1>3. 0 \in S
  <2> DEFINE e == TopMask + 1
             q == 2^TopMask
  <2>1. e \in Digits /\ e - 0 = e /\ e > TopMask
    BY DEF Digits
  <2>2. f[e] = [rem |-> n, res |-> 0]
    BY <1>2, <2>1 DEF DigitOf
  <2>3. q \in Nat /\ 2^e = 2 * q /\ 2^(2 * TopMask) = q * q
    BY PowerOfNext, MaskIsSquare DEF Mask
  <2> HIDE DEF q
  <2>4. n < (2 * q) * (2 * q)
    <3> DEFINE qq == q * q
    <3>1. qq \in Nat /\ (2 * q) * (2 * q) = 4 * qq
      BY <2>3
    <3>2. n \div 4 < qq
      BY <2>3
    <3> HIDE DEF qq
    <3>3. n < 4 * qq
      BY <3>1, <3>2
    <3> QED
      BY <3>1, <3>3
  <2>5. n < 2^e * 2^e
    BY <2>3, <2>4
  <2> HIDE DEF e
  <2>6. RootSoFar(f[e], n, 2^e)
    BY <1>1, <2>1, <2>2, <2>5
  <2>7. TopMask + 1 - 0 = e
    BY DEF e
  <2> QED
    BY <2>6, <2>7
<1>4. ASSUME NEW k \in Nat, k \in S PROVE k + 1 \in S
  <2> SUFFICES ASSUME k + 1 <= TopMask + 1
               PROVE  RootSoFar(f[TopMask + 1 - (k + 1)], n, 2^(TopMask + 1 - (k + 1)))
    OBVIOUS
  <2> DEFINE e == TopMask - k
  <2>1. /\ e \in Digits /\ e \in Nat /\ e + 1 = TopMask + 1 - k /\ e <= TopMask
        /\ e = TopMask + 1 - (k + 1)
    BY DEF Digits
  <2>2. RootSoFar(f[e + 1], n, 2^(e + 1))
    BY <1>4, <2>1
  <2> HIDE DEF e
  <2> DEFINE p == 2^e
  <2>3. p \in Nat /\ 2^(e + 1) = 2 * p /\ Mask(e) = p * p
    BY <2>1, PowerOfNext, MaskIsSquare
  <2>4. CASE Mask(e) > n
    <3>1. f[e] = [rem |-> n, res |-> 0]
      BY <1>2, <2>1, <2>4 DEF DigitOf
    <3>2. n < 2^e * 2^e
      BY <2>3, <2>4
    <3>3. RootSoFar(f[e], n, 2^e)
      BY <1>1, <2>1, <3>1, <3>2
    <3> QED
      BY <2>1, <3>3
  <2>5. CASE ~(Mask(e) > n)
    <3>1. f[e] = RootDigit(f[e + 1], p * p)
      BY <1>2, <2>1, <2>3, <2>5 DEF DigitOf
    <3> HIDE DEF p
    <3>2. RootSoFar(f[e], n, p)
      BY <2>2, <2>3, <3>1, NextDigit
    <3> QED
      BY <2>1, <3>2 DEF p
  <2> QED
    BY <2>4, <2>5
<1> HIDE DEF S
<1>5. TopMask + 1 \in S
  BY <1>3, <1>4, Induct
<1>6. TopMask + 1 - (TopMask + 1) = 0
  OBVIOUS
<1>7. RootSoFar(f[0], n, 2^0)
  BY <1>5, <1>6 DEF S
<1> QED
  BY <1>7, PowerOfZero

\* FloorRoot is the integer root.
LEMMA FloorRootIsRoot ==
  ASSUME NEW n \in Nat, n \div 4 < 2^(2 * TopMask)
  PROVE  /\ FloorRoot(n) \in Nat /\ FloorRoot(n) * FloorRoot(n) <= n
         /\ n < (FloorRoot(n) + 1) * (FloorRoot(n) + 1)
<1>1. PICK f : Steps(f, n) /\ FloorRoot(n) = f[0].res
  BY RootIsLastStep
<1>2. RootSoFar(f[0], n, 1)
  BY <1>1, RootOfSteps
<1>3. PICK x \in Nat : f[0].res = x * 1 /\ x * x <= n /\ n < (x + 1) * (x + 1)
  BY <1>2 DEF RootSoFar
<1> QED
  BY <1>1, <1>3

LEMMA OptimalBlock ==
  ASSUME NEW w \in Widths
  PROVE  LET b == optimal_block_size(w)
         IN b \in Nat \ {0} /\ w <= b * b /\ (b - 1) * (b - 1) < w
<1> DEFINE r == FloorRoot(w)
<1>1. w \in Nat \ {0} /\ w \div 4 < 2^(2 * TopMask)
  BY PseParityAssumption
<1>2. r \in Nat /\ r * r <= w /\ w < (r + 1) * (r + 1)
  BY <1>1, FloorRootIsRoot
<1>3. optimal_block_size(w) = IF r * r < w THEN r + 1 ELSE r
  BY DEF optimal_block_size
<1> HIDE DEF r
<1>4. CASE r * r < w
  <2>1. optimal_block_size(w) = r + 1 /\ r + 1 - 1 = r
    BY <1>2, <1>3, <1>4
  <2> QED
    BY <1>1, <1>2, <1>4, <2>1
<1>5. CASE ~(r * r < w)
  <2>1. r # 0 /\ r * r = w /\ r * r \in Nat
    BY <1>1, <1>2, <1>5
  <2>2. (r - 1) * (r - 1) = r * r - 2 * r + 1
    BY <1>2
  <2>3. (r - 1) * (r - 1) < r * r
    BY <1>2, <2>1, <2>2
  <2> QED
    BY <1>1, <1>2, <1>3, <1>5, <2>1, <2>3
<1> QED
  BY <1>4, <1>5

-----------------------------------------------------------------------------
(* Rows and columns.                                                       *)

EntryOK ==
  /\ width \in Widths /\ BLOCK_SIZE = optimal_block_size(width)
  /\ csrs \subseteq EntryBits /\ flips \subseteq EntryBits

LEMMA SizesAreNumbers ==
  ASSUME EntryOK
  PROVE  /\ width \in Nat \ {0} /\ BLOCK_SIZE \in Nat \ {0}
         /\ N_FULL_BLOCKS \in Nat /\ N_ROWS \in Nat
<1>1. width \in Nat \ {0} /\ BLOCK_SIZE \in Nat \ {0}
  BY OptimalBlock, PseParityAssumption DEF EntryOK
<1>2. N_FULL_BLOCKS \in Nat
  BY <1>1, Division DEF N_FULL_BLOCKS
<1> QED
  BY <1>1, <1>2 DEF N_ROWS

\* Every bit of the entry is in one of the rows and in one of the columns,
\* and no other bit is in both.
LEMMA PlaceOfBit ==
  ASSUME EntryOK, NEW b \in EntryBits
  PROVE  /\ Row(b) \in 0 .. N_ROWS - 1 /\ Column(b) \in 0 .. BLOCK_SIZE - 1
         /\ b = BLOCK_SIZE * Row(b) + Column(b)
<1> DEFINE d == BLOCK_SIZE
           q == Row(b)
           w == N_FULL_BLOCKS
           r == LAST_ROW_WIDTH
<1>1. d \in Nat \ {0} /\ width \in Nat /\ b \in Nat /\ b < width
  BY SizesAreNumbers DEF EntryBits
<1>2. q \in Nat /\ Column(b) \in 0 .. d - 1 /\ b = d * q + Column(b)
  BY <1>1, Division DEF Row, Column
<1>3. w \in Nat /\ r \in 0 .. d - 1 /\ width = d * w + r
  BY <1>1, Division DEF N_FULL_BLOCKS, LAST_ROW_WIDTH
<1>4. N_ROWS = IF r = 0 THEN w ELSE w + 1
  BY DEF N_ROWS
<1> HIDE DEF d, q, w, r
<1>5. q <= N_ROWS - 1
  <2> SUFFICES ASSUME q >= N_ROWS PROVE FALSE
    BY <1>2, <1>3, <1>4
  <2>1. N_ROWS \in Nat /\ d * N_ROWS <= d * q
    BY <1>1, <1>2, <1>3, <1>4, TimesMonotone
  <2>2. d * N_ROWS >= width
    <3>1. d * (w + 1) = d * w + d
      BY <1>1, <1>3
    <3>2. d * w \in Nat
      BY <1>1, <1>3
    <3> QED
      BY <1>1, <1>3, <1>4, <3>1, <3>2
  <2>3. d * q \in Nat /\ d * N_ROWS \in Nat
    BY <1>1, <1>2, <2>1
  <2> QED
    BY <1>1, <1>2, <2>1, <2>2, <2>3
<1> QED
  BY <1>2, <1>3, <1>4, <1>5 DEF d, q

-----------------------------------------------------------------------------
(* Even and odd.                                                           *)

LEMMA OddOfDifference ==
  ASSUME NEW A, NEW B, IsFiniteSet(A), IsFiniteSet(B)
  PROVE  Odd((A \ B) \cup (B \ A)) <=> ~(Odd(A) <=> Odd(B))
<1> DEFINE C == A \cap B
           D == A \ B
           E == B \ A
<1>1. IsFiniteSet(C) /\ IsFiniteSet(D) /\ IsFiniteSet(E)
  BY FS_Subset
<1>2. A = C \cup D /\ C \cap D = {} /\ B = C \cup E /\ C \cap E = {} /\ D \cap E = {}
  OBVIOUS
<1> HIDE DEF C, D, E
<1>3. Cardinality(C) \in Nat /\ Cardinality(D) \in Nat /\ Cardinality(E) \in Nat
  BY <1>1, FS_CardinalityType
<1>4. /\ Cardinality(A) = Cardinality(C) + Cardinality(D)
      /\ Cardinality(B) = Cardinality(C) + Cardinality(E)
      /\ Cardinality(D \cup E) = Cardinality(D) + Cardinality(E)
  <2>1. ASSUME NEW S, NEW T, IsFiniteSet(S), IsFiniteSet(T), S \cap T = {}
        PROVE  Cardinality(S \cup T) = Cardinality(S) + Cardinality(T)
    <3>1. Cardinality(S \cup T) = Cardinality(S) + Cardinality(T) - Cardinality(S \cap T)
      BY <2>1, FS_Union
    <3>2. Cardinality(S \cap T) = 0
      BY <2>1, FS_EmptySet
    <3>3. Cardinality(S) \in Nat /\ Cardinality(T) \in Nat
      BY <2>1, FS_CardinalityType
    <3> QED
      BY <3>1, <3>2, <3>3
  <2> QED
    BY <1>1, <1>2, <2>1, Zenon
<1>5. \A c, d, e \in Nat : (d + e) % 2 = 1 <=> ~((c + d) % 2 = 1 <=> (c + e) % 2 = 1)
  OBVIOUS
<1>6. Odd(D \cup E) <=> ~(Odd(A) <=> Odd(B))
  BY <1>3, <1>4, <1>5 DEF Odd
<1> QED
  BY <1>6 DEF D, E

LEMMA NoneAndOne ==
  /\ ~Odd({})
  /\ \A b : Odd({b})
BY FS_EmptySet, FS_Singleton DEF Odd

\* What row r and column c count of a word.
InRow(word, r) == {b \in word : InRowParity(b) /\ Row(b) = r}
InColumn(word, c) == {b \in word : InColumnParity(b) /\ Column(b) = c}

\* A parity bit differs where it counts an odd number of flips.
LEMMA FlipsThatShow ==
  ASSUME EntryOK
  PROVE  parity_invalid_o <=>
           \/ \E r \in 0 .. N_ROWS - 1 : Odd(InRow(flips, r))
           \/ \E c \in 0 .. BLOCK_SIZE - 1 : Odd(InColumn(flips, c))
<1>1. IsFiniteSet(csrs) /\ IsFiniteSet(flips)
  <2>1. IsFiniteSet(EntryBits)
    BY SizesAreNumbers, FS_Interval DEF EntryBits
  <2> QED
    BY <2>1, FS_Subset DEF EntryOK
<1>2. \A r : Odd(InRow(live, r)) <=> ~(Odd(InRow(csrs, r)) <=> Odd(InRow(flips, r)))
  <2> SUFFICES ASSUME NEW r
               PROVE  Odd(InRow(live, r)) <=> ~(Odd(InRow(csrs, r)) <=> Odd(InRow(flips, r)))
    OBVIOUS
  <2> DEFINE A == InRow(csrs, r)
             B == InRow(flips, r)
  <2>1. IsFiniteSet(A) /\ IsFiniteSet(B)
    BY <1>1, FS_Subset DEF InRow
  <2>2. InRow(live, r) = (A \ B) \cup (B \ A)
    BY DEF InRow, live
  <2> HIDE DEF A, B
  <2>3. Odd(InRow(live, r)) <=> ~(Odd(A) <=> Odd(B))
    BY <2>1, <2>2, OddOfDifference
  <2> QED
    BY <2>3 DEF A, B
<1>3. \A c : Odd(InColumn(live, c)) <=> ~(Odd(InColumn(csrs, c)) <=> Odd(InColumn(flips, c)))
  <2> SUFFICES ASSUME NEW c
               PROVE  Odd(InColumn(live, c)) <=> ~(Odd(InColumn(csrs, c)) <=> Odd(InColumn(flips, c)))
    OBVIOUS
  <2> DEFINE A == InColumn(csrs, c)
             B == InColumn(flips, c)
  <2>1. IsFiniteSet(A) /\ IsFiniteSet(B)
    BY <1>1, FS_Subset DEF InColumn
  <2>2. InColumn(live, c) = (A \ B) \cup (B \ A)
    BY DEF InColumn, live
  <2> HIDE DEF A, B
  <2>3. Odd(InColumn(live, c)) <=> ~(Odd(A) <=> Odd(B))
    BY <2>1, <2>2, OddOfDifference
  <2> QED
    BY <2>3 DEF A, B
<1>4. \A word : /\ Parity(word).rows = {r \in 0 .. N_ROWS - 1 : Odd(InRow(word, r))}
                /\ Parity(word).columns = {c \in 0 .. BLOCK_SIZE - 1 : Odd(InColumn(word, c))}
  <2> SUFFICES ASSUME NEW word
               PROVE  /\ Parity(word).rows = {r \in 0 .. N_ROWS - 1 : Odd(InRow(word, r))}
                      /\ Parity(word).columns = {c \in 0 .. BLOCK_SIZE - 1 : Odd(InColumn(word, c))}
    OBVIOUS
  <2>1. \A r : InRow(word, r) = {b \in {x \in word : InRowParity(x)} : Row(b) = r}
    BY DEF InRow
  <2>2. \A c : InColumn(word, c) = {b \in {x \in word : InColumnParity(x)} : Column(b) = c}
    BY DEF InColumn
  <2> QED
    BY <2>1, <2>2 DEF Parity
<1>5. \A v, w : Parity(v) = Parity(w) <=> /\ Parity(v).rows = Parity(w).rows
                                          /\ Parity(v).columns = Parity(w).columns
  BY DEF Parity
<1>6. parity_invalid_o <=> \/ Parity(csrs).rows # Parity(live).rows
                           \/ Parity(csrs).columns # Parity(live).columns
  BY <1>5 DEF parity_invalid_o
<1>7. Parity(csrs).rows # Parity(live).rows <=> \E r \in 0 .. N_ROWS - 1 : Odd(InRow(flips, r))
  <2> DEFINE D == 0 .. N_ROWS - 1
  <2> HIDE DEF D
  <2>1. /\ Parity(csrs).rows = {r \in D : Odd(InRow(csrs, r))}
        /\ Parity(live).rows = {r \in D : Odd(InRow(live, r))}
    BY <1>4 DEF D
  <2>2. Parity(csrs).rows # Parity(live).rows <=> \E r \in D : Odd(InRow(flips, r))
    BY <1>2, <2>1, Zenon
  <2> QED
    BY <2>2 DEF D
<1>8. Parity(csrs).columns # Parity(live).columns
        <=> \E c \in 0 .. BLOCK_SIZE - 1 : Odd(InColumn(flips, c))
  <2> DEFINE D == 0 .. BLOCK_SIZE - 1
  <2> HIDE DEF D
  <2>1. /\ Parity(csrs).columns = {c \in D : Odd(InColumn(csrs, c))}
        /\ Parity(live).columns = {c \in D : Odd(InColumn(live, c))}
    BY <1>4 DEF D
  <2>2. Parity(csrs).columns # Parity(live).columns <=> \E c \in D : Odd(InColumn(flips, c))
    BY <1>3, <2>1, Zenon
  <2> QED
    BY <2>2 DEF D
<1> QED
  BY <1>6, <1>7, <1>8

-----------------------------------------------------------------------------
(* What is noticed.                                                        *)

LEMMA BlindColumnsOfEntry ==
  ASSUME EntryOK
  PROVE  BlindColumns
<1> SUFFICES ASSUME Cardinality(flips) = 1, NEW b \in flips
             PROVE  ~parity_invalid_o <=>
                      /\ Column(b) >= N_FULL_BLOCKS /\ Row(b) # N_ROWS - 2
                      /\ Column(b) >= RowBits /\ Row(b) < N_FULL_BLOCKS
  BY DEF BlindColumns
<1>1. flips = {b}
  <2>1. IsFiniteSet(EntryBits)
    BY SizesAreNumbers, FS_Interval DEF EntryBits
  <2>2. IsFiniteSet(flips)
    BY <2>1, FS_Subset DEF EntryOK
  <2>3. \E x : flips = {x}
    BY <2>2, FS_Singleton
  <2> QED
    BY <2>3
<1>2. b \in EntryBits
  BY DEF EntryOK
<1>3. /\ Row(b) \in 0 .. N_ROWS - 1 /\ Column(b) \in 0 .. BLOCK_SIZE - 1
      /\ N_FULL_BLOCKS \in Nat /\ RowBits \in Nat
  BY <1>2, PlaceOfBit, SizesAreNumbers, PseParityAssumption
<1>4. \A r : InRow(flips, r) = IF InRowParity(b) /\ Row(b) = r THEN {b} ELSE {}
  BY <1>1 DEF InRow
<1>5. \A c : InColumn(flips, c) = IF InColumnParity(b) /\ Column(b) = c THEN {b} ELSE {}
  BY <1>1 DEF InColumn
<1>6. \A r : Odd(InRow(flips, r)) <=> InRowParity(b) /\ Row(b) = r
  BY <1>4, NoneAndOne, Zenon
<1>7. \A c : Odd(InColumn(flips, c)) <=> InColumnParity(b) /\ Column(b) = c
  BY <1>5, NoneAndOne, Zenon
<1>8. parity_invalid_o <=> InRowParity(b) \/ InColumnParity(b)
  BY <1>3, <1>6, <1>7, FlipsThatShow
<1>9. /\ ~InRowParity(b) <=> Row(b) < N_FULL_BLOCKS /\ Column(b) >= RowBits
      /\ ~InColumnParity(b) <=> Column(b) >= N_FULL_BLOCKS /\ Row(b) # N_ROWS - 2
  BY <1>3 DEF InRowParity, InColumnParity
<1> QED
  BY <1>8, <1>9

\* Four different elements are no subset of a set of three.
LEMMA NotFour ==
  ASSUME NEW S, IsFiniteSet(S), Cardinality(S) <= 3,
         NEW a \in S, NEW b \in S, NEW c \in S, NEW d \in S,
         a # b, a # c, a # d, b # c, b # d, c # d
  PROVE  FALSE
<1>1. IsFiniteSet({a}) /\ Cardinality({a}) = 1
  BY FS_Singleton
<1>2. IsFiniteSet({a, b}) /\ Cardinality({a, b}) = 2
  <2>1. b \notin {a} /\ {a} \cup {b} = {a, b}
    OBVIOUS
  <2>2. /\ IsFiniteSet({a} \cup {b})
        /\ Cardinality({a} \cup {b}) = Cardinality({a}) + 1
    BY <1>1, <2>1, FS_AddElement
  <2> QED
    BY <1>1, <2>1, <2>2
<1>3. IsFiniteSet({a, b, c}) /\ Cardinality({a, b, c}) = 3
  <2>1. c \notin {a, b} /\ {a, b} \cup {c} = {a, b, c}
    OBVIOUS
  <2> QED
    BY <1>2, <2>1, FS_AddElement
<1>4. IsFiniteSet({a, b, c, d}) /\ Cardinality({a, b, c, d}) = 4
  <2>1. d \notin {a, b, c} /\ {a, b, c} \cup {d} = {a, b, c, d}
    OBVIOUS
  <2> QED
    BY <1>3, <2>1, FS_AddElement
<1>5. {a, b, c, d} \subseteq S
  OBVIOUS
<1>6. Cardinality({a, b, c, d}) <= Cardinality(S)
  BY <1>5, FS_Subset
<1>7. Cardinality(S) \in Nat
  BY FS_CardinalityType
<1> QED
  BY <1>4, <1>6, <1>7

\* An even number of elements, one of which is known, has another.
LEMMA EvenHasAnother ==
  ASSUME NEW S, IsFiniteSet(S), ~Odd(S), NEW b \in S
  PROVE  \E x \in S : x # b
<1> SUFFICES ASSUME \A x \in S : x = b PROVE FALSE
  OBVIOUS
<1>1. S = {b}
  OBVIOUS
<1> QED
  BY <1>1, NoneAndOne

LEMMA CoveredFlipsNoticed ==
  ASSUME EntryOK, Cardinality(flips) <= 3
  PROVE  CoveredBlockNoticed
<1> SUFFICES ASSUME flips # {}, ~parity_invalid_o,
                    \A b \in flips : Column(b) < RowBits /\ Column(b) < N_FULL_BLOCKS
             PROVE  FALSE
  BY DEF CoveredBlockNoticed
<1>1. IsFiniteSet(flips)
  <2>1. IsFiniteSet(EntryBits)
    BY SizesAreNumbers, FS_Interval DEF EntryBits
  <2> QED
    BY <2>1, FS_Subset DEF EntryOK
<1>2. \A b \in flips : /\ Row(b) \in 0 .. N_ROWS - 1 /\ Column(b) \in 0 .. BLOCK_SIZE - 1
                       /\ b = BLOCK_SIZE * Row(b) + Column(b)
  BY PlaceOfBit DEF EntryOK
<1>3. \A b \in flips : InRowParity(b) /\ InColumnParity(b)
  <2> TAKE b \in flips
  <2>1. Column(b) \in Int /\ N_FULL_BLOCKS \in Int
    BY <1>2, SizesAreNumbers
  <2> QED
    BY <2>1 DEF InRowParity, InColumnParity
<1>4. ASSUME NEW b \in flips
      PROVE  \E x \in flips : x # b /\ Row(x) = Row(b)
  <2>1. b \in InRow(flips, Row(b)) /\ IsFiniteSet(InRow(flips, Row(b)))
    BY <1>1, <1>3, FS_Subset DEF InRow
  <2>2. ~Odd(InRow(flips, Row(b)))
    BY <1>2, FlipsThatShow
  <2>3. \E x \in InRow(flips, Row(b)) : x # b
    BY <2>1, <2>2, EvenHasAnother
  <2> QED
    BY <2>3 DEF InRow
<1>5. ASSUME NEW b \in flips
      PROVE  \E x \in flips : x # b /\ Column(x) = Column(b)
  <2>1. b \in InColumn(flips, Column(b)) /\ IsFiniteSet(InColumn(flips, Column(b)))
    BY <1>1, <1>3, FS_Subset DEF InColumn
  <2>2. ~Odd(InColumn(flips, Column(b)))
    BY <1>2, FlipsThatShow
  <2>3. \E x \in InColumn(flips, Column(b)) : x # b
    BY <2>1, <2>2, EvenHasAnother
  <2> QED
    BY <2>3 DEF InColumn
\* Two corners of a rectangle, the third and the fourth.
<1>6. PICK a \in flips : TRUE
  OBVIOUS
<1>7. PICK b \in flips : b # a /\ Row(b) = Row(a)
  BY <1>4
<1>8. PICK c \in flips : c # a /\ Column(c) = Column(a)
  BY <1>5
<1>9. PICK d \in flips : d # b /\ Column(d) = Column(b)
  BY <1>5
<1>10. \A x, y \in flips : Row(x) = Row(y) /\ Column(x) = Column(y) => x = y
  BY <1>2, Zenon
<1>11. Column(a) # Column(b)
  BY <1>7, <1>10
<1>12. b # c /\ c # d /\ a # d
  BY <1>8, <1>9, <1>11
<1> QED
  BY <1>1, <1>7, <1>8, <1>9, <1>12, NotFour

-----------------------------------------------------------------------------
LEMMA EntryStays == Spec => []EntryOK
<1>1. Init => EntryOK
  <2> SUFFICES ASSUME Init PROVE EntryOK
    OBVIOUS
  <2>1. csrs \subseteq EntryBits
    BY DEF Init
  <2> QED
    BY <2>1 DEF Init, EntryOK
<1>2. EntryOK /\ [Next]_vars => EntryOK'
  BY DEF EntryOK, Next, Flip, vars, EntryBits
<1> QED
  BY <1>1, <1>2, PTL DEF Spec

\* The digit-by-digit root of optimal_block_size, rounded up, is the side of the
\* smallest square that holds the entry, for every width of fewer bits than
\* the top mask allows.
THEOREM BlockIsOptimal == Spec => []BlockSizeIsOptimal
<1>1. EntryOK => BlockSizeIsOptimal
  BY OptimalBlock DEF EntryOK, BlockSizeIsOptimal
<1> QED
  BY <1>1, EntryStays, PTL

\* pse_parity_unit misses a single flip exactly in the columns that it cuts
\* off its rows and takes from another row.
THEOREM BlindExactly == Spec => []BlindColumns
<1> QED
  BY BlindColumnsOfEntry, EntryStays, PTL

\* Up to three flips in columns that both parities count are noticed, whatever
\* was saved and wherever they are.
THEOREM CoveredNoticed == Spec => [](Cardinality(flips) <= 3 => CoveredBlockNoticed)
<1>1. EntryOK => (Cardinality(flips) <= 3 => CoveredBlockNoticed)
  BY CoveredFlipsNoticed
<1> QED
  BY <1>1, EntryStays, PTL
=============================================================================
