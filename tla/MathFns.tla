------------------------------ MODULE MathFns ------------------------------
(***************************************************************************)
(* The mathematical functions for cores with a floating-point unit         *)
(* (math_fns_lib), as functions.  What they do to sign and exponent, the   *)
(* cases they split and the arguments they hand on are exact; what they    *)
(* compute by a polynomial or by Newton's iteration is computed here in    *)
(* fixed point, so their last digits are not modelled.                     *)
(*                                                                         *)
(* A float is a record of sign, biased exponent and mantissa; subnormal    *)
(* numbers, which the functions do not provide for, are left out.  Where a *)
(* function is about angles, an angle is a number of steps of which a      *)
(* right angle has QuarterTurn.                                            *)
(***************************************************************************)
EXTENDS Integers, Sequences

CONSTANTS
  MntBits,      (* bits of a mantissa: 23 in the code *)
  QuarterTurn   (* MATH_0_5PI in steps *)

ASSUME MathAssumption == MntBits \in 2 .. 23 /\ QuarterTurn \in Nat \ {0}

MntSize == 2^MntBits
One == 2^14                  \* the unit of the fixed-point numbers
Fine == 2^15                 \* that of the polynomials, but for
Coarse == 2^12               \* that of the logarithm, whose terms are large

Zero == [sign |-> 0, exp |-> 0, mnt |-> 0]
MATH_INF == [sign |-> 0, exp |-> 255, mnt |-> 0]
MATH_NAN == [sign |-> 0, exp |-> 255, mnt |-> MntSize \div 2]

fIsNan(x) == x.exp = 255 /\ x.mnt # 0
fIsInf(x) == x.exp = 255 /\ x.mnt = 0
IsZero(x) == x.exp = 0
Signed(x, sign) == [x EXCEPT !.sign = sign]

\* The absolute value of a number.
fAbs(x) == IF x < 0 THEN -x ELSE x

-----------------------------------------------------------------------------
(* Division and square root without the unit's own.                        *)

\* One step towards 1 / b, and three from the linear estimate; b is in
\* [1, 2), in units of 1 / One.
Newton(b, x) == (x * (2 * One - (b * x) \div One)) \div One
Reciprocal_Wrong(b) ==         \* one iteration less
  Newton(b, Newton(b, (3 * One - b) \div 2))
Reciprocal(b) == Newton(b, Newton(b, Newton(b, (3 * One - b) \div 2)))

\* 1.mnt of a float, in fixed point.
Significand(x) == One + (x.mnt * One) \div MntSize

\* A special value, or the float "scaled" times x.
Answer(value) == [special |-> TRUE, value |-> value]

fDiv(a, b) ==
  LET sign == (a.sign + b.sign) % 2
      ex == a.exp - b.exp + 127
  IN IF fIsNan(a) \/ fIsNan(b) \/ IsZero(b) THEN Answer(MATH_NAN)
     ELSE IF ex < 1 THEN Answer(Signed(Zero, sign))
     ELSE IF ex > 254 THEN Answer(Signed(MATH_INF, sign))
     ELSE [special |-> FALSE,
           scaled |-> [sign |-> sign, exp |-> ex, mnt |-> a.mnt],
           x |-> Reciprocal(Significand(b))]

\* The bits of a positive float as an integer, and back.
Bits(x) == x.exp * MntSize + x.mnt
Float(i) == [sign |-> 0, exp |-> i \div MntSize, mnt |-> i % MntSize]

\* 0x5f3759df, cut to the mantissa.
Magic == 1597463007 \div 2^(23 - MntBits)

\* Of an estimate g of 1 / sqrt(a), what it leaves: a * g * g, which is one
\* when the estimate is exact.  The power of two is added at the end.
Left(a, g) ==
  LET s == Significand(g)
      r == (((s * s) \div One) * Significand(a)) \div One
      e == a.exp + 2 * g.exp - 3 * 127
  IN IF e < 0 THEN r \div 2^(-e) ELSE r * 2^e

\* a = a * (1.5F - ahalf * a * a) multiplies g by (3 - r) / 2.
Refined(r) ==
  LET f == (3 * One - r) \div 2 IN (((r * f) \div One) * f) \div One

\* The result is x * g: its square is x times what is left.
fSqrt(x) ==
  IF (x.sign = 1 /\ ~IsZero(x)) \/ fIsNan(x) THEN Answer(MATH_NAN)
  ELSE IF IsZero(x) THEN Answer(Zero)
  ELSE [special |-> FALSE, scaled |-> x,
        x |-> Refined(Refined(Refined(Left(x, Float(Magic - Bits(x) \div 2)))))]

-----------------------------------------------------------------------------
(* Polynomials, with the coefficients of the code, the constant one first. *)

Horner(c, x, unit) ==
  LET v[k \in DOMAIN c] == IF k = Len(c) THEN c[k]
                           ELSE c[k] + (x * v[k + 1]) \div unit
  IN v[1]

fExp2_65(x) == Horner(<<32768, 22713, 7869, 1829, 295, 62>>, x, Fine)

fLog2_65(x) == Horner(<<-17390, 58443, -122788, 189456,
                        -195640, 128212, -48224, 7931>>, x, Coarse)

fatan_70(x) ==
  (x * Horner(<<32768, -10922, 6544, -4594, 3249, -1949, 795, -154>>,
              (x * x) \div Fine, Fine)) \div Fine

\* The angle is in units of 1 / One.
fCos_73(x) == Horner(<<32768, -16384, 1365, -45, 1>>, (2 * x * x) \div One, Fine)

-----------------------------------------------------------------------------
(* Range reductions.  x is x.num / x.den.                                  *)

\* (int) x, which cuts towards zero, and one less for a negative x.
Below_Wrong(x) == IF x.num < 0 THEN -((-x.num) \div x.den) ELSE x.num \div x.den
Below(x) == IF x.num < 0 THEN -((-x.num) \div x.den) - 1 ELSE x.num \div x.den

\* The polynomial of arg, with "shift" added to its exponent.
fExp2(x) ==
  IF x.num > 127 * x.den THEN Answer(MATH_INF)
  ELSE IF x.num < -100 * x.den THEN Answer(Zero)
  ELSE IF x.num = 0 THEN Answer([sign |-> 0, exp |-> 127, mnt |-> 0])
  ELSE [special |-> FALSE, shift |-> Below(x),
        arg |-> [num |-> x.num - Below(x) * x.den, den |-> x.den]]

\* The polynomial of arg, plus "shift".
fLog2(x) ==
  IF fIsInf(x) THEN Answer(MATH_INF)
  ELSE IF IsZero(x) THEN Answer(Signed(MATH_INF, 1))
  ELSE IF x.sign = 1 \/ fIsNan(x) THEN Answer(MATH_NAN)
  ELSE [special |-> FALSE, shift |-> x.exp - 126,
        arg |-> [sign |-> 0, exp |-> 126, mnt |-> x.mnt]]

\* Other bases: the argument or the result is multiplied by a constant.
MATH_LOG2_E == [num |-> 1443, den |-> 1000]
MATH_LOG2_10 == [num |-> 3322, den |-> 1000]
Times(x, c) == [num |-> x.num * c.num, den |-> x.den * c.den]
fExp(x) == fExp2(Times(x, MATH_LOG2_E))
fExp10(x) == fExp2(Times(x, MATH_LOG2_10))

\* A quotient as fDiv is asked for it; of zero by zero it is no number.
Ratio(num, den) == [num |-> num, den |-> den]

\* The angle is a right angle times base, plus the arc tangent of v.
fAtan2(y, x) ==
  LET steep == fAbs(x) < fAbs(y)
  IN [v |-> IF steep THEN Ratio(-x, y) ELSE Ratio(y, x),
      base |-> CASE steep -> IF y < 0 THEN -1 ELSE 1
                 [] ~steep /\ x < 0 -> IF y < 0 THEN -2 ELSE 2
                 [] OTHER -> 0]

fAtan(y, one) == fAtan2(y, one)
fAsin(x, root) == fAtan2(x, root)         \* root is fSqrt(1 - x * x)
fAcos(x, root) == fAtan2(root, x)

\* Subtract the whole turns, cut towards zero, where there are any.
WithinTurn(x) ==
  LET turn == 4 * QuarterTurn
      n == IF x < 0 THEN -((-x) \div turn) ELSE x \div turn
  IN IF fAbs(x) > turn THEN x - n * turn ELSE x

\* The cosine is that of arg by the polynomial, or its negative.
fCos(x) ==
  LET a == fAbs(WithinTurn(x.steps))
      q == QuarterTurn
      Cosine(neg, arg) == [special |-> FALSE, neg |-> neg, arg |-> arg]
  IN CASE ~x.finite -> Answer(MATH_NAN)
       [] x.finite /\ a < q -> Cosine(FALSE, a)
       [] x.finite /\ a \in q .. 2 * q - 1 -> Cosine(TRUE, 2 * q - a)
       [] x.finite /\ a \in 2 * q .. 3 * q - 1 -> Cosine(TRUE, a - 2 * q)
       [] OTHER -> Cosine(FALSE, 4 * q - a)

fSin(x) == fCos([x EXCEPT !.steps = QuarterTurn - @])
fTan(x) == Ratio(fSin(x), fCos(x))
fCot(x) == Ratio(fCos(x), fSin(x))
=============================================================================
