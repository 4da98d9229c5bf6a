----------------------------- MODULE Libraries -----------------------------
(***************************************************************************)
(* Calls of the pure parts of the firmware, one to a behaviour: of the     *)
(* string library, of the mathematical library, and of the check of an     *)
(* access under the settings main.c makes.  A call returns what the code   *)
(* computes; the properties say what it should be.                         *)
(***************************************************************************)
EXTENDS StringLib, MathFns, PmpRegions

CONSTANTS
  Naturals16,    (* every unsigned int *)
  SomeInts,      (* ints worth a second look, signed *)
  Widths,        (* field widths; zero is no width *)
  Texts,         (* strings to print *)
  MemoryWords,   (* words of a memory *)
  Memories,      (* memories, of whole words, that may hold a string *)
  Floats,        (* floats to divide, to take roots and logarithms of *)
  Eighths,       (* exponents for fExp2 and its like, in eighths *)
  Coordinates,   (* arguments of fAtan2 *)
  Triangles,     (* sides of right triangles, the longest of which is third *)
  Angles,        (* arguments of fCos and its like, in steps *)
  Grid,          (* points of the unit interval to try the polynomials at *)
  SomeLayouts    (* layouts of the memory *)

ASSUME LibrariesAssumption ==
  /\ Naturals16 \subseteq 0 .. 2^IntBits - 1
  /\ SomeInts \subseteq -(2^(IntBits - 1)) .. 2^(IntBits - 1) - 1
  /\ Widths \subseteq 0 .. 2^IntBits - 1 /\ Texts \subseteq Seq(STRING)
  /\ SomeLayouts \subseteq Layouts
  /\ MemoryWords \in Nat
  /\ Memories \subseteq [0 .. MemoryWords * WordBytes - 1 -> 0 .. Base - 1]
  /\ Floats \subseteq [sign : {0, 1}, exp : 0 .. 255, mnt : 0 .. MntSize - 1]
  /\ Eighths \cup Coordinates \cup Angles \subseteq Int
  /\ Triangles \subseteq Int \X Nat

VARIABLES
  call,      (* the call and its arguments *)
  result,    (* what it returns *)
  returned

vars == <<call, result, returned>>

-----------------------------------------------------------------------------
(* The calls.                                                              *)

Flags == {"", "-", "0"}

\* A piece of a format: a conversion with its argument, "%%" or a literal.
Piece(flag, width, spec, arg) ==
  [flag |-> flag, width |-> width, spec |-> spec, arg |-> arg]
Literal(c) == Piece("", 0, "literal", <<c>>)

IntPieces == {Piece(f, w, s, v) : f \in Flags, w \in Widths,
                                  s \in {"d", "u", "x", "X"}, v \in SomeInts}
TextFlags == {"", "-"}   \* zeros are for numbers
StringPieces == {Piece(f, w, "s", s) : f \in TextFlags, w \in Widths, s \in Texts}
CharPieces == {Piece(f, w, "c", <<"z">>) : f \in TextFlags, w \in Widths}
TextPieces == StringPieces \cup CharPieces

PrintfCall(pieces) == [fn |-> "printf", pieces |-> pieces]

UnsignedFormats == {<<Piece("", 0, "u", v)>> : v \in Naturals16}
IntFormats == {<<Literal("="), p, Literal("%")>> : p \in IntPieces}
TextFormats == {<<p>> : p \in TextPieces}
PairFormats == UNION {{<<p, r>>, <<r, p>>} : p \in {q \in IntPieces : q.flag = "-"},
                                             r \in {q \in TextPieces : q.width = 2}}
Formats == UnsignedFormats \cup IntFormats \cup TextFormats \cup PairFormats

InitStrings ==
  \/ \E pieces \in Formats : call = PrintfCall(pieces)
  \/ \E v \in Naturals16 : v \in SomeInts /\
       call \in {[fn |-> f, value |-> v] : f \in {"write_uart_int", "write_uart_hex"}}
  \/ \E s \in Texts : call = [fn |-> "puts", s |-> s]
  \/ \E m1 \in Memories, m2 \in Memories, a1 \in {0, 1}, a2 \in {0, 1} :
       /\ \E x \in DOMAIN m1 : x >= a1 /\ m1[x] = 0
       /\ \E x \in DOMAIN m2 : x >= a2 /\ m2[x] = 0
       /\ call \in {[fn |-> f, m1 |-> m1, a1 |-> a1, m2 |-> m2, a2 |-> a2] :
                      f \in {"strcmp", "strcpy"}}
  \/ \E m \in Memories, a \in {0, 1}, n \in 0 .. 3 :
       call = [fn |-> "memset", m |-> m, a |-> a, val |-> 2, length |-> n]
  \/ \E m \in Memories, a \in {NULL, 0, 1} :
       /\ a # NULL => \E x \in DOMAIN m : x >= a /\ m[x] = 0
       /\ call = [fn |-> "strlen", m |-> m, a |-> a]

InitMath ==
  \/ \E a \in Floats, b \in Floats : call = [fn |-> "fDiv", a |-> a, b |-> b]
  \/ \E x \in Floats : call \in {[fn |-> f, x |-> x] : f \in {"fSqrt", "fLog2"}}
  \/ \E n \in Eighths : call \in {[fn |-> f, x |-> [num |-> n, den |-> 8]] :
                                    f \in {"fExp2", "fExp", "fExp10"}}
  \/ \E y \in Coordinates, x \in Coordinates :
       call = [fn |-> "fAtan2", y |-> y, x |-> x]
  \/ \E t \in Triangles : call \in {[fn |-> f, x |-> t[1], root |-> t[2]] :
                                      f \in {"fAsin", "fAcos"}}
  \/ \E n \in Angles, finite \in BOOLEAN :
       call \in {[fn |-> f, x |-> [finite |-> finite, steps |-> n]] :
                   f \in {"fCos", "fSin", "fTan", "fCot"}}
  \/ \E j \in Grid, k \in Grid : call = [fn |-> "polynomials", j |-> j, k |-> k]

InitRegions ==
  \/ \E l \in SomeLayouts, t \in DemoTasks, priv \in {"U", "M"}, type \in Accesses :
     \E a \in 0 .. l.stack_end[2] + 4 :
       call = [fn |-> "pmp", l |-> l, t |-> t, priv |-> priv, a |-> a, type |-> type]
  \/ \E k \in 1 .. AddressBits, n \in 0 .. 3, word \in 0 .. 2^AddressBits :
       call = [fn |-> "napot", base |-> n * 2^k, size |-> 2^k, word |-> word]
  \/ \E flags \in SUBSET Accesses, lock \in BOOLEAN :
       call = [fn |-> "mml", region |-> [mode |-> "tor", flags |-> flags, lock |-> lock]]

Init == /\ InitStrings \/ InitMath \/ InitRegions
        /\ result = "none" /\ returned = FALSE

-----------------------------------------------------------------------------
Return(fn, value) ==
  /\ call.fn = fn /\ ~returned
  /\ result' = value /\ returned' = TRUE
  /\ UNCHANGED call

Numeral(v, b, digits) ==
  LET place[k \in 0 .. IntBits] == IF k = 0 THEN 1 ELSE b * place[k - 1]
      n == CHOOSE k \in 1 .. IntBits : v < place[k] /\ (k = 1 \/ v >= place[k - 1])
  IN [k \in 1 .. n |-> digits[1 + ((v \div place[n - k]) % b)]]

Spelling(p) ==
  CASE p.spec = "literal" /\ p.arg = <<"%">> -> <<"%", "%">>
    [] p.spec = "literal" /\ p.arg # <<"%">> -> p.arg
    [] OTHER -> <<"%">> \o (IF p.flag = "" THEN <<>> ELSE <<p.flag>>)
                \o (IF p.width = 0 THEN <<>> ELSE Numeral(p.width, 10, DigitsLower))
                \o <<p.spec>>

\* A literal takes no argument.
Arguments(pieces) ==
  LET args[k \in 0 .. Len(pieces)] ==
        IF k = 0 THEN <<>>
        ELSE IF pieces[k].spec = "literal" THEN args[k - 1]
        ELSE Append(args[k - 1], pieces[k].arg)
  IN args[Len(pieces)]

Printing ==
  \/ /\ call.fn = "printf"
     /\ LET format == FlattenSeq([k \in DOMAIN call.pieces |-> Spelling(call.pieces[k])])
        IN Return("printf", printf(format, Arguments(call.pieces)))
  \/ Return("puts", puts(call.s))
  \/ Return("write_uart_int", write_uart_int(call.value))
  \/ Return("write_uart_hex", write_uart_hex(call.value))

Strings ==
  \/ Return("strcmp", strcmp(call.m1, call.a1, call.m2, call.a2))
  \/ Return("strcpy", strcpy(call.m1, call.a1, call.m2, call.a2))
  \/ Return("strlen", strlen(call.m, call.a))
  \/ Return("memset", memset(call.m, call.a, call.val, call.length))

Functions ==
  \/ Return("fDiv", fDiv(call.a, call.b))
  \/ Return("fSqrt", fSqrt(call.x))
  \/ Return("fExp2", fExp2(call.x))
  \/ Return("fExp", fExp(call.x))
  \/ Return("fExp10", fExp10(call.x))
  \/ Return("fLog2", fLog2(call.x))
  \/ Return("fAtan2", fAtan2(call.y, call.x))
  \/ Return("fAsin", fAsin(call.x, call.root))
  \/ Return("fAcos", fAcos(call.x, call.root))
  \/ Return("fCos", fCos(call.x))
  \/ Return("fSin", fSin(call.x))
  \/ Return("fTan", fTan(call.x))
  \/ Return("fCot", fCot(call.x))
  \/ Return("polynomials", "none")

Checks ==
  \/ /\ call.fn = "pmp"
     /\ Return("pmp", Denied(call.l, call.t, call.priv, call.a, call.type))
  \/ /\ call.fn = "napot"
     /\ Return("napot", region_match(
                 [r \in {0} |-> [mode |-> "napot", flags |-> {}, lock |-> FALSE]],
                 [r \in {0} |-> call.base + call.size \div 2 - 1], 0, call.word))
  \/ /\ call.fn = "mml"
     /\ Return("mml", {a \in {"U", "M"} \X Accesses :
                         ~access_fault_of(call.region, TRUE, a[1], a[2])})

Next == Printing \/ Strings \/ Functions \/ Checks

Spec == Init /\ [][Next]_vars
-----------------------------------------------------------------------------
(* Printing.                                                               *)

Magnitude(p) == IF p.spec = "d" /\ p.arg < 0 THEN -p.arg ELSE p.arg % 2^IntBits

\* The argument as it is to be read, and what is to be in front of it.
Body(p) == CASE p.spec = "s" /\ p.arg = Null -> <<"(", "n", "u", "l", "l", ")">>
             [] p.spec = "s" /\ p.arg # Null -> p.arg
             [] p.spec \in {"d", "u"} -> Numeral(Magnitude(p), 10, DigitsLower)
             [] p.spec = "x" -> Numeral(Magnitude(p), 16, DigitsLower)
             [] p.spec = "X" -> Numeral(Magnitude(p), 16, DigitsUpper)
             [] OTHER -> p.arg
Minus(p) == IF p.spec = "d" /\ p.arg < 0 THEN <<"-">> ELSE <<>>

Filling(p, c) == LET n == p.width - Len(Minus(p) \o Body(p))
                 IN [k \in 1 .. (IF n > 0 THEN n ELSE 0) |-> c]

Field(p) == CASE p.flag = "-" -> Minus(p) \o Body(p) \o Filling(p, " ")
              [] p.flag = "0" -> Minus(p) \o Filling(p, "0") \o Body(p)
              [] OTHER -> Filling(p, " ") \o Minus(p) \o Body(p)

(***************************************************************************)
(* printf prints what its format asks for: the digits of the number, which *)
(* it finds without dividing, the sign before the zeros and after the      *)
(* blanks, every argument in its place; and it returns how much it wrote.  *)
(* The kernel's own functions agree with it.                               *)
(***************************************************************************)
PrintfAgrees ==
  returned =>
    /\ call.fn = "printf" =>
         /\ result.out = FlattenSeq([k \in DOMAIN call.pieces |-> Field(call.pieces[k])])
         /\ result.pc = Len(result.out)
    /\ call.fn = "puts" => result.out = call.s \o <<"\n">>
    /\ call.fn = "write_uart_int" => result = Numeral(call.value, 10, DigitsLower)
    /\ call.fn = "write_uart_hex" => result = Numeral(call.value, 16, DigitsUpper)

-----------------------------------------------------------------------------
(* Strings.                                                                *)

EndOfString(m, a) == CHOOSE x \in DOMAIN m : /\ x >= a /\ m[x] = 0
                                             /\ \A y \in a .. x - 1 : m[y] # 0
Text(m, a) == [k \in 1 .. EndOfString(m, a) - a |-> m[a + k - 1]]

\* s comes before t in a dictionary.
Before(s, t) ==
  \E n \in 0 .. Len(s) : /\ n < Len(t) /\ SubSeq(s, 1, n) = SubSeq(t, 1, n)
                         /\ n < Len(s) => s[n + 1] < t[n + 1]

(***************************************************************************)
(* strcmp orders strings as a dictionary does, wherever they begin and     *)
(* whatever lies behind them, although it compares word by word where it   *)
(* can; a string that is none has no length; and strcpy and memset write   *)
(* the bytes they are asked to and no others.                              *)
(***************************************************************************)
StringsCompared ==
  returned =>
    /\ call.fn = "strcmp" =>
         LET s == Text(call.m1, call.a1)
             t == Text(call.m2, call.a2)
         IN (result < 0 <=> Before(s, t)) /\ (result > 0 <=> Before(t, s))
    /\ call.fn = "strlen" =>
         result = IF call.a = NULL THEN 0 ELSE Len(Text(call.m, call.a))
    /\ call.fn = "strcpy" =>
         LET t == Text(call.m2, call.a2)
             written == call.a1 .. call.a1 + Len(t) - 1
         IN /\ [k \in 1 .. Len(t) |-> result[call.a1 + k - 1]] = t
            /\ \A x \in DOMAIN result \ written : result[x] = call.m1[x]
    /\ call.fn = "memset" =>
         \A x \in DOMAIN result :
           result[x] = IF x < call.a \/ x >= call.a + call.length
                       THEN call.m[x] ELSE call.val

-----------------------------------------------------------------------------
(* Functions.                                                              *)

Normal(x) == x.exp \in 1 .. 254
\* The quotient of the absolute values is at least 2^e.
QuotientReaches(a, b, e) ==
  \/ a.exp - b.exp > e
  \/ a.exp - b.exp = e /\ a.mnt >= b.mnt

\* The sign is right, and there is an answer unless the quotient is about
\* to leave the numbers.  Infinite and zero dividends are not provided for.
DivisionExact(a, b, r) ==
  /\ b.exp = 0 => r = Answer(MATH_NAN)
  /\ Normal(a) /\ Normal(b) =>
       LET f == IF r.special THEN r.value ELSE r.scaled
       IN /\ f.sign = 0 <=> a.sign = b.sign
          /\ r.special <=> f.exp \in {0, 255}
          /\ f.exp = 255 => QuotientReaches(a, b, 127)
          /\ f.exp = 0 => ~QuotientReaches(a, b, -126)
          /\ ~r.special => /\ QuotientReaches(a, b, -127)
                           /\ ~QuotientReaches(a, b, 128)
                           /\ f.exp - 127 = a.exp - b.exp /\ f.mnt = a.mnt

\* 2^x is the polynomial of a number of the unit interval, where it is good,
\* and the shift of its exponent, which is about 127, stays an exponent.
PowerExact(x, r) ==
  IF r.special
  THEN CASE r.value = MATH_INF -> x.num > 127 * x.den
         [] r.value = Zero -> x.num < -100 * x.den
         [] OTHER -> x.num = 0
  ELSE /\ 0 <= r.arg.num /\ r.arg.num <= r.arg.den
       /\ r.arg.den = x.den /\ r.shift * x.den + r.arg.num = x.num
       /\ r.shift + 126 >= 1
       /\ r.shift + 127 <= 254 /\ (r.arg.num = r.arg.den => r.shift + 128 <= 254)

LogarithmExact(x, r) ==
  Normal(x) => IF x.sign = 1 THEN r = Answer(MATH_NAN)
               ELSE r.shift + r.arg.exp = x.exp /\ r.arg = [x EXCEPT !.exp = 126]

\* The arc tangent is taken of a quotient of the unit interval, and the angle
\* to the point <<x, y>> is found in the circle, in (-pi, pi].
AngleExact(y, x, r) ==
  LET n == IF r.v.den < 0 THEN -r.v.num ELSE r.v.num
      d == fAbs(r.v.den)
      turned == CASE r.base = 0 -> <<d, n>>
                  [] r.base = 1 -> <<-n, d>>
                  [] r.base = -1 -> <<n, -d>>
                  [] OTHER -> <<-d, -n>>
  IN \/ x = 0 /\ y = 0
     \/ /\ d > 0 /\ fAbs(n) <= d
        /\ turned[1] * y = turned[2] * x /\ turned[1] * x + turned[2] * y > 0
        /\ (r.base = 2 => n <= 0) /\ (r.base = -2 => n > 0)

\* The polynomial is asked for an angle of the first quadrant, whose cosine is
\* that of the angle, or with the other sign that of the one opposite.
CosineExact(steps, r) ==
  ~r.special =>
     LET a == IF r.neg THEN r.arg + 2 * QuarterTurn ELSE r.arg
         turn == 4 * QuarterTurn
     IN /\ 0 <= r.arg /\ r.arg <= QuarterTurn
        /\ (a - steps) % turn = 0 \/ (a + steps) % turn = 0

(***************************************************************************)
(* What the mathematical functions do before and after their polynomial is *)
(* exact: the polynomial is used only where it is good, the quadrant,      *)
(* octant or power of two is that of the argument, and no step leaves the  *)
(* exponents of a float.                                                   *)
(***************************************************************************)
ReductionsExact ==
  returned =>
    /\ call.fn = "fDiv" => DivisionExact(call.a, call.b, result)
    /\ call.fn = "fExp2" => PowerExact(call.x, result)
    /\ call.fn = "fExp" => PowerExact(Times(call.x, MATH_LOG2_E), result)
    /\ call.fn = "fExp10" => PowerExact(Times(call.x, MATH_LOG2_10), result)
    /\ call.fn = "fLog2" => LogarithmExact(call.x, result)
    /\ call.fn = "fAtan2" => AngleExact(call.y, call.x, result)
    /\ call.fn = "fAsin" => /\ AngleExact(call.x, call.root, result)
                            /\ fAbs(result.base) < 2
    /\ call.fn = "fAcos" => /\ AngleExact(call.root, call.x, result)
                            /\ result.base >= 0
    /\ call.fn = "fCos" => CosineExact(call.x.steps, result)
    /\ call.fn = "fSin" => CosineExact(call.x.steps - QuarterTurn, result)
    /\ call.fn = "fTan" => /\ CosineExact(call.x.steps - QuarterTurn, result.num)
                           /\ CosineExact(call.x.steps, result.den)
    /\ call.fn = "fCot" => /\ CosineExact(call.x.steps, result.num)
                           /\ CosineExact(call.x.steps - QuarterTurn, result.den)

Close(x, y, distance) == x - y \in -distance .. distance

\* The constant terms make these values, and the others follow from the laws
\* of the functions: of the power, the logarithm, the arc tangent and the
\* cosine.  Grid is 0 .. GridSize.
GridSize == CHOOSE n \in Grid : \A m \in Grid : m <= n
PolynomialsClose(j, k) ==
  LET Point(m) == (m * Fine) \div GridSize
      E(x) == fExp2_65(x) \div 2
      L(n, d) == fLog2_65((n * Coarse) \div d)
      A(n, d) == fatan_70((n * Fine) \div d)
      Pi == 12868                         \* a quarter of it
      C(m) == fCos_73((m * Pi) \div GridSize)
      N == GridSize
  IN /\ Close(E(0), One, 1) /\ Close(E(Fine), 2 * One, 3)
     /\ j + k <= N =>
          Close((E(Point(j)) * E(Point(k))) \div One, E(Point(j) + Point(k)), 5)
     /\ Close(L(1, 2), -Coarse, 8) /\ Close(L(1, 1), 0, 8)
     /\ (N + j) * (N + k) >= 2 * N * N =>
          Close(L(N + j, 2 * N) + L(N + k, 2 * N), L((N + j) * (N + k), 4 * N * N), 8)
     /\ Close(A(j, N) + A(N - j, N + j), 2 * Pi, 10)
     /\ Close(C(0), Fine, 1) /\ Close(C(2 * N), 0, 10)
     /\ Close(C(2 * j), (C(j) * C(j)) \div One - Fine, 16)

(***************************************************************************)
(* Newton's iteration ends close to the reciprocal and to the inverse root *)
(* from every estimate it starts at, and each polynomial is close to its   *)
(* function over the interval it is used on.                               *)
(***************************************************************************)
ApproximationsClose ==
  returned =>
    /\ call.fn = "fDiv" => \/ result.special
                           \/ Close((Significand(call.b) * result.x) \div One, One, 3)
    /\ call.fn = "fSqrt" => \/ result.special
                            \/ ~Normal(call.x)
                            \/ Close(result.x, One, 4)
    /\ call.fn = "polynomials" => PolynomialsClose(call.j, call.k)

-----------------------------------------------------------------------------
(* Regions.                                                                *)

(***************************************************************************)
(* Under the settings main.c makes for a task, the core lets it reach its  *)
(* own stack, its own instructions and the first region, in which lie the  *)
(* peripherals, the common memory and the code of the firmware that is not *)
(* marked privileged, and nothing else: nothing of the other task, and of  *)
(* the kernel neither privileged functions and data nor the stack.  The    *)
(* kernel itself reaches everything.                                       *)
(* A region of a power of two covers exactly that many words.  Under the   *)
(* rules of mseccfg.mml, which the firmware does not use, neither level of *)
(* privilege executes what the other may write, and machine mode executes  *)
(* nothing that can be written.                                            *)
(***************************************************************************)
TasksIsolated ==
  returned =>
    /\ call.fn = "pmp" => Isolated(call.l, call.t, call.priv, call.a, call.type)
    /\ call.fn = "napot" =>
         (result <=> call.word \in call.base .. call.base + call.size - 1)
    /\ call.fn = "mml" =>
         \A p \in {"U", "M"}, q \in {"U", "M"} :
           <<p, "exec">> \in result /\ <<q, "write">> \in result => p = "U" /\ q = "U"
=============================================================================
