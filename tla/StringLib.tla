----------------------------- MODULE StringLib -----------------------------
(***************************************************************************)
(* The string library (qprintf.c) and the number printing of the kernel    *)
(* (io.h), as functions from the arguments of a call to what it prints or  *)
(* returns.  A printed text is a sequence of characters, a character a     *)
(* string of length one; memory is a function from addresses to bytes.     *)
(*                                                                         *)
(* A format ends after a conversion or a literal: one that breaks off in   *)
(* the flags or the width of a conversion makes qprint run past its end.   *)
(***************************************************************************)
EXTENDS Integers, SequencesExt

CONSTANTS
  IntBits,    (* bits of an int: 32 in the code *)
  ByteBits,   (* bits of a byte of a string: 8 there *)
  WordBytes   (* bytes of an unsigned long: 4 there *)

ASSUME StringLibAssumption ==
  /\ IntBits \in Nat /\ IntBits % 4 = 0 /\ IntBits \in 5 .. 32
  /\ ByteBits \in Nat \ {0} /\ WordBytes \in Nat \ {0}

DigitsLower == <<"0", "1", "2", "3", "4", "5", "6", "7",
                 "8", "9", "a", "b", "c", "d", "e", "f">>
DigitsUpper == <<"0", "1", "2", "3", "4", "5", "6", "7",
                 "8", "9", "A", "B", "C", "D", "E", "F">>
Null == <<"NULL">>          \* a string argument that is no string
NULL == -1                  \* an address that is none

-----------------------------------------------------------------------------
(* Division by ten without a divider.                                      *)

\* 0.8 n by adding shifts, then an eighth of it, then the remainder repairs.
divu10(n) ==
  LET q1 == n \div 2 + n \div 4
      q2 == q1 + q1 \div 16
      q3 == q2 + q2 \div 256
      q4 == q3 + q3 \div 65536
      q == q4 \div 8
      r == n - q * 10
  IN q + (r + 6) \div 16

remu10_table == <<0, 1, 2, 2, 3, 3, 4, 5, 5, 6, 7, 7, 8, 8, 9, 0>>

\* The top four bits of n * 2^IntBits / 10, cut to IntBits, tell the remainder.
remu10_Wrong(n) ==      \* the second correction of the multiplier is left out
  LET m == ((2^IntBits \div 10) * n + n \div 2) % 2^IntBits
  IN remu10_table[1 + (m \div 2^(IntBits - 4))]
remu10(n) ==
  LET m == ((2^IntBits \div 10) * n + n \div 2 + n \div 8) % 2^IntBits
  IN remu10_table[1 + (m \div 2^(IntBits - 4))]

-----------------------------------------------------------------------------
(* printf.                                                                 *)

\* string in a field of that width, filled with zeros or blanks.
qprints(string, width, pad) ==
  LET missing == IF width > Len(string) THEN width - Len(string) ELSE 0
      filling == [k \in 1 .. missing |->
                    IF "PAD_ZERO" \in pad THEN "0" ELSE " "]
  IN IF "PAD_RIGHT" \in pad THEN string \o filling ELSE filling \o string

\* The digits of u, the last one first found.
Decimal(u) ==
  LET s[v \in Nat] == IF v = 0 THEN <<>>
                      ELSE Append(s[divu10(v)], DigitsLower[1 + remu10(v)])
  IN s[u]

Hexadecimal(u, digits) ==
  LET s[v \in Nat] == IF v = 0 THEN <<>>
                      ELSE Append(s[v \div 16], digits[1 + (v % 16)])
  IN s[u]

\* i is taken as a signed int when sg, and as an unsigned one otherwise; the
\* most negative one is its own negation, which unsigned is its magnitude.
qprinti(i, b, sg, width, pad, digits) ==
  LET neg == sg /\ b = 10 /\ i < 0
      u == (IF neg THEN -i ELSE i) % 2^IntBits
      s == IF b = 16 THEN Hexadecimal(u, digits) ELSE Decimal(u)
  IN IF i = 0 THEN qprints(<<"0">>, width, pad)
     ELSE IF ~neg THEN qprints(s, width, pad)
     ELSE IF width # 0 /\ "PAD_ZERO" \in pad
     THEN <<"-">> \o qprints(s, width - 1, pad)
     ELSE qprints(<<"-">> \o s, width, pad)

Specifiers == {"s", "d", "u", "x", "X", "c"}

\* What a conversion prints of its argument.  An unknown one prints nothing.
Conversion(c, arg, width, pad) ==
  CASE c = "s" -> qprints(IF arg = Null THEN <<"(", "n", "u", "l", "l", ")">>
                                        ELSE arg, width, pad)
    [] c = "d" -> qprinti(arg, 10, TRUE, width, pad, DigitsLower)
    [] c = "u" -> qprinti(arg, 10, FALSE, width, pad, DigitsLower)
    [] c = "x" -> qprinti(arg, 16, FALSE, width, pad, DigitsLower)
    [] c = "X" -> qprinti(arg, 16, FALSE, width, pad, DigitsUpper)
    [] c = "c" -> qprints(arg, width, pad)
    [] OTHER -> <<>>

DecimalDigits == {DigitsLower[k] : k \in 1 .. 10}
Value(c) == CHOOSE v \in 0 .. 9 : DigitsLower[v + 1] = c

At(format, i) == IF i \in DOMAIN format THEN format[i] ELSE "NUL"
\* The first character from i on that is none of these.
EndOf(format, i, chars) ==
  CHOOSE j \in i .. Len(format) + 1 :
    At(format, j) \notin chars /\ \A m \in i .. j - 1 : At(format, m) \in chars
Width(format, i, j) ==
  LET width[m \in i .. j] ==
        IF m = i THEN 0 ELSE 10 * width[m - 1] + Value(At(format, m - 1))
  IN width[j]

\* The format from its i-th character on, with va from its k-th argument on.
qprint(format, va) ==
  LET out[i \in Nat] == [k \in Nat |->
        IF At(format, i) = "NUL" THEN <<>>
        ELSE IF At(format, i) # "%" THEN <<At(format, i)>> \o out[i + 1][k]
        ELSE IF At(format, i + 1) = "NUL" THEN <<>>
        ELSE IF At(format, i + 1) = "%" THEN <<"%">> \o out[i + 2][k]
        ELSE LET f == IF At(format, i + 1) = "-" THEN i + 2 ELSE i + 1
                 w == EndOf(format, f, {"0"})
                 c == EndOf(format, w, DecimalDigits)
                 pad == (IF f > i + 1 THEN {"PAD_RIGHT"} ELSE {})
                        \cup (IF w > f THEN {"PAD_ZERO"} ELSE {})
             IN Conversion(At(format, c), va[k], Width(format, w, c), pad)
                \o out[c + 1][IF At(format, c) \in Specifiers THEN k + 1 ELSE k]]
  IN out[1][1]

\* Every character goes to putchar and is counted once.
printf(format, va) == [out |-> qprint(format, va), pc |-> Len(qprint(format, va))]

\* The line feed it adds is not counted.
puts(s) == [out |-> Append(s, "\n"), pc |-> Len(s)]

\* The kernel's own, with the division of the compiler.
write_uart_int(value) ==
  LET digits[v \in Nat] == IF v = 0 THEN <<>>
                           ELSE Append(digits[v \div 10], DigitsLower[1 + (v % 10)])
  IN IF value = 0 THEN <<"0">> ELSE digits[value]

write_uart_hex(value) ==
  IF value = 0 THEN <<"0">> ELSE Hexadecimal(value, DigitsUpper)

-----------------------------------------------------------------------------
(* Strings in memory.  mem is a function on addresses from zero on.        *)

Base == 2^ByteBits
Word(mem, a) ==
  LET sum[j \in 0 .. WordBytes] ==
        IF j = 0 THEN 0 ELSE sum[j - 1] + mem[a + j - 1] * 2^(ByteBits * (j - 1))
  IN sum[WordBytes]

Bit(x, k) == (x \div 2^k) % 2
Ones == Word([x \in 0 .. WordBytes - 1 |-> 1], 0)
HighBits == {ByteBits * (j + 1) - 1 : j \in 0 .. WordBytes - 1}

\* (X - 0x01..01) & ~X & 0x80..80 is not zero.
DETECTNULL_Wrong(x) ==   \* without the "& ~X"
  \E k \in HighBits : Bit((x - Ones) % 2^(ByteBits * WordBytes), k) = 1
DETECTNULL(x) ==
  \E k \in HighBits : Bit((x - Ones) % 2^(ByteBits * WordBytes), k) = 1 /\ Bit(x, k) = 0

UNALIGNED(a1, a2) == a1 % WordBytes # 0 \/ a2 % WordBytes # 0

\* How far the word-wise loop comes before two words differ, or the end if
\* it comes to a word with a zero byte first.
strcmp(mem1, a1, mem2, a2) ==
  LET words[n \in Nat] ==
        IF Word(mem1, a1 + n) # Word(mem2, a2 + n) THEN n
        ELSE IF DETECTNULL(Word(mem1, a1 + n)) THEN -1
        ELSE words[n + WordBytes]
      bytes[n \in Nat] ==
        IF mem1[a1 + n] # 0 /\ mem1[a1 + n] = mem2[a2 + n] THEN bytes[n + 1]
        ELSE mem1[a1 + n] - mem2[a2 + n]
      start == IF UNALIGNED(a1, a2) THEN 0 ELSE words[0]
  IN IF start = -1 THEN 0 ELSE bytes[start]

strlen(mem, a) ==
  LET len[n \in Nat] == IF mem[a + n] = 0 THEN n ELSE len[n + 1]
  IN IF a = NULL THEN 0 ELSE len[0]

memset(mem, a, val, length) ==
  [x \in DOMAIN mem |-> IF x \in a .. a + length - 1 THEN val ELSE mem[x]]

\* The terminator of the source is not copied.
strcpy(mem1, a1, mem2, a2) ==
  [x \in DOMAIN mem1 |-> IF x \in a1 .. a1 + strlen(mem2, a2) - 1
                         THEN mem2[a2 + x - a1] ELSE mem1[x]]
=============================================================================
