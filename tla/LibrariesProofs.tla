-------------------------- MODULE LibrariesProofs --------------------------
(***************************************************************************)
(* The pure functions: tasks are isolated by the regions main.c sets up    *)
(* for them, for every layout the linker script can produce and every      *)
(* address; the division of the string library is exact, and so is all     *)
(* that the mathematical library does around its polynomials; strings are  *)
(* compared, copied and filled as they should be though a word of them is  *)
(* read at a time; and printf prints the fields its format asks for.       *)
(***************************************************************************)
EXTENDS Libraries, NumberLemmas, SequenceTheorems

\* The configuration bytes of all tasks.
Cfg == [r \in 0 .. N_PMP_REGIONS - 1 |-> pmp_cfg(r)]

\* Division by the size of a word, in the terms the provers reason in.
LEMMA Words == ASSUME NEW a \in Nat
               PROVE  /\ a \div 4 \in Nat
                      /\ 4 * (a \div 4) <= a /\ a < 4 * (a \div 4) + 4
                      /\ a % 4 = 0 => 4 * (a \div 4) = a
BY SMT

\* What Layouts says of the addresses a task is concerned with.
LEMMA LayoutFacts ==
  ASSUME NEW l \in Layouts, NEW t \in DemoTasks
  PROVE  /\ l.uart \in Nat /\ l.common_end \in Nat
         /\ l.text_begin[t] \in Nat /\ l.text_end[t] \in Nat
         /\ l.stack_begin[t] \in Nat /\ l.stack_end[t] \in Nat
         /\ l.uart <= l.common_end /\ l.common_end <= l.text_begin[t]
         /\ l.text_begin[t] <= l.text_end[t] /\ l.text_end[t] <= l.stack_begin[t]
         /\ l.stack_begin[t] <= l.stack_end[t]
         /\ l.uart % 4 = 0
         /\ l.text_begin[t] % 4 = 0 /\ l.text_end[t] % 4 = 0
         /\ l.stack_begin[t] % 4 = 0 /\ l.stack_end[t] % 4 = 0
<1>1. /\ l.uart \in Nat /\ l.common_end \in Nat /\ l.kernel_end \in Nat
      /\ l.peripherals_end \in Nat /\ l.code_begin \in Nat /\ l.code_end \in Nat
      /\ l.kernel_begin \in Nat
      /\ l.text_begin \in [DemoTasks -> Nat] /\ l.text_end \in [DemoTasks -> Nat]
      /\ l.stack_begin \in [DemoTasks -> Nat] /\ l.stack_end \in [DemoTasks -> Nat]
      /\ Ordered(l) /\ WholeWords(l)
  BY DEF Layouts
<1>2. 1 \in DemoTasks /\ 2 \in DemoTasks
  BY DEF DemoTasks
<1>3. /\ l.text_begin[1] \in Nat /\ l.text_end[1] \in Nat
      /\ l.stack_begin[1] \in Nat /\ l.stack_end[1] \in Nat
      /\ l.text_begin[2] \in Nat /\ l.text_end[2] \in Nat
      /\ l.stack_begin[2] \in Nat /\ l.stack_end[2] \in Nat
  BY <1>1, <1>2
<1>4. CASE t = 1
  BY <1>1, <1>3, <1>4 DEF Ordered, WholeWords, DemoTasks
<1>5. CASE t = 2
  BY <1>1, <1>3, <1>5 DEF Ordered, WholeWords, DemoTasks
<1> QED
  BY <1>4, <1>5 DEF DemoTasks

\* What the task does not own is denied to it, and what the tasks share is of
\* its own.
LEMMA SectionsApart ==
  ASSUME NEW l \in Layouts, NEW t \in DemoTasks, NEW a \in Nat, NEW type \in Accesses
  PROVE  /\ Foreign(l, t, a) => ~Own(l, t, a, type)
         /\ Shared(l, a) => Own(l, t, a, type)
<1>1. /\ l.uart \in Nat /\ l.common_end \in Nat /\ l.kernel_end \in Nat
      /\ l.peripherals_end \in Nat /\ l.code_begin \in Nat /\ l.code_end \in Nat
      /\ l.kernel_begin \in Nat
      /\ l.text_begin \in [DemoTasks -> Nat] /\ l.text_end \in [DemoTasks -> Nat]
      /\ l.stack_begin \in [DemoTasks -> Nat] /\ l.stack_end \in [DemoTasks -> Nat]
      /\ Ordered(l) /\ WholeWords(l)
  BY DEF Layouts
<1>2. /\ l.text_begin[1] \in Nat /\ l.text_end[1] \in Nat
      /\ l.stack_begin[1] \in Nat /\ l.stack_end[1] \in Nat
      /\ l.text_begin[2] \in Nat /\ l.text_end[2] \in Nat
      /\ l.stack_begin[2] \in Nat /\ l.stack_end[2] \in Nat
  BY <1>1 DEF DemoTasks
<1>3. /\ 4 * (l.common_end \div 4) <= l.common_end
      /\ l.code_end <= 4 * (l.common_end \div 4)
      /\ l.peripherals_end <= 4 * (l.common_end \div 4)
  <2>1. l.code_end % 4 = 0 /\ l.peripherals_end <= l.code_end /\ l.code_end <= l.common_end
    BY <1>1 DEF Ordered, WholeWords
  <2>2. /\ 4 * (l.common_end \div 4) <= l.common_end
        /\ l.common_end < 4 * (l.common_end \div 4) + 4
        /\ l.common_end \div 4 \in Nat
        /\ l.code_end \div 4 \in Nat /\ 4 * (l.code_end \div 4) = l.code_end
    BY <1>1, <2>1, Words
  <2> QED
    BY <1>1, <2>1, <2>2
<1>4. Shared(l, a) => Own(l, t, a, type)
  <2>1. l.uart <= l.code_begin
    BY <1>1 DEF Ordered
  <2>2. 4 * (l.common_end \div 4) \in Nat
    BY <1>1, Words
  <2> QED
    BY <1>1, <1>3, <2>1, <2>2 DEF Shared, Own
<1>5. 4 * (l.common_end \div 4) \in Nat /\ 4 * (l.common_end \div 4) <= l.kernel_begin
  BY <1>1, <1>3, Words DEF Ordered
<1>6. CASE t = 1
  <2>1. \A o \in DemoTasks \ {t} : o = 2
    BY <1>6 DEF DemoTasks
  <2> QED
    BY <1>1, <1>2, <1>4, <1>5, <1>6, <2>1 DEF Foreign, Own, Ordered
<1>7. CASE t = 2
  <2>1. \A o \in DemoTasks \ {t} : o = 1
    BY <1>7 DEF DemoTasks
  <2> QED
    BY <1>1, <1>2, <1>4, <1>5, <1>7, <2>1 DEF Foreign, Own, Ordered
<1> QED
  BY <1>6, <1>7 DEF DemoTasks

\* Region 1 is the common memory, 3 the stack and 5 the text of the task, and
\* no other region matches anything.
LEMMA Matching ==
  ASSUME NEW l \in Layouts, NEW t \in DemoTasks, NEW a \in Nat,
         NEW r \in 0 .. N_PMP_REGIONS - 1
  PROVE  region_match(Cfg, pmp_addr(l, t), r, a \div 4) <=>
           \/ r = 1 /\ l.uart <= a /\ a < 4 * (l.common_end \div 4)
           \/ r = 3 /\ l.stack_begin[t] <= a /\ a < l.stack_end[t]
           \/ r = 5 /\ l.text_begin[t] <= a /\ a < l.text_end[t]
<1> DEFINE addr == pmp_addr(l, t)
           word == a \div 4
<1>1. Cfg[r] = pmp_cfg(r)
  BY DEF Cfg
<1>2. {0, 1, 2, 3, 4, 5} \subseteq 0 .. N_PMP_REGIONS - 1
  BY RegionsAssumption
<1>3. /\ addr[0] = l.uart \div 4 /\ addr[1] = l.common_end \div 4
      /\ addr[2] = l.stack_begin[t] \div 4 /\ addr[3] = l.stack_end[t] \div 4
      /\ addr[4] = l.text_begin[t] \div 4 /\ addr[5] = l.text_end[t] \div 4
  BY <1>2 DEF pmp_addr, PMP_ADDR
<1>4. r \in {1, 3, 5} => Cfg[r].mode = "tor"
  BY <1>1 DEF pmp_cfg, PMP_CFG_TOR
<1>5. r \notin {1, 3, 5} => Cfg[r].mode = "off"
  BY <1>1 DEF pmp_cfg, PMP_CFG_DISABLED
<1>6. CASE r \notin {1, 3, 5}
  BY <1>5, <1>6 DEF region_match
<1>7. ASSUME r \in {1, 3, 5}
      PROVE  region_match(Cfg, addr, r, word) <=>
               addr[r - 1] <= word /\ word < addr[r]
  BY <1>4, <1>7 DEF region_match, region_start_addr
<1>8. ASSUME NEW b \in Nat, NEW e \in Nat, b % 4 = 0
      PROVE  b \div 4 <= word /\ word < e \div 4 <=> b <= a /\ a < 4 * (e \div 4)
  BY <1>8, Words
<1>9. ASSUME NEW e \in Nat, e % 4 = 0 PROVE 4 * (e \div 4) = e
  BY <1>9, Words
<1>10. CASE r = 1
  BY <1>3, <1>7, <1>8, <1>10, LayoutFacts
<1>11. CASE r = 3
  <2>1. /\ l.stack_begin[t] \in Nat /\ l.stack_end[t] \in Nat
        /\ l.stack_begin[t] % 4 = 0 /\ l.stack_end[t] % 4 = 0
    BY LayoutFacts
  <2> QED
    BY <2>1, <1>3, <1>7, <1>8, <1>9, <1>11
<1>12. CASE r = 5
  <2>1. /\ l.text_begin[t] \in Nat /\ l.text_end[t] \in Nat
        /\ l.text_begin[t] % 4 = 0 /\ l.text_end[t] % 4 = 0
    BY LayoutFacts
  <2> QED
    BY <2>1, <1>3, <1>7, <1>8, <1>9, <1>12
<1> QED
  BY <1>6, <1>10, <1>11, <1>12

\* What the settings of a region allow: machine mode everything, user mode
\* what the flags say.
LEMMA FlagsAllow ==
  ASSUME NEW priv \in {"U", "M"}, NEW type \in Accesses
  PROVE  /\ ~access_fault_of(Cfg[1], FALSE, priv, type)
         /\ access_fault_of(Cfg[3], FALSE, priv, type) <=> priv = "U" /\ type = "exec"
         /\ access_fault_of(Cfg[5], FALSE, priv, type) <=> priv = "U" /\ type # "exec"
<1>1. {1, 3, 5} \subseteq 0 .. N_PMP_REGIONS - 1
  BY RegionsAssumption
<1>2. /\ Cfg[1] = PMP_CFG_TOR({"read", "write", "exec"})
      /\ Cfg[3] = PMP_CFG_TOR({"read", "write"})
      /\ Cfg[5] = PMP_CFG_TOR({"exec"})
  BY <1>1 DEF Cfg, pmp_cfg
<1> QED
  BY <1>2 DEF access_fault_of, region_basic_perm_check, PMP_CFG_TOR, Accesses

(***************************************************************************)
(* Isolated, for every layout and address: under the settings of a task,   *)
(* user mode reaches the first region, with the peripherals and the        *)
(* firmware's own instructions in it, and the stack and the text of that   *)
(* task, and nothing else: nothing of another task, and of the kernel      *)
(* nothing that is marked privileged.  Machine mode reaches everything     *)
(* (main.c's PMP settings, read by the check of cv32e40s_pmp.sv).          *)
(***************************************************************************)
THEOREM TasksAreIsolated ==
  ASSUME NEW l \in Layouts, NEW t \in DemoTasks, NEW priv \in {"U", "M"},
         NEW a \in Nat, NEW type \in Accesses
  PROVE  Isolated(l, t, priv, a, type)
<1> SUFFICES Denied(l, t, priv, a, type) <=> priv = "U" /\ ~Own(l, t, a, type)
  BY SectionsApart DEF Isolated
<1> DEFINE addr == pmp_addr(l, t)
           word == a \div 4
           matching == {r \in 0 .. N_PMP_REGIONS - 1 : region_match(Cfg, addr, r, word)}
           Faults(r) == access_fault_of(Cfg[r], FALSE, priv, type)
           InCommon == l.uart <= a /\ a < 4 * (l.common_end \div 4)
           InStack == l.stack_begin[t] <= a /\ a < l.stack_end[t]
           InText == l.text_begin[t] <= a /\ a < l.text_end[t]
<1>1. {1, 3, 5} \subseteq 0 .. N_PMP_REGIONS - 1
  BY RegionsAssumption
<1>2. \A r \in 0 .. N_PMP_REGIONS - 1 :
        r \in matching <=> \/ r = 1 /\ InCommon
                           \/ r = 3 /\ InStack
                           \/ r = 5 /\ InText
  <2> TAKE r \in 0 .. N_PMP_REGIONS - 1
  <2>1. region_match(Cfg, addr, r, word) <=> \/ r = 1 /\ InCommon
                                             \/ r = 3 /\ InStack
                                             \/ r = 5 /\ InText
    BY Matching, ZenonT(30)
  <2> HIDE DEF InCommon, InStack, InText, addr, word
  <2> QED
    BY <2>1, Zenon
<1>3. /\ ~(InCommon /\ InStack) /\ ~(InCommon /\ InText) /\ ~(InStack /\ InText)
  BY LayoutFacts, Words
<1>4. Denied(l, t, priv, a, type) <=>
        \/ matching = {} /\ priv # "M"
        \/ \E r \in matching : (\A q \in matching : r <= q) /\ Faults(r)
  <2>1. DOMAIN Cfg = 0 .. N_PMP_REGIONS - 1
    BY DEF Cfg
  <2>2. access_fault_of_none([mml |-> FALSE, mmwp |-> FALSE], priv, type) <=> priv # "M"
    BY DEF access_fault_of_none
  <2> QED
    BY <2>1, <2>2 DEF Denied, pmp_req_err, Cfg
<1>5. /\ ~Faults(1)
      /\ Faults(3) <=> priv = "U" /\ type = "exec"
      /\ Faults(5) <=> priv = "U" /\ type # "exec"
  BY FlagsAllow
<1> HIDE DEF matching, Faults
<1>6. CASE InCommon
  <2>1. matching = {1}
    BY <1>1, <1>2, <1>3, <1>6 DEF matching
  <2>2. Denied(l, t, priv, a, type) <=> FALSE
    BY <1>4, <1>5, <2>1
  <2> QED
    BY <1>6, <2>2 DEF Own
<1>7. CASE InStack
  <2>1. matching = {3}
    BY <1>1, <1>2, <1>3, <1>7 DEF matching
  <2>2. Denied(l, t, priv, a, type) <=> priv = "U" /\ type = "exec"
    BY <1>4, <1>5, <2>1
  <2> QED
    BY <1>3, <1>7, <2>2 DEF Own, Accesses
<1>8. CASE InText
  <2>1. matching = {5}
    BY <1>1, <1>2, <1>3, <1>8 DEF matching
  <2>2. Denied(l, t, priv, a, type) <=> priv = "U" /\ type # "exec"
    BY <1>4, <1>5, <2>1
  <2> QED
    BY <1>3, <1>8, <2>2 DEF Own
<1>9. CASE ~InCommon /\ ~InStack /\ ~InText
  <2>1. matching = {}
    BY <1>2, <1>9 DEF matching
  <2>2. Denied(l, t, priv, a, type) <=> priv # "M"
    BY <1>4, <2>1
  <2> QED
    BY <1>9, <2>2 DEF Own
<1> QED
  BY <1>6, <1>7, <1>8, <1>9

-----------------------------------------------------------------------------
(* Division by ten without a divider.                                      *)

\* The values of an unsigned int of the core.
Unsigned32 == {n \in Nat : n < 4294967296}

(***************************************************************************)
(* divu10 divides every unsigned int of 32 bits by ten: the shifts add up  *)
(* to 0.8 n less what the last bits lose, so that the remainder before the *)
(* repair is below 16.                                                     *)
(***************************************************************************)
THEOREM QuotientByTen ==
  ASSUME NEW n \in Unsigned32
  PROVE  divu10(n) = n \div 10
<1> DEFINE q1 == n \div 2 + n \div 4
           q2 == q1 + q1 \div 16
           q3 == q2 + q2 \div 256
           q4 == q3 + q3 \div 65536
           q == q4 \div 8
           r == n - q * 10
<1>1. divu10(n) = q + (r + 6) \div 16
  BY DEF divu10
<1>2. n \in Nat /\ q1 \in Nat /\ 3 * n - 5 <= 4 * q1 /\ 4 * q1 <= 3 * n
  BY SMT DEF Unsigned32
<1> HIDE DEF q1
<1>3. q2 \in Nat /\ 17 * q1 - 15 <= 16 * q2 /\ 16 * q2 <= 17 * q1
  BY <1>2
<1> HIDE DEF q2
<1>4. q3 \in Nat /\ 257 * q2 - 255 <= 256 * q3 /\ 256 * q3 <= 257 * q2
  BY <1>3
<1> HIDE DEF q3
<1>5. q4 \in Nat /\ 65537 * q3 - 65535 <= 65536 * q4 /\ 65536 * q4 <= 65537 * q3
  BY <1>4
<1> HIDE DEF q4
<1>6. q \in Nat /\ q4 - 7 <= 8 * q /\ 8 * q <= q4
  BY <1>5
<1> HIDE DEF q
<1>7. r \in 0 .. 15
  <2>1. n \in Nat /\ n < 4294967296
    BY SMT DEF Unsigned32
  <2> QED
    BY <2>1, <1>2, <1>3, <1>4, <1>5, <1>6, SMT
<1>8. n = 10 * q + r
  BY <1>2, <1>6
<1> HIDE DEF r
<1>9. CASE r < 10
  BY <1>1, <1>6, <1>7, <1>8, <1>9
<1>10. CASE r >= 10
  BY <1>1, <1>6, <1>7, <1>8, <1>10
<1> QED
  BY <1>7, <1>9, <1>10

\* A power of 16 ends in 6.
LEMMA PowerEndsInSix ==
  /\ 2^IntBits = 16 * 2^(IntBits - 4) /\ 2^(IntBits - 4) \in Nat \ {0}
  /\ 2^IntBits % 10 = 6 /\ 2^(IntBits - 4) >= 16
<1> USE StringLibAssumption
<1>1. ASSUME NEW k \in Nat PROVE 2^(k + 4) = 16 * 2^k
  <2>1. 2^(k + 1) = 2 * 2^k /\ 2^k \in Nat
    BY PowerOfNext
  <2>2. 2^((k + 1) + 1) = 2 * 2^(k + 1)
    BY PowerOfNext
  <2>3. 2^(((k + 1) + 1) + 1) = 2 * 2^((k + 1) + 1)
    BY PowerOfNext
  <2>4. 2^((((k + 1) + 1) + 1) + 1) = 2 * 2^(((k + 1) + 1) + 1)
    BY PowerOfNext
  <2>5. (((k + 1) + 1) + 1) + 1 = k + 4
    OBVIOUS
  <2> QED
    BY <2>1, <2>2, <2>3, <2>4, <2>5
<1>2. IntBits - 4 \in Nat /\ (IntBits - 4) + 4 = IntBits
  OBVIOUS
<1> DEFINE S == {j \in Nat : 2^(4 * j + 4) % 10 = 6}
<1>3. 0 \in S
  <2>1. 2^(0 + 4) = 16 * 2^0
    BY <1>1
  <2>2. 4 * 0 + 4 = 4 /\ 0 + 4 = 4
    OBVIOUS
  <2>3. 2^4 = 16
    BY <2>1, <2>2, PowerOfZero
  <2> QED
    BY <2>2, <2>3
<1>4. ASSUME NEW j \in Nat, j \in S PROVE j + 1 \in S
  <2> DEFINE p == 2^(4 * j + 4)
  <2>1. 4 * (j + 1) + 4 = (4 * j + 4) + 4 /\ 4 * j + 4 \in Nat
    OBVIOUS
  <2>2. 2^((4 * j + 4) + 4) = 16 * p /\ p \in Nat
    BY <1>1, <2>1, PowerOfNext
  <2>3. p % 10 = 6
    BY <1>4
  <2> HIDE DEF p
  <2>4. (16 * p) % 10 = 6
    BY <2>2, <2>3
  <2> QED
    BY <2>1, <2>2, <2>4
<1>5. \E j \in Nat : 4 * j + 4 = IntBits
  <2>1. (IntBits - 4) \div 4 \in Nat /\ 4 * ((IntBits - 4) \div 4) + 4 = IntBits
    OBVIOUS
  <2> QED
    BY <2>1
<1> HIDE DEF S
<1>6. 2^IntBits % 10 = 6
  <2>1. PICK j \in Nat : 4 * j + 4 = IntBits
    BY <1>5
  <2>2. j \in S
    BY <1>3, <1>4, Induct
  <2> QED
    BY <2>1, <2>2 DEF S
<1>7. 2^(IntBits - 4) >= 16
  <2>1. IntBits - 8 \in Nat /\ (IntBits - 8) + 4 = IntBits - 4
    OBVIOUS
  <2>2. 2^(IntBits - 4) = 16 * 2^(IntBits - 8)
    BY <1>1, <2>1
  <2>3. 2^(IntBits - 8) \in Nat \ {0}
    BY <2>1, PowerPositive
  <2> QED
    BY <2>2, <2>3
<1> QED
  BY <1>1, <1>2, <1>6, <1>7, PowerPositive

\* The table, entry by entry.
LEMMA Remainders ==
  ASSUME NEW x \in Nat, NEW d \in 0 .. 9,
         \/ d = 0 /\ x = 0
         \/ d = 1 /\ x = 1
         \/ d = 2 /\ x = 3
         \/ d = 3 /\ x \in {4, 5}
         \/ d = 4 /\ x = 6
         \/ d = 5 /\ x \in {7, 8}
         \/ d = 6 /\ x = 9
         \/ d = 7 /\ x = 11
         \/ d = 8 /\ x \in {12, 13}
         \/ d = 9 /\ x = 14
  PROVE  remu10_table[1 + x] = d
BY DEF remu10_table

(***************************************************************************)
(* remu10 is the remainder by ten of every unsigned int of IntBits bits,   *)
(* although the product it is read from has overflowed.                    *)
(***************************************************************************)
THEOREM RemainderByTen ==
  ASSUME NEW n \in 0 .. 2^IntBits - 1
  PROVE  remu10(n) = n % 10
<1> DEFINE P == 2^IntBits
           e == 2^(IntBits - 4)
           c == P \div 10
           q == n \div 10
           d == n % 10
           x == c * d - q + d \div 2 + n \div 8
<1>1. P = 16 * e /\ e \in Nat \ {0} /\ P % 10 = 6 /\ e >= 16
  BY PowerEndsInSix
<1>2. n \in Nat /\ n < P
  BY <1>1
<1>3. remu10(n) = remu10_table[1 + (((c * n + n \div 2 + n \div 8) % P) \div e)]
  BY DEF remu10
<1> HIDE DEF P, e
<1>4. c \in Nat /\ P = 10 * c + 6
  BY <1>1
<1>5. q \in Nat /\ d \in 0 .. 9 /\ n = 10 * q + d
  BY <1>2
<1> HIDE DEF c, q, d
<1>6. c * n + n \div 2 + n \div 8 = P * q + x
  <2>1. c * n = 10 * (c * q) + c * d
    BY <1>4, <1>5
  <2>2. P * q = 10 * (c * q) + 6 * q
    BY <1>4, <1>5
  <2>3. n \div 2 = 5 * q + d \div 2
    BY <1>5
  <2>4. c * q \in Nat /\ c * d \in Nat /\ n \div 8 \in Nat /\ d \div 2 \in Nat
    BY <1>2, <1>4, <1>5
  <2> QED
    BY <1>4, <1>5, <2>1, <2>2, <2>3, <2>4
<1> DEFINE Place(y) ==
             \/ d = 0 /\ y = 0
             \/ d = 1 /\ y = 1
             \/ d = 2 /\ y = 3
             \/ d = 3 /\ y \in {4, 5}
             \/ d = 4 /\ y = 6
             \/ d = 5 /\ y \in {7, 8}
             \/ d = 6 /\ y = 9
             \/ d = 7 /\ y = 11
             \/ d = 8 /\ y \in {12, 13}
             \/ d = 9 /\ y = 14
<1>7. x \in Nat /\ x < P /\ \E y \in 0 .. 15 : Place(y) /\ y * e <= x /\ x < y * e + e
  <2>1. ASSUME NEW k \in 0 .. 9, d = k
        PROVE  /\ x = c * k - q + k \div 2 + (10 * q + k) \div 8
               /\ 10 * q + k <= 10 * c + 5 /\ 10 * c + 6 = 16 * e
    BY <1>1, <1>2, <1>4, <1>5, <2>1
  <2> HIDE DEF x
  <2>10. CASE d = 0
    <3>1. x \in Nat /\ x < P /\ 0 * e <= x /\ x < 0 * e + e
      BY <1>1, <1>4, <1>5, <2>1, <2>10
    <3>2. Place(0)
      BY <2>10
    <3> QED
      BY <3>1, <3>2
  <2>11. CASE d = 1
    <3>1. x \in Nat /\ x < P /\ 1 * e <= x /\ x < 1 * e + e
      BY <1>1, <1>4, <1>5, <2>1, <2>11
    <3>2. Place(1)
      BY <2>11
    <3> QED
      BY <3>1, <3>2
  <2>12. CASE d = 2
    <3>1. x \in Nat /\ x < P /\ 3 * e <= x /\ x < 3 * e + e
      BY <1>1, <1>4, <1>5, <2>1, <2>12
    <3>2. Place(3)
      BY <2>12
    <3> QED
      BY <3>1, <3>2
  <2>13. CASE d = 3
    <3>1. x \in Nat /\ x < P /\ 4 * e <= x /\ x < 5 * e + e
      BY <1>1, <1>4, <1>5, <2>1, <2>13
    <3>2. CASE x < 4 * e + e
      <4>1. Place(4)
        BY <2>13
      <4> QED
        BY <3>1, <3>2, <4>1
    <3>3. CASE ~(x < 4 * e + e)
      <4>1. 4 * e + e = 5 * e
        BY <1>1
      <4>2. Place(5) /\ 5 * e <= x /\ x < 5 * e + e
        BY <1>1, <2>13, <3>1, <3>3, <4>1
      <4> QED
        BY <3>1, <4>2
    <3> QED
      BY <3>2, <3>3
  <2>14. CASE d = 4
    <3>1. x \in Nat /\ x < P /\ 6 * e <= x /\ x < 6 * e + e
      BY <1>1, <1>4, <1>5, <2>1, <2>14
    <3>2. Place(6)
      BY <2>14
    <3> QED
      BY <3>1, <3>2
  <2>15. CASE d = 5
    <3>1. x \in Nat /\ x < P /\ 7 * e <= x /\ x < 8 * e + e
      BY <1>1, <1>4, <1>5, <2>1, <2>15
    <3>2. CASE x < 7 * e + e
      <4>1. Place(7)
        BY <2>15
      <4> QED
        BY <3>1, <3>2, <4>1
    <3>3. CASE ~(x < 7 * e + e)
      <4>1. 7 * e + e = 8 * e
        BY <1>1
      <4>2. Place(8) /\ 8 * e <= x /\ x < 8 * e + e
        BY <1>1, <2>15, <3>1, <3>3, <4>1
      <4> QED
        BY <3>1, <4>2
    <3> QED
      BY <3>2, <3>3
  <2>16. CASE d = 6
    <3>1. x \in Nat /\ x < P /\ 9 * e <= x /\ x < 9 * e + e
      BY <1>1, <1>4, <1>5, <2>1, <2>16
    <3>2. Place(9)
      BY <2>16
    <3> QED
      BY <3>1, <3>2
  <2>17. CASE d = 7
    <3>1. x \in Nat /\ x < P /\ 11 * e <= x /\ x < 11 * e + e
      BY <1>1, <1>4, <1>5, <2>1, <2>17
    <3>2. Place(11)
      BY <2>17
    <3> QED
      BY <3>1, <3>2
  <2>18. CASE d = 8
    <3>1. x \in Nat /\ x < P /\ 12 * e <= x /\ x < 13 * e + e
      BY <1>1, <1>4, <1>5, <2>1, <2>18
    <3>2. CASE x < 12 * e + e
      <4>1. Place(12)
        BY <2>18
      <4> QED
        BY <3>1, <3>2, <4>1
    <3>3. CASE ~(x < 12 * e + e)
      <4>1. 12 * e + e = 13 * e
        BY <1>1
      <4>2. Place(13) /\ 13 * e <= x /\ x < 13 * e + e
        BY <1>1, <2>18, <3>1, <3>3, <4>1
      <4> QED
        BY <3>1, <4>2
    <3> QED
      BY <3>2, <3>3
  <2>19. CASE d = 9
    <3>1. x \in Nat /\ x < P /\ 14 * e <= x /\ x < 14 * e + e
      BY <1>1, <1>4, <1>5, <2>1, <2>19
    <3>2. Place(14)
      BY <2>19
    <3> QED
      BY <3>1, <3>2
  <2> QED
    BY <1>5, <2>10, <2>11, <2>12, <2>13, <2>14, <2>15, <2>16, <2>17, <2>18, <2>19
<1> HIDE DEF x
<1>8. (P * q + x) % P = x
  <2>1. P \in Nat \ {0} /\ P * q + x \in Nat /\ x \in 0 .. P - 1
    BY <1>1, <1>4, <1>5, <1>7
  <2> QED
    BY <1>5, <2>1, QuotientIs
<1>9. PICK y \in 0 .. 15 : Place(y) /\ y * e <= x /\ x < y * e + e
  BY <1>7
<1>10. x \div e = y
  <2> DEFINE r == x - y * e
  <2>1. y * e = e * y /\ y * e \in Nat
    BY <1>1
  <2>2. r \in 0 .. e - 1 /\ x = e * y + r
    BY <1>1, <1>7, <1>9, <2>1
  <2> HIDE DEF r
  <2> QED
    BY <1>1, <1>7, <2>2, QuotientIs
<1>11. remu10_table[1 + y] = d
  BY <1>5, <1>9, Remainders
<1>12. remu10(n) = d
  BY <1>3, <1>6, <1>8, <1>10, <1>11
<1> QED
  BY <1>12 DEF d

-----------------------------------------------------------------------------
(* Numerals.                                                               *)

\* The recursion of Decimal and that of write_uart_int.
ByShifts(s) ==
  s = [v \in Nat |-> IF v = 0 THEN <<>>
                     ELSE Append(s[divu10(v)], DigitsLower[1 + remu10(v)])]
ByDivision(s) ==
  s = [v \in Nat |-> IF v = 0 THEN <<>>
                     ELSE Append(s[v \div 10], DigitsLower[1 + (v % 10)])]

Shifted == [v \in Nat |-> divu10(v)]
Divided == [v \in Nat |-> v \div 10]
DigitFound == [v \in Nat |-> DigitsLower[1 + remu10(v)]]
DigitDue == [v \in Nat |-> DigitsLower[1 + (v % 10)]]

\* Beyond the range of an int divu10 may be wrong, but it still descends.
LEMMA ShiftsDescend ==
  ASSUME NEW n \in Nat
  PROVE  divu10(n) \in Nat /\ (n # 0 => divu10(n) < n)
<1> DEFINE q1 == n \div 2 + n \div 4
           q2 == q1 + q1 \div 16
           q3 == q2 + q2 \div 256
           q4 == q3 + q3 \div 65536
           q == q4 \div 8
           r == n - q * 10
<1>1. divu10(n) = q + (r + 6) \div 16
  BY DEF divu10
<1>2. q1 \in Nat /\ 4 * q1 <= 3 * n
  OBVIOUS
<1> HIDE DEF q1
<1>3. q2 \in Nat /\ 16 * q2 <= 17 * q1
  BY <1>2
<1> HIDE DEF q2
<1>4. q3 \in Nat /\ 256 * q3 <= 257 * q2
  BY <1>3
<1> HIDE DEF q3
<1>5. q4 \in Nat /\ 65536 * q4 <= 65537 * q3
  BY <1>4
<1> HIDE DEF q4
<1>6. q \in Nat /\ 8 * q <= q4
  BY <1>5
<1> HIDE DEF q
<1>7. 10 * q <= n
  BY <1>2, <1>3, <1>4, <1>5, <1>6
<1>8. r \in Nat /\ n = 10 * q + r
  BY <1>6, <1>7
<1> HIDE DEF r
<1>9. n # 0 => q + (r + 6) \div 16 < n
  BY <1>6, <1>8
<1> QED
  BY <1>1, <1>6, <1>8, <1>9

LEMMA ShiftedNumerals == \E s : ByShifts(s) /\ \A u \in Nat : Decimal(u) = s[u]
<1>1. Shifted \in [Nat -> Nat] /\ \A v \in Nat \ {0} : Shifted[v] < v
  BY ShiftsDescend DEF Shifted
<1>2. PICK t : Descends(t, Shifted, DigitFound)
  BY <1>1, DescentExists
<1>3. ByShifts(t)
  BY <1>2 DEF Descends, Digit, ByShifts, Shifted, DigitFound
<1> DEFINE s == CHOOSE s : ByShifts(s)
<1>4. ByShifts(s)
  BY <1>3
<1>5. \A u \in Nat : Decimal(u) = s[u]
  BY DEF Decimal, ByShifts
<1> QED
  BY <1>4, <1>5

LEMMA DividedNumerals ==
  \E s : ByDivision(s) /\ \A u \in Nat \ {0} : write_uart_int(u) = s[u]
<1>1. Divided \in [Nat -> Nat] /\ \A v \in Nat \ {0} : Divided[v] < v
  BY DEF Divided
<1>2. PICK t : Descends(t, Divided, DigitDue)
  BY <1>1, DescentExists
<1>3. ByDivision(t)
  BY <1>2 DEF Descends, Digit, ByDivision, Divided, DigitDue
<1> DEFINE s == CHOOSE s : ByDivision(s)
<1>4. ByDivision(s)
  BY <1>3
<1>5. \A u \in Nat \ {0} : write_uart_int(u) = s[u]
  BY DEF write_uart_int, ByDivision
<1> QED
  BY <1>4, <1>5

\* A field of no width is not filled.
LEMMA NoFilling == [k \in 1 .. 0 |-> " "] = <<>>
OBVIOUS

LEMMA NotFilled ==
  ASSUME NEW C, NEW str \in Seq(C)
  PROVE  qprints(str, 0, {}) = str
<1>1. ~(0 > Len(str))
  OBVIOUS
<1>2. qprints(str, 0, {}) = [k \in 1 .. 0 |-> " "] \o str
  BY <1>1, Zenon DEF qprints
<1>3. <<>> \o str = str
  OBVIOUS
<1> QED
  BY <1>2, <1>3, NoFilling, Zenon

\* What a numeral found by division is made of.
LEMMA DigitsOfTen ==
  ASSUME NEW u \in Nat \ {0}
  PROVE  write_uart_int(u) \in Seq(DecimalDigits)
<1>1. PICK t : ByDivision(t) /\ \A v \in Nat \ {0} : write_uart_int(v) = t[v]
  BY DividedNumerals
<1>2. Collects(u, t, Divided, DigitDue)
  <2>1. \A v \in Nat : t[v] = IF v = 0 THEN <<>>
                        ELSE Append(t[v \div 10], DigitsLower[1 + (v % 10)])
    BY <1>1, Zenon DEF ByDivision
  <2>2. \A v \in 0 .. u : v \in Nat
    OBVIOUS
  <2> QED
    BY <2>1, <2>2, Zenon DEF Collects, Digit, Divided, DigitDue
<1>3. \A v \in 1 .. u : DigitDue[v] \in DecimalDigits /\ Divided[v] \in 0 .. v - 1
  <2> TAKE v \in 1 .. u
  <2>1. v \in Nat /\ 1 + (v % 10) \in 1 .. 10 /\ v \div 10 \in 0 .. v - 1
    OBVIOUS
  <2> QED
    BY <2>1, Zenon DEF DigitDue, Divided, DecimalDigits
<1> QED
  BY <1>1, <1>2, <1>3, DescentIsSeq

\* An int has at most 32 bits.
LEMMA IntsOf32 == 2^IntBits \in Nat /\ \A u \in 0 .. 2^IntBits - 1 : u \in Unsigned32
<1>1. 2^8 = 256
  <2>1. 2^1 = 2
    <3>1. 2^(0 + 1) = 2 * 2^0 /\ 0 + 1 = 1
      BY PowerOfNext
    <3> QED
      BY <3>1, PowerOfZero
  <2>2. 2^(1 + 1) = 2^1 * 2^1 /\ 1 + 1 = 2
    BY PowerOfSum
  <2>3. 2^(2 + 2) = 2^2 * 2^2 /\ 2 + 2 = 4
    BY PowerOfSum
  <2>4. 2^(4 + 4) = 2^4 * 2^4 /\ 4 + 4 = 8
    BY PowerOfSum
  <2> QED
    BY <2>1, <2>2, <2>3, <2>4
<1>2. 2^16 = 65536
  <2>1. 2^(8 + 8) = 2^8 * 2^8 /\ 8 + 8 = 16
    BY PowerOfSum
  <2> QED
    BY <1>1, <2>1
<1>3. 2^32 = 4294967296
  <2>1. 2^(16 + 16) = 2^16 * 2^16 /\ 16 + 16 = 32
    BY PowerOfSum
  <2> QED
    BY <1>2, <2>1
<1>4. PICK c \in Nat \ {0} : 2^32 = 2^IntBits * c
  <2>1. IntBits \in Nat /\ 32 \in Nat /\ IntBits <= 32
    BY StringLibAssumption
  <2> QED
    BY <2>1, PowerDivides
<1>5. 2^IntBits \in Nat
  BY StringLibAssumption, PowerPositive
<1> DEFINE P == 2^IntBits
<1>6. P * 1 <= P * c
  BY <1>4, <1>5, TimesMonotone
<1>7. P <= 4294967296 /\ P \in Nat
  BY <1>3, <1>4, <1>5, <1>6
<1> HIDE DEF P
<1>8. \A u \in 0 .. P - 1 : u \in Unsigned32
  BY <1>7, SMT DEF Unsigned32
<1> QED
  BY <1>7, <1>8, SMT DEF P

\* Dividing by shifts finds the same digits.
LEMMA SameNumerals ==
  ASSUME NEW u \in 1 .. 2^IntBits - 1
  PROVE  Decimal(u) = write_uart_int(u)
<1>1. u \in Nat /\ u # 0 /\ u < 2^IntBits /\ 2^IntBits \in Nat
  BY IntsOf32
<1>2. PICK s : ByShifts(s) /\ \A v \in Nat : Decimal(v) = s[v]
  BY ShiftedNumerals
<1>3. PICK t : ByDivision(t) /\ \A v \in Nat \ {0} : write_uart_int(v) = t[v]
  BY DividedNumerals
<1>4. SameBelow(u, Shifted, DigitFound, Divided, DigitDue)
  <2> SUFFICES ASSUME NEW v \in 1 .. u
               PROVE  /\ divu10(v) = v \div 10 /\ remu10(v) = v % 10
                      /\ divu10(v) \in 0 .. v - 1
    BY <1>1 DEF SameBelow, Shifted, DigitFound, Divided, DigitDue
  <2>1. v \in Nat /\ v # 0 /\ v \in 0 .. 2^IntBits - 1
    BY <1>1
  <2>2. v \in Unsigned32
    BY <2>1, IntsOf32, Zenon
  <2> QED
    BY <2>1, <2>2, QuotientByTen, RemainderByTen, ShiftsDescend
<1>5. Collects(u, s, Shifted, DigitFound)
  <2>1. \A v \in Nat : s[v] = IF v = 0 THEN <<>>
                        ELSE Append(s[divu10(v)], DigitsLower[1 + remu10(v)])
    BY <1>2, Zenon DEF ByShifts
  <2>2. \A v \in 0 .. u : v \in Nat
    BY <1>1
  <2> QED
    BY <2>1, <2>2, Zenon DEF Collects, Digit, Shifted, DigitFound
<1>6. Collects(u, t, Divided, DigitDue)
  <2>1. \A v \in Nat : t[v] = IF v = 0 THEN <<>>
                        ELSE Append(t[v \div 10], DigitsLower[1 + (v % 10)])
    BY <1>3, Zenon DEF ByDivision
  <2>2. \A v \in 0 .. u : v \in Nat
    BY <1>1
  <2> QED
    BY <2>1, <2>2, Zenon DEF Collects, Digit, Divided, DigitDue
<1>7. s[u] = t[u]
  BY <1>1, <1>4, <1>5, <1>6, SameDescent
<1> QED
  BY <1>1, <1>2, <1>3, <1>7

(***************************************************************************)
(* printf("%u") of the library, which divides by shifting, prints what     *)
(* write_uart_int of the kernel prints, which divides: for every int.      *)
(***************************************************************************)
THEOREM NumeralsAgree ==
  ASSUME NEW u \in 0 .. 2^IntBits - 1
  PROVE  qprinti(u, 10, FALSE, 0, {}, DigitsLower) = write_uart_int(u)
<1>1. u \in Nat /\ u < 2^IntBits /\ 2^IntBits \in Nat
  BY PowerEndsInSix
<1>2. CASE u = 0
  <2>1. <<"0">> \in Seq({"0"})
    OBVIOUS
  <2>2. qprinti(u, 10, FALSE, 0, {}, DigitsLower) = qprints(<<"0">>, 0, {})
    BY <1>2, Zenon DEF qprinti
  <2>3. write_uart_int(u) = <<"0">>
    BY <1>2, Zenon DEF write_uart_int
  <2> QED
    BY <2>1, <2>2, <2>3, NotFilled, Zenon
<1>3. CASE u # 0
  <2>1. u \in 1 .. 2^IntBits - 1 /\ u \in Nat \ {0} /\ u % 2^IntBits = u
    BY <1>1, <1>3
  <2>2. qprinti(u, 10, FALSE, 0, {}, DigitsLower) = qprints(Decimal(u), 0, {})
    BY <1>1, <1>3, <2>1 DEF qprinti
  <2> QED
    BY <2>1, <2>2, SameNumerals, DigitsOfTen, NotFilled
<1> QED
  BY <1>2, <1>3

-----------------------------------------------------------------------------
(* Regions of a power of two.                                              *)

\* A number that ends in k - 1 ones and a zero names the block of 2^k words
\* it lies in.
LEMMA BlockOfNapot ==
  ASSUME NEW k \in 1 .. AddressBits, NEW n \in Nat
  PROVE  LET a == n * 2^k + 2^k \div 2 - 1
         IN a \in Nat /\ Block(a) = 2^k /\ a \div 2^k = n
<1> USE RegionsAssumption
<1> DEFINE h == 2^(k - 1)
           a == n * 2^k + 2^k \div 2 - 1
           Sizes == {2^j : j \in 1 .. AddressBits + 1}
           Ends(m) == a % m = m \div 2 - 1
<1>1. k - 1 \in Nat /\ (k - 1) + 1 = k /\ k \in Nat /\ k \in 1 .. AddressBits + 1
  OBVIOUS
<1>2. h \in Nat \ {0} /\ 2^k = 2 * h
  BY <1>1, PowerPositive, PowerOfNext
<1> HIDE DEF h
<1>3. 2^k \in Nat \ {0} /\ 2^k \div 2 = h /\ n * 2^k = (2 * h) * n /\ (2 * h) * n \in Nat
  BY <1>2
<1>4. a = (2 * h) * n + (h - 1) /\ a \in Nat /\ h - 1 \in 0 .. 2 * h - 1
  BY <1>2, <1>3
<1> HIDE DEF a
<1>5. a \div 2^k = n /\ a % 2^k = h - 1
  BY <1>2, <1>3, <1>4, QuotientIs
<1>6. 2^k \in Sizes /\ Ends(2^k)
  BY <1>1, <1>3, <1>5
<1>7. ASSUME NEW j \in 1 .. AddressBits + 1, j < k PROVE ~Ends(2^j)
  <2> DEFINE m == 2^j
  <2>1. PICK c \in Nat \ {0} : 2^(k - 1) = 2^j * c
    BY <1>1, <1>7, PowerDivides
  <2>2. m \in Nat \ {0} /\ h = m * c
    BY <2>1, PowerPositive DEF h
  <2>3. m >= 2
    <3>1. j - 1 \in Nat /\ (j - 1) + 1 = j
      OBVIOUS
    <3>2. 2^j = 2 * 2^(j - 1) /\ 2^(j - 1) \in Nat \ {0}
      BY <3>1, PowerOfNext, PowerPositive
    <3> QED
      BY <3>2
  <2> HIDE DEF m
  <2> DEFINE d == 2 * (c * n) + c - 1
  <2>4. d \in Nat
    BY <2>1
  <2>5. m * d = 2 * (m * (c * n)) + m * c - m
    BY <2>2
  <2>6. (2 * h) * n = 2 * (m * (c * n))
    BY <2>2
  <2>7. m * (c * n) \in Nat /\ m * c \in Nat
    BY <2>2
  <2> HIDE DEF d
  <2>8. a = m * d + (m - 1) /\ m - 1 \in 0 .. m - 1
    BY <1>4, <2>2, <2>4, <2>5, <2>6, <2>7
  <2>9. a % m = m - 1
    <3>1. a \in Nat /\ m \in Nat \ {0}
      BY <1>4, <2>2
    <3> QED
      BY <2>4, <2>8, <3>1, QuotientIs
  <2>10. m - 1 # m \div 2 - 1
    BY <2>2, <2>3
  <2> QED
    BY <2>9, <2>10 DEF m
<1>8. ASSUME NEW j \in 1 .. AddressBits + 1, k < j PROVE ~Ends(2^j)
  <2> SUFFICES ASSUME Ends(2^j) PROVE FALSE
    OBVIOUS
  <2> DEFINE m == 2^j
  <2>1. PICK c \in Nat \ {0} : 2^(j - 1) = 2^k * c
    <3>1. j - 1 \in Nat /\ k <= j - 1
      BY <1>1, <1>8
    <3> QED
      BY <1>1, <3>1, PowerDivides
  <2>2. m = 2 * ((2 * h) * c) /\ m \in Nat \ {0} /\ m \div 2 = (2 * h) * c
    <3>1. j - 1 \in Nat /\ (j - 1) + 1 = j /\ j \in Nat
      OBVIOUS
    <3>2. m = 2 * 2^(j - 1) /\ 2^(j - 1) \in Nat
      BY <3>1, PowerOfNext, PowerPositive
    <3>3. m \in Nat \ {0}
      BY <3>1, PowerPositive
    <3> HIDE DEF m
    <3> QED
      BY <1>2, <2>1, <3>2, <3>3
  <2>3. a % m = m \div 2 - 1
    OBVIOUS
  <2> HIDE DEF m
  <2> DEFINE q == a \div m
             d == 2 * (c * q) + c
  <2>4. q \in Nat /\ a = m * q + ((2 * h) * c - 1)
    <3>1. a \in Nat /\ m \in Nat \ {0}
      BY <1>4, <2>2
    <3>2. q \in Nat /\ a = m * q + (a % m)
      BY <3>1, Division
    <3> HIDE DEF q
    <3> QED
      BY <2>2, <2>3, <3>2
  <2> HIDE DEF q
  <2>5. d \in Nat
    BY <2>1, <2>4
  <2>6. a + 1 = (2 * h) * d + 0
    <3>1. m * q = 2 * ((2 * h) * (c * q))
      BY <1>2, <2>1, <2>2, <2>4
    <3>2. (2 * h) * d = 2 * ((2 * h) * (c * q)) + (2 * h) * c
      BY <1>2, <2>1, <2>4
    <3>3. (2 * h) * (c * q) \in Nat /\ (2 * h) * c \in Nat
      BY <1>2, <2>1, <2>4
    <3> HIDE DEF d
    <3> QED
      BY <1>4, <2>4, <2>5, <3>1, <3>2, <3>3
  <2> HIDE DEF d
  <2>7. (a + 1) % (2 * h) = 0
    BY <1>2, <1>4, <2>5, <2>6, QuotientIs
  <2>8. a + 1 = (2 * h) * n + h /\ h \in 0 .. 2 * h - 1 /\ a + 1 \in Nat /\ 2 * h \in Nat \ {0}
    BY <1>2, <1>3, <1>4
  <2>9. (a + 1) % (2 * h) = h
    BY <2>8, QuotientIs
  <2> QED
    BY <1>2, <2>7, <2>9
<1>9. \A m \in Sizes : Ends(m) => m = 2^k
  <2> TAKE m \in Sizes
  <2>1. PICK j \in 1 .. AddressBits + 1 : m = 2^j
    OBVIOUS
  <2>2. j < k \/ j = k \/ k < j
    BY <1>1
  <2> QED
    BY <1>7, <1>8, <2>1, <2>2
<1>10. Block(a) = CHOOSE m \in Sizes : Ends(m)
  BY DEF Block
<1> HIDE DEF Sizes, Ends
<1>11. Block(a) = 2^k
  BY <1>6, <1>9, <1>10
<1> QED
  BY <1>4, <1>5, <1>11 DEF a

LEMMA NapotCovers ==
  ASSUME NEW k \in 1 .. AddressBits, NEW n \in Nat, NEW word \in Nat
  PROVE  region_match([r \in {0} |-> [mode |-> "napot", flags |-> {}, lock |-> FALSE]],
                      [r \in {0} |-> n * 2^k + 2^k \div 2 - 1], 0, word)
           <=> word \in n * 2^k .. n * 2^k + 2^k - 1
<1> DEFINE a == n * 2^k + 2^k \div 2 - 1
           p == 2^k
<1>1. a \in Nat /\ Block(a) = p /\ a \div p = n
  BY BlockOfNapot
<1>2. p \in Nat \ {0}
  BY RegionsAssumption, PowerPositive
<1>3. region_match([r \in {0} |-> [mode |-> "napot", flags |-> {}, lock |-> FALSE]],
                   [r \in {0} |-> a], 0, word)
        <=> word \div Block(a) = a \div Block(a)
  <2> HIDE DEF a
  <2> QED
    BY DEF region_match
<1>4. word \div p = n <=> word \in n * p .. n * p + p - 1
  <2> HIDE DEF p
  <2>1. n * p = p * n /\ p * n \in Nat
    BY <1>2
  <2>2. ASSUME word \div p = n PROVE word \in n * p .. n * p + p - 1
    <3>1. word % p \in 0 .. p - 1 /\ word = p * n + (word % p)
      BY <1>2, <2>2, Division
    <3> QED
      BY <1>2, <2>1, <3>1
  <2>3. ASSUME word \in n * p .. n * p + p - 1 PROVE word \div p = n
    <3> DEFINE r == word - p * n
    <3>1. r \in 0 .. p - 1 /\ word = p * n + r
      BY <1>2, <2>1, <2>3
    <3> HIDE DEF r
    <3> QED
      BY <1>2, <3>1, QuotientIs
  <2> QED
    BY <2>2, <2>3
<1> QED
  BY <1>1, <1>3, <1>4

-----------------------------------------------------------------------------
(***************************************************************************)
(* The reductions of the mathematical library, one lemma to a function.    *)
(***************************************************************************)
AllFloats == [sign : {0, 1}, exp : 0 .. 255, mnt : 0 .. MntSize - 1]

LEMMA AnswerIs ==
  ASSUME NEW value
  PROVE  Answer(value).special /\ Answer(value).value = value
BY DEF Answer

LEMMA PowerIs ==
  ASSUME NEW x, NEW r
  PROVE  /\ r.special /\ r.value = MATH_INF /\ x.num > 127 * x.den => PowerExact(x, r)
         /\ r.special /\ r.value = Zero /\ x.num < -100 * x.den => PowerExact(x, r)
         /\ r.special /\ r.value \notin {MATH_INF, Zero} /\ x.num = 0 => PowerExact(x, r)
         /\ /\ ~r.special
            /\ 0 <= r.arg.num /\ r.arg.num <= r.arg.den
            /\ r.arg.den = x.den /\ r.shift * x.den + r.arg.num = x.num
            /\ r.shift + 126 >= 1
            /\ r.shift + 127 <= 254 /\ (r.arg.num = r.arg.den => r.shift + 128 <= 254)
            => PowerExact(x, r)
<1>1. MATH_INF # Zero
  BY DEF MATH_INF, Zero
<1>2. ASSUME r.special, r.value = MATH_INF, x.num > 127 * x.den PROVE PowerExact(x, r)
  BY <1>1, <1>2 DEF PowerExact
<1>3. ASSUME r.special, r.value = Zero, x.num < -100 * x.den PROVE PowerExact(x, r)
  BY <1>1, <1>3 DEF PowerExact
<1>4. ASSUME r.special, r.value # MATH_INF, r.value # Zero, x.num = 0 PROVE PowerExact(x, r)
  BY <1>4 DEF PowerExact
<1>5. ASSUME ~r.special,
             /\ 0 <= r.arg.num /\ r.arg.num <= r.arg.den
             /\ r.arg.den = x.den /\ r.shift * x.den + r.arg.num = x.num
             /\ r.shift + 126 >= 1
             /\ r.shift + 127 <= 254 /\ (r.arg.num = r.arg.den => r.shift + 128 <= 254)
      PROVE  PowerExact(x, r)
  BY <1>5, Zenon DEF PowerExact
<1> QED
  BY <1>2, <1>3, <1>4, <1>5

\* Division: sign and exponent, and when there is no answer among the numbers.
LEMMA Divides ==
  ASSUME NEW a \in AllFloats, NEW b \in AllFloats
  PROVE  DivisionExact(a, b, fDiv(a, b))
<1> DEFINE sign == (a.sign + b.sign) % 2
           ex == a.exp - b.exp + 127
           r == fDiv(a, b)
<1>1. /\ a.sign \in {0, 1} /\ b.sign \in {0, 1} /\ a.exp \in Int /\ b.exp \in Int
      /\ a.mnt \in Int /\ b.mnt \in Int
  BY DEF AllFloats
<1>2. sign \in {0, 1} /\ (sign = 0 <=> a.sign = b.sign)
  <2>1. CASE a.sign = 0 /\ b.sign = 0
    BY <2>1
  <2>2. CASE a.sign = 1 /\ b.sign = 1
    BY <2>2
  <2>3. CASE a.sign # b.sign
    <3>1. a.sign + b.sign = 1
      BY <1>1, <2>3
    <3> QED
      BY <2>3, <3>1
  <2> QED
    BY <1>1, <2>1, <2>2, <2>3
<1>3. b.exp = 0 => r = Answer(MATH_NAN)
  BY DEF fDiv, IsZero
<1>4. ASSUME Normal(a), Normal(b)
      PROVE  /\ ex < 1 => r = Answer([sign |-> sign, exp |-> 0, mnt |-> 0])
             /\ ex > 254 => r = Answer([sign |-> sign, exp |-> 255, mnt |-> 0])
             /\ ex \in 1 .. 254 =>
                  r = [special |-> FALSE,
                       scaled |-> [sign |-> sign, exp |-> ex, mnt |-> a.mnt],
                       x |-> Reciprocal(Significand(b))]
  <2>1. ~fIsNan(a) /\ ~fIsNan(b) /\ ~IsZero(b)
    BY <1>1, <1>4 DEF Normal, fIsNan, IsZero
  <2>2. /\ Signed(Zero, sign) = [sign |-> sign, exp |-> 0, mnt |-> 0]
        /\ Signed(MATH_INF, sign) = [sign |-> sign, exp |-> 255, mnt |-> 0]
    BY DEF Signed, Zero, MATH_INF
  <2>3. r = IF ex < 1 THEN Answer(Signed(Zero, sign))
            ELSE IF ex > 254 THEN Answer(Signed(MATH_INF, sign))
            ELSE [special |-> FALSE,
                  scaled |-> [sign |-> sign, exp |-> ex, mnt |-> a.mnt],
                  x |-> Reciprocal(Significand(b))]
    BY <2>1 DEF fDiv
  <2>4. ex \in Int
    BY <1>1
  <2> HIDE DEF sign, r, ex
  <2> QED
    BY <2>2, <2>3, <2>4
<1> HIDE DEF r, sign
<1>5. ASSUME Normal(a), Normal(b)
      PROVE  LET f == IF r.special THEN r.value ELSE r.scaled
             IN /\ f.sign = 0 <=> a.sign = b.sign
                /\ r.special <=> f.exp \in {0, 255}
                /\ f.exp = 255 => QuotientReaches(a, b, 127)
                /\ f.exp = 0 => ~QuotientReaches(a, b, -126)
                /\ ~r.special => /\ QuotientReaches(a, b, -127)
                                 /\ ~QuotientReaches(a, b, 128)
                                 /\ f.exp - 127 = a.exp - b.exp /\ f.mnt = a.mnt
  <2> DEFINE f == IF r.special THEN r.value ELSE r.scaled
  <2>1. ex \in Int /\ ex = a.exp - b.exp + 127
    BY <1>1
  <2> HIDE DEF ex
  <2>2. CASE ex < 1
    <3>1. r.special = TRUE /\ r.value = [sign |-> sign, exp |-> 0, mnt |-> 0]
      BY <1>4, <1>5, <2>2 DEF Answer
    <3>2. f.sign = sign /\ f.exp = 0
      BY <3>1
    <3> HIDE DEF f
    <3> QED
      BY <1>1, <1>2, <2>1, <2>2, <3>1, <3>2 DEF QuotientReaches, f
  <2>3. CASE ex > 254
    <3>1. r.special = TRUE /\ r.value = [sign |-> sign, exp |-> 255, mnt |-> 0]
      BY <1>4, <1>5, <2>3 DEF Answer
    <3>2. f.sign = sign /\ f.exp = 255
      BY <3>1
    <3> HIDE DEF f
    <3> QED
      BY <1>1, <1>2, <2>1, <2>3, <3>1, <3>2 DEF QuotientReaches, f
  <2>4. CASE ex \in 1 .. 254
    <3>1. /\ r.special = FALSE
          /\ r.scaled = [sign |-> sign, exp |-> ex, mnt |-> a.mnt]
      BY <1>4, <1>5, <2>4
    <3>2. f.sign = sign /\ f.exp = ex /\ f.mnt = a.mnt
      BY <3>1
    <3> HIDE DEF f
    <3> QED
      BY <1>1, <1>2, <2>1, <2>4, <3>1, <3>2 DEF QuotientReaches, f
  <2>5. ex < 1 \/ ex > 254 \/ ex \in 1 .. 254
    BY <2>1
  <2> QED
    BY <2>2, <2>3, <2>4, <2>5
<1> QED
  BY <1>3, <1>5 DEF DivisionExact, r

\* A quotient cut towards zero, less one below zero, leaves the unit interval.
LEMMA BelowIs ==
  ASSUME NEW num \in Int, NEW den \in Nat \ {0}
  PROVE  LET k == Below([num |-> num, den |-> den])
         IN /\ k \in Int
            /\ 0 <= num - k * den /\ num - k * den <= den
            /\ num < 0 => k < 0
            /\ num >= 0 => num - k * den < den
<1> DEFINE q(n) == n \div den
           k == Below([num |-> num, den |-> den])
<1>1. \A n \in Nat : q(n) \in Nat /\ 0 <= n - q(n) * den /\ n - q(n) * den < den
  <2> TAKE n \in Nat
  <2>1. q(n) \in Nat /\ n % den \in 0 .. den - 1 /\ n = den * q(n) + (n % den)
    BY Division
  <2> HIDE DEF q
  <2>2. den * q(n) = q(n) * den /\ q(n) * den \in Nat
    BY <2>1
  <2> QED
    BY <2>1, <2>2
<1>2. k = IF num < 0 THEN -q(-num) - 1 ELSE q(num)
  BY DEF Below
<1> HIDE DEF q, k
<1>3. CASE num < 0
  <2>1. -num \in Nat
    BY <1>3
  <2>2. q(-num) \in Nat /\ 0 <= -num - q(-num) * den /\ -num - q(-num) * den < den
    BY <1>1, <2>1
  <2>3. k = -q(-num) - 1
    BY <1>2, <1>3
  <2>4. k * den = -(q(-num) * den) - den
    BY <2>2, <2>3
  <2>5. q(-num) * den \in Nat
    BY <2>2
  <2> QED
    BY <1>3, <2>2, <2>3, <2>4, <2>5 DEF k
<1>4. CASE num >= 0
  <2>1. num \in Nat /\ k = q(num)
    BY <1>2, <1>4
  <2> QED
    BY <1>1, <1>4, <2>1 DEF k
<1> QED
  BY <1>3, <1>4

\* Powers of two: the polynomial is asked for a point of the unit interval, and
\* adding the shift to an exponent of about 127 leaves an exponent.
LEMMA Powers ==
  ASSUME NEW num \in Int, NEW den \in Nat \ {0}
  PROVE  LET x == [num |-> num, den |-> den] IN PowerExact(x, fExp2(x))
<1> DEFINE x == [num |-> num, den |-> den]
           k == Below(x)
<1> SUFFICES PowerExact(x, fExp2(x))
  OBVIOUS
<1>1. x.num = num /\ x.den = den
  OBVIOUS
<1>2. /\ k \in Int
      /\ 0 <= num - k * den /\ num - k * den <= den
      /\ num < 0 => k < 0
      /\ num >= 0 => num - k * den < den
  BY BelowIs, Zenon
<1> HIDE DEF x, k
<1>3. CASE num > 127 * den
  <2>1. fExp2(x) = Answer(MATH_INF) /\ x.num > 127 * x.den
    BY <1>1, <1>3 DEF fExp2
  <2> QED
    BY <2>1, AnswerIs, PowerIs, Zenon
<1>4. CASE num < -100 * den
  <2>1. ~(num > 127 * den)
    BY <1>4
  <2>2. fExp2(x) = Answer(Zero) /\ x.num < -100 * x.den
    BY <1>1, <1>4, <2>1 DEF fExp2
  <2> QED
    BY <2>2, AnswerIs, PowerIs, Zenon
<1>5. CASE num = 0
  <2>1. fExp2(x) = Answer([sign |-> 0, exp |-> 127, mnt |-> 0])
    BY <1>1, <1>5 DEF fExp2
  <2>3. [sign |-> 0, exp |-> 127, mnt |-> 0] # MATH_INF
    BY DEF MATH_INF
  <2>4. [sign |-> 0, exp |-> 127, mnt |-> 0] # Zero
    BY DEF Zero
  <2> QED
    BY <1>1, <1>5, <2>1, <2>3, <2>4, AnswerIs, PowerIs
<1>6. CASE ~(num > 127 * den) /\ ~(num < -100 * den) /\ num # 0
  <2> DEFINE r == fExp2(x)
  <2>1. r = [special |-> FALSE, shift |-> k, arg |-> [num |-> num - k * den, den |-> den]]
    BY <1>1, <1>6 DEF fExp2, k
  <2>2. k >= -101
    <3> SUFFICES ASSUME k + 102 <= 0 PROVE FALSE
      BY <1>2
    <3>1. -(k + 102) * den >= 0
      BY <1>2
    <3>2. -(k + 102) * den = -(k * den) - 102 * den
      BY <1>2
    <3>3. k * den \in Int
      BY <1>2
    <3> QED
      BY <1>2, <1>6, <3>1, <3>2, <3>3
  <2>3. num >= 0 => k <= 127
    <3> SUFFICES ASSUME num >= 0, k - 128 >= 0 PROVE FALSE
      BY <1>2
    <3>1. (k - 128) * den >= 0
      BY <1>2
    <3>2. (k - 128) * den = k * den - 128 * den
      BY <1>2
    <3>3. k * den \in Int
      BY <1>2
    <3> QED
      BY <1>2, <1>6, <3>1, <3>2, <3>3
  <2>4. k * den \in Int
    BY <1>2
  <2> HIDE DEF r
  <2>5. /\ ~r.special /\ r.shift = k
        /\ r.arg.num = num - k * den /\ r.arg.den = den
    BY <2>1
  <2>6. num - k * den = den => num < 0
    BY <1>2
  <2>7. k * den + (num - k * den) = num
    BY <2>4
  <2>8. /\ 0 <= r.arg.num /\ r.arg.num <= r.arg.den
        /\ r.arg.den = x.den /\ r.shift * x.den + r.arg.num = x.num
        /\ r.shift + 126 >= 1
        /\ r.shift + 127 <= 254 /\ (r.arg.num = r.arg.den => r.shift + 128 <= 254)
    BY <1>1, <1>2, <2>2, <2>3, <2>4, <2>5, <2>6, <2>7
  <2> QED
    BY <2>5, <2>8, PowerIs, Zenon DEF r
<1> QED
  BY <1>3, <1>4, <1>5, <1>6

LEMMA PowersOf ==
  ASSUME NEW x, NEW num \in Int, NEW den \in Nat \ {0}, x = [num |-> num, den |-> den]
  PROVE  PowerExact(x, fExp2(x))
BY Powers

LEMMA Logarithms ==
  ASSUME NEW x \in AllFloats
  PROVE  LogarithmExact(x, fLog2(x))
<1>1. x = [sign |-> x.sign, exp |-> x.exp, mnt |-> x.mnt]
      /\ x.sign \in {0, 1} /\ x.exp \in 0 .. 255
  BY DEF AllFloats
<1>2. SUFFICES ASSUME Normal(x)
               PROVE  IF x.sign = 1 THEN fLog2(x) = Answer(MATH_NAN)
                      ELSE /\ fLog2(x).shift + fLog2(x).arg.exp = x.exp
                           /\ fLog2(x).arg = [x EXCEPT !.exp = 126]
  BY DEF LogarithmExact
<1>3. ~fIsInf(x) /\ ~IsZero(x) /\ ~fIsNan(x)
  BY <1>1, <1>2 DEF Normal, fIsInf, IsZero, fIsNan
<1> QED
  BY <1>1, <1>3 DEF fLog2

\* The angle to a point: the quotient lies in the unit interval, and turning it
\* by right angles leads back to the point itself.
LEMMA Arctangents ==
  ASSUME NEW y \in Int, NEW x \in Int
  PROVE  /\ AngleExact(y, x, fAtan2(y, x))
         /\ x >= 0 => fAbs(fAtan2(y, x).base) < 2
         /\ y >= 0 => fAtan2(y, x).base >= 0
<1> DEFINE r == fAtan2(y, x)
           n == IF r.v.den < 0 THEN -r.v.num ELSE r.v.num
           d == fAbs(r.v.den)
           turned == CASE r.base = 0 -> <<d, n>>
                       [] r.base = 1 -> <<-n, d>>
                       [] r.base = -1 -> <<n, -d>>
                       [] OTHER -> <<-d, -n>>
<1>1. \/ x = 0 /\ y = 0
      \/ /\ d > 0 /\ fAbs(n) <= d /\ turned[1] = x /\ turned[2] = y
         /\ (r.base = 2 => n <= 0) /\ (r.base = -2 => n > 0)
  <2>1. CASE fAbs(x) < fAbs(y)
    <3>1. r = [v |-> [num |-> -x, den |-> y], base |-> IF y < 0 THEN -1 ELSE 1]
      BY <2>1 DEF fAtan2, Ratio
    <3>2. CASE y < 0
      <4>1. n = x /\ d = -y /\ r.base = -1
        BY <3>1, <3>2 DEF fAbs
      <4> HIDE DEF r, n, d
      <4> QED
        BY <2>1, <3>2, <4>1 DEF fAbs
    <3>3. CASE y >= 0
      <4>1. n = -x /\ d = y /\ r.base = 1
        BY <3>1, <3>3 DEF fAbs
      <4> HIDE DEF r, n, d
      <4> QED
        BY <2>1, <3>3, <4>1 DEF fAbs
    <3> QED
      BY <3>2, <3>3
  <2>2. CASE ~(fAbs(x) < fAbs(y)) /\ x < 0
    <3>1. r = [v |-> [num |-> y, den |-> x], base |-> IF y < 0 THEN -2 ELSE 2]
      BY <2>2 DEF fAtan2, Ratio
    <3>2. n = -y /\ d = -x /\ r.base = IF y < 0 THEN -2 ELSE 2
      BY <2>2, <3>1 DEF fAbs
    <3> HIDE DEF r, n, d
    <3> QED
      BY <2>2, <3>2 DEF fAbs
  <2>3. CASE ~(fAbs(x) < fAbs(y)) /\ x >= 0
    <3>1. r = [v |-> [num |-> y, den |-> x], base |-> 0]
      BY <2>3 DEF fAtan2, Ratio
    <3>2. n = y /\ d = x /\ r.base = 0
      BY <2>3, <3>1 DEF fAbs
    <3> HIDE DEF r, n, d
    <3> QED
      BY <2>3, <3>2 DEF fAbs
  <2> QED
    BY <2>1, <2>2, <2>3
<1>2. x # 0 \/ y # 0 => x * x + y * y > 0
  <2>1. ASSUME NEW i \in Int PROVE i * i >= 0 /\ (i # 0 => i * i > 0)
    <3>1. CASE i > 0
      BY <3>1
    <3>2. CASE i < 0
      <4>1. (-i) * (-i) > 0
        BY <3>2
      <4> QED
        BY <4>1
    <3> QED
      BY <3>1, <3>2
  <2>2. x * x \in Int /\ y * y \in Int
    OBVIOUS
  <2> QED
    BY <2>1, <2>2
<1>3. x * y = y * x
  OBVIOUS
<1>4. AngleExact(y, x, r)
  <2> HIDE DEF r, n, d, turned
  <2> SUFFICES \/ x = 0 /\ y = 0
               \/ /\ d > 0 /\ fAbs(n) <= d
                  /\ turned[1] * y = turned[2] * x /\ turned[1] * x + turned[2] * y > 0
                  /\ (r.base = 2 => n <= 0) /\ (r.base = -2 => n > 0)
    BY DEF AngleExact, n, d, turned
  <2> QED
    BY <1>1, <1>2, <1>3
<1>5. /\ x >= 0 => fAbs(r.base) < 2
      /\ y >= 0 => r.base >= 0
  BY DEF fAtan2, fAbs
<1> QED
  BY <1>4, <1>5

-----------------------------------------------------------------------------
(* Angles.                                                                 *)

Turn == 4 * QuarterTurn

LEMMA WholeTurns ==
  ASSUME NEW k \in Int, NEW d \in Nat \ {0}
  PROVE  (k * d) % d = 0
<1> DEFINE a == k * d
           q == a \div d
           m == a % d
<1>1. a \in Int
  OBVIOUS
<1>2. q \in Int /\ m \in 0 .. d - 1 /\ a = d * q + m
  BY <1>1
<1> HIDE DEF q, m
<1>3. m = (k - q) * d
  BY <1>2
<1>4. ~(k - q >= 1)
  <2> SUFFICES ASSUME k - q >= 1 PROVE FALSE
    OBVIOUS
  <2>1. (k - q - 1) * d >= 0
    BY <1>2
  <2>2. (k - q - 1) * d = (k - q) * d - d
    BY <1>2
  <2> QED
    BY <1>2, <1>3, <2>1, <2>2
<1>5. ~(k - q <= -1)
  <2> SUFFICES ASSUME k - q <= -1 PROVE FALSE
    OBVIOUS
  <2>1. (q - k - 1) * d >= 0
    BY <1>2
  <2>2. (q - k - 1) * d = -((k - q) * d) - d
    BY <1>2
  <2> QED
    BY <1>2, <1>3, <2>1, <2>2
<1>6. k - q = 0
  BY <1>2, <1>4, <1>5
<1>7. m = 0
  BY <1>2, <1>3, <1>6
<1> QED
  BY <1>7 DEF m

\* What is left within a turn differs by whole turns.
LEMMA WithinTurnIs ==
  ASSUME NEW x \in Int
  PROVE  \E n \in Int : /\ WithinTurn(x) = x - n * Turn
                        /\ fAbs(WithinTurn(x)) <= Turn
<1>1. Turn \in Nat \ {0}
  BY MathAssumption DEF Turn
<1> DEFINE n == IF x < 0 THEN -((-x) \div Turn) ELSE x \div Turn
<1>2. WithinTurn(x) = IF fAbs(x) > Turn THEN x - n * Turn ELSE x
  BY DEF WithinTurn, Turn
<1> HIDE DEF Turn
<1>3. ASSUME NEW y \in Nat
      PROVE  /\ y \div Turn \in Nat /\ y - (y \div Turn) * Turn \in 0 .. Turn - 1
  <2> DEFINE q == y \div Turn
  <2>1. q \in Nat /\ y % Turn \in 0 .. Turn - 1 /\ y = Turn * q + (y % Turn)
    BY <1>1, Division
  <2> HIDE DEF q
  <2>2. Turn * q = q * Turn /\ q * Turn \in Nat
    BY <1>1, <2>1
  <2>3. q \in Nat /\ y - q * Turn \in 0 .. Turn - 1
    BY <1>1, <2>1, <2>2
  <2> QED
    BY <2>3 DEF q
<1>4. n \in Int /\ fAbs(x - n * Turn) <= Turn
  <2>1. CASE x < 0
    <3> DEFINE q == (-x) \div Turn
    <3>1. q \in Nat /\ -x - q * Turn \in 0 .. Turn - 1
      BY <1>3, <2>1
    <3>2. n = -q
      BY <2>1
    <3> HIDE DEF q, n
    <3>3. n * Turn = -(q * Turn) /\ q * Turn \in Int
      BY <1>1, <3>1, <3>2
    <3> QED
      BY <1>1, <3>1, <3>2, <3>3 DEF fAbs
  <2>2. CASE x >= 0
    <3>1. n = x \div Turn /\ n \in Nat /\ x - n * Turn \in 0 .. Turn - 1
      BY <1>3, <2>2
    <3> HIDE DEF n
    <3>2. n * Turn \in Int
      BY <1>1, <3>1
    <3> QED
      BY <1>1, <3>1, <3>2 DEF fAbs
  <2> QED
    BY <2>1, <2>2
<1>5. CASE fAbs(x) > Turn
  BY <1>2, <1>4, <1>5
<1>6. CASE ~(fAbs(x) > Turn)
  <2>1. WithinTurn(x) = x /\ x = x - 0 * Turn
    BY <1>1, <1>2, <1>6
  <2>2. fAbs(x) <= Turn
    BY <1>1, <1>6 DEF fAbs
  <2> QED
    BY <2>1, <2>2
<1> QED
  BY <1>5, <1>6

\* The polynomial is asked for an angle of the first quadrant, whose cosine is
\* up to the sign that of the angle.
LEMMA Cosines ==
  ASSUME NEW s \in Int, NEW finite \in BOOLEAN
  PROVE  LET r == fCos([finite |-> finite, steps |-> s])
         IN CosineExact(s, r) /\ CosineExact(-s, r)
<1> DEFINE x == [finite |-> finite, steps |-> s]
           r == fCos(x)
           w == WithinTurn(s)
           a == fAbs(w)
           q == QuarterTurn
<1>1. x.finite = finite /\ x.steps = s
  OBVIOUS
<1>2. q \in Nat /\ q > 0 /\ Turn = 4 * q
  BY MathAssumption DEF Turn
<1>3. PICK n \in Int : w = s - n * Turn /\ a <= Turn
  BY WithinTurnIs
<1>4. w \in Int /\ a \in 0 .. 4 * q
  <2>1. n * Turn \in Int
    BY <1>2
  <2>2. w \in Int
    BY <1>3, <2>1
  <2> QED
    BY <1>2, <1>3, <2>2 DEF fAbs
<1>5. CASE ~finite
  BY <1>1, <1>5 DEF fCos, CosineExact, Answer
<1>6. CASE finite
  <2> DEFINE b == IF r.neg THEN r.arg + 2 * q ELSE r.arg
  <2>1. /\ ~r.special /\ r.arg \in 0 .. q
        /\ b = a \/ b = Turn - a
    <3> DEFINE Cosine(neg, arg) == [special |-> FALSE, neg |-> neg, arg |-> arg]
    <3>1. r = CASE a < q -> Cosine(FALSE, a)
                [] a \in q .. 2 * q - 1 -> Cosine(TRUE, 2 * q - a)
                [] a \in 2 * q .. 3 * q - 1 -> Cosine(TRUE, a - 2 * q)
                [] OTHER -> Cosine(FALSE, 4 * q - a)
      BY <1>1, <1>6 DEF fCos
    <3> HIDE DEF a, q, r, w
    <3>2. CASE a < q
      <4>1. r = Cosine(FALSE, a)
        BY <1>2, <1>4, <3>1, <3>2
      <4> QED
        BY <1>2, <1>4, <3>2, <4>1
    <3>3. CASE a \in q .. 2 * q - 1
      <4>1. r = Cosine(TRUE, 2 * q - a)
        BY <1>2, <1>4, <3>1, <3>3
      <4> QED
        BY <1>2, <1>4, <3>3, <4>1
    <3>4. CASE a \in 2 * q .. 3 * q - 1
      <4>1. r = Cosine(TRUE, a - 2 * q)
        BY <1>2, <1>4, <3>1, <3>4
      <4> QED
        BY <1>2, <1>4, <3>4, <4>1
    <3>5. CASE a >= 3 * q
      <4>1. r = Cosine(FALSE, 4 * q - a)
        BY <1>2, <1>4, <3>1, <3>5
      <4> QED
        BY <1>2, <1>4, <3>5, <4>1
    <3> QED
      BY <1>2, <1>4, <3>2, <3>3, <3>4, <3>5
  <2>2. a = w \/ a = -w
    BY <1>4 DEF fAbs
  <2> HIDE DEF a, q, r, w, b
  <2>3. \/ \E k \in Int : b - s = k * Turn
        \/ \E k \in Int : b + s = k * Turn
    <3>1. /\ n * Turn \in Int /\ -n \in Int /\ 1 - n \in Int /\ 1 + n \in Int
          /\ (-n) * Turn = -(n * Turn)
          /\ (1 - n) * Turn = Turn - n * Turn /\ (1 + n) * Turn = Turn + n * Turn
      BY <1>2
    <3>2. CASE b = a
      <4>1. CASE a = w
        <5>1. b - s = (-n) * Turn
          BY <1>2, <1>3, <1>4, <3>1, <3>2, <4>1
        <5> QED
          BY <3>1, <5>1
      <4>2. CASE a = -w
        <5>1. b + s = n * Turn
          BY <1>2, <1>3, <1>4, <3>1, <3>2, <4>2
        <5> QED
          BY <5>1
      <4> QED
        BY <2>2, <4>1, <4>2
    <3>3. CASE b = Turn - a
      <4>1. CASE a = w
        <5>1. b + s = (1 + n) * Turn
          BY <1>2, <1>3, <1>4, <3>1, <3>3, <4>1
        <5> QED
          BY <3>1, <5>1
      <4>2. CASE a = -w
        <5>1. b - s = (1 - n) * Turn
          BY <1>2, <1>3, <1>4, <3>1, <3>3, <4>2
        <5> QED
          BY <3>1, <5>1
      <4> QED
        BY <2>2, <4>1, <4>2
    <3> QED
      BY <2>1, <3>2, <3>3
  <2>4. (b - s) % Turn = 0 \/ (b + s) % Turn = 0
    BY <1>2, <2>3, WholeTurns, Turn \in Nat \ {0}
  <2>5. b \in Int
    BY <1>2, <2>1 DEF b
  <2>6. b - (-s) = b + s /\ b + (-s) = b - s
    BY <2>5
  <2>7. 0 <= r.arg /\ r.arg <= q
    BY <1>2, <2>1
  <2>8. CosineExact(s, r) <=>
          \/ r.special
          \/ 0 <= r.arg /\ r.arg <= q /\ ((b - s) % Turn = 0 \/ (b + s) % Turn = 0)
    BY Zenon DEF CosineExact, b, q, Turn
  <2>9. CosineExact(-s, r) <=>
          \/ r.special
          \/ 0 <= r.arg /\ r.arg <= q /\ ((b - (-s)) % Turn = 0 \/ (b + (-s)) % Turn = 0)
    BY Zenon DEF CosineExact, b, q, Turn
  <2> QED
    BY <2>4, <2>6, <2>7, <2>8, <2>9, Zenon DEF r
<1> QED
  BY <1>5, <1>6

-----------------------------------------------------------------------------
(* The calls of the checks, and what they return.                          *)

StringFns == {"printf", "puts", "write_uart_int", "write_uart_hex", "strcmp",
              "strcpy", "strlen", "memset"}

Untold == StringFns \cup
  {"fDiv", "fSqrt", "fLog2", "fExp2", "fExp", "fExp10", "fAtan2", "fAsin", "fAcos",
   "fCos", "fSin", "fTan", "fCot", "polynomials"}

PmpCall ==
  \E l \in Layouts, t \in DemoTasks, priv \in {"U", "M"}, type \in Accesses, a \in Nat :
    call = [fn |-> "pmp", l |-> l, t |-> t, priv |-> priv, a |-> a, type |-> type]
NapotCall ==
  \E k \in 1 .. AddressBits, n \in Nat, word \in Nat :
    call = [fn |-> "napot", base |-> n * 2^k, size |-> 2^k, word |-> word]
MmlCall ==
  \E flags \in SUBSET Accesses, lock \in BOOLEAN :
    call = [fn |-> "mml", region |-> [mode |-> "tor", flags |-> flags, lock |-> lock]]

CallOK == call.fn \in Untold \/ PmpCall \/ NapotCall \/ MmlCall

LEMMA StringCalls == InitStrings => call.fn \in StringFns
<1> SUFFICES ASSUME InitStrings PROVE call.fn \in StringFns
  OBVIOUS
<1>1. ASSUME NEW pieces, call = PrintfCall(pieces) PROVE call.fn \in StringFns
  BY <1>1 DEF PrintfCall, StringFns
<1>2. ASSUME NEW s, call = [fn |-> "puts", s |-> s] PROVE call.fn \in StringFns
  BY <1>2 DEF StringFns
<1>3. ASSUME NEW v, call \in {[fn |-> f, value |-> v] :
                                f \in {"write_uart_int", "write_uart_hex"}}
      PROVE  call.fn \in StringFns
  BY <1>3 DEF StringFns
<1>4. ASSUME NEW m1, NEW a1, NEW m2, NEW a2,
             call \in {[fn |-> f, m1 |-> m1, a1 |-> a1, m2 |-> m2, a2 |-> a2] :
                         f \in {"strcmp", "strcpy"}}
      PROVE  call.fn \in StringFns
  BY <1>4 DEF StringFns
<1>5. ASSUME NEW m, NEW a, NEW n,
             call = [fn |-> "memset", m |-> m, a |-> a, val |-> 2, length |-> n]
      PROVE  call.fn \in StringFns
  BY <1>5 DEF StringFns
<1>6. ASSUME NEW m, NEW a, call = [fn |-> "strlen", m |-> m, a |-> a]
      PROVE  call.fn \in StringFns
  BY <1>6 DEF StringFns
<1> HIDE DEF PrintfCall
<1> QED
  BY <1>1, <1>2, <1>3, <1>4, <1>5, <1>6 DEF InitStrings

LEMMA InitCalls == Init => CallOK
<1> SUFFICES ASSUME Init PROVE CallOK
  OBVIOUS
<1>1. CASE InitStrings
  BY <1>1, StringCalls DEF CallOK, Untold
<1>2. CASE InitMath
  <2>1. call.fn \in Untold
    BY <1>2 DEF InitMath, Untold
  <2> QED
    BY <2>1 DEF CallOK
<1>3. CASE InitRegions
  <2>1. CASE \E l \in SomeLayouts, t \in DemoTasks, priv \in {"U", "M"}, type \in Accesses :
             \E a \in 0 .. l.stack_end[2] + 4 :
               call = [fn |-> "pmp", l |-> l, t |-> t, priv |-> priv, a |-> a, type |-> type]
    <3>1. PICK l \in SomeLayouts, t \in DemoTasks, priv \in {"U", "M"}, type \in Accesses :
            \E a \in 0 .. l.stack_end[2] + 4 :
              call = [fn |-> "pmp", l |-> l, t |-> t, priv |-> priv, a |-> a, type |-> type]
      BY <2>1
    <3>2. \A a \in 0 .. l.stack_end[2] + 4 : a \in Nat
      BY LibrariesAssumption, LayoutFacts DEF DemoTasks
    <3>3. PmpCall
      BY <3>1, <3>2, LibrariesAssumption DEF PmpCall
    <3> QED
      BY <3>3 DEF CallOK
  <2>2. CASE \E k \in 1 .. AddressBits, n \in 0 .. 3, word \in 0 .. 2^AddressBits :
               call = [fn |-> "napot", base |-> n * 2^k, size |-> 2^k, word |-> word]
    <3>1. /\ \A n \in 0 .. 3 : n \in Nat
          /\ \A word \in 0 .. 2^AddressBits : word \in Nat
      BY RegionsAssumption, PowerPositive
    <3>2. NapotCall
      BY <2>2, <3>1, Zenon DEF NapotCall
    <3> QED
      BY <3>2 DEF CallOK
  <2>3. CASE \E flags \in SUBSET Accesses, lock \in BOOLEAN :
               call = [fn |-> "mml", region |-> [mode |-> "tor", flags |-> flags, lock |-> lock]]
    BY <2>3 DEF CallOK, MmlCall
  <2> QED
    BY <1>3, <2>1, <2>2, <2>3 DEF InitRegions
<1> QED
  BY <1>1, <1>2, <1>3 DEF Init

LEMMA OtherCalls ==
  ASSUME Next, call.fn \in Untold
  PROVE  TasksIsolated'
<1>1. call' = call
  BY DEF Next, Printing, Strings, Functions, Checks, Return
<1>2. call'.fn \in Untold
  BY <1>1
<1> QED
  BY <1>2 DEF TasksIsolated, Untold, StringFns

LEMMA PmpReturns ==
  ASSUME Next, PmpCall
  PROVE  TasksIsolated'
<1>1. PICK l \in Layouts, t \in DemoTasks, priv \in {"U", "M"}, type \in Accesses, a \in Nat :
        call = [fn |-> "pmp", l |-> l, t |-> t, priv |-> priv, a |-> a, type |-> type]
  BY DEF PmpCall
<1>2. /\ call.fn = "pmp" /\ call.l = l /\ call.t = t
      /\ call.priv = priv /\ call.a = a /\ call.type = type
  BY <1>1
<1>3. call' = call
  BY DEF Next, Printing, Strings, Functions, Checks, Return
<1>4. Isolated(l, t, priv, a, type)
  BY TasksAreIsolated
<1>5. TasksIsolated' <=> (returned' => Isolated(l, t, priv, a, type))
  BY <1>2, <1>3 DEF TasksIsolated
<1> QED
  BY <1>4, <1>5

LEMMA NapotReturns ==
  ASSUME Next, NapotCall
  PROVE  TasksIsolated'
<1>1. PICK k \in 1 .. AddressBits, n \in Nat, word \in Nat :
        call = [fn |-> "napot", base |-> n * 2^k, size |-> 2^k, word |-> word]
  BY DEF NapotCall
<1>2. /\ call.fn = "napot" /\ call.base = n * 2^k
      /\ call.size = 2^k /\ call.word = word
  BY <1>1
<1>3. call' = call
  BY DEF Next, Printing, Strings, Functions, Checks, Return
<1>4. result' = region_match(
                  [r \in {0} |-> [mode |-> "napot", flags |-> {}, lock |-> FALSE]],
                  [r \in {0} |-> n * 2^k + 2^k \div 2 - 1], 0, word)
  BY <1>2 DEF Next, Printing, Strings, Functions, Checks, Return
<1>5. result' <=> word \in n * 2^k .. n * 2^k + 2^k - 1
  BY <1>4, NapotCovers, Zenon
<1>6. TasksIsolated' <=>
        (returned' => (result' <=> word \in n * 2^k .. n * 2^k + 2^k - 1))
  BY <1>2, <1>3 DEF TasksIsolated
<1> QED
  BY <1>5, <1>6

LEMMA MmlReturns ==
  ASSUME Next, MmlCall
  PROVE  TasksIsolated'
<1>1. PICK flags \in SUBSET Accesses, lock \in BOOLEAN :
        call = [fn |-> "mml", region |-> [mode |-> "tor", flags |-> flags, lock |-> lock]]
  BY DEF MmlCall
<1> DEFINE c == call.region
<1>2. call.fn = "mml" /\ c.flags = flags /\ c.lock = lock
  BY <1>1
<1>3. call' = call
  BY DEF Next, Printing, Strings, Functions, Checks, Return
<1>4. result' = {a \in {"U", "M"} \X Accesses : ~access_fault_of(c, TRUE, a[1], a[2])}
  BY <1>2 DEF Next, Printing, Strings, Functions, Checks, Return
<1> HIDE DEF c
<1>5. \A priv \in {"U", "M"}, type \in Accesses :
        <<priv, type>> \in result' <=> region_mml_perm_check(c, priv, type)
  BY <1>4 DEF access_fault_of
<1>6. ASSUME NEW p \in {"U", "M"}, NEW q \in {"U", "M"},
             <<p, "exec">> \in result', <<q, "write">> \in result'
      PROVE  p = "U" /\ q = "U"
  <2>1. region_mml_perm_check(c, p, "exec") /\ region_mml_perm_check(c, q, "write")
    BY <1>5, <1>6 DEF Accesses
  <2> QED
    BY <1>2, <2>1 DEF region_mml_perm_check, region_basic_perm_check, Accesses
<1> QED
  BY <1>2, <1>3, <1>6 DEF TasksIsolated

(***************************************************************************)
(* What cv32e40s_pmp.sv lets through: under the settings of a task its own *)
(* memory and nothing else, for every layout; a region of a power of two   *)
(* exactly its words, for every width of an address; and under mml nothing *)
(* that one level of privilege may write and the other execute.            *)
(***************************************************************************)
THEOREM ChecksIsolate == Spec => []TasksIsolated
<1>1. Init => CallOK /\ TasksIsolated
  BY InitCalls DEF Init, TasksIsolated
<1>2. CallOK /\ TasksIsolated /\ [Next]_vars => (CallOK /\ TasksIsolated)'
  <2> SUFFICES ASSUME CallOK, TasksIsolated, [Next]_vars
               PROVE  (CallOK /\ TasksIsolated)'
    OBVIOUS
  <2>1. CASE Next
    <3>1. call' = call
      BY <2>1 DEF Next, Printing, Strings, Functions, Checks, Return
    <3>2. CallOK'
      BY <3>1 DEF CallOK, PmpCall, NapotCall, MmlCall
    <3>3. CASE call.fn \in Untold
      BY <2>1, <3>2, <3>3, OtherCalls
    <3>4. CASE PmpCall
      BY <2>1, <3>2, <3>4, PmpReturns
    <3>5. CASE NapotCall
      BY <2>1, <3>2, <3>5, NapotReturns
    <3>6. CASE MmlCall
      BY <2>1, <3>2, <3>6, MmlReturns
    <3> QED
      BY <3>3, <3>4, <3>5, <3>6 DEF CallOK
  <2>2. CASE UNCHANGED vars
    BY <2>2 DEF vars, CallOK, PmpCall, NapotCall, MmlCall, TasksIsolated
  <2> QED
    BY <2>1, <2>2
<1> QED
  BY <1>1, <1>2, PTL DEF Spec

-----------------------------------------------------------------------------
(* The calls of the mathematical library, and what they return.            *)

Exponentials == {"fExp2", "fExp", "fExp10"}
Circular == {"fCos", "fSin", "fTan", "fCot"}

MathCall ==
  /\ call.fn = "fDiv" => call.a \in AllFloats /\ call.b \in AllFloats
  /\ call.fn = "fLog2" => call.x \in AllFloats
  /\ call.fn \in Exponentials => \E n \in Int : call.x = [num |-> n, den |-> 8]
  /\ call.fn = "fAtan2" => call.y \in Int /\ call.x \in Int
  /\ call.fn \in {"fAsin", "fAcos"} => call.x \in Int /\ call.root \in Nat
  /\ call.fn \in Circular =>
       \E n \in Int, finite \in BOOLEAN : call.x = [finite |-> finite, steps |-> n]

LEMMA MathCalls == Init => MathCall
<1> SUFFICES ASSUME Init PROVE MathCall
  OBVIOUS
<1>1. CASE InitStrings
  BY <1>1, StringCalls DEF MathCall, StringFns, Exponentials, Circular
<1>2. CASE InitRegions
  <2>1. call.fn \in {"pmp", "napot", "mml"}
    BY <1>2 DEF InitRegions
  <2> QED
    BY <2>1 DEF MathCall, Exponentials, Circular
<1>3. CASE InitMath
  <2>1. CASE \E a \in Floats, b \in Floats : call = [fn |-> "fDiv", a |-> a, b |-> b]
    BY <2>1, LibrariesAssumption DEF MathCall, Exponentials, Circular, AllFloats
  <2>2. CASE \E x \in Floats : call \in {[fn |-> f, x |-> x] : f \in {"fSqrt", "fLog2"}}
    BY <2>2, LibrariesAssumption DEF MathCall, Exponentials, Circular, AllFloats
  <2>3. CASE \E n \in Eighths : call \in {[fn |-> f, x |-> [num |-> n, den |-> 8]] :
                                            f \in {"fExp2", "fExp", "fExp10"}}
    <3>1. PICK n \in Eighths : call \in {[fn |-> f, x |-> [num |-> n, den |-> 8]] :
                                           f \in {"fExp2", "fExp", "fExp10"}}
      BY <2>3
    <3>2. n \in Int /\ call.x = [num |-> n, den |-> 8] /\ call.fn \in Exponentials
      BY <3>1, LibrariesAssumption DEF Exponentials
    <3> QED
      BY <3>2 DEF MathCall, Exponentials, Circular
  <2>4. CASE \E y \in Coordinates, x \in Coordinates :
               call = [fn |-> "fAtan2", y |-> y, x |-> x]
    BY <2>4, LibrariesAssumption DEF MathCall, Exponentials, Circular
  <2>5. CASE \E t \in Triangles : call \in {[fn |-> f, x |-> t[1], root |-> t[2]] :
                                              f \in {"fAsin", "fAcos"}}
    BY <2>5, LibrariesAssumption DEF MathCall, Exponentials, Circular
  <2>6. CASE \E n \in Angles, finite \in BOOLEAN :
               call \in {[fn |-> f, x |-> [finite |-> finite, steps |-> n]] :
                           f \in {"fCos", "fSin", "fTan", "fCot"}}
    <3>1. PICK n \in Angles, finite \in BOOLEAN :
            call \in {[fn |-> f, x |-> [finite |-> finite, steps |-> n]] :
                        f \in {"fCos", "fSin", "fTan", "fCot"}}
      BY <2>6
    <3>2. /\ n \in Int /\ call.x = [finite |-> finite, steps |-> n]
          /\ call.fn \in Circular
      BY <3>1, LibrariesAssumption DEF Circular
    <3> QED
      BY <3>2 DEF MathCall, Exponentials, Circular
  <2>7. CASE \E j \in Grid, k \in Grid : call = [fn |-> "polynomials", j |-> j, k |-> k]
    BY <2>7 DEF MathCall, Exponentials, Circular
  <2> QED
    BY <1>3, <2>1, <2>2, <2>3, <2>4, <2>5, <2>6, <2>7 DEF InitMath
<1> QED
  BY <1>1, <1>2, <1>3 DEF Init

LEMMA MathReturns ==
  ASSUME Next, MathCall
  PROVE  ReductionsExact'
<1>1. call' = call
  BY DEF Next, Printing, Strings, Functions, Checks, Return
<1>2. call.fn = "fDiv" => DivisionExact(call.a, call.b, result')
  <2> SUFFICES ASSUME call.fn = "fDiv" PROVE DivisionExact(call.a, call.b, result')
    OBVIOUS
  <2>1. result' = fDiv(call.a, call.b)
    BY DEF Next, Printing, Strings, Functions, Checks, Return
  <2>2. call.a \in AllFloats /\ call.b \in AllFloats
    BY DEF MathCall
  <2> QED
    BY <2>1, <2>2, Divides, Zenon
<1>3. call.fn = "fLog2" => LogarithmExact(call.x, result')
  <2> SUFFICES ASSUME call.fn = "fLog2" PROVE LogarithmExact(call.x, result')
    OBVIOUS
  <2>1. result' = fLog2(call.x)
    BY DEF Next, Printing, Strings, Functions, Checks, Return
  <2>2. call.x \in AllFloats
    BY DEF MathCall
  <2> QED
    BY <2>1, <2>2, Logarithms, Zenon
<1>4. ASSUME call.fn \in Exponentials
      PROVE  /\ PowerExact(call.x, fExp2(call.x))
             /\ PowerExact(Times(call.x, MATH_LOG2_E), fExp(call.x))
             /\ PowerExact(Times(call.x, MATH_LOG2_10), fExp10(call.x))
  <2>1. PICK n \in Int : call.x = [num |-> n, den |-> 8]
    BY <1>4 DEF MathCall
  <2>2. /\ Times(call.x, MATH_LOG2_E) = [num |-> n * 1443, den |-> 8000]
        /\ Times(call.x, MATH_LOG2_10) = [num |-> n * 3322, den |-> 8000]
    BY <2>1 DEF Times, MATH_LOG2_E, MATH_LOG2_10
  <2>3. n * 1443 \in Int /\ n * 3322 \in Int /\ 8 \in Nat \ {0} /\ 8000 \in Nat \ {0}
    OBVIOUS
  <2>4. PowerExact(call.x, fExp2(call.x))
    BY <2>1, <2>3, PowersOf
  <2>5. PowerExact(Times(call.x, MATH_LOG2_E), fExp2(Times(call.x, MATH_LOG2_E)))
    BY <2>2, <2>3, PowersOf
  <2>6. PowerExact(Times(call.x, MATH_LOG2_10), fExp2(Times(call.x, MATH_LOG2_10)))
    BY <2>2, <2>3, PowersOf
  <2> QED
    BY <2>4, <2>5, <2>6 DEF fExp, fExp10
<1>5. call.fn \in Exponentials =>
        result' = CASE call.fn = "fExp2" -> fExp2(call.x)
                    [] call.fn = "fExp" -> fExp(call.x)
                    [] OTHER -> fExp10(call.x)
  BY DEF Exponentials, Next, Printing, Strings, Functions, Checks, Return
<1>6. /\ call.fn = "fExp2" => PowerExact(call.x, result')
      /\ call.fn = "fExp" => PowerExact(Times(call.x, MATH_LOG2_E), result')
      /\ call.fn = "fExp10" => PowerExact(Times(call.x, MATH_LOG2_10), result')
  BY <1>4, <1>5 DEF Exponentials
<1>7. call.fn = "fAtan2" => AngleExact(call.y, call.x, result')
  <2> SUFFICES ASSUME call.fn = "fAtan2" PROVE AngleExact(call.y, call.x, result')
    OBVIOUS
  <2>1. result' = fAtan2(call.y, call.x)
    BY DEF Next, Printing, Strings, Functions, Checks, Return
  <2>2. call.y \in Int /\ call.x \in Int
    BY DEF MathCall
  <2> QED
    BY <2>1, <2>2, Arctangents, Zenon
<1>8. call.fn = "fAsin" =>
        AngleExact(call.x, call.root, result') /\ fAbs(result'.base) < 2
  <2> SUFFICES ASSUME call.fn = "fAsin"
               PROVE  AngleExact(call.x, call.root, result') /\ fAbs(result'.base) < 2
    OBVIOUS
  <2>1. result' = fAtan2(call.x, call.root)
    BY DEF Next, Printing, Strings, Functions, Checks, Return, fAsin
  <2>2. call.x \in Int /\ call.root \in Int /\ call.root >= 0
    BY DEF MathCall
  <2> QED
    BY <2>1, <2>2, Arctangents, Zenon
<1>9. call.fn = "fAcos" => AngleExact(call.root, call.x, result') /\ result'.base >= 0
  <2> SUFFICES ASSUME call.fn = "fAcos"
               PROVE  AngleExact(call.root, call.x, result') /\ result'.base >= 0
    OBVIOUS
  <2>1. result' = fAtan2(call.root, call.x)
    BY DEF Next, Printing, Strings, Functions, Checks, Return, fAcos
  <2>2. call.x \in Int /\ call.root \in Int /\ call.root >= 0
    BY DEF MathCall
  <2> QED
    BY <2>1, <2>2, Arctangents, Zenon
<1>10. ASSUME call.fn \in Circular
       PROVE  /\ CosineExact(call.x.steps, fCos(call.x))
              /\ CosineExact(call.x.steps - QuarterTurn, fSin(call.x))
  <2>1. PICK n \in Int, finite \in BOOLEAN : call.x = [finite |-> finite, steps |-> n]
    BY <1>10 DEF MathCall
  <2>2. call.x.steps = n
    BY <2>1
  <2>3. CosineExact(call.x.steps, fCos(call.x))
    BY <2>1, <2>2, Cosines, Zenon
  <2>4. fSin(call.x) = fCos([finite |-> finite, steps |-> QuarterTurn - n])
    BY <2>1 DEF fSin
  <2>5. QuarterTurn - n \in Int /\ -(QuarterTurn - n) = n - QuarterTurn
    BY MathAssumption
  <2>6. CosineExact(-(QuarterTurn - n), fSin(call.x))
    BY <2>4, <2>5, Cosines, Zenon
  <2> QED
    BY <2>2, <2>3, <2>5, <2>6, Zenon
<1>11. call.fn \in Circular =>
         result' = CASE call.fn = "fCos" -> fCos(call.x)
                     [] call.fn = "fSin" -> fSin(call.x)
                     [] call.fn = "fTan" -> Ratio(fSin(call.x), fCos(call.x))
                     [] OTHER -> Ratio(fCos(call.x), fSin(call.x))
  BY DEF Circular, Next, Printing, Strings, Functions, Checks, Return, fTan, fCot
<1>12. /\ call.fn = "fCos" => CosineExact(call.x.steps, result')
       /\ call.fn = "fSin" => CosineExact(call.x.steps - QuarterTurn, result')
       /\ call.fn = "fTan" => /\ CosineExact(call.x.steps - QuarterTurn, result'.num)
                              /\ CosineExact(call.x.steps, result'.den)
       /\ call.fn = "fCot" => /\ CosineExact(call.x.steps, result'.num)
                              /\ CosineExact(call.x.steps - QuarterTurn, result'.den)
  BY <1>10, <1>11 DEF Circular, Ratio
<1> QED
  BY <1>1, <1>2, <1>3, <1>6, <1>7, <1>8, <1>9, <1>12 DEF ReductionsExact

(***************************************************************************)
(* What the functions of math_fns.c do before and after their polynomial   *)
(* or iteration is exact for every float, every number, every point and    *)
(* every angle, for mantissas up to 23 bits and any step of an angle.      *)
(***************************************************************************)
THEOREM FunctionsReduce == Spec => []ReductionsExact
<1>1. Init => MathCall /\ ReductionsExact
  BY MathCalls DEF Init, ReductionsExact
<1>2. MathCall /\ ReductionsExact /\ [Next]_vars => (MathCall /\ ReductionsExact)'
  <2> SUFFICES ASSUME MathCall, ReductionsExact, [Next]_vars
               PROVE  (MathCall /\ ReductionsExact)'
    OBVIOUS
  <2>1. CASE Next
    <3>1. call' = call
      BY <2>1 DEF Next, Printing, Strings, Functions, Checks, Return
    <3>2. MathCall'
      BY <3>1 DEF MathCall
    <3> QED
      BY <2>1, <3>2, MathReturns
  <2>2. CASE UNCHANGED vars
    BY <2>2 DEF vars, MathCall, ReductionsExact
  <2> QED
    BY <2>1, <2>2
<1> QED
  BY <1>1, <1>2, PTL DEF Spec

-----------------------------------------------------------------------------
(* The bytes of a word, and the test for a zero among them.                *)

\* s adds up the first n bytes b, each at its place.
Adds(s, b, n) ==
  s[0] = 0 /\ \A j \in 0 .. n - 1 : s[j + 1] = s[j] + b[j] * 2^(ByteBits * j)

ByteAt(mem, a) == [j \in 0 .. WordBytes - 1 |-> mem[a + j]]

LEMMA WordAdds ==
  ASSUME NEW mem, NEW a \in Nat
  PROVE  \E s : Adds(s, ByteAt(mem, a), WordBytes) /\ Word(mem, a) = s[WordBytes]
<1> DEFINE IsSum(s) ==
             s = [j \in 0 .. WordBytes |->
                    IF j = 0 THEN 0
                    ELSE s[j - 1] + mem[a + j - 1] * 2^(ByteBits * (j - 1))]
           t == [j \in Nat |-> mem[a + j] * 2^(ByteBits * j)]
           sum == CHOOSE s : IsSum(s)
<1>1. ASSUME NEW s, SumsTo(WordBytes, s, t) PROVE IsSum(s)
  <2>1. \A j \in 0 .. WordBytes : j # 0 =>
          t[j - 1] = mem[a + j - 1] * 2^(ByteBits * (j - 1))
    <3>1. \A j \in 0 .. WordBytes : j # 0 => j - 1 \in Nat /\ a + (j - 1) = a + j - 1
      BY StringLibAssumption
    <3> QED
      BY <3>1
  <2> HIDE DEF t
  <2> QED
    BY <1>1, <2>1 DEF SumsTo
<1>2. IsSum(sum)
  <2> HIDE DEF IsSum
  <2>1. \E s : IsSum(s)
    BY <1>1, SumExists, StringLibAssumption
  <2> QED
    BY <2>1
<1>3. Word(mem, a) = sum[WordBytes]
  BY DEF Word
<1> HIDE DEF sum
<1>4. \A j \in 0 .. WordBytes :
        sum[j] = IF j = 0 THEN 0
                 ELSE sum[j - 1] + mem[a + j - 1] * 2^(ByteBits * (j - 1))
  BY <1>2, Zenon
<1>5. sum[0] = 0
  BY <1>4, StringLibAssumption
<1>6. ASSUME NEW j \in 0 .. WordBytes - 1
      PROVE  sum[j + 1] = sum[j] + ByteAt(mem, a)[j] * 2^(ByteBits * j)
  <2>1. j + 1 \in 0 .. WordBytes /\ j + 1 # 0 /\ (j + 1) - 1 = j /\ a + (j + 1) - 1 = a + j
    BY StringLibAssumption
  <2>2. sum[j + 1] = sum[(j + 1) - 1] + mem[a + (j + 1) - 1] * 2^(ByteBits * ((j + 1) - 1))
    BY <1>4, <2>1, Zenon
  <2> QED
    BY <2>1, <2>2 DEF ByteAt
<1> QED
  BY <1>3, <1>5, <1>6 DEF Adds

LEMMA Weights ==
  ASSUME NEW k \in Nat
  PROVE  /\ ByteBits * k \in Nat /\ 2^(ByteBits * k) \in Nat \ {0}
         /\ 2^(ByteBits * (k + 1)) = Base * 2^(ByteBits * k)
         /\ Base \in Nat \ {0} /\ 2^(ByteBits * 0) = 1
<1>1. ByteBits * k \in Nat /\ ByteBits * (k + 1) = ByteBits * k + ByteBits /\ ByteBits * 0 = 0
  BY StringLibAssumption
<1>2. 2^(ByteBits * k + ByteBits) = 2^(ByteBits * k) * 2^ByteBits
  BY <1>1, StringLibAssumption, PowerOfSum
<1>3. 2^(ByteBits * k) \in Nat \ {0} /\ Base \in Nat \ {0}
  BY <1>1, StringLibAssumption, PowerPositive DEF Base
<1>4. \A x \in Nat, y \in Nat : x * y = y * x
  OBVIOUS
<1> QED
  BY <1>1, <1>2, <1>3, <1>4, PowerOfZero DEF Base

IsBytes(b, n) == \A j \in 0 .. n - 1 : b[j] \in 0 .. Base - 1

LEMMA AddsBelow ==
  ASSUME NEW n \in Nat, NEW b, NEW s, IsBytes(b, n), Adds(s, b, n), NEW k \in 0 .. n
  PROVE  s[k] \in Nat /\ s[k] < 2^(ByteBits * k)
<1> DEFINE S == {j \in Nat : j <= n => s[j] \in Nat /\ s[j] < 2^(ByteBits * j)}
<1>1. 0 \in S
  BY Weights DEF Adds
<1>2. ASSUME NEW j \in Nat, j \in S PROVE j + 1 \in S
  <2> SUFFICES ASSUME j + 1 <= n
               PROVE  s[j + 1] \in Nat /\ s[j + 1] < 2^(ByteBits * (j + 1))
    OBVIOUS
  <2> DEFINE p == 2^(ByteBits * j)
             c == b[j]
  <2>1. j \in 0 .. n - 1 /\ s[j] \in Nat /\ s[j] < p
    BY <1>2
  <2>2. s[j + 1] = s[j] + c * p /\ c \in 0 .. Base - 1
    BY <2>1 DEF Adds, IsBytes
  <2>3. p \in Nat /\ Base \in Nat /\ 2^(ByteBits * (j + 1)) = Base * p
    BY Weights
  <2> HIDE DEF p, c
  <2>4. p * (c + 1) <= p * Base
    BY <2>2, <2>3, TimesMonotone
  <2>5. p * (c + 1) = c * p + p /\ p * Base = Base * p /\ c * p \in Nat
    BY <2>2, <2>3
  <2> QED
    BY <2>1, <2>2, <2>3, <2>4, <2>5
<1> HIDE DEF S
<1>3. k \in S
  BY <1>1, <1>2, Induct
<1> QED
  BY <1>3 DEF S

LEMMA AddsAbove ==
  ASSUME NEW n \in Nat, NEW b, NEW s, IsBytes(b, n), Adds(s, b, n), NEW k \in 0 .. n
  PROVE  \E h \in Nat : s[n] = s[k] + 2^(ByteBits * k) * h
<1> DEFINE p == 2^(ByteBits * k)
           S == {m \in Nat : k + m <= n => \E h \in Nat : s[k + m] = s[k] + p * h}
<1>0. p \in Nat
  BY Weights
<1>1. 0 \in S
  <2>1. s[k] \in Nat /\ k + 0 = k
    BY AddsBelow
  <2>2. s[k + 0] = s[k] + p * 0
    BY <1>0, <2>1
  <2> QED
    BY <2>2
<1>2. ASSUME NEW m \in Nat, m \in S PROVE m + 1 \in S
  <2> SUFFICES ASSUME k + (m + 1) <= n
               PROVE  \E h \in Nat : s[k + (m + 1)] = s[k] + p * h
    OBVIOUS
  <2>1. k + m \in 0 .. n - 1 /\ (k + m) + 1 = k + (m + 1)
    OBVIOUS
  <2>2. PICK h \in Nat : s[k + m] = s[k] + p * h
    BY <1>2, <2>1
  <2> DEFINE c == b[k + m]
             q == 2^(ByteBits * m)
  <2>3. s[k + (m + 1)] = s[k + m] + c * 2^(ByteBits * (k + m)) /\ c \in 0 .. Base - 1
    BY <2>1 DEF Adds, IsBytes
  <2>4. 2^(ByteBits * (k + m)) = p * q /\ q \in Nat /\ Base \in Nat
    <3>1. ByteBits * (k + m) = ByteBits * k + ByteBits * m
          /\ ByteBits * k \in Nat /\ ByteBits * m \in Nat
      BY StringLibAssumption
    <3>2. 2^(ByteBits * k + ByteBits * m) = p * q
      BY <3>1, PowerOfSum
    <3>3. q \in Nat /\ Base \in Nat
      BY Weights
    <3> QED
      BY <3>1, <3>2, <3>3
  <2>5. s[k] \in Nat
    BY AddsBelow
  <2> HIDE DEF p, c, q, S
  <2>6. c \in Nat
    BY <2>3, <2>4
  <2>7. c * (p * q) = p * (q * c) /\ q * c \in Nat
    BY <1>0, <2>4, <2>6
  <2>8. p * (h + q * c) = p * h + p * (q * c) /\ h + q * c \in Nat
    BY <1>0, <2>7
  <2>9. p * h \in Nat /\ p * (q * c) \in Nat
    BY <1>0, <2>7
  <2>10. s[k + (m + 1)] = s[k] + p * (h + q * c)
    BY <2>2, <2>3, <2>4, <2>5, <2>7, <2>8, <2>9
  <2> QED
    BY <2>8, <2>10
<1> HIDE DEF S
<1>3. n - k \in Nat /\ k + (n - k) = n
  OBVIOUS
<1>4. n - k \in S
  BY <1>1, <1>2, <1>3, Induct
<1> QED
  BY <1>3, <1>4 DEF S

\* A sum of bytes, seen from its k-th one.
LEMMA AddsAt ==
  ASSUME NEW n \in Nat, NEW b, NEW s, IsBytes(b, n), Adds(s, b, n), NEW k \in 0 .. n - 1
  PROVE  \E h \in Nat : s[n] = s[k] + 2^(ByteBits * k) * (b[k] + Base * h)
<1> DEFINE p == 2^(ByteBits * k)
           c == b[k]
<1>1. k + 1 \in 0 .. n
  OBVIOUS
<1>2. PICK h \in Nat : s[n] = s[k + 1] + 2^(ByteBits * (k + 1)) * h
  BY <1>1, AddsAbove
<1>3. s[k + 1] = s[k] + c * p /\ c \in 0 .. Base - 1 /\ s[k] \in Nat
  BY AddsBelow DEF Adds, IsBytes
<1>4. 2^(ByteBits * (k + 1)) = Base * p /\ p \in Nat /\ Base \in Nat
  BY Weights
<1> HIDE DEF p, c
<1>5. c \in Nat /\ Base * h \in Nat
  BY <1>3, <1>4
<1>6. p * (c + Base * h) = c * p + (Base * p) * h
  <2>1. p * (c + Base * h) = p * c + p * (Base * h)
    BY <1>4, <1>5
  <2>2. p * c = c * p /\ p * (Base * h) = (Base * p) * h
    BY <1>4, <1>5
  <2> QED
    BY <2>1, <2>2
<1>7. c * p \in Nat /\ (Base * p) * h \in Nat
  BY <1>4, <1>5
<1> QED
  <2>1. s[n] = s[k] + p * (c + Base * h)
    BY <1>2, <1>3, <1>4, <1>6, <1>7
  <2> QED
    BY <2>1 DEF p, c

\* The k-th byte of a number, and the highest bit of it.
LEMMA ByteOf ==
  ASSUME NEW k \in Nat, NEW l \in Nat, l < 2^(ByteBits * k), NEW c \in 0 .. Base - 1,
         NEW h \in Nat
  PROVE  LET x == l + 2^(ByteBits * k) * (c + Base * h)
         IN /\ (x \div 2^(ByteBits * k)) % Base = c
            /\ Bit(x, ByteBits * k + ByteBits - 1) = IF c >= 2^(ByteBits - 1) THEN 1 ELSE 0
<1> DEFINE p == 2^(ByteBits * k)
           t == 2^(ByteBits - 1)
           x == l + p * (c + Base * h)
<1> SUFFICES /\ (x \div p) % Base = c
             /\ Bit(x, ByteBits * k + ByteBits - 1) = IF c >= t THEN 1 ELSE 0
  OBVIOUS
<1>1. p \in Nat \ {0} /\ Base \in Nat \ {0} /\ l \in 0 .. p - 1
  BY Weights
<1>2. ByteBits - 1 \in Nat /\ ByteBits * k \in Nat
      /\ ByteBits * k + ByteBits - 1 = ByteBits * k + (ByteBits - 1)
  BY StringLibAssumption
<1>3. t \in Nat \ {0} /\ Base = 2 * t
  <2>1. (ByteBits - 1) + 1 = ByteBits
    BY <1>2, StringLibAssumption
  <2> QED
    BY <1>2, <2>1, PowerOfNext, PowerPositive DEF Base
<1>4. 2^(ByteBits * k + ByteBits - 1) = p * t
  BY <1>2, PowerOfSum
<1>5. Bit(x, ByteBits * k + ByteBits - 1) = (x \div (p * t)) % 2
  BY <1>4 DEF Bit
<1> HIDE DEF p, t
<1>6. c \in Nat /\ Base * h \in Nat /\ c + Base * h \in Nat
  BY <1>1
<1>7. (x \div p) % Base = c
  <2>1. x \in Nat
    BY <1>1, <1>6
  <2>2. x \div p = c + Base * h
    <3>1. x = p * (c + Base * h) + l
      BY <1>1, <1>6
    <3> HIDE DEF x
    <3> QED
      BY <1>1, <1>6, <2>1, <3>1, QuotientIs
  <2>3. c + Base * h = Base * h + c
    BY <1>6
  <2> QED
    BY <1>1, <1>6, <2>2, <2>3, QuotientIs
<1> DEFINE top == IF c >= t THEN 1 ELSE 0
           low == c - t * top
<1>8. top \in 0 .. 1 /\ low \in 0 .. t - 1 /\ c = t * top + low /\ low \in Nat
  <2>1. CASE c >= t
    BY <1>1, <1>3, <1>6, <2>1
  <2>2. CASE c < t
    BY <1>1, <1>3, <1>6, <2>2
  <2> QED
    BY <1>3, <1>6, <2>1, <2>2
<1> HIDE DEF top, low
<1>9. (x \div (p * t)) % 2 = top
  <2> DEFINE y == top + 2 * h
             r == l + p * low
  <2>1. x = (p * t) * y + r
    <3>1. c + Base * h = t * y + low
      <4>1. t * y = t * top + (2 * t) * h
        BY <1>3, <1>8
      <4> QED
        BY <1>3, <1>6, <1>8, <4>1
    <3> HIDE DEF y
    <3>2. y \in Nat
      BY <1>8 DEF y
    <3>3. p * (t * y + low) = (p * t) * y + p * low
      <4>1. p * (t * y + low) = p * (t * y) + p * low
        BY <1>1, <1>3, <1>8, <3>2
      <4>2. p * (t * y) = (p * t) * y
        BY <1>1, <1>3, <3>2
      <4> QED
        BY <4>1, <4>2
    <3>4. (p * t) * y \in Nat /\ p * low \in Nat
      BY <1>1, <1>3, <1>8, <3>2
    <3> QED
      BY <1>1, <3>1, <3>3, <3>4
  <2>2. p * t \in Nat \ {0}
    BY <1>1, <1>3
  <2>3. r \in 0 .. p * t - 1
    <3>1. p * (low + 1) <= p * t
      BY <1>1, <1>3, <1>8, TimesMonotone
    <3>2. p * (low + 1) = p * low + p /\ p * low \in Nat
      BY <1>1, <1>8
    <3> QED
      BY <1>1, <2>2, <3>1, <3>2
  <2>4. y \in Nat /\ r \in Nat
    BY <1>1, <1>8
  <2> HIDE DEF y, r
  <2>5. x \in Nat
    BY <1>1, <1>6
  <2> HIDE DEF x
  <2>6. x \div (p * t) = y
    BY <2>1, <2>2, <2>3, <2>4, <2>5, QuotientIs
  <2>7. y = 2 * h + top /\ y \in Nat
    BY <1>8, <2>4 DEF y
  <2> QED
    BY <1>8, <2>6, <2>7, QuotientIs
<1> QED
  BY <1>5, <1>7, <1>9 DEF top

OneEach == ByteAt([x \in 0 .. WordBytes - 1 |-> 1], 0)

LEMMA OnesAdd == /\ \E o : Adds(o, OneEach, WordBytes) /\ Ones = o[WordBytes]
                 /\ \A j \in 0 .. WordBytes - 1 : OneEach[j] = 1
                 /\ IsBytes(OneEach, WordBytes)
<1>1. \E o : Adds(o, OneEach, WordBytes) /\ Ones = o[WordBytes]
  BY WordAdds DEF Ones, OneEach
<1>2. ASSUME NEW j \in 0 .. WordBytes - 1 PROVE OneEach[j] = 1
  <2>1. 0 + j = j
    BY StringLibAssumption
  <2> QED
    BY <2>1 DEF OneEach, ByteAt
<1>3. 1 \in 0 .. Base - 1
  <2>1. ByteBits - 1 \in Nat /\ (ByteBits - 1) + 1 = ByteBits
    BY StringLibAssumption
  <2>2. Base = 2 * 2^(ByteBits - 1) /\ 2^(ByteBits - 1) \in Nat \ {0}
    BY <2>1, PowerOfNext, PowerPositive DEF Base
  <2> QED
    BY <2>2
<1> QED
  BY <1>1, <1>2, <1>3 DEF IsBytes

\* Below the first zero byte nothing is borrowed.
LEMMA NoBorrow ==
  ASSUME NEW k \in 0 .. WordBytes, NEW b, NEW s, NEW o,
         IsBytes(b, WordBytes), Adds(s, b, WordBytes), Adds(o, OneEach, WordBytes),
         \A j \in 0 .. k - 1 : b[j] # 0
  PROVE  \E d, e : /\ Adds(d, e, k) /\ IsBytes(e, k) /\ d[k] = s[k] - o[k]
                   /\ \A j \in 0 .. k - 1 : e[j] = b[j] - 1
<1> DEFINE d == [j \in 0 .. k |-> s[j] - o[j]]
           e == [j \in 0 .. k |-> b[j] - 1]
<1>0. k \in Nat /\ k <= WordBytes /\ WordBytes \in Nat
  BY StringLibAssumption
<1>1. \A j \in 0 .. k - 1 : e[j] = b[j] - 1
  BY <1>0
<1>2. d[k] = s[k] - o[k] /\ d[0] = 0
  BY <1>0 DEF Adds
<1>3. ASSUME NEW j \in 0 .. k - 1 PROVE e[j] \in 0 .. Base - 1
  <2>1. j \in 0 .. WordBytes - 1 /\ b[j] # 0
    BY <1>0
  <2>2. b[j] \in 0 .. Base - 1 /\ Base \in Nat
    BY <2>1, Weights DEF IsBytes
  <2> QED
    BY <1>1, <2>1, <2>2
<1>4. ASSUME NEW j \in 0 .. k - 1
      PROVE  d[j + 1] = d[j] + e[j] * 2^(ByteBits * j)
  <2> DEFINE p == 2^(ByteBits * j)
             c == b[j]
  <2>1. j \in 0 .. WordBytes - 1 /\ j \in 0 .. k /\ j + 1 \in 0 .. k /\ j \in Nat
        /\ j \in 0 .. WordBytes
    BY <1>0
  <2>2. s[j + 1] = s[j] + c * p /\ o[j + 1] = o[j] + 1 * p
    BY <2>1, OnesAdd DEF Adds
  <2>3. c \in Nat /\ p \in Nat
    BY <2>1, Weights DEF IsBytes
  <2>4. s[j] \in Nat /\ o[j] \in Nat
    BY <1>0, <2>1, AddsBelow, OnesAdd
  <2>5. e[j] = c - 1
    BY <1>1
  <2>6. d[j + 1] = s[j + 1] - o[j + 1] /\ d[j] = s[j] - o[j]
    BY <2>1
  <2> HIDE DEF p, c, d, e
  <2>7. (c - 1) * p = c * p - 1 * p /\ c * p \in Int /\ 1 * p = p
    BY <2>3
  <2>8. d[j + 1] = d[j] + (c - 1) * p
    BY <2>2, <2>3, <2>4, <2>6, <2>7
  <2> QED
    BY <2>5, <2>8 DEF p
<1> HIDE DEF d, e
<1>5. Adds(d, e, k)
  BY <1>2, <1>4 DEF Adds
<1>6. IsBytes(e, k)
  BY <1>3 DEF IsBytes
<1> QED
  BY <1>1, <1>2, <1>5, <1>6

LEMMA HighBitOf ==
  ASSUME NEW n \in Nat, NEW b, NEW s, IsBytes(b, n), Adds(s, b, n), NEW k \in 0 .. n - 1
  PROVE  /\ (s[n] \div 2^(ByteBits * k)) % Base = b[k]
         /\ Bit(s[n], ByteBits * k + ByteBits - 1)
              = IF b[k] >= 2^(ByteBits - 1) THEN 1 ELSE 0
<1>1. PICK h \in Nat : s[n] = s[k] + 2^(ByteBits * k) * (b[k] + Base * h)
  BY AddsAt
<1>2. s[k] \in Nat /\ s[k] < 2^(ByteBits * k) /\ b[k] \in 0 .. Base - 1 /\ k \in Nat
  BY AddsBelow DEF IsBytes
<1> QED
  BY <1>1, <1>2, ByteOf

\* The place of the highest bit of the k-th byte.
LEMMA HighBitAt ==
  /\ \A k \in 0 .. WordBytes - 1 : ByteBits * k + ByteBits - 1 \in HighBits
  /\ \A i \in HighBits : \E k \in 0 .. WordBytes - 1 : i = ByteBits * k + ByteBits - 1
<1>1. \A k \in 0 .. WordBytes - 1 : ByteBits * (k + 1) - 1 = ByteBits * k + ByteBits - 1
  BY StringLibAssumption
<1> QED
  BY <1>1 DEF HighBits

LEMMA NoZeroByte ==
  ASSUME NEW b, NEW s, IsBytes(b, WordBytes), Adds(s, b, WordBytes),
         \A j \in 0 .. WordBytes - 1 : b[j] # 0
  PROVE  ~DETECTNULL(s[WordBytes])
<1>0. WordBytes \in Nat
  BY StringLibAssumption
<1>1. PICK o : Adds(o, OneEach, WordBytes) /\ Ones = o[WordBytes]
  BY OnesAdd
<1>2. WordBytes \in 0 .. WordBytes
  BY <1>0
<1>3. PICK d, e : /\ Adds(d, e, WordBytes) /\ IsBytes(e, WordBytes)
                  /\ d[WordBytes] = s[WordBytes] - o[WordBytes]
                  /\ \A j \in 0 .. WordBytes - 1 : e[j] = b[j] - 1
  BY <1>1, <1>2, NoBorrow
<1> DEFINE x == s[WordBytes]
           y == x - Ones
           M == 2^(ByteBits * WordBytes)
<1>4. y = d[WordBytes] /\ y \in Nat /\ y < M
  BY <1>0, <1>1, <1>2, <1>3, AddsBelow
<1>5. M \in Nat \ {0}
  BY <1>0, Weights
<1>6. y % M = y
  <2> HIDE DEF y, M
  <2>1. y = M * 0 + y /\ y \in 0 .. M - 1
    BY <1>4, <1>5
  <2> QED
    BY <1>4, <1>5, <2>1, QuotientIs
<1>7. ASSUME NEW i \in HighBits, Bit(y % M, i) = 1 PROVE Bit(x, i) # 0
  <2>1. PICK k \in 0 .. WordBytes - 1 : i = ByteBits * k + ByteBits - 1
    BY HighBitAt
  <2>2. Bit(y, i) = IF e[k] >= 2^(ByteBits - 1) THEN 1 ELSE 0
    BY <1>0, <1>3, <1>4, <2>1, HighBitOf
  <2>3. Bit(x, i) = IF b[k] >= 2^(ByteBits - 1) THEN 1 ELSE 0
    BY <1>0, <2>1, HighBitOf
  <2>4. e[k] = b[k] - 1 /\ b[k] \in Int
    BY <1>3 DEF IsBytes
  <2>5. 2^(ByteBits - 1) \in Nat
    BY StringLibAssumption, PowerPositive
  <2> HIDE DEF x, y, M
  <2>6. Bit(y, i) = 1
    BY <1>6, <1>7
  <2>7. e[k] >= 2^(ByteBits - 1)
    BY <2>2, <2>6
  <2> QED
    BY <2>3, <2>4, <2>5, <2>7
<1> QED
  BY <1>7, Zenon DEF DETECTNULL

LEMMA ZeroByte ==
  ASSUME NEW b, NEW s, IsBytes(b, WordBytes), Adds(s, b, WordBytes),
         \E j \in 0 .. WordBytes - 1 : b[j] = 0
  PROVE  DETECTNULL(s[WordBytes])
<1>0. WordBytes \in Nat
  BY StringLibAssumption
<1>1. PICK o : Adds(o, OneEach, WordBytes) /\ Ones = o[WordBytes]
  BY OnesAdd
<1>2. PICK k \in 0 .. WordBytes - 1 : b[k] = 0 /\ \A j \in 0 .. k - 1 : b[j] # 0
  <2> DEFINE Z == {j \in 0 .. WordBytes - 1 : b[j] = 0}
  <2>1. Z \in SUBSET Nat /\ Z # {}
    OBVIOUS
  <2>2. PICK k \in Z : \A j \in Z : k <= j
    <3> HIDE DEF Z
    <3> QED
      BY <2>1, LeastOf
  <2>3. ASSUME NEW j \in 0 .. k - 1 PROVE b[j] # 0
    <3>1. j \in 0 .. WordBytes - 1 /\ ~(k <= j)
      BY <1>0, <2>2
    <3> QED
      BY <2>2, <3>1
  <2> QED
    BY <2>2, <2>3
<1> DEFINE x == s[WordBytes]
           i == ByteBits * k + ByteBits - 1
           p == 2^(ByteBits * k)
           M == 2^(ByteBits * WordBytes)
           z == (x - Ones) % M
<1>3. k \in 0 .. WordBytes /\ k \in Nat
  BY <1>0
<1>4. p \in Nat \ {0} /\ M \in Nat \ {0} /\ Base \in Nat \ {0}
  BY <1>0, <1>3, Weights
<1>5. PICK h \in Nat : x = s[k] + p * (b[k] + Base * h)
  BY <1>0, AddsAt
<1>6. PICK g \in Nat : Ones = o[k] + p * (1 + Base * g)
  <2>1. IsBytes(OneEach, WordBytes) /\ OneEach[k] = 1
    BY OnesAdd
  <2>2. PICK g \in Nat : o[WordBytes] = o[k] + p * (OneEach[k] + Base * g)
    BY <1>0, <1>1, <2>1, AddsAt
  <2> QED
    BY <1>1, <2>1, <2>2
<1> DEFINE l == s[k] - o[k]
<1>7. l \in Nat /\ l < p
  <2>1. PICK d, e : Adds(d, e, k) /\ IsBytes(e, k) /\ d[k] = s[k] - o[k]
    BY <1>1, <1>2, <1>3, NoBorrow
  <2>2. k \in 0 .. k
    BY <1>3
  <2> QED
    BY <1>3, <2>1, <2>2, AddsBelow
<1>8. s[k] \in Nat /\ o[k] \in Nat
  BY <1>0, <1>1, <1>3, OnesAdd, AddsBelow
<1>9. PICK q \in Nat \ {0} : M = (p * Base) * q
  <2>1. k + 1 \in Nat /\ ByteBits * (k + 1) \in Nat /\ ByteBits * WordBytes \in Nat
    BY <1>3, <1>0, StringLibAssumption
  <2>2. ByteBits * (k + 1) <= ByteBits * WordBytes
    <3>1. k + 1 <= WordBytes /\ ByteBits \in Nat
      BY <1>0, StringLibAssumption
    <3> QED
      BY <1>0, <2>1, <3>1, TimesMonotone
  <2>3. \E q \in Nat \ {0} : M = 2^(ByteBits * (k + 1)) * q
    BY <2>1, <2>2, PowerDivides
  <2>4. 2^(ByteBits * (k + 1)) = Base * p /\ Base * p = p * Base
    BY <1>3, <1>4, Weights
  <2> QED
    BY <2>3, <2>4
<1>10. Bit(z, i) = 1
  <2> DEFINE u == h - g - 1
  <2> HIDE DEF x, p, l, M
  <2>1. x - Ones = l + p * (Base - 1 + Base * u)
    <3>1. Base * u = Base * h - Base * g - Base /\ Base * h \in Nat /\ Base * g \in Nat
      BY <1>4
    <3>2. p * (Base - 1 + Base * u) = p * (Base * h) - p * (1 + Base * g)
      <4> DEFINE v == Base * h
                 w == Base * g
      <4>1. v \in Nat /\ w \in Nat /\ Base - 1 + Base * u = v - (1 + w)
        BY <1>4, <3>1
      <4> HIDE DEF v, w, u
      <4>2. p * (v - (1 + w)) = p * v - p * (1 + w)
        BY <1>4, <4>1
      <4> QED
        BY <4>1, <4>2 DEF v, w
    <3>3. b[k] + Base * h = Base * h
      BY <1>2, <3>1
    <3>4. p * (Base * h) \in Nat /\ p * (1 + Base * g) \in Nat
      BY <1>4, <3>1
    <3> QED
      BY <1>5, <1>6, <1>8, <3>2, <3>3, <3>4 DEF l
  <2>2. PICK t \in Int : x - Ones = M * t + z /\ z \in 0 .. M - 1
    <3>1. x - Ones \in Int
      <4>1. Base - 1 + Base * u \in Int
        BY <1>4
      <4> HIDE DEF u
      <4>2. p * (Base - 1 + Base * u) \in Int
        BY <1>4, <4>1
      <4> QED
        BY <1>7, <2>1, <4>2
    <3>2. \A a \in Int : a = M * (a \div M) + (a % M) /\ a % M \in 0 .. M - 1 /\ a \div M \in Int
      BY <1>4
    <3> QED
      BY <3>1, <3>2
  <2> DEFINE r == u - q * t
  <2>3. u \in Int /\ r \in Int
    BY <1>9, <2>2
  <2> HIDE DEF z, u
  <2>4. z = l + p * (Base - 1 + Base * r)
    <3>1. M * t = p * (Base * (q * t))
      <4>1. q * t \in Int /\ p * Base \in Nat
        BY <1>4, <1>9, <2>2
      <4>2. ((p * Base) * q) * t = (p * Base) * (q * t)
        BY <1>9, <2>2, <4>1
      <4>3. (p * Base) * (q * t) = p * (Base * (q * t))
        BY <1>4, <4>1
      <4> QED
        BY <1>9, <4>2, <4>3
    <3> DEFINE v == q * t
    <3>2. v \in Int
      BY <1>9, <2>2
    <3> HIDE DEF v
    <3>3. Base * (u - v) = Base * u - Base * v /\ Base * u \in Int /\ Base * v \in Int
      BY <1>4, <2>3, <3>2
    <3>4. p * (Base - 1 + Base * (u - v)) = p * (Base - 1 + Base * u) - p * (Base * v)
      <4> DEFINE a == Base - 1 + Base * u
                 c == Base * v
      <4>1. a \in Int /\ c \in Int /\ Base - 1 + Base * (u - v) = a - c
        BY <1>4, <3>3
      <4> HIDE DEF a, c
      <4>2. p * (a - c) = p * a - p * c
        BY <1>4, <4>1
      <4> QED
        BY <4>1, <4>2 DEF a, c
    <3>5. p * (Base - 1 + Base * u) \in Int /\ p * (Base * v) \in Int
      <4>1. Base - 1 + Base * u \in Int
        BY <1>4, <3>3
      <4> QED
        BY <1>4, <3>3, <4>1
    <3>6. z = (x - Ones) - p * (Base * v)
      BY <2>2, <3>1, <3>5 DEF v
    <3> QED
      BY <1>7, <2>1, <3>4, <3>5, <3>6 DEF v
  <2>5. r >= 0
    <3> HIDE DEF r
    <3> SUFFICES ASSUME r < 0 PROVE FALSE
      BY <2>3
    <3>1. 0 - r - 1 \in Nat
      BY <2>3
    <3>2. Base * (0 - r - 1) = 0 - Base * r - Base /\ Base * (0 - r - 1) \in Nat
          /\ Base * r \in Int
      BY <1>4, <2>3, <3>1
    <3> DEFINE w == 0 - (Base - 1 + Base * r) - 1
    <3>3. w \in Nat /\ Base - 1 + Base * r = 0 - (w + 1)
      BY <1>4, <3>2
    <3> HIDE DEF w
    <3>4. p * (0 - (w + 1)) = 0 - p * w - p /\ p * w \in Nat
      BY <1>4, <3>3
    <3> QED
      BY <1>4, <1>7, <2>2, <2>4, <3>3, <3>4
  <2>6. r \in Nat /\ Base - 1 \in 0 .. Base - 1
    BY <1>4, <2>3, <2>5
  <2> HIDE DEF r, i
  <2>7. Bit(l + p * (Base - 1 + Base * r), i)
          = IF Base - 1 >= 2^(ByteBits - 1) THEN 1 ELSE 0
    BY <1>3, <1>7, <2>6, ByteOf DEF p, i
  <2>8. Base - 1 >= 2^(ByteBits - 1)
    <3>1. ByteBits - 1 \in Nat /\ (ByteBits - 1) + 1 = ByteBits
      BY StringLibAssumption
    <3>2. Base = 2 * 2^(ByteBits - 1) /\ 2^(ByteBits - 1) \in Nat \ {0}
      BY <3>1, PowerOfNext, PowerPositive DEF Base
    <3> QED
      BY <3>2
  <2> QED
    BY <2>4, <2>7, <2>8
<1>11. Bit(x, i) = 0
  <2>1. Bit(x, i) = IF b[k] >= 2^(ByteBits - 1) THEN 1 ELSE 0
    BY <1>0, HighBitOf
  <2>2. ~(0 >= 2^(ByteBits - 1))
    BY StringLibAssumption, PowerPositive
  <2> QED
    BY <1>2, <2>1, <2>2
<1>12. i \in HighBits
  BY HighBitAt
<1> QED
  BY <1>10, <1>11, <1>12, Zenon DEF DETECTNULL

-----------------------------------------------------------------------------
(* What strlen and strcmp find.                                            *)

Size == MemoryWords * WordBytes
Bytes == 0 .. Base - 1
Memory == [0 .. Size - 1 -> Bytes]

\* A string begins at a, and has z characters.
HasString(m, a, z) ==
  m[a + z] = 0 /\ \A j \in 0 .. z - 1 : m[a + j] # 0

LEMMA StringEnds ==
  ASSUME NEW m \in Memory, NEW a \in Nat, \E x \in DOMAIN m : x >= a /\ m[x] = 0
  PROVE  \E z \in Nat : /\ HasString(m, a, z) /\ a + z < Size
                        /\ Text(m, a) \in Seq(Bytes) /\ Len(Text(m, a)) = z
                        /\ \A j \in 0 .. z - 1 : Text(m, a)[j + 1] = m[a + j]
<1>0. Size \in Nat /\ DOMAIN m = 0 .. Size - 1 /\ \A x \in 0 .. Size - 1 : m[x] \in Bytes
  BY StringLibAssumption, LibrariesAssumption DEF Size, Memory
<1> DEFINE E(x) == x >= a /\ m[x] = 0 /\ \A y \in a .. x - 1 : m[y] # 0
<1>1. \E x \in DOMAIN m : E(x)
  <2> DEFINE Z == {x \in DOMAIN m : x >= a /\ m[x] = 0}
  <2>1. Z \in SUBSET Nat /\ Z # {}
    BY <1>0
  <2>2. PICK x \in Z : \A y \in Z : x <= y
    <3> HIDE DEF Z
    <3> QED
      BY <2>1, LeastOf
  <2>3. ASSUME NEW y \in a .. x - 1 PROVE m[y] # 0
    <3>1. y \in DOMAIN m /\ y >= a /\ ~(x <= y)
      BY <1>0, <2>2
    <3> QED
      BY <2>2, <3>1
  <2> QED
    BY <2>2, <2>3
<1> DEFINE x == EndOfString(m, a)
           z == x - a
<1>2. x \in DOMAIN m /\ E(x)
  <2>1. x = CHOOSE y \in DOMAIN m : E(y)
    BY DEF EndOfString
  <2> HIDE DEF x, E
  <2> QED
    BY <1>1, <2>1
<1>3. z \in Nat /\ a + z = x /\ a + z < Size
  <2> HIDE DEF x
  <2> QED
    BY <1>0, <1>2
<1>4. Text(m, a) = [k \in 1 .. z |-> m[a + k - 1]]
  BY DEF Text
<1> HIDE DEF x, z
<1>5. ASSUME NEW j \in 0 .. z - 1
      PROVE  m[a + j] # 0 /\ m[a + j] \in Bytes /\ Text(m, a)[j + 1] = m[a + j]
  <2>1. a + j \in a .. x - 1 /\ a + j \in 0 .. Size - 1
    BY <1>0, <1>3
  <2>2. j + 1 \in 1 .. z /\ a + (j + 1) - 1 = a + j
    BY <1>3
  <2> QED
    BY <1>0, <1>2, <1>4, <2>1, <2>2
<1>6. HasString(m, a, z)
  BY <1>2, <1>3, <1>5 DEF HasString
<1>7. Text(m, a) \in Seq(Bytes) /\ Len(Text(m, a)) = z
  <2>1. \A k \in 1 .. z : m[a + k - 1] \in Bytes
    <3>1. \A k \in 1 .. z : a + k - 1 \in 0 .. Size - 1
      BY <1>0, <1>3
    <3> QED
      BY <1>0, <3>1
  <2> QED
    BY <1>3, <1>4, <2>1
<1> QED
  BY <1>3, <1>5, <1>6, <1>7

\* The strings are the same up to their n-th characters, where they differ or end.
Parts(m1, a1, m2, a2, n) ==
  /\ m1[a1 + n] = 0 \/ m1[a1 + n] # m2[a2 + n]
  /\ \A j \in 0 .. n - 1 : m1[a1 + j] # 0 /\ m1[a1 + j] = m2[a2 + j]

LEMMA StringsPart ==
  ASSUME NEW m1, NEW a1 \in Nat, NEW m2, NEW a2 \in Nat,
         NEW y \in Nat, NEW z \in Nat, HasString(m1, a1, y), HasString(m2, a2, z)
  PROVE  \E n \in Nat : Parts(m1, a1, m2, a2, n) /\ n <= y /\ n <= z
<1> DEFINE D == {n \in Nat : m1[a1 + n] = 0 \/ m1[a1 + n] # m2[a2 + n]}
<1>1. y \in D /\ z \in D
  BY DEF HasString
<1>2. PICK n \in D : \A j \in D : n <= j
  <2>1. D \in SUBSET Nat /\ D # {}
    BY <1>1
  <2> HIDE DEF D
  <2> QED
    BY <2>1, LeastOf
<1>3. n <= y /\ n <= z
  BY <1>1, <1>2
<1>4. ASSUME NEW j \in 0 .. n - 1 PROVE m1[a1 + j] # 0 /\ m1[a1 + j] = m2[a2 + j]
  <2>1. j \in Nat /\ ~(n <= j)
    BY <1>2
  <2>2. j \notin D
    BY <1>2, <2>1
  <2> QED
    BY <2>1, <2>2
<1> QED
  BY <1>2, <1>3, <1>4 DEF Parts

\* The dictionary decides at the first difference.
LEMMA BeforeIs ==
  ASSUME NEW s \in Seq(Bytes), NEW t \in Seq(Bytes), NEW m1, NEW a1 \in Nat, NEW m2,
         NEW a2 \in Nat, NEW n \in Nat,
         Parts(m1, a1, m2, a2, n), n <= Len(s), n <= Len(t),
         HasString(m1, a1, Len(s)), HasString(m2, a2, Len(t)),
         \A j \in 0 .. Len(s) - 1 : s[j + 1] = m1[a1 + j],
         \A j \in 0 .. Len(t) - 1 : t[j + 1] = m2[a2 + j]
  PROVE  Before(s, t) <=> m1[a1 + n] < m2[a2 + n]
<1>0. /\ Len(s) \in Nat /\ Len(t) \in Nat /\ Bytes \subseteq Nat
      /\ \A i \in 1 .. Len(s) : s[i] \in Bytes
      /\ \A i \in 1 .. Len(t) : t[i] \in Bytes
  <2>1. Base \in Nat
    BY Weights, 0 \in Nat
  <2>2. Bytes \subseteq Nat
    BY <2>1 DEF Bytes
  <2> QED
    BY <2>2, LenProperties
<1>1. ASSUME NEW i \in Nat, i <= Len(s), i <= Len(t)
      PROVE  SubSeq(s, 1, i) = SubSeq(t, 1, i)
               <=> \A j \in 0 .. i - 1 : m1[a1 + j] = m2[a2 + j]
  <2>1. /\ SubSeq(s, 1, i) \in Seq(Bytes) /\ Len(SubSeq(s, 1, i)) = i
        /\ \A k \in 1 .. i : SubSeq(s, 1, i)[k] = s[k]
    <3>1. \A k \in 1 .. i : s[k] \in Bytes
      BY <1>0, <1>1
    <3>2. /\ SubSeq(s, 1, i) \in Seq(Bytes)
          /\ Len(SubSeq(s, 1, i)) = IF 1 <= i THEN i - 1 + 1 ELSE 0
          /\ \A k \in 1 .. i - 1 + 1 : SubSeq(s, 1, i)[k] = s[1 + k - 1]
      BY <3>1, SubSeqProperties
    <3> QED
      BY <3>2
  <2>2. /\ SubSeq(t, 1, i) \in Seq(Bytes) /\ Len(SubSeq(t, 1, i)) = i
        /\ \A k \in 1 .. i : SubSeq(t, 1, i)[k] = t[k]
    <3>1. \A k \in 1 .. i : t[k] \in Bytes
      BY <1>0, <1>1
    <3>2. /\ SubSeq(t, 1, i) \in Seq(Bytes)
          /\ Len(SubSeq(t, 1, i)) = IF 1 <= i THEN i - 1 + 1 ELSE 0
          /\ \A k \in 1 .. i - 1 + 1 : SubSeq(t, 1, i)[k] = t[1 + k - 1]
      BY <3>1, SubSeqProperties
    <3> QED
      BY <3>2
  <2>3. \A j \in 0 .. i - 1 : j + 1 \in 1 .. i /\ s[j + 1] = m1[a1 + j] /\ t[j + 1] = m2[a2 + j]
    BY <1>0, <1>1
  <2>4. ASSUME SubSeq(s, 1, i) = SubSeq(t, 1, i), NEW j \in 0 .. i - 1
        PROVE  m1[a1 + j] = m2[a2 + j]
    BY <2>1, <2>2, <2>3, <2>4
  <2>5. ASSUME \A j \in 0 .. i - 1 : m1[a1 + j] = m2[a2 + j]
        PROVE  SubSeq(s, 1, i) = SubSeq(t, 1, i)
    <3>1. ASSUME NEW k \in 1 .. i PROVE SubSeq(s, 1, i)[k] = SubSeq(t, 1, i)[k]
      <4>1. k - 1 \in 0 .. i - 1 /\ (k - 1) + 1 = k
        OBVIOUS
      <4>2. m1[a1 + (k - 1)] = m2[a2 + (k - 1)]
        BY <2>5, <4>1, Zenon
      <4>3. s[k] = m1[a1 + (k - 1)] /\ t[k] = m2[a2 + (k - 1)]
        BY <2>3, <4>1, Zenon
      <4> QED
        BY <2>1, <2>2, <4>2, <4>3, Zenon
    <3> QED
      BY <2>1, <2>2, <3>1, SeqEqual
  <2> QED
    BY <2>4, <2>5
<1>2. ASSUME m1[a1 + n] < m2[a2 + n] PROVE Before(s, t)
  <2>0. \A j \in 0 .. n - 1 : m1[a1 + j] = m2[a2 + j]
    BY DEF Parts
  <2>1. n < Len(t)
    <3> SUFFICES ASSUME n = Len(t) PROVE FALSE
      BY <1>0
    <3>1. m2[a2 + n] = 0
      BY DEF HasString
    <3>2. n < Len(s) => m1[a1 + n] \in Nat
      <4> SUFFICES ASSUME n < Len(s) PROVE m1[a1 + n] \in Nat
        OBVIOUS
      <4>1. n \in 0 .. Len(s) - 1 /\ n + 1 \in 1 .. Len(s)
        BY <1>0
      <4> QED
        BY <1>0, <4>1
    <3>3. n = Len(s) => m1[a1 + n] = 0
      BY DEF HasString
    <3> QED
      BY <1>0, <1>2, <3>1, <3>2, <3>3
  <2>2. n < Len(s) => s[n + 1] < t[n + 1]
    BY <1>0, <1>2, <2>1
  <2>3. n \in 0 .. Len(s) /\ SubSeq(s, 1, n) = SubSeq(t, 1, n)
    <3>1. SubSeq(s, 1, n) = SubSeq(t, 1, n)
      BY <1>1, <2>0, Zenon
    <3> QED
      BY <1>0, <3>1
  <2> QED
    BY <2>1, <2>2, <2>3 DEF Before
<1>3. ASSUME Before(s, t) PROVE m1[a1 + n] < m2[a2 + n]
  <2>1. PICK i \in 0 .. Len(s) : /\ i < Len(t) /\ SubSeq(s, 1, i) = SubSeq(t, 1, i)
                                 /\ i < Len(s) => s[i + 1] < t[i + 1]
    BY <1>3 DEF Before
  <2>2. i \in Nat /\ \A j \in 0 .. i - 1 : m1[a1 + j] = m2[a2 + j] /\ m1[a1 + j] # 0
    <3>0. i \in Nat /\ i <= Len(s) /\ i <= Len(t)
      BY <1>0, <2>1
    <3>1. i \in Nat /\ \A j \in 0 .. i - 1 : m1[a1 + j] = m2[a2 + j]
      BY <1>1, <2>1, <3>0, Zenon
    <3>2. \A j \in 0 .. i - 1 : j \in 0 .. Len(s) - 1
      BY <1>0, <2>1
    <3> QED
      BY <3>1, <3>2 DEF HasString
  <2>3. ~(n < i)
    BY <2>2 DEF Parts
  <2>4. m1[a1 + i] < m2[a2 + i] /\ m1[a1 + i] # m2[a2 + i]
    <3>1. i \in 0 .. Len(t) - 1 /\ i + 1 \in 1 .. Len(t)
      BY <1>0, <2>1
    <3>2. t[i + 1] = m2[a2 + i] /\ m2[a2 + i] # 0 /\ m2[a2 + i] \in Nat
      BY <1>0, <3>1 DEF HasString
    <3>3. CASE i < Len(s)
      <4>1. i \in 0 .. Len(s) - 1 /\ i + 1 \in 1 .. Len(s)
        BY <1>0, <2>1, <3>3
      <4> QED
        BY <1>0, <2>1, <3>2, <3>3, <4>1
    <3>4. CASE i = Len(s)
      <4>1. m1[a1 + i] = 0
        BY <3>4 DEF HasString
      <4> QED
        BY <3>2, <4>1
    <3> QED
      BY <1>0, <2>1, <3>3, <3>4
  <2>5. ~(i < n)
    <3> SUFFICES ASSUME i < n PROVE FALSE
      OBVIOUS
    <3>1. i \in 0 .. n - 1
      BY <2>2
    <3> QED
      BY <2>4, <3>1 DEF Parts
  <2> QED
    BY <2>2, <2>3, <2>4, <2>5
<1> QED
  BY <1>2, <1>3

LEMMA AddsSame ==
  ASSUME NEW n \in Nat, NEW b, NEW c, NEW s, NEW t, Adds(s, b, n), Adds(t, c, n),
         \A j \in 0 .. n - 1 : b[j] = c[j]
  PROVE  s[n] = t[n]
<1> DEFINE S == {k \in Nat : k <= n => s[k] = t[k]}
<1>1. 0 \in S
  BY DEF Adds
<1>2. ASSUME NEW k \in Nat, k \in S PROVE k + 1 \in S
  <2> SUFFICES ASSUME k + 1 <= n PROVE s[k + 1] = t[k + 1]
    OBVIOUS
  <2>1. k \in 0 .. n - 1 /\ s[k] = t[k]
    BY <1>2
  <2> QED
    BY <2>1 DEF Adds
<1> HIDE DEF S
<1>3. n \in S
  BY <1>1, <1>2, Induct
<1> QED
  BY <1>3 DEF S

LEMMA BytesOfWord ==
  ASSUME NEW m \in Memory, NEW a \in Nat, a + WordBytes <= Size
  PROVE  /\ IsBytes(ByteAt(m, a), WordBytes)
         /\ \A j \in 0 .. WordBytes - 1 : ByteAt(m, a)[j] = m[a + j]
<1>0. WordBytes \in Nat /\ Size \in Nat /\ \A x \in 0 .. Size - 1 : m[x] \in 0 .. Base - 1
  BY StringLibAssumption, LibrariesAssumption DEF Size, Memory, Bytes
<1>1. ASSUME NEW j \in 0 .. WordBytes - 1
      PROVE  ByteAt(m, a)[j] = m[a + j] /\ m[a + j] \in 0 .. Base - 1
  <2>1. a + j \in 0 .. Size - 1
    BY <1>0
  <2> QED
    BY <1>0, <2>1 DEF ByteAt
<1> QED
  BY <1>1 DEF IsBytes

LEMMA SameWords ==
  ASSUME NEW m1 \in Memory, NEW a1 \in Nat, a1 + WordBytes <= Size,
         NEW m2 \in Memory, NEW a2 \in Nat, a2 + WordBytes <= Size
  PROVE  Word(m1, a1) = Word(m2, a2) <=> \A j \in 0 .. WordBytes - 1 : m1[a1 + j] = m2[a2 + j]
<1> DEFINE b == ByteAt(m1, a1)
           c == ByteAt(m2, a2)
<1>0. WordBytes \in Nat
  BY StringLibAssumption
<1>1. /\ IsBytes(b, WordBytes) /\ \A j \in 0 .. WordBytes - 1 : b[j] = m1[a1 + j]
      /\ IsBytes(c, WordBytes) /\ \A j \in 0 .. WordBytes - 1 : c[j] = m2[a2 + j]
  BY BytesOfWord
<1>2. PICK s : Adds(s, b, WordBytes) /\ Word(m1, a1) = s[WordBytes]
  BY WordAdds
<1>3. PICK t : Adds(t, c, WordBytes) /\ Word(m2, a2) = t[WordBytes]
  BY WordAdds
<1> HIDE DEF b, c
<1>4. ASSUME s[WordBytes] = t[WordBytes], NEW j \in 0 .. WordBytes - 1 PROVE b[j] = c[j]
  <2>1. (s[WordBytes] \div 2^(ByteBits * j)) % Base = b[j]
    BY <1>0, <1>1, <1>2, HighBitOf
  <2>2. (t[WordBytes] \div 2^(ByteBits * j)) % Base = c[j]
    BY <1>0, <1>1, <1>3, HighBitOf
  <2> QED
    BY <1>4, <2>1, <2>2, Zenon
<1>5. ASSUME \A j \in 0 .. WordBytes - 1 : b[j] = c[j] PROVE s[WordBytes] = t[WordBytes]
  BY <1>0, <1>2, <1>3, <1>5, AddsSame
<1> QED
  BY <1>1, <1>2, <1>3, <1>4, <1>5

LEMMA WordsWithZero ==
  ASSUME NEW m \in Memory, NEW a \in Nat, a + WordBytes <= Size
  PROVE  DETECTNULL(Word(m, a)) <=> \E j \in 0 .. WordBytes - 1 : m[a + j] = 0
<1> DEFINE b == ByteAt(m, a)
<1>1. IsBytes(b, WordBytes) /\ \A j \in 0 .. WordBytes - 1 : b[j] = m[a + j]
  BY BytesOfWord
<1>2. PICK s : Adds(s, b, WordBytes) /\ Word(m, a) = s[WordBytes]
  BY WordAdds
<1> HIDE DEF b
<1>3. DETECTNULL(s[WordBytes]) <=> \E j \in 0 .. WordBytes - 1 : b[j] = 0
  BY <1>1, <1>2, ZeroByte, NoZeroByte
<1>4. DETECTNULL(Word(m, a)) <=> DETECTNULL(s[WordBytes])
  BY <1>2, Zenon
<1> QED
  BY <1>1, <1>3, <1>4

\* The words up to the one with the n-th byte are in memory.
LEMMA WithinMemory ==
  ASSUME NEW a \in Nat, a % WordBytes = 0, NEW n \in Nat, a + n < Size,
         NEW k \in Nat, k <= n \div WordBytes
  PROVE  a + k * WordBytes \in Nat /\ (a + k * WordBytes) + WordBytes <= Size
<1> DEFINE q == a \div WordBytes
           r == n \div WordBytes
           W == WordBytes
           M == MemoryWords
<1>0. W \in Nat \ {0} /\ M \in Nat /\ Size = M * W
  BY StringLibAssumption, LibrariesAssumption DEF Size
<1>1. q \in Nat /\ a = W * q
  <2>1. q \in Nat /\ a = W * q + (a % WordBytes)
    BY <1>0, Division
  <2>2. W * q \in Nat
    BY <1>0, <2>1
  <2> QED
    BY <2>1, <2>2
<1>2. r \in Nat /\ W * r <= n
  <2>1. r \in Nat /\ n % W \in 0 .. W - 1 /\ n = W * r + (n % W)
    BY <1>0, Division
  <2>2. W * r \in Nat
    BY <1>0, <2>1
  <2> QED
    BY <1>0, <2>1, <2>2
<1> HIDE DEF q, W, M, r
<1>3. k <= r
  BY DEF r
<1>4. W * (q + k) <= W * (q + r) /\ W * (q + r) = W * q + W * r /\ W * (q + k) = W * q + k * W
  BY <1>0, <1>1, <1>2, <1>3, TimesMonotone
<1>5. W * (q + k) < W * M
  <2>1. M * W = W * M /\ W * q \in Nat /\ W * r \in Nat /\ W * (q + k) \in Nat
    BY <1>0, <1>1, <1>2
  <2> QED
    BY <1>0, <1>1, <1>2, <1>4, <2>1
<1>6. (q + k) + 1 <= M
  <2> SUFFICES ASSUME M <= q + k PROVE FALSE
    BY <1>0, <1>1
  <2>1. W * M <= W * (q + k) /\ W * M \in Nat /\ W * (q + k) \in Nat
    BY <1>0, <1>1, TimesMonotone
  <2> QED
    BY <1>5, <2>1
<1>7. W * ((q + k) + 1) <= W * M
  BY <1>0, <1>1, <1>6, TimesMonotone
<1>8. W * ((q + k) + 1) = W * (q + k) + W /\ W * M = M * W
  BY <1>0, <1>1
<1>9. a + k * W \in Nat /\ (a + k * W) + W <= Size
  BY <1>0, <1>1, <1>4, <1>7, <1>8
<1> QED
  BY <1>9 DEF W

LEMMA StrcmpIs ==
  ASSUME NEW m1 \in Memory, NEW a1 \in Nat, NEW m2 \in Memory, NEW a2 \in Nat,
         NEW n \in Nat, a1 + n < Size, a2 + n < Size, Parts(m1, a1, m2, a2, n)
  PROVE  strcmp(m1, a1, m2, a2) = m1[a1 + n] - m2[a2 + n]
<1> DEFINE W == WordBytes
           Differ(i) == Word(m1, a1 + i) # Word(m2, a2 + i)
           End(i) == DETECTNULL(Word(m1, a1 + i))
           IsWords(f) == f = [i \in Nat |-> IF Differ(i) THEN i
                                            ELSE IF End(i) THEN -1 ELSE f[i + W]]
           More(i) == m1[a1 + i] # 0 /\ m1[a1 + i] = m2[a2 + i]
           IsBy(f) == f = [i \in Nat |-> IF More(i) THEN f[i + 1]
                                         ELSE m1[a1 + i] - m2[a2 + i]]
           words == CHOOSE f : IsWords(f)
           bytes == CHOOSE f : IsBy(f)
           start == IF UNALIGNED(a1, a2) THEN 0 ELSE words[0]
<1>1. strcmp(m1, a1, m2, a2) = IF start = -1 THEN 0 ELSE bytes[start]
  BY DEF strcmp
<1>2. W \in Nat \ {0}
  BY StringLibAssumption
<1> DEFINE S == {i \in Nat : ~More(i)}
           val == [i \in Nat |-> m1[a1 + i] - m2[a2 + i]]
<1>3. Searches(bytes, S, val, 1)
  <2>1. ASSUME NEW f, Searches(f, S, val, 1) PROVE IsBy(f)
    BY <2>1 DEF Searches
  <2>2. ASSUME NEW f, IsBy(f) PROVE Searches(f, S, val, 1)
    BY <2>2 DEF Searches
  <2> HIDE DEF IsBy, S, val
  <2>3. \E f : IsBy(f)
    BY <2>1, SearchExists
  <2> QED
    BY <2>2, <2>3
<1>4. ASSUME NEW i \in Nat, i <= n PROVE bytes[i] = m1[a1 + n] - m2[a2 + n]
  <2>1. n - i \in Nat /\ i + (n - i) * 1 = n
    BY <1>4
  <2>2. n \in S
    BY DEF Parts
  <2>3. ASSUME NEW j \in 0 .. (n - i) - 1 PROVE i + j * 1 \notin S
    <3>1. i + j * 1 \in 0 .. n - 1
      BY <1>4
    <3> QED
      BY <3>1 DEF Parts
  <2> HIDE DEF S, bytes
  <2>4. After(i, n - i, S, 1)
    BY <2>1, <2>2, <2>3 DEF After
  <2>5. bytes[i] = val[i + (n - i) * 1]
    <3> HIDE DEF val
    <3> QED
      BY <1>3, <1>4, <2>1, <2>4, SearchFinds
  <2> QED
    BY <2>1, <2>5
<1>5. CASE UNALIGNED(a1, a2)
  <2>1. start = 0
    BY <1>5
  <2> HIDE DEF start, bytes
  <2> QED
    BY <1>1, <1>4, <2>1
<1>6. CASE ~UNALIGNED(a1, a2)
  <2> DEFINE T == {i \in Nat : Differ(i) \/ End(i)}
             wal == [i \in Nat |-> IF Differ(i) THEN i ELSE -1]
             K == n \div W
  <2>1. Searches(words, T, wal, W)
    <3> HIDE DEF Differ, End
    <3>1. ASSUME NEW f, Searches(f, T, wal, W) PROVE IsWords(f)
      BY <3>1 DEF Searches
    <3>2. ASSUME NEW f, IsWords(f) PROVE Searches(f, T, wal, W)
      BY <3>2 DEF Searches
    <3> HIDE DEF IsWords, T, wal, W
    <3>3. \E f : IsWords(f)
      BY <1>2, <3>1, SearchExists
    <3> QED
      BY <3>2, <3>3
  <2>2. K \in Nat /\ K * W <= n /\ n < K * W + W
    <3> HIDE DEF W
    <3>1. K \in Nat /\ n % W \in 0 .. W - 1 /\ n = W * K + (n % W)
      BY <1>2, Division
    <3>2. W * K = K * W /\ W * K \in Nat
      BY <1>2, <3>1
    <3> QED
      BY <1>2, <3>1, <3>2
  <2>3. ASSUME NEW k \in Nat, k <= K
        PROVE  /\ a1 + k * W \in Nat /\ (a1 + k * W) + W <= Size
               /\ a2 + k * W \in Nat /\ (a2 + k * W) + W <= Size
               /\ k * W \in Nat
    <3>1. a1 % WordBytes = 0 /\ a2 % WordBytes = 0
      BY <1>6 DEF UNALIGNED
    <3>2. k * W \in Nat
      BY <1>2
    <3>3. a1 + k * W \in Nat /\ (a1 + k * W) + W <= Size
      BY <2>3, <3>1, WithinMemory
    <3>4. a2 + k * W \in Nat /\ (a2 + k * W) + W <= Size
      BY <2>3, <3>1, WithinMemory
    <3> QED
      BY <3>2, <3>3, <3>4
  <2> HIDE DEF K
  <2>4. ASSUME NEW k \in Nat, k <= K
        PROVE  /\ Differ(k * W) <=> \E j \in 0 .. W - 1 : m1[a1 + (k * W + j)] # m2[a2 + (k * W + j)]
               /\ End(k * W) <=> \E j \in 0 .. W - 1 : m1[a1 + (k * W + j)] = 0
    <3>1. \A j \in 0 .. W - 1 : /\ (a1 + k * W) + j = a1 + (k * W + j)
                                /\ (a2 + k * W) + j = a2 + (k * W + j)
      BY <1>2, <2>3, <2>4
    <3>2. /\ Word(m1, a1 + k * W) = Word(m2, a2 + k * W)
               <=> \A j \in 0 .. W - 1 : m1[(a1 + k * W) + j] = m2[(a2 + k * W) + j]
          /\ DETECTNULL(Word(m1, a1 + k * W))
               <=> \E j \in 0 .. W - 1 : m1[(a1 + k * W) + j] = 0
      BY <2>3, <2>4, SameWords, WordsWithZero
    <3> QED
      BY <3>1, <3>2
  <2>5. ASSUME NEW k \in 0 .. K - 1 PROVE 0 + k * W \notin T
    <3>1. k \in Nat /\ k <= K /\ k * W \in Nat /\ 0 + k * W = k * W
      BY <2>2, <2>3
    <3>2. k * W + W <= n
      <4>1. (k + 1) * W <= K * W /\ (k + 1) * W = k * W + W
        <5>1. W * (k + 1) <= W * K
          BY <1>2, <2>2, <3>1, TimesMonotone
        <5>2. W * (k + 1) = k * W + W /\ W * K = K * W /\ (k + 1) * W = k * W + W
          BY <1>2, <2>2, <3>1
        <5> QED
          BY <5>1, <5>2
      <4> QED
        BY <1>2, <2>2, <3>1, <4>1
    <3>3. \A j \in 0 .. W - 1 : More(k * W + j)
      <4>1. \A j \in 0 .. W - 1 : k * W + j \in 0 .. n - 1
        BY <1>2, <3>1, <3>2
      <4> QED
        BY <4>1 DEF Parts
    <3>4. ~Differ(k * W) /\ ~End(k * W)
      BY <2>4, <3>1, <3>3
    <3> HIDE DEF Differ, End
    <3> QED
      BY <3>1, <3>4
  <2>6. PICK i \in 0 .. W - 1 : n = K * W + i
    <3>1. n - K * W \in 0 .. W - 1 /\ n = K * W + (n - K * W)
      BY <1>2, <2>2, <2>3
    <3> QED
      BY <3>1
  <2>7. K * W \in T /\ K * W \in Nat /\ 0 + K * W = K * W
    <3>1. Differ(K * W) \/ End(K * W)
      BY <2>2, <2>4, <2>6 DEF Parts
    <3> HIDE DEF Differ, End
    <3> QED
      BY <2>2, <2>3, <3>1
  <2> HIDE DEF T, words, W, bytes, Differ, End
  <2>8. After(0, K, T, W)
    BY <2>5, <2>7 DEF After
  <2>9. words[0] = wal[K * W]
    <3> HIDE DEF wal
    <3>1. words[0] = wal[0 + K * W]
      BY <1>2, <2>1, <2>2, <2>8, SearchFinds
    <3> QED
      BY <2>7, <3>1
  <2>10. start = IF Differ(K * W) THEN K * W ELSE -1
    BY <1>6, <2>7, <2>9
  <2>11. CASE Differ(K * W)
    <3>1. start = K * W /\ start # -1
      BY <2>7, <2>10, <2>11
    <3> HIDE DEF start
    <3> QED
      BY <1>1, <1>4, <2>2, <2>7, <3>1
  <2>12. CASE ~Differ(K * W)
    <3>1. start = -1
      BY <2>10, <2>12
    <3>2. m1[a1 + n] = m2[a2 + n]
      BY <2>2, <2>4, <2>6, <2>12
    <3>3. m1[a1 + n] = 0
      BY <3>2 DEF Parts
    <3> HIDE DEF start
    <3> QED
      BY <1>1, <3>1, <3>2, <3>3
  <2> QED
    BY <2>11, <2>12
<1> QED
  BY <1>5, <1>6

LEMMA StrlenIs ==
  ASSUME NEW m, NEW a \in Nat, NEW z \in Nat, HasString(m, a, z)
  PROVE  strlen(m, a) = z
<1> DEFINE IsLen(f) == f = [n \in Nat |-> IF m[a + n] = 0 THEN n ELSE f[n + 1]]
           len == CHOOSE f : IsLen(f)
           S == {n \in Nat : m[a + n] = 0}
           val == [n \in Nat |-> n]
<1>1. strlen(m, a) = len[0]
  BY DEF strlen, NULL
<1>2. Searches(len, S, val, 1)
  <2>1. ASSUME NEW f, Searches(f, S, val, 1) PROVE IsLen(f)
    BY <2>1 DEF Searches
  <2>2. ASSUME NEW f, IsLen(f) PROVE Searches(f, S, val, 1)
    BY <2>2 DEF Searches
  <2> HIDE DEF IsLen, S, val
  <2>3. \E f : IsLen(f)
    BY <2>1, SearchExists
  <2> QED
    BY <2>2, <2>3
<1>3. After(0, z, S, 1)
  <2>1. \A j \in 0 .. z - 1 : 0 + j * 1 = j
    OBVIOUS
  <2>2. 0 + z * 1 = z
    OBVIOUS
  <2> QED
    BY <2>1, <2>2 DEF HasString, After
<1>4. len[0] = val[0 + z * 1]
  <2> HIDE DEF len, S, val
  <2> QED
    BY <1>2, <1>3, SearchFinds
<1> QED
  BY <1>1, <1>4

LEMMA StringsOrdered ==
  ASSUME NEW m1 \in Memory, NEW a1 \in Nat, \E x \in DOMAIN m1 : x >= a1 /\ m1[x] = 0,
         NEW m2 \in Memory, NEW a2 \in Nat, \E x \in DOMAIN m2 : x >= a2 /\ m2[x] = 0
  PROVE  /\ strcmp(m1, a1, m2, a2) < 0 <=> Before(Text(m1, a1), Text(m2, a2))
         /\ strcmp(m1, a1, m2, a2) > 0 <=> Before(Text(m2, a2), Text(m1, a1))
<1> DEFINE s == Text(m1, a1)
           t == Text(m2, a2)
<1>1. /\ s \in Seq(Bytes) /\ Len(s) \in Nat /\ HasString(m1, a1, Len(s)) /\ a1 + Len(s) < Size
      /\ \A j \in 0 .. Len(s) - 1 : s[j + 1] = m1[a1 + j]
  <2> HIDE DEF s
  <2>1. \E z \in Nat : /\ HasString(m1, a1, z) /\ a1 + z < Size
                       /\ s \in Seq(Bytes) /\ Len(s) = z
                       /\ \A j \in 0 .. z - 1 : s[j + 1] = m1[a1 + j]
    BY StringEnds DEF s
  <2> QED
    BY <2>1, Zenon
<1>2. /\ t \in Seq(Bytes) /\ Len(t) \in Nat /\ HasString(m2, a2, Len(t)) /\ a2 + Len(t) < Size
      /\ \A j \in 0 .. Len(t) - 1 : t[j + 1] = m2[a2 + j]
  <2> HIDE DEF t
  <2>1. \E z \in Nat : /\ HasString(m2, a2, z) /\ a2 + z < Size
                       /\ t \in Seq(Bytes) /\ Len(t) = z
                       /\ \A j \in 0 .. z - 1 : t[j + 1] = m2[a2 + j]
    BY StringEnds DEF t
  <2> QED
    BY <2>1, Zenon
<1> HIDE DEF s, t
<1>3. PICK n \in Nat : Parts(m1, a1, m2, a2, n) /\ n <= Len(s) /\ n <= Len(t)
  BY <1>1, <1>2, StringsPart
<1>4. Parts(m2, a2, m1, a1, n)
  BY <1>3 DEF Parts
<1>5. Size \in Nat
  BY StringLibAssumption, LibrariesAssumption DEF Size
<1>6. a1 + n < Size /\ a2 + n < Size
  BY <1>1, <1>2, <1>3, <1>5
<1>7. strcmp(m1, a1, m2, a2) = m1[a1 + n] - m2[a2 + n]
  BY <1>3, <1>6, StrcmpIs
<1>8. m1[a1 + n] \in Int /\ m2[a2 + n] \in Int
  <2>1. a1 + n \in 0 .. Size - 1 /\ a2 + n \in 0 .. Size - 1
    BY <1>5, <1>6
  <2> QED
    BY <2>1 DEF Memory, Bytes
<1>9. Before(s, t) <=> m1[a1 + n] < m2[a2 + n]
  BY <1>1, <1>2, <1>3, BeforeIs
<1>10. Before(t, s) <=> m2[a2 + n] < m1[a1 + n]
  BY <1>1, <1>2, <1>3, <1>4, BeforeIs
<1> QED
  BY <1>7, <1>8, <1>9, <1>10 DEF s, t

-----------------------------------------------------------------------------
(* The calls of the string library, and what they return.                 *)

\* A string begins at a, at or right behind the begin of the memory.
Holds(m, a) == m \in Memories /\ a \in {0, 1} /\ \E x \in DOMAIN m : x >= a /\ m[x] = 0

StringCall ==
  /\ call.fn \in {"strcmp", "strcpy"} => Holds(call.m1, call.a1) /\ Holds(call.m2, call.a2)
  /\ call.fn = "strlen" => call.a = NULL \/ Holds(call.m, call.a)
  /\ call.fn = "memset" => call.m \in Memories /\ call.a \in Int /\ call.length \in Int

LEMMA MemoriesAre == Memories \subseteq Memory /\ \A m \in Memories : DOMAIN m = 0 .. Size - 1
  BY LibrariesAssumption DEF Memory, Size, Bytes

LEMMA CallsOfStrings == Init => StringCall
<1> SUFFICES ASSUME Init PROVE StringCall
  OBVIOUS
<1>1. CASE InitMath
  <2>1. call.fn \notin StringFns
    BY <1>1 DEF InitMath, StringFns
  <2> QED
    BY <2>1 DEF StringCall, StringFns
<1>2. CASE InitRegions
  <2>1. call.fn \notin StringFns
    BY <1>2 DEF InitRegions, StringFns
  <2> QED
    BY <2>1 DEF StringCall, StringFns
<1>3. CASE InitStrings
  <2>1. CASE \E pieces \in Formats : call = PrintfCall(pieces)
    <3>1. call.fn = "printf"
      <4> HIDE DEF Formats
      <4> QED
        BY <2>1 DEF PrintfCall
    <3> QED
      BY <3>1 DEF StringCall
  <2>2. CASE \E v \in Naturals16 : v \in SomeInts /\
               call \in {[fn |-> f, value |-> v] : f \in {"write_uart_int", "write_uart_hex"}}
    BY <2>2 DEF StringCall
  <2>3. CASE \E s \in Texts : call = [fn |-> "puts", s |-> s]
    BY <2>3 DEF StringCall
  <2>4. CASE \E m1 \in Memories, m2 \in Memories, a1 \in {0, 1}, a2 \in {0, 1} :
               /\ \E x \in DOMAIN m1 : x >= a1 /\ m1[x] = 0
               /\ \E x \in DOMAIN m2 : x >= a2 /\ m2[x] = 0
               /\ call \in {[fn |-> f, m1 |-> m1, a1 |-> a1, m2 |-> m2, a2 |-> a2] :
                              f \in {"strcmp", "strcpy"}}
    <3>1. PICK m1 \in Memories, m2 \in Memories, a1 \in {0, 1}, a2 \in {0, 1} :
               /\ \E x \in DOMAIN m1 : x >= a1 /\ m1[x] = 0
               /\ \E x \in DOMAIN m2 : x >= a2 /\ m2[x] = 0
               /\ call \in {[fn |-> f, m1 |-> m1, a1 |-> a1, m2 |-> m2, a2 |-> a2] :
                              f \in {"strcmp", "strcpy"}}
      BY <2>4
    <3>2. Holds(m1, a1) /\ Holds(m2, a2)
      BY <3>1, Zenon DEF Holds
    <3>3. /\ call.fn \in {"strcmp", "strcpy"} /\ call.m1 = m1 /\ call.a1 = a1
          /\ call.m2 = m2 /\ call.a2 = a2
      BY <3>1
    <3> QED
      BY <3>2, <3>3 DEF StringCall
  <2>5. CASE \E m \in Memories, a \in {0, 1}, n \in 0 .. 3 :
               call = [fn |-> "memset", m |-> m, a |-> a, val |-> 2, length |-> n]
    BY <2>5 DEF StringCall
  <2>6. CASE \E m \in Memories, a \in {NULL, 0, 1} :
               /\ a # NULL => \E x \in DOMAIN m : x >= a /\ m[x] = 0
               /\ call = [fn |-> "strlen", m |-> m, a |-> a]
    <3>1. PICK m \in Memories, a \in {NULL, 0, 1} :
               /\ a # NULL => \E x \in DOMAIN m : x >= a /\ m[x] = 0
               /\ call = [fn |-> "strlen", m |-> m, a |-> a]
      BY <2>6
    <3>2. a = NULL \/ Holds(m, a)
      BY <3>1, Zenon DEF Holds
    <3>3. call.fn = "strlen" /\ call.m = m /\ call.a = a
      BY <3>1
    <3> QED
      BY <3>2, <3>3 DEF StringCall
  <2> HIDE DEF Formats
  <2> QED
    BY <1>3, <2>1, <2>2, <2>3, <2>4, <2>5, <2>6 DEF InitStrings
<1> QED
  BY <1>1, <1>2, <1>3 DEF Init

LEMMA StringsReturn ==
  ASSUME Next, StringCall
  PROVE  StringsCompared'
<1>1. call' = call
  BY DEF Next, Printing, Strings, Functions, Checks, Return
<1>2. ASSUME call.fn = "strcmp"
      PROVE  LET s == Text(call.m1, call.a1)
                 t == Text(call.m2, call.a2)
             IN (result' < 0 <=> Before(s, t)) /\ (result' > 0 <=> Before(t, s))
  <2>1. result' = strcmp(call.m1, call.a1, call.m2, call.a2)
    BY <1>2 DEF Next, Printing, Strings, Functions, Checks, Return
  <2>2. Holds(call.m1, call.a1) /\ Holds(call.m2, call.a2)
    BY <1>2 DEF StringCall
  <2>3. /\ call.m1 \in Memory /\ call.a1 \in Nat
        /\ \E x \in DOMAIN call.m1 : x >= call.a1 /\ call.m1[x] = 0
        /\ call.m2 \in Memory /\ call.a2 \in Nat
        /\ \E x \in DOMAIN call.m2 : x >= call.a2 /\ call.m2[x] = 0
    BY <2>2, MemoriesAre DEF Holds
  <2> QED
    BY <2>1, <2>3, StringsOrdered
<1>3. ASSUME call.fn = "strlen"
      PROVE  result' = IF call.a = NULL THEN 0 ELSE Len(Text(call.m, call.a))
  <2>1. result' = strlen(call.m, call.a)
    BY <1>3 DEF Next, Printing, Strings, Functions, Checks, Return
  <2>6. CASE call.a = NULL
    BY <2>1, <2>6 DEF strlen
  <2>7. SUFFICES ASSUME call.a # NULL
                 PROVE  result' = Len(Text(call.m, call.a))
    BY <2>6
  <2>2. Holds(call.m, call.a)
    BY <1>3, <2>7 DEF StringCall
  <2>3. call.m \in Memory /\ call.a \in Nat /\ \E x \in DOMAIN call.m : x >= call.a /\ call.m[x] = 0
    BY <2>2, MemoriesAre DEF Holds
  <2>4. PICK z \in Nat : HasString(call.m, call.a, z) /\ Len(Text(call.m, call.a)) = z
    BY <2>3, StringEnds
  <2>5. strlen(call.m, call.a) = z
    BY <2>3, <2>4, StrlenIs
  <2> QED
    BY <2>1, <2>4, <2>5
<1>4. ASSUME call.fn = "strcpy"
      PROVE  LET t == Text(call.m2, call.a2)
                 written == call.a1 .. call.a1 + Len(t) - 1
             IN /\ [k \in 1 .. Len(t) |-> result'[call.a1 + k - 1]] = t
                /\ \A x \in DOMAIN result' \ written : result'[x] = call.m1[x]
  <2> DEFINE m1 == call.m1
             a1 == call.a1
             m2 == call.m2
             a2 == call.a2
             t == Text(m2, a2)
             n == Len(t)
             r == result'
  <2>0. Size \in Nat
    BY StringLibAssumption, LibrariesAssumption DEF Size
  <2>1. Holds(m1, a1) /\ Holds(m2, a2)
    BY <1>4 DEF StringCall
  <2>2. /\ DOMAIN m1 = 0 .. Size - 1 /\ a1 \in {0, 1} /\ a1 \in Nat
        /\ m2 \in Memory /\ a2 \in Nat /\ \E x \in DOMAIN m2 : x >= a2 /\ m2[x] = 0
    BY <2>1, MemoriesAre DEF Holds
  <2>3. result' = strcpy(call.m1, call.a1, call.m2, call.a2)
    BY <1>4 DEF Next, Printing, Strings, Functions, Checks, Return
  <2> HIDE DEF m1, a1, m2, a2, r
  <2>4. /\ n \in Nat /\ HasString(m2, a2, n) /\ a2 + n < Size /\ t \in Seq(Bytes)
        /\ \A j \in 0 .. n - 1 : t[j + 1] = m2[a2 + j]
    <3> HIDE DEF t
    <3>1. \E z \in Nat : /\ HasString(m2, a2, z) /\ a2 + z < Size
                         /\ t \in Seq(Bytes) /\ Len(t) = z
                         /\ \A j \in 0 .. z - 1 : t[j + 1] = m2[a2 + j]
      BY <2>2, StringEnds DEF t
    <3> QED
      BY <3>1, Zenon
  <2>5. strlen(m2, a2) = n
    <3> HIDE DEF n
    <3> QED
      BY <2>2, <2>4, StrlenIs
  <2>6. r = [x \in 0 .. Size - 1 |-> IF x \in a1 .. a1 + n - 1 THEN m2[a2 + x - a1] ELSE m1[x]]
    <3>1. r = [x \in DOMAIN m1 |-> IF x \in a1 .. a1 + strlen(m2, a2) - 1
                                   THEN m2[a2 + x - a1] ELSE m1[x]]
      BY <2>3 DEF strcpy, r, m1, a1, m2, a2
    <3> HIDE DEF n
    <3> QED
      BY <2>2, <2>5, <3>1
  <2> HIDE DEF t, n
  <2>7. ASSUME NEW k \in 1 .. n PROVE r[a1 + k - 1] = t[k]
    <3>1. /\ a1 + k - 1 \in 0 .. Size - 1 /\ a1 + k - 1 \in a1 .. a1 + n - 1
          /\ a2 + (a1 + k - 1) - a1 = a2 + (k - 1) /\ k - 1 \in 0 .. n - 1 /\ (k - 1) + 1 = k
      BY <2>0, <2>2, <2>4
    <3>2. r[a1 + k - 1] = m2[a2 + (a1 + k - 1) - a1]
      BY <2>6, <3>1
    <3>3. t[(k - 1) + 1] = m2[a2 + (k - 1)]
      BY <2>4, <3>1, Zenon
    <3> QED
      BY <3>1, <3>2, <3>3
  <2>8. t = [k \in 1 .. n |-> t[k]]
    BY <2>4 DEF n
  <2>9. [k \in 1 .. n |-> r[a1 + k - 1]] = t
    BY <2>7, <2>8
  <2>10. \A x \in DOMAIN r \ (a1 .. a1 + n - 1) : r[x] = m1[x]
    BY <2>6
  <2> QED
    BY <2>9, <2>10, Zenon DEF r, m1, a1, m2, a2, t, n
<1>5. ASSUME call.fn = "memset"
      PROVE  \A x \in DOMAIN result' :
               result'[x] = IF x < call.a \/ x >= call.a + call.length
                            THEN call.m[x] ELSE call.val
  <2>1. result' = memset(call.m, call.a, call.val, call.length)
    BY <1>5 DEF Next, Printing, Strings, Functions, Checks, Return
  <2>2. DOMAIN call.m = 0 .. Size - 1 /\ call.a \in Int /\ call.length \in Int
    BY <1>5, MemoriesAre DEF StringCall
  <2>3. result' = [x \in 0 .. Size - 1 |-> IF x \in call.a .. call.a + call.length - 1
                                          THEN call.val ELSE call.m[x]]
    BY <2>1, <2>2 DEF memset
  <2> QED
    BY <2>2, <2>3
<1> QED
  BY <1>1, <1>2, <1>3, <1>4, <1>5, Zenon DEF StringsCompared

(***************************************************************************)
(* strcmp orders strings as a dictionary does, whatever their bytes, where *)
(* they begin and what lies behind them, for every number of bits of a     *)
(* byte and bytes of a word, though it compares words and finds a zero     *)
(* byte by a subtraction that borrows; strlen counts the characters before *)
(* the first zero; strcpy and memset write the bytes they are asked to and *)
(* no others.                                                              *)
(***************************************************************************)
THEOREM StringsRight == Spec => []StringsCompared
<1>1. Init => StringCall /\ StringsCompared
  BY CallsOfStrings DEF Init, StringsCompared
<1>2. StringCall /\ StringsCompared /\ [Next]_vars => (StringCall /\ StringsCompared)'
  <2> SUFFICES ASSUME StringCall, StringsCompared, [Next]_vars
               PROVE  (StringCall /\ StringsCompared)'
    OBVIOUS
  <2>1. CASE Next
    <3>1. call' = call
      BY <2>1 DEF Next, Printing, Strings, Functions, Checks, Return
    <3>2. StringCall'
      BY <3>1 DEF StringCall, Holds
    <3> QED
      BY <2>1, <3>2, StringsReturn
  <2>2. CASE UNCHANGED vars
    BY <2>2 DEF vars, StringCall, Holds, StringsCompared
  <2> QED
    BY <2>1, <2>2
<1> QED
  BY <1>1, <1>2, PTL DEF Spec

-----------------------------------------------------------------------------
(* Numerals: the digits of a number in a base.                             *)

\* The powers of b.
Places(p, b, n) == p[0] = 1 /\ \A k \in 0 .. n - 1 : p[k + 1] = b * p[k]

\* The places that Numeral counts by.
IsPlaces(p, b) == p = [k \in 0 .. IntBits |-> IF k = 0 THEN 1 ELSE b * p[k - 1]]

\* There are such places,
LEMMA PlacesExist ==
  ASSUME NEW b \in Nat \ {0}, b >= 2
  PROVE  \E p : IsPlaces(p, b)
<1>0. IntBits \in Nat
  BY StringLibAssumption
<1> DEFINE h == [k \in Nat |-> [x \in Nat |-> b * x]]
<1>1. h \in [Nat -> [Nat -> Nat]]
  OBVIOUS
<1>2. \A k \in Nat, x \in Nat : h[k][x] = b * x
  OBVIOUS
<1> HIDE DEF h
<1>3. PICK p \in [0 .. IntBits -> Nat] : Climbs(IntBits, p, 1, h)
  BY <1>0, <1>1, ClimbExists
<1>4. ASSUME NEW k \in 0 .. IntBits PROVE p[k] = IF k = 0 THEN 1 ELSE b * p[k - 1]
  <2>1. CASE k = 0
    BY <1>3, <2>1 DEF Climbs
  <2>2. CASE k # 0
    <3>1. k - 1 \in 0 .. IntBits - 1 /\ k - 1 \in 0 .. IntBits /\ k - 1 \in Nat /\ (k - 1) + 1 = k
      BY <1>0, <2>2
    <3>2. p[(k - 1) + 1] = h[k - 1][p[k - 1]]
      BY <1>3, <3>1 DEF Climbs
    <3> QED
      BY <1>2, <1>3, <2>2, <3>1, <3>2
  <2> QED
    BY <2>1, <2>2
<1>5. p = [k \in 0 .. IntBits |-> p[k]]
  OBVIOUS
<1> QED
  BY <1>4, <1>5, Zenon DEF IsPlaces

\* and they grow at least as the powers of two do.
LEMMA PlacesAre ==
  ASSUME NEW b \in Nat \ {0}, b >= 2, NEW p, IsPlaces(p, b)
  PROVE  /\ Places(p, b, IntBits)
         /\ \A k \in 0 .. IntBits : p[k] \in Nat /\ p[k] >= 2^k /\ p[k] # 0
<1>0. IntBits \in Nat
  BY StringLibAssumption
<1>1. \A k \in 0 .. IntBits : p[k] = IF k = 0 THEN 1 ELSE b * p[k - 1]
  BY Zenon DEF IsPlaces
<1>2. p[0] = 1
  BY <1>0, <1>1
<1>3. ASSUME NEW k \in 0 .. IntBits - 1 PROVE p[k + 1] = b * p[k]
  <2>1. k + 1 \in 0 .. IntBits /\ k + 1 # 0 /\ (k + 1) - 1 = k
    BY <1>0
  <2>2. p[k + 1] = b * p[(k + 1) - 1]
    BY <1>1, <2>1, Zenon
  <2> QED
    BY <2>1, <2>2
<1> DEFINE S == {k \in Nat : k <= IntBits => p[k] \in Nat /\ p[k] >= 2^k /\ p[k] # 0}
<1>4. 0 \in S
  BY <1>2, PowerOfZero
<1>5. ASSUME NEW k \in Nat, k \in S PROVE k + 1 \in S
  <2> SUFFICES ASSUME k + 1 <= IntBits
               PROVE  p[k + 1] \in Nat /\ p[k + 1] >= 2^(k + 1) /\ p[k + 1] # 0
    OBVIOUS
  <2> DEFINE x == p[k]
             y == 2^k
  <2>1. p[k + 1] = b * x /\ x \in Nat /\ x >= y
    <3>1. k \in 0 .. IntBits - 1 /\ k <= IntBits
      BY <1>0
    <3> QED
      BY <1>3, <1>5, <3>1
  <2>2. 2^(k + 1) = 2 * y /\ y \in Nat \ {0}
    BY PowerOfNext, PowerPositive
  <2> HIDE DEF x, y
  <2>3. x * 2 <= x * b /\ x * b = b * x /\ x * b \in Nat
    BY <2>1, TimesMonotone
  <2> QED
    BY <2>1, <2>2, <2>3
<1> HIDE DEF S
<1>6. \A k \in Nat : k \in S
  BY <1>4, <1>5, Induct
<1>7. \A k \in 0 .. IntBits : p[k] \in Nat /\ p[k] >= 2^k /\ p[k] # 0
  BY <1>6 DEF S
<1> QED
  BY <1>2, <1>3, <1>7 DEF Places

\* v has n digits.
HasLength(v, p, n) == n \in 1 .. IntBits /\ v < p[n] /\ (n = 1 \/ v >= p[n - 1])
\* The digits of v, the first one first.
DigitsOf(v, b, digits, p, n) == [k \in 1 .. n |-> digits[1 + ((v \div p[n - k]) % b)]]

\* Every int has a number of digits,
LEMMA LengthExists ==
  ASSUME NEW b \in Nat \ {0}, b >= 2, NEW p, IsPlaces(p, b), NEW v \in Nat, v < 2^IntBits
  PROVE  \E n \in 1 .. IntBits : HasLength(v, p, n)
<1>0. IntBits \in Nat \ {0}
  BY StringLibAssumption
<1> DEFINE K == {k \in 1 .. IntBits : v < p[k]}
<1>1. \A k \in 0 .. IntBits : p[k] \in Nat /\ p[k] >= 2^k
  BY PlacesAre
<1>2. IntBits \in K
  <2>1. IntBits \in 0 .. IntBits /\ IntBits \in 1 .. IntBits
    BY <1>0
  <2>2. p[IntBits] \in Nat /\ p[IntBits] >= 2^IntBits /\ 2^IntBits \in Nat
    BY <1>0, <1>1, <2>1, PowerOfNext
  <2> QED
    BY <2>1, <2>2
<1>3. PICK n \in K : \A k \in K : n <= k
  <2>1. K \in SUBSET Nat /\ K # {}
    BY <1>2
  <2> HIDE DEF K
  <2> QED
    BY <2>1, LeastOf
<1>4. n = 1 \/ v >= p[n - 1]
  <2> SUFFICES ASSUME n # 1 PROVE v >= p[n - 1]
    OBVIOUS
  <2>1. n - 1 \in 1 .. IntBits /\ n - 1 \in 0 .. IntBits /\ ~(n <= n - 1)
    BY <1>0, <1>3
  <2>2. n - 1 \notin K
    BY <1>3, <2>1
  <2> QED
    BY <1>1, <2>1, <2>2
<1> QED
  BY <1>3, <1>4 DEF HasLength

\* Where a quotient lies, from where the number does.
LEMMA QuotientWithin ==
  ASSUME NEW v \in Nat, NEW b \in Nat \ {0}, NEW p \in Nat
  PROVE  (v < b * p => v \div b < p) /\ (v >= b * p => v \div b >= p)
<1> DEFINE u == v \div b
           r == v % b
<1>1. u \in Nat /\ r \in 0 .. b - 1 /\ v = b * u + r
  BY Division
<1> HIDE DEF u, r
<1>2. b * u \in Nat /\ b * p \in Nat
  BY <1>1
<1>3. ASSUME v < b * p PROVE u < p
  <2> SUFFICES ASSUME p <= u PROVE FALSE
    BY <1>1
  <2>1. b * p <= b * u
    BY <1>1, TimesMonotone
  <2> QED
    BY <1>1, <1>2, <1>3, <2>1
<1>4. ASSUME v >= b * p PROVE u >= p
  <2> SUFFICES ASSUME u + 1 <= p PROVE FALSE
    BY <1>1
  <2>1. b * (u + 1) <= b * p /\ b * (u + 1) = b * u + b
    BY <1>1, TimesMonotone
  <2> QED
    BY <1>1, <1>2, <1>4, <2>1
<1> QED
  BY <1>3, <1>4 DEF u

LEMMA QuotientBelow ==
  ASSUME NEW v \in Nat \ {0}, NEW b \in Nat \ {0}, b >= 2
  PROVE  v \div b \in Nat /\ v \div b < v
<1> DEFINE u == v \div b
           r == v % b
<1>1. u \in Nat /\ r \in 0 .. b - 1 /\ v = b * u + r
  BY Division
<1> HIDE DEF u, r
<1>2. u * 2 <= u * b /\ u * b = b * u /\ u * b \in Nat
  BY <1>1, TimesMonotone
<1>3. u < v
  BY <1>1, <1>2
<1> QED
  BY <1>1, <1>3 DEF u

LEMMA QuotientOfSmall ==
  ASSUME NEW v \in Nat, NEW b \in Nat \ {0}, v < b
  PROVE  v \div b = 0 /\ v % b = v
<1>1. v = b * 0 + v /\ v \in 0 .. b - 1 /\ 0 \in Nat
  OBVIOUS
<1> QED
  BY <1>1, QuotientIs

\* One digit more.
LEMMA DigitMore ==
  ASSUME NEW b \in Nat \ {0}, b >= 2, NEW p, IsPlaces(p, b), NEW digits, NEW C,
         \A d \in 0 .. b - 1 : digits[1 + d] \in C,
         NEW v \in Nat, NEW n \in 2 .. IntBits, HasLength(v, p, n)
  PROVE  /\ v \div b \in Nat /\ v \div b # 0 /\ v \div b < v
         /\ HasLength(v \div b, p, n - 1)
         /\ Append(DigitsOf(v \div b, b, digits, p, n - 1), digits[1 + (v % b)])
              = DigitsOf(v, b, digits, p, n)
         /\ DigitsOf(v, b, digits, p, n) \in Seq(C)
<1>0. IntBits \in Nat
  BY StringLibAssumption
<1> DEFINE u == v \div b
<1>1. Places(p, b, IntBits) /\ \A k \in 0 .. IntBits : p[k] \in Nat /\ p[k] # 0
  BY PlacesAre
<1>2. u \in Nat /\ v = b * u + (v % b) /\ v % b \in 0 .. b - 1
  BY Division
<1>3. p[n] = b * p[n - 1] /\ p[n - 1] = b * p[n - 2] /\ p[n - 1] \in Nat /\ p[n - 2] \in Nat
      /\ p[n - 2] # 0
  <2>1. n - 1 \in 0 .. IntBits - 1 /\ n - 2 \in 0 .. IntBits - 1 /\ (n - 1) + 1 = n
        /\ (n - 2) + 1 = n - 1 /\ n - 1 \in 0 .. IntBits /\ n - 2 \in 0 .. IntBits
    BY <1>0
  <2>2. p[(n - 1) + 1] = b * p[n - 1] /\ p[(n - 2) + 1] = b * p[n - 2]
    BY <1>1, <2>1, Zenon DEF Places
  <2> QED
    BY <1>1, <2>1, <2>2
<1>4. v < p[n] /\ v >= p[n - 1]
  BY DEF HasLength
<1>5. u < p[n - 1] /\ u >= p[n - 2]
  BY <1>3, <1>4, QuotientWithin
<1>6. u # 0
  BY <1>2, <1>3, <1>5
<1> HIDE DEF u
<1>7. u < v
  <2>1. u * 2 <= u * b /\ u * b = b * u /\ u * b \in Nat
    BY <1>2, TimesMonotone
  <2> QED
    BY <1>2, <1>6, <2>1
<1>8. HasLength(u, p, n - 1)
  <2>1. n - 1 \in 1 .. IntBits /\ (n - 1) - 1 = n - 2
    BY <1>0
  <2> QED
    BY <1>5, <2>1 DEF HasLength
<1> DEFINE s == DigitsOf(u, b, digits, p, n - 1)
           t == DigitsOf(v, b, digits, p, n)
           d == digits[1 + (v % b)]
<1>9. ASSUME NEW x \in Nat, NEW m \in 1 .. IntBits, NEW k \in 1 .. m
      PROVE  digits[1 + ((x \div p[m - k]) % b)] \in C
  <2>1. p[m - k] \in Nat \ {0}
    <3>1. m - k \in 0 .. IntBits
      BY <1>0
    <3> QED
      BY <1>1, <3>1
  <2>2. x \div p[m - k] \in Nat
    BY <2>1, Division
  <2>3. (x \div p[m - k]) % b \in 0 .. b - 1
    BY <2>2, Division
  <2> QED
    BY <2>3
<1>10. /\ s \in Seq(C) /\ Len(s) = n - 1
       /\ \A k \in 1 .. n - 1 : s[k] = digits[1 + ((u \div p[n - 1 - k]) % b)]
  <2>1. \A k \in 1 .. n - 1 : digits[1 + ((u \div p[n - 1 - k]) % b)] \in C
    <3>1. n - 1 \in 1 .. IntBits
      BY <1>0
    <3> QED
      BY <1>2, <1>9, <3>1
  <2> QED
    BY <2>1 DEF DigitsOf
<1>11. /\ t \in Seq(C) /\ Len(t) = n
       /\ \A k \in 1 .. n : t[k] = digits[1 + ((v \div p[n - k]) % b)]
  <2>1. \A k \in 1 .. n : digits[1 + ((v \div p[n - k]) % b)] \in C
    <3>1. n \in 1 .. IntBits
      BY <1>0
    <3> QED
      BY <1>9, <3>1
  <2> QED
    BY <2>1 DEF DigitsOf
<1>12. d \in C
  BY <1>2
<1> HIDE DEF s, t
<1>13. /\ Append(s, d) \in Seq(C) /\ Len(Append(s, d)) = n
       /\ \A k \in 1 .. n - 1 : Append(s, d)[k] = s[k]
       /\ Append(s, d)[n] = d
  BY <1>10, <1>12, AppendProperties
<1>14. ASSUME NEW k \in 1 .. n PROVE Append(s, d)[k] = t[k]
  <2>1. CASE k = n
    <3>1. n - k = 0 /\ p[0] = 1
      BY <1>1, <2>1 DEF Places
    <3>2. v \div 1 = v
      OBVIOUS
    <3> QED
      BY <1>11, <1>13, <2>1, <3>1, <3>2
  <2>2. CASE k # n
    <3>1. k \in 1 .. n - 1 /\ n - 1 - k \in 0 .. IntBits - 1 /\ (n - 1 - k) + 1 = n - k
          /\ n - 1 - k \in 0 .. IntBits
      BY <1>0, <2>2
    <3>2. p[(n - 1 - k) + 1] = b * p[n - 1 - k] /\ p[n - 1 - k] \in Nat \ {0}
      BY <1>1, <3>1 DEF Places
    <3>3. u \div p[n - 1 - k] = v \div (b * p[n - 1 - k])
      BY <3>2, QuotientOfQuotient DEF u
    <3>4. u \div p[n - 1 - k] = v \div p[n - k]
      BY <3>1, <3>2, <3>3
    <3> QED
      BY <1>10, <1>11, <1>13, <3>1, <3>4
  <2> QED
    BY <2>1, <2>2
<1>15. Append(s, d) = t
  BY <1>11, <1>13, <1>14, SeqEqual
<1> QED
  BY <1>2, <1>6, <1>7, <1>8, <1>11, <1>15 DEF u, s, t

\* The numeral of v has as many digits as v.
LEMMA NumeralHas ==
  ASSUME NEW b \in Nat \ {0}, b >= 2, NEW digits, NEW v \in Nat, v < 2^IntBits
  PROVE  \E p : \E n \in 1 .. IntBits :
           /\ IsPlaces(p, b) /\ HasLength(v, p, n)
           /\ Numeral(v, b, digits) = DigitsOf(v, b, digits, p, n)
<1> DEFINE p == CHOOSE f : IsPlaces(f, b)
           L(k) == v < p[k] /\ (k = 1 \/ v >= p[k - 1])
           n == CHOOSE k \in 1 .. IntBits : L(k)
<1>1. Numeral(v, b, digits) = DigitsOf(v, b, digits, p, n)
  BY DEF Numeral, DigitsOf, IsPlaces
<1>2. IsPlaces(p, b)
  <2>1. \E f : IsPlaces(f, b)
    BY PlacesExist
  <2> QED
    BY <2>1
<1> HIDE DEF p
<1>3. n \in 1 .. IntBits /\ HasLength(v, p, n)
  <2>1. PICK k \in 1 .. IntBits : HasLength(v, p, k)
    BY <1>2, LengthExists
  <2>2. L(k)
    BY <2>1 DEF HasLength
  <2>3. n \in 1 .. IntBits /\ L(n)
    <3> HIDE DEF L
    <3> QED
      BY <2>2
  <2> QED
    BY <2>3 DEF HasLength
<1> HIDE DEF n
<1> QED
  BY <1>1, <1>2, <1>3

\* h takes the last digit off a number and g is that digit.
ByBase(v, h, g, b, digits) ==
  \A x \in 1 .. v : h[x] = x \div b /\ g[x] = digits[1 + (x % b)]
\* A set of characters that has the digits.
DigitsIn(C, digits, b) == \A d \in 0 .. b - 1 : digits[1 + d] \in C

\* The numeral is what recursion on the quotients finds.
LEMMA NumeralIs ==
  ASSUME NEW b \in Nat \ {0}, b >= 2, NEW digits, NEW C, DigitsIn(C, digits, b),
         NEW v \in Nat, v < 2^IntBits, NEW s, NEW h, NEW g,
         Collects(v, s, h, g), ByBase(v, h, g, b, digits)
  PROVE  Numeral(v, b, digits) = (IF v = 0 THEN <<digits[1]>> ELSE s[v])
         /\ Numeral(v, b, digits) \in Seq(C) /\ Numeral(v, b, digits) # <<>>
<1>0. IntBits \in Nat
  BY StringLibAssumption
<1> USE DEF DigitsIn, ByBase
<1>10. ASSUME NEW q, IsPlaces(q, b), NEW y \in Nat, NEW k \in 2 .. IntBits, HasLength(y, q, k)
       PROVE  /\ y \div b \in Nat /\ y \div b # 0 /\ y \div b < y
              /\ HasLength(y \div b, q, k - 1)
              /\ Append(DigitsOf(y \div b, b, digits, q, k - 1), digits[1 + (y % b)])
                   = DigitsOf(y, b, digits, q, k)
              /\ DigitsOf(y, b, digits, q, k) \in Seq(C)
  BY <1>10, DigitMore
<1>1. PICK p : \E n \in 1 .. IntBits :
        /\ IsPlaces(p, b) /\ HasLength(v, p, n)
        /\ Numeral(v, b, digits) = DigitsOf(v, b, digits, p, n)
  BY NumeralHas
<1>2. PICK n \in 1 .. IntBits :
        /\ IsPlaces(p, b) /\ HasLength(v, p, n)
        /\ Numeral(v, b, digits) = DigitsOf(v, b, digits, p, n)
  BY <1>1
<1>3. HasLength(v, p, n) /\ Numeral(v, b, digits) = DigitsOf(v, b, digits, p, n)
  BY <1>2
<1>4. Places(p, b, IntBits) /\ \A k \in 0 .. IntBits : p[k] \in Nat /\ p[k] # 0
  BY <1>2, PlacesAre
<1>5. ASSUME NEW x \in Nat, HasLength(x, p, 1)
      PROVE  DigitsOf(x, b, digits, p, 1) = <<digits[1 + (x % b)]>> /\ x < b
  <2>1. 0 \in 0 .. IntBits - 1
    BY StringLibAssumption
  <2>2. p[0 + 1] = b * p[0] /\ p[0] = 1
    BY <1>4, <2>1 DEF Places
  <2>3. p[1] = b
    BY <2>2
  <2>4. x < b
    BY <1>5, <2>3 DEF HasLength
  <2>5. \A k \in 1 .. 1 : (x \div p[1 - k]) % b = x % b
    BY <2>2
  <2>6. DigitsOf(x, b, digits, p, 1) = [k \in 1 .. 1 |-> digits[1 + (x % b)]]
    BY <2>5, Zenon DEF DigitsOf
  <2>7. [k \in 1 .. 1 |-> digits[1 + (x % b)]] = <<digits[1 + (x % b)]>>
    OBVIOUS
  <2> QED
    BY <2>4, <2>6, <2>7
<1> DEFINE Right(x) == \A m \in 1 .. IntBits :
                         HasLength(x, p, m) => s[x] = DigitsOf(x, b, digits, p, m)
           D == {x \in 1 .. v : ~Right(x)}
<1>6. D = {}
  <2> SUFFICES ASSUME D # {} PROVE FALSE
    OBVIOUS
  <2>1. PICK x \in D : \A y \in D : x <= y
    <3>1. D \in SUBSET Nat
      OBVIOUS
    <3> HIDE DEF D
    <3> QED
      BY <3>1, LeastOf
  <2>2. PICK m \in 1 .. IntBits : HasLength(x, p, m) /\ s[x] # DigitsOf(x, b, digits, p, m)
    BY <2>1
  <2>3. x \in 1 .. v /\ x \in Nat /\ x \in 0 .. v /\ x # 0
    BY <2>1
  <2>4. s[x] = Append(s[x \div b], digits[1 + (x % b)])
    BY <2>3 DEF Collects, Digit
  <2>5. CASE m = 1
    <3>1. x < b /\ DigitsOf(x, b, digits, p, m) = <<digits[1 + (x % b)]>>
      BY <1>5, <2>2, <2>3, <2>5
    <3>3. x \div b = 0
      BY <2>3, <3>1, QuotientOfSmall
    <3>4. s[0] = <<>>
      <4>1. 0 \in 0 .. v
        OBVIOUS
      <4> QED
        BY <4>1 DEF Collects, Digit
    <3>5. Append(<<>>, digits[1 + (x % b)]) = <<digits[1 + (x % b)]>>
      OBVIOUS
    <3> QED
      BY <2>2, <2>4, <3>1, <3>3, <3>4, <3>5
  <2>6. CASE m # 1
    <3>1. m \in 2 .. IntBits
      BY <2>6
    <3> DEFINE u == x \div b
    <3>2. /\ u \in Nat /\ u # 0 /\ u < x /\ HasLength(u, p, m - 1)
          /\ Append(DigitsOf(u, b, digits, p, m - 1), digits[1 + (x % b)])
               = DigitsOf(x, b, digits, p, m)
          /\ DigitsOf(x, b, digits, p, m) \in Seq(C)
      <4>1. IsPlaces(p, b) /\ x \in Nat /\ HasLength(x, p, m)
        BY <1>2, <2>2, <2>3, Zenon
      <4> QED
        BY <1>10, <3>1, <4>1, Zenon
    <3> HIDE DEF u
    <3>3. u \in 1 .. v /\ ~(x <= u)
      BY <2>3, <3>2
    <3>4. Right(u)
      BY <2>1, <3>3
    <3>5. m - 1 \in 1 .. IntBits
      BY <1>0, <3>1
    <3>6. s[u] = DigitsOf(u, b, digits, p, m - 1)
      BY <3>2, <3>4, <3>5
    <3> QED
      BY <2>2, <2>4, <3>2, <3>6 DEF u
  <2> QED
    BY <2>5, <2>6
<1>7. CASE v = 0
  <2>1. n = 1
    <3> SUFFICES ASSUME n # 1 PROVE FALSE
      OBVIOUS
    <3>1. n - 1 \in 0 .. IntBits /\ v >= p[n - 1]
      BY <1>0, <1>3 DEF HasLength
    <3> QED
      BY <1>4, <1>7, <3>1
  <2>2. v % b = 0
    BY <1>7, QuotientOfSmall
  <2>3. DigitsOf(v, b, digits, p, n) = <<digits[1 + 0]>>
    BY <1>3, <1>5, <2>1, <2>2
  <2>4. 1 + 0 = 1 /\ 0 \in 0 .. b - 1
    OBVIOUS
  <2>5. digits[1] \in C
    BY <2>4
  <2>6. <<digits[1]>> \in Seq(C) /\ <<digits[1]>> # <<>>
    BY <2>5
  <2>7. Numeral(v, b, digits) = <<digits[1]>>
    BY <1>3, <2>3, <2>4, Zenon
  <2> QED
    BY <1>7, <2>6, <2>7
<1>8. CASE v # 0
  <2>1. v \in 1 .. v
    BY <1>8
  <2>2. s[v] = DigitsOf(v, b, digits, p, n)
    BY <1>3, <1>6, <2>1
  <2>3. s[v] \in Seq(C)
    <3>1. \A x \in 1 .. v : g[x] \in C /\ h[x] \in 0 .. x - 1
      <4> TAKE x \in 1 .. v
      <4>1. x \in Nat /\ x # 0
        OBVIOUS
      <4>2. x % b \in 0 .. b - 1 /\ x \div b \in Nat /\ x \div b < x
        BY <4>1, Division, QuotientBelow
      <4>3. digits[1 + (x % b)] \in C /\ x \div b \in 0 .. x - 1
        BY <4>2
      <4> QED
        BY <4>3
    <3>2. \A y \in 0 .. v : s[y] \in Seq(C)
      BY <3>1, DescentIsSeq
    <3> QED
      BY <3>2
  <2>4. s[v] # <<>>
    <3>1. Len(DigitsOf(v, b, digits, p, n)) = n /\ n # 0
      BY <1>3 DEF DigitsOf
    <3>2. Len(<<>>) = 0
      OBVIOUS
    <3> QED
      BY <2>2, <3>1, <3>2
  <2> QED
    BY <1>3, <1>8, <2>2, <2>3, <2>4
<1> QED
  BY <1>7, <1>8

-----------------------------------------------------------------------------
(* The characters, and what the code finds digit by digit.                 *)

\* The provers have no rule for what a string is.
Characters ==
  STRING \cup {"0", "1", "2", "3", "4", "5", "6", "7", "8", "9", "a", "b", "c", "d", "e",
               "f", "A", "B", "C", "D", "E", "F", "%", "-", " ", "s", "u", "x", "X",
               "n", "l", "(", ")", "z", "=", "\n"}

\* The decimal digits, and the value Width reads of each.
LEMMA DigitsAre ==
  /\ DecimalDigits = {"0", "1", "2", "3", "4", "5", "6", "7", "8", "9"}
  /\ DigitsLower[1 + 0] = "0"
  /\ \A d \in 0 .. 9 : /\ DigitsLower[1 + d] \in DecimalDigits
                       /\ Value(DigitsLower[1 + d]) = d
                       /\ d # 0 => DigitsLower[1 + d] # "0"
<1>1. /\ DigitsLower[1] = "0" /\ DigitsLower[2] = "1" /\ DigitsLower[3] = "2"
      /\ DigitsLower[4] = "3" /\ DigitsLower[5] = "4" /\ DigitsLower[6] = "5"
      /\ DigitsLower[7] = "6" /\ DigitsLower[8] = "7" /\ DigitsLower[9] = "8"
      /\ DigitsLower[10] = "9"
  BY DEF DigitsLower
<1>2. ASSUME NEW k \in 1 .. 10, NEW m \in 1 .. 10, DigitsLower[k] = DigitsLower[m]
      PROVE  k = m
  BY <1>1, <1>2
<1>3. DecimalDigits = {"0", "1", "2", "3", "4", "5", "6", "7", "8", "9"}
  <2>1. ASSUME NEW c \in DecimalDigits
        PROVE  c \in {"0", "1", "2", "3", "4", "5", "6", "7", "8", "9"}
    <3>1. PICK k \in 1 .. 10 : c = DigitsLower[k]
      BY <2>1 DEF DecimalDigits
    <3> QED
      BY <1>1, <3>1
  <2>2. ASSUME NEW k \in 1 .. 10 PROVE DigitsLower[k] \in DecimalDigits
    BY <2>2, Zenon DEF DecimalDigits
  <2>3. {"0", "1", "2", "3", "4", "5", "6", "7", "8", "9"} \subseteq DecimalDigits
    BY <1>1, <2>2
  <2> QED
    BY <2>1, <2>3
<1>4. ASSUME NEW d \in 0 .. 9
      PROVE  /\ DigitsLower[1 + d] \in DecimalDigits
             /\ Value(DigitsLower[1 + d]) = d
             /\ d # 0 => DigitsLower[1 + d] # "0"
  <2>1. 1 + d \in 1 .. 10 /\ d + 1 = 1 + d
    OBVIOUS
  <2>2. DigitsLower[1 + d] \in DecimalDigits
    BY <2>1, Zenon DEF DecimalDigits
  <2> DEFINE v == CHOOSE v \in 0 .. 9 : DigitsLower[v + 1] = DigitsLower[1 + d]
  <2>3. v \in 0 .. 9 /\ DigitsLower[v + 1] = DigitsLower[1 + d]
    BY <2>1
  <2>4. Value(DigitsLower[1 + d]) = v
    BY DEF Value
  <2> HIDE DEF v
  <2>5. v + 1 = 1 + d
    BY <1>2, <2>1, <2>3
  <2>6. v = d
    BY <2>3, <2>5
  <2>7. d # 0 => 1 + d # 1
    OBVIOUS
  <2> QED
    BY <1>1, <1>2, <2>1, <2>2, <2>4, <2>6, <2>7
<1> QED
  BY <1>1, <1>3, <1>4

\* The digits of either case are characters.
LEMMA DigitsOf16 ==
  ASSUME NEW digits \in {DigitsLower, DigitsUpper}
  PROVE  digits[1] = "0" /\ \A d \in 0 .. 15 : digits[1 + d] \in Characters
<1>1. /\ DigitsLower[1] = "0" /\ DigitsLower[2] = "1" /\ DigitsLower[3] = "2" /\ DigitsLower[4] = "3"
      /\ DigitsLower[5] = "4" /\ DigitsLower[6] = "5" /\ DigitsLower[7] = "6" /\ DigitsLower[8] = "7"
      /\ DigitsLower[9] = "8" /\ DigitsLower[10] = "9" /\ DigitsLower[11] = "a" /\ DigitsLower[12] = "b"
      /\ DigitsLower[13] = "c" /\ DigitsLower[14] = "d" /\ DigitsLower[15] = "e" /\ DigitsLower[16] = "f"
  BY DEF DigitsLower
<1>2. /\ DigitsUpper[1] = "0" /\ DigitsUpper[2] = "1" /\ DigitsUpper[3] = "2" /\ DigitsUpper[4] = "3"
      /\ DigitsUpper[5] = "4" /\ DigitsUpper[6] = "5" /\ DigitsUpper[7] = "6" /\ DigitsUpper[8] = "7"
      /\ DigitsUpper[9] = "8" /\ DigitsUpper[10] = "9" /\ DigitsUpper[11] = "A" /\ DigitsUpper[12] = "B"
      /\ DigitsUpper[13] = "C" /\ DigitsUpper[14] = "D" /\ DigitsUpper[15] = "E" /\ DigitsUpper[16] = "F"
  BY DEF DigitsUpper
<1>3. ASSUME NEW k \in 1 .. 16 PROVE DigitsLower[k] \in Characters /\ DigitsUpper[k] \in Characters
  <2> DEFINE H == {"0", "1", "2", "3", "4", "5", "6", "7", "8", "9", "a", "b", "c", "d", "e",
                   "f", "A", "B", "C", "D", "E", "F"}
  <2>1. DigitsLower[k] \in H /\ DigitsUpper[k] \in H
    BY <1>1, <1>2
  <2>2. H \subseteq Characters
    BY DEF Characters
  <2> QED
    BY <2>1, <2>2
<1>4. \A d \in 0 .. 15 : 1 + d \in 1 .. 16
  OBVIOUS
<1> QED
  BY <1>1, <1>2, <1>3, <1>4

\* What the code finds digit by digit is the numeral.
LEMMA Decimals ==
  ASSUME NEW v \in 0 .. 2^IntBits - 1
  PROVE  /\ write_uart_int(v) = Numeral(v, 10, DigitsLower)
         /\ v # 0 => Decimal(v) = Numeral(v, 10, DigitsLower)
         /\ v = 0 => Numeral(v, 10, DigitsLower) = <<"0">>
         /\ Numeral(v, 10, DigitsLower) \in Seq(DecimalDigits)
         /\ Numeral(v, 10, DigitsLower) \in Seq(Characters)
<1>1. v \in Nat /\ v < 2^IntBits /\ 2^IntBits \in Nat
  BY IntsOf32
<1>2. PICK t : ByDivision(t) /\ \A u \in Nat \ {0} : write_uart_int(u) = t[u]
  BY DividedNumerals
<1>3. Collects(v, t, Divided, DigitDue)
  <2>1. \A u \in Nat : t[u] = IF u = 0 THEN <<>>
                        ELSE Append(t[u \div 10], DigitsLower[1 + (u % 10)])
    BY <1>2, Zenon DEF ByDivision
  <2>2. \A u \in 0 .. v : u \in Nat
    BY <1>1
  <2> QED
    BY <2>1, <2>2, Zenon DEF Collects, Digit, Divided, DigitDue
<1>4. \A x \in 1 .. v : Divided[x] = x \div 10 /\ DigitDue[x] = DigitsLower[1 + (x % 10)]
  <2>1. \A x \in 1 .. v : x \in Nat
    BY <1>1
  <2> QED
    BY <2>1, Zenon DEF Divided, DigitDue
<1>5. \A d \in 0 .. 10 - 1 : DigitsLower[1 + d] \in DecimalDigits
  BY DigitsAre
<1>6. /\ Numeral(v, 10, DigitsLower) = IF v = 0 THEN <<DigitsLower[1]>> ELSE t[v]
      /\ Numeral(v, 10, DigitsLower) \in Seq(DecimalDigits)
  <2> DEFINE b == 10
  <2>1. b \in Nat \ {0} /\ b >= 2
    OBVIOUS
  <2>2. ByBase(v, Divided, DigitDue, b, DigitsLower)
    BY <1>4 DEF ByBase
  <2>3. DigitsIn(DecimalDigits, DigitsLower, b)
    BY <1>5 DEF DigitsIn
  <2> HIDE DEF b
  <2>4. /\ Numeral(v, b, DigitsLower) = IF v = 0 THEN <<DigitsLower[1]>> ELSE t[v]
        /\ Numeral(v, b, DigitsLower) \in Seq(DecimalDigits)
    BY <1>1, <1>3, <2>1, <2>2, <2>3, NumeralIs
  <2> QED
    BY <2>4 DEF b
<1>7. DecimalDigits \subseteq Characters /\ DigitsLower[1] = "0"
  <2>1. {"0", "1", "2", "3", "4", "5", "6", "7", "8", "9"} \subseteq Characters
    BY DEF Characters
  <2>2. DecimalDigits \subseteq Characters
    BY <2>1, DigitsAre
  <2>3. DigitsLower[1] = "0"
    BY DigitsOf16
  <2> QED
    BY <2>2, <2>3
<1>8. Numeral(v, 10, DigitsLower) \in Seq(Characters)
  BY <1>6, <1>7
<1>9. CASE v = 0
  <2>1. write_uart_int(v) = <<"0">>
    BY <1>9, Zenon DEF write_uart_int
  <2> QED
    BY <1>6, <1>7, <1>8, <1>9, <2>1
<1>10. CASE v # 0
  <2>1. v \in Nat \ {0} /\ v \in 1 .. 2^IntBits - 1
    BY <1>1, <1>10
  <2> QED
    BY <1>2, <1>6, <1>8, <1>10, <2>1, SameNumerals
<1> QED
  BY <1>9, <1>10

\* The same of the hexadecimal ones.
LEMMA Hexadecimals ==
  ASSUME NEW digits \in {DigitsLower, DigitsUpper}, NEW v \in 0 .. 2^IntBits - 1
  PROVE  /\ v # 0 => Hexadecimal(v, digits) = Numeral(v, 16, digits)
         /\ v = 0 => Numeral(v, 16, digits) = <<"0">>
         /\ Numeral(v, 16, digits) \in Seq(Characters)
<1>1. v \in Nat /\ v < 2^IntBits /\ 2^IntBits \in Nat
  BY IntsOf32
<1> DEFINE h == [x \in Nat |-> x \div 16]
           g == [x \in Nat |-> digits[1 + (x % 16)]]
           By(s) == s = [x \in Nat |-> IF x = 0 THEN <<>>
                                       ELSE Append(s[x \div 16], digits[1 + (x % 16)])]
           t == CHOOSE s : By(s)
<1>2. Hexadecimal(v, digits) = t[v]
  BY DEF Hexadecimal
<1>3. By(t)
  <2>1. h \in [Nat -> Nat] /\ \A x \in Nat \ {0} : h[x] < x
    OBVIOUS
  <2>2. PICK s : Descends(s, h, g)
    <3> HIDE DEF h, g
    <3> QED
      BY <2>1, DescentExists
  <2>3. By(s)
    BY <2>2 DEF Descends, Digit
  <2> HIDE DEF By
  <2> QED
    BY <2>3
<1> HIDE DEF t
<1>4. \A x \in Nat : t[x] = IF x = 0 THEN <<>>
                            ELSE Append(t[x \div 16], digits[1 + (x % 16)])
  BY <1>3, Zenon
<1> HIDE DEF By
<1>5. \A x \in 0 .. v : x \in Nat
  BY <1>1
<1>6. Collects(v, t, h, g)
  BY <1>4, <1>5, Zenon DEF Collects, Digit
<1>7. \A x \in 1 .. v : h[x] = x \div 16 /\ g[x] = digits[1 + (x % 16)]
  <2>1. \A x \in 1 .. v : x \in Nat
    BY <1>1
  <2> QED
    BY <2>1, Zenon
<1> HIDE DEF h, g
<1>8. \A d \in 0 .. 16 - 1 : digits[1 + d] \in Characters
  BY DigitsOf16
<1>9. /\ Numeral(v, 16, digits) = IF v = 0 THEN <<digits[1]>> ELSE t[v]
      /\ Numeral(v, 16, digits) \in Seq(Characters)
  <2> DEFINE b == 16
  <2>1. b \in Nat \ {0} /\ b >= 2
    OBVIOUS
  <2>2. ByBase(v, h, g, b, digits)
    BY <1>7 DEF ByBase
  <2>3. DigitsIn(Characters, digits, b)
    BY <1>8 DEF DigitsIn
  <2> HIDE DEF b
  <2>4. /\ Numeral(v, b, digits) = IF v = 0 THEN <<digits[1]>> ELSE t[v]
        /\ Numeral(v, b, digits) \in Seq(Characters)
    BY <1>1, <1>6, <2>1, <2>2, <2>3, NumeralIs
  <2> QED
    BY <2>4 DEF b
<1> QED
  BY <1>2, <1>9, DigitsOf16

LEMMA LastDigit ==
  ASSUME NEW x \in Nat
  PROVE  x = 10 * (x \div 10) + (x % 10) /\ x % 10 \in 0 .. 9
OBVIOUS

\* How a numeral is read again.
LEMMA NumeralReads ==
  ASSUME NEW v \in 1 .. 2^IntBits - 1
  PROVE  LET s == Numeral(v, 10, DigitsLower)
         IN /\ s \in Seq(DecimalDigits) /\ Len(s) # 0 /\ s[1] # "0"
            /\ \E r \in [0 .. Len(s) -> Nat] :
                 /\ r[0] = 0 /\ r[Len(s)] = v
                 /\ \A k \in 1 .. Len(s) : r[k] = 10 * r[k - 1] + Value(s[k])
<1>0. IntBits \in Nat /\ 10 \in Nat \ {0} /\ 10 >= 2
  BY StringLibAssumption
<1>1. v \in Nat /\ v # 0 /\ v < 2^IntBits /\ 2^IntBits \in Nat /\ v \in 0 .. 2^IntBits - 1
  BY IntsOf32
<1>2. PICK p : \E n \in 1 .. IntBits :
        /\ IsPlaces(p, 10) /\ HasLength(v, p, n)
        /\ Numeral(v, 10, DigitsLower) = DigitsOf(v, 10, DigitsLower, p, n)
  BY <1>0, <1>1, NumeralHas
<1>3. PICK n \in 1 .. IntBits :
        /\ IsPlaces(p, 10) /\ HasLength(v, p, n)
        /\ Numeral(v, 10, DigitsLower) = DigitsOf(v, 10, DigitsLower, p, n)
  BY <1>2
<1> DEFINE s == Numeral(v, 10, DigitsLower)
           r == [k \in 0 .. n |-> v \div p[n - k]]
<1>4. Places(p, 10, IntBits) /\ \A k \in 0 .. IntBits : p[k] \in Nat \ {0}
  BY <1>0, <1>3, PlacesAre
<1>5. s \in Seq(DecimalDigits)
  BY <1>1, Decimals
<1>6. s = [k \in 1 .. n |-> DigitsLower[1 + ((v \div p[n - k]) % 10)]]
  BY <1>3 DEF DigitsOf
<1> HIDE DEF s
<1>7. Len(s) = n
  BY <1>6
<1>8. ASSUME NEW k \in 0 .. n PROVE r[k] = v \div p[n - k] /\ r[k] \in Nat
  <2>1. n - k \in 0 .. IntBits
    BY <1>0
  <2>2. r[k] = v \div p[n - k]
    BY Zenon
  <2> QED
    BY <1>1, <1>4, <2>1, <2>2, Division
<1>9. r \in [0 .. n -> Nat]
  <2>1. r = [k \in 0 .. n |-> r[k]]
    OBVIOUS
  <2> HIDE DEF r
  <2> QED
    BY <1>8, <2>1
<1> HIDE DEF r
<1>10. ASSUME NEW k \in 1 .. n
       PROVE  s[k] = DigitsLower[1 + (r[k] % 10)] /\ r[k] = 10 * r[k - 1] + (r[k] % 10)
              /\ r[k] % 10 \in 0 .. 9
  <2>1. k \in 0 .. n /\ k - 1 \in 0 .. n /\ n - (k - 1) = (n - k) + 1 /\ n - k \in 0 .. IntBits - 1
        /\ n - k \in 0 .. IntBits
    BY <1>0
  <2>2. p[(n - k) + 1] = 10 * p[n - k] /\ p[n - k] \in Nat \ {0}
    BY <1>4, <2>1 DEF Places
  <2>3. v \div (10 * p[n - k]) = (v \div p[n - k]) \div 10
    <3> DEFINE x == p[n - k]
    <3>1. x \in Nat \ {0}
      BY <2>2
    <3> HIDE DEF x
    <3>2. v \div (x * 10) = (v \div x) \div 10 /\ x * 10 = 10 * x
      BY <1>0, <1>1, <3>1, QuotientOfQuotient
    <3>3. v \div (10 * x) = (v \div x) \div 10
      BY <3>2
    <3> QED
      BY <3>3 DEF x
  <2>4. r[k - 1] = r[k] \div 10 /\ r[k] \in Nat
    BY <1>8, <2>1, <2>2, <2>3
  <2>5. s[k] = DigitsLower[1 + (r[k] % 10)]
    BY <1>6, <1>8, <2>1
  <2> DEFINE x == r[k]
             y == r[k - 1]
  <2>6. x \in Nat /\ y = x \div 10
    BY <2>4
  <2>7. s[k] = DigitsLower[1 + (x % 10)]
    BY <2>5
  <2> HIDE DEF x, y
  <2>8. x = 10 * y + (x % 10) /\ x % 10 \in 0 .. 9
    BY <2>6, LastDigit
  <2> QED
    BY <2>7, <2>8, Zenon DEF x, y
<1>11. r[0] = 0
  <2>1. 0 \in 0 .. n /\ n - 0 = n /\ n \in 0 .. IntBits
    BY <1>0
  <2>2. v < p[n] /\ p[n] \in Nat \ {0}
    BY <1>3, <1>4, <2>1 DEF HasLength
  <2>3. v \div p[n] = 0
    BY <1>1, <2>2, QuotientOfSmall
  <2> QED
    BY <1>8, <2>1, <2>3
<1>12. r[n] = v
  <2>1. n \in 0 .. n /\ n - n = 0 /\ p[0] = 1 /\ v \div 1 = v
    BY <1>1, <1>4 DEF Places
  <2> QED
    BY <1>8, <2>1
<1>13. s[1] # "0"
  <2>1. 1 \in 1 .. n /\ 1 \in 0 .. n /\ 1 - 1 = 0
    OBVIOUS
  <2>2. r[1] # 0
    <3>1. CASE n = 1
      BY <1>1, <1>12, <3>1
    <3>2. CASE n # 1
      <4>1. n - 1 \in 0 .. IntBits /\ v >= p[n - 1] /\ p[n - 1] \in Nat \ {0}
        BY <1>0, <1>3, <1>4, <3>2 DEF HasLength
      <4> DEFINE x == p[n - 1]
      <4>2. v >= x * 1 /\ x \in Nat \ {0}
        BY <4>1
      <4>3. v \div x >= 1
        <5> HIDE DEF x
        <5> QED
          BY <1>1, <4>2, QuotientWithin
      <4> QED
        BY <1>8, <2>1, <4>3
    <3> QED
      BY <3>1, <3>2
  <2>3. r[1] = 10 * r[0] + (r[1] % 10) /\ r[1] % 10 \in 0 .. 9 /\ s[1] = DigitsLower[1 + (r[1] % 10)]
    BY <1>10, <2>1
  <2>4. r[1] % 10 # 0
    <3> DEFINE x == r[1]
    <3>1. x = 10 * 0 + (x % 10) /\ x # 0
      BY <1>11, <2>2, <2>3, Zenon
    <3> DEFINE m == x % 10
    <3>2. x = 10 * 0 + m /\ m \in 0 .. 9
      BY <2>3, <3>1, Zenon
    <3> HIDE DEF m
    <3>3. x = m
      BY <3>2
    <3> QED
      BY <3>1, <3>3, Zenon DEF m
  <2> DEFINE d == r[1] % 10
  <2>5. d \in 0 .. 9 /\ d # 0 /\ s[1] = DigitsLower[1 + d]
    BY <2>3, <2>4, Zenon
  <2> HIDE DEF d
  <2> QED
    BY <2>5, DigitsAre
<1>14. ASSUME NEW k \in 1 .. n PROVE r[k] = 10 * r[k - 1] + Value(s[k])
  <2>1. Value(s[k]) = r[k] % 10
    <3> DEFINE d == r[k] % 10
    <3>1. d \in 0 .. 9 /\ s[k] = DigitsLower[1 + d]
      BY <1>10, Zenon
    <3> HIDE DEF d
    <3>2. Value(s[k]) = d
      BY <3>1, DigitsAre
    <3> QED
      BY <3>2 DEF d
  <2> QED
    BY <1>10, <2>1, Zenon
<1>15. s \in Seq(DecimalDigits) /\ Len(s) # 0 /\ s[1] # "0"
  BY <1>5, <1>7, <1>13
<1> QED
  BY <1>7, <1>9, <1>11, <1>12, <1>14, <1>15 DEF s

-----------------------------------------------------------------------------
(* Fields: a text in its width, with its sign and its filling.             *)

\* An int as the unsigned one it is printed as.
LEMMA Residue ==
  ASSUME NEW P \in Nat \ {0}, NEW i \in Int, -P < i, i < P
  PROVE  i % P = (IF i < 0 THEN i + P ELSE i)
<1> DEFINE q == i \div P
           m == i % P
<1>1. q \in Int /\ m \in 0 .. P - 1 /\ i = P * q + m
  OBVIOUS
<1> HIDE DEF q, m
<1>2. q < 1
  <2> SUFFICES ASSUME q >= 1 PROVE FALSE
    BY <1>1
  <2>1. q - 1 \in Nat
    BY <1>1
  <2>2. P * (q - 1) >= 0
    BY <2>1
  <2>3. P * (q - 1) = P * q - P
    BY <1>1
  <2> QED
    BY <1>1, <2>2, <2>3
<1>3. q > -2
  <2> SUFFICES ASSUME q <= -2 PROVE FALSE
    BY <1>1
  <2>1. 0 - q - 2 \in Nat
    BY <1>1
  <2>2. P * (0 - q - 2) >= 0
    BY <2>1
  <2>3. P * (0 - q - 2) = 0 - P * q - 2 * P
    BY <1>1
  <2> QED
    BY <1>1, <2>2, <2>3
<1>4. CASE q = 0
  BY <1>1, <1>4 DEF m
<1>5. CASE q = -1
  BY <1>1, <1>5 DEF m
<1> QED
  BY <1>1, <1>2, <1>3, <1>4, <1>5

\* n times c, or nothing.
Fill(n, c) == [k \in 1 .. (IF n > 0 THEN n ELSE 0) |-> c]
\* The flags qprint hands on.
Pad(flag) == (IF flag = "-" THEN {"PAD_RIGHT"} ELSE {}) \cup (IF flag = "0" THEN {"PAD_ZERO"} ELSE {})

LEMMA FillIs ==
  ASSUME NEW n \in Int, NEW c \in Characters
  PROVE  Fill(n, c) \in Seq(Characters) /\ (n <= 0 => Fill(n, c) = <<>>)
<1>1. CASE n > 0
  <2>1. Fill(n, c) = [k \in 1 .. n |-> c]
    BY <1>1 DEF Fill
  <2> QED
    BY <1>1, <2>1
<1>2. CASE ~(n > 0)
  <2>1. Fill(n, c) = [k \in 1 .. 0 |-> c]
    BY <1>2, Zenon DEF Fill
  <2>2. [k \in 1 .. 0 |-> c] = <<>>
    OBVIOUS
  <2> QED
    BY <1>2, <2>1, <2>2
<1> QED
  BY <1>1, <1>2

\* What qprints returns, by the flag.
LEMMA Filled ==
  ASSUME NEW str \in Seq(Characters), NEW w \in Nat, NEW flag \in Flags
  PROVE  qprints(str, w, Pad(flag)) =
           (CASE flag = "-" -> str \o Fill(w - Len(str), " ")
              [] flag = "0" -> Fill(w - Len(str), "0") \o str
              [] OTHER -> Fill(w - Len(str), " ") \o str)
<1> DEFINE n == w - Len(str)
           missing == IF w > Len(str) THEN n ELSE 0
<1>1. Len(str) \in Nat
  OBVIOUS
<1>2. missing = IF n > 0 THEN n ELSE 0
  BY <1>1
<1>3. qprints(str, w, Pad(flag)) =
        LET filling == [k \in 1 .. missing |-> IF "PAD_ZERO" \in Pad(flag) THEN "0" ELSE " "]
        IN IF "PAD_RIGHT" \in Pad(flag) THEN str \o filling ELSE filling \o str
  BY DEF qprints
<1> HIDE DEF missing, n
<1>4. CASE flag = "-"
  <2>1. "PAD_RIGHT" \in Pad(flag) /\ "PAD_ZERO" \notin Pad(flag)
    BY <1>4 DEF Pad
  <2>2. qprints(str, w, Pad(flag)) = str \o [k \in 1 .. missing |-> " "]
    BY <1>3, <2>1, Zenon
  <2>3. qprints(str, w, Pad(flag)) = str \o Fill(n, " ")
    BY <1>2, <2>2, Zenon DEF Fill
  <2> QED
    BY <1>4, <2>3 DEF n
<1>5. CASE flag = "0"
  <2>1. "PAD_RIGHT" \notin Pad(flag) /\ "PAD_ZERO" \in Pad(flag)
    BY <1>5 DEF Pad
  <2>2. qprints(str, w, Pad(flag)) = [k \in 1 .. missing |-> "0"] \o str
    BY <1>3, <2>1, Zenon
  <2>3. qprints(str, w, Pad(flag)) = Fill(n, "0") \o str
    BY <1>2, <2>2, Zenon DEF Fill
  <2> QED
    BY <1>5, <2>3 DEF n
<1>6. CASE flag = ""
  <2>1. "PAD_RIGHT" \notin Pad(flag) /\ "PAD_ZERO" \notin Pad(flag)
    BY <1>6 DEF Pad
  <2>2. qprints(str, w, Pad(flag)) = [k \in 1 .. missing |-> " "] \o str
    BY <1>3, <2>1, Zenon
  <2>3. qprints(str, w, Pad(flag)) = Fill(n, " ") \o str
    BY <1>2, <2>2, Zenon DEF Fill
  <2> QED
    BY <1>6, <2>3 DEF n
<1> QED
  BY <1>4, <1>5, <1>6 DEF Flags

LEMMA PieceIs ==
  ASSUME NEW f, NEW w, NEW s, NEW v
  PROVE  /\ Piece(f, w, s, v).flag = f /\ Piece(f, w, s, v).width = w
         /\ Piece(f, w, s, v).spec = s /\ Piece(f, w, s, v).arg = v
BY DEF Piece

\* What a field is, without a sign and with one.
LEMMA PlainField ==
  ASSUME NEW f \in Flags, NEW w \in Nat, NEW s, NEW v, NEW str \in Seq(Characters),
         Minus(Piece(f, w, s, v)) = <<>>, Body(Piece(f, w, s, v)) = str
  PROVE  /\ Field(Piece(f, w, s, v)) = qprints(str, w, Pad(f))
         /\ Field(Piece(f, w, s, v)) \in Seq(Characters)
<1> DEFINE p == Piece(f, w, s, v)
           n == w - Len(str)
<1>1. p.flag = f /\ p.width = w
  BY PieceIs
<1>2. <<>> \o str = str /\ Len(str) \in Nat
  OBVIOUS
<1>3. \A c : Filling(p, c) = Fill(n, c)
  BY <1>1, <1>2, Zenon DEF Filling, Fill
<1>4. " " \in Characters /\ "0" \in Characters
  BY DEF Characters
<1>5. Fill(n, " ") \in Seq(Characters) /\ Fill(n, "0") \in Seq(Characters)
  <2>1. n \in Int
    BY <1>2
  <2> HIDE DEF n
  <2> QED
    BY <1>4, <2>1, FillIs
<1>6. Field(p) = CASE f = "-" -> (<<>> \o str) \o Fill(n, " ")
                   [] f = "0" -> (<<>> \o Fill(n, "0")) \o str
                   [] OTHER -> (Fill(n, " ") \o <<>>) \o str
  <2>1. Minus(p) = <<>> /\ Body(p) = str
    OBVIOUS
  <2>2. Filling(p, " ") = Fill(n, " ") /\ Filling(p, "0") = Fill(n, "0")
    BY <1>3, Zenon
  <2> HIDE DEF p, n
  <2>3. CASE f = "-"
    BY <1>1, <2>1, <2>2, <2>3, Zenon DEF Field
  <2>4. CASE f = "0"
    BY <1>1, <2>1, <2>2, <2>4, Zenon DEF Field
  <2>5. CASE f = ""
    BY <1>1, <2>1, <2>2, <2>5, Zenon DEF Field
  <2> QED
    BY <2>3, <2>4, <2>5 DEF Flags
<1> HIDE DEF p, n
<1>7. <<>> \o Fill(n, "0") = Fill(n, "0") /\ Fill(n, " ") \o <<>> = Fill(n, " ")
  BY <1>5, ConcatEmptySeq
<1>8. Field(p) = CASE f = "-" -> str \o Fill(n, " ")
                   [] f = "0" -> Fill(n, "0") \o str
                   [] OTHER -> Fill(n, " ") \o str
  BY <1>2, <1>6, <1>7
<1>9. qprints(str, w, Pad(f)) = CASE f = "-" -> str \o Fill(n, " ")
                                  [] f = "0" -> Fill(n, "0") \o str
                                  [] OTHER -> Fill(n, " ") \o str
  BY Filled DEF n
<1>10. Field(p) \in Seq(Characters)
  <2>1. str \o Fill(n, " ") \in Seq(Characters) /\ Fill(n, "0") \o str \in Seq(Characters)
        /\ Fill(n, " ") \o str \in Seq(Characters)
    BY <1>5, ConcatProperties
  <2> QED
    BY <1>8, <2>1
<1> QED
  BY <1>8, <1>9, <1>10 DEF p

\* Two texts of their own.
Sign == <<"-">>
NullText == <<"(", "n", "u", "l", "l", ")">>

LEMMA SingleIs == ASSUME NEW C, NEW c \in C PROVE <<c>> \in Seq(C) /\ Len(<<c>>) = 1
OBVIOUS

LEMMA SixIs ==
  ASSUME NEW C, NEW a \in C, NEW b \in C, NEW c \in C, NEW d \in C, NEW e \in C
  PROVE  <<a, b, c, d, d, e>> \in Seq(C)
OBVIOUS

LEMMA TextsAre == /\ Sign \in Seq(Characters) /\ Len(Sign) = 1
                  /\ NullText \in Seq(Characters)
<1>1. "(" \in Characters /\ "n" \in Characters /\ "u" \in Characters /\ "l" \in Characters
      /\ ")" \in Characters /\ "-" \in Characters
  BY DEF Characters
<1> QED
  BY <1>1, SingleIs, SixIs DEF Sign, NullText

LEMMA SignBetween ==
  ASSUME NEW s \in Seq(Characters), NEW t \in Seq(Characters)
  PROVE  (s \o Sign) \o t = s \o (Sign \o t)
<1>1. Sign \in Seq(Characters)
  BY TextsAre
<1> QED
  BY <1>1, ConcatAssociative

LEMMA SignInFront ==
  ASSUME NEW s \in Seq(Characters), NEW t \in Seq(Characters)
  PROVE  (Sign \o s) \o t = Sign \o (s \o t)
<1>1. Sign \in Seq(Characters)
  BY TextsAre
<1> QED
  BY <1>1, ConcatAssociative

\* The sign is in front of the zeros and behind the blanks.
LEMMA SignedField ==
  ASSUME NEW f \in Flags, NEW w \in Nat, NEW s, NEW v, NEW str \in Seq(Characters),
         Minus(Piece(f, w, s, v)) = Sign, Body(Piece(f, w, s, v)) = str
  PROVE  /\ Field(Piece(f, w, s, v)) =
              IF w # 0 /\ "PAD_ZERO" \in Pad(f)
              THEN Sign \o qprints(str, w - 1, Pad(f))
              ELSE qprints(Sign \o str, w, Pad(f))
         /\ Field(Piece(f, w, s, v)) \in Seq(Characters)
<1> DEFINE p == Piece(f, w, s, v)
           n == w - Len(Sign \o str)
<1>1. p.flag = f /\ p.width = w
  BY PieceIs
<1>4. " " \in Characters /\ "0" \in Characters /\ "-" \in Characters
  BY DEF Characters
<1>2. Sign \in Seq(Characters) /\ Sign \o str \in Seq(Characters) /\ Len(Sign \o str) = Len(str) + 1
      /\ Len(str) \in Nat
  <2>1. Sign \in Seq(Characters) /\ Len(Sign) = 1 /\ Len(str) \in Nat
    BY TextsAre
  <2>2. Sign \o str \in Seq(Characters) /\ Len(Sign \o str) = Len(Sign) + Len(str)
    BY <2>1, ConcatProperties
  <2> QED
    BY <2>1, <2>2
<1>3. \A c : Filling(p, c) = Fill(n, c)
  BY <1>1, Zenon DEF Filling, Fill
<1>5. Fill(n, " ") \in Seq(Characters) /\ Fill(n, "0") \in Seq(Characters)
      /\ (n <= 0 => Fill(n, "0") = <<>>)
  <2>1. n \in Int
    BY <1>2
  <2> HIDE DEF n
  <2> QED
    BY <1>4, <2>1, FillIs
<1>6. Field(p) = CASE f = "-" -> (Sign \o str) \o Fill(n, " ")
                   [] f = "0" -> (Sign \o Fill(n, "0")) \o str
                   [] OTHER -> (Fill(n, " ") \o Sign) \o str
  <2>1. Minus(p) = Sign /\ Body(p) = str
    OBVIOUS
  <2>2. Filling(p, " ") = Fill(n, " ") /\ Filling(p, "0") = Fill(n, "0")
    BY <1>3, Zenon
  <2> HIDE DEF p, n
  <2>3. CASE f = "-"
    BY <1>1, <2>1, <2>2, <2>3, Zenon DEF Field
  <2>4. CASE f = "0"
    BY <1>1, <2>1, <2>2, <2>4, Zenon DEF Field
  <2>5. CASE f = ""
    BY <1>1, <2>1, <2>2, <2>5, Zenon DEF Field
  <2> QED
    BY <2>3, <2>4, <2>5 DEF Flags
<1>7. (Sign \o Fill(n, "0")) \o str = Sign \o (Fill(n, "0") \o str)
      /\ (Fill(n, " ") \o Sign) \o str = Fill(n, " ") \o (Sign \o str)
  <2> DEFINE x == Fill(n, "0")
             y == Fill(n, " ")
  <2>1. x \in Seq(Characters) /\ y \in Seq(Characters)
    BY <1>5
  <2> HIDE DEF x, y, p, n
  <2>2. (Sign \o x) \o str = Sign \o (x \o str)
    BY <2>1, SignInFront
  <2>3. (y \o Sign) \o str = y \o (Sign \o str)
    BY <2>1, SignBetween
  <2> QED
    BY <2>2, <2>3 DEF x, y
<1>8. Field(p) \in Seq(Characters)
  <2> HIDE DEF p, n
  <2>1. (Sign \o str) \o Fill(n, " ") \in Seq(Characters)
    BY <1>2, <1>5, ConcatProperties
  <2>2. (Sign \o Fill(n, "0")) \o str \in Seq(Characters)
    <3>1. Sign \o Fill(n, "0") \in Seq(Characters)
      BY <1>2, <1>5, ConcatProperties
    <3> QED
      BY <3>1, ConcatProperties
  <2>3. (Fill(n, " ") \o Sign) \o str \in Seq(Characters)
    <3>1. Fill(n, " ") \o Sign \in Seq(Characters)
      BY <1>2, <1>5, ConcatProperties
    <3> QED
      BY <3>1, ConcatProperties
  <2> QED
    BY <1>6, <2>1, <2>2, <2>3
<1>9. CASE f # "0"
  <2>1. "PAD_ZERO" \notin Pad(f)
    BY <1>9 DEF Pad
  <2>2. qprints(Sign \o str, w, Pad(f)) = CASE f = "-" -> (Sign \o str) \o Fill(n, " ")
                                         [] f = "0" -> Fill(n, "0") \o (Sign \o str)
                                         [] OTHER -> Fill(n, " ") \o (Sign \o str)
    <3> DEFINE x == Sign \o str
    <3>1. x \in Seq(Characters)
      BY <1>2
    <3> HIDE DEF x
    <3>2. qprints(x, w, Pad(f)) = CASE f = "-" -> x \o Fill(w - Len(x), " ")
                                    [] f = "0" -> Fill(w - Len(x), "0") \o x
                                    [] OTHER -> Fill(w - Len(x), " ") \o x
      BY <3>1, Filled
    <3> QED
      BY <3>2 DEF x
  <2>3. Field(p) = qprints(Sign \o str, w, Pad(f))
    <3> HIDE DEF p, n
    <3>1. CASE f = "-"
      BY <1>6, <2>2, <3>1
    <3>2. CASE f # "-"
      BY <1>6, <1>7, <1>9, <2>2, <3>2
    <3> QED
      BY <3>1, <3>2
  <2> QED
    BY <1>8, <2>1, <2>3
<1>10. CASE f = "0"
  <2>1. "PAD_ZERO" \in Pad(f) /\ f # "-"
    BY <1>10 DEF Pad
  <2>2. Field(p) = Sign \o (Fill(n, "0") \o str)
    <3> HIDE DEF p, n
    <3> QED
      BY <1>6, <1>7, <1>10
  <2>3. CASE w # 0
    <3>1. w - 1 \in Nat /\ (w - 1) - Len(str) = n
      BY <1>2, <2>3
    <3>2. qprints(str, w - 1, Pad(f)) = Fill(n, "0") \o str
      <4> DEFINE y == w - 1
      <4>1. y \in Nat /\ y - Len(str) = n
        BY <3>1
      <4> HIDE DEF y, n
      <4>2. qprints(str, y, Pad(f)) = Fill(y - Len(str), "0") \o str
        BY <1>10, <4>1, Filled
      <4> QED
        BY <4>1, <4>2 DEF y
    <3> QED
      BY <1>8, <2>1, <2>2, <2>3, <3>2, Zenon
  <2>4. CASE w = 0
    <3>1. n <= 0
      BY <1>2, <2>4
    <3>2. Fill(n, "0") = <<>>
      BY <1>5, <3>1, Zenon
    <3>3. <<>> \o str = str
      OBVIOUS
    <3>4. Field(p) = Sign \o str
      BY <2>2, <3>2, <3>3, Zenon
    <3>5. qprints(Sign \o str, w, Pad(f)) = Sign \o str
      <4> DEFINE x == Sign \o str
      <4>1. x \in Seq(Characters)
        BY <1>2
      <4>2. <<>> \o x = x
        <5> HIDE DEF x
        <5> QED
          BY <4>1
      <4>3. Fill(w - Len(x), "0") = <<>>
        BY <3>2
      <4> HIDE DEF x
      <4>4. qprints(x, w, Pad(f)) = Fill(w - Len(x), "0") \o x
        BY <1>10, <4>1, Filled
      <4> QED
        BY <4>2, <4>3, <4>4 DEF x
    <3> QED
      BY <1>8, <2>4, <3>4, <3>5, Zenon
  <2> QED
    BY <2>3, <2>4
<1> QED
  BY <1>9, <1>10

\* The fields of numbers.
LEMMA IntField ==
  ASSUME NEW f \in Flags, NEW w \in Nat, NEW s \in {"d", "u", "x", "X"}, NEW v \in Int,
         -(2^IntBits) < v, v < 2^IntBits
  PROVE  /\ Conversion(s, v, w, Pad(f)) = Field(Piece(f, w, s, v))
         /\ Field(Piece(f, w, s, v)) \in Seq(Characters)
<1> DEFINE P == 2^IntBits
           p == Piece(f, w, s, v)
           b == IF s \in {"x", "X"} THEN 16 ELSE 10
           digits == IF s = "X" THEN DigitsUpper ELSE DigitsLower
           neg == s = "d" /\ v < 0
           M == Magnitude(p)
           str == Numeral(M, b, digits)
<1>0. P \in Nat \ {0} /\ -P < v /\ v < P
  BY IntsOf32
<1>1. p.flag = f /\ p.width = w /\ p.spec = s /\ p.arg = v
  BY PieceIs
<1>2. M = IF neg THEN -v ELSE v % P
  BY <1>1 DEF Magnitude
<1> HIDE DEF P
<1>3. M = (IF neg THEN -v ELSE v) % P /\ M \in 0 .. P - 1 /\ (M = 0 <=> v = 0)
  <2> HIDE DEF M
  <2>1. CASE neg
    <3> DEFINE u == -v
    <3>1. u \in Int /\ -P < u /\ u < P /\ ~(u < 0) /\ v # 0 /\ u # 0
      BY <1>0, <2>1
    <3> HIDE DEF u
    <3>2. u % P = u
      BY <1>0, <3>1, Residue
    <3> QED
      BY <1>0, <1>2, <2>1, <3>1, <3>2 DEF u
  <2>2. CASE ~neg
    <3>1. v % P = IF v < 0 THEN v + P ELSE v
      BY <1>0, Residue
    <3> QED
      BY <1>0, <1>2, <2>2, <3>1
  <2> QED
    BY <2>1, <2>2
<1>4. Minus(p) = IF neg THEN Sign ELSE <<>>
  BY <1>1, Zenon DEF Minus, Sign
<1>5. Body(p) = str
  <2> HIDE DEF M, p
  <2>1. CASE s = "d"
    BY <1>1, <2>1, Zenon DEF Body, M
  <2>2. CASE s = "u"
    BY <1>1, <2>2, Zenon DEF Body, M
  <2>3. CASE s = "x"
    BY <1>1, <2>3, Zenon DEF Body, M
  <2>4. CASE s = "X"
    BY <1>1, <2>4, Zenon DEF Body, M
  <2> QED
    BY <2>1, <2>2, <2>3, <2>4
<1>6. Conversion(s, v, w, Pad(f)) = qprinti(v, b, s = "d", w, Pad(f), digits)
  <2>1. CASE s = "d"
    BY <2>1, Zenon DEF Conversion
  <2>2. CASE s = "u"
    BY <2>2, Zenon DEF Conversion
  <2>3. CASE s = "x"
    BY <2>3, Zenon DEF Conversion
  <2>4. CASE s = "X"
    BY <2>4, Zenon DEF Conversion
  <2> QED
    BY <2>1, <2>2, <2>3, <2>4
<1> HIDE DEF M
<1>7. /\ str \in Seq(Characters)
      /\ M = 0 => str = <<"0">>
      /\ M # 0 => str = IF b = 16 THEN Hexadecimal(M, digits) ELSE Decimal(M)
  <2>1. CASE s \in {"x", "X"}
    <3>1. digits \in {DigitsLower, DigitsUpper} /\ b = 16
      BY <2>1
    <3> HIDE DEF digits, b
    <3> QED
      BY <1>3, <3>1, Hexadecimals DEF P
  <2>2. CASE s \notin {"x", "X"}
    <3>1. digits = DigitsLower /\ b = 10
      BY <2>2, Zenon
    <3> HIDE DEF digits, b
    <3> QED
      BY <1>3, <3>1, Decimals DEF P
  <2> QED
    BY <2>1, <2>2
<1> DEFINE S == IF b = 16 THEN Hexadecimal(M, digits) ELSE Decimal(M)
<1>8. qprinti(v, b, s = "d", w, Pad(f), digits) =
        IF v = 0 THEN qprints(<<"0">>, w, Pad(f))
        ELSE IF ~neg THEN qprints(S, w, Pad(f))
        ELSE IF w # 0 /\ "PAD_ZERO" \in Pad(f)
        THEN Sign \o qprints(S, w - 1, Pad(f))
        ELSE qprints(Sign \o S, w, Pad(f))
  <2>1. s = "d" => b = 10
    OBVIOUS
  <2>2. (s = "d" /\ b = 10 /\ v < 0) <=> neg
    BY <2>1
  <2>3. M = (IF s = "d" /\ b = 10 /\ v < 0 THEN -v ELSE v) % 2^IntBits
    BY <1>3, <2>2, Zenon DEF P
  <2> HIDE DEF b, digits, neg
  <2> QED
    BY <2>2, <2>3, Zenon DEF qprinti, Sign
<1> HIDE DEF str, S, b, digits
<1>9. CASE ~neg
  <2>1. /\ Field(p) = qprints(str, w, Pad(f))
        /\ Field(p) \in Seq(Characters)
    BY <1>4, <1>5, <1>7, <1>9, PlainField
  <2>2. qprints(str, w, Pad(f)) = Conversion(s, v, w, Pad(f))
    <3>1. CASE v = 0
      BY <1>3, <1>6, <1>7, <1>8, <3>1, Zenon
    <3>2. CASE v # 0
      BY <1>3, <1>6, <1>7, <1>8, <1>9, <3>2, Zenon DEF S
    <3> QED
      BY <3>1, <3>2
  <2> QED
    BY <2>1, <2>2, Zenon
<1>10. CASE neg
  <2>1. /\ Field(p) = IF w # 0 /\ "PAD_ZERO" \in Pad(f)
                      THEN Sign \o qprints(str, w - 1, Pad(f))
                      ELSE qprints(Sign \o str, w, Pad(f))
        /\ Field(p) \in Seq(Characters)
    BY <1>4, <1>5, <1>7, <1>10, SignedField, ZenonT(40)
  <2>2. v # 0
    BY <1>10
  <2> QED
    BY <1>3, <1>6, <1>7, <1>8, <1>10, <2>1, <2>2, Zenon DEF S
<1> QED
  BY <1>9, <1>10

\* The fields of strings and characters.
LEMMA TextField ==
  ASSUME NEW f \in TextFlags, NEW w \in Nat, NEW s \in {"s", "c"}, NEW v \in Seq(Characters)
  PROVE  /\ Conversion(s, v, w, Pad(f)) = Field(Piece(f, w, s, v))
         /\ Field(Piece(f, w, s, v)) \in Seq(Characters)
<1> DEFINE p == Piece(f, w, s, v)
           str == IF s = "s" /\ v = Null THEN NullText ELSE v
<1>1. p.spec = s /\ p.arg = v /\ s # "d"
  <2>1. s # "d"
    OBVIOUS
  <2>2. p.spec = s /\ p.arg = v
    BY DEF Piece
  <2> HIDE DEF p
  <2> QED
    BY <2>1, <2>2
<1>2. Minus(p) = <<>>
  BY <1>1, Zenon DEF Minus
<1>3. NullText \in Seq(Characters)
  BY TextsAre
<1>4. Body(p) = str /\ Conversion(s, v, w, Pad(f)) = qprints(str, w, Pad(f))
  <2> HIDE DEF p
  <2>1. CASE s = "s" /\ v = Null
    BY <1>1, <2>1, Zenon DEF Body, Conversion, NullText
  <2>2. CASE s = "s" /\ v # Null
    BY <1>1, <2>2, Zenon DEF Body, Conversion
  <2>3. CASE s = "c"
    BY <1>1, <2>3, Zenon DEF Body, Conversion
  <2> QED
    BY <2>1, <2>2, <2>3
<1>5. str \in Seq(Characters)
  BY <1>3
<1>6. f \in Flags
  BY Zenon DEF Flags, TextFlags
<1> HIDE DEF str
<1> QED
  BY <1>2, <1>4, <1>5, <1>6, PlainField

-----------------------------------------------------------------------------
(* Recursion along a text, and the ends of the parts of a conversion.      *)

\* Recursion along a text of length N: what is found at i, and where it goes on.
Row(i, f, S, piece, nxt, nk) ==
  [k \in Nat |-> IF i \in S THEN <<>> ELSE piece[i][k] \o f[nxt[i]][nk[i][k]]]
\* A function found by such a recursion.
Parses(f, S, piece, nxt, nk) == f = [i \in Nat |-> Row(i, f, S, piece, nxt, nk)]

\* There is one when every step goes forward and the text ends.
LEMMA ParseExists ==
  ASSUME NEW N \in Nat, NEW S, NEW piece, NEW nxt, NEW nk,
         \A i \in Nat : i > N => i \in S,
         \A i \in Nat : i \notin S => nxt[i] \in Nat /\ nxt[i] > i
  PROVE  \E f : Parses(f, S, piece, nxt, nk)
<1> DEFINE Good(m, f) == /\ f = [i \in Nat |-> f[i]]
                         /\ \A i \in Nat : i + m > N => f[i] = Row(i, f, S, piece, nxt, nk)
           T == {m \in Nat : \E f : Good(m, f)}
<1>1. 0 \in T
  <2> DEFINE f == [i \in Nat |-> [k \in Nat |-> <<>>]]
  <2>1. f = [i \in Nat |-> f[i]] /\ \A i \in Nat : f[i] = [k \in Nat |-> <<>>]
    OBVIOUS
  <2> HIDE DEF f
  <2>2. ASSUME NEW i \in Nat, i + 0 > N PROVE f[i] = Row(i, f, S, piece, nxt, nk)
    <3>1. i \in S
      BY <2>2
    <3>2. Row(i, f, S, piece, nxt, nk) = [k \in Nat |-> <<>>]
      BY <3>1, Zenon DEF Row
    <3> QED
      BY <2>1, <3>2
  <2>3. Good(0, f)
    BY <2>1, <2>2
  <2> QED
    BY <2>3
<1>2. ASSUME NEW m \in Nat, m \in T PROVE m + 1 \in T
  <2>1. PICK f : Good(m, f)
    BY <1>2
  <2> HIDE DEF T
  <2> DEFINE g == [i \in Nat |-> IF i + m = N THEN Row(i, f, S, piece, nxt, nk) ELSE f[i]]
  <2>2. g = [i \in Nat |-> g[i]]
    OBVIOUS
  <2>3. \A i \in Nat : g[i] = IF i + m = N THEN Row(i, f, S, piece, nxt, nk) ELSE f[i]
    BY Zenon
  <2> HIDE DEF g
  <2>4. ASSUME NEW i \in Nat, i + (m + 1) > N PROVE g[i] = Row(i, g, S, piece, nxt, nk)
    <3>1. g[i] = Row(i, f, S, piece, nxt, nk)
      <4>1. CASE i + m = N
        BY <2>3, <4>1, Zenon
      <4>2. CASE i + m # N
        <5>1. i + m > N
          BY <2>4, <4>2
        <5> QED
          BY <2>1, <2>3, <4>2, <5>1, Zenon
      <4> QED
        BY <4>1, <4>2
    <3>2. Row(i, f, S, piece, nxt, nk) = Row(i, g, S, piece, nxt, nk)
      <4>1. CASE i \in S
        BY <4>1, Zenon DEF Row
      <4>2. CASE i \notin S
        <5>1. nxt[i] \in Nat /\ nxt[i] > i
          BY <4>2
        <5>2. nxt[i] + m # N
          BY <2>4, <5>1
        <5>3. g[nxt[i]] = f[nxt[i]]
          BY <2>3, <5>1, <5>2, Zenon
        <5> QED
          BY <4>2, <5>3, Zenon DEF Row
      <4> QED
        BY <4>1, <4>2
    <3> QED
      BY <3>1, <3>2
  <2>5. Good(m + 1, g)
    BY <2>2, <2>4
  <2> QED
    BY <2>5 DEF T
<1> HIDE DEF T
<1>3. N + 1 \in T
  BY <1>1, <1>2, Induct
<1>4. PICK f : Good(N + 1, f)
  BY <1>3 DEF T
<1>5. \A i \in Nat : f[i] = Row(i, f, S, piece, nxt, nk)
  <2>1. \A i \in Nat : i + (N + 1) > N
    OBVIOUS
  <2> QED
    BY <1>4, <2>1
<1>6. f = [i \in Nat |-> f[i]]
  BY <1>4
<1>7. Parses(f, S, piece, nxt, nk)
  BY <1>5, <1>6, Zenon DEF Parses
<1> QED
  BY <1>7

\* EndOf finds the one place that has its property, and there is one.
LEMMA EndOfIs ==
  ASSUME NEW format \in Seq(Characters), NEW chars, NEW i \in Nat,
         NEW j \in i .. Len(format) + 1, At(format, j) \notin chars,
         \A m \in i .. j - 1 : At(format, m) \in chars
  PROVE  EndOf(format, i, chars) = j
<1> DEFINE E(n) == At(format, n) \notin chars /\ \A m \in i .. n - 1 : At(format, m) \in chars
           e == CHOOSE n \in i .. Len(format) + 1 : E(n)
<1>0. Len(format) \in Nat
  OBVIOUS
<1>1. EndOf(format, i, chars) = e
  BY DEF EndOf
<1>2. E(j)
  OBVIOUS
<1>3. e \in i .. Len(format) + 1 /\ E(e)
  <2> HIDE DEF E
  <2> QED
    BY <1>2
<1> HIDE DEF e
<1>4. ~(e < j) /\ ~(j < e)
  <2>1. ASSUME e < j PROVE FALSE
    <3>1. e \in i .. j - 1
      BY <1>0, <1>3, <2>1
    <3> QED
      BY <1>3, <3>1
  <2>2. ASSUME j < e PROVE FALSE
    <3>1. j \in i .. e - 1
      BY <1>0, <1>3, <2>2
    <3> QED
      BY <1>3, <3>1
  <2> QED
    BY <2>1, <2>2
<1>5. e = j
  BY <1>0, <1>3, <1>4
<1> QED
  BY <1>1, <1>5

LEMMA EndOfExists ==
  ASSUME NEW format \in Seq(Characters), NEW chars, "NUL" \notin chars,
         NEW i \in Nat, i <= Len(format) + 1
  PROVE  EndOf(format, i, chars) \in i .. Len(format) + 1
<1>0. Len(format) \in Nat /\ DOMAIN format = 1 .. Len(format)
  OBVIOUS
<1> DEFINE D == {j \in i .. Len(format) + 1 : At(format, j) \notin chars}
<1>1. Len(format) + 1 \in D
  <2>1. At(format, Len(format) + 1) = "NUL"
    <3>1. Len(format) + 1 \notin DOMAIN format
      BY <1>0
    <3> QED
      BY <3>1 DEF At
  <2> QED
    BY <1>0, <2>1
<1>2. PICK j \in D : \A n \in D : j <= n
  <2>1. D \in SUBSET Nat /\ D # {}
    BY <1>0, <1>1
  <2> HIDE DEF D
  <2> QED
    BY <2>1, LeastOf
<1>3. \A m \in i .. j - 1 : At(format, m) \in chars
  <2> SUFFICES ASSUME NEW m \in i .. j - 1, At(format, m) \notin chars PROVE FALSE
    OBVIOUS
  <2>1. m \in D /\ ~(j <= m)
    BY <1>0, <1>2
  <2> QED
    BY <1>2, <2>1
<1>4. j \in i .. Len(format) + 1 /\ At(format, j) \notin chars
  BY <1>2
<1>5. EndOf(format, i, chars) = j
  BY <1>3, <1>4, EndOfIs
<1> QED
  BY <1>4, <1>5

\* s is the text of the format from i on.
Stands(format, i, s) ==
  i + Len(s) <= Len(format) + 1 /\ \A j \in 1 .. Len(s) : format[i + j - 1] = s[j]

LEMMA StandsAt ==
  ASSUME NEW format \in Seq(Characters), NEW i \in Nat \ {0}, NEW C, NEW s \in Seq(C),
         Stands(format, i, s)
  PROVE  \A j \in 1 .. Len(s) : At(format, i + j - 1) = s[j]
<1> TAKE j \in 1 .. Len(s)
<1>1. i + j - 1 \in DOMAIN format
  BY DEF Stands
<1> QED
  BY <1>1 DEF Stands, At

\* No digits, no width;
LEMMA NoWidth == ASSUME NEW format, NEW i \in Nat PROVE Width(format, i, i) = 0
<1> DEFINE Is(f) == f = [m \in i .. i |->
                           IF m = i THEN 0 ELSE 10 * f[m - 1] + Value(At(format, m - 1))]
           f == CHOOSE f : Is(f)
<1>1. Width(format, i, i) = f[i]
  BY DEF Width
<1>2. Is([m \in i .. i |-> 0])
  <2> DEFINE z == [m \in i .. i |-> 0]
  <2>1. \A m \in i .. i : m = i
    OBVIOUS
  <2>2. z = [m \in i .. i |-> IF m = i THEN 0 ELSE 10 * z[m - 1] + Value(At(format, m - 1))]
    BY <2>1
  <2> QED
    BY <2>2
<1>3. Is(f)
  <2> HIDE DEF Is
  <2> QED
    BY <1>2
<1>4. i \in i .. i
  OBVIOUS
<1> HIDE DEF f
<1>5. f[i] = 0
  BY <1>3, <1>4, Zenon
<1> QED
  BY <1>1, <1>5

\* and a width that is spelled is read.
LEMMA WidthIs ==
  ASSUME NEW v \in 1 .. 2^IntBits - 1, NEW format \in Seq(Characters), NEW i \in Nat \ {0},
         Stands(format, i, Numeral(v, 10, DigitsLower))
  PROVE  Width(format, i, i + Len(Numeral(v, 10, DigitsLower))) = v
<1> DEFINE s == Numeral(v, 10, DigitsLower)
           n == Len(s)
           j == i + n
<1>1. s \in Seq(DecimalDigits) /\ n \in Nat
  BY NumeralReads
<1>2. PICK r \in [0 .. n -> Nat] : /\ r[0] = 0 /\ r[n] = v
                                   /\ \A k \in 1 .. n : r[k] = 10 * r[k - 1] + Value(s[k])
  BY NumeralReads
<1>3. \A k \in 1 .. n : At(format, i + k - 1) = s[k]
  BY <1>1, StandsAt
<1> DEFINE Is(f) == f = [m \in i .. j |->
                           IF m = i THEN 0 ELSE 10 * f[m - 1] + Value(At(format, m - 1))]
           f == CHOOSE f : Is(f)
<1>4. Width(format, i, j) = f[j]
  BY DEF Width
<1> HIDE DEF s, n
<1>5. Is([m \in i .. j |-> r[m - i]])
  <2> DEFINE z == [m \in i .. j |-> r[m - i]]
  <2>1. ASSUME NEW m \in i .. j
        PROVE  z[m] = IF m = i THEN 0 ELSE 10 * z[m - 1] + Value(At(format, m - 1))
    <3>1. CASE m = i
      BY <1>2, <3>1
    <3>2. CASE m # i
      <4>1. m - i \in 1 .. n /\ m - 1 \in i .. j /\ (m - i) - 1 = (m - 1) - i
            /\ i + (m - i) - 1 = m - 1
        BY <1>1, <3>2
      <4>2. r[m - i] = 10 * r[(m - i) - 1] + Value(s[m - i])
        BY <1>2, <4>1
      <4>3. At(format, i + (m - i) - 1) = s[m - i]
        BY <1>3, <4>1
      <4>4. z[m] = r[m - i] /\ z[m - 1] = r[(m - 1) - i]
        BY <4>1
      <4> HIDE DEF z
      <4> QED
        BY <3>2, <4>1, <4>2, <4>3, <4>4
    <3> QED
      BY <3>1, <3>2
  <2>2. z = [m \in i .. j |-> z[m]]
    OBVIOUS
  <2> HIDE DEF z
  <2>3. Is(z)
    BY <2>1, <2>2, Zenon
  <2> QED
    BY <2>3 DEF z
<1>6. Is(f)
  <2> HIDE DEF Is
  <2> QED
    BY <1>5
<1> HIDE DEF f
<1>7. \A m \in i .. j : f[m] = IF m = i THEN 0 ELSE 10 * f[m - 1] + Value(At(format, m - 1))
  BY <1>6, Zenon
<1> DEFINE T == {k \in Nat : k <= n => f[i + k] = r[k]}
<1>8. 0 \in T
  <2>1. i \in i .. j /\ i + 0 = i
    BY <1>1
  <2> QED
    BY <1>2, <1>7, <2>1
<1>9. ASSUME NEW k \in Nat, k \in T PROVE k + 1 \in T
  <2> SUFFICES ASSUME k + 1 <= n PROVE f[i + (k + 1)] = r[k + 1]
    OBVIOUS
  <2>1. f[i + k] = r[k]
    BY <1>1, <1>9
  <2>2. i + (k + 1) \in i .. j /\ i + (k + 1) # i /\ i + (k + 1) - 1 = i + k /\ k + 1 \in 1 .. n
        /\ (k + 1) - 1 = k
    BY <1>1
  <2>3. f[i + (k + 1)] = 10 * f[i + (k + 1) - 1] + Value(At(format, i + (k + 1) - 1))
    <3> DEFINE m == i + (k + 1)
    <3>1. m \in i .. j /\ m # i
      BY <2>2
    <3> HIDE DEF m, j
    <3>2. f[m] = 10 * f[m - 1] + Value(At(format, m - 1))
      BY <1>7, <3>1
    <3> QED
      BY <3>2 DEF m
  <2>4. At(format, i + (k + 1) - 1) = s[k + 1]
    BY <1>3, <2>2, Zenon
  <2>5. r[k + 1] = 10 * r[(k + 1) - 1] + Value(s[k + 1])
    BY <1>2, <2>2, Zenon
  <2> QED
    BY <2>1, <2>2, <2>3, <2>4, <2>5, Zenon
<1>10. n \in T
  <2> HIDE DEF T
  <2> QED
    BY <1>1, <1>8, <1>9, Induct
<1>11. f[j] = v
  BY <1>1, <1>2, <1>10
<1> QED
  BY <1>4, <1>11 DEF s, n

-----------------------------------------------------------------------------
(* qprint, from any character of the format on.                            *)

\* The function qprint defines.
IsOut(out, format, va) ==
  out = [i \in Nat |-> [k \in Nat |->
        IF At(format, i) = "NUL" THEN <<>>
        ELSE IF At(format, i) # "%" THEN <<At(format, i)>> \o out[i + 1][k]
        ELSE IF At(format, i + 1) = "NUL" THEN <<>>
        ELSE IF At(format, i + 1) = "%" THEN <<"%">> \o out[i + 2][k]
        ELSE LET f == IF At(format, i + 1) = "-" THEN i + 2 ELSE i + 1
                 w == EndOf(format, f, {"0"})
                 c == EndOf(format, w, DecimalDigits)
                 pad == (IF f > i + 1 THEN {"PAD_RIGHT"} ELSE {})
                        \cup (IF w > f THEN {"PAD_ZERO"} ELSE {})
             IN Conversion(At(format, c), va[k], Width(format, w, c), pad)
                \o out[c + 1][IF At(format, c) \in Specifiers THEN k + 1 ELSE k]]]

\* The parts of the conversion at i.
FlagEnd(format, i) == IF At(format, i + 1) = "-" THEN i + 2 ELSE i + 1
ZerosEnd(format, i) == EndOf(format, FlagEnd(format, i), {"0"})
SpecAt(format, i) == EndOf(format, ZerosEnd(format, i), DecimalDigits)
PadAt(format, i) ==
  (IF FlagEnd(format, i) > i + 1 THEN {"PAD_RIGHT"} ELSE {})
  \cup (IF ZerosEnd(format, i) > FlagEnd(format, i) THEN {"PAD_ZERO"} ELSE {})
Converted(format, va, i, k) ==
  Conversion(At(format, SpecAt(format, i)), va[k],
             Width(format, ZerosEnd(format, i), SpecAt(format, i)), PadAt(format, i))
ArgumentAfter(format, i, k) ==
  IF At(format, SpecAt(format, i)) \in Specifiers THEN k + 1 ELSE k

\* The same, with the parts of a conversion named.
OutAt(out, format, va, i, k) ==
  IF At(format, i) = "NUL" THEN <<>>
  ELSE IF At(format, i) # "%" THEN <<At(format, i)>> \o out[i + 1][k]
  ELSE IF At(format, i + 1) = "NUL" THEN <<>>
  ELSE IF At(format, i + 1) = "%" THEN <<"%">> \o out[i + 2][k]
  ELSE Converted(format, va, i, k) \o out[SpecAt(format, i) + 1][ArgumentAfter(format, i, k)]

LEMMA IsOutAt ==
  ASSUME NEW out, NEW format, NEW va
  PROVE  IsOut(out, format, va)
           <=> out = [i \in Nat |-> [k \in Nat |-> OutAt(out, format, va, i, k)]]
BY DEF IsOut, OutAt, Converted, ArgumentAfter, PadAt, SpecAt, ZerosEnd, FlagEnd

LEMMA NoNulDigit == "NUL" \notin DecimalDigits /\ "NUL" \notin {"0"}
BY DigitsAre

\* A conversion ends behind where it begins,
LEMMA SpecBeyond ==
  ASSUME NEW format \in Seq(Characters), NEW i \in Nat, At(format, i + 1) # "NUL"
  PROVE  SpecAt(format, i) \in Nat /\ SpecAt(format, i) > i
<1>0. Len(format) \in Nat /\ DOMAIN format = 1 .. Len(format)
  OBVIOUS
<1>1. i + 1 <= Len(format)
  <2>1. i + 1 \in DOMAIN format
    BY DEF At
  <2> QED
    BY <1>0, <2>1
<1>2. FlagEnd(format, i) \in Nat /\ FlagEnd(format, i) > i /\ FlagEnd(format, i) <= Len(format) + 1
  BY <1>0, <1>1 DEF FlagEnd
<1>3. ZerosEnd(format, i) \in FlagEnd(format, i) .. Len(format) + 1
  BY <1>2, NoNulDigit, EndOfExists DEF ZerosEnd
<1>4. ZerosEnd(format, i) \in Nat /\ ZerosEnd(format, i) <= Len(format) + 1
  BY <1>0, <1>2, <1>3
<1>5. SpecAt(format, i) \in ZerosEnd(format, i) .. Len(format) + 1
  BY <1>4, NoNulDigit, EndOfExists DEF SpecAt
<1> QED
  BY <1>0, <1>2, <1>3, <1>4, <1>5

\* so that the recursion is well founded.
LEMMA OutExists ==
  ASSUME NEW format \in Seq(Characters), NEW va
  PROVE  \E out : IsOut(out, format, va)
<1> DEFINE S == {i \in Nat : At(format, i) = "NUL"
                              \/ (At(format, i) = "%" /\ At(format, i + 1) = "NUL")}
           N == Len(format)
           piece == [i \in Nat |-> [k \in Nat |->
                       IF At(format, i) # "%" THEN <<At(format, i)>>
                       ELSE IF At(format, i + 1) = "%" THEN <<"%">>
                       ELSE Converted(format, va, i, k)]]
           nxt == [i \in Nat |-> IF At(format, i) # "%" THEN i + 1
                                 ELSE IF At(format, i + 1) = "%" THEN i + 2
                                 ELSE SpecAt(format, i) + 1]
           nk == [i \in Nat |-> [k \in Nat |->
                    IF At(format, i) # "%" \/ At(format, i + 1) = "%" THEN k
                    ELSE ArgumentAfter(format, i, k)]]
<1>1. N \in Nat /\ \A i \in Nat : i > N => i \in S
  <2>1. DOMAIN format = 1 .. Len(format) /\ Len(format) \in Nat
    OBVIOUS
  <2>2. \A i \in Nat : i > N => i \notin DOMAIN format
    BY <2>1
  <2> QED
    BY <2>1, <2>2 DEF At
<1>2. ASSUME NEW i \in Nat, i \notin S PROVE nxt[i] \in Nat /\ nxt[i] > i
  <2>1. CASE At(format, i) # "%"
    BY <2>1
  <2>2. CASE At(format, i) = "%" /\ At(format, i + 1) = "%"
    BY <2>2
  <2>3. CASE At(format, i) = "%" /\ At(format, i + 1) # "%"
    <3>1. At(format, i + 1) # "NUL"
      BY <1>2, <2>3
    <3>2. nxt[i] = SpecAt(format, i) + 1
      BY <2>3
    <3> HIDE DEF nxt, S
    <3> QED
      BY <3>1, <3>2, SpecBeyond
  <2> QED
    BY <2>1, <2>2, <2>3
<1>3. ASSUME NEW i \in Nat, NEW k \in Nat
      PROVE  /\ i \in S <=> At(format, i) = "NUL"
                              \/ (At(format, i) = "%" /\ At(format, i + 1) = "NUL")
             /\ piece[i][k] = IF At(format, i) # "%" THEN <<At(format, i)>>
                       ELSE IF At(format, i + 1) = "%" THEN <<"%">>
                       ELSE Converted(format, va, i, k)
             /\ nxt[i] = IF At(format, i) # "%" THEN i + 1
                                 ELSE IF At(format, i + 1) = "%" THEN i + 2
                                 ELSE SpecAt(format, i) + 1
             /\ nk[i][k] = IF At(format, i) # "%" \/ At(format, i + 1) = "%" THEN k
                    ELSE ArgumentAfter(format, i, k)
  BY Zenon
<1> HIDE DEF S, piece, nxt, nk, N
<1>4. PICK f : Parses(f, S, piece, nxt, nk)
  BY <1>1, <1>2, ParseExists
<1>5. ASSUME NEW i \in Nat, NEW k \in Nat
      PROVE  (IF i \in S THEN <<>> ELSE piece[i][k] \o f[nxt[i]][nk[i][k]])
               = OutAt(f, format, va, i, k)
  <2>1. CASE At(format, i) = "NUL"
    <3>1. i \in S
      BY <2>1 DEF S
    <3>2. OutAt(f, format, va, i, k) = <<>>
      BY <2>1, Zenon DEF OutAt
    <3> QED
      BY <3>1, <3>2, Zenon
  <2>2. CASE At(format, i) # "NUL" /\ At(format, i) # "%"
    BY <1>3, <2>2, Zenon DEF OutAt
  <2>3. CASE At(format, i) = "%" /\ At(format, i + 1) = "NUL"
    BY <1>3, <2>3, Zenon DEF OutAt
  <2>4. CASE At(format, i) = "%" /\ At(format, i + 1) = "%"
    <3>1. "%" # "NUL"
      OBVIOUS
    <3> QED
      BY <1>3, <2>4, <3>1, Zenon DEF OutAt
  <2>5. CASE At(format, i) = "%" /\ At(format, i + 1) \notin {"NUL", "%"}
    <3>1. "%" # "NUL"
      OBVIOUS
    <3> QED
      BY <1>3, <2>5, <3>1, Zenon DEF OutAt
  <2> QED
    BY <2>1, <2>2, <2>3, <2>4, <2>5
<1>6. f = [i \in Nat |-> [k \in Nat |-> OutAt(f, format, va, i, k)]]
  <2>1. \A i \in Nat : [k \in Nat |-> IF i \in S THEN <<>> ELSE piece[i][k] \o f[nxt[i]][nk[i][k]]]
                        = [k \in Nat |-> OutAt(f, format, va, i, k)]
    BY <1>5, Zenon
  <2>2. f = [i \in Nat |-> [k \in Nat |->
               IF i \in S THEN <<>> ELSE piece[i][k] \o f[nxt[i]][nk[i][k]]]]
    BY <1>4, Zenon DEF Parses, Row
  <2> QED
    BY <2>1, <2>2, Zenon
<1> QED
  BY <1>6, IsOutAt

\* What qprint prints from i on with the arguments from k on.
Outs(out, format, va) ==
  \A i \in Nat, k \in Nat : out[i][k] = OutAt(out, format, va, i, k)

Found(format, va) == \E out : qprint(format, va) = out[1][1] /\ Outs(out, format, va)

LEMMA QprintIs ==
  ASSUME NEW format \in Seq(Characters), NEW va
  PROVE  Found(format, va)
<1> DEFINE out == CHOOSE out : IsOut(out, format, va)
<1>1. qprint(format, va) = out[1][1]
  BY DEF qprint, IsOut
<1>2. IsOut(out, format, va)
  BY OutExists
<1> HIDE DEF out
<1>3. out = [i \in Nat |-> [k \in Nat |-> OutAt(out, format, va, i, k)]]
  BY <1>2, IsOutAt
<1>4. ASSUME NEW i \in Nat, NEW k \in Nat PROVE out[i][k] = OutAt(out, format, va, i, k)
  <2>1. out[i] = [n \in Nat |-> OutAt(out, format, va, i, n)]
    BY <1>3, Zenon
  <2> QED
    BY <2>1, Zenon
<1> QED
  BY <1>1, <1>4, Zenon DEF Found, Outs

-----------------------------------------------------------------------------
(* A conversion that stands in the format is found and carried out.        *)

\* Texts one behind the other stand one by one.
LEMMA StandsBoth ==
  ASSUME NEW format \in Seq(Characters), NEW i \in Nat \ {0},
         NEW s \in Seq(Characters), NEW t \in Seq(Characters), Stands(format, i, s \o t)
  PROVE  Stands(format, i, s) /\ Stands(format, i + Len(s), t)
<1>1. /\ Len(s) \in Nat /\ Len(t) \in Nat /\ Len(format) \in Nat /\ Len(s \o t) = Len(s) + Len(t)
      /\ \A j \in 1 .. Len(s) + Len(t) :
           (s \o t)[j] = IF j <= Len(s) THEN s[j] ELSE t[j - Len(s)]
  BY ConcatProperties
<1>2. ASSUME NEW j \in 1 .. Len(s) PROVE format[i + j - 1] = s[j]
  <2>1. j \in 1 .. Len(s \o t) /\ j \in 1 .. Len(s) + Len(t) /\ j <= Len(s)
    BY <1>1
  <2>2. format[i + j - 1] = (s \o t)[j]
    BY <2>1 DEF Stands
  <2> QED
    BY <1>1, <2>1, <2>2
<1>3. ASSUME NEW j \in 1 .. Len(t) PROVE format[(i + Len(s)) + j - 1] = t[j]
  <2>1. /\ j + Len(s) \in 1 .. Len(s \o t) /\ j + Len(s) \in 1 .. Len(s) + Len(t)
        /\ ~(j + Len(s) <= Len(s)) /\ (j + Len(s)) - Len(s) = j
        /\ i + (j + Len(s)) - 1 = (i + Len(s)) + j - 1
    BY <1>1
  <2>2. format[i + (j + Len(s)) - 1] = (s \o t)[j + Len(s)]
    BY <2>1 DEF Stands
  <2>3. (s \o t)[j + Len(s)] = t[j]
    BY <1>1, <2>1
  <2> QED
    BY <2>1, <2>2, <2>3
<1>4. i + Len(s) <= Len(format) + 1 /\ (i + Len(s)) + Len(t) <= Len(format) + 1
  BY <1>1 DEF Stands
<1> QED
  BY <1>2, <1>3, <1>4 DEF Stands

LEMMA StandsOne ==
  ASSUME NEW format \in Seq(Characters), NEW i \in Nat \ {0}, NEW c \in Characters,
         Stands(format, i, <<c>>)
  PROVE  At(format, i) = c
<1>1. <<c>> \in Seq(Characters) /\ Len(<<c>>) = 1
  BY SingleIs
<1> DEFINE s == <<c>>
<1>2. Stands(format, i, s) /\ s \in Seq(Characters) /\ 1 \in 1 .. Len(s) /\ s[1] = c
  BY <1>1
<1> HIDE DEF s
<1>3. At(format, i + 1 - 1) = s[1]
  BY <1>2, StandsAt, SMTT(30)
<1> QED
  BY <1>2, <1>3

\* The texts of a flag and of a width.
Plain(f) == f = ""
FlagText(f) == IF f = "" THEN <<>> ELSE <<f>>
WidthText(w) == IF w = 0 THEN <<>> ELSE Numeral(w, 10, DigitsLower)

LEMMA SpecifiersAre ==
  ASSUME NEW s \in Specifiers
  PROVE  s \in Characters /\ s \notin DecimalDigits /\ s \notin {"0", "NUL", "%", "-"}
<1>1. s \in {"s", "d", "u", "x", "X", "c"}
  BY DEF Specifiers
<1>2. s \notin {"0", "1", "2", "3", "4", "5", "6", "7", "8", "9"} /\ s \notin {"0", "NUL", "%", "-"}
  BY <1>1
<1>3. s \in Characters
  BY <1>1 DEF Characters
<1> QED
  BY <1>2, <1>3, DigitsAre

LEMMA DigitsNotMarks ==
  ASSUME NEW c \in DecimalDigits
  PROVE  c \in Characters /\ c \notin {"NUL", "%", "-"}
<1>1. c \in {"0", "1", "2", "3", "4", "5", "6", "7", "8", "9"}
  BY DigitsAre
<1>2. c \notin {"NUL", "%", "-"}
  BY <1>1
<1>3. c \in Characters
  BY <1>1 DEF Characters
<1> QED
  BY <1>2, <1>3

LEMMA WidthTextIs ==
  ASSUME NEW w \in 0 .. 2^IntBits - 1
  PROVE  WidthText(w) \in Seq(DecimalDigits) /\ WidthText(w) \in Seq(Characters)
         /\ Len(WidthText(w)) \in Nat
<1>1. Numeral(w, 10, DigitsLower) \in Seq(DecimalDigits)
      /\ Numeral(w, 10, DigitsLower) \in Seq(Characters)
  BY Decimals
<1>2. WidthText(w) \in Seq(DecimalDigits) /\ WidthText(w) \in Seq(Characters)
  BY <1>1 DEF WidthText
<1> QED
  BY <1>2

\* The width and the specifier from a on are found where they stand.
LEMMA WidthStands ==
  ASSUME NEW format \in Seq(Characters), NEW w \in 0 .. 2^IntBits - 1, NEW s \in Specifiers,
         NEW a \in Nat \ {0}, Stands(format, a, WidthText(w)),
         At(format, a + Len(WidthText(w))) = s, a + Len(WidthText(w)) <= Len(format) + 1
  PROVE  LET c == a + Len(WidthText(w))
         IN /\ At(format, a) \notin {"0", "NUL", "%", "-"}
            /\ EndOf(format, a, {"0"}) = a
            /\ EndOf(format, a, DecimalDigits) = c
            /\ Width(format, a, c) = w
<1> DEFINE t == WidthText(w)
           c == a + Len(t)
<1>1. t \in Seq(DecimalDigits) /\ t \in Seq(Characters) /\ Len(t) \in Nat /\ Len(format) \in Nat
  BY WidthTextIs
<1>2. s \notin DecimalDigits /\ s \notin {"0", "NUL", "%", "-"}
  BY SpecifiersAre
<1>3. \A j \in 1 .. Len(t) : At(format, a + j - 1) = t[j]
  BY <1>1, StandsAt
<1>4. At(format, a) \notin {"0", "NUL", "%", "-"}
  <2>1. CASE w = 0
    <3>1. t = <<>>
      BY <2>1 DEF WidthText
    <3>2. c = a
      BY <3>1
    <3> QED
      BY <1>2, <3>2
  <2>2. CASE w # 0
    <3>1. w \in 1 .. 2^IntBits - 1 /\ t = Numeral(w, 10, DigitsLower)
      BY <2>2, IntsOf32 DEF WidthText
    <3> HIDE DEF t
    <3>2. Len(t) # 0 /\ t[1] # "0"
      BY <3>1, NumeralReads
    <3>3. 1 \in 1 .. Len(t) /\ a + 1 - 1 = a
      BY <1>1, <3>2
    <3>4. At(format, a) = t[1] /\ t[1] \in DecimalDigits
      BY <1>1, <1>3, <3>3
    <3> QED
      BY <3>2, <3>4, DigitsNotMarks
  <2> QED
    BY <2>1, <2>2
<1> HIDE DEF t
<1>5. EndOf(format, a, {"0"}) = a
  <2>1. a \in a .. Len(format) + 1 /\ \A m \in a .. a - 1 : At(format, m) \in {"0"}
    BY <1>1
  <2>2. At(format, a) \notin {"0"}
    BY <1>4
  <2> QED
    BY <2>1, <2>2, EndOfIs
<1>6. EndOf(format, a, DecimalDigits) = c
  <2>1. c \in a .. Len(format) + 1
    BY <1>1 DEF t
  <2>2. At(format, c) \notin DecimalDigits
    BY <1>2 DEF t
  <2>3. ASSUME NEW m \in a .. c - 1 PROVE At(format, m) \in DecimalDigits
    <3>1. m - a + 1 \in 1 .. Len(t) /\ a + (m - a + 1) - 1 = m
      BY <1>1
    <3>2. At(format, a + (m - a + 1) - 1) = t[m - a + 1]
      BY <1>3, <3>1
    <3> QED
      BY <1>1, <3>1, <3>2
  <2> QED
    BY <2>1, <2>2, <2>3, EndOfIs
<1>7. Width(format, a, c) = w
  <2>1. CASE w = 0
    <3>1. c = a
      BY <2>1 DEF t, WidthText
    <3> QED
      BY <2>1, <3>1, NoWidth
  <2>2. CASE w # 0
    <3>1. w \in 1 .. 2^IntBits - 1 /\ t = Numeral(w, 10, DigitsLower)
      BY <2>2, IntsOf32 DEF t, WidthText
    <3>2. Stands(format, a, Numeral(w, 10, DigitsLower))
      BY <3>1 DEF t
    <3>3. Width(format, a, a + Len(Numeral(w, 10, DigitsLower))) = w
      BY <3>1, <3>2, WidthIs
    <3> QED
      BY <3>1, <3>3
  <2> QED
    BY <2>1, <2>2
<1> QED
  BY <1>4, <1>5, <1>6, <1>7 DEF t

\* Four texts stand one behind the other.
FourAt(format, i, pc, ft, wt, st) ==
  /\ ((pc \o ft) \o wt) \o st \in Seq(Characters)
  /\ Len(((pc \o ft) \o wt) \o st) = Len(pc) + Len(ft) + Len(wt) + Len(st)
  /\ Stands(format, i, pc)
  /\ Stands(format, i + Len(pc), ft)
  /\ Stands(format, i + Len(pc) + Len(ft), wt)
  /\ Stands(format, i + Len(pc) + Len(ft) + Len(wt), st)

LEMMA FourStand ==
  ASSUME NEW format \in Seq(Characters), NEW i \in Nat \ {0}, NEW pc \in Seq(Characters),
         NEW ft \in Seq(Characters), NEW wt \in Seq(Characters), NEW st \in Seq(Characters),
         Stands(format, i, ((pc \o ft) \o wt) \o st)
  PROVE  FourAt(format, i, pc, ft, wt, st)
<1> DEFINE x == pc \o ft
           y == x \o wt
<1>1. x \in Seq(Characters) /\ Len(x) = Len(pc) + Len(ft)
      /\ Len(pc) \in Nat /\ Len(ft) \in Nat /\ Len(wt) \in Nat /\ Len(st) \in Nat
  BY ConcatProperties
<1>2. Stands(format, i, x) /\ Stands(format, i + Len(x), wt)
      /\ y \in Seq(Characters) /\ Len(y) = Len(x) + Len(wt)
      /\ Stands(format, i + Len(y), st)
      /\ y \o st \in Seq(Characters) /\ Len(y \o st) = Len(y) + Len(st)
  <2>1. Stands(format, i, y \o st)
    OBVIOUS
  <2> HIDE DEF x
  <2>2. y \in Seq(Characters) /\ Len(y) = Len(x) + Len(wt)
    BY <1>1, ConcatProperties
  <2>3. Stands(format, i, x \o wt)
    <3>1. y = x \o wt
      OBVIOUS
    <3> HIDE DEF y
    <3>2. Stands(format, i, y)
      BY <2>1, <2>2, StandsBoth
    <3> QED
      BY <3>1, <3>2, Zenon
  <2>4. Stands(format, i, x) /\ Stands(format, i + Len(x), wt)
    BY <1>1, <2>3, StandsBoth
  <2> HIDE DEF y
  <2>5. Stands(format, i + Len(y), st)
    BY <2>1, <2>2, StandsBoth
  <2>6. y \o st \in Seq(Characters) /\ Len(y \o st) = Len(y) + Len(st)
    BY <2>2, ConcatProperties
  <2> QED
    BY <2>2, <2>4, <2>5, <2>6
<1>3. Stands(format, i, pc) /\ Stands(format, i + Len(pc), ft)
  <2>1. Stands(format, i, pc \o ft)
    BY <1>2
  <2> QED
    BY <2>1, StandsBoth
<1>4. /\ i + Len(x) = i + Len(pc) + Len(ft)
      /\ i + Len(y) = i + Len(pc) + Len(ft) + Len(wt)
      /\ Len(y \o st) = Len(pc) + Len(ft) + Len(wt) + Len(st)
  <2> HIDE DEF x, y
  <2> QED
    BY <1>1, <1>2
<1>5. y \o st = ((pc \o ft) \o wt) \o st
  OBVIOUS
<1> HIDE DEF x, y
<1> QED
  BY <1>2, <1>3, <1>4, <1>5, Zenon DEF FourAt

\* The texts of a conversion, with names that keep the provers off them.
Percent == <<"%">>
OneText(c) == <<c>>

LEMMA PercentIs == "%" \in Characters /\ Percent \in Seq(Characters) /\ Len(Percent) = 1
<1>1. "%" \in Characters
  BY DEF Characters
<1> QED
  BY <1>1, SingleIs DEF Percent

LEMMA OneTextIs ==
  ASSUME NEW c \in Characters PROVE OneText(c) \in Seq(Characters) /\ Len(OneText(c)) = 1
BY SingleIs DEF OneText

LEMMA OneStands ==
  ASSUME NEW format \in Seq(Characters), NEW i \in Nat \ {0}, NEW c \in Characters,
         Stands(format, i, OneText(c))
  PROVE  At(format, i) = c
BY StandsOne DEF OneText

LEMMA FlagTextIs ==
  ASSUME NEW f \in Flags
  PROVE  /\ FlagText(f) \in Seq(Characters)
         /\ Plain(f) => Len(FlagText(f)) = 0
         /\ ~Plain(f) => Len(FlagText(f)) = 1 /\ FlagText(f) = OneText(f) /\ f \in Characters
<1>1. CASE Plain(f)
  <2>1. FlagText(f) = <<>>
    BY <1>1, Zenon DEF FlagText, Plain
  <2> QED
    BY <1>1, <2>1
<1>2. CASE ~Plain(f)
  <2>1. f = "-" \/ f = "0"
    BY <1>2, Zenon DEF Flags, Plain
  <2>2. f \in Characters
    <3>1. "-" \in Characters /\ "0" \in Characters
      BY DEF Characters
    <3> QED
      BY <2>1, <3>1, Zenon
  <2>3. FlagText(f) = OneText(f)
    BY <1>2, Zenon DEF FlagText, OneText, Plain
  <2> QED
    BY <1>2, <2>2, <2>3, OneTextIs
<1> QED
  BY <1>1, <1>2

ConversionText(f, w, s) == ((Percent \o FlagText(f)) \o WidthText(w)) \o OneText(s)

\* The conversion is printed, and qprint goes on behind it.
Converts(out, format, va, i, k, f, w, s) ==
  out[i][k] = Conversion(s, va[k], w, Pad(f))
                \o out[i + Len(ConversionText(f, w, s))][k + 1]

\* A conversion that stands at i prints its argument as its flag and width say.
LEMMA ConversionStep ==
  ASSUME NEW format \in Seq(Characters), NEW va, NEW out, Outs(out, format, va),
         NEW i \in Nat \ {0}, NEW k \in Nat,
         NEW f \in Flags, NEW w \in 0 .. 2^IntBits - 1, NEW s \in Specifiers,
         Stands(format, i, ConversionText(f, w, s))
  PROVE  Converts(out, format, va, i, k, f, w, s)
<1> DEFINE pc == Percent
           ft == FlagText(f)
           wt == WidthText(w)
           st == OneText(s)
           a == i + 1 + Len(ft)
           c == a + Len(wt)
<1>1. pc \in Seq(Characters) /\ Len(pc) = 1
  BY PercentIs
<1>3. /\ ft \in Seq(Characters)
      /\ Plain(f) => Len(ft) = 0
      /\ ~Plain(f) => Len(ft) = 1 /\ ft = OneText(f) /\ f \in Characters
  BY FlagTextIs
<1>4. wt \in Seq(Characters) /\ Len(wt) \in Nat
  BY WidthTextIs
<1>5. s \in Characters /\ st \in Seq(Characters) /\ Len(st) = 1
  BY SpecifiersAre, OneTextIs
<1>6. ConversionText(f, w, s) = ((pc \o ft) \o wt) \o st
  BY DEF ConversionText
<1> HIDE DEF pc, ft, wt, st
<1>8. /\ Len(((pc \o ft) \o wt) \o st) = Len(pc) + Len(ft) + Len(wt) + Len(st)
      /\ Stands(format, i, pc)
      /\ Stands(format, i + Len(pc), ft)
      /\ Stands(format, i + Len(pc) + Len(ft), wt)
      /\ Stands(format, i + Len(pc) + Len(ft) + Len(wt), st)
  <2>1. Stands(format, i, ((pc \o ft) \o wt) \o st)
    BY <1>6, Zenon
  <2>2. /\ pc \in Seq(Characters) /\ ft \in Seq(Characters)
        /\ wt \in Seq(Characters) /\ st \in Seq(Characters)
    BY <1>1, <1>3, <1>4, <1>5
  <2> HIDE DEF a, c
  <2>3. FourAt(format, i, pc, ft, wt, st)
    BY <2>1, <2>2, FourStand
  <2> QED
    BY <2>3, Zenon DEF FourAt
<1>13. Len(ft) \in Nat /\ Len(format) \in Nat /\ a \in Nat \ {0} /\ c \in Nat \ {0}
       /\ i + Len(pc) = i + 1 /\ i + Len(pc) + Len(ft) = a /\ i + Len(pc) + Len(ft) + Len(wt) = c
  BY <1>1, <1>3, <1>4
<1>14. At(format, i) = "%"
  <2>1. Stands(format, i, OneText("%"))
    BY <1>8, Zenon DEF pc, Percent, OneText
  <2> QED
    BY <2>1, PercentIs, OneStands
<1>15. At(format, c) = s /\ c <= Len(format) + 1
  <2>1. Stands(format, c, st)
    BY <1>8, <1>13, Zenon
  <2>2. At(format, c) = s
    <3> HIDE DEF c
    <3> QED
      BY <1>5, <1>13, <2>1, OneStands DEF st
  <2>3. c + Len(st) <= Len(format) + 1
    BY <2>1 DEF Stands
  <2> QED
    BY <1>5, <1>13, <2>2, <2>3
<1>16. /\ At(format, a) \notin {"0", "NUL", "%", "-"}
       /\ EndOf(format, a, {"0"}) = a
       /\ EndOf(format, a, DecimalDigits) = c
       /\ Width(format, a, c) = w
  <2>1. Stands(format, a, WidthText(w))
    BY <1>8, <1>13, Zenon DEF wt
  <2>2. c = a + Len(WidthText(w))
    BY DEF wt
  <2> HIDE DEF a, c
  <2> QED
    BY <1>13, <1>15, <2>1, <2>2, WidthStands
<1>17. ~Plain(f) => At(format, i + 1) = f
  <2> SUFFICES ASSUME ~Plain(f) PROVE At(format, i + 1) = f
    OBVIOUS
  <2>1. f \in Characters /\ ft = OneText(f)
    BY <1>3
  <2>2. Stands(format, i + 1, OneText(f))
    BY <1>8, <1>13, <2>1, Zenon
  <2>3. i + 1 \in Nat \ {0}
    OBVIOUS
  <2> QED
    BY <2>1, <2>2, <2>3, OneStands
<1>0. c = a + Len(wt) /\ a = i + 1 + Len(ft)
  OBVIOUS
<1> HIDE DEF a, c
<1>18. /\ At(format, i + 1) \notin {"NUL", "%"}
       /\ ZerosEnd(format, i) = a
       /\ PadAt(format, i) = Pad(f)
  <2>0. "-" # "" /\ "0" # ""
    OBVIOUS
  <2>1. CASE f = "-"
    <3>0. ~Plain(f)
      BY <2>0, <2>1, Zenon DEF Plain
    <3>1. a = i + 2 /\ At(format, i + 1) = "-"
      <4>1. Len(ft) = 1 /\ At(format, i + 1) = "-"
        BY <1>3, <1>17, <2>1, <3>0, Zenon
      <4> QED
        BY <1>0, <4>1
    <3>2. FlagEnd(format, i) = a
      BY <3>1 DEF FlagEnd
    <3>3. ZerosEnd(format, i) = a
      BY <1>16, <3>2 DEF ZerosEnd
    <3>4. PadAt(format, i) = {"PAD_RIGHT"}
      BY <3>1, <3>2, <3>3 DEF PadAt
    <3>5. Pad(f) = {"PAD_RIGHT"}
      BY <2>1 DEF Pad
    <3> QED
      BY <3>1, <3>3, <3>4, <3>5
  <2>2. CASE f = "0"
    <3>0. ~Plain(f)
      BY <2>0, <2>2, Zenon DEF Plain
    <3>1. a = i + 2 /\ At(format, i + 1) = "0"
      <4>1. Len(ft) = 1 /\ At(format, i + 1) = "0"
        BY <1>3, <1>17, <2>2, <3>0, Zenon
      <4> QED
        BY <1>0, <4>1
    <3>2. FlagEnd(format, i) = i + 1
      BY <3>1 DEF FlagEnd
    <3>3. ZerosEnd(format, i) = a
      <4>1. a \in i + 1 .. Len(format) + 1
        <5>1. /\ Len(wt) \in Nat /\ Len(format) \in Nat /\ a \in Nat
              /\ c = a + Len(wt) /\ c <= Len(format) + 1
          BY <1>4, <1>13, <1>15
        <5> HIDE DEF a, c
        <5> QED
          BY <3>1, <5>1
      <4>2. At(format, a) \notin {"0"}
        BY <1>16
      <4>3. \A m \in i + 1 .. a - 1 : At(format, m) \in {"0"}
        <5>1. \A m \in i + 1 .. a - 1 : m = i + 1
          BY <3>1
        <5> QED
          BY <3>1, <5>1
      <4>4. i + 1 \in Nat
        OBVIOUS
      <4>5. EndOf(format, i + 1, {"0"}) = a
        BY <4>1, <4>2, <4>3, <4>4, EndOfIs
      <4> QED
        BY <3>2, <4>5 DEF ZerosEnd
    <3>4. PadAt(format, i) = {"PAD_ZERO"}
      BY <3>1, <3>2, <3>3 DEF PadAt
    <3>5. Pad(f) = {"PAD_ZERO"}
      BY <2>2 DEF Pad
    <3> QED
      BY <3>1, <3>3, <3>4, <3>5
  <2>3. CASE Plain(f)
    <3>1. a = i + 1
      BY <1>0, <1>3, <2>3
    <3>2. At(format, i + 1) \notin {"NUL", "%", "-"}
      BY <1>16, <3>1
    <3>3. FlagEnd(format, i) = a
      BY <3>1, <3>2 DEF FlagEnd
    <3>4. ZerosEnd(format, i) = a
      BY <1>16, <3>3 DEF ZerosEnd
    <3>5. PadAt(format, i) = {}
      BY <3>1, <3>3, <3>4 DEF PadAt
    <3>6. Pad(f) = {}
      <4>1. f # "-" /\ f # "0"
        BY <2>0, <2>3, Zenon DEF Plain
      <4> QED
        BY <4>1, Zenon DEF Pad
    <3> QED
      BY <3>2, <3>4, <3>5, <3>6
  <2> QED
    BY <2>1, <2>2, <2>3, Zenon DEF Flags, Plain
<1>19. SpecAt(format, i) = c
  BY <1>16, <1>18 DEF SpecAt
<1>20. Converted(format, va, i, k) = Conversion(s, va[k], w, Pad(f))
  BY <1>15, <1>16, <1>18, <1>19, Zenon DEF Converted
<1>21. ArgumentAfter(format, i, k) = k + 1
  BY <1>15, <1>19, Zenon DEF ArgumentAfter
<1>22. out[i][k] = Conversion(s, va[k], w, Pad(f)) \o out[c + 1][k + 1]
  <2>1. out[i][k] = OutAt(out, format, va, i, k)
    BY DEF Outs
  <2>2. "%" # "NUL" /\ At(format, i + 1) # "NUL" /\ At(format, i + 1) # "%"
    BY <1>18
  <2>3. OutAt(out, format, va, i, k)
          = Converted(format, va, i, k) \o out[SpecAt(format, i) + 1][ArgumentAfter(format, i, k)]
    BY <1>14, <2>2, Zenon DEF OutAt
  <2> QED
    BY <1>19, <1>20, <1>21, <2>1, <2>3, Zenon
<1>23. c + 1 = i + Len(ConversionText(f, w, s))
  BY <1>0, <1>1, <1>4, <1>5, <1>6, <1>8, <1>13
<1> QED
  BY <1>22, <1>23, Zenon DEF Converts

-----------------------------------------------------------------------------
(* The pieces of a format, one by one.                                     *)

\* The pieces a format may have.
NumberPiece(p) ==
  \E f \in Flags, w \in 0 .. 2^IntBits - 1, s \in {"d", "u", "x", "X"},
     v \in 1 - 2^IntBits .. 2^IntBits - 1 : p = Piece(f, w, s, v)
StringPiece(p) ==
  \E f \in TextFlags, w \in 0 .. 2^IntBits - 1, s \in {"s", "c"},
     v \in Seq(Characters) : p = Piece(f, w, s, v)
FormatPiece(p) ==
  NumberPiece(p) \/ StringPiece(p) \/ p = Literal("=") \/ p = Literal("%")

\* The argument after the one of the piece.
NextArgument(p, k) == IF p.spec = "literal" THEN k ELSE k + 1

\* The piece is printed, and qprint goes on behind it.
Printed(out, i, k, p) ==
  /\ Spelling(p) \in Seq(Characters) /\ Field(p) \in Seq(Characters)
  /\ out[i][k] = Field(p) \o out[i + Len(Spelling(p))][NextArgument(p, k)]

\* The spelling of a conversion.
LEMMA ConversionSpelled ==
  ASSUME NEW f \in Flags, NEW w \in 0 .. 2^IntBits - 1, NEW s \in Specifiers, NEW v,
         s # "literal"
  PROVE  /\ Spelling(Piece(f, w, s, v)) = ConversionText(f, w, s)
         /\ Spelling(Piece(f, w, s, v)) \in Seq(Characters)
<1> DEFINE p == Piece(f, w, s, v)
<1>1. p.flag = f /\ p.width = w /\ p.spec = s /\ p.arg = v
  BY PieceIs
<1>2. Spelling(p) = ConversionText(f, w, s)
  <2> HIDE DEF p
  <2> QED
    BY <1>1, Zenon DEF Spelling, ConversionText, Percent, FlagText, WidthText, OneText
<1>3. ConversionText(f, w, s) \in Seq(Characters)
  <2> DEFINE pc == Percent
             ft == FlagText(f)
             wt == WidthText(w)
             st == OneText(s)
  <2>1. pc \in Seq(Characters)
    BY PercentIs
  <2>2. ft \in Seq(Characters)
    BY FlagTextIs
  <2>3. wt \in Seq(Characters)
    BY WidthTextIs
  <2>4. st \in Seq(Characters)
    BY SpecifiersAre, OneTextIs
  <2> HIDE DEF pc, ft, wt, st
  <2>5. pc \o ft \in Seq(Characters)
    BY <2>1, <2>2, ConcatProperties
  <2>6. (pc \o ft) \o wt \in Seq(Characters)
    BY <2>3, <2>5, ConcatProperties
  <2>7. ((pc \o ft) \o wt) \o st \in Seq(Characters)
    BY <2>4, <2>6, ConcatProperties
  <2> QED
    BY <2>7, Zenon DEF ConversionText, pc, ft, wt, st
<1> HIDE DEF p
<1> QED
  BY <1>2, <1>3, Zenon DEF p

\* A conversion of a number or of a text,
LEMMA ConversionPrinted ==
  ASSUME NEW format \in Seq(Characters), NEW va, NEW out, Outs(out, format, va),
         NEW i \in Nat \ {0}, NEW k \in Nat,
         NEW f \in Flags, NEW w \in 0 .. 2^IntBits - 1, NEW s \in Specifiers, NEW v,
         s # "literal",
         Conversion(s, v, w, Pad(f)) = Field(Piece(f, w, s, v)),
         Field(Piece(f, w, s, v)) \in Seq(Characters),
         Stands(format, i, Spelling(Piece(f, w, s, v))), va[k] = v
  PROVE  Printed(out, i, k, Piece(f, w, s, v))
<1> DEFINE p == Piece(f, w, s, v)
<1>1. p.spec = s
  BY PieceIs
<1>2. Spelling(p) = ConversionText(f, w, s) /\ Spelling(p) \in Seq(Characters)
  BY ConversionSpelled
<1>3. NextArgument(p, k) = k + 1
  <2> HIDE DEF p
  <2> QED
    BY <1>1, Zenon DEF NextArgument
<1>4. Stands(format, i, ConversionText(f, w, s))
  BY <1>2, Zenon
<1>5. out[i][k] = Conversion(s, va[k], w, Pad(f)) \o out[i + Len(ConversionText(f, w, s))][k + 1]
  <2>1. Converts(out, format, va, i, k, f, w, s)
    BY <1>4, ConversionStep
  <2> QED
    BY <2>1, Zenon DEF Converts
<1> QED
  BY <1>2, <1>3, <1>5, Zenon DEF Printed

\* A literal is its own field.
LEMMA LiteralField ==
  ASSUME NEW c \in Characters
  PROVE  Field(Literal(c)) = OneText(c) /\ Literal(c).spec = "literal"
         /\ Literal(c).arg = OneText(c)
<1> DEFINE f == ""
           w == 0
           s == "literal"
           v == OneText(c)
           p == Piece(f, w, s, v)
<1>2. Literal(c) = p
  BY DEF Literal, OneText
<1> HIDE DEF f, w, s, v
<1>1. p.spec = s /\ p.arg = v
  BY PieceIs
<1> USE DEF f, w, s, v
<1>3. f \in Flags /\ w \in Nat
  BY Zenon DEF Flags
<1>4. v \in Seq(Characters) /\ Len(v) = 1
  BY OneTextIs
<1>5. Minus(p) = <<>>
  <2>1. s # "d"
    OBVIOUS
  <2> HIDE DEF p, s
  <2> QED
    BY <1>1, <2>1, Zenon DEF Minus
<1>6. Body(p) = v
  <2>1. s # "s" /\ s # "x" /\ s # "X" /\ s \notin {"d", "u"}
    OBVIOUS
  <2> HIDE DEF p, s
  <2> QED
    BY <1>1, <2>1, Zenon DEF Body
<1> HIDE DEF f, s, v
<1>7. Field(p) = qprints(v, w, Pad(f))
  BY <1>3, <1>4, <1>5, <1>6, PlainField
<1>8. qprints(v, w, Pad(f)) = Fill(w - Len(v), " ") \o v
  <2>1. f # "-" /\ f # "0"
    BY DEF f
  <2> HIDE DEF w, p
  <2>2. qprints(v, w, Pad(f)) =
           (CASE f = "-" -> v \o Fill(w - Len(v), " ")
              [] f = "0" -> Fill(w - Len(v), "0") \o v
              [] OTHER -> Fill(w - Len(v), " ") \o v)
    BY <1>3, <1>4, Filled
  <2> QED
    BY <2>1, <2>2, Zenon
<1>9. Fill(w - Len(v), " ") = <<>>
  <2> DEFINE n == w - Len(v)
  <2>1. n \in Int /\ n <= 0
    BY <1>4
  <2>2. " " \in Characters
    BY DEF Characters
  <2> HIDE DEF n
  <2>3. Fill(n, " ") = <<>>
    BY <2>1, <2>2, FillIs
  <2> QED
    BY <2>3 DEF n
<1>10. <<>> \o v = v
  BY <1>4
<1> HIDE DEF p
<1> QED
  BY <1>1, <1>2, <1>7, <1>8, <1>9, <1>10, Zenon DEF s, v

LEMMA EqualsSpelled ==
  Spelling(Literal("=")) = OneText("=") /\ OneText("=") \in Seq(Characters)
<1> DEFINE p == Literal("=")
           t == OneText("=")
<1>1. "=" \in Characters
  BY DEF Characters
<1>2. Field(p) = t /\ p.spec = "literal" /\ p.arg = t
  BY <1>1, LiteralField
<1>3. t \in Seq(Characters)
  BY <1>1, OneTextIs
<1>4. <<"=">> # <<"%">>
  <2>1. <<"=">>[1] = "=" /\ <<"%">>[1] = "%" /\ "=" # "%"
    OBVIOUS
  <2> QED
    BY <2>1, Zenon
<1>5. Spelling(p) = t
  <2>1. t # <<"%">>
    BY <1>4 DEF OneText
  <2> HIDE DEF p, t
  <2> QED
    BY <1>2, <2>1, Zenon DEF Spelling
<1> QED
  BY <1>3, <1>5

\* a character that is no conversion,
LEMMA EqualsPrinted ==
  ASSUME NEW format \in Seq(Characters), NEW va, NEW out, Outs(out, format, va),
         NEW i \in Nat \ {0}, NEW k \in Nat, Stands(format, i, Spelling(Literal("=")))
  PROVE  Printed(out, i, k, Literal("="))
<1> DEFINE p == Literal("=")
           t == OneText("=")
<1>1. "=" \in Characters
  BY DEF Characters
<1>2. Field(p) = t /\ p.spec = "literal" /\ p.arg = t
  BY <1>1, LiteralField
<1>3. t \in Seq(Characters) /\ Len(t) = 1
  BY <1>1, OneTextIs
<1>5. Spelling(p) = t
  BY EqualsSpelled
<1>6. At(format, i) = "="
  <2>1. Stands(format, i, t)
    BY <1>5
  <2> QED
    BY <1>1, <2>1, OneStands
<1>7. out[i][k] = t \o out[i + 1][k]
  <2>1. out[i][k] = OutAt(out, format, va, i, k)
    BY DEF Outs
  <2>2. "=" # "NUL" /\ "=" # "%"
    OBVIOUS
  <2>3. OutAt(out, format, va, i, k) = <<"=">> \o out[i + 1][k]
    BY <1>6, <2>2, Zenon DEF OutAt
  <2> QED
    BY <2>1, <2>3, Zenon DEF OneText
<1>8. NextArgument(p, k) = k
  <2> HIDE DEF p
  <2> QED
    BY <1>2, Zenon DEF NextArgument
<1> HIDE DEF p, t
<1> QED
  BY <1>2, <1>3, <1>5, <1>7, <1>8, Zenon DEF Printed, p

TwoText == <<"%", "%">>

LEMMA PercentSpelled ==
  /\ TwoText \in Seq(Characters) /\ Len(TwoText) = 2
  /\ TwoText = OneText("%") \o OneText("%")
  /\ Spelling(Literal("%")) = TwoText
<1> DEFINE p == Literal("%")
           t == OneText("%")
           d == <<"%", "%">>
<1>1. "%" \in Characters
  BY DEF Characters
<1>2. Field(p) = t /\ p.spec = "literal" /\ p.arg = t
  BY <1>1, LiteralField
<1>4. d \in Seq(Characters) /\ Len(d) = 2 /\ d = t \o t
  BY <1>1 DEF OneText
<1>5. Spelling(p) = d
  <2>1. t = <<"%">>
    BY DEF OneText
  <2> HIDE DEF p, t
  <2> QED
    BY <1>2, <2>1, Zenon DEF Spelling
<1> QED
  BY <1>4, <1>5 DEF TwoText

\* and the percent sign, which is written twice.
LEMMA PercentPrinted ==
  ASSUME NEW format \in Seq(Characters), NEW va, NEW out, Outs(out, format, va),
         NEW i \in Nat \ {0}, NEW k \in Nat, Stands(format, i, Spelling(Literal("%")))
  PROVE  Printed(out, i, k, Literal("%"))
<1> DEFINE p == Literal("%")
           t == OneText("%")
           d == TwoText
<1>1. "%" \in Characters
  BY DEF Characters
<1>2. Field(p) = t /\ p.spec = "literal" /\ p.arg = t
  BY <1>1, LiteralField
<1>3. t \in Seq(Characters) /\ Len(t) = 1
  BY <1>1, OneTextIs
<1>4. d \in Seq(Characters) /\ Len(d) = 2 /\ d = t \o t /\ Spelling(p) = d
  BY PercentSpelled
<1>5. Spelling(p) = d
  BY <1>4
<1> HIDE DEF d
<1>6. At(format, i) = "%" /\ At(format, i + 1) = "%"
  <2>1. Stands(format, i, t \o t)
    BY <1>4, <1>5
  <2> HIDE DEF t
  <2>2. Stands(format, i, t) /\ Stands(format, i + 1, t)
    BY <1>3, <2>1, StandsBoth
  <2>3. i + 1 \in Nat \ {0}
    OBVIOUS
  <2> QED
    BY <1>1, <2>2, <2>3, OneStands DEF t
<1>7. out[i][k] = t \o out[i + 2][k]
  <2>1. out[i][k] = OutAt(out, format, va, i, k)
    BY DEF Outs
  <2>2. "%" # "NUL"
    OBVIOUS
  <2>3. OutAt(out, format, va, i, k) = <<"%">> \o out[i + 2][k]
    BY <1>6, <2>2, Zenon DEF OutAt
  <2> QED
    BY <2>1, <2>3, Zenon DEF OneText
<1>8. NextArgument(p, k) = k
  <2> HIDE DEF p
  <2> QED
    BY <1>2, Zenon DEF NextArgument
<1> HIDE DEF p, t
<1> QED
  BY <1>2, <1>3, <1>4, <1>5, <1>7, <1>8, Zenon DEF Printed, p

LEMMA PieceHas ==
  ASSUME NEW f, NEW w, NEW s, NEW v, NEW p, p = Piece(f, w, s, v)
  PROVE  p.spec = s /\ p.arg = v
BY PieceIs

\* The arguments.
Values == Int \cup Seq(Characters)

\* Every piece has a spelling, a field and an argument of their kinds.
LEMMA PieceTexts ==
  ASSUME NEW p, FormatPiece(p)
  PROVE  /\ Spelling(p) \in Seq(Characters) /\ Field(p) \in Seq(Characters)
         /\ p.spec # "literal" => p.arg \in Values
<1>0. /\ \A w \in 0 .. 2^IntBits - 1 : w \in Nat
      /\ \A v \in 1 - 2^IntBits .. 2^IntBits - 1 : v \in Int /\ -(2^IntBits) < v /\ v < 2^IntBits
  BY IntsOf32
<1>1. CASE NumberPiece(p)
  <2>1. PICK f \in Flags, w \in 0 .. 2^IntBits - 1, s \in {"d", "u", "x", "X"},
             v \in 1 - 2^IntBits .. 2^IntBits - 1 : p = Piece(f, w, s, v)
    BY <1>1, Zenon DEF NumberPiece
  <2>2. s \in Specifiers /\ s # "literal"
    <3>1. "d" # "literal" /\ "u" # "literal" /\ "x" # "literal" /\ "X" # "literal"
      OBVIOUS
    <3> QED
      BY <3>1, Zenon DEF Specifiers
  <2>3. p.arg = v
    BY <2>1, PieceHas
  <2>4. v \in Values
    BY <1>0, Zenon DEF Values
  <2>5. w \in Nat /\ v \in Int /\ -(2^IntBits) < v /\ v < 2^IntBits
    BY <1>0, Zenon
  <2>6. Field(Piece(f, w, s, v)) \in Seq(Characters)
    BY <2>5, IntField, Zenon
  <2>7. Spelling(Piece(f, w, s, v)) \in Seq(Characters)
    BY <2>2, ConversionSpelled, Zenon
  <2> QED
    BY <2>1, <2>3, <2>4, <2>6, <2>7, Zenon
<1>2. CASE StringPiece(p)
  <2>1. PICK f \in TextFlags, w \in 0 .. 2^IntBits - 1, s \in {"s", "c"},
             v \in Seq(Characters) : p = Piece(f, w, s, v)
    BY <1>2, Zenon DEF StringPiece
  <2>2. s \in Specifiers /\ s # "literal"
    <3>1. "s" # "literal" /\ "c" # "literal"
      OBVIOUS
    <3> QED
      BY <3>1, Zenon DEF Specifiers
  <2>3. p.arg = v
    BY <2>1, PieceHas
  <2>4. v \in Values
    BY Zenon DEF Values
  <2>5. w \in Nat /\ f \in Flags
    <3>1. w \in Nat
      BY <1>0, Zenon
    <3> QED
      BY <3>1, Zenon DEF Flags, TextFlags
  <2>6. Field(Piece(f, w, s, v)) \in Seq(Characters)
    BY <2>5, TextField, Zenon
  <2>7. Spelling(Piece(f, w, s, v)) \in Seq(Characters)
    BY <2>2, <2>5, ConversionSpelled, Zenon
  <2> QED
    BY <2>1, <2>3, <2>4, <2>6, <2>7, Zenon
<1>3. CASE p = Literal("=")
  <2>1. "=" \in Characters
    BY DEF Characters
  <2>2. Field(Literal("=")) = OneText("=") /\ Literal("=").spec = "literal"
    BY <2>1, LiteralField
  <2> QED
    BY <1>3, <2>2, EqualsSpelled, Zenon
<1>4. CASE p = Literal("%")
  <2>1. "%" \in Characters
    BY DEF Characters
  <2>2. Field(Literal("%")) = OneText("%") /\ Literal("%").spec = "literal"
        /\ OneText("%") \in Seq(Characters)
    BY <2>1, LiteralField, OneTextIs
  <2> QED
    BY <1>4, <2>2, PercentSpelled, Zenon
<1> QED
  BY <1>1, <1>2, <1>3, <1>4, Zenon DEF FormatPiece

\* A piece that stands at i is printed as its field.
LEMMA PiecePrinted ==
  ASSUME NEW format \in Seq(Characters), NEW va, NEW out, Outs(out, format, va),
         NEW i \in Nat \ {0}, NEW k \in Nat, NEW p, FormatPiece(p),
         Stands(format, i, Spelling(p)), p.spec = "literal" \/ va[k] = p.arg
  PROVE  Printed(out, i, k, p)
<1>0. /\ \A w \in 0 .. 2^IntBits - 1 : w \in Nat
      /\ \A v \in 1 - 2^IntBits .. 2^IntBits - 1 : v \in Int /\ -(2^IntBits) < v /\ v < 2^IntBits
  BY IntsOf32
<1>1. CASE NumberPiece(p)
  <2>1. PICK f \in Flags, w \in 0 .. 2^IntBits - 1, s \in {"d", "u", "x", "X"},
             v \in 1 - 2^IntBits .. 2^IntBits - 1 : p = Piece(f, w, s, v)
    BY <1>1, Zenon DEF NumberPiece
  <2>2. s \in Specifiers /\ s # "literal"
    <3>1. "d" # "literal" /\ "u" # "literal" /\ "x" # "literal" /\ "X" # "literal"
      OBVIOUS
    <3> QED
      BY <3>1, Zenon DEF Specifiers
  <2>3. p.spec = s /\ p.arg = v
    BY <2>1, PieceHas
  <2>4. va[k] = v
    BY <2>2, <2>3, Zenon
  <2>5. w \in Nat /\ v \in Int /\ -(2^IntBits) < v /\ v < 2^IntBits
    BY <1>0, Zenon
  <2>6. /\ Conversion(s, v, w, Pad(f)) = Field(Piece(f, w, s, v))
        /\ Field(Piece(f, w, s, v)) \in Seq(Characters)
    BY <2>5, IntField, Zenon
  <2>7. Stands(format, i, Spelling(Piece(f, w, s, v)))
    BY <2>1, Zenon
  <2>8. Printed(out, i, k, Piece(f, w, s, v))
    BY <2>2, <2>4, <2>6, <2>7, ConversionPrinted, Zenon
  <2> QED
    BY <2>1, <2>8, Zenon
<1>2. CASE StringPiece(p)
  <2>1. PICK f \in TextFlags, w \in 0 .. 2^IntBits - 1, s \in {"s", "c"},
             v \in Seq(Characters) : p = Piece(f, w, s, v)
    BY <1>2, Zenon DEF StringPiece
  <2>2. s \in Specifiers /\ s # "literal"
    <3>1. "s" # "literal" /\ "c" # "literal"
      OBVIOUS
    <3> QED
      BY <3>1, Zenon DEF Specifiers
  <2>3. p.spec = s /\ p.arg = v
    BY <2>1, PieceHas
  <2>4. va[k] = v
    BY <2>2, <2>3, Zenon
  <2>5. w \in Nat /\ f \in Flags
    <3>1. w \in Nat
      BY <1>0, Zenon
    <3> QED
      BY <3>1, Zenon DEF Flags, TextFlags
  <2>6. /\ Conversion(s, v, w, Pad(f)) = Field(Piece(f, w, s, v))
        /\ Field(Piece(f, w, s, v)) \in Seq(Characters)
    BY <2>5, TextField, Zenon
  <2>7. Stands(format, i, Spelling(Piece(f, w, s, v)))
    BY <2>1, Zenon
  <2>8. Printed(out, i, k, Piece(f, w, s, v))
    BY <2>2, <2>4, <2>5, <2>6, <2>7, ConversionPrinted, Zenon
  <2> QED
    BY <2>1, <2>8, Zenon
<1>3. CASE p = Literal("=")
  BY <1>3, EqualsPrinted, Zenon
<1>4. CASE p = Literal("%")
  BY <1>4, PercentPrinted, Zenon
<1> QED
  BY <1>1, <1>2, <1>3, <1>4, Zenon DEF FormatPiece

-----------------------------------------------------------------------------
(* Sequences one behind the other.                                         *)

\* f[k] is the first k sequences, one behind the other.
Joins(n, f, seqs) == f[0] = <<>> /\ \A k \in 0 .. n - 1 : f[k + 1] = f[k] \o seqs[k + 1]

LEMMA JoinExists ==
  ASSUME NEW C, NEW n \in Nat, NEW seqs \in [1 .. n -> Seq(C)]
  PROVE  \E f \in [0 .. n -> Seq(C)] : Joins(n, f, seqs)
<1> DEFINE h == [k \in Nat |-> [s \in Seq(C) |-> IF k < n THEN s \o seqs[k + 1] ELSE s]]
<1>1. ASSUME NEW k \in Nat, NEW s \in Seq(C)
      PROVE  (IF k < n THEN s \o seqs[k + 1] ELSE s) \in Seq(C)
  <2>1. CASE k < n
    <3>1. seqs[k + 1] \in Seq(C)
      <4>1. k + 1 \in 1 .. n
        BY <2>1
      <4> QED
        BY <4>1, Zenon
    <3>2. s \o seqs[k + 1] \in Seq(C)
      BY <3>1, ConcatProperties
    <3> QED
      BY <2>1, <3>2, Zenon
  <2>2. CASE ~(k < n)
    BY <2>2
  <2> QED
    BY <2>1, <2>2
<1>2. h \in [Nat -> [Seq(C) -> Seq(C)]]
  BY <1>1
<1>3. <<>> \in Seq(C)
  OBVIOUS
<1>4. \A k \in Nat : \A s \in Seq(C) : h[k][s] = IF k < n THEN s \o seqs[k + 1] ELSE s
  BY Zenon
<1> HIDE DEF h
<1>5. PICK f \in [0 .. n -> Seq(C)] : Climbs(n, f, <<>>, h)
  BY <1>2, <1>3, ClimbExists
<1>6. ASSUME NEW k \in 0 .. n - 1 PROVE f[k + 1] = f[k] \o seqs[k + 1]
  <2>1. k \in Nat /\ k < n /\ k \in 0 .. n
    OBVIOUS
  <2>2. f[k] \in Seq(C)
    BY <2>1, Zenon
  <2>3. f[k + 1] = h[k][f[k]]
    BY <1>5, Zenon DEF Climbs
  <2> QED
    BY <1>4, <2>1, <2>2, <2>3, Zenon
<1> QED
  BY <1>5, <1>6, Zenon DEF Climbs, Joins

\* s begins with r.
Extends(C, s, r) == \E t \in Seq(C) : s = r \o t

LEMMA ExtendsMore ==
  ASSUME NEW C, NEW r \in Seq(C), NEW s \in Seq(C), NEW x, Extends(C, x, r)
  PROVE  Extends(C, x \o s, r)
<1>1. PICK t \in Seq(C) : x = r \o t
  BY Zenon DEF Extends
<1>2. (r \o t) \o s = r \o (t \o s)
  BY ConcatAssociative
<1>3. t \o s \in Seq(C)
  BY ConcatProperties
<1> QED
  BY <1>1, <1>2, <1>3, Zenon DEF Extends

LEMMA JoinStarts ==
  ASSUME NEW C, NEW n \in Nat, NEW seqs \in [1 .. n -> Seq(C)], NEW f \in [0 .. n -> Seq(C)],
         Joins(n, f, seqs), NEW k \in 0 .. n
  PROVE  Extends(C, f[n], f[k])
<1> DEFINE On(m) == Extends(C, f[m], f[k])
           S == {m \in Nat : k + m <= n => On(k + m)}
<1>0. f[k] \in Seq(C) /\ <<>> \in Seq(C)
  OBVIOUS
<1>1. 0 \in S
  <2>1. f[k] \o <<>> = f[k]
    BY <1>0, ConcatEmptySeq
  <2>2. k + 0 = k /\ 0 \in Nat
    OBVIOUS
  <2>3. On(k)
    BY <1>0, <2>1, Zenon DEF Extends
  <2> HIDE DEF On
  <2> QED
    BY <2>2, <2>3
<1>2. ASSUME NEW m \in Nat, m \in S PROVE m + 1 \in S
  <2> HIDE DEF On
  <2> SUFFICES ASSUME k + (m + 1) <= n PROVE On(k + (m + 1))
    OBVIOUS
  <2>0. On(k + m)
    BY <1>2
  <2> USE DEF On
  <2>1. k + m <= n /\ k + m \in 0 .. n - 1 /\ k + (m + 1) = (k + m) + 1 /\ (k + m) + 1 \in 1 .. n
    OBVIOUS
  <2> DEFINE s == seqs[(k + m) + 1]
             x == f[k + m]
             g == f[k]
  <2>3. s \in Seq(C) /\ g \in Seq(C) /\ Extends(C, x, g)
    BY <1>0, <2>0, <2>1, Zenon
  <2>4. f[(k + m) + 1] = x \o s
    BY <2>1, Zenon DEF Joins
  <2> HIDE DEF s, x, g, S
  <2>5. Extends(C, x \o s, g)
    BY <2>3, ExtendsMore
  <2> QED
    BY <2>1, <2>4, <2>5, Zenon DEF g
<1>3. n - k \in S
  <2>1. n - k \in Nat
    OBVIOUS
  <2> HIDE DEF S
  <2> QED
    BY <1>1, <1>2, <2>1, Induct
<1>4. k + (n - k) = n /\ k + (n - k) <= n
  OBVIOUS
<1>5. On(n)
  <2> HIDE DEF On
  <2> QED
    BY <1>3, <1>4
<1> QED
  BY <1>5, Zenon

LEMMA StandsBetween ==
  ASSUME NEW C, NEW s \in Seq(C), NEW u \in Seq(C), NEW t \in Seq(C)
  PROVE  Stands((s \o u) \o t, 1 + Len(s), u)
<1> DEFINE x == s \o u
           y == x \o t
<1>0. Len(s) \in Nat /\ Len(u) \in Nat /\ Len(t) \in Nat
  OBVIOUS
<1>1. x \in Seq(C) /\ Len(x) = Len(s) + Len(u)
      /\ \A j \in 1 .. Len(s) + Len(u) : x[j] = IF j <= Len(s) THEN s[j] ELSE u[j - Len(s)]
  BY ConcatProperties
<1> HIDE DEF x
<1>2. Len(y) = Len(x) + Len(t)
      /\ \A j \in 1 .. Len(x) + Len(t) : y[j] = IF j <= Len(x) THEN x[j] ELSE t[j - Len(x)]
  <2>1. x \in Seq(C)
    BY <1>1
  <2> QED
    BY <2>1, ConcatProperties
<1> HIDE DEF y
<1>3. ASSUME NEW j \in 1 .. Len(u) PROVE y[(1 + Len(s)) + j - 1] = u[j]
  <2> DEFINE m == (1 + Len(s)) + j - 1
  <2>1. /\ m \in 1 .. Len(x) + Len(t) /\ m \in 1 .. Len(s) + Len(u) /\ m <= Len(x)
        /\ ~(m <= Len(s)) /\ m - Len(s) = j
    BY <1>0, <1>1
  <2> HIDE DEF m
  <2>2. y[m] = x[m] /\ x[m] = u[m - Len(s)]
    BY <1>1, <1>2, <2>1, Zenon
  <2>3. y[m] = u[j]
    BY <2>1, <2>2, Zenon
  <2> QED
    BY <2>3 DEF m
<1>4. (1 + Len(s)) + Len(u) <= Len(y) + 1
  BY <1>0, <1>1, <1>2
<1> QED
  BY <1>3, <1>4 DEF Stands, y, x

\* Each sequence stands in the join where the ones before it end.
LEMMA JoinStands ==
  ASSUME NEW C, NEW n \in Nat, NEW seqs \in [1 .. n -> Seq(C)], NEW f \in [0 .. n -> Seq(C)],
         Joins(n, f, seqs), NEW k \in 0 .. n - 1
  PROVE  /\ Stands(f[n], 1 + Len(f[k]), seqs[k + 1])
         /\ Len(f[k + 1]) = Len(f[k]) + Len(seqs[k + 1])
<1> DEFINE s == seqs[k + 1]
           g == f[k]
<1>1. k + 1 \in 0 .. n /\ k + 1 \in 1 .. n /\ k \in 0 .. n
  OBVIOUS
<1>2. s \in Seq(C) /\ g \in Seq(C)
  BY <1>1, Zenon
<1>3. f[k + 1] = g \o s
  BY Zenon DEF Joins
<1> HIDE DEF s, g
<1>4. PICK t \in Seq(C) : f[n] = f[k + 1] \o t
  <2> DEFINE j == k + 1
  <2>1. j \in 0 .. n
    BY <1>1
  <2> HIDE DEF j
  <2>2. Extends(C, f[n], f[j])
    BY <2>1, JoinStarts
  <2> QED
    BY <2>2, Zenon DEF j, Extends
<1>5. Len(g \o s) = Len(g) + Len(s)
  BY <1>2, ConcatProperties
<1>6. Stands((g \o s) \o t, 1 + Len(g), s)
  BY <1>2, StandsBetween
<1> QED
  BY <1>3, <1>4, <1>5, <1>6, Zenon DEF s, g

\* FlattenSeq is the join.
LEMMA FlattenIs ==
  ASSUME NEW C, NEW n \in Nat, NEW seqs \in [1 .. n -> Seq(C)], NEW f \in [0 .. n -> Seq(C)],
         Joins(n, f, seqs)
  PROVE  FlattenSeq(seqs) = f[n]
<1>1. seqs \in Seq(Seq(C)) /\ Len(seqs) = n
  OBVIOUS
<1>2. CASE n = 0
  <2>1. seqs = <<>>
    BY <1>1, <1>2
  <2>2. FlattenSeq(seqs) = seqs
    BY <1>1, <1>2, Zenon DEF FlattenSeq
  <2> QED
    BY <1>2, <2>1, <2>2 DEF Joins
<1>3. CASE n # 0
  <2> DEFINE Is(g) == g = [i \in 1 .. Len(seqs) |-> IF i = 1 THEN seqs[i] ELSE g[i - 1] \o seqs[i]]
             g == CHOOSE g : Is(g)
  <2>1. FlattenSeq(seqs) = g[n]
    BY <1>1, <1>3, Zenon DEF FlattenSeq
  <2>2. ASSUME NEW i \in 1 .. n
        PROVE  /\ i = 1 => f[i] = seqs[i]
               /\ i # 1 => f[i] = f[i - 1] \o seqs[i]
               /\ i # 1 => i - 1 \in 1 .. n
    <3>1. i - 1 \in 0 .. n - 1 /\ (i - 1) + 1 = i
      OBVIOUS
    <3>2. f[i] = f[i - 1] \o seqs[i]
      BY <3>1 DEF Joins
    <3>3. i = 1 => f[i] = seqs[i]
      <4> SUFFICES ASSUME i = 1 PROVE f[i] = seqs[i]
        OBVIOUS
      <4>1. i - 1 = 0 /\ seqs[i] \in Seq(C)
        OBVIOUS
      <4>2. f[i] = <<>> \o seqs[i]
        BY <3>2, <4>1 DEF Joins
      <4> DEFINE s == seqs[i]
      <4> HIDE DEF s
      <4>3. <<>> \o s = s
        BY <4>1, ConcatEmptySeq DEF s
      <4> QED
        BY <4>2, <4>3 DEF s
    <3>4. i # 1 => i - 1 \in 1 .. n
      OBVIOUS
    <3> QED
      BY <3>2, <3>3, <3>4
  <2>3. Is([i \in 1 .. n |-> f[i]])
    <3> DEFINE z == [i \in 1 .. n |-> f[i]]
    <3>1. z = [i \in 1 .. n |-> z[i]] /\ \A i \in 1 .. n : z[i] = f[i]
      OBVIOUS
    <3> HIDE DEF z
    <3>2. \A i \in 1 .. n : z[i] = IF i = 1 THEN seqs[i] ELSE z[i - 1] \o seqs[i]
      BY <2>2, <3>1, Zenon
    <3>3. Is(z)
      BY <1>1, <3>1, <3>2, Zenon
    <3> QED
      BY <3>3 DEF z
  <2>4. Is(g)
    <3> HIDE DEF Is
    <3> QED
      BY <2>3
  <2> HIDE DEF g
  <2>5. \A i \in 1 .. n : g[i] = IF i = 1 THEN seqs[i] ELSE g[i - 1] \o seqs[i]
    BY <1>1, <2>4, Zenon
  <2> DEFINE S == {m \in Nat : m + 1 <= n => g[m + 1] = f[m + 1]}
  <2>6. 0 \in S
    <3>1. 1 \in 1 .. n /\ 0 + 1 = 1
      BY <1>3
    <3>2. g[1] = f[1]
      BY <2>2, <2>5, <3>1, Zenon
    <3> QED
      BY <3>1, <3>2
  <2>7. ASSUME NEW m \in Nat, m \in S PROVE m + 1 \in S
    <3> SUFFICES ASSUME (m + 1) + 1 <= n PROVE g[(m + 1) + 1] = f[(m + 1) + 1]
      OBVIOUS
    <3> DEFINE i == (m + 1) + 1
    <3>1. i \in 1 .. n /\ i # 1 /\ i - 1 = m + 1
      OBVIOUS
    <3>2. g[m + 1] = f[m + 1]
      BY <2>7
    <3> HIDE DEF i
    <3>3. g[i] = f[i]
      <4>1. g[i - 1] = f[i - 1]
        BY <3>1, <3>2
      <4>2. f[i] = f[i - 1] \o seqs[i]
        BY <2>2, <3>1, Zenon
      <4>3. g[i] = g[i - 1] \o seqs[i]
        BY <2>5, <3>1, Zenon
      <4> QED
        BY <4>1, <4>2, <4>3, Zenon
    <3> QED
      BY <3>3 DEF i
  <2>8. n - 1 \in S
    <3>1. n - 1 \in Nat
      BY <1>3
    <3> HIDE DEF S
    <3> QED
      BY <2>6, <2>7, <3>1, Induct
  <2> QED
    BY <1>3, <2>1, <2>8
<1> QED
  BY <1>2, <1>3

LEMMA Regroup ==
  ASSUME NEW C, NEW g \in Seq(C), NEW s \in Seq(C), NEW r \in Seq(C)
  PROVE  g \o (s \o r) = (g \o s) \o r
BY ConcatAssociative

\* The same from the end: e[k] is all but the first k.
Unrolls(n, e, seqs) ==
  e[n] = <<>> /\ \A k \in 0 .. n - 1 : e[k] = seqs[k + 1] \o e[k + 1]

\* A text told from its end is the join of its parts.
LEMMA Unrolled ==
  ASSUME NEW C, NEW n \in Nat, NEW seqs \in [1 .. n -> Seq(C)], NEW e,
         Unrolls(n, e, seqs)
  PROVE  e[0] = FlattenSeq(seqs) /\ e[0] \in Seq(C)
<1>1. PICK f \in [0 .. n -> Seq(C)] : Joins(n, f, seqs)
  BY JoinExists
<1> DEFINE S == {m \in Nat : m <= n => e[n - m] \in Seq(C)}
<1>2. 0 \in S
  <2>1. n - 0 = n /\ <<>> \in Seq(C)
    OBVIOUS
  <2>2. e[n - 0] \in Seq(C)
    BY <2>1, Zenon DEF Unrolls
  <2> QED
    BY <2>2
<1>3. ASSUME NEW m \in Nat, m \in S PROVE m + 1 \in S
  <2> SUFFICES ASSUME m + 1 <= n PROVE e[n - (m + 1)] \in Seq(C)
    OBVIOUS
  <2> DEFINE k == n - (m + 1)
  <2>1. k \in 0 .. n - 1 /\ k + 1 = n - m /\ k + 1 \in 1 .. n /\ m <= n
    OBVIOUS
  <2>2. e[n - m] \in Seq(C)
    BY <1>3, <2>1
  <2> HIDE DEF k, S
  <2> DEFINE s == seqs[k + 1]
             r == e[k + 1]
  <2>3. s \in Seq(C) /\ r \in Seq(C)
    BY <2>1, <2>2
  <2>4. e[k] = s \o r
    BY <2>1, Zenon DEF Unrolls
  <2> HIDE DEF s, r
  <2>5. e[k] \in Seq(C)
    BY <2>3, <2>4, ConcatProperties
  <2> QED
    BY <2>5 DEF k
<1>4. ASSUME NEW k \in 0 .. n PROVE e[k] \in Seq(C)
  <2>1. n - k \in S
    <3>1. n - k \in Nat
      OBVIOUS
    <3> HIDE DEF S
    <3> QED
      BY <1>2, <1>3, <3>1, Induct
  <2>2. n - (n - k) = k /\ n - k <= n
    OBVIOUS
  <2> QED
    BY <2>1, <2>2
<1> DEFINE Told(k) == e[0] = f[k] \o e[k]
           U == {k \in Nat : k <= n => Told(k)}
<1>5. 0 \in U
  <2>1. e[0] \in Seq(C) /\ f[0] = <<>>
    BY <1>1, <1>4 DEF Joins
  <2> DEFINE r == e[0]
  <2> HIDE DEF r
  <2>2. <<>> \o r = r
    BY <2>1, ConcatEmptySeq DEF r
  <2>3. Told(0)
    BY <2>1, <2>2, Zenon DEF r
  <2> HIDE DEF Told
  <2> QED
    BY <2>3
<1>6. ASSUME NEW k \in Nat, k \in U PROVE k + 1 \in U
  <2> HIDE DEF Told
  <2> SUFFICES ASSUME k + 1 <= n PROVE Told(k + 1)
    OBVIOUS
  <2>0. Told(k)
    BY <1>6
  <2> USE DEF Told
  <2>1. k \in 0 .. n - 1 /\ k \in 0 .. n /\ k + 1 \in 0 .. n /\ k + 1 \in 1 .. n /\ k <= n
    OBVIOUS
  <2> DEFINE g == f[k]
             s == seqs[k + 1]
             r == e[k + 1]
  <2>2. g \in Seq(C) /\ s \in Seq(C)
    BY <2>1, Zenon
  <2>3. r \in Seq(C)
    BY <1>4, <2>1, Zenon
  <2>4. f[k + 1] = g \o s /\ e[k] = s \o r /\ e[0] = g \o e[k]
    <3>1. e[0] = g \o e[k]
      BY <2>0, Zenon
    <3>2. f[k + 1] = g \o s
      BY <1>1, <2>1, Zenon DEF Joins
    <3>3. e[k] = s \o r
      BY <2>1, Zenon DEF Unrolls
    <3> QED
      BY <3>1, <3>2, <3>3
  <2> HIDE DEF g, s, r, U
  <2>5. g \o (s \o r) = (g \o s) \o r
    <3> HIDE DEF Told
    <3> QED
      BY <2>2, <2>3, Regroup, SMTT(30)
  <2> QED
    BY <2>4, <2>5, Zenon DEF r
<1>7. n \in U
  <2> HIDE DEF U
  <2> QED
    BY <1>5, <1>6, Induct
<1>8. e[0] = f[n] \o <<>>
  <2>1. Told(n)
    <3> HIDE DEF Told
    <3> QED
      BY <1>7
  <2> QED
    BY <2>1, Zenon DEF Unrolls
<1>9. f[n] \in Seq(C)
  <2>1. n \in 0 .. n
    OBVIOUS
  <2> QED
    BY <2>1, Zenon
<1>10. f[n] \o <<>> = f[n]
  BY <1>9, ConcatEmptySeq
<1>11. FlattenSeq(seqs) = f[n]
  BY <1>1, FlattenIs
<1> QED
  BY <1>8, <1>9, <1>10, <1>11, Zenon

-----------------------------------------------------------------------------
(* Whole formats and their arguments.                                      *)

\* Pieces that a call of printf may have.
IsFormat(pieces, n) ==
  /\ n \in Nat /\ Len(pieces) = n /\ DOMAIN pieces = 1 .. n
  /\ \A k \in 1 .. n : FormatPiece(pieces[k])

\* The argument each piece takes, or none.
Taken(pieces, n) ==
  [k \in 1 .. n |-> IF pieces[k].spec = "literal" THEN <<>> ELSE OneText(pieces[k].arg)]

LEMMA EmptyIs == ASSUME NEW C PROVE <<>> \in Seq(C) /\ Len(<<>>) = 0
OBVIOUS

LEMMA OneValueIs ==
  ASSUME NEW C, NEW c \in C
  PROVE  OneText(c) \in Seq(C) /\ Len(OneText(c)) = 1 /\ OneText(c)[1] = c
BY DEF OneText

LEMMA TakenIs ==
  ASSUME NEW pieces, NEW n, IsFormat(pieces, n)
  PROVE  /\ Taken(pieces, n) \in [1 .. n -> Seq(Values)]
         /\ \A k \in 1 .. n :
              /\ pieces[k].spec = "literal" => Taken(pieces, n)[k] = <<>>
              /\ pieces[k].spec # "literal" => /\ Taken(pieces, n)[k] = OneText(pieces[k].arg)
                                               /\ pieces[k].arg \in Values
<1>1. ASSUME NEW k \in 1 .. n
      PROVE  /\ (IF pieces[k].spec = "literal" THEN <<>> ELSE OneText(pieces[k].arg)) \in Seq(Values)
             /\ pieces[k].spec # "literal" => pieces[k].arg \in Values
  <2>1. FormatPiece(pieces[k])
    BY DEF IsFormat
  <2>2. pieces[k].spec # "literal" => pieces[k].arg \in Values
    BY <2>1, PieceTexts
  <2>3. CASE pieces[k].spec = "literal"
    <3>1. <<>> \in Seq(Values)
      BY EmptyIs
    <3> QED
      BY <2>3, <3>1, Zenon
  <2>4. CASE pieces[k].spec # "literal"
    <3>1. OneText(pieces[k].arg) \in Seq(Values)
      BY <2>2, <2>4, OneValueIs
    <3> QED
      BY <2>2, <2>4, <3>1, Zenon
  <2> QED
    BY <2>3, <2>4
<1> QED
  BY <1>1, Zenon DEF Taken

\* The arguments are the join of those the pieces take.
LEMMA ArgumentsAre ==
  ASSUME NEW pieces, NEW n, IsFormat(pieces, n)
  PROVE  \E g \in [0 .. n -> Seq(Values)] :
           Joins(n, g, Taken(pieces, n)) /\ Arguments(pieces) = g[n]
<1> DEFINE t == Taken(pieces, n)
<1>0. n \in Nat /\ Len(pieces) = n
  BY DEF IsFormat
<1>1. t \in [1 .. n -> Seq(Values)]
      /\ \A k \in 1 .. n :
              /\ pieces[k].spec = "literal" => t[k] = <<>>
              /\ pieces[k].spec # "literal" => t[k] = OneText(pieces[k].arg)
                                               /\ pieces[k].arg \in Values
  BY TakenIs, Zenon
<1> HIDE DEF t
<1>2. PICK g \in [0 .. n -> Seq(Values)] : Joins(n, g, t)
  BY <1>0, <1>1, JoinExists
<1> DEFINE Is(a) == a = [k \in 0 .. Len(pieces) |->
                           IF k = 0 THEN <<>>
                           ELSE IF pieces[k].spec = "literal" THEN a[k - 1]
                           ELSE Append(a[k - 1], pieces[k].arg)]
           a == CHOOSE a : Is(a)
<1>3. Arguments(pieces) = a[n]
  BY <1>0, Zenon DEF Arguments
<1>4. ASSUME NEW k \in 0 .. n, k # 0
      PROVE  g[k] = (IF pieces[k].spec = "literal" THEN g[k - 1] ELSE Append(g[k - 1], pieces[k].arg))
             /\ k - 1 \in 0 .. n
  <2>1. k - 1 \in 0 .. n - 1 /\ k - 1 \in 0 .. n /\ (k - 1) + 1 = k /\ k \in 1 .. n
    BY <1>0, <1>4
  <2>2. g[k] = g[k - 1] \o t[k]
    BY <1>2, <2>1 DEF Joins
  <2> DEFINE x == g[k - 1]
  <2>3. x \in Seq(Values)
    BY <2>1, Zenon
  <2> HIDE DEF x
  <2>4. CASE pieces[k].spec = "literal"
    <3>1. t[k] = <<>>
      BY <1>1, <2>1, <2>4, Zenon
    <3>2. x \o <<>> = x
      BY <2>3, ConcatEmptySeq
    <3> QED
      BY <2>1, <2>2, <2>4, <3>1, <3>2, Zenon DEF x
  <2>5. CASE pieces[k].spec # "literal"
    <3> DEFINE v == pieces[k].arg
    <3>1. t[k] = OneText(v) /\ v \in Values
      BY <1>1, <2>1, <2>5, Zenon
    <3> HIDE DEF v
    <3>2. Append(x, v) = x \o <<v>>
      BY <2>3, <3>1, AppendIsConcat
    <3> QED
      BY <2>1, <2>2, <2>5, <3>1, <3>2, Zenon DEF x, v, OneText
  <2> QED
    BY <2>4, <2>5
<1>5. Is([k \in 0 .. n |-> g[k]])
  <2> DEFINE z == [k \in 0 .. n |-> g[k]]
  <2>1. z = [k \in 0 .. n |-> z[k]] /\ \A k \in 0 .. n : z[k] = g[k]
    OBVIOUS
  <2>2. g[0] = <<>>
    BY <1>2 DEF Joins
  <2> HIDE DEF z
  <2>3. \A k \in 0 .. n : z[k] = IF k = 0 THEN <<>>
                                  ELSE IF pieces[k].spec = "literal" THEN z[k - 1]
                                  ELSE Append(z[k - 1], pieces[k].arg)
    BY <1>4, <2>1, <2>2, Zenon
  <2>4. Is(z)
    BY <1>0, <2>1, <2>3, Zenon
  <2> QED
    BY <2>4 DEF z
<1>6. Is(a)
  <2> HIDE DEF Is
  <2> QED
    BY <1>5
<1> HIDE DEF a
<1>7. \A k \in 0 .. n : a[k] = IF k = 0 THEN <<>>
                                ELSE IF pieces[k].spec = "literal" THEN a[k - 1]
                                ELSE Append(a[k - 1], pieces[k].arg)
  BY <1>0, <1>6, Zenon
<1> DEFINE S == {m \in Nat : m <= n => a[m] = g[m]}
<1>8. 0 \in S
  <2>1. 0 \in 0 .. n
    BY <1>0
  <2>2. a[0] = g[0]
    BY <1>2, <1>7, <2>1, Zenon DEF Joins
  <2> QED
    BY <2>2
<1>9. ASSUME NEW m \in Nat, m \in S PROVE m + 1 \in S
  <2> SUFFICES ASSUME m + 1 <= n PROVE a[m + 1] = g[m + 1]
    OBVIOUS
  <2>0. a[m] = g[m]
    BY <1>0, <1>9
  <2> DEFINE k == m + 1
  <2>1. k \in 0 .. n /\ k # 0 /\ k - 1 = m
    BY <1>0
  <2> HIDE DEF k
  <2>2. a[k - 1] = g[k - 1]
    BY <2>0, <2>1, Zenon
  <2>3. a[k] = IF pieces[k].spec = "literal" THEN a[k - 1] ELSE Append(a[k - 1], pieces[k].arg)
    BY <1>7, <2>1, Zenon
  <2>4. a[k] = g[k]
    BY <1>4, <2>1, <2>2, <2>3, Zenon
  <2> QED
    BY <2>4 DEF k
<1>10. a[n] = g[n]
  <2>1. n \in S
    <3> HIDE DEF S
    <3> QED
      BY <1>0, <1>8, <1>9, Induct
  <2> QED
    BY <1>0, <2>1
<1> QED
  BY <1>2, <1>3, <1>10, Zenon DEF t

(***************************************************************************)
(* qprint prints the fields of the pieces a format is made of, one behind  *)
(* the other: any number of conversions with an int or a text of any       *)
(* length, of any width, and of literals.  It finds each conversion in the *)
(* text by its characters alone and takes the arguments in their order.    *)
(***************************************************************************)
THEOREM FormatPrinted ==
  ASSUME NEW pieces, NEW n, IsFormat(pieces, n)
  PROVE  qprint(FlattenSeq([k \in DOMAIN pieces |-> Spelling(pieces[k])]), Arguments(pieces))
           = FlattenSeq([k \in DOMAIN pieces |-> Field(pieces[k])])
<1> DEFINE sp == [k \in 1 .. n |-> Spelling(pieces[k])]
           fd == [k \in 1 .. n |-> Field(pieces[k])]
           tk == Taken(pieces, n)
<1>0. n \in Nat /\ DOMAIN pieces = 1 .. n /\ \A k \in 1 .. n : FormatPiece(pieces[k])
  BY DEF IsFormat
<1>1. /\ sp \in [1 .. n -> Seq(Characters)] /\ \A k \in 1 .. n : sp[k] = Spelling(pieces[k])
      /\ fd \in [1 .. n -> Seq(Characters)] /\ \A k \in 1 .. n : fd[k] = Field(pieces[k])
  <2>1. \A k \in 1 .. n : Spelling(pieces[k]) \in Seq(Characters) /\ Field(pieces[k]) \in Seq(Characters)
    BY <1>0, PieceTexts
  <2> QED
    BY <2>1, Zenon
<1>2. /\ tk \in [1 .. n -> Seq(Values)]
      /\ \A k \in 1 .. n :
              /\ pieces[k].spec = "literal" => tk[k] = <<>>
              /\ pieces[k].spec # "literal" => /\ tk[k] = OneText(pieces[k].arg)
                                               /\ pieces[k].arg \in Values
  BY TakenIs, Zenon
<1> HIDE DEF sp, fd, tk
<1>3. PICK f \in [0 .. n -> Seq(Characters)] : Joins(n, f, sp)
  BY <1>0, <1>1, JoinExists
<1>4. PICK g \in [0 .. n -> Seq(Values)] : Joins(n, g, tk) /\ Arguments(pieces) = g[n]
  BY ArgumentsAre DEF tk
<1> DEFINE format == f[n]
           va == g[n]
<1>5. FlattenSeq(sp) = format
  BY <1>0, <1>1, <1>3, FlattenIs
<1>6. format \in Seq(Characters)
  <2>1. n \in 0 .. n
    BY <1>0
  <2> QED
    BY <2>1, Zenon
<1> HIDE DEF format, va
<1>7. Found(format, va)
  BY <1>6, QprintIs
<1>8. PICK out : qprint(format, va) = out[1][1] /\ Outs(out, format, va)
  BY <1>7, Zenon DEF Found
<1> DEFINE e == [k \in 0 .. n |-> out[1 + Len(f[k])][1 + Len(g[k])]]
<1>9. ASSUME NEW k \in 0 .. n
      PROVE  Len(f[k]) \in Nat /\ Len(g[k]) \in Nat
  <2>1. f[k] \in Seq(Characters) /\ g[k] \in Seq(Values)
    BY Zenon
  <2> QED
    BY <2>1, LenProperties
<1>10. e[n] = <<>>
  <2>1. n \in 0 .. n
    BY <1>0
  <2> DEFINE i == 1 + Len(f[n])
             j == 1 + Len(g[n])
  <2>2. e[n] = out[i][j] /\ i \in Nat /\ j \in Nat
    BY <1>9, <2>1
  <2>3. DOMAIN format = 1 .. Len(format) /\ Len(format) \in Nat /\ i = Len(format) + 1
    <3>1. DOMAIN format = 1 .. Len(format) /\ Len(format) \in Nat
      BY <1>6, LenProperties
    <3> QED
      BY <3>1 DEF format
  <2> HIDE DEF i, j, e
  <2>4. i \notin DOMAIN format
    BY <2>3
  <2>5. At(format, i) = "NUL"
    BY <2>4, Zenon DEF At
  <2>6. out[i][j] = OutAt(out, format, va, i, j)
    BY <1>8, <2>2, Zenon DEF Outs
  <2> QED
    BY <2>2, <2>5, <2>6, Zenon DEF OutAt
<1>11. ASSUME NEW k \in 0 .. n - 1 PROVE e[k] = fd[k + 1] \o e[k + 1]
  <2> DEFINE p == pieces[k + 1]
             i == 1 + Len(f[k])
             j == 1 + Len(g[k])
  <2>1. k + 1 \in 1 .. n /\ k + 1 \in 0 .. n /\ k \in 0 .. n
    BY <1>0
  <2>2. i \in Nat \ {0} /\ j \in Nat
    BY <1>9, <2>1
  <2>3. /\ Stands(format, i, sp[k + 1])
        /\ Len(f[k + 1]) = Len(f[k]) + Len(sp[k + 1])
    BY <1>0, <1>1, <1>3, JoinStands, ZenonT(40) DEF format
  <2>4. /\ Stands(va, j, tk[k + 1])
        /\ Len(g[k + 1]) = Len(g[k]) + Len(tk[k + 1])
    BY <1>0, <1>2, <1>4, JoinStands, ZenonT(40) DEF va
  <2>5. FormatPiece(p) /\ sp[k + 1] = Spelling(p) /\ fd[k + 1] = Field(p)
    BY <1>0, <1>1, <2>1, Zenon
  <2>6. Len(Spelling(p)) \in Nat
    BY <2>5, PieceTexts, LenProperties
  <2>7. e[k] = out[i][j] /\ e[k + 1] = out[1 + Len(f[k + 1])][1 + Len(g[k + 1])]
    BY <2>1, Zenon
  <2>8. 1 + Len(f[k + 1]) = i + Len(Spelling(p))
    <3>1. Len(f[k]) \in Nat
      BY <1>9, <2>1
    <3>2. Len(sp[k + 1]) = Len(Spelling(p))
      BY <2>5, Zenon
    <3> HIDE DEF p, e
    <3> QED
      BY <2>3, <2>6, <3>1, <3>2
  <2>9. /\ p.spec = "literal" \/ va[j] = p.arg
        /\ 1 + Len(g[k + 1]) = NextArgument(p, j)
    <3>0. Len(g[k]) \in Nat
      BY <1>9, <2>1
    <3>1. CASE p.spec = "literal"
      <4>1. tk[k + 1] = <<>>
        BY <1>2, <2>1, <3>1, Zenon
      <4>2. Len(tk[k + 1]) = 0
        BY <4>1
      <4>3. 1 + Len(g[k + 1]) = j
        BY <2>4, <3>0, <4>2
      <4> QED
        BY <3>1, <4>3, Zenon DEF NextArgument
    <3>2. CASE p.spec # "literal"
      <4> DEFINE v == p.arg
      <4>1. tk[k + 1] = OneText(v) /\ v \in Values
        BY <1>2, <2>1, <3>2, Zenon
      <4> HIDE DEF v, p, i, e
      <4>2. Len(OneText(v)) = 1 /\ OneText(v)[1] = v
        BY <4>1, OneValueIs
      <4>3. 1 + Len(g[k + 1]) = j + 1
        BY <2>4, <3>0, <4>1, <4>2
      <4>4. va[j] = v
        <5> HIDE DEF j
        <5>1. Stands(va, j, OneText(v))
          BY <2>4, <4>1, Zenon
        <5>2. 1 \in 1 .. Len(OneText(v)) /\ j + 1 - 1 = j
          BY <2>2, <4>2
        <5>3. va[j + 1 - 1] = OneText(v)[1]
          BY <5>1, <5>2, Zenon DEF Stands
        <5> QED
          BY <4>2, <5>2, <5>3, Zenon
      <4> QED
        BY <3>2, <4>3, <4>4, Zenon DEF NextArgument, v
    <3> QED
      BY <3>1, <3>2
  <2> HIDE DEF p, i, j, e
  <2>10. Stands(format, i, Spelling(p))
    BY <2>3, <2>5, Zenon
  <2>11. Printed(out, i, j, p)
    BY <1>6, <1>8, <2>2, <2>5, <2>9, <2>10, PiecePrinted
  <2>12. out[i][j] = Field(p) \o out[i + Len(Spelling(p))][NextArgument(p, j)]
    BY <2>11, Zenon DEF Printed
  <2> QED
    BY <2>5, <2>7, <2>8, <2>9, <2>12, Zenon
<1> HIDE DEF e
<1>12. e[0] = FlattenSeq(fd)
  <2>1. Unrolls(n, e, fd)
    BY <1>10, <1>11, Zenon DEF Unrolls
  <2> QED
    BY <1>0, <1>1, <2>1, Unrolled
<1>13. e[0] = out[1][1]
  <2>1. 0 \in 0 .. n
    BY <1>0
  <2>2. f[0] = <<>> /\ g[0] = <<>>
    BY <1>3, <1>4 DEF Joins
  <2>3. 1 + Len(f[0]) = 1 /\ 1 + Len(g[0]) = 1
    BY <2>2
  <2>4. e[0] = out[1 + Len(f[0])][1 + Len(g[0])]
    BY <2>1, Zenon DEF e
  <2> QED
    BY <2>3, <2>4, Zenon
<1>14. qprint(FlattenSeq(sp), Arguments(pieces)) = FlattenSeq(fd)
  BY <1>4, <1>5, <1>8, <1>12, <1>13, Zenon DEF va
<1> QED
  BY <1>0, <1>14, Zenon DEF sp, fd

-----------------------------------------------------------------------------
(* The calls that print, and what they return.                             *)

\* The calls that print are of the kinds the lemmas above speak of.
PrintCall ==
  /\ call.fn = "printf" => \E n \in Nat : IsFormat(call.pieces, n)
  /\ call.fn = "puts" => call.s \in Seq(Characters)
  /\ call.fn \in {"write_uart_int", "write_uart_hex"} => call.value \in 0 .. 2^IntBits - 1

LEMMA TextsAreOf == Texts \subseteq Seq(Characters)
<1>1. STRING \subseteq Characters
  BY Zenon DEF Characters
<1>2. \A s \in Seq(STRING) : s \in Seq(Characters)
  <2> DEFINE A == STRING
             B == Characters
  <2>1. A \subseteq B
    BY <1>1
  <2> HIDE DEF A, B
  <2>2. \A s \in Seq(A) : s \in Seq(B)
    BY <2>1
  <2> QED
    BY <2>2 DEF A, B
<1> QED
  BY <1>2, LibrariesAssumption

LEMMA IntsAreOf ==
  /\ Widths \subseteq 0 .. 2^IntBits - 1
  /\ SomeInts \subseteq 1 - 2^IntBits .. 2^IntBits - 1
  /\ Naturals16 \subseteq 1 - 2^IntBits .. 2^IntBits - 1
<1> DEFINE h == 2^(IntBits - 1)
           p == 2^IntBits
<1>1. IntBits - 1 \in Nat /\ (IntBits - 1) + 1 = IntBits
  BY StringLibAssumption
<1>2. h \in Nat \ {0} /\ p = 2 * h
  <2> DEFINE m == IntBits - 1
  <2>1. m \in Nat /\ m + 1 = IntBits
    BY <1>1
  <2> HIDE DEF m
  <2>2. 2^m \in Nat /\ 2^(m + 1) = 2 * 2^m
    BY <2>1, PowerOfNext
  <2>3. 2^m # 0
    BY <2>1, <2>2, PowerPositive
  <2> QED
    BY <2>1, <2>2, <2>3 DEF m
<1>3. /\ Naturals16 \subseteq 0 .. p - 1 /\ SomeInts \subseteq -h .. h - 1
      /\ Widths \subseteq 0 .. p - 1
  BY LibrariesAssumption
<1> HIDE DEF h, p
<1>4. 0 .. p - 1 \subseteq 1 - p .. p - 1 /\ -h .. h - 1 \subseteq 1 - p .. p - 1
  BY <1>2
<1> QED
  BY <1>3, <1>4 DEF p

LEMMA PlainFlag == "" \in Flags /\ "" \in TextFlags /\ "-" \in TextFlags
BY Zenon DEF Flags, TextFlags

LEMMA IntPiecesAre == ASSUME NEW p \in IntPieces PROVE FormatPiece(p)
<1>1. PICK f \in Flags, w \in Widths, s \in {"d", "u", "x", "X"}, v \in SomeInts :
        p = Piece(f, w, s, v)
  BY DEF IntPieces
<1>2. w \in 0 .. 2^IntBits - 1 /\ v \in 1 - 2^IntBits .. 2^IntBits - 1
  BY IntsAreOf
<1> QED
  BY <1>1, <1>2, Zenon DEF FormatPiece, NumberPiece

LEMMA TextPiecesAre == ASSUME NEW p \in TextPieces PROVE FormatPiece(p)
<1>1. <<"z">> \in Seq(Characters)
  <2>1. "z" \in Characters
    BY DEF Characters
  <2> QED
    BY <2>1, SingleIs
<1>2. /\ \A w \in Widths : w \in 0 .. 2^IntBits - 1
      /\ \A s \in Texts : s \in Seq(Characters)
  BY IntsAreOf, TextsAreOf, Zenon
<1>3. p \in StringPieces \/ p \in CharPieces
  BY Zenon DEF TextPieces
<1>4. CASE p \in StringPieces
  <2>1. PICK f \in TextFlags, w \in Widths, s \in Texts : p = Piece(f, w, "s", s)
    BY <1>4 DEF StringPieces
  <2> QED
    BY <1>2, <2>1, Zenon DEF FormatPiece, StringPiece
<1>5. CASE p \in CharPieces
  <2>1. PICK f \in TextFlags, w \in Widths : p = Piece(f, w, "c", <<"z">>)
    BY <1>5 DEF CharPieces
  <2> QED
    BY <1>1, <1>2, <2>1, Zenon DEF FormatPiece, StringPiece
<1> QED
  BY <1>3, <1>4, <1>5

LEMMA ShortFormats ==
  ASSUME NEW p, NEW q, NEW r, FormatPiece(p), FormatPiece(q), FormatPiece(r)
  PROVE  IsFormat(<<p>>, 1) /\ IsFormat(<<p, q>>, 2) /\ IsFormat(<<p, q, r>>, 3)
<1>1. IsFormat(<<p>>, 1)
  <2>1. Len(<<p>>) = 1 /\ DOMAIN <<p>> = 1 .. 1 /\ \A k \in 1 .. 1 : <<p>>[k] = p
    OBVIOUS
  <2> QED
    BY <2>1, Zenon DEF IsFormat
<1>2. IsFormat(<<p, q>>, 2)
  <2>1. /\ Len(<<p, q>>) = 2 /\ DOMAIN <<p, q>> = 1 .. 2
        /\ \A k \in 1 .. 2 : <<p, q>>[k] = p \/ <<p, q>>[k] = q
    OBVIOUS
  <2>2. 2 \in Nat
    OBVIOUS
  <2> QED
    BY <2>1, <2>2, Zenon DEF IsFormat
<1>3. IsFormat(<<p, q, r>>, 3)
  <2>1. /\ Len(<<p, q, r>>) = 3 /\ DOMAIN <<p, q, r>> = 1 .. 3
        /\ \A k \in 1 .. 3 : <<p, q, r>>[k] = p \/ <<p, q, r>>[k] = q \/ <<p, q, r>>[k] = r
    OBVIOUS
  <2>2. 3 \in Nat
    OBVIOUS
  <2> QED
    BY <2>1, <2>2, Zenon DEF IsFormat
<1> QED
  BY <1>1, <1>2, <1>3

LEMMA LiteralsAre == FormatPiece(Literal("=")) /\ FormatPiece(Literal("%"))
BY Zenon DEF FormatPiece

\* Every format of the model is made of such pieces.
LEMMA FormatsAre == ASSUME NEW pieces \in Formats PROVE \E n \in Nat : IsFormat(pieces, n)
<1>0. 1 \in Nat /\ 2 \in Nat /\ 3 \in Nat
  OBVIOUS
<1>1. \/ pieces \in UnsignedFormats \/ pieces \in IntFormats
      \/ pieces \in TextFormats \/ pieces \in PairFormats
  BY DEF Formats
<1>2. CASE pieces \in UnsignedFormats
  <2>1. PICK v \in Naturals16 : pieces = <<Piece("", 0, "u", v)>>
    BY <1>2, Zenon DEF UnsignedFormats
  <2> DEFINE p == Piece("", 0, "u", v)
  <2>2. FormatPiece(p)
    <3>1. 0 \in 0 .. 2^IntBits - 1 /\ v \in 1 - 2^IntBits .. 2^IntBits - 1
      <4>1. v \in 0 .. 2^IntBits - 1 /\ 2^IntBits \in Nat
        BY IntsOf32, LibrariesAssumption
      <4> QED
        BY <4>1, IntsAreOf
    <3>2. "u" \in {"d", "u", "x", "X"}
      OBVIOUS
    <3> QED
      BY <3>1, <3>2, PlainFlag, Zenon DEF FormatPiece, NumberPiece
  <2> HIDE DEF p
  <2>3. IsFormat(<<p>>, 1)
    BY <2>2, ShortFormats
  <2> QED
    BY <1>0, <2>1, <2>3, Zenon DEF p
<1>3. CASE pieces \in IntFormats
  <2>1. PICK p \in IntPieces : pieces = <<Literal("="), p, Literal("%")>>
    BY <1>3, Zenon DEF IntFormats
  <2>2. FormatPiece(p)
    BY IntPiecesAre
  <2> DEFINE x == Literal("=")
             y == Literal("%")
  <2>3. FormatPiece(x) /\ FormatPiece(y) /\ pieces = <<x, p, y>>
    BY <2>1, LiteralsAre
  <2> HIDE DEF x, y
  <2>4. IsFormat(<<x, p, y>>, 3)
    BY <2>2, <2>3, ShortFormats
  <2> QED
    BY <1>0, <2>3, <2>4, Zenon
<1>4. CASE pieces \in TextFormats
  <2>1. PICK p \in TextPieces : pieces = <<p>>
    BY <1>4, Zenon DEF TextFormats
  <2>2. FormatPiece(p)
    BY TextPiecesAre
  <2>3. IsFormat(<<p>>, 1)
    BY <2>2, ShortFormats
  <2> QED
    BY <1>0, <2>1, <2>3, Zenon
<1>5. CASE pieces \in PairFormats
  <2>1. PICK p \in {q \in IntPieces : q.flag = "-"}, r \in {q \in TextPieces : q.width = 2} :
          pieces \in {<<p, r>>, <<r, p>>}
    <3> DEFINE X == {q \in IntPieces : q.flag = "-"}
               Y == {q \in TextPieces : q.width = 2}
    <3>1. pieces \in UNION {{<<p, r>>, <<r, p>>} : p \in X, r \in Y}
      BY <1>5 DEF PairFormats
    <3> HIDE DEF X, Y
    <3>2. PICK p \in X, r \in Y : pieces \in {<<p, r>>, <<r, p>>}
      BY <3>1
    <3> QED
      BY <3>2 DEF X, Y
  <2>2. FormatPiece(p) /\ FormatPiece(r)
    <3>1. p \in IntPieces /\ r \in TextPieces
      BY Zenon
    <3> QED
      BY <3>1, IntPiecesAre, TextPiecesAre
  <2>3. IsFormat(<<p, r>>, 2) /\ IsFormat(<<r, p>>, 2)
    BY <2>2, ShortFormats
  <2> QED
    BY <1>0, <2>1, <2>3, Zenon
<1> QED
  BY <1>1, <1>2, <1>3, <1>4, <1>5

\* So the calls are when they are made,
LEMMA CallsOfPrinting == Init => PrintCall
<1> SUFFICES ASSUME Init PROVE PrintCall
  OBVIOUS
<1> DEFINE Prints == {"printf", "puts", "write_uart_int", "write_uart_hex"}
<1>1. CASE InitMath
  <2>1. call.fn \notin Prints
    BY <1>1 DEF InitMath
  <2> QED
    BY <2>1 DEF PrintCall
<1>2. CASE InitRegions
  <2>1. call.fn \notin Prints
    BY <1>2 DEF InitRegions
  <2> QED
    BY <2>1 DEF PrintCall
<1>3. CASE InitStrings
  <2>1. CASE \E pieces \in Formats : call = PrintfCall(pieces)
    <3>1. PICK pieces \in Formats : call = PrintfCall(pieces)
      <4> HIDE DEF Formats
      <4> QED
        BY <2>1
    <3>2. \E n \in Nat : IsFormat(pieces, n)
      BY FormatsAre
    <3>3. call.fn = "printf" /\ call.pieces = pieces
      <4> HIDE DEF Formats
      <4> QED
        BY <3>1 DEF PrintfCall
    <3>4. "printf" # "puts" /\ "printf" \notin {"write_uart_int", "write_uart_hex"}
      OBVIOUS
    <3> QED
      BY <3>2, <3>3, <3>4, Zenon DEF PrintCall
  <2>2. CASE \E v \in Naturals16 : v \in SomeInts /\
               call \in {[fn |-> f, value |-> v] : f \in {"write_uart_int", "write_uart_hex"}}
    <3>1. PICK v \in Naturals16 :
               call \in {[fn |-> f, value |-> v] : f \in {"write_uart_int", "write_uart_hex"}}
      BY <2>2
    <3>2. call.fn \in {"write_uart_int", "write_uart_hex"} /\ call.value = v
          /\ call.fn # "printf" /\ call.fn # "puts"
      BY <3>1
    <3>3. v \in 0 .. 2^IntBits - 1
      BY LibrariesAssumption
    <3> QED
      BY <3>2, <3>3, Zenon DEF PrintCall
  <2>3. CASE \E s \in Texts : call = [fn |-> "puts", s |-> s]
    <3>1. PICK s \in Texts : call = [fn |-> "puts", s |-> s]
      BY <2>3
    <3>2. call.fn = "puts" /\ call.s = s /\ call.fn # "printf"
          /\ call.fn \notin {"write_uart_int", "write_uart_hex"}
      BY <3>1
    <3>3. s \in Seq(Characters)
      BY TextsAreOf
    <3> QED
      BY <3>2, <3>3, Zenon DEF PrintCall
  <2>4. CASE \E m1 \in Memories, m2 \in Memories, a1 \in {0, 1}, a2 \in {0, 1} :
               /\ \E x \in DOMAIN m1 : x >= a1 /\ m1[x] = 0
               /\ \E x \in DOMAIN m2 : x >= a2 /\ m2[x] = 0
               /\ call \in {[fn |-> f, m1 |-> m1, a1 |-> a1, m2 |-> m2, a2 |-> a2] :
                              f \in {"strcmp", "strcpy"}}
    <3>1. call.fn \in {"strcmp", "strcpy"}
      BY <2>4
    <3> QED
      BY <3>1 DEF PrintCall
  <2>5. CASE \E m \in Memories, a \in {0, 1}, n \in 0 .. 3 :
               call = [fn |-> "memset", m |-> m, a |-> a, val |-> 2, length |-> n]
    <3>1. call.fn = "memset"
      BY <2>5
    <3> QED
      BY <3>1 DEF PrintCall
  <2>6. CASE \E m \in Memories, a \in {NULL, 0, 1} :
               /\ a # NULL => \E x \in DOMAIN m : x >= a /\ m[x] = 0
               /\ call = [fn |-> "strlen", m |-> m, a |-> a]
    <3>1. call.fn = "strlen"
      BY <2>6
    <3> QED
      BY <3>1 DEF PrintCall
  <2> HIDE DEF Formats
  <2> QED
    BY <1>3, <2>1, <2>2, <2>3, <2>4, <2>5, <2>6 DEF InitStrings
<1> QED
  BY <1>1, <1>2, <1>3 DEF Init

\* and what they return is what it should be.
LEMMA PrintReturns ==
  ASSUME Next, PrintCall
  PROVE  PrintfAgrees'
<1>1. call' = call
  BY DEF Next, Printing, Strings, Functions, Checks, Return
<1>2. ASSUME call.fn = "printf"
      PROVE  /\ result'.out = FlattenSeq([k \in DOMAIN call.pieces |-> Field(call.pieces[k])])
             /\ result'.pc = Len(result'.out)
  <2> DEFINE format == FlattenSeq([k \in DOMAIN call.pieces |-> Spelling(call.pieces[k])])
             args == Arguments(call.pieces)
  <2>1. result' = printf(format, args)
    BY <1>2, Zenon DEF Next, Printing, Strings, Functions, Checks, Return
  <2>2. PICK n \in Nat : IsFormat(call.pieces, n)
    BY <1>2 DEF PrintCall
  <2>3. qprint(format, args) = FlattenSeq([k \in DOMAIN call.pieces |-> Field(call.pieces[k])])
    BY <2>2, FormatPrinted, Zenon
  <2> HIDE DEF format, args
  <2>4. result'.out = qprint(format, args) /\ result'.pc = Len(qprint(format, args))
    <3> DEFINE q == qprint(format, args)
    <3>1. result' = [out |-> q, pc |-> Len(q)]
      BY <2>1, Zenon DEF printf
    <3> HIDE DEF q
    <3> QED
      BY <3>1 DEF q
  <2> QED
    BY <2>3, <2>4, Zenon
<1>3. ASSUME call.fn = "puts" PROVE result'.out = call.s \o <<"\n">>
  <2> DEFINE s == call.s
             c == "\n"
  <2>1. result' = puts(s)
    BY <1>3 DEF Next, Printing, Strings, Functions, Checks, Return
  <2>2. s \in Seq(Characters) /\ c \in Characters
    BY <1>3 DEF PrintCall, Characters
  <2>3. result'.out = Append(s, c)
    BY <2>1 DEF puts
  <2> HIDE DEF s, c
  <2>4. Append(s, c) = s \o <<c>>
    BY <2>2, AppendIsConcat
  <2> QED
    BY <2>3, <2>4, Zenon DEF s, c
<1>4. ASSUME call.fn = "write_uart_int" PROVE result' = Numeral(call.value, 10, DigitsLower)
  <2> DEFINE v == call.value
  <2>1. result' = write_uart_int(v)
    BY <1>4, Zenon DEF Next, Printing, Strings, Functions, Checks, Return
  <2>2. v \in 0 .. 2^IntBits - 1
    BY <1>4 DEF PrintCall
  <2> HIDE DEF v
  <2>3. write_uart_int(v) = Numeral(v, 10, DigitsLower)
    BY <2>2, Decimals
  <2> QED
    BY <2>1, <2>3, Zenon DEF v
<1>5. ASSUME call.fn = "write_uart_hex" PROVE result' = Numeral(call.value, 16, DigitsUpper)
  <2> DEFINE v == call.value
  <2>1. result' = write_uart_hex(v)
    BY <1>5, Zenon DEF Next, Printing, Strings, Functions, Checks, Return
  <2>2. v \in 0 .. 2^IntBits - 1
    BY <1>5 DEF PrintCall
  <2> DEFINE D == DigitsUpper
  <2>3. D \in {DigitsLower, DigitsUpper}
    OBVIOUS
  <2> HIDE DEF v, D
  <2>4. /\ v # 0 => Hexadecimal(v, D) = Numeral(v, 16, D)
        /\ v = 0 => Numeral(v, 16, D) = <<"0">>
    BY <2>2, <2>3, Hexadecimals
  <2>5. write_uart_hex(v) = Numeral(v, 16, D)
    BY <2>4, Zenon DEF write_uart_hex, D
  <2> QED
    BY <2>1, <2>5, Zenon DEF v, D
<1> QED
  BY <1>1, <1>2, <1>3, <1>4, <1>5, Zenon DEF PrintfAgrees

(***************************************************************************)
(* printf writes the fields its format asks for, for every int of up to 32 *)
(* bits, every width and every text: it prints the digits it gets without  *)
(* dividing, the sign before the zeros and behind the blanks, and counts   *)
(* what it writes.  puts adds a line feed, and the numbers the kernel      *)
(* prints by itself are the same.                                          *)
(***************************************************************************)
THEOREM PrintfRight == Spec => []PrintfAgrees
<1>1. Init => PrintCall /\ PrintfAgrees
  BY CallsOfPrinting DEF Init, PrintfAgrees
<1>2. PrintCall /\ PrintfAgrees /\ [Next]_vars => (PrintCall /\ PrintfAgrees)'
  <2> SUFFICES ASSUME PrintCall, PrintfAgrees, [Next]_vars
               PROVE  (PrintCall /\ PrintfAgrees)'
    OBVIOUS
  <2>1. CASE Next
    <3>1. call' = call
      BY <2>1 DEF Next, Printing, Strings, Functions, Checks, Return
    <3>2. PrintCall'
      BY <3>1, Zenon DEF PrintCall
    <3> QED
      BY <2>1, <3>2, PrintReturns
  <2>2. CASE UNCHANGED vars
    <3>1. call' = call /\ result' = result /\ returned' = returned
      BY <2>2 DEF vars
    <3> QED
      BY <3>1, Zenon DEF PrintCall, PrintfAgrees
  <2> QED
    BY <2>1, <2>2
<1> QED
  BY <1>1, <1>2, PTL DEF Spec
=============================================================================
