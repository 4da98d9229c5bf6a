---------------------------- MODULE MCLibraries ----------------------------
(***************************************************************************)
(* Instance of Libraries: an int of 16 bits, a word of two bytes of two    *)
(* bits each, mantissas of eight bits, and the arguments at and around the *)
(* places where a case of the code begins.                                 *)
(***************************************************************************)
EXTENDS Libraries

MCNaturals16 == 0 .. 2^16 - 1
MCSomeInts == {-32768, -32767, -1000, -255, -10, -1, 0, 1, 9, 10, 99, 100,
               4095, 4096, 32767}
MCWidths == {0, 1, 2, 5, 6, 11}
MCTexts == {<<>>, Null, <<"a">>, <<"%", "d">>, <<"a", "0", "b", "1", "c">>}
MCMemories == [0 .. 3 -> {0, 1, 3}]

MCFloats == {x \in [sign : {0, 1}, exp : {0, 1, 2, 126, 127, 128, 253, 254, 255},
                    mnt : {0, 1, 85, 106, 107, 255}] : x.exp = 0 => x.mnt = 0}
MCEighths == {n \in -840 .. 1040 : n \in -820 .. -780 \/ n \in -20 .. 20
                                   \/ n \in 1000 .. 1040 \/ n % 29 = 0}
MCCoordinates == -7 .. 7
MCTriangles == {<<x, y>> \in (-5 .. 5) \X (0 .. 5) : x * x + y * y = 25}
MCAngles == -90 .. 90
MCGrid == 0 .. 16

Layout(code, common, kernel, sizes) ==
  LET b1 == kernel
      b2 == b1 + sizes[1]
      s1 == b2 + sizes[2]
      s2 == s1 + sizes[3]
  IN [uart |-> 4, peripherals_end |-> 8,
      code_begin |-> code[1], code_end |-> code[2], common_end |-> common,
      kernel_begin |-> 16, kernel_end |-> kernel,
      text_begin |-> <<b1, b2>>, text_end |-> <<b2, s1>>,
      stack_begin |-> <<s1, s2>>, stack_end |-> <<s2, s2 + sizes[4]>>]

\* With a common memory of whole words, with one that ends within a word, with
\* no data behind the code, and with sections that are empty.
MCLayouts == {l \in {Layout(i, c, k, z) : i \in {<<8, 12>>, <<12, 12>>, <<8, 8>>},
                       c \in {12, 14, 15}, k \in {16, 20},
                       z \in {<<8, 4, 8, 8>>, <<0, 8, 4, 0>>, <<4, 0, 0, 12>>}} :
                Ordered(l) /\ WholeWords(l)}
=============================================================================
