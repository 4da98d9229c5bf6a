---------------------------- MODULE MCPseParity -----------------------------
(***************************************************************************)
(* Parity on the entry of this core with one flip, on small entries whose  *)
(* last row is not full with three, and the layout alone on many widths.   *)
(***************************************************************************)
EXTENDS PseParity

SmallWidths == {27, 32}
ManyWidths == 1 .. 150 \cup {640}

ManyFlips == [w \in ManyWidths |-> CASE w = 640 -> 1
                                     [] w \in SmallWidths -> 3
                                     [] OTHER -> 0]
OneFlip == [w \in {640} |-> 1]
==============================================================================
