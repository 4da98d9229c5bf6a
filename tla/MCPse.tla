-------------------------------- MODULE MCPse --------------------------------
(***************************************************************************)
(* Two tasks, and one bit of each kind there is in the entry of this core: *)
(* a bit in both parities (any in columns 0 to 3), a bit in its column's   *)
(* only (the R bit of region 3, bit 96), a bit in none (the R bit of       *)
(* region 12, bit 24), and the lock bit of region 3 (bit 103), in none.    *)
(***************************************************************************)
EXTENDS Pse

CONSTANTS t1, t2

EntryBits == {"twice", "once", "hidden", "lock"}
EntryChecks == {"row", "column"}
EntryCovers ==
  [b \in EntryBits |-> CASE b = "twice" -> {"row", "column"}
                         [] b = "once" -> {"column"}
                         [] OTHER -> {}]
EntryGuards == [b \in EntryBits |-> IF b \in {"once", "lock"} THEN {"lock"} ELSE {}]
EntrySettings ==
  [t \in {t1, t2, Nobody} |-> CASE t = t1 -> {"twice"}
                                [] t = t2 -> {"once", "hidden"}
                                [] OTHER -> {}]
==============================================================================
