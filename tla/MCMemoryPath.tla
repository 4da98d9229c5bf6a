---------------------------- MODULE MCMemoryPath ----------------------------
(***************************************************************************)
(* A small memory path: a data cache of two ways and one set of two-word   *)
(* lines, used by three lines, an instruction cache of one line, used by   *)
(* two, and one peripheral register.                                       *)
(***************************************************************************)
EXTENDS MemoryPath

MCSets == {0}
Lanes == {0, 1}

At(t, w) == [tag |-> t, set |-> 0, word |-> w]
Peripheral == At("p", 0)
MCUncached == {Peripheral}

Word(value) == [l \in Lanes |-> value]
MCInitial ==
  [a \in {At(t, w) : t \in {"a", "b", "c", "x", "y"}, w \in {0, 1}}
         \union MCUncached |-> Word(<<a.tag, a.word>>)]

Load(a) == [addr |-> a, we |-> FALSE, be |-> Lanes, data |-> None]
StoreTo(a, be) == [addr |-> a, we |-> TRUE, be |-> be, data |-> Word(<<"new", 0>>)]

MCAccesses ==
  {Load(At("a", 0)), Load(At("b", 1)), Load(At("c", 1)), Load(Peripheral),
   StoreTo(At("a", 0), {0}), StoreTo(Peripheral, Lanes)}
MCFetches == {Load(At("x", 0)), Load(At("y", 1))}
=============================================================================
