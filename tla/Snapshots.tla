------------------------------ MODULE Snapshots ------------------------------
(***************************************************************************)
(* What software may rely on of the PMP snapshot engine (PSE), without its *)
(* clock: the PMP registers, and one saved copy of all of them per slot.   *)
(* Saving copies the registers to a slot in one step.  Applying takes the  *)
(* copy in one step and writes the registers from it in another; nothing   *)
(* but a fault comes in between.  A fault may flip a bit of either.  A bit *)
(* that a lock bit guards keeps its value while the lock bit is set.       *)
(***************************************************************************)
CONSTANTS
  Task,        (* whose settings there are, and the slot of each *)
  Nobody,      (* the owner of register contents that no task asked for *)
  Bits,        (* the bits of the PMP registers *)
  Guards,      (* per bit, the lock bits that keep it from being written *)
  SettingsOf   (* the bits that are set in a task's settings, or after reset *)

\* Register contents: their bits, and whose settings they were when written.
Settings == [of : Task \cup {Nobody}, bits : SUBSET Bits]
Clean(t) == [of |-> t, bits |-> SettingsOf[t]]

VARIABLES live, slot, latched    (* latched: the copy of an apply under way *)
vars == <<live, slot, latched>>

Written(v) ==
  [of |-> v.of,
   bits |-> {b \in Bits : IF Guards[b] \cap live.bits # {}
                            THEN b \in live.bits ELSE b \in v.bits}]

Init ==
  /\ live = Clean(Nobody)
  /\ slot = [t \in Task |-> Clean(Nobody)]
  /\ latched = {}

Write(v) ==
  /\ latched = {}
  /\ live' = Written(v)
  /\ UNCHANGED <<slot, latched>>

Save(t) ==
  /\ latched = {}
  /\ slot' = [slot EXCEPT ![t] = live]
  /\ UNCHANGED <<live, latched>>

Apply(t) ==
  /\ latched = {}
  /\ latched' = {slot[t]}
  /\ UNCHANGED <<live, slot>>

Complete ==
  /\ \E v \in latched : live' = Written(v)
  /\ latched' = {}
  /\ UNCHANGED slot

Toggle(b, S) == IF b \in S THEN S \ {b} ELSE S \cup {b}

Flipped(v, b) == [of |-> v.of, bits |-> Toggle(b, v.bits)]

FlipLive(b) ==
  /\ live' = Flipped(live, b)
  /\ UNCHANGED <<slot, latched>>

FlipSlot(t, b) ==
  /\ slot' = [slot EXCEPT ![t] = Flipped(slot[t], b)]
  /\ UNCHANGED <<live, latched>>

Next ==
  \/ \E t \in Task : Write(Clean(t)) \/ Save(t) \/ Apply(t)
  \/ Complete
  \/ \E b \in Bits : FlipLive(b) \/ \E t \in Task : FlipSlot(t, b)

Spec == Init /\ [][Next]_vars
==============================================================================
