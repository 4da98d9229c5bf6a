----------------------------- MODULE PmpRegions -----------------------------
(***************************************************************************)
(* What a task may touch: the regions main.c sets up for it, in the memory *)
(* the linker script lays out, and the check of the core (cv32e40s_pmp.sv) *)
(* that reads them.  That the registers hold the settings of the task that *)
(* executes is what Rtos and Pse are about.                                *)
(***************************************************************************)
EXTENDS Integers

CONSTANTS
  N_PMP_REGIONS,   (* regions of the core: 16 in the code *)
  AddressBits      (* bits of the address register of a region: 32 there *)

ASSUME RegionsAssumption ==
  /\ N_PMP_REGIONS \in Nat /\ N_PMP_REGIONS >= 6
  /\ AddressBits \in Nat

DemoTasks == {1, 2}
Accesses == {"exec", "write", "read"}

(***************************************************************************)
(* A layout is a record of addresses.  From 0x10000000 on lie the UART and *)
(* the other peripherals, then the instructions of the firmware that have  *)
(* no section of their own: .vectors, .trap_handler and .text, with the    *)
(* trap handler and trap_return of context_switching.S.  Constants and     *)
(* data follow, up to _common_memory_end.  Only behind it lie what is      *)
(* marked privileged and the stack of the kernel, and then instructions    *)
(* and stack of each task.                                                 *)
(***************************************************************************)
\* link.common.ld places the sections in this order.  All of them begin at a
\* whole word, and all but the common memory end at one.
Ordered(l) ==
  /\ l.uart <= l.peripherals_end /\ l.peripherals_end <= l.code_begin
  /\ l.code_begin <= l.code_end /\ l.code_end <= l.common_end
  /\ l.common_end <= l.kernel_begin /\ l.kernel_begin <= l.kernel_end
  /\ l.kernel_end <= l.text_begin[1]
  /\ l.text_begin[1] <= l.text_end[1] /\ l.text_end[1] <= l.text_begin[2]
  /\ l.text_begin[2] <= l.text_end[2] /\ l.text_end[2] <= l.stack_begin[1]
  /\ l.stack_begin[1] <= l.stack_end[1] /\ l.stack_end[1] <= l.stack_begin[2]
  /\ l.stack_begin[2] <= l.stack_end[2]

WholeWords(l) ==
  /\ \A a \in {l.uart, l.peripherals_end, l.code_begin, l.code_end,
               l.kernel_begin, l.kernel_end} : a % 4 = 0
  /\ \A t \in DemoTasks :
       /\ l.text_begin[t] % 4 = 0 /\ l.text_end[t] % 4 = 0
       /\ l.stack_begin[t] % 4 = 0 /\ l.stack_end[t] % 4 = 0

Layouts ==
  {l \in [uart : Nat, peripherals_end : Nat, code_begin : Nat, code_end : Nat,
          common_end : Nat, kernel_begin : Nat, kernel_end : Nat,
          text_begin : [DemoTasks -> Nat], text_end : [DemoTasks -> Nat],
          stack_begin : [DemoTasks -> Nat], stack_end : [DemoTasks -> Nat]] :
     Ordered(l) /\ WholeWords(l)}

-----------------------------------------------------------------------------
(* The settings of a task.                                                 *)

PMP_ADDR(symbol) == symbol \div 4

pmp_addr(l, t) ==
  [r \in 0 .. N_PMP_REGIONS - 1 |->
     CASE r = 0 -> PMP_ADDR(l.uart)
       [] r = 1 -> PMP_ADDR(l.common_end)
       [] r = 2 -> PMP_ADDR(l.stack_begin[t])
       [] r = 3 -> PMP_ADDR(l.stack_end[t])
       [] r = 4 -> PMP_ADDR(l.text_begin[t])
       [] r = 5 -> PMP_ADDR(l.text_end[t])
       [] OTHER -> 0]

\* The flags of a region; the mode is "off" in a byte that is zero.
PMP_CFG_TOR(flags) == [mode |-> "tor", flags |-> flags, lock |-> FALSE]
PMP_CFG_DISABLED == [mode |-> "off", flags |-> {}, lock |-> FALSE]

pmp_cfg(r) == CASE r = 1 -> PMP_CFG_TOR({"read", "write", "exec"})
                [] r = 3 -> PMP_CFG_TOR({"read", "write"})
                [] r = 5 -> PMP_CFG_TOR({"exec"})
                [] OTHER -> PMP_CFG_DISABLED

-----------------------------------------------------------------------------
(* The check.  word is the address of the access without its last two bits. *)

region_start_addr(cfg, addr, r) ==
  IF cfg[r].mode # "tor" THEN addr[r] ELSE IF r = 0 THEN 0 ELSE addr[r - 1]

\* An address that ends in k ones and a zero names an aligned block of
\* 2^(k + 1) words.
Block(a) == CHOOSE n \in {2^k : k \in 1 .. AddressBits + 1} : a % n = n \div 2 - 1

region_match_Wrong(cfg, addr, r, word) ==    \* the top is in the region
  cfg[r].mode = "tor" /\ region_start_addr(cfg, addr, r) <= word /\ word <= addr[r]
region_match(cfg, addr, r, word) ==
  CASE cfg[r].mode = "tor" ->
         region_start_addr(cfg, addr, r) <= word /\ word < addr[r]
    [] cfg[r].mode = "na4" -> word = addr[r]
    [] cfg[r].mode = "napot" ->
         word \div Block(addr[r]) = addr[r] \div Block(addr[r])
    [] OTHER -> FALSE

region_basic_perm_check(c, type) == type \in c.flags

\* The rules for mseccfg.mml: where a region may be written but not read, or
\* is locked and allows everything, the flags have other meanings.
region_mml_perm_check(c, priv, type) ==
  IF "write" \in c.flags /\ "read" \notin c.flags
  THEN CASE ~c.lock /\ "exec" \notin c.flags ->
              type = "read" \/ (type = "write" /\ priv = "M")
         [] ~c.lock /\ "exec" \in c.flags -> type \in {"read", "write"}
         [] c.lock /\ "exec" \notin c.flags -> type = "exec"
         [] OTHER -> type = "exec" \/ (type = "read" /\ priv = "M")
  ELSE IF c.flags = Accesses /\ c.lock THEN type = "read"
  ELSE (c.lock <=> priv = "M") /\ region_basic_perm_check(c, type)

access_fault_of(c, mml, priv, type) ==
  IF mml THEN ~region_mml_perm_check(c, priv, type)
  ELSE (priv = "M" => c.lock) /\ ~region_basic_perm_check(c, type)

access_fault_of_none(mseccfg, priv, type) ==
  \/ priv # "M"
  \/ mseccfg.mmwp
  \/ mseccfg.mml /\ type = "exec"

\* The lowest region that matches decides.
pmp_req_err(cfg, addr, mseccfg, priv, word, type, debug) ==
  LET matching == {r \in DOMAIN cfg : region_match(cfg, addr, r, word)}
  IN /\ ~debug
     /\ \/ matching = {} /\ access_fault_of_none(mseccfg, priv, type)
        \/ \E r \in matching :
             /\ \A q \in matching : r <= q
             /\ access_fault_of(cfg[r], mseccfg.mml, priv, type)

\* The check of an access by task t, or by the kernel while its settings hold.
Denied(l, t, priv, a, type) ==
  pmp_req_err([r \in 0 .. N_PMP_REGIONS - 1 |-> pmp_cfg(r)], pmp_addr(l, t),
              [mml |-> FALSE, mmwp |-> FALSE], priv, a \div 4, type, FALSE)

-----------------------------------------------------------------------------
\* What the settings give a task: everything from the peripherals on to the
\* last whole word of the common memory, its own stack and its own
\* instructions.
Own(l, t, a, type) ==
  \/ l.uart <= a /\ a < 4 * (l.common_end \div 4)
  \/ l.stack_begin[t] <= a /\ a < l.stack_end[t] /\ type \in {"read", "write"}
  \/ l.text_begin[t] <= a /\ a < l.text_end[t] /\ type = "exec"

\* The peripherals and the firmware's own instructions.
Shared(l, a) == \/ l.uart <= a /\ a < l.peripherals_end
                \/ l.code_begin <= a /\ a < l.code_end

\* What is marked privileged, the stack of the kernel, and all of another task.
Foreign(l, t, a) ==
  \/ l.kernel_begin <= a /\ a < l.kernel_end
  \/ \E o \in DemoTasks \ {t} : \/ l.text_begin[o] <= a /\ a < l.text_end[o]
                                \/ l.stack_begin[o] <= a /\ a < l.stack_end[o]

(***************************************************************************)
(* A task reaches the first region, its own stack for data and its own     *)
(* text for instructions, whatever the sizes of the sections: so nothing   *)
(* of another task and nothing that is marked privileged.  But the first   *)
(* region is not only data the tasks share: the peripherals and the        *)
(* firmware's own instructions, the trap handler among them, lie in it,    *)
(* and for every kind of access.  The kernel reaches everything under the  *)
(* settings of every task.                                                 *)
(***************************************************************************)
Isolated(l, t, priv, a, type) ==
  IF priv = "M" THEN ~Denied(l, t, priv, a, type)
  ELSE /\ Denied(l, t, priv, a, type) <=> ~Own(l, t, a, type)
       /\ Foreign(l, t, a) => Denied(l, t, priv, a, type)
       /\ Shared(l, a) => ~Denied(l, t, priv, a, type)
=============================================================================
