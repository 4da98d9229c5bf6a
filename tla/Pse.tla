--------------------------------- MODULE Pse ---------------------------------
(***************************************************************************)
(* The PMP snapshot engine clock by clock, as built into the CSR file of   *)
(* the core (csr_pmp_snapshot_storage.sv, cv32e40s_cs_registers.sv), and   *)
(* the firmware that drives it: tasks are configured and saved, then every *)
(* way back to a task applies its slot (pmp.c, context_switching.S).       *)
(*                                                                         *)
(* One step is one clock edge, with one instruction in the last pipeline   *)
(* stage.  A CSR instruction leaves its address and operand in that        *)
(* stage's registers, where they stay until the next CSR instruction: the  *)
(* engine decides what to write into the PMP CSRs one clock after the      *)
(* apply, by looking at that address again.                                *)
(*                                                                         *)
(* Abstracted: register contents are a set of bits, with a note of whose   *)
(* settings they were when they were last written, and the parity of an    *)
(* entry is the set of checks with an odd number of bits set.  Which check *)
(* covers which bit is a constant: on the entry of this core some bits are *)
(* in two checks, some in one and some in none at all (PseParity).  So is  *)
(* which lock bit guards which: an apply leaves a locked configuration     *)
(* byte as it is, but writes every address register.  A csrw would leave   *)
(* locked addresses, too, but the firmware writes only before any fault.   *)
(***************************************************************************)
EXTENDS Naturals, FiniteSetsExt

CONSTANTS
  Task,        (* tasks under PMP control, and the slot of each *)
  Idle,        (* the idle task: privileged, its slot is never used *)
  Nobody,      (* the owner of register contents that no task asked for *)
  Bits,        (* the bits the PMP CSRs hold *)
  Guards,      (* per bit, the lock bits that keep it from being written *)
  SettingsOf,  (* the bits set in a task's settings, or after reset *)
  Checks,      (* the parity bits of an entry *)
  Covers,      (* per bit, the parity bits it is counted in *)
  MaxFlips     (* faults in a behaviour *)

ASSUME PseAssumption ==
  /\ Idle \notin Task /\ Nobody \notin Task \cup {Idle}
  /\ IsFiniteSet(Bits) /\ IsFiniteSet(Checks)
  /\ Guards \in [Bits -> SUBSET Bits] /\ Covers \in [Bits -> SUBSET Checks]
  /\ SettingsOf \in [Task \cup {Nobody} -> SUBSET Bits]
  /\ MaxFlips \in Nat

\* Neither the reset values nor the settings of a task lock anything.
ASSUME NothingLocked ==
  \A t \in Task \cup {Nobody}, b \in Bits : Guards[b] \cap SettingsOf[t] = {}

VARIABLES
  pc, task,          (* firmware: next instruction, current_task_index *)
  configured,        (* tasks whose snapshot has been saved *)
  skipped,           (* a fault has skipped one of the two saves *)
  csr_addr, csr_wdata,               (* of the last CSR instruction *)
  pse_slot_select_reg, snapshot_q,   (* slot of the last apply, slot read *)
  write_all, apply_q,                (* the write pulse, apply a clock ago *)
  mem, live,         (* the slots with their parity, the PMP CSRs *)
  flips              (* faults so far *)

firmware == <<pc, task, configured, skipped>>
stage == <<csr_addr, csr_wdata>>
engine == <<pse_slot_select_reg, snapshot_q, write_all, apply_q>>
vars == <<firmware, stage, engine, mem, live, flips>>

Slots == Task \cup {Idle}

\* The apply of the contract is under way while the write pulse is on.
Contract == INSTANCE Snapshots WITH
  slot <- [t \in Task |-> mem[t].csrs],
  latched <- IF write_all THEN {snapshot_q.csrs} ELSE {}
Clean(t) == Contract!Clean(t)
Toggle(b, S) == Contract!Toggle(b, S)
Flipped(v, b) == Contract!Flipped(v, b)
Written(v) == Contract!Written(v)

Parity(v) ==
  {c \in Checks : Cardinality({b \in v.bits : c \in Covers[b]}) % 2 = 1}
Entry(v) == [csrs |-> v, parity |-> Parity(v)]
Entries == [csrs : Contract!Settings, parity : SUBSET Checks]

Init ==
  /\ pc = "next_task" /\ task = Idle /\ configured = {} /\ skipped = FALSE
  /\ csr_addr = "other" /\ csr_wdata = Idle
  /\ pse_slot_select_reg = Idle
  /\ snapshot_q = Entry(Clean(Nobody))
  /\ write_all = FALSE /\ apply_q = FALSE
  /\ mem = [t \in Slots |-> Entry(Clean(Nobody))]
  /\ live = Clean(Nobody)
  /\ flips = 0

-----------------------------------------------------------------------------
(* A clock edge.  we: a CSR is written; addr, data: the stage registers.   *)

\* What the PMP CSRs take: the slot read while APPLY is still the last CSR
\* address, and whatever operand is in the stage otherwise.
PmpWriteData(addr, data) ==
  IF addr = "apply" THEN snapshot_q.csrs
  ELSE IF addr = "pmp" THEN Clean(data)
  ELSE Clean(Nobody)

SlotSelect_Wrong(we, addr, data) == pse_slot_select_reg
SlotSelect(we, addr, data) ==
  IF addr = "save" \/ (we /\ addr = "apply") THEN data ELSE pse_slot_select_reg

StoreSlot(we, addr, sel) ==
  IF we /\ addr = "save" THEN [mem EXCEPT ![sel] = Entry(live)] ELSE mem

WritePulse_Wrong(apply) == apply_q                   \* a clock too late
WritePulse(apply) == apply /\ ~apply_q

Clock(we, addr, data) ==
  LET sel == SlotSelect(we, addr, data)
      apply == we /\ addr = "apply"
  IN /\ csr_addr' = addr /\ csr_wdata' = data
     /\ pse_slot_select_reg' = IF apply THEN data ELSE pse_slot_select_reg
     /\ snapshot_q' = mem[sel]
     /\ mem' = StoreSlot(we, addr, sel)
     /\ apply_q' = apply
     /\ write_all' = WritePulse(apply)
     /\ live' = IF write_all \/ (we /\ addr = "pmp")
                  THEN Written(PmpWriteData(addr, data)) ELSE live
     /\ UNCHANGED flips

\* A clock without a CSR instruction: another instruction, or a stall.
NoCsr == Clock(FALSE, csr_addr, csr_wdata)
Csr(we, addr) == Clock(we, addr, task)

GoTo(l) == pc' = l /\ UNCHANGED <<task, configured, skipped>>

-----------------------------------------------------------------------------
(* fi_resilient_task_pmp_init: write and read back, then save twice.       *)

NextTask ==
  /\ pc = "next_task"
  /\ \E t \in Task \ configured : task' = t
  /\ pc' = "write" /\ skipped' = FALSE
  /\ NoCsr
  /\ UNCHANGED configured

WritePmp == pc = "write" /\ Csr(TRUE, "pmp") /\ GoTo("read_back")

ReadBack == pc = "read_back" /\ Csr(FALSE, "pmp") /\ GoTo("save")

SaveSnapshot == pc = "save" /\ Csr(TRUE, "save") /\ GoTo("save_again")

SaveAgain ==
  /\ pc = "save_again"
  /\ Csr(TRUE, "save")
  /\ configured' = configured \cup {task}
  /\ pc' = "next_task"
  /\ UNCHANGED <<task, skipped>>

\* A fault skips one of the two saves, for which the other makes up.
SkipSave ==
  /\ pc \in {"save", "save_again"} /\ ~skipped
  /\ skipped' = TRUE
  /\ NoCsr
  /\ \/ pc = "save" /\ pc' = "save_again" /\ UNCHANGED configured
     \/ pc = "save_again" /\ pc' = "next_task" /\ configured' = configured \cup {task}
  /\ UNCHANGED task

-----------------------------------------------------------------------------
(* trap_return: apply the slot of current_task_index, unless that task is  *)
(* privileged, load the registers, write mepc and mstatus, mret.           *)

SwitchTo ==
  /\ \/ pc = "next_task" /\ configured = Task /\ task' \in Task
     \/ pc = "handler" /\ task' \in Slots
  /\ pc' = IF task' = Idle THEN "mepc" ELSE "apply"
  /\ NoCsr
  /\ UNCHANGED <<configured, skipped>>

ApplySnapshot == pc = "apply" /\ Csr(TRUE, "apply") /\ GoTo("restore")

\* The ret of pse_switch_pmp_snapshot and the thirty loads that follow it.
RestoreRegisters_Wrong == pc = "restore" /\ Csr(TRUE, "other") /\ GoTo("mepc")
RestoreRegisters == pc = "restore" /\ NoCsr /\ GoTo("mepc")

RestoreCsrs == pc = "mepc" /\ Csr(TRUE, "other") /\ GoTo("mret")

MachineReturn == pc = "mret" /\ NoCsr /\ GoTo("task")

\* Interrupt, ecall or exception, then csrr mcause and mepc in the handler.
Trap == pc = "task" /\ NoCsr /\ GoTo("cause")

ReadCause == pc = "cause" /\ Csr(FALSE, "other") /\ GoTo("handler")

\* Any instruction that is no CSR instruction, or a stall.
Other == NoCsr /\ UNCHANGED firmware

-----------------------------------------------------------------------------
(* Faults, once the tasks have been configured: a flip-flop of the PMP     *)
(* CSRs, or a bit of the slot memory, between two clock edges.             *)

Fault ==
  /\ flips < MaxFlips
  /\ configured = Task
  /\ flips' = flips + 1
  /\ UNCHANGED <<firmware, stage, engine>>

FlipLive ==
  /\ Fault
  /\ \E b \in Bits : live' = Flipped(live, b)
  /\ UNCHANGED mem

FlipSlot ==
  /\ Fault
  /\ \E t \in Task, b \in Bits :
       mem' = [mem EXCEPT ![t].csrs = Flipped(mem[t].csrs, b)]
  /\ UNCHANGED live

FlipParity ==
  /\ Fault
  /\ \E t \in Task, c \in Checks :
       mem' = [mem EXCEPT ![t].parity = Toggle(c, mem[t].parity)]
  /\ UNCHANGED live

Next ==
  \/ NextTask \/ WritePmp \/ ReadBack \/ SaveSnapshot \/ SaveAgain \/ SkipSave
  \/ SwitchTo \/ ApplySnapshot \/ RestoreRegisters \/ RestoreCsrs
  \/ MachineReturn \/ Trap \/ ReadCause \/ Other
  \/ FlipLive \/ FlipSlot \/ FlipParity

Spec == Init /\ [][Next]_vars

-----------------------------------------------------------------------------
(* The alert: pse_rd_error, let through to the core's alert output only    *)
(* when the privilege of the next clock is user mode: from the mret on.    *)

ParityInvalid_Wrong == FALSE
ParityInvalid == snapshot_q.parity # Parity(live)
ComparisonFault == snapshot_q.csrs.bits # live.bits
RdError == ParityInvalid \/ ComparisonFault
Alert == pc \in {"mret", "task"} /\ task # Idle /\ RdError

-----------------------------------------------------------------------------
TypeOK ==
  /\ pc \in {"next_task", "write", "read_back", "save", "save_again", "apply",
             "restore", "mepc", "mret", "task", "cause", "handler"}
  /\ task \in Slots /\ configured \subseteq Task /\ skipped \in BOOLEAN
  /\ csr_addr \in {"other", "pmp", "save", "apply"} /\ csr_wdata \in Slots
  /\ pse_slot_select_reg \in Slots /\ snapshot_q \in Entries
  /\ write_all \in BOOLEAN /\ apply_q \in BOOLEAN
  /\ mem \in [Slots -> Entries] /\ live \in Contract!Settings
  /\ flips \in 0 .. MaxFlips

\* How many flips it takes to make v of the settings of task t: one for each
\* bit that is wrong, and one for each parity bit that would tell of it.
Distance(v, t) ==
  LET Differ(S, T) == Cardinality(SymDiff(S, T))
  IN  Differ(v.bits, SettingsOf[t]) + Differ(Parity(v), Parity(Clean(t)))

\* A task executes under its own settings or the alert is raised, unless the
\* faults so far suffice to make an entry of its settings that checks: three
\* for a bit in two checks, two for a bit in one, one for a bit in none.  The
\* write that comes a clock after the apply is over when the task starts.
OwnSettingsOrAlert ==
  pc = "task" /\ task # Idle => Alert \/ Distance(live, task) <= flips

\* Without a fault the engine never alerts, whatever was saved, applied or
\* read in between, and however soon after the apply the task runs.
NoFalseAlert == flips = 0 => ~Alert

\* No instruction sequence of the firmware lets the write pulse pick up the
\* operand of another CSR instruction.
NoStrayWrite == configured # {} => live.of # Nobody

\* A slot holds what was saved for its task: the save that is repeated, and
\* the read address that still follows the last save, move no snapshot.
SlotsAreOwn == \A t \in configured : mem[t].csrs.of = t

\* The firmware and the pulse: which states of the engine an instruction of
\* the firmware meets.
PulseInv ==
  /\ write_all \/ apply_q => pc = "restore" /\ csr_addr = "apply"
  /\ write_all => snapshot_q.csrs.of = task
  /\ pc \in {"apply", "restore"} => task # Idle
  /\ pc \in {"restore", "mepc", "mret", "task"} /\ task # Idle =>
       /\ pse_slot_select_reg = task
       /\ csr_addr \in {"apply", "other"}
       /\ snapshot_q.csrs.of = task
  /\ \/ pc = "restore" /\ ~write_all
     \/ pc \in {"mepc", "mret", "task"} /\ task # Idle
     => live.of = task

\* While tasks are configured nothing is flipped, and at the second save the
\* first has been made unless it was the one skipped.
SetupInv ==
  /\ pc \in {"write", "read_back", "save", "save_again"} =>
       task \in Task \ configured
  /\ pc \notin {"next_task", "write", "read_back", "save", "save_again"} =>
       configured = Task
  /\ pc \in {"read_back", "save", "save_again"} => live = Clean(task)
  /\ pc \in {"write", "read_back", "save"} => ~skipped
  /\ pc = "save_again" /\ ~skipped => mem[task].csrs.of = task
  /\ configured # Task => flips = 0

\* Nothing differs from what was saved before the first flip.
FaultFreeInv ==
  flips = 0 =>
    /\ live = Clean(live.of) /\ snapshot_q = Entry(Clean(snapshot_q.csrs.of))
    /\ \A t \in Slots : mem[t] = Entry(Clean(mem[t].csrs.of))

\* What an entry differs by from what was saved, in its bits and its parity.
Damage(e) ==
  Cardinality(SymDiff(e.csrs.bits, SettingsOf[e.csrs.of]))
  + Cardinality(SymDiff(e.parity, Parity(Clean(e.csrs.of))))

\* It took a flip for each of them.
DamageInv ==
  /\ \A t \in Slots : Damage(mem[t]) <= flips
  /\ Damage(snapshot_q) <= flips

\* What every step preserves.
IndInv ==
  /\ TypeOK /\ PulseInv /\ SetupInv /\ FaultFreeInv /\ DamageInv
  /\ NoStrayWrite /\ SlotsAreOwn

-----------------------------------------------------------------------------
\* The engine with this firmware is the clockless contract.
ImplementsContract == Contract!Spec
==============================================================================
