----------------------------- MODULE TrapResume ------------------------------
(***************************************************************************)
(* Where the core resumes after a trap.  trap_handler_asm saves mepc + 4   *)
(* before it looks at the cause of the trap, and the way out writes that   *)
(* back to mepc.  For an ecall mepc is the ecall, four bytes long; for an  *)
(* interrupt it is the first instruction that was not executed.            *)
(*                                                                         *)
(* The code that runs is the idle task and rtos_delay as the demo is built *)
(* (coe-files/fpga_demo_2_tasks.lst), by the offset of each instruction,   *)
(* with compressed instructions of two bytes.                              *)
(***************************************************************************)
EXTENDS Integers

VARIABLES
  pc,
  at,      (* "code", or in trap_handler_asm: "entry", "handler", "return" *)
  mepc,
  saved    (* 112(sp): the program counter in the saved context *)
vars == <<pc, at, mepc, saved>>

\* Offsets from idle_task; sizes of the instructions, and the jumps.
Long == {4, 12, 24, 32}
Starts == {0, 2, 8, 10, 16, 18, 20, 22, 28, 30, 36} \cup Long
ecall == 32
Size(a) == IF a \in Long THEN 4 ELSE 2
Targets == [a \in Starts |->
  IF a = 12 THEN {8, 16} ELSE IF a = 24 THEN {16, 28}
  ELSE IF a = 28 THEN {8} ELSE IF a = 36 THEN {} ELSE {a + Size(a)}]

Init == pc = 0 /\ at = "code" /\ mepc = 0 /\ saved = 0

Execute ==
  /\ at = "code" /\ pc \in Starts /\ pc # ecall
  /\ pc' \in Targets[pc]
  /\ UNCHANGED <<at, mepc, saved>>

TakeTrap ==
  /\ mepc' = pc
  /\ at' = "entry"
  /\ UNCHANGED <<pc, saved>>

Interrupt == at = "code" /\ TakeTrap

Ecall == at = "code" /\ pc = ecall /\ TakeTrap

SavePc ==
  /\ at = "entry"
  /\ saved' = mepc + 4
  /\ at' = "handler"
  /\ UNCHANGED <<pc, mepc>>

RestorePc ==
  /\ at = "handler"
  /\ mepc' = saved
  /\ at' = "return"
  /\ UNCHANGED <<pc, saved>>

MachineReturn ==
  /\ at = "return"
  /\ pc' = mepc
  /\ at' = "code"
  /\ UNCHANGED <<mepc, saved>>

Next ==
  Execute \/ Interrupt \/ Ecall \/ SavePc \/ RestorePc \/ MachineReturn

Spec == Init /\ [][Next]_vars

\* "Increment PC to next instruction": what runs after a trap is the start of
\* an instruction.
ResumesAtInstruction == at = "code" => pc \in Starts
==============================================================================
