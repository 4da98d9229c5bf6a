-------------------------------- MODULE Rtos --------------------------------
(***************************************************************************)
(* The bare-metal RTOS: bare_metal_rtos.c, context_switching.S and the     *)
(* part of pmp.c that installs a task's PMP settings, with the PMP         *)
(* snapshot engine (PSE) as the kernel sees it: slots that are saved once, *)
(* when a task is created, and applied when the task is given the core.    *)
(*                                                                         *)
(* The kernel runs with interrupts masked, from the trap that enters it to *)
(* the mret that leaves it.  A trap is three steps, in the order of        *)
(* trap_handler_asm: save the context, run the C handler, return.          *)
(*                                                                         *)
(* Abstracted: a stack is named by the task it belongs to, a register      *)
(* context by the program whose registers it holds, and a task's PMP       *)
(* settings by the task they belong to.                                    *)
(*                                                                         *)
(* Definitions whose name ends in _Wrong are not used: each is the same    *)
(* step with a plausible mistake, which the properties below must notice.  *)
(***************************************************************************)
EXTENDS Integers

CONSTANTS
  MaxTasks,     (* MAX_TASKS, the length of task_list *)
  NSlots,       (* snapshot slots of the PSE *)
  PSE,          (* PSE_ACTIVATED *)
  Privileged,   (* indices of tasks created without PMP settings *)
  WordMod,      (* 2^32: unsigned int wraps here *)
  TickRate,     (* TICK_RATE_HZ *)
  MsPerSecond,  (* 1000 *)
  Delays,       (* delays in ms the tasks ask for *)
  Faults,       (* whether faults may corrupt the PMP CSRs and the slots *)
  Attacked      (* the tasks whose slots they may corrupt *)

ASSUME RtosAssumption ==
  /\ MaxTasks \in Nat \ {0, 1}
  /\ NSlots \in Nat /\ MaxTasks <= NSlots
  /\ PSE \in BOOLEAN /\ Faults \in BOOLEAN
  /\ 0 \in Privileged /\ Privileged \subseteq 0 .. MaxTasks - 1
  /\ PSE => Privileged = {0}
  /\ WordMod \in Nat \ {0, 1} /\ TickRate \in Nat /\ MsPerSecond \in Nat \ {0}
  /\ Delays \subseteq Nat

TaskIndex == 0 .. MaxTasks - 1
SlotIndex == 0 .. NSlots - 1
Word == 0 .. WordMod - 1

NoTask == -1        \* current_task_index before the first task
Kernel == -1        \* the stack main() runs on, and the kernel's registers
NoStack == -2       \* stack_ptr of a control block not filled in yet
NoSettings == -1    \* PMP CSRs or a slot that were never written

\* What faults make of the PMP CSRs or a slot, without and with a lock bit set:
\* contents that do not agree with the parity in the slot ...
Corrupted == -2
Locked == -3
Noticed == {Corrupted, Locked}
\* ... and contents that do: the bits are in no parity, or as many parity bits
\* have been flipped along with them.  In the CSRs and the slot they are taken
\* for the same bits; if they are not, the comparison tells.
HiddenFlip == -4
HiddenLock == -5
Hidden == {HiddenFlip, HiddenLock}
Bad == Noticed \cup Hidden

Dead == -2          \* a frame that was restored: the task's stack grows over it

VARIABLES
  phase,              (* where the core is; see Phases *)
  tick_count, task_count, current_task_index,
  state, is_ready,    (* fields of task_list[t] ... *)
  wake_tick,          (* ... the field tick_count ... *)
  stack_ptr,          (* ... and the stack the saved context is on *)
  frame,              (* the context saved on top of each stack *)
  live, mode, sp,     (* registers, privilege and stack in use *)
  slot, slot_select,  (* PSE: saved snapshots, slot of the last apply *)
  pmp                 (* whose settings the PMP CSRs hold *)

tcb == <<state, is_ready, wake_tick>>
cpu == <<live, mode, sp>>
engine == <<slot, slot_select, pmp>>
vars == <<phase, tick_count, task_count, current_task_index, tcb, stack_ptr,
          frame, cpu, engine>>

Phases == {"create",   \* main() adds tasks
           "user",     \* a task, or the idle task, executes
           "tick", "delay", "return",  \* in trap_handler_asm, before ...
           "halted"}   \* an endless loop with interrupts masked
States == {"idle", "ready", "running", "waiting"}
Created == 0 .. task_count - 1

Init ==
  /\ phase = "create"
  /\ tick_count = 0 /\ task_count = 0 /\ current_task_index = NoTask
  /\ state = [t \in TaskIndex |-> "idle"]
  /\ is_ready = [t \in TaskIndex |-> FALSE]
  /\ wake_tick = [t \in TaskIndex |-> 0]
  /\ stack_ptr = [t \in TaskIndex |-> NoStack]
  /\ frame = [t \in TaskIndex |-> [ctx |-> Kernel, mode |-> "M"]]
  /\ live = Kernel /\ mode = "M" /\ sp = Kernel
  /\ slot = [i \in SlotIndex |-> NoSettings]
  /\ slot_select = 0
  /\ pmp = NoSettings

-----------------------------------------------------------------------------
(* Creating tasks.  A call that finds task_list full, or is given invalid  *)
(* parameters, returns before it changes anything.                         *)

ListFull == task_count >= MaxTasks

\* The privilege in the mstatus that task_context_init_asm writes.
PrivilegeOf(t) == IF t \in Privileged THEN "M" ELSE "U"

\* What task_context_init_asm leaves on the new stack.
InitialContext(t) == [ctx |-> t, mode |-> PrivilegeOf(t)]

FillControlBlock(t) ==
  /\ state' = [state EXCEPT ![t] = "ready"]
  /\ is_ready' = [is_ready EXCEPT ![t] = TRUE]
  /\ wake_tick' = [wake_tick EXCEPT ![t] = 0]
  /\ stack_ptr' = [stack_ptr EXCEPT ![t] = t]
  /\ frame' = [frame EXCEPT ![t] = InitialContext(t)]
  /\ current_task_index' = t

\* fi_resilient_task_pmp_init: write the CSRs, save them as the task's snapshot.
SaveSnapshot(t) ==
  /\ pmp' = t
  /\ slot' = [slot EXCEPT ![t % NSlots] = t]

CreateTask ==
  /\ phase = "create"
  /\ ~ListFull
  /\ FillControlBlock(task_count)
  /\ IF PSE /\ task_count # 0
       THEN SaveSnapshot(task_count)
       ELSE UNCHANGED <<pmp, slot>>
  /\ task_count' = task_count + 1
  /\ UNCHANGED <<phase, tick_count, cpu, slot_select>>

\* A CSR read back differs from the duplicate settings: no snapshot is saved.
CreateTaskFault ==
  /\ Faults /\ PSE
  /\ phase = "create"
  /\ ~ListFull /\ task_count # 0
  /\ FillControlBlock(task_count)
  /\ pmp' = Corrupted
  /\ phase' = "halted"
  /\ UNCHANGED <<tick_count, task_count, cpu, slot, slot_select>>

\* launch_task_asm: go on in trap_return, on the stack of the task.
LaunchTask(t) ==
  /\ sp' = stack_ptr[t]
  /\ phase' = "return"

\* The first ready task is launched.
\* The timer is armed one tick ahead, so it does not fire before the launch.
RunScheduler ==
  /\ phase = "create"
  /\ \E t \in Created \ {0} :
       /\ state[t] = "ready"
       /\ \A u \in Created \ {0} : state[u] = "ready" => t <= u
       /\ current_task_index' = t
       /\ state' = [state EXCEPT ![t] = "running"]
       /\ LaunchTask(t)
  /\ UNCHANGED <<tick_count, task_count, is_ready, wake_tick, stack_ptr,
                 frame, live, mode, engine>>

-----------------------------------------------------------------------------
(* Traps.                                                                  *)

SaveContext_Wrong ==             \* the registers stay where they are
  /\ stack_ptr' = [stack_ptr EXCEPT ![current_task_index] = sp]
  /\ live' = Kernel
  /\ mode' = "M"
  /\ UNCHANGED frame

SaveContext ==
  /\ frame' = [frame EXCEPT ![sp] = [ctx |-> live, mode |-> mode]]
  /\ stack_ptr' = [stack_ptr EXCEPT ![current_task_index] = sp]
  /\ live' = Kernel
  /\ mode' = "M"

Trap(handler) ==
  /\ phase = "user"
  /\ SaveContext
  /\ phase' = handler
  /\ UNCHANGED <<tick_count, task_count, current_task_index, tcb, sp, engine>>

TimerTrap == Trap("tick")

\* An exception is dispatched on a7 alone, whatever its cause.
TaskTrap(handler) == current_task_index # 0 /\ Trap(handler)
DelayTrap == TaskTrap("delay")            \* a7 = 1
YieldTrap == TaskTrap("return")           \* a7 = 0
UnknownSyscallTrap == TaskTrap("halted")  \* any other a7

Halt ==
  /\ phase' = "halted"
  /\ live' = Kernel
  /\ mode' = "M"
  /\ UNCHANGED <<tick_count, task_count, current_task_index, tcb, stack_ptr,
                 sp, engine>>

\* load_access_fault, after the registers but before mepc and stack_ptr are
\* saved.
AccessFaultTrap ==
  /\ phase = "user" /\ mode = "U"
  /\ frame' = [frame EXCEPT ![sp].ctx = live]
  /\ Halt

RdError_Wrong == PSE /\ mode = "M" /\ pmp # slot[slot_select]

\* While U-mode code runs, the PSE compares the live CSRs with the selected slot
\* and their parity with the one saved in the slot; a difference raises the
\* major alert interrupt.  Not every bit of a slot is in the parity.
RdError == PSE /\ mode = "U" /\ (pmp # slot[slot_select] \/ pmp \in Noticed)

MajorAlert ==
  /\ phase = "user"
  /\ RdError
  /\ Halt
  /\ UNCHANGED frame

\* Faults: attack (1) of the campaign on the CSRs, attack (2) on a slot.  What
\* the parity does not tell of yet may be hit again.
FaultOf(settings) ==
  CASE settings \in Noticed -> {}
    [] settings \in Hidden -> Noticed
    [] OTHER -> Bad

CorruptPmp ==
  /\ Faults
  /\ phase \notin {"create", "halted"}
  /\ pmp' \in FaultOf(pmp)
  /\ UNCHANGED <<phase, tick_count, task_count, current_task_index, tcb,
                 stack_ptr, frame, cpu, slot, slot_select>>

CorruptSlot ==
  /\ Faults /\ PSE
  /\ phase \notin {"create", "halted"}
  /\ \E t \in Attacked \cap (Created \ {0}) : \E v \in FaultOf(slot[t % NSlots]) :
       slot' = [slot EXCEPT ![t % NSlots] = v]
  /\ UNCHANGED <<phase, tick_count, task_count, current_task_index, tcb,
                 stack_ptr, frame, cpu, slot_select, pmp>>

-----------------------------------------------------------------------------
(* The handlers.                                                           *)

Switch_Wrong(t) ==               \* returns on the stack it came on
  /\ current_task_index' = t
  /\ phase' = "return"
  /\ UNCHANGED sp

Switch(t) ==
  /\ current_task_index' = t
  /\ sp' = stack_ptr[t]
  /\ phase' = "return"

Woken_Eager_Wrong(now) ==        \* whoever is interrupted
  {t \in Created \ {0} : state[t] = "waiting" /\ wake_tick[t] <= now}

Woken_Late_Wrong(now) ==
  {t \in Woken_Eager_Wrong(now) : current_task_index = 0 /\ wake_tick[t] < now}

Woken_Early_Wrong(now) ==
  IF current_task_index = 0 THEN Woken_Eager_Wrong(now + 1) ELSE {}

Woken(now) ==
  IF current_task_index = 0
  THEN {t \in Created \ {0} : state[t] = "waiting" /\ wake_tick[t] <= now}
  ELSE {}

\* The loop leaves the last task it wakes as the next one to run.
TickHandler ==
  /\ phase = "tick"
  /\ tick_count' = (tick_count + 1) % WordMod
  /\ LET woken == Woken(tick_count') IN
       /\ state' = [t \in TaskIndex |-> IF t \in woken THEN "ready" ELSE state[t]]
       /\ is_ready' = [t \in TaskIndex |-> t \in woken \/ is_ready[t]]
       /\ wake_tick' = [t \in TaskIndex |-> IF t \in woken THEN 0 ELSE wake_tick[t]]
       /\ \/ woken = {} /\ Switch(current_task_index)
          \/ \E t \in woken : Switch(t) /\ \A u \in woken : u <= t
  /\ UNCHANGED <<task_count, stack_ptr, frame, live, mode, engine>>

DelayTicks(ms) ==
  LET ticks == ((ms * TickRate) % WordMod) \div MsPerSecond
  IN  IF ticks = 0 /\ ms > 0 THEN 1 ELSE ticks

Runnable_Wrong == {t \in Created \ {0, current_task_index, task_count - 1} :
                     state[t] = "ready" /\ is_ready[t]}

Runnable == {t \in Created \ {0, current_task_index} :
               state[t] = "ready" /\ is_ready[t]}

DelayHandler(ms) ==
  /\ phase = "delay"
  /\ wake_tick' = [wake_tick EXCEPT
       ![current_task_index] = (tick_count + DelayTicks(ms)) % WordMod]
  /\ is_ready' = [is_ready EXCEPT ![current_task_index] = FALSE]
  /\ \E next \in Runnable \cup {0} :
       /\ IF Runnable = {} THEN next = 0
                           ELSE next # 0 /\ \A u \in Runnable : next <= u
       /\ state' = [state EXCEPT ![current_task_index] = "waiting",
                                 ![next] = "running"]
       /\ Switch(next)
  /\ UNCHANGED <<tick_count, task_count, stack_ptr, frame, live, mode, engine>>

\* Neither a csrw nor the PSE changes the configuration of a region whose lock
\* bit is set: what comes out has that bit set, too.
WritePmp(settings) ==
  pmp' \in IF pmp \in {Locked, HiddenLock} \ {settings}
             THEN {Locked, HiddenLock} ELSE {settings}

ReconfigurePmp_Skipped_Wrong == UNCHANGED engine

ReconfigurePmp_Lazy_Wrong ==     \* not when the slot is the selected one
  IF current_task_index \in Privileged \/ slot_select = current_task_index % NSlots
  THEN UNCHANGED engine
  ELSE /\ slot_select' = current_task_index % NSlots
       /\ WritePmp(slot[slot_select'])
       /\ UNCHANGED slot

ReconfigurePmp_Unselected_Wrong ==  \* the slot is not latched
  /\ IF current_task_index \in Privileged
       THEN UNCHANGED pmp
       ELSE WritePmp(slot[current_task_index % NSlots])
  /\ UNCHANGED <<slot, slot_select>>

\* csrw to CSR_PMP_SNAPSHOT_APPLY.
ApplySnapshot ==
  /\ slot_select' = current_task_index % NSlots
  /\ WritePmp(slot[slot_select'])
  /\ UNCHANGED slot

ConfigureFromTcb ==
  /\ WritePmp(current_task_index)
  /\ UNCHANGED <<slot, slot_select>>

ReconfigurePmp ==
  IF current_task_index \in Privileged
  THEN UNCHANGED engine
  ELSE IF PSE THEN ApplySnapshot ELSE ConfigureFromTcb

\* Install the PMP settings of an unprivileged task, restore its context, mret.
TrapReturn ==
  /\ phase = "return"
  /\ ReconfigurePmp
  /\ live' = frame[sp].ctx
  /\ mode' = frame[sp].mode
  /\ frame' = [frame EXCEPT ![sp].ctx = Dead]
  /\ phase' = "user"
  /\ UNCHANGED <<tick_count, task_count, current_task_index, tcb, stack_ptr, sp>>

-----------------------------------------------------------------------------
Next ==
  \/ CreateTask \/ CreateTaskFault \/ RunScheduler
  \/ TimerTrap \/ DelayTrap \/ YieldTrap \/ UnknownSyscallTrap
  \/ AccessFaultTrap \/ MajorAlert \/ CorruptPmp \/ CorruptSlot
  \/ TickHandler
  \/ \E ms \in Delays : DelayHandler(ms)
  \/ TrapReturn

Spec == Init /\ [][Next]_vars

(***************************************************************************)
(* The core executes the kernel without waiting for anybody, and takes a   *)
(* pending alert before it goes on with U-mode code.  No tick need come.   *)
(***************************************************************************)
Fairness ==
  /\ WF_vars(TickHandler)
  /\ WF_vars(\E ms \in Delays : DelayHandler(ms))
  /\ WF_vars(TrapReturn)
  /\ WF_vars(MajorAlert)

FairSpec == Spec /\ Fairness

-----------------------------------------------------------------------------
TypeOK ==
  /\ phase \in Phases
  /\ tick_count \in Word
  /\ task_count \in 0 .. MaxTasks
  /\ current_task_index \in TaskIndex \cup {NoTask}
  /\ state \in [TaskIndex -> States]
  /\ is_ready \in [TaskIndex -> BOOLEAN]
  /\ wake_tick \in [TaskIndex -> Word]
  /\ stack_ptr \in [TaskIndex -> TaskIndex \cup {Kernel, NoStack}]
  /\ frame \in [TaskIndex -> [ctx : TaskIndex \cup {Kernel, Dead}, mode : {"U", "M"}]]
  /\ live \in TaskIndex \cup {Kernel, Dead}
  /\ mode \in {"U", "M"}
  /\ sp \in TaskIndex \cup {Kernel, NoStack}
  /\ slot \in [SlotIndex -> TaskIndex \cup {NoSettings} \cup Bad]
  /\ slot_select \in SlotIndex
  /\ pmp \in TaskIndex \cup {NoSettings} \cup Bad

Others == Created \ {0}
Scheduling == phase \in {"user", "tick", "delay", "return"}

(***************************************************************************)
(* Whoever executes outside the kernel is the current task: its registers, *)
(* its stack and its privilege are in use (lw sp, 0(a0) and trap_return    *)
(* agree with current_task_index, which the C handlers changed).           *)
(***************************************************************************)
CurrentTaskOwnsCore ==
  phase = "user" =>
    /\ live = current_task_index
    /\ sp = current_task_index
    /\ mode = PrivilegeOf(current_task_index)

(***************************************************************************)
(* A task that does not execute has its own registers saved on its own     *)
(* stack, and its control block points there.                              *)
(***************************************************************************)
ContextsPreserved ==
  Scheduling =>
    \A t \in Created : (t # current_task_index \/ phase # "user") =>
      stack_ptr[t] = t /\ frame[t].ctx = t

(***************************************************************************)
(* U-mode code only ever runs under the PMP settings of its own task: the  *)
(* slot written while the task was created is the slot applied when it is  *)
(* given the core.  (Or under what a fault made of them.)                  *)
(***************************************************************************)
OwnPmpSettings ==
  phase = "user" /\ mode = "U" => pmp \in {current_task_index} \cup Bad

(***************************************************************************)
(* Switching tasks never raises a false alert: the PSE reports an error    *)
(* only after a fault in the live CSRs or in the slot of the task that     *)
(* runs.  And while it reports none the task runs under what its own slot  *)
(* holds: its settings, or contents that the parity in the slot does not   *)
(* tell from them.                                                         *)
(***************************************************************************)
AlertUnlessHidden ==
  PSE /\ phase = "user" /\ mode = "U" =>
    IF RdError
    THEN {pmp, slot[slot_select]} \cap Bad # {}
    ELSE /\ pmp = slot[slot_select] /\ pmp = slot[current_task_index % NSlots]
         /\ pmp \in {current_task_index} \cup Hidden

(***************************************************************************)
(* The idle task has the core only when no other task is ready.            *)
(***************************************************************************)
IdleOnlyWhenDrained ==
  Scheduling /\ current_task_index = 0 =>
    \A t \in Others : state[t] # "ready"

(***************************************************************************)
(* At most one task other than idle is marked running, and it is the       *)
(* current one; the flag is_ready and the state waiting never contradict   *)
(* each other (syscall_process_delay tests both).                          *)
(***************************************************************************)
StatesAgree ==
  \A t \in Others :
    /\ state[t] = "running" => t = current_task_index
    /\ is_ready[t] <=> state[t] # "waiting"

(***************************************************************************)
(* The invariant that carries the others from step to step.                *)
(***************************************************************************)
CurrentOK ==
  /\ Scheduling => current_task_index \in Created /\ sp = current_task_index
  /\ phase = "delay" => current_task_index # 0
  /\ Scheduling /\ current_task_index # 0 =>
       state[current_task_index] \in {"ready", "running"}

FramesOK ==
  phase # "halted" =>
    \A t \in Created :
      /\ stack_ptr[t] = t
      /\ (t # current_task_index \/ phase # "user") =>
           frame[t] = [ctx |-> t, mode |-> PrivilegeOf(t)]

CreatedReady ==
  phase = "create" => \A t \in Created : state[t] = "ready" /\ is_ready[t]

EngineOK ==
  /\ PSE => \A t \in Others : slot[t % NSlots] \in {t} \cup Bad
  /\ PSE /\ phase = "user" /\ mode = "U" =>
       slot_select = current_task_index % NSlots

IndInv ==
  /\ TypeOK
  /\ CurrentOK /\ FramesOK /\ CreatedReady /\ EngineOK
  /\ CurrentTaskOwnsCore
  /\ OwnPmpSettings
  /\ IdleOnlyWhenDrained
  /\ StatesAgree

(***************************************************************************)
(* Sleepers are taken up only when every ready task has had its turn, so   *)
(* no task overtakes a ready one twice (tick_interrupt_handler looks at    *)
(* the sleepers only from the idle task).                                  *)
(***************************************************************************)
WakeOnlyWhenDrained ==
  [][(\E t \in Others : state[t] = "waiting" /\ state'[t] = "ready")
       => \A u \in Others : state[u] # "ready"]_vars

(***************************************************************************)
(* A tick that interrupts the idle task makes ready exactly the sleepers   *)
(* whose wake-up time has come, and the idle task goes on only if there is *)
(* none: then the core goes to one of them.                                *)
(***************************************************************************)
Due(now) == {t \in Others : state[t] = "waiting" /\ wake_tick[t] <= now}
MarkedReady == {t \in Others : state[t] = "ready"}

IdleTickWakesAllDue ==
  [][phase = "tick" /\ phase' = "return" /\ current_task_index = 0 =>
       /\ MarkedReady' = Due(tick_count')
       /\ IF Due(tick_count') = {} THEN current_task_index' = 0
          ELSE current_task_index' \in Due(tick_count')]_vars

(***************************************************************************)
(* A corruption of the PMP CSRs does not survive a context switch: a       *)
(* return to U-mode code has written all of them, unless the corruption    *)
(* set a lock bit or hit the task's slot (trap_return comes after          *)
(* reconfigure_pmp_for_current_task).                                      *)
(***************************************************************************)
ReturnRestoresPmp ==
  [][phase = "return" /\ phase' = "user" /\ mode' = "U"
       => \/ pmp' = current_task_index'
          \/ pmp \in {Locked, HiddenLock}
          \/ PSE /\ slot[current_task_index' % NSlots] \in Bad]_vars

(***************************************************************************)
(* A ready task gets the core, unless the system stopped on a fault, if    *)
(* tasks do not keep the core for ever: the demo tasks are loops around    *)
(* rtos_delay, and a tick is millions of instructions away from the next.  *)
(***************************************************************************)
TasksDelay == SF_vars(DelayTrap)

ReadyTaskRuns ==
  TasksDelay =>
    \A t \in TaskIndex \ {0} :
      (Scheduling /\ state[t] = "ready")
        ~> (current_task_index = t \/ phase = "halted")

(***************************************************************************)
(* U-mode code does not execute on and on under corrupted PMP settings,    *)
(* even if it never traps by itself: the alert stops it, unless the slot   *)
(* holds the same contents and its parity does not tell of them.           *)
(***************************************************************************)
Unnoticeable == pmp \in Hidden /\ pmp = slot[slot_select]

CorruptionStopsTask ==
  []<>~(PSE /\ phase = "user" /\ mode = "U" /\ pmp \in Bad /\ ~Unnoticeable)
=============================================================================
