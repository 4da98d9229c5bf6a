----------------------------- MODULE RtosProofs -----------------------------
(***************************************************************************)
(* The safety properties of Rtos, and that it implements TaskScheduler, for *)
(* every number of tasks, word width, tick rate and set of delays.         *)
(***************************************************************************)
EXTENDS RtosRefinement, TLAPS

\* A task's index is its slot: MAX_TASKS does not exceed the slots of the PSE.
LEMMA SlotOfTask == \A t \in TaskIndex : t % NSlots = t
  BY RtosAssumption DEF TaskIndex

LEMMA WordArithmetic == \A n \in Nat : n % WordMod \in Word
  BY RtosAssumption DEF Word

LEMMA DelayTicksType == \A ms \in Delays : DelayTicks(ms) \in Nat
  <1> TAKE ms \in Delays
  <1>1. ms \in Nat /\ TickRate \in Nat
    BY RtosAssumption
  <1>2. ms * TickRate \in Nat
    BY <1>1
  <1>3. (ms * TickRate) % WordMod \in Nat
    BY <1>2, WordArithmetic, RtosAssumption DEF Word
  <1>4. ((ms * TickRate) % WordMod) \div MsPerSecond \in Nat
    BY <1>3, RtosAssumption
  <1> QED
    BY <1>4 DEF DelayTicks

(***************************************************************************)
(* The initial state has no task, no saved context and no snapshot.        *)
(***************************************************************************)
LEMMA InitIndInv == Init => IndInv
  BY RtosAssumption
  DEF Init, IndInv, TypeOK, CurrentOK, FramesOK, CreatedReady, EngineOK,
      CurrentTaskOwnsCore, OwnPmpSettings, IdleOnlyWhenDrained, StatesAgree,
      Phases, States, Scheduling, Others, Created, TaskIndex, SlotIndex, Word,
      NoTask, Kernel, NoStack, NoSettings, Dead

(***************************************************************************)
(* Creating a task puts its context on its own stack and its settings into *)
(* its own slot, and disturbs no other task.                               *)
(***************************************************************************)
LEMMA CreateTaskInv == IndInv /\ CreateTask => IndInv'
  <1> SUFFICES ASSUME IndInv, CreateTask PROVE IndInv'
    OBVIOUS
  <1> USE RtosAssumption DEF TaskIndex, Created, Others, Scheduling
  <1>1. /\ task_count \in TaskIndex /\ task_count' = task_count + 1
        /\ phase = "create" /\ phase' = "create"
    BY DEF IndInv, TypeOK, CreateTask, ListFull
  <1>2. TypeOK'
    <2>1. /\ state' \in [TaskIndex -> States]
          /\ is_ready' \in [TaskIndex -> BOOLEAN]
          /\ wake_tick' \in [TaskIndex -> Word]
      BY <1>1 DEF IndInv, TypeOK, CreateTask, FillControlBlock, InitialContext, States, Word
    <2>2. /\ stack_ptr' \in [TaskIndex -> TaskIndex \cup {Kernel, NoStack}]
          /\ frame' \in [TaskIndex ->
                          [ctx : TaskIndex \cup {Kernel, Dead}, mode : {"U", "M"}]]
      BY <1>1 DEF IndInv, TypeOK, CreateTask, FillControlBlock, InitialContext, PrivilegeOf
    <2>3. /\ slot' \in [SlotIndex -> TaskIndex \cup {NoSettings} \cup Bad]
          /\ pmp' \in TaskIndex \cup {NoSettings} \cup Bad
      BY <1>1, SlotOfTask DEF IndInv, TypeOK, CreateTask, SaveSnapshot
    <2>4. /\ task_count' \in 0 .. MaxTasks
          /\ current_task_index' \in TaskIndex \cup {NoTask}
      BY <1>1 DEF CreateTask, FillControlBlock, InitialContext
    <2> QED
      BY <1>1, <2>1, <2>2, <2>3, <2>4 DEF IndInv, TypeOK, CreateTask, cpu
  <1>3. CurrentOK'
    BY <1>1 DEF CurrentOK
  <1>4. FramesOK'
    <2> SUFFICES ASSUME NEW t \in Created'
                 PROVE /\ stack_ptr'[t] = t
                       /\ frame'[t] = [ctx |-> t, mode |-> PrivilegeOf(t)]
      BY DEF FramesOK
    <2>1. /\ stack_ptr' = [stack_ptr EXCEPT ![task_count] = task_count]
          /\ frame' = [frame EXCEPT ![task_count] =
                         [ctx |-> task_count, mode |-> PrivilegeOf(task_count)]]
      BY DEF CreateTask, FillControlBlock, InitialContext
    <2>2. CASE t = task_count
      BY <1>1, <2>1, <2>2 DEF IndInv, TypeOK
    <2>3. CASE t # task_count
      <3>1. t \in Created
        BY <1>1, <2>3
      <3>2. stack_ptr[t] = t /\ frame[t] = [ctx |-> t, mode |-> PrivilegeOf(t)]
        BY <1>1, <3>1 DEF IndInv, FramesOK
      <3> QED
        BY <1>1, <2>1, <2>3, <3>1, <3>2 DEF IndInv, TypeOK
    <2> QED
      BY <2>2, <2>3
  <1>5. CreatedReady' /\ StatesAgree'
    <2>1. /\ state' = [state EXCEPT ![task_count] = "ready"]
          /\ is_ready' = [is_ready EXCEPT ![task_count] = TRUE]
      BY DEF CreateTask, FillControlBlock, InitialContext
    <2>2. ASSUME NEW t \in Created' PROVE state'[t] = "ready" /\ is_ready'[t]
      BY <1>1, <2>1 DEF IndInv, TypeOK, CreatedReady
    <2> QED
      BY <2>2 DEF CreatedReady, StatesAgree
  <1>6. EngineOK'
    <2>1. ASSUME PSE PROVE \A t \in Others' : slot'[t % NSlots] \in {t} \cup Bad
      <3> TAKE t \in Others'
      <3>0. t \in TaskIndex
        BY <1>1
      <3>1. t \in TaskIndex /\ t % NSlots = t /\ task_count % NSlots = task_count
        BY <3>0, <1>1, SlotOfTask
      <3>2. CASE t = task_count
        BY <1>1, <2>1, <3>1, <3>2 DEF IndInv, TypeOK, CreateTask, SaveSnapshot, SlotIndex
      <3>3. CASE t # task_count
        <4>1. t \in Others
          BY <3>3, <1>1 DEF CreateTask, IndInv, TypeOK
        <4>2. slot[t] \in {t} \cup Bad
          BY <4>1, <3>1, <2>1 DEF IndInv, EngineOK
        <4> QED
          BY <4>2, <3>1, <3>3, <2>1 DEF IndInv, TypeOK, CreateTask, SaveSnapshot, SlotIndex
      <3> QED
        BY <3>2, <3>3
    <2> QED
      BY <2>1, <1>1 DEF EngineOK
  <1>7. CurrentTaskOwnsCore' /\ OwnPmpSettings' /\ IdleOnlyWhenDrained'
    BY <1>1 DEF CurrentTaskOwnsCore, OwnPmpSettings, IdleOnlyWhenDrained
  <1> QED
    BY <1>2, <1>3, <1>4, <1>5, <1>6, <1>7 DEF IndInv

LEMMA CreateTaskFaultInv == IndInv /\ CreateTaskFault => IndInv'
  <1> SUFFICES ASSUME IndInv, CreateTaskFault PROVE IndInv'
    OBVIOUS
  <1> USE RtosAssumption DEF TaskIndex, Created, Others, Scheduling
  <1>1. task_count \in TaskIndex /\ phase' = "halted" /\ task_count' = task_count
    BY DEF IndInv, TypeOK, CreateTaskFault, ListFull
  <1>2. TypeOK'
    BY <1>1 DEF IndInv, TypeOK, CreateTaskFault, FillControlBlock, InitialContext, PrivilegeOf,
       States, Phases, Kernel, NoStack, NoSettings, Dead, NoTask, Word, cpu, Corrupted, Noticed, Bad
  <1>3. StatesAgree'
    BY <1>1 DEF IndInv, TypeOK, CreatedReady, StatesAgree, CreateTaskFault, FillControlBlock, InitialContext
  <1>4. EngineOK'
    BY <1>1 DEF IndInv, EngineOK, CreateTaskFault
  <1>5. CurrentOK' /\ FramesOK' /\ CreatedReady' /\ CurrentTaskOwnsCore'
        /\ OwnPmpSettings' /\ IdleOnlyWhenDrained'
    BY <1>1 DEF CurrentOK, FramesOK, CreatedReady, CurrentTaskOwnsCore,
       OwnPmpSettings, IdleOnlyWhenDrained
  <1> QED
    BY <1>2, <1>3, <1>4, <1>5 DEF IndInv

LEMMA RunSchedulerInv == IndInv /\ RunScheduler => IndInv'
  <1> SUFFICES ASSUME IndInv, RunScheduler PROVE IndInv'
    OBVIOUS
  <1> USE RtosAssumption DEF TaskIndex, Created, Others, Scheduling
  <1>1. PICK t \in Created \ {0} :
           /\ state[t] = "ready"
           /\ current_task_index' = t
           /\ state' = [state EXCEPT ![t] = "running"]
           /\ sp' = stack_ptr[t]
    BY DEF LaunchTask, RunScheduler
  <1>2. /\ phase = "create" /\ phase' = "return" /\ task_count' = task_count
        /\ t \in TaskIndex /\ t # 0
    BY <1>1 DEF LaunchTask, RunScheduler, IndInv, TypeOK
  <1>3. sp' = t /\ frame' = frame /\ stack_ptr' = stack_ptr
    BY <1>1, <1>2 DEF RunScheduler, IndInv, FramesOK
  <1>4. TypeOK'
    BY <1>1, <1>2, <1>3 DEF IndInv, TypeOK, RunScheduler, States, Phases, Kernel,
       NoStack, NoTask, engine
  <1>5. CurrentOK'
    BY <1>1, <1>2, <1>3 DEF CurrentOK, IndInv, TypeOK
  <1>6. FramesOK'
    BY <1>2, <1>3 DEF IndInv, FramesOK
  <1>7. StatesAgree'
    BY <1>1, <1>2 DEF IndInv, TypeOK, CreatedReady, StatesAgree, RunScheduler
  <1>8. EngineOK'
    BY <1>2 DEF IndInv, EngineOK, RunScheduler, engine
  <1>9. CreatedReady' /\ CurrentTaskOwnsCore' /\ OwnPmpSettings'
        /\ IdleOnlyWhenDrained'
    BY <1>1, <1>2 DEF CreatedReady, CurrentTaskOwnsCore, OwnPmpSettings,
       IdleOnlyWhenDrained
  <1> QED
    BY <1>4, <1>5, <1>6, <1>7, <1>8, <1>9 DEF IndInv

(***************************************************************************)
(* Entering the kernel saves the context of the current task on its own    *)
(* stack.  After that nobody executes outside the kernel.                  *)
(***************************************************************************)
LEMMA TrapInv ==
  ASSUME NEW handler \in {"tick", "delay", "return", "halted"}, IndInv,
         Trap(handler), handler = "delay" => current_task_index # 0
  PROVE  IndInv'
  <1> USE RtosAssumption DEF TaskIndex, Created, Others, Scheduling
  <1>1. /\ phase = "user" /\ phase' = handler /\ task_count' = task_count
        /\ current_task_index' = current_task_index /\ sp' = sp
        /\ state' = state /\ is_ready' = is_ready /\ wake_tick' = wake_tick
        /\ slot' = slot /\ slot_select' = slot_select /\ pmp' = pmp
        /\ live' = Kernel /\ mode' = "M" /\ tick_count' = tick_count
    BY DEF Trap, SaveContext, tcb, engine
  <1>2. /\ current_task_index \in Created /\ current_task_index \in TaskIndex
        /\ sp = current_task_index /\ live = current_task_index
        /\ mode = PrivilegeOf(current_task_index)
    BY <1>1 DEF IndInv, TypeOK, CurrentOK, CurrentTaskOwnsCore
  <1>3. /\ frame' = [frame EXCEPT ![current_task_index] =
                        [ctx |-> current_task_index,
                         mode |-> PrivilegeOf(current_task_index)]]
        /\ stack_ptr' = [stack_ptr EXCEPT ![current_task_index] = current_task_index]
    BY <1>2 DEF Trap, SaveContext
  <1>4. TypeOK'
    <2>1. frame' \in [TaskIndex ->
                       [ctx : TaskIndex \cup {Kernel, Dead}, mode : {"U", "M"}]]
      BY <1>2, <1>3 DEF IndInv, TypeOK, PrivilegeOf
    <2>2. stack_ptr' \in [TaskIndex -> TaskIndex \cup {Kernel, NoStack}]
      BY <1>2, <1>3 DEF IndInv, TypeOK
    <2> QED
      BY <1>1, <2>1, <2>2 DEF IndInv, TypeOK, Phases
  <1>5. FramesOK'
    <2> SUFFICES ASSUME NEW t \in Created
                 PROVE /\ stack_ptr'[t] = t
                       /\ frame'[t] = [ctx |-> t, mode |-> PrivilegeOf(t)]
      BY <1>1 DEF FramesOK
    <2>1. t \in TaskIndex
      BY DEF IndInv, TypeOK
    <2>2. CASE t = current_task_index
      BY <1>3, <2>1, <2>2 DEF IndInv, TypeOK
    <2>3. CASE t # current_task_index
      BY <1>1, <1>2, <1>3, <2>1, <2>3 DEF IndInv, TypeOK, FramesOK
    <2> QED
      BY <2>2, <2>3
  <1>6. CurrentOK' /\ CreatedReady' /\ EngineOK' /\ StatesAgree'
    BY <1>1, <1>2 DEF IndInv, CurrentOK, CreatedReady, EngineOK, StatesAgree
  <1>7. CurrentTaskOwnsCore' /\ OwnPmpSettings' /\ IdleOnlyWhenDrained'
    BY <1>1 DEF IndInv, CurrentTaskOwnsCore, OwnPmpSettings, IdleOnlyWhenDrained
  <1> QED
    BY <1>4, <1>5, <1>6, <1>7 DEF IndInv

\* Once halted, only the types and the control blocks matter.
LEMMA HaltInv ==
  ASSUME IndInv, Halt,
         frame' \in [TaskIndex ->
                       [ctx : TaskIndex \cup {Kernel, Dead}, mode : {"U", "M"}]]
  PROVE  IndInv'
  BY RtosAssumption
  DEF Halt, IndInv, TypeOK, Phases, Scheduling, Created, Others, CurrentOK, FramesOK,
      CreatedReady, EngineOK, CurrentTaskOwnsCore, OwnPmpSettings,
      IdleOnlyWhenDrained, StatesAgree, tcb, engine, Kernel

LEMMA AccessFaultInv == IndInv /\ AccessFaultTrap => IndInv'
  <1> SUFFICES ASSUME IndInv, AccessFaultTrap PROVE IndInv'
    OBVIOUS
  <1>1. frame' \in [TaskIndex ->
                     [ctx : TaskIndex \cup {Kernel, Dead}, mode : {"U", "M"}]]
    BY DEF AccessFaultTrap, IndInv, TypeOK
  <1> QED
    BY <1>1, HaltInv DEF AccessFaultTrap

LEMMA MajorAlertInv == IndInv /\ MajorAlert => IndInv'
  <1> SUFFICES ASSUME IndInv, MajorAlert PROVE IndInv'
    OBVIOUS
  <1> QED
    BY HaltInv DEF MajorAlert, IndInv, TypeOK

\* A fault leaves one of the corrupted contents.
LEMMA FaultIsBad == \A v : FaultOf(v) \subseteq Bad
  BY DEF FaultOf, Bad

LEMMA CorruptPmpInv == IndInv /\ CorruptPmp => IndInv'
  BY FaultIsBad
  DEF CorruptPmp, IndInv, TypeOK, Scheduling, Created, Others, CurrentOK, FramesOK,
     CreatedReady, EngineOK, CurrentTaskOwnsCore, OwnPmpSettings,
     IdleOnlyWhenDrained, StatesAgree, tcb, cpu, Kernel

LEMMA CorruptSlotInv == IndInv /\ CorruptSlot => IndInv'
  <1> SUFFICES ASSUME IndInv, CorruptSlot PROVE IndInv'
    OBVIOUS
  <1> USE DEF Scheduling, Created, Others
  <1>1. \A t \in Created : t \in TaskIndex /\ t % NSlots \in SlotIndex
    BY SlotOfTask, RtosAssumption DEF IndInv, TypeOK, TaskIndex, SlotIndex
  <1>2. PICK t \in Created \ {0}, v \in Bad : slot' = [slot EXCEPT ![t % NSlots] = v]
    BY FaultIsBad DEF CorruptSlot
  <1>3. slot' \in [SlotIndex -> TaskIndex \cup {NoSettings} \cup Bad]
    BY <1>2 DEF IndInv, TypeOK
  <1>4. \A i \in SlotIndex : slot'[i] = slot[i] \/ slot'[i] \in Bad
    BY <1>2 DEF IndInv, TypeOK
  <1>5. /\ phase' = phase /\ mode' = mode /\ slot_select' = slot_select
        /\ task_count' = task_count /\ current_task_index' = current_task_index
    BY DEF CorruptSlot, cpu
  <1>6. EngineOK'
    <2>1. ASSUME PSE, NEW u \in Others PROVE slot'[u % NSlots] \in {u} \cup Bad
      BY <1>1, <1>4, <2>1 DEF IndInv, EngineOK
    <2> QED
      BY <1>5, <2>1 DEF IndInv, EngineOK
  <1> QED
    BY <1>3, <1>5, <1>6 DEF CorruptSlot, IndInv, TypeOK, CurrentOK, FramesOK,
       CreatedReady, CurrentTaskOwnsCore, OwnPmpSettings, IdleOnlyWhenDrained,
       StatesAgree, tcb, cpu

(***************************************************************************)
(* The handlers switch only to tasks that exist, and loading the stack     *)
(* pointer of a task's control block loads that task's own stack.          *)
(***************************************************************************)
LEMMA SwitchLoadsOwnStack ==
  ASSUME IndInv, phase \in {"tick", "delay"}, NEW t \in Created, Switch(t)
  PROVE  current_task_index' = t /\ sp' = t /\ phase' = "return"
  BY DEF IndInv, FramesOK, Switch

\* The tick handler switches away from idle, or not at all.
LEMMA TickSwitch ==
  ASSUME IndInv, TickHandler
  PROVE  \E t \in Created :
           /\ Switch(t)
           /\ \/ t = current_task_index /\ Woken(tick_count') = {}
              \/ current_task_index = 0 /\ t \in Woken(tick_count')
  <1>1. phase = "tick" /\ current_task_index \in Created
    BY DEF TickHandler, IndInv, CurrentOK, Scheduling
  <1>2. CASE Woken(tick_count') = {} /\ Switch(current_task_index)
    BY <1>1, <1>2
  <1>3. CASE \E t \in Woken(tick_count') : Switch(t)
    BY <1>3 DEF Woken
  <1> QED
    BY <1>2, <1>3 DEF TickHandler

LEMMA TickHandlerInv == IndInv /\ TickHandler => IndInv'
  <1> SUFFICES ASSUME IndInv, TickHandler PROVE IndInv'
    OBVIOUS
  <1> DEFINE woken == Woken(tick_count')
  <1> USE RtosAssumption DEF TaskIndex, Created, Others, Scheduling
  <1>1. PICK t \in Created :
           /\ Switch(t)
           /\ \/ t = current_task_index /\ woken = {}
              \/ current_task_index = 0 /\ t \in woken
    BY TickSwitch
  <1>2. /\ phase = "tick" /\ phase' = "return"
        /\ current_task_index' = t /\ sp' = t /\ task_count' = task_count
        /\ frame' = frame /\ stack_ptr' = stack_ptr /\ live' = live /\ mode' = mode
        /\ slot' = slot /\ slot_select' = slot_select /\ pmp' = pmp
    BY <1>1, SwitchLoadsOwnStack DEF TickHandler, engine
  <1>3. /\ state' = [u \in TaskIndex |-> IF u \in woken THEN "ready" ELSE state[u]]
        /\ is_ready' = [u \in TaskIndex |-> u \in woken \/ is_ready[u]]
        /\ wake_tick' = [u \in TaskIndex |-> IF u \in woken THEN 0 ELSE wake_tick[u]]
    BY DEF TickHandler
  <1>4. \A u \in woken : u \in Others /\ state[u] = "waiting" /\ current_task_index = 0
    BY DEF Woken
  <1> HIDE DEF woken
  <1>5. TypeOK'
    <2>1. tick_count' \in Word
      BY WordArithmetic DEF TickHandler, IndInv, TypeOK, Word
    <2>2. /\ state' \in [TaskIndex -> States]
          /\ wake_tick' \in [TaskIndex -> Word]
      BY <1>3 DEF IndInv, TypeOK, States, Word
    <2>3. is_ready' \in [TaskIndex -> BOOLEAN]
      BY <1>3 DEF IndInv, TypeOK
    <2>4. t \in TaskIndex
      BY DEF IndInv, TypeOK
    <2> QED
      BY <1>2, <2>1, <2>2, <2>3, <2>4 DEF IndInv, TypeOK, Phases
  <1>6. CurrentOK'
    <2>1. ASSUME t # 0 PROVE state'[t] \in {"ready", "running"}
      <3>1. t \in TaskIndex
        BY DEF IndInv, TypeOK
      <3>2. CASE t \in woken
        BY <3>1, <3>2, <1>3
      <3>3. CASE t \notin woken
        BY <2>1, <3>1, <3>3, <1>1, <1>2, <1>3 DEF IndInv, CurrentOK
      <3> QED
        BY <3>2, <3>3
    <2> QED
      BY <1>2, <2>1 DEF CurrentOK
  <1>7. FramesOK'
    BY <1>2 DEF IndInv, FramesOK
  <1>8. IdleOnlyWhenDrained'
    <2> SUFFICES ASSUME t = 0, NEW u \in Others PROVE state'[u] # "ready"
      BY <1>2 DEF IdleOnlyWhenDrained
    <2>1. current_task_index = 0 /\ woken = {}
      BY <1>1, <1>4
    <2>2. state[u] # "ready" /\ u \in TaskIndex
      BY <2>1, <1>2 DEF IndInv, TypeOK, IdleOnlyWhenDrained
    <2> QED
      BY <2>1, <2>2, <1>3
  <1>9. StatesAgree'
    <2> SUFFICES ASSUME NEW u \in Others
                 PROVE /\ state'[u] = "running" => u = t
                       /\ is_ready'[u] <=> state'[u] # "waiting"
      BY <1>2 DEF StatesAgree
    <2>1. /\ u \in TaskIndex /\ (is_ready[u] <=> state[u] # "waiting")
          /\ state[u] = "running" => u = current_task_index
      BY DEF IndInv, TypeOK, StatesAgree
    <2>2. CASE u \in woken
      BY <2>1, <2>2, <1>3
    <2>3. CASE u \notin woken
      <3>1. state'[u] = state[u] /\ (is_ready'[u] <=> is_ready[u])
        BY <2>1, <2>3, <1>3
      <3> QED
        BY <3>1, <2>1, <1>1
    <2> QED
      BY <2>2, <2>3
  <1>10. CreatedReady' /\ EngineOK' /\ CurrentTaskOwnsCore' /\ OwnPmpSettings'
    BY <1>2 DEF IndInv, CreatedReady, EngineOK, CurrentTaskOwnsCore, OwnPmpSettings
  <1> QED
    BY <1>5, <1>6, <1>7, <1>8, <1>9, <1>10 DEF IndInv

LEMMA DelayHandlerInv ==
  ASSUME NEW ms \in Delays, IndInv, DelayHandler(ms)
  PROVE  IndInv'
  <1> DEFINE self == current_task_index
  <1> USE RtosAssumption DEF TaskIndex, Created, Others, Scheduling
  <1>1. PICK next \in Runnable \cup {0} :
           /\ IF Runnable = {} THEN next = 0
                               ELSE next # 0 /\ \A u \in Runnable : next <= u
           /\ state' = [state EXCEPT ![self] = "waiting", ![next] = "running"]
           /\ Switch(next)
    BY DEF DelayHandler
  <1>2. /\ phase = "delay" /\ self \in Created /\ self # 0 /\ self \in TaskIndex
        /\ next \in Created /\ next # self /\ next \in TaskIndex
    BY <1>1 DEF DelayHandler, IndInv, TypeOK, CurrentOK, Runnable
  <1>3. /\ phase' = "return" /\ current_task_index' = next /\ sp' = next
        /\ frame' = frame /\ stack_ptr' = stack_ptr /\ live' = live /\ mode' = mode
        /\ slot' = slot /\ slot_select' = slot_select /\ pmp' = pmp
        /\ task_count' = task_count /\ tick_count' = tick_count
        /\ is_ready' = [is_ready EXCEPT ![self] = FALSE]
    BY <1>1, <1>2, SwitchLoadsOwnStack DEF DelayHandler, engine
  <1>4. TypeOK'
    <2>1. wake_tick' \in [TaskIndex -> Word]
      <3>1. tick_count + DelayTicks(ms) \in Nat
        BY DelayTicksType DEF IndInv, TypeOK, Word
      <3>2. (tick_count + DelayTicks(ms)) % WordMod \in Word
        BY <3>1, WordArithmetic
      <3> QED
        BY <3>2 DEF DelayHandler, IndInv, TypeOK
    <2>2. state' \in [TaskIndex -> States]
      BY <1>1, <1>2 DEF IndInv, TypeOK, States
    <2>3. is_ready' \in [TaskIndex -> BOOLEAN]
      BY <1>3 DEF IndInv, TypeOK
    <2> QED
      BY <1>2, <1>3, <2>1, <2>2, <2>3 DEF IndInv, TypeOK, Phases
  <1>5. \A u \in TaskIndex : state'[u] = IF u = next THEN "running"
                                        ELSE IF u = self THEN "waiting" ELSE state[u]
    BY <1>1, <1>2 DEF IndInv, TypeOK
  <1>6. CurrentOK' /\ FramesOK'
    BY <1>2, <1>3, <1>5 DEF IndInv, CurrentOK, FramesOK
  <1>7. IdleOnlyWhenDrained'
    <2> SUFFICES ASSUME next = 0, NEW u \in Others PROVE state'[u] # "ready"
      BY <1>3 DEF IdleOnlyWhenDrained
    <2>1. Runnable = {} /\ u \in TaskIndex
      BY <1>1 DEF IndInv, TypeOK
    <2>2. u = self \/ state[u] # "ready"
      BY <2>1 DEF Runnable, IndInv, StatesAgree
    <2> QED
      BY <2>1, <2>2, <1>5
  <1>8. StatesAgree'
    <2> SUFFICES ASSUME NEW u \in Others
                 PROVE /\ state'[u] = "running" => u = next
                       /\ is_ready'[u] <=> state'[u] # "waiting"
      BY <1>3 DEF StatesAgree
    <2>1. /\ u \in TaskIndex /\ (is_ready[u] <=> state[u] # "waiting")
          /\ state[u] = "running" => u = self
      BY DEF IndInv, TypeOK, StatesAgree
    <2>2. u = next => is_ready[u]
      BY <1>1 DEF Runnable
    <2>3. CASE u = self
      <3>1. ~ is_ready'[u]
        BY <1>2, <1>3, <2>3 DEF IndInv, TypeOK
      <3>2. state'[u] = "waiting"
        BY <1>2, <1>5, <2>1, <2>3
      <3> QED
        BY <3>1, <3>2
    <2>4. CASE u # self
      <3>1. is_ready'[u] <=> is_ready[u]
        BY <1>3, <2>1, <2>4 DEF IndInv, TypeOK
      <3>2. state'[u] = IF u = next THEN "running" ELSE state[u]
        BY <1>5, <2>1, <2>4
      <3> QED
        BY <3>1, <3>2, <2>1, <2>2, <2>4
    <2> QED
      BY <2>3, <2>4
  <1>9. CreatedReady' /\ EngineOK' /\ CurrentTaskOwnsCore' /\ OwnPmpSettings'
    BY <1>2, <1>3 DEF IndInv, CreatedReady, EngineOK, CurrentTaskOwnsCore, OwnPmpSettings
  <1> QED
    BY <1>4, <1>6, <1>7, <1>8, <1>9 DEF IndInv

(***************************************************************************)
(* trap_return gives the core back to the current task, with its own PMP   *)
(* settings when it is not privileged.                                     *)
(***************************************************************************)
LEMMA ReturnInstallsSettings ==
  ASSUME IndInv, TrapReturn, current_task_index \notin Privileged
  PROVE  /\ pmp' \in {current_task_index} \cup Bad
         /\ \/ pmp' = current_task_index
            \/ pmp \in {Locked, HiddenLock}
            \/ PSE /\ slot[current_task_index % NSlots] \in Bad
         /\ PSE => slot_select' = current_task_index % NSlots
  <1>1. current_task_index \in Others
    BY RtosAssumption DEF TrapReturn, IndInv, CurrentOK, Scheduling, Others
  <1>2. PSE => slot[current_task_index % NSlots] \in {current_task_index} \cup Bad
    BY <1>1 DEF IndInv, EngineOK
  <1> QED
    BY <1>2 DEF TrapReturn, ReconfigurePmp, ApplySnapshot, ConfigureFromTcb, WritePmp,
       Bad, Noticed, Hidden

LEMMA TrapReturnInv == IndInv /\ TrapReturn => IndInv'
  <1> SUFFICES ASSUME IndInv, TrapReturn PROVE IndInv'
    OBVIOUS
  <1> DEFINE self == current_task_index
  <1> USE RtosAssumption DEF TaskIndex, Created, Others, Scheduling
  <1>1. /\ phase = "return" /\ phase' = "user" /\ sp = self /\ sp' = sp
        /\ current_task_index' = self /\ task_count' = task_count
        /\ stack_ptr' = stack_ptr /\ tick_count' = tick_count
        /\ state' = state /\ is_ready' = is_ready /\ wake_tick' = wake_tick
        /\ self \in Created /\ self \in TaskIndex /\ slot' = slot
        /\ frame' = [frame EXCEPT ![self].ctx = Dead]
    BY DEF TrapReturn, IndInv, TypeOK, CurrentOK, ReconfigurePmp, ApplySnapshot, ConfigureFromTcb, tcb, engine
  <1>2. live' = self /\ mode' = PrivilegeOf(self)
    <2>1. frame[self] = [ctx |-> self, mode |-> PrivilegeOf(self)]
      BY <1>1 DEF IndInv, FramesOK
    <2>2. live' = frame[self].ctx /\ mode' = frame[self].mode
      BY <1>1 DEF TrapReturn
    <2> QED
      BY <2>1, <2>2
  <1>3. TypeOK'
    <2>1. frame' \in [TaskIndex ->
                       [ctx : TaskIndex \cup {Kernel, Dead}, mode : {"U", "M"}]]
      BY <1>1 DEF IndInv, TypeOK
    <2>2. self % NSlots \in SlotIndex
      BY <1>1, SlotOfTask DEF SlotIndex
    <2>3. pmp' \in TaskIndex \cup {NoSettings} \cup Bad /\ slot_select' \in SlotIndex
      BY <1>1, <2>2 DEF TrapReturn, ReconfigurePmp, ApplySnapshot, ConfigureFromTcb, WritePmp, IndInv, TypeOK,
         engine, Bad, Noticed, Hidden
    <2> QED
      BY <1>1, <1>2, <2>1, <2>3 DEF IndInv, TypeOK, Phases, PrivilegeOf
  <1>4. FramesOK'
    <2> SUFFICES ASSUME NEW t \in Created
                 PROVE /\ stack_ptr'[t] = t
                       /\ t # self => frame'[t] = [ctx |-> t, mode |-> PrivilegeOf(t)]
      BY <1>1 DEF FramesOK
    <2>1. /\ t \in TaskIndex /\ stack_ptr[t] = t
          /\ frame[t] = [ctx |-> t, mode |-> PrivilegeOf(t)]
      BY <1>1 DEF IndInv, TypeOK, FramesOK
    <2>2. t # self => frame'[t] = frame[t]
      BY <1>1, <2>1 DEF IndInv, TypeOK
    <2> QED
      BY <1>1, <2>1, <2>2
  <1>5. OwnPmpSettings' /\ EngineOK'
    BY <1>1, <1>2, ReturnInstallsSettings
    DEF IndInv, OwnPmpSettings, EngineOK, PrivilegeOf
  <1>6. CurrentOK' /\ CreatedReady' /\ CurrentTaskOwnsCore' /\ IdleOnlyWhenDrained'
        /\ StatesAgree'
    BY <1>1, <1>2 DEF IndInv, CurrentOK, CreatedReady, CurrentTaskOwnsCore,
       IdleOnlyWhenDrained, StatesAgree, PrivilegeOf
  <1> QED
    BY <1>3, <1>4, <1>5, <1>6 DEF IndInv

-----------------------------------------------------------------------------
LEMMA NextInv == IndInv /\ [Next]_vars => IndInv'
  <1> SUFFICES ASSUME IndInv, [Next]_vars PROVE IndInv'
    OBVIOUS
  <1>1. CASE CreateTask \/ CreateTaskFault \/ RunScheduler
    BY <1>1, CreateTaskInv, CreateTaskFaultInv, RunSchedulerInv
  <1>2. CASE TimerTrap
    BY <1>2, TrapInv DEF TimerTrap
  <1>3. CASE DelayTrap
    BY <1>3, TrapInv DEF DelayTrap, TaskTrap
  <1>4. CASE YieldTrap
    BY <1>4, TrapInv DEF YieldTrap, TaskTrap
  <1>5. CASE UnknownSyscallTrap
    BY <1>5, TrapInv DEF UnknownSyscallTrap, TaskTrap
  <1>6. CASE AccessFaultTrap \/ MajorAlert \/ CorruptPmp \/ CorruptSlot
    BY <1>6, AccessFaultInv, MajorAlertInv, CorruptPmpInv, CorruptSlotInv
  <1>7. CASE TickHandler
    BY <1>7, TickHandlerInv
  <1>8. CASE \E ms \in Delays : DelayHandler(ms)
    BY <1>8, DelayHandlerInv
  <1>9. CASE TrapReturn
    BY <1>9, TrapReturnInv
  <1>10. CASE UNCHANGED vars
    BY <1>10 DEF vars, tcb, cpu, engine, IndInv, TypeOK, Scheduling, Created, Others,
       CurrentOK, FramesOK, CreatedReady, EngineOK, CurrentTaskOwnsCore,
       OwnPmpSettings, IdleOnlyWhenDrained, StatesAgree
  <1> QED
    BY <1>1, <1>2, <1>3, <1>4, <1>5, <1>6, <1>7, <1>8, <1>9, <1>10 DEF Next

(***************************************************************************)
(* Every reachable state of the RTOS satisfies the inductive invariant.    *)
(***************************************************************************)
THEOREM Invariance == Spec => []IndInv
  BY InitIndInv, NextInv, PTL DEF Spec

\* The variables of Rtos keep their types.
THEOREM TypeCorrect == Spec => []TypeOK
  <1>1. IndInv => TypeOK
    BY DEF IndInv
  <1> QED
    BY <1>1, Invariance, PTL

(***************************************************************************)
(* U-mode code always runs under its own PMP settings: trap_return and     *)
(* fi_resilient_task_pmp_init agree on the slot.                           *)
(***************************************************************************)
THEOREM Isolation == Spec => []OwnPmpSettings
  <1>1. IndInv => OwnPmpSettings
    BY DEF IndInv
  <1> QED
    BY <1>1, Invariance, PTL

(***************************************************************************)
(* The task the kernel calls current is the one whose registers, stack and *)
(* privilege are in use outside the kernel, however ticks, delays, yields  *)
(* and faults interleave.                                                  *)
(***************************************************************************)
THEOREM CoreOwnership == Spec => []CurrentTaskOwnsCore
  <1>1. IndInv => CurrentTaskOwnsCore
    BY DEF IndInv
  <1> QED
    BY <1>1, Invariance, PTL

(***************************************************************************)
(* Every task that does not execute has its own registers on its own       *)
(* stack, and stack_ptr of its control block leads to them: no handler     *)
(* overwrites the context of another task or returns on a foreign stack.   *)
(***************************************************************************)
THEOREM ContextsKept == Spec => []ContextsPreserved
  <1>1. IndInv => ContextsPreserved
    <2> SUFFICES ASSUME IndInv, Scheduling, NEW t \in Created,
                        t # current_task_index \/ phase # "user"
                 PROVE  stack_ptr[t] = t /\ frame[t].ctx = t
      BY DEF ContextsPreserved
    <2>1. phase # "halted"
      BY DEF Scheduling
    <2>2. stack_ptr[t] = t /\ frame[t] = [ctx |-> t, mode |-> PrivilegeOf(t)]
      BY <2>1 DEF IndInv, FramesOK
    <2> QED
      BY <2>2
  <1> QED
    BY <1>1, Invariance, PTL

(***************************************************************************)
(* Switching tasks raises no alert, and while there is none a task runs    *)
(* under what its own slot holds, which is its own settings unless a fault *)
(* has changed the slot in a way its parity does not tell.                 *)
(***************************************************************************)
THEOREM AlertsAreTrue == Spec => []AlertUnlessHidden
  <1>1. IndInv => AlertUnlessHidden
    <2> SUFFICES ASSUME IndInv, phase = "user", PSE, mode = "U"
                 PROVE  AlertUnlessHidden
      BY DEF AlertUnlessHidden
    <2>1. current_task_index \in Others /\ current_task_index \in TaskIndex
      BY RtosAssumption DEF IndInv, TypeOK, CurrentOK, Scheduling, Others, Created,
         TaskIndex, CurrentTaskOwnsCore, PrivilegeOf
    <2>2. slot_select = current_task_index % NSlots
      BY DEF IndInv, EngineOK
    <2>3. slot[slot_select] \in {current_task_index} \cup Bad
      BY <2>1, <2>2 DEF IndInv, EngineOK
    <2>4. pmp \in {current_task_index} \cup Bad
      BY DEF IndInv, OwnPmpSettings
    <2>5. CASE RdError
      <3>1. pmp # slot[slot_select] \/ pmp \in Noticed
        BY <2>5 DEF RdError
      <3>2. {pmp, slot[slot_select]} \cap Bad # {}
        BY <2>3, <2>4, <3>1 DEF Bad
      <3> QED
        BY <2>5, <3>2 DEF AlertUnlessHidden
    <2>6. CASE ~RdError
      <3>1. pmp = slot[slot_select] /\ pmp \notin Noticed
        BY <2>6 DEF RdError
      <3>2. pmp \in {current_task_index} \cup Hidden
        BY <2>4, <3>1 DEF Bad
      <3> QED
        BY <2>2, <2>6, <3>1, <3>2 DEF AlertUnlessHidden
    <2> QED
      BY <2>5, <2>6
  <1> QED
    BY <1>1, Invariance, PTL

(***************************************************************************)
(* The idle task never has the core while another task is ready.           *)
(***************************************************************************)
THEOREM WorkIsConserved == Spec => [](IdleOnlyWhenDrained /\ StatesAgree)
  <1>1. IndInv => IdleOnlyWhenDrained /\ StatesAgree
    BY DEF IndInv
  <1> QED
    BY <1>1, Invariance, PTL

(***************************************************************************)
(* No sleeper is taken up while another task is ready: between two turns   *)
(* of one task every ready task has one.  Only the tick handler marks a    *)
(* sleeper ready, and only from the idle task.                             *)
(***************************************************************************)
Waking == \E t \in Others : state[t] = "waiting" /\ state'[t] = "ready"

LEMMA OnlyTicksWake ==
  ASSUME IndInv, Next, Waking
  PROVE  TickHandler /\ Woken(tick_count') # {}
  <1> USE RtosAssumption DEF TaskIndex, Created, Others
  <1>1. PICK t \in Others : state[t] = "waiting" /\ state'[t] = "ready"
    BY DEF Waking
  <1>2. t \in TaskIndex
    BY DEF IndInv, TypeOK
  <1>3. CASE CreateTask \/ CreateTaskFault
    <2>1. state' = [state EXCEPT ![task_count] = "ready"] /\ t # task_count
      BY <1>3 DEF CreateTask, CreateTaskFault, FillControlBlock, InitialContext, IndInv, TypeOK
    <2> QED
      BY <1>1, <1>2, <2>1 DEF IndInv, TypeOK
  <1>4. CASE RunScheduler
    <2>1. PICK u \in Created \ {0} : state' = [state EXCEPT ![u] = "running"]
      BY <1>4 DEF RunScheduler
    <2> QED
      BY <1>1, <1>2, <2>1 DEF IndInv, TypeOK
  <1>5. CASE TimerTrap \/ DelayTrap \/ YieldTrap \/ UnknownSyscallTrap
    BY <1>1, <1>5 DEF TimerTrap, DelayTrap, YieldTrap, UnknownSyscallTrap, TaskTrap,
       Trap, tcb
  <1>6. CASE AccessFaultTrap \/ MajorAlert \/ CorruptPmp \/ CorruptSlot \/ TrapReturn
    BY <1>1, <1>6 DEF AccessFaultTrap, MajorAlert, CorruptPmp, CorruptSlot, TrapReturn,
       Halt, tcb
  <1>7. CASE \E ms \in Delays : DelayHandler(ms)
    <2>1. PICK next \in Runnable \cup {0} :
            state' = [state EXCEPT ![current_task_index] = "waiting",
                                   ![next] = "running"]
      BY <1>7 DEF DelayHandler
    <2> QED
      BY <1>1, <1>2, <2>1 DEF IndInv, TypeOK
  <1>8. CASE TickHandler
    BY <1>1, <1>2, <1>8 DEF TickHandler
  <1> QED
    BY <1>3, <1>4, <1>5, <1>6, <1>7, <1>8 DEF Next

THEOREM TurnsBeforeWaking == Spec => WakeOnlyWhenDrained
  <1>1. ASSUME IndInv, [Next]_vars, Waking
        PROVE  \A u \in Others : state[u] # "ready"
    <2>1. Next
      BY <1>1 DEF vars, tcb, Waking
    <2>2. TickHandler /\ Woken(tick_count') # {}
      BY <1>1, <2>1, OnlyTicksWake
    <2>3. Scheduling /\ current_task_index = 0
      BY <2>2 DEF TickHandler, Woken, Scheduling
    <2> QED
      BY <1>1, <2>3 DEF IndInv, IdleOnlyWhenDrained
  <1>2. IndInv /\ [Next]_vars =>
          [Waking => \A u \in Others : state[u] # "ready"]_vars
    BY <1>1
  <1> QED
    BY <1>2, Invariance, PTL DEF Spec, WakeOnlyWhenDrained, Waking

(***************************************************************************)
(* Whatever happened to the PMP CSRs before, a return to U-mode code has   *)
(* installed the settings of the task that is returned to, unless a lock   *)
(* bit or a corrupted slot prevents it.                                    *)
(***************************************************************************)
THEOREM ReturnsRepairPmp == Spec => ReturnRestoresPmp
  <1> DEFINE Returning == phase = "return" /\ phase' = "user" /\ mode' = "U"
             Repaired == \/ pmp' = current_task_index'
                         \/ pmp \in {Locked, HiddenLock}
                         \/ PSE /\ slot[current_task_index' % NSlots] \in Bad
  <1>1. ASSUME IndInv, Next, Returning PROVE Repaired
    <2>1. TrapReturn
      <3>1. phase = "return" /\ phase' # "return" /\ phase' # "halted"
        BY <1>1
      <3>2. ~CreateTask /\ ~CreateTaskFault /\ ~RunScheduler
        BY <3>1 DEF CreateTask, CreateTaskFault, RunScheduler
      <3>3. ~TimerTrap /\ ~DelayTrap /\ ~YieldTrap /\ ~UnknownSyscallTrap
        BY <3>1 DEF TimerTrap, DelayTrap, YieldTrap, UnknownSyscallTrap, TaskTrap, Trap
      <3>4. ~AccessFaultTrap /\ ~MajorAlert
        BY <3>1 DEF AccessFaultTrap, MajorAlert
      <3>5. ~CorruptPmp /\ ~CorruptSlot
        BY <3>1 DEF CorruptPmp, CorruptSlot
      <3>6. ~TickHandler /\ \A ms \in Delays : ~DelayHandler(ms)
        BY <3>1 DEF TickHandler, DelayHandler
      <3> QED
        BY <1>1, <3>2, <3>3, <3>4, <3>5, <3>6 DEF Next
    <2>2. current_task_index' = current_task_index /\ IndInv'
      BY <1>1, <2>1, TrapReturnInv DEF TrapReturn
    <2>3. current_task_index \notin Privileged
      BY <1>1, <2>2 DEF IndInv, CurrentTaskOwnsCore, PrivilegeOf
    <2> QED
      BY <1>1, <2>1, <2>2, <2>3, ReturnInstallsSettings
  <1>2. IndInv /\ [Next]_vars => [Returning => Repaired]_vars
    BY <1>1
  <1> QED
    BY <1>2, Invariance, PTL DEF Spec, ReturnRestoresPmp

(***************************************************************************)
(* A tick that interrupts the idle task makes ready exactly the sleepers   *)
(* whose time has come: nobody was ready before (WorkIsConserved), the     *)
(* comparison of the loop in tick_interrupt_handler is with the tick just  *)
(* counted, and the task the loop leaves as current is one it has woken.   *)
(***************************************************************************)
THEOREM IdleTicksWakeAll == Spec => IdleTickWakesAllDue
  <1> DEFINE IdleTick == phase = "tick" /\ phase' = "return" /\ current_task_index = 0
             due == Due(tick_count')
             DueAreReady ==
               /\ MarkedReady' = due
               /\ IF due = {} THEN current_task_index' = 0
                             ELSE current_task_index' \in due
  <1>1. ASSUME IndInv, Next, IdleTick PROVE DueAreReady
    <2>1. TickHandler
      <3>1. phase = "tick" /\ phase' = "return"
        BY <1>1
      <3>2. ~CreateTask /\ ~CreateTaskFault /\ ~RunScheduler
        BY <3>1 DEF CreateTask, CreateTaskFault, RunScheduler
      <3>3. ~TimerTrap /\ ~DelayTrap /\ ~YieldTrap /\ ~UnknownSyscallTrap
        BY <3>1 DEF TimerTrap, DelayTrap, YieldTrap, UnknownSyscallTrap, TaskTrap, Trap
      <3>4. ~AccessFaultTrap /\ ~MajorAlert /\ ~TrapReturn
        BY <3>1 DEF AccessFaultTrap, MajorAlert, TrapReturn
      <3>5. ~CorruptPmp /\ ~CorruptSlot
        BY <3>1 DEF CorruptPmp, CorruptSlot
      <3>6. \A ms \in Delays : ~DelayHandler(ms)
        BY <3>1 DEF DelayHandler
      <3> QED
        BY <1>1, <3>2, <3>3, <3>4, <3>5, <3>6 DEF Next
    <2>2. Woken(tick_count') = due
      BY <1>1 DEF Woken, Due, Others
    <2>3. /\ Others \subseteq TaskIndex /\ Others' = Others /\ due \subseteq Others
          /\ \A t \in Others : state[t] # "ready"
      BY <1>1, <2>1, RtosAssumption
      DEF TickHandler, IndInv, TypeOK, IdleOnlyWhenDrained, Scheduling, Others,
          Created, TaskIndex, Due
    <2>4. state' = [t \in TaskIndex |-> IF t \in due THEN "ready" ELSE state[t]]
      BY <2>1, <2>2 DEF TickHandler
    <2> HIDE DEF due
    <2>5. \A t \in Others : state'[t] = "ready" <=> t \in due
      BY <2>3, <2>4
    <2>6. MarkedReady' = due
      BY <2>3, <2>5 DEF MarkedReady
    <2>7. PICK t \in Created :
            /\ Switch(t)
            /\ \/ t = current_task_index /\ Woken(tick_count') = {}
               \/ current_task_index = 0 /\ t \in Woken(tick_count')
      BY <1>1, <2>1, TickSwitch
    <2>8. IF due = {} THEN current_task_index' = 0 ELSE current_task_index' \in due
      BY <1>1, <2>2, <2>7 DEF Switch
    <2> QED
      BY <2>6, <2>8
  <1>2. IndInv /\ [Next]_vars => [IdleTick => DueAreReady]_vars
    BY <1>1
  <1> QED
    BY <1>2, Invariance, PTL DEF Spec, IdleTickWakesAllDue

-----------------------------------------------------------------------------
(* The refinement, action by action, as long as the counters do not wrap.  *)

(***************************************************************************)
(* What the mapping needs beyond IndInv.  A control block that was never   *)
(* filled in is idle; and once the scheduler runs some task is marked      *)
(* running or waiting for ever: a task that delays is left waiting, and    *)
(* sleepers are only woken while the idle task is marked running.          *)
(***************************************************************************)
MarksOK ==
  /\ phase # "halted" =>
       \A t \in TaskIndex : t \notin Created => state[t] = "idle"
  /\ Scheduling => HasStarted
  /\ Scheduling /\ current_task_index = 0 => state[0] = "running"

RefInv == IndInv /\ MarksOK

LEMMA InitMarks == Init => MarksOK
  BY RtosAssumption DEF Init, MarksOK, Scheduling, TaskIndex

\* Nobody has run before run_scheduler.
LEMMA NotStarted ==
  ASSUME RefInv, phase = "create"
  PROVE  ~HasStarted
  BY DEF RefInv, IndInv, CreatedReady, MarksOK, HasStarted

\* Steps that leave the tables of the scheduler alone keep the marks.
LEMMA SameMarks ==
  ASSUME MarksOK, UNCHANGED <<state, current_task_index, task_count>>,
         phase' = "halted" \/ (Scheduling /\ Scheduling') \/ phase' = phase
  PROVE  MarksOK'
  BY DEF MarksOK, Scheduling, HasStarted, Created

LEMMA CreateMarks ==
  ASSUME RefInv, CreateTask \/ CreateTaskFault
  PROVE  MarksOK'
  <1> USE RtosAssumption DEF TaskIndex, Created, Scheduling
  <1>1. /\ phase = "create" /\ phase' \in {"create", "halted"}
        /\ task_count \in TaskIndex
        /\ state' = [state EXCEPT ![task_count] = "ready"]
        /\ phase' # "halted" => task_count' = task_count + 1
    BY DEF CreateTask, CreateTaskFault, ListFull, FillControlBlock, RefInv, IndInv, TypeOK
  <1>2. ASSUME NEW t \in TaskIndex, phase' # "halted", t \notin Created'
        PROVE  state'[t] = "idle"
    <2>1. t \notin Created /\ t # task_count
      BY <1>1, <1>2
    <2> QED
      BY <1>1, <2>1 DEF RefInv, MarksOK, IndInv, TypeOK
  <1> QED
    BY <1>1, <1>2 DEF MarksOK

LEMMA RunMarks ==
  ASSUME RefInv, RunScheduler
  PROVE  MarksOK'
  <1> USE RtosAssumption DEF TaskIndex, Created, Scheduling
  <1>1. PICK t \in Created \ {0} :
           /\ current_task_index' = t
           /\ state' = [state EXCEPT ![t] = "running"]
    BY DEF RunScheduler
  <1>2. phase = "create" /\ phase' = "return" /\ task_count' = task_count
        /\ t \in TaskIndex
    BY DEF RunScheduler, LaunchTask, RefInv, IndInv, TypeOK
  <1>3. state'[t] = "running"
    BY <1>1, <1>2 DEF RefInv, IndInv, TypeOK
  <1>4. \A u \in TaskIndex : u \notin Created => state'[u] = "idle"
    BY <1>1, <1>2 DEF RefInv, MarksOK, IndInv, TypeOK
  <1> QED
    BY <1>1, <1>2, <1>3, <1>4 DEF MarksOK, HasStarted

LEMMA TickMarks ==
  ASSUME RefInv, TickHandler
  PROVE  MarksOK'
  <1> USE RtosAssumption DEF TaskIndex, Created, Scheduling
  <1> DEFINE woken == Woken(tick_count')
  <1>1. PICK t \in Created :
           /\ Switch(t)
           /\ \/ t = current_task_index /\ woken = {}
              \/ current_task_index = 0 /\ t \in woken
    BY TickSwitch DEF RefInv
  <1>2. /\ phase = "tick" /\ phase' = "return" /\ current_task_index' = t
        /\ task_count' = task_count
        /\ state' = [u \in TaskIndex |-> IF u \in woken THEN "ready" ELSE state[u]]
    BY <1>1 DEF TickHandler, Switch
  <1>3. \A u \in woken : u # 0 /\ u \in Created /\ current_task_index = 0
    BY DEF Woken
  <1>4. \A u \in TaskIndex : u \notin Created => state[u] = "idle"
    BY <1>2 DEF RefInv, MarksOK
  <1> HIDE DEF woken
  <1>5. \A u \in TaskIndex : u \notin Created' => state'[u] = "idle"
    BY <1>2, <1>3, <1>4
  <1>6. t = 0 => state'[0] = "running"
    BY <1>1, <1>2, <1>3 DEF RefInv, MarksOK
  <1>7. \E u \in TaskIndex : state'[u] \in {"running", "waiting"}
    <2>1. CASE woken = {}
      BY <1>2, <2>1 DEF RefInv, MarksOK, HasStarted
    <2>2. CASE woken # {}
      <3>1. current_task_index = 0
        BY <1>1, <2>2
      <3>2. state[0] = "running" /\ 0 \in TaskIndex /\ 0 \notin woken
        BY <1>2, <1>3, <3>1 DEF RefInv, MarksOK
      <3>3. state'[0] = "running"
        BY <1>2, <3>2
      <3> QED
        BY <3>2, <3>3
    <2> QED
      BY <2>1, <2>2
  <1> QED
    BY <1>2, <1>5, <1>6, <1>7 DEF MarksOK, HasStarted

\* What a delay does to the marks: the caller waits and the next task runs.
LEMMA DelayMarks ==
  ASSUME NEW ms \in Delays, RefInv, DelayHandler(ms)
  PROVE  /\ MarksOK'
         /\ \E next \in Runnable \cup {0} :
              /\ IF Runnable = {} THEN next = 0 ELSE next # 0
              /\ current_task_index' = next
              /\ next \in TaskIndex /\ next # current_task_index
              /\ \A u \in TaskIndex :
                   state'[u] = IF u = next THEN "running"
                               ELSE IF u = current_task_index THEN "waiting"
                               ELSE state[u]
  <1> USE RtosAssumption DEF TaskIndex, Created, Scheduling
  <1>1. PICK next \in Runnable \cup {0} :
           /\ IF Runnable = {} THEN next = 0 ELSE next # 0
           /\ state' = [state EXCEPT ![current_task_index] = "waiting",
                                     ![next] = "running"]
           /\ Switch(next)
    BY DEF DelayHandler
  <1>2. /\ phase = "delay" /\ phase' = "return" /\ task_count' = task_count
        /\ current_task_index' = next
        /\ current_task_index \in Created /\ current_task_index # 0
        /\ next \in Created /\ next \in TaskIndex /\ next # current_task_index
    BY <1>1 DEF DelayHandler, Switch, RefInv, IndInv, TypeOK, CurrentOK, Runnable
  <1>3. \A u \in TaskIndex : state'[u] = IF u = next THEN "running"
                             ELSE IF u = current_task_index THEN "waiting" ELSE state[u]
    BY <1>1, <1>2 DEF RefInv, IndInv, TypeOK
  <1>4. \A u \in TaskIndex : u \notin Created' => state'[u] = "idle"
    BY <1>2, <1>3 DEF RefInv, MarksOK
  <1>5. MarksOK'
    BY <1>2, <1>3, <1>4 DEF MarksOK, HasStarted
  <1> QED
    BY <1>1, <1>2, <1>3, <1>5

(***************************************************************************)
(* The scheduler sees nothing of a trap, a fault, an alert or a return.    *)
(***************************************************************************)
Silent ==
  \/ TimerTrap \/ DelayTrap \/ YieldTrap \/ UnknownSyscallTrap
  \/ AccessFaultTrap \/ MajorAlert \/ CorruptPmp \/ CorruptSlot
  \/ TrapReturn

LEMMA SilentSteps ==
  ASSUME Silent
  PROVE  /\ UNCHANGED <<state, wake_tick, tick_count, task_count, current_task_index>>
         /\ phase' = "halted" \/ (Scheduling /\ Scheduling') \/ phase' = phase
  <1>1. CASE TimerTrap \/ DelayTrap \/ YieldTrap \/ UnknownSyscallTrap
    BY <1>1 DEF TimerTrap, DelayTrap, YieldTrap, UnknownSyscallTrap, TaskTrap, Trap,
       tcb, Scheduling
  <1>2. CASE AccessFaultTrap \/ MajorAlert
    BY <1>2 DEF AccessFaultTrap, MajorAlert, Halt, tcb
  <1>3. CASE CorruptPmp \/ CorruptSlot
    BY <1>3 DEF CorruptPmp, CorruptSlot, tcb
  <1>4. CASE TrapReturn
    BY <1>4 DEF TrapReturn, tcb, Scheduling
  <1> QED
    BY <1>1, <1>2, <1>3, <1>4 DEF Silent

LEMMA NextRefInv == RefInv /\ [Next]_vars => RefInv'
  <1> SUFFICES ASSUME RefInv, [Next]_vars PROVE RefInv'
    OBVIOUS
  <1>1. IndInv'
    BY NextInv DEF RefInv
  <1>2. CASE CreateTask \/ CreateTaskFault
    BY <1>1, <1>2, CreateMarks DEF RefInv
  <1>3. CASE RunScheduler
    BY <1>1, <1>3, RunMarks DEF RefInv
  <1>4. CASE TickHandler
    BY <1>1, <1>4, TickMarks DEF RefInv
  <1>5. CASE \E ms \in Delays : DelayHandler(ms)
    BY <1>1, <1>5, DelayMarks DEF RefInv
  <1>6. CASE Silent
    BY <1>1, <1>6, SilentSteps, SameMarks DEF RefInv
  <1>7. CASE UNCHANGED vars
    BY <1>1, <1>7, SameMarks DEF RefInv, vars, tcb
  <1> QED
    BY <1>2, <1>3, <1>4, <1>5, <1>6, <1>7 DEF Next, Silent

-----------------------------------------------------------------------------
(* The steps of the mapping.                                               *)

Mapped == <<HasStarted, Turn, ReadyTasks, SleepingTasks, Delayed>>

LEMMA InitMaps == Init => Scheduler!Init
  <1> SUFFICES ASSUME Init PROVE Scheduler!Init
    OBVIOUS
  <1>1. \A t \in TaskIndex : state[t] = "idle"
    BY DEF Init
  <1>2. ~HasStarted /\ ReadyTasks = {} /\ SleepingTasks = {} /\ Turn = 0
    BY <1>1 DEF HasStarted, ReadyTasks, SleepingTasks, Turn
  <1>3. Delayed = [t \in TaskIndex \ {0} |-> 0]
    BY <1>1 DEF Delayed, TicksLeft
  <1> QED
    BY <1>2, <1>3 DEF Scheduler!Init

\* Steps that leave the states, the wake-up times and the clock alone.
LEMMA UnseenSteps ==
  ASSUME UNCHANGED <<state, wake_tick, tick_count, current_task_index>>
  PROVE  UNCHANGED Mapped
  BY DEF Mapped, HasStarted, Turn, ReadyTasks, SleepingTasks, Delayed, TicksLeft

\* Before the start nobody runs or sleeps, and no delay is pending.
LEMMA BeforeStart ==
  ASSUME RefInv, phase = "create"
  PROVE  /\ HasStarted = FALSE /\ Turn = 0 /\ SleepingTasks = {}
         /\ ReadyTasks = {t \in TaskIndex \ {0} : state[t] = "ready"}
         /\ Delayed = [t \in TaskIndex \ {0} |-> 0]
  <1>1. ~HasStarted
    BY NotStarted
  <1>2. \A t \in TaskIndex : state[t] # "waiting" /\ state[t] # "running"
    BY <1>1 DEF HasStarted
  <1>3. Delayed = [t \in TaskIndex \ {0} |-> 0]
    BY <1>2 DEF Delayed, TicksLeft
  <1>4. HasStarted = FALSE
    BY <1>1 DEF HasStarted
  <1> QED
    BY <1>1, <1>2, <1>3, <1>4 DEF Turn, SleepingTasks, ReadyTasks

\* create_task adds a task, or the idle task, which the abstraction does not list.
LEMMA CreateMaps ==
  ASSUME RefInv, CreateTask \/ CreateTaskFault
  PROVE  (\E t \in TaskIndex \ {0} : Scheduler!Add(t)) \/ UNCHANGED Mapped
  <1> USE RtosAssumption DEF TaskIndex, Created
  <1> DEFINE new == task_count
  <1>1. /\ phase = "create" /\ new \in TaskIndex
        /\ state' = [state EXCEPT ![new] = "ready"]
        /\ wake_tick' = [wake_tick EXCEPT ![new] = 0]
        /\ tick_count' = tick_count
    BY DEF CreateTask, CreateTaskFault, ListFull, FillControlBlock, RefInv, IndInv, TypeOK
  <1>2. state[new] = "idle" /\ state'[new] = "ready"
        /\ \A t \in TaskIndex : t # new => state'[t] = state[t]
    BY <1>1 DEF RefInv, MarksOK, IndInv, TypeOK
  <1> HIDE DEF new
  <1>3. \A t \in TaskIndex : state[t] # "waiting" /\ state[t] # "running"
    BY <1>1, NotStarted DEF HasStarted
  <1>4. \A t \in TaskIndex : state'[t] # "waiting" /\ state'[t] # "running"
    BY <1>2, <1>3
  <1>5. ~HasStarted /\ ~HasStarted'
    BY <1>3, <1>4 DEF HasStarted
  <1>6. UNCHANGED <<HasStarted, Turn, SleepingTasks, Delayed>>
    <2>1. UNCHANGED HasStarted
      BY <1>5 DEF HasStarted
    <2>2. UNCHANGED Turn
      BY <1>5 DEF Turn
    <2>3. UNCHANGED SleepingTasks
      BY <1>3, <1>4 DEF SleepingTasks
    <2>4. UNCHANGED Delayed
      BY <1>3, <1>4 DEF Delayed, TicksLeft
    <2> QED
      BY <2>1, <2>2, <2>3, <2>4
  <1>7. CASE new = 0
    <2>1. UNCHANGED ReadyTasks
      BY <1>2, <1>5, <1>7 DEF ReadyTasks
    <2> QED
      BY <1>6, <2>1 DEF Mapped
  <1>8. CASE new # 0
    <2>1. ReadyTasks' = ReadyTasks \cup {new} /\ new \notin ReadyTasks
      BY <1>1, <1>2, <1>5, <1>8 DEF ReadyTasks
    <2>2. Scheduler!Add(new)
      BY <1>5, <1>6, <2>1 DEF Scheduler!Add
    <2> QED
      BY <1>1, <1>8, <2>2
  <1> QED
    BY <1>7, <1>8

\* run_scheduler gives the first turn to a ready task.
LEMMA RunMaps ==
  ASSUME RefInv, RunScheduler
  PROVE  Scheduler!Start
  <1> USE RtosAssumption DEF TaskIndex, Created
  <1>1. PICK t \in Created \ {0} :
           /\ state[t] = "ready"
           /\ current_task_index' = t
           /\ state' = [state EXCEPT ![t] = "running"]
    BY DEF RunScheduler
  <1>2. /\ phase = "create" /\ t \in TaskIndex
        /\ wake_tick' = wake_tick /\ tick_count' = tick_count
    BY DEF RunScheduler, RefInv, IndInv, TypeOK
  <1>3. state'[t] = "running" /\ \A u \in TaskIndex : u # t => state'[u] = state[u]
    BY <1>1, <1>2 DEF RefInv, IndInv, TypeOK
  <1>4. \A u \in TaskIndex : state[u] # "waiting" /\ state[u] # "running"
    BY <1>2, NotStarted DEF HasStarted
  <1>5. \A u \in TaskIndex : state'[u] # "waiting"
    BY <1>3, <1>4
  <1>6. ~HasStarted /\ HasStarted' /\ HasStarted' = TRUE
    BY <1>2, <1>3, <1>4 DEF HasStarted
  <1>7. Turn' = t
    BY <1>1, <1>6 DEF Turn
  <1>8. t \in ReadyTasks /\ ReadyTasks' = ReadyTasks \ {t}
    BY <1>1, <1>2, <1>3, <1>6 DEF ReadyTasks
  <1>9. UNCHANGED SleepingTasks
    BY <1>4, <1>5 DEF SleepingTasks
  <1>10. UNCHANGED Delayed
    BY <1>4, <1>5 DEF Delayed, TicksLeft
  <1> QED
    BY <1>6, <1>7, <1>8, <1>9, <1>10 DEF Scheduler!Start

\* A clock that does not go back has not wrapped.
LEMMA TickCounts ==
  ASSUME RefInv, TickHandler, NoWrap
  PROVE  tick_count \in Nat /\ tick_count' = tick_count + 1
  <1>1. tick_count \in Nat /\ tick_count < WordMod /\ WordMod \in Nat /\ WordMod > 1
    BY RtosAssumption DEF RefInv, IndInv, TypeOK, Word
  <1>2. tick_count' = (tick_count + 1) % WordMod /\ tick_count' >= tick_count
    BY DEF TickHandler, NoWrap
  <1>3. CASE tick_count + 1 < WordMod
    BY <1>1, <1>2, <1>3
  <1>4. CASE tick_count + 1 = WordMod
    <2>1. WordMod % WordMod = 0
      BY <1>1
    <2> QED
      BY <1>1, <1>2, <1>4, <2>1
  <1> QED
    BY <1>1, <1>3, <1>4

(***************************************************************************)
(* The tick handler is a tick of the scheduler: it counts one tick of each *)
(* delay down, and the sleepers it wakes are those whose delay is over.    *)
(***************************************************************************)
LEMMA TickMaps ==
  ASSUME RefInv, TickHandler, NoWrap
  PROVE  Scheduler!Tick
  <1> USE RtosAssumption DEF TaskIndex, Created, Scheduling
  <1> DEFINE woken == Woken(tick_count')
             left == [t \in TaskIndex \ {0} |-> Scheduler!OneLess(Delayed[t])]
  <1>1. PICK t \in Created :
           /\ Switch(t)
           /\ \/ t = current_task_index /\ woken = {}
              \/ current_task_index = 0 /\ t \in woken
    BY TickSwitch DEF RefInv
  <1>2. /\ phase = "tick" /\ phase' = "return" /\ current_task_index' = t
        /\ task_count' = task_count
        /\ state' = [u \in TaskIndex |-> IF u \in woken THEN "ready" ELSE state[u]]
        /\ wake_tick' = [u \in TaskIndex |-> IF u \in woken THEN 0 ELSE wake_tick[u]]
    BY <1>1 DEF TickHandler, Switch
  <1>3. tick_count \in Nat /\ tick_count' = tick_count + 1
    BY TickCounts
  <1>4. \A u \in TaskIndex : wake_tick[u] \in Nat
    BY DEF RefInv, IndInv, TypeOK, Word
  <1>5. HasStarted = TRUE /\ HasStarted' = TRUE
    <2>1. HasStarted /\ HasStarted'
      BY <1>2, TickMarks DEF RefInv, MarksOK
    <2> QED
      BY <2>1 DEF HasStarted
  <1>6. Turn = current_task_index /\ Turn' = t
    BY <1>2, <1>5 DEF Turn
  <1>7. \A u \in TaskIndex : u \notin Created => state[u] = "idle"
    BY <1>2 DEF RefInv, MarksOK
  <1>8. woken = {u \in SleepingTasks :
                   current_task_index = 0 /\ wake_tick[u] <= tick_count'}
    <2>1. Created \subseteq TaskIndex
      BY DEF RefInv, IndInv, TypeOK
    <2> QED
      BY <1>7, <2>1 DEF Woken, SleepingTasks
  <1> HIDE DEF woken
  <1>9. \A u \in TaskIndex \ {0} :
          Delayed[u] = IF state[u] = "waiting" /\ wake_tick[u] > tick_count
                       THEN wake_tick[u] - tick_count ELSE 0
    BY DEF Delayed, TicksLeft
  <1>10. \A u \in TaskIndex \ {0} :
           left[u] = IF state[u] = "waiting" /\ wake_tick[u] > tick_count'
                     THEN wake_tick[u] - tick_count' ELSE 0
    <2> TAKE u \in TaskIndex \ {0}
    <2>1. left[u] = IF Delayed[u] = 0 THEN 0 ELSE Delayed[u] - 1
      BY DEF Scheduler!OneLess
    <2> HIDE DEF left
    <2> QED
      BY <1>3, <1>4, <1>9, <2>1
  <1>11. Scheduler!Over(left) = woken
    <2>1. Scheduler!Over(left) = {u \in SleepingTasks : Turn = 0 /\ left[u] = 0}
      BY DEF Scheduler!Over
    <2> HIDE DEF left
    <2>2. \A u \in SleepingTasks : left[u] = 0 <=> wake_tick[u] <= tick_count'
      <3> TAKE u \in SleepingTasks
      <3>1. u \in TaskIndex \ {0} /\ state[u] = "waiting"
        BY DEF SleepingTasks
      <3> QED
        BY <1>3, <1>4, <1>10, <3>1
    <2> QED
      BY <1>6, <1>8, <2>1, <2>2
  <1>12. Delayed' = left
    <2>1. Delayed' = [u \in TaskIndex \ {0} |->
            IF state'[u] = "waiting" /\ wake_tick'[u] > tick_count'
            THEN wake_tick'[u] - tick_count' ELSE 0]
      BY DEF Delayed, TicksLeft
    <2>2. ASSUME NEW u \in TaskIndex \ {0}
          PROVE  (IF state'[u] = "waiting" /\ wake_tick'[u] > tick_count'
                  THEN wake_tick'[u] - tick_count' ELSE 0) = left[u]
      <3> HIDE DEF left
      <3>1. CASE u \in woken
        <4>1. state'[u] = "ready" /\ ~ (wake_tick[u] > tick_count')
          BY <1>2, <1>3, <1>4, <1>8, <3>1
        <4> QED
          BY <1>10, <4>1
      <3>2. CASE u \notin woken
        <4>1. state'[u] = state[u] /\ wake_tick'[u] = wake_tick[u]
          BY <1>2, <3>2
        <4> QED
          BY <1>10, <4>1
      <3> QED
        BY <3>1, <3>2
    <2>3. left = [u \in TaskIndex \ {0} |-> left[u]]
      OBVIOUS
    <2> HIDE DEF left
    <2> QED
      BY <2>1, <2>2, <2>3
  <1>13. SleepingTasks' = SleepingTasks \ woken
    BY <1>2, <1>8 DEF SleepingTasks
  <1>14. ReadyTasks = {u \in TaskIndex \ {0} : state[u] = "ready" /\ u # current_task_index}
         /\ ReadyTasks' = {u \in TaskIndex \ {0} : state'[u] = "ready" /\ u # t}
    BY <1>2, <1>5 DEF ReadyTasks
  <1>15. CASE woken = {}
    <2>1. t = current_task_index /\ state' = state
      <3>1. t = current_task_index
        BY <1>1, <1>15
      <3>2. \A u \in TaskIndex : state'[u] = state[u]
        BY <1>2, <1>15
      <3>3. state \in [TaskIndex -> States] /\ state' \in [TaskIndex -> States]
        BY NextInv DEF RefInv, IndInv, TypeOK, Next
      <3> QED
        BY <3>1, <3>2, <3>3
    <2>2. UNCHANGED <<Turn, ReadyTasks>>
      BY <1>6, <1>14, <2>1
    <2> HIDE DEF left
    <2> QED
      BY <1>5, <1>11, <1>12, <1>13, <1>15, <2>2 DEF Scheduler!Tick, left
  <1>16. CASE woken # {}
    <2>1. current_task_index = 0 /\ t \in woken
      BY <1>1, <1>16
    <2>2. \A u \in TaskIndex \ {0} : state[u] # "ready"
      BY <1>2, <1>7, <2>1 DEF RefInv, IndInv, IdleOnlyWhenDrained, Others
    <2>3. \A u \in TaskIndex \ {0} : state'[u] = "ready" <=> u \in woken
      BY <1>2, <2>2
    <2>4. woken \subseteq TaskIndex \ {0}
      BY <1>8 DEF SleepingTasks
    <2>5. ReadyTasks' = woken \ {t}
      BY <1>14, <2>3, <2>4
    <2>6. Scheduler!GiveTurn(woken)
      BY <1>6, <2>1, <2>5 DEF Scheduler!GiveTurn
    <2> HIDE DEF left
    <2> QED
      BY <1>5, <1>11, <1>12, <1>13, <1>16, <2>6 DEF Scheduler!Tick, left
  <1> QED
    BY <1>15, <1>16

LEMMA DelayTicksFit == \A ms \in Delays : DelayTicks(ms) \in Nat /\ DelayTicks(ms) < WordMod
  <1> TAKE ms \in Delays
  <1> DEFINE n == (ms * TickRate) % WordMod
             q == n \div MsPerSecond
  <1>1. WordMod \in Nat /\ WordMod > 1 /\ MsPerSecond \in Nat /\ MsPerSecond > 0
    BY RtosAssumption
  <1>2. ms * TickRate \in Nat
    BY RtosAssumption
  <1>3. n \in Nat /\ n < WordMod
    BY <1>1, <1>2
  <1>4. DelayTicks(ms) = IF q = 0 /\ ms > 0 THEN 1 ELSE q
    BY DEF DelayTicks
  <1> HIDE DEF n
  <1>5. q \in Nat /\ q <= n
    BY <1>1, <1>3
  <1> HIDE DEF q
  <1> QED
    BY <1>1, <1>3, <1>4, <1>5

\* A wake-up time that has not wrapped is the ticks of the delay away.
LEMMA WakeTime ==
  ASSUME NEW ms \in Delays, RefInv, DelayHandler(ms), NoWrap
  PROVE  /\ tick_count \in Nat
         /\ wake_tick'[current_task_index] = tick_count + DelayTicks(ms)
  <1> DEFINE self == current_task_index
             d == DelayTicks(ms)
  <1>1. /\ tick_count \in Nat /\ tick_count < WordMod /\ WordMod \in Nat
        /\ wake_tick \in [TaskIndex -> Word]
    BY RtosAssumption DEF RefInv, IndInv, TypeOK, Word
  <1>2. self \in TaskIndex /\ state[self] # "waiting"
    BY RtosAssumption
    DEF RefInv, IndInv, TypeOK, CurrentOK, Scheduling, Created, TaskIndex, DelayHandler
  <1>3. state'[self] = "waiting"
    BY <1>2, DelayMarks
  <1>4. wake_tick'[self] >= tick_count
    BY <1>2, <1>3 DEF NoWrap
  <1>5. d \in Nat /\ d < WordMod
    BY DelayTicksFit
  <1>6. wake_tick'[self] = (tick_count + d) % WordMod
    BY <1>1, <1>2 DEF DelayHandler
  <1> HIDE DEF d
  <1>7. tick_count + d < WordMod => (tick_count + d) % WordMod = tick_count + d
    BY <1>1, <1>5
  <1>8. tick_count + d >= WordMod =>
          (tick_count + d) % WordMod = tick_count + d - WordMod
    BY <1>1, <1>5
  <1>9. (tick_count + d) % WordMod >= tick_count
    BY <1>4, <1>6
  <1>10. (tick_count + d) % WordMod = tick_count + d
    BY <1>1, <1>5, <1>7, <1>8, <1>9
  <1>11. wake_tick'[self] = tick_count + d
    BY <1>6, <1>10
  <1> QED
    BY <1>1, <1>11 DEF d

(***************************************************************************)
(* A delay puts the caller to sleep for the ticks it asked for, and gives  *)
(* the turn to a ready task, to the idle task when there is none.          *)
(***************************************************************************)
LEMMA DelayMaps ==
  ASSUME NEW ms \in Delays, RefInv, DelayHandler(ms), NoWrap
  PROVE  Scheduler!Sleep(DelayTicks(ms))
  <1> USE RtosAssumption DEF TaskIndex, Created, Scheduling
  <1> DEFINE self == current_task_index
             d == DelayTicks(ms)
  <1>1. PICK next \in Runnable \cup {0} :
           /\ IF Runnable = {} THEN next = 0 ELSE next # 0
           /\ current_task_index' = next
           /\ next \in TaskIndex /\ next # self
           /\ \A u \in TaskIndex :
                state'[u] = IF u = next THEN "running"
                            ELSE IF u = self THEN "waiting" ELSE state[u]
    BY DelayMarks
  <1>2. /\ phase = "delay" /\ phase' = "return" /\ task_count' = task_count
        /\ self \in Created /\ self # 0 /\ self \in TaskIndex
        /\ state[self] \in {"ready", "running"}
        /\ tick_count' = tick_count
        /\ \A u \in TaskIndex : u # self => wake_tick'[u] = wake_tick[u]
    BY DEF DelayHandler, Switch, RefInv, IndInv, TypeOK, CurrentOK
  <1>3. HasStarted = TRUE /\ HasStarted' = TRUE
    <2>1. HasStarted /\ HasStarted'
      BY <1>2, DelayMarks DEF RefInv, MarksOK
    <2> QED
      BY <2>1 DEF HasStarted
  <1>4. Turn = self /\ Turn' = next
    BY <1>1, <1>3 DEF Turn
  <1>5. ReadyTasks = {u \in TaskIndex \ {0} : state[u] = "ready" /\ u # self}
        /\ ReadyTasks' = {u \in TaskIndex \ {0} : state'[u] = "ready" /\ u # next}
    BY <1>1, <1>3 DEF ReadyTasks
  <1>6. Runnable = ReadyTasks
    <2>1. \A u \in TaskIndex : u \notin Created => state[u] = "idle"
      BY <1>2 DEF RefInv, MarksOK
    <2>2. \A u \in Others : is_ready[u] <=> state[u] # "waiting"
      BY DEF RefInv, IndInv, StatesAgree
    <2>3. Created \subseteq TaskIndex
      BY DEF RefInv, IndInv, TypeOK
    <2> QED
      BY <1>5, <2>1, <2>2, <2>3 DEF Runnable, Others
  <1>7. next # 0 => state[next] = "ready" /\ next \in ReadyTasks
    BY <1>1, <1>6 DEF Runnable
  <1>8. ReadyTasks' = ReadyTasks \ {next}
    BY <1>1, <1>5
  <1>9. Scheduler!GiveTurn(ReadyTasks)
    BY <1>1, <1>4, <1>6, <1>7, <1>8 DEF Scheduler!GiveTurn
  <1>10. SleepingTasks' = SleepingTasks \cup {self}
    <2>1. \A u \in TaskIndex \ {0} :
            state'[u] = "waiting" <=> u = self \/ state[u] = "waiting"
      BY <1>1, <1>2, <1>7
    <2> QED
      BY <1>2, <2>1 DEF SleepingTasks
  <1>11. Delayed' = [Delayed EXCEPT ![self] = d]
    <2>1. Delayed' = [u \in TaskIndex \ {0} |->
            IF state'[u] = "waiting" /\ wake_tick'[u] > tick_count'
            THEN wake_tick'[u] - tick_count' ELSE 0]
      BY DEF Delayed, TicksLeft
    <2>2. Delayed = [u \in TaskIndex \ {0} |->
            IF state[u] = "waiting" /\ wake_tick[u] > tick_count
            THEN wake_tick[u] - tick_count ELSE 0]
      BY DEF Delayed, TicksLeft
    <2>3. tick_count \in Nat /\ wake_tick'[self] = tick_count + d
          /\ d \in Nat /\ state'[self] = "waiting"
      BY <1>1, <1>2, WakeTime, DelayTicksType
    <2> HIDE DEF d, self
    <2>4. (IF state'[self] = "waiting" /\ wake_tick'[self] > tick_count'
           THEN wake_tick'[self] - tick_count' ELSE 0) = d
      BY <1>2, <2>3
    <2>5. ASSUME NEW u \in TaskIndex \ {0}, u # self
          PROVE  (IF state'[u] = "waiting" /\ wake_tick'[u] > tick_count'
                  THEN wake_tick'[u] - tick_count' ELSE 0)
                 = IF state[u] = "waiting" /\ wake_tick[u] > tick_count
                   THEN wake_tick[u] - tick_count ELSE 0
      <3>1. wake_tick'[u] = wake_tick[u] /\ tick_count' = tick_count
        BY <1>2, <2>5
      <3>2. state'[u] = "waiting" <=> state[u] = "waiting"
        BY <1>1, <1>7, <2>5
      <3> QED
        BY <3>1, <3>2
    <2> QED
      BY <1>2, <2>1, <2>2, <2>4, <2>5
  <1> HIDE DEF d, self
  <1> QED
    BY <1>2, <1>3, <1>4, <1>9, <1>10, <1>11 DEF Scheduler!Sleep, d

-----------------------------------------------------------------------------
LEMMA StepMaps ==
  RefInv /\ [Next /\ NoWrap]_vars => [Scheduler!Next]_Mapped
  <1> SUFFICES ASSUME RefInv, [Next /\ NoWrap]_vars
               PROVE  Scheduler!Next \/ UNCHANGED Mapped
    OBVIOUS
  <1>1. CASE CreateTask \/ CreateTaskFault
    BY <1>1, CreateMaps DEF Scheduler!Next
  <1>2. CASE RunScheduler
    BY <1>2, RunMaps DEF Scheduler!Next
  <1>3. CASE TickHandler /\ NoWrap
    BY <1>3, TickMaps DEF Scheduler!Next
  <1>4. CASE (\E ms \in Delays : DelayHandler(ms)) /\ NoWrap
    BY <1>4, DelayMaps DEF Scheduler!Next
  <1>5. CASE Silent
    BY <1>5, SilentSteps, UnseenSteps
  <1>6. CASE UNCHANGED vars
    BY <1>6, UnseenSteps DEF vars, tcb
  <1> QED
    BY <1>1, <1>2, <1>3, <1>4, <1>5, <1>6 DEF Next, Silent

(***************************************************************************)
(* The RTOS implements the abstract scheduler, in every configuration: the *)
(* ticks, delays and context switches of the kernel, with their control    *)
(* blocks, saved contexts and 32-bit counters, are turns, delays and ticks *)
(* of TaskScheduler as long as the counters do not wrap.  The traps,       *)
(* faults and alerts in between change nothing it can see.                 *)
(***************************************************************************)
THEOREM Refinement == NoWrapSpec => ImplementsScheduler
  <1>1. Init => RefInv
    BY InitIndInv, InitMarks DEF RefInv
  <1>2. RefInv /\ [Next /\ NoWrap]_vars => RefInv'
    BY NextRefInv
  <1>3. [Scheduler!Next]_Mapped => [Scheduler!Next]_(Scheduler!vars)
    BY DEF Mapped, Scheduler!vars
  <1> QED
    BY <1>1, <1>2, <1>3, InitMaps, StepMaps, PTL
    DEF NoWrapSpec, ImplementsScheduler, Scheduler!Spec
=============================================================================
