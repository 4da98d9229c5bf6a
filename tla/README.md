# A TLA+ model of the PMP snapshot engine platform

The repository is a small RISC-V platform for protected real-time tasks: a
bare-metal RTOS (`riscv-bare-metal-rtos-demo/src`), a CV32E40S core extended
with a *PMP snapshot engine* (PSE) that saves and restores all PMP registers of
a task at once, and the platform around it (caches, bus, timer, UART), all in
`Vivado_PSE_Project/.../design_database/IP`. `RTOS_PMP_FI.do` simulates bit
flips in the PMP registers and in the saved snapshots.

These modules state what kernel, engine, timer, memory system, serial line,
drivers and libraries must do, check it on small instances with TLC, and prove
almost all of its safety, and the refinements, for all instances with TLAPS.
Paths below are relative to the repository; `IP/` is
`Vivado_PSE_Project/project_1.srcs/sources_1/design_database/IP/`, kernel files
are in `riscv-bare-metal-rtos-demo/src/`.

## 1. The system

| Component | State | Operations | Talks to |
|---|---|---|---|
| RTOS kernel (`bare_metal_rtos.c`) | `task_list`, `task_count`, `current_task_index`, `tick_count` | create task, `run_scheduler`, tick, `rtos_delay`, yield, handlers that stop the system | context switch, PMP set-up, timer, UART |
| Context switch (`context_switching.S`) | registers, stacks, `mepc`, `mstatus` | trap entry, dispatch, trap return, launch | kernel, PMP set-up |
| PMP set-up (`pmp.c`) | PMP CSRs | configure and verify, save twice, apply | CSR file |
| PSE (`IP/Misc/csr_pmp_snapshot_storage.sv`, integration in `cv32e40s_cs_registers.sv`) | slots, slot select, slot read, write pulse | save, apply, compare | pipeline (CSR address and operand), alert |
| PSE parity (`IP/Misc/pse_parity_unit.sv`) | none | parity of an entry, comparison | PSE |
| Tick timer (`AHB2TIMER.v`) | `mtime`, `mtimecmp` | count, read, store, interrupt | kernel (`init_tick_timer`, tick handler) |
| Caches (`cache_16_way.v`, `set.v`) | lines, victims, held request | hit, miss, write-back | core, line bridges |
| Line bridges (`mem_32_to_128.v`) | counters, line buffer | read or write a line word by word | cache, arbiter |
| Arbiter and bus master (`CACHE_AHB_MUX.v`, `core2ahb3lite_bram.sv`) | outstanding requests, transfer state | arbitrate, transfer | bridges, core, bus slaves |
| Memory (`AHB2MEM.v`, `bram_interface.v`), decoder and mux (`AHBDCD.v`, `AHBMUX.v`) | memory, select pipeline | read, write | bus |
| Core (`cv32e40s_*`) | pipeline, controller, CSRs | execute, trap, return | everything |
| UART (`AHB2UART.v` and below, `io.h`) | FIFOs, serialisers | poll, write, send, receive | kernel, tasks |
| PMP check (`cv32e40s_pmp.sv`) with the settings of `main.c` and the sections of `link.common.ld` | none | match regions, allow or deny | CSR file, core |
| Drivers (`drivers/src`: `spi.c`, `i2c.c`, `gpio.c`, `utils.c`) | registers of the blocks | set up, transfer, poll, set and read pins | blocks outside the repository |
| String library (`qprintf.c`) | none | print, compare, copy, fill | tasks |
| Mathematical library (`math_fns.c`, `math_fns.h`) | none | divide, root, power, logarithm, angles | tasks |
| Memory encryption, dump, keys, reboot, benchmark | registers | | bus |

`PROJECT.json` lists every component with its status. The behaviours that are
hard are these:

* *Interleaving of ticks, delays and faults.* Interrupts come at any
  instruction of a task; the kernel runs with interrupts masked. The context is
  saved through `current_task_index`, which C code then changes, and restored
  through a stack pointer that code returned.
* *Sleepers are looked at only from idle.* A tick that interrupts another task
  wakes nobody, and the last task a tick wakes runs while it is marked ready.
* *The PMP registers are written a clock after the apply*, by looking again
  at registers of the last pipeline stage that the next instruction may change.
* *64-bit timer registers behind a 32-bit bus*, while the counter runs.
* *Pulses and held requests* between caches, bridges and arbiter, where a
  pulse that nobody remembers hangs the core.
* *Polled devices*: a status is read and acted upon some instructions later, and
  a state that lasts less than a turn of the loop is missed.
* *Arithmetic by hand*: division by ten with shifts, strings compared a word at a
  time past their ends, exponents moved without a check of their range.
* *Faults*: flips in the PMP registers, a lock bit among them, in a slot, or
  in its parity. Nothing is persistent, so there is no crash recovery.

What makes each component correct:

* kernel: the task that executes is the current one, on its own stack with its
  own registers and privilege; no task is lost, starved, or woken early; the
  core idles only when nobody is ready;
* PMP and PSE together: U-mode code runs under its own settings, or the alert
  is raised, as far as the parity lets the engine know; the alert is never
  raised without a fault; a return repairs what a fault did to the registers;
* parity: which flips are noticed; block size;
* timer: ticks on a fixed grid, none early, none lost;
* memory path: it is a memory, and every access is answered;
* UART: what is printed arrives whole and in order, and "empty" means delivered;
* PMP check: a task reaches its stack, its text and the first region, and nothing
  else;
* drivers: words arrive in order, an acknowledge read is that of the transfer
  just made, a pin has what was last asked of it, and the polling loops end;
* libraries: the result is that of a reference definition, and no step leaves the
  range it was made for.

## 2. Modules

| Module | Models | Composition |
|---|---|---|
| `TaskScheduler` | what the RTOS promises tasks, abstractly | |
| `Rtos` | kernel, context switch, PMP set-up, PSE as the kernel sees it, faults | |
| `RtosRefinement` | `Rtos` implements `TaskScheduler` | extends `Rtos`, instantiates `TaskScheduler` |
| `RtosProofs` | theorems about `Rtos` and the refinement | extends `RtosRefinement` |
| `Snapshots` | what the PSE promises software, without its clock | |
| `Pse`, `MCPse` | PSE, CSR file and firmware, clock by clock, with bit flips | instantiates `Snapshots` |
| `PseProofs` | theorems about `Pse` | extends `Pse` |
| `PseParity`, `MCPseParity` | parity unit and block size | |
| `PseParityProofs` | theorems about `PseParity` | extends `PseParity`, `NumberLemmas` |
| `TickTimer` | timer hardware with the kernel code that arms it | |
| `TickTimerProofs` | theorems about `TickTimer` | extends `TickTimer` |
| `TrapResume` | the program counter through trap entry and return | |
| `LinearMemory` | what the core expects of memory | |
| `Cache`, `LineBridge`, `BusSlaves` | one component each, clock by clock | |
| `CacheAhbMux` | arbiter and bus master in front of the slaves | extends `BusSlaves` |
| `MemoryPath`, `MCMemoryPath` | two caches, two bridges, arbiter, master, slaves, both ports of the core | instantiates all of them and `LinearMemory` |
| `MemoryPathProofs` | theorems about the memory path | extends `MemoryPath` |
| `Uart` | who prints, the polling loop, FIFO and serialiser | |
| `Drivers` | SPI, I2C and GPIO drivers and the blocks they poll | |
| `Devices`, `MCDevices` | one of the devices per behaviour | extends `Uart`, `Drivers` |
| `DevicesProofs` | theorems about `Uart` and `Drivers` | extends `Devices` |
| `StringLib`, `MathFns`, `PmpRegions` | pure functions: string library, mathematical library, PMP check | |
| `Libraries`, `MCLibraries` | calls of them, with the reference definitions | extends the three |
| `LibrariesProofs` | theorems about `PmpRegions`, `StringLib` and `MathFns` | extends `Libraries`, `NumberLemmas` |
| `NumberLemmas` | induction on numbers, powers of two, quotients, recursion that descends or climbs, sums, searches | |

### Rtos
Fields of `task_list[t]` are functions of the index: `state`, `is_ready`,
`wake_tick` (the field `tick_count`), `stack_ptr`. A stack is named by its task,
a saved context is a record of whose registers it holds and in which mode
(`frame`), and the PMP settings of a task are named by the task. `phase` follows
`trap_handler_asm`: a trap saves the context (`SaveContext`), a handler runs
(`TickHandler`, `DelayHandler`; a yield goes straight on), and `TrapReturn`
applies the settings, restores and executes `mret`. The steps are atomic because
interrupts are masked; faults may strike between any two. `RunScheduler`,
`CreateTask` (with the failure of the read-back, `CreateTaskFault`),
`AccessFaultTrap`, an unknown system call and `MajorAlert` complete the
operations. A call of a system function is dispatched on `a7` whatever the
cause of the exception, so every task trap may take any of these ways.

What a fault makes of the registers or of a slot is one of four values, by two
questions: is a lock bit set in it, and does it differ from what was saved in a way
the parity of the slot tells (`Noticed`) or not (`Hidden`)? A write to registers
with a lock bit set leaves some of them as they are, so it ends in locked
registers again. `RdError` is the engine's error: live registers and selected
slot differ, or agree on contents the parity does not agree with. So a hidden
flip in a slot, applied with the settings of its task, raises nothing, and that
is what the properties allow: `AlertUnlessHidden` says what follows from an error
and what from there being none, and `CorruptionStopsTask` is about the
corruptions the engine can notice.

Assumed: the first tick does not arrive between arming the timer and launching
the first task (a few dozen clocks against one tick); a task without PMP
settings exists in the build with the PSE only as the idle task, as in `main.c`;
a task does not overflow its stack.

### Pse
One step is one clock with one instruction in the last stage. `Clock` is the
storage and its integration: slot select, slot read, `write_all` a clock
after the apply, and `PmpWriteData`, which looks at the CSR address still in the
stage. The firmware is the sequence of CSR accesses of
`fi_resilient_task_pmp_init` and `trap_return`; between any two of them any
number of clocks without CSR access may pass (`Other`). A fault may skip one of
the two saves (`SkipSave`), against which the code saves twice (`pmp.c:216`).

Register contents are a set of bits with a note of whose settings they were when
last written. `Covers` gives each bit the parity bits it is counted in, `Guards`
the lock bits that keep it from being written; both are constants, and an entry
is saved with its real parity, the checks that see an odd number of bits. On the
entry of this core (`PseParity`) a bit of columns 0 to 3 or of the last row is in
both parities, one of columns 4 to 23 or of row 23 of columns 24 and 25 in one,
and the others of columns 24 and 25, rows 0 to 22, are in none. So it takes three
flips, two, or only one to turn an entry into a wrong one that checks, and
`OwnSettingsOrAlert` says exactly this: a task without an alert has settings that
the flips so far suffice for (`Distance`). Flips are single; the script also
randomises several bits at once, which several flips between two clocks describe.

`Snapshots` promises a save in one step, and an apply in two: the copy is taken,
then the registers are written from it, and in between nothing happens but
faults. The one step would promise too much: a flip in the slot after it has been
read no longer reaches the registers.

### PseParity
The word is a set of bit numbers. `InRowParity` and `InColumnParity` say which
bits the code really counts, with the four-bit vector a row is assigned to and
the single row that late columns are taken from. `FloorRoot` is the
digit-by-digit root of `optimal_block_size`.

### TickTimer
`mtime` is a number, `mtimecmp` and `ullNextTime` are pairs of words. Each step
is a clock with at most one bus access, and clocks without access come anywhere.
The read multiplexer is taken as it is written, so the read of the high word
of `mtime` returns that of `mtimecmp`.

### TrapResume
The saved program counter and the sizes of the instructions around the idle
loop and `rtos_delay`, taken from the listing `coe-files/fpga_demo_2_tasks.lst`.

### MemoryPath
One step is one clock of all components, each reading the outputs of the others.
`Cache` is one cache: the held request, the four states, the lines with tag,
valid and dirty, the turn of the victims, and the copy of the victim that is
always a clock old. `LineBridge` moves a line word by word; `CacheAhbMux` holds
the arbiter and the bus master. `BusSlaves` has the select of `AHBMUX.v`, the
memory slave with its ready, request and data phase (`AHB2MEM`), the states of
`bram_interface`, and the block RAM, whose two clocks to a word are those the
slave waits. A register is emptied when its contents are of no more use, so that
a component that still used them would be caught. The core is its two counters
of accesses under way, of which each port allows one. Programs do not write
their code (`CodeIsNotWritten`): the caches are not coherent and `fence.i`
empties neither. The addresses behind the caches are whole lines (`MemoryMap`),
and an uncached store is one of a whole word (`PortsAssumption`), since the
slaves of the platform take a word whatever the size asked for. Encryption is
disabled in the block design and left out.

### Uart
One step is one clock of the UART with at most one access of the core. `UFIFO`
is `ufifo.v` with its two pointers and the registered `full` and `empty`; A byte
is the sequence of its bits. `UART_TX` is the state machine of `uart_tx.v`,
whose byte leaves the FIFO only when its stop bit is over (`tx_done`). A bit
time is any number of clocks, as long as the registered line has shown the bit.
The software is every place that prints: the boot message before `run_scheduler`
waits for "empty" (`Launch`), the loop of a task, the switch in `rtos_delay`,
the tick that wakes sleepers, and the two handlers that stop the system. `Poll`
and `Store` are the two instructions of `write_uart` between which others may
come. `expected` is a history variable: what has been asked to be printed and
has not arrived.

### Drivers and Devices
`spi`, `i2c` and `gpio` are the registers at the offsets the drivers use, and
the blocks behind them do what the drivers take for granted: the SPI master
moves words between its FIFOs and the line, the I2C master shows "transfer under
way" for some time after a command and then the acknowledge, the pads show what
the registers say. A command is the sequence of its bits, and the words of a
transfer are counted modulo `Counts`. The blocks are not in the repository;
their actions are marked external. A transfer of `spi_write_fifo` or
`spi_read_fifo` is a poll and an access per word; `i2c_get_ack` is its two
loops, for the rise and for the fall. Assumed: callers give an SPI command of no
more bits than a word; a data length that does not fit its register is cut, as
in the code. The devices have nothing in common but the bus, so a behaviour of
`Devices` is one device.

### StringLib, MathFns, PmpRegions and Libraries
A call is an initial state of `Libraries`, its return the one step; the
properties compare the result with a reference definition. `LibrariesAssumption`
says of what kind the arguments are: layouts the linker script can produce,
floats of 8 exponent bits, ints and unsigned ints of `IntBits` bits, widths that an
int holds, texts that are sequences of characters, memories of whole words, and
roots that are not negative. `IntBits` is a multiple of four from 8 to 32: the
table of `remu10` needs the one, and the shifts of `divu10` divide by ten up to the
other, which is the int of the code.

`StringLib` translates `qprintf.c` function by function: `divu10` and `remu10`
with their shifts and the overflow of the int, the sign, padding and flags of
`printf`, the word-wise loop of `strcmp` with its test for a zero byte
(`DETECTNULL`), `strlen`, `memset`, and `strcpy`. The digits of `write_uart_int`
and `write_uart_hex` of the kernel are there as well. The loops are recursive
functions of one argument each (`qprint` is a function of the place in the format
whose values are functions of the next argument), since that is the form the
provers reason in; for the same reason a word, a width and the places of a
numeral are sums and products built step by step, and the families of formats
have names (`IntFormats`, `TextFormats`, `PairFormats`).

`MathFns` has the variant for a core without division and square root (`HWDIV`
and `HWSQRT` zero). The cases, signs, exponents, octants and quadrants are
exact. Newton's iterations and the polynomials are computed in fixed point with
12 to 15 bits after the point, so the last digits of a float are not modelled;
`fAtan2` is given its quotient as a fraction, and angles as a number of steps.

`PmpRegions` has the settings of `main.c` as functions of a *layout*: the
addresses the linker script assigns, of which only order and alignment are
assumed. Region 1, which every task may read, write and execute, begins at the
peripherals (0x10000000) and ends at `_common_memory_end`. The sections in front
of that symbol are `.vectors`, `.trap_handler` and `.text`, where
`context_switching.S` has the trap handler and `trap_return`, and then constants
and data. So `Isolated` says two things of user mode: nothing of the other
task, of the privileged functions and data or of the kernel's stack is reached
(`Foreign`), and the peripherals and the firmware's own instructions are
(`Shared`). `pmp_req_err` is `cv32e40s_pmp.sv` with all modes, locks and the rules of
`mseccfg`; `Denied` is what it says of an access under the settings of a task.

## 3. Runs

| Run | Bounds | Shows |
|---|---|---|
| `Rtos` | 3 tasks and idle, delays of 1 and 2 ticks, ticks wrap at 3, faults in the registers and in two of the slots | contexts, control blocks, scheduling, settings and alert, and the two liveness properties; types and the agreement of `state` and `is_ready` as conjuncts of `IndInv` |
| `RtosImplements` | no PSE, one task privileged, delays 0, 1, 4 ms at 2 ms a tick, no wrap | every step is a step of `TaskScheduler` or leaves it alone |
| `TaskSchedulerFair` | 3 tasks, delays 0, 1, 3 | the abstract promise is worth having: no sleeper starves |
| `PseSafety` | 2 tasks and idle, a bit in two checks, one in one, one in none and a lock bit, 3 flips, one save skipped per task | inductive invariant, isolation or alert, no false alert, the engine is `Snapshots` |
| `TickTimer` | words of 3 bits, tick of 5 clocks, 45 clocks | the deadlines cross several word boundaries, handlers are late by more than a tick |
| `TickTimerRead` | the same | counterexample, see findings |
| `Parity` | widths 1 to 150 and 640; 3 flips for 27 and 32 bits, 1 for 640 | optimal block, what is noticed, and exactly what is not |
| `ParitySingle` | 640 bits, 1 flip | counterexample |
| `TrapResume` | | counterexample |
| `MemoryPath` | 2-way data cache, one set, 3 lines of 2 words; 1-way instruction cache, 2 lines; 1 peripheral register; the latency of the block design | every access is answered once, with the right word |
| `Devices` | 2 tasks and kernel, FIFO of 4, bytes of 2 bits, messages of 1 to 6 bytes; SPI words of 4 bits, counted modulo 4, FIFO limit 2 of 4; 2 pins | what is printed arrives in order, "empty" means delivered, words and acknowledges are the right ones, pins keep what they were given, polling loops end |
| `Libraries` | int of 16 bits, every value printed; memories of 4 bytes of 2 bits, words of 2 bytes; mantissas of 8 bits at every exponent where a case begins; 17 points of each polynomial; layouts with empty sections and with a common memory that ends within a word; PMP with 16 regions | every library function and the PMP check agree with their references |

Why these bounds are enough. In the kernel, three tasks are the least with one
running while two others are ready or due together; two delays let sleepers
become due at once or in turn; a counter that wraps at 3 wraps after every few
steps; faults in the slots of two tasks (`Attacked`) leave a third whose slot is
right. In the PSE, two tasks are what a mix-up of slots needs, the four bits of
`MCPse` are one of each kind the entry has, and three flips are what it takes to
make a wrong entry that checks of a bit in two checks, or to hit registers,
slot and parity. In the timer the tick is longer
than half of a word, so that the carry is taken in more than every other tick.
In the memory path three lines in two ways force clean and dirty evictions, two
words a line make the counters wrap (the code has four), and a store of one
lane tests the byte enables. A boot message longer than the FIFO makes the
polling loop wait, and with four entries both pointers wrap within it; SPI
lengths of more words than the count holds are cut, as are those of a part of a
word. Two bytes a word are the least for which a string may end within a word
and the test for a zero byte may borrow from one byte to the next. With 16 bits
the product in `remu10` overflows for most numbers, as with 32 in the code, and
16 is, like 32, a multiple of four, on which the constant depends. The proofs
have no bounds.

`CHECK_DEADLOCK FALSE` is set where the system really stops: the endless loops
after an alert or a fault (`Rtos`), when all flips have been used
(`Parity`), and after a call has returned (`Libraries`), which is all a behaviour
there has. `TickTimer` stops its clock at `Horizon`.

Every checked property has a mutant in `PROJECT.json`: an operator with a
plausible bug (their names end in `_Wrong`) that makes TLC find the property
violated under the configuration of its run.

### Fairness
* `Rtos`: weak fairness of the handlers, of the return and of the alert: the
  core keeps executing instructions, and takes a pending alert. No fairness
  of ticks. `ReadyTaskRuns` has a premise, strong fairness of the delay trap:
  tasks do call `rtos_delay` again and again, as the loops of `tasks.c` do. Without
  it a task keeps the core, since ticks never take it from a task.
* `TaskScheduler`: time passes, and a task that has its turn asks for a delay.
* `TickTimer`: the clock runs and the processor goes on.
* `MemoryPath`: the clock runs.
* `Devices`: the core executes, the baud generator ticks (a bit time ends), a
  driver goes on polling, and the external blocks finish a transfer they have begun.

### Findings
* `AHB2TIMER.v:137` answers a read of the high word of `mtime` with that of
  `mtimecmp`. The double read of `init_tick_timer` cannot see a carry; harmless
  only while the timer is armed in the first 2^32 clocks after reset.
* `pse_parity_unit.sv:52` and `:100`: full rows are cut to four bits and columns
  from `N_FULL_BLOCKS` on are taken from one row. On the 640-bit entry some single
  flips are in no parity, against the distance claimed in
  `csr_pmp_snapshot_storage.sv:104`. The comparison of live registers and
  slot still notices flips in one of the two.
* `context_switching.S:123` adds four to `mepc` for every trap. After an
  interrupt the task resumes four bytes further on: an instruction is skipped,
  or, with compressed code, the middle of one is executed.

Met while modelling, without a run, since no document or test claims otherwise or
nothing in the demo reaches the case:

* `gpio.c:44`: `get_gpio_pin_direction` reads bit `2*pin` where
  `set_gpio_pin_direction` writes bit `pin`; `PinsReadBack` therefore leaves it out.
* `i2c.c:19`: `i2c_get_ack` first waits to see the transfer under way, and waits for
  ever if the whole transfer falls between two of its polls. `CallsReturn` says so.
* `spi.c`: `spi_setup_cmd_addr` clears the data length set before, and shifts by the
  width of the register for a command of no bits.
* `pmp.h:17`: `PMP_CFG_NA4` has the encoding of NAPOT; it is not used.
* `pmp.h:9`: a common memory that does not end at a whole word loses its last bytes,
  as the address of a region counts words.
* `qprintf.c`: `strcpy` does not copy the terminator; a format that breaks off
  within a conversion is read past its end; `%-05d` puts zeros behind the number.
* `math_fns.c`: `fDiv` with an infinite or zero dividend goes through the general
  case (its comment says the special cases are to do), and `fLog2` of minus
  infinity is plus infinity.
* `bram_interface.v:75`: the counter has been advanced once before it is compared, so
  `LATENCY_IN_CYCLES` of 1 and 2 wait equally long.
* `AHBDCD.v` selects number 5 for the keys, which `AHBMUX.v` has commented out: a read
  of the keys returns the data of no slave.

## 4. Proofs

Every theorem holds for all values of the constants that satisfy the assumptions
of its module; TLC evaluates these on the instances it checks. The names of the
theorems are in `PROJECT.json`. Each safety property below was checked by TLC
first, on the run of the table above, and so were the inductive invariants:
those called `IndInv` in `Rtos` and `Pse` are among the invariants of the runs,
the others were tried on the same instances before they were proved.

**Kernel** (`RtosProofs`: any number of tasks, slots, width of a word, tick rate
and delays, with or without PSE and faults, under `RtosAssumption`). The wanted
properties are not inductive alone. That U-mode code has its own settings
(`OwnPmpSettings`) needs that the slot of each task holds its settings
(`EngineOK`) and that between trap and return the stack in use belongs to the
current task (`CurrentOK`); that registers are the task's own
(`CurrentTaskOwnsCore`, `ContextsPreserved`) needs the frames of all others
(`FramesOK`); that idle means drained needs the agreement of `state` and
`is_ready` (`StatesAgree`) and, before the start, that all created tasks are
ready (`CreatedReady`). There is a lemma per action, and in each one step per
conjunct it can disturb. From `IndInv` follow also `AlertUnlessHidden` and the
action properties `WakeOnlyWhenDrained`, `ReturnRestoresPmp` and
`IdleTickWakesAllDue`.

**Refinement of the scheduler** (`RtosProofs`: the same constants; behaviours in
which neither the tick counter nor a wake-up time wraps, `NoWrapSpec`: the code
compares the two as numbers). Every action of `Rtos` maps to one of
`TaskScheduler` or to none; the ticks a sleeper has left are the difference of
the two. Besides `IndInv` this needs `MarksOK`: a control block that was never
filled in is idle, and once the scheduler runs some task is marked running or
waiting for ever, by which the mapping tells that it has started.
`RtosAssumption` asks for words of more than one value: with a single one a
delay of one tick would wrap to the present.

**Engine** (`PseProofs`: any set of tasks, any finite sets of bits and checks,
whichever check covers and whichever lock guards which bit, and any number of
flips, under `PseAssumption` and `NothingLocked`: neither reset values nor the
settings of a task lock anything). Of its `IndInv`, `PulseInv` is the heart: while the write
pulse is on or about to be, the firmware is at the instructions after the apply
and the CSR address is still that of the apply; `SetupInv` says when slots and
parity may differ, and that one of the two saves has been made when a task counts
as configured; `FaultFreeInv` says that nothing differs before the first flip;
`DamageInv` that an entry, in bits and parity, never differs from what was saved
by more than the flips so far. The last gives `OwnSettingsOrAlert`: without an
alert the live bits are those of the slot that was read and their parity is the
one stored with it, so the distance of the live settings is the damage of that
entry. `NoFalseAlert`, `NoStrayWrite` and `SlotsAreOwn` follow as well, and
`Implements`: with an apply under way while the pulse is on, initial states map to
initial states of `Snapshots` and every clock to a save, the begin or the end of an
apply, a write, a flip or a stutter.

**Parity** (`PseParityProofs`: any width for which the top mask is large enough,
any word, under `PseParityAssumption`). `optimal_block_size` is recursive; that it
is the root is shown by induction on the set of numbers for which the loop has
kept its invariant (the digits found so far are the root of the bits above the
mask), and induction itself from the least element of a set (`NumberLemmas`).
`CoveredBlockNoticed` for up to three flips is the argument of the rectangle: an
even number of flips in every row and every column takes at least four.
`BlindColumns` is an equivalence: which columns go unnoticed, and no others.

**Timer** (`TickTimerProofs`: any word and any increment that fits it, as long as
two words count to the horizon, under `TickTimerAssumption`). `CarryExact` says
that comparing the low words finds the carry. The inductive invariant adds to
`DeadlinesOnGrid` and `NoEarlyTick` what holds before the start
(`InitialisingOK`: the high word read is still zero, so the double read ends) and
inside the handler (`UpdatingOK`: the deadline about to be written, and the
compare register parked behind all others while its words change), from which
follows `NoGlitch`.

**Memory path** (`MemoryPathProofs`: any number of ways and sets, words a line
and latency, any memory map of whole lines, any program that does not write its
code). Two invariants. `PortsInv`: a cache holds the request its port waits for,
and works only while it does; from it follows `NoUnexpectedAnswer`. `PathInv`:
the bus serves one transfer, in the phases of `Phase`; a bridge has moved the
words before the one it is at (`DMoved`); a line is in one way at most, memory
holds what a clean line holds, and the copy written back is the victim. The
refinement `ImplementsMemory` maps the state to one memory: a word is that of
the cache line that holds it, and otherwise that of the RAM, with the store
under way already merged into it. Every clock is then a load, a store, a fetch
or nothing, and each answers with the last value stored.

**Devices** (`DevicesProofs`: any depth of the FIFO, width of a byte, tasks and
messages; any width of an SPI word, length of a transfer, command and pins;
blocks of any speed). The serial line: the queue of the FIFO and then what the
printer has still to store is what is expected on the line (`Queued`), the
serialiser works on the oldest byte of the FIFO (`TxOK`), and one who has polled
finds the room still there when it stores (`PrintersOK`); hence
`EmptyMeansDelivered` and `BytesArriveInOrder`. SPI: driver and block count the
same words, since cutting a length to its register and rounding it up commute
(`WordsAgree`); hence `SpiWordsInOrder`. I2C: after the transfer has been seen,
it is under way or its answer stands (`I2cInv`); hence `AckIsFresh`. GPIO: a
read, a change of bits and a write leave all other pins (`Agrees`); hence
`PinsReadBack`.

**Libraries** (`LibrariesProofs`). A task is isolated (`TasksIsolated`) for
every layout in the order and alignment of the linker script, any number of
regions from six on and any width of an address (`RegionsAssumption`): region 1
matches exactly the whole words of the common memory, 3 the stack and 5 the text
of the task (`Matching`), these are disjoint because the sections are in order,
so at most one region decides, by its flags; what the firmware shares lies in the first region and what is
private in none of the task's (`SectionsApart`); a region of a power of two matches
exactly its words (`NapotCovers`). `ReductionsExact` holds for every width of a
mantissa up to 23 bits, every float, point, exponent and angle (`LibrariesAssumption` says
only what kind of value each argument is). `divu10` divides every int of 32 bits
by ten, `remu10` finds the remainder for every width that is a multiple of four,
and so both printers of numbers of the repository print the same
(`NumeralsAgree`), by descent along the digits.

`StringsRight` holds for any number of bits of a byte and of bytes of a word, and
any contents of the memory, also behind the strings. A word is the sum of its
bytes (`SumsTo`, `PowerOfSum`), so two words are equal exactly when their bytes
are; subtracting one from every byte borrows from no byte below the first zero
one, so the test of `DETECTNULL` is true exactly of the words with a zero byte; and
each loop is a search for the first place with a property (`Searches`,
`SearchFinds`), so it ends where that place is, with everything before it passed.

`PrintfRight` has three parts. Numerals: the digits found from the last one up
by `divu10` and `remu10` are those of the reference, which looks for the first
power that is too large (`Climbs`, `QuotientOfQuotient`, `SameNumerals`). Fields:
sign, zeros and blanks come in the order C asks for, in the two cases of
`qprinti` (before the zeros, behind the blanks). Formats: the characters of a
piece stand in the text at the place its predecessors end, the loops over zeros
and digits stop at its specifier and have read its width (`WidthIs`), and `qprint`
goes on behind it with the next argument (`PiecePrinted`); the joins of spellings
and of fields are then unrolled together (`JoinStands`, `Unrolled`,
`ArgumentsAre`). `FormatPrinted` states this for any number of pieces, more than
the formats of the run.

Induction is not taken from the library, whose theorems have an operator as a
parameter: each of these proofs names the set of numbers for which its claim
holds and takes the least one outside it (`Induct` of `NumberLemmas`).

Only model-checked, and why:

* liveness and everything with fairness (`ReadyTaskRuns`, `SleepersRunAgain`,
  `EveryTickCounted`, `EveryAccessAnswered`, `CallsReturn`,
  `CorruptionStopsTask`): TLAPS has no rules for `ENABLED` here;
* `ApproximationsClose`: it bounds the error of fixed polynomials at the points of
  a grid, with constants found by measuring; it is a table of numeric errors, not
  a law, and holds of the bounds it is given and no others.

Every other safety invariant of a passing run is a theorem for all values of the
constants its assumptions allow.

## 5. Not modelled, and plan

Left out for good:

* the debug and CLIC parts of the core, which the platform does not use;
  instruction decoding and the data path of the vendor core; generated AXI
  interfaces; memory encryption, disabled in the block design;
* boot code, which runs once without interrupts, weak interrupt stubs, build
  scripts and memory images; `spr-defs.h` and `cpu_hal.h` are constants and
  inline access to registers;
* the receiver of the UART: software does not read it, and the bus interface
  answers such a read with zero;
* last digits, subnormal numbers and rounding of floats, and the natural and
  decimal logarithm, which scale `fLog2`.

Not yet modelled, in the order it would be done:

1. The core around the PSE, one module per part and one composition: LSU with
   misaligned accesses (`cv32e40s_load_store_unit.sv`), response filter and MPU
   state machine, prefetcher and alignment buffer, and the controller state
   machine with interrupts, exceptions, `mret` and flushes
   (`cv32e40s_controller_fsm.sv`); abstract specification: instructions retire in
   program order, each once, and what is flushed has no effect. The alert
   (`cv32e40s_alert.sv`) with its register joins the alert of `Pse` to the
   interrupt of `Rtos`.
2. The boundaries of the memory map: an address the decoder gives to nobody, and
   the range `CACHE_AHB_MUX.v` regards as memory against that of `AHBDCD.v`.

Theorems to come: with each part above, the one that its steps implement the
abstract specification. Of what is modelled now nothing is left to prove but the
liveness properties and the numeric table, which stay with TLC.
