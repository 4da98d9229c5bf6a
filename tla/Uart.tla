-------------------------------- MODULE Uart --------------------------------
(***************************************************************************)
(* What the firmware prints, from write_uart (io.h) to the serial line:    *)
(* the kernel and the tasks that print, the polling loops, the transmit    *)
(* FIFO (ufifo.v) and the serialiser (uart_tx.v).                          *)
(*                                                                         *)
(* One step is one clock, in which the core makes at most one access.      *)
(* When a bit time ends (sixteen baud ticks) is not determined; it lasts   *)
(* at least until the registered line shows the bit.  A message is a short *)
(* sequence of bytes, a byte the sequence of its bits, the lowest first.   *)
(* The receiver of the UART is left out: software never looks at it, and   *)
(* the bus answers reads of it with zero.                                  *)
(***************************************************************************)
EXTENDS Integers, Sequences, FiniteSets

CONSTANTS
  Tasks,     (* the tasks of the demo *)
  Depth,     (* 2 ** AWIDTH, entries of the transmit FIFO *)
  DataBits,  (* data bits of a frame: eight in the code *)
  Message    (* what is printed: by each task, and by the kernel when it
                boots, switches, wakes a task or stops on a fault *)

Byte == [1 .. DataBits -> {0, 1}]

ASSUME UartAssumption ==
  /\ Depth \in Nat \ {0, 1} /\ DataBits \in Nat \ {0}
  /\ IsFiniteSet(Tasks) /\ Tasks \cap {"kernel", "idle", "launch", "halted"} = {}
  /\ \A m \in Tasks \cup {"boot", "switch", "woken", "fault"} :
       Message[m] \in Seq(Byte) \ {<<>>}

VARIABLES
  core,      (* who executes: a task, "idle" or "kernel" *)
  next,      (* where the kernel goes on when it has printed *)
  text,      (* for each that prints, what ptr of write_uart still points to *)
  polled,    (* ... and whether it found the FIFO not full *)
  fifo,      (* registers of the transmit FIFO *)
  tx,        (* registers of the serialiser *)
  frame,     (* the data bits of this frame the line has shown *)
  expected   (* the bytes of the messages begun that have not arrived *)

uart == <<fifo, tx, frame>>
uartVars == <<core, next, text, polled, uart, expected>>

Printers == Tasks \cup {"kernel"}
Ptr == 0 .. Depth - 1
Zeros == [b \in 1 .. DataBits |-> 0]

UartInit ==
  /\ core = "kernel" /\ next = "launch"
  /\ text = [p \in Printers |-> IF p = "kernel" THEN Message["boot"] ELSE <<>>]
  /\ polled = [p \in Printers |-> FALSE]
  /\ fifo = [array |-> [i \in Ptr |-> Zeros], w_ptr |-> 0, r_ptr |-> 0,
             full |-> FALSE, empty |-> TRUE]
  /\ tx = [state |-> "idle", count |-> 0, data |-> Zeros, line |-> 1]
  /\ frame = <<>>
  /\ expected = Message["boot"]

-----------------------------------------------------------------------------
(* The hardware.                                                           *)

Succ(p) == (p + 1) % Depth

\* Set when the last place is taken, cleared when a place is given back.
full_next_Wrong(w_en, r_en) ==
  fifo.full \/ (w_en /\ ~r_en /\ Succ(fifo.w_ptr) = fifo.r_ptr)
full_next(w_en, r_en) ==
  IF w_en = r_en THEN fifo.full ELSE w_en /\ Succ(fifo.w_ptr) = fifo.r_ptr

empty_next(w_en, r_en) ==
  IF w_en = r_en THEN fifo.empty ELSE r_en /\ Succ(fifo.r_ptr) = fifo.w_ptr

\* A clock of UFIFO with the inputs wr, w_data and rd.
UFIFO(wr, w_data, rd) ==
  LET w_en == wr /\ ~fifo.full
      r_en == rd /\ (w_en \/ ~fifo.empty)
  IN [array |-> IF w_en THEN [fifo.array EXCEPT ![fifo.w_ptr] = w_data]
                        ELSE fifo.array,
      w_ptr |-> IF w_en THEN Succ(fifo.w_ptr) ELSE fifo.w_ptr,
      r_ptr |-> IF r_en THEN Succ(fifo.r_ptr) ELSE fifo.r_ptr,
      full  |-> full_next(w_en, r_en),
      empty |-> empty_next(w_en, r_en)]

\* What the serialiser puts on the line in its state.
Level == CASE tx.state = "start" -> 0
           [] tx.state = "data" -> Head(tx.data)
           [] OTHER -> 1

tx_done_Wrong(bitEnd) == tx.state = "start" /\ bitEnd  \* the byte is taken
tx_done(bitEnd) == tx.state = "stop" /\ bitEnd

\* A clock of UART_TX; tx_start is "not empty", d_in the head of the FIFO.
UART_TX(bitEnd) ==
  LET step(state, count, data) ==
        [state |-> state, count |-> count, data |-> data, line |-> Level]
  IN CASE tx.state = "idle" ->
            IF fifo.empty THEN step("idle", tx.count, tx.data)
            ELSE step("start", tx.count, fifo.array[fifo.r_ptr])
       [] tx.state # "idle" /\ ~bitEnd -> step(tx.state, tx.count, tx.data)
       [] tx.state = "start" /\ bitEnd -> step("data", 0, tx.data)
       [] tx.state = "data" /\ bitEnd ->
            IF tx.count = DataBits - 1
            THEN step("stop", tx.count, Tail(tx.data))
            ELSE step("data", tx.count + 1, Tail(tx.data))
       [] tx.state = "stop" /\ bitEnd -> step("idle", tx.count, tx.data)

UartClock(wr, w_data, bitEnd) ==
  /\ bitEnd => tx.state # "idle" /\ tx.line = Level
  /\ fifo' = UFIFO(wr, w_data, tx_done(bitEnd))
  /\ tx' = UART_TX(bitEnd)
  /\ frame' = IF tx.state = "data" /\ bitEnd
              THEN Append(frame, tx.line)
              ELSE IF tx.state = "start" THEN <<>> ELSE frame

\* The byte that has arrived by the end of this clock is expected no more.
StillExpected(bitEnd) ==
  IF tx.state = "stop" /\ bitEnd THEN SubSeq(expected, 2, Len(expected))
                                 ELSE expected

-----------------------------------------------------------------------------
(* The software.  Each action is a clock of the UART as well.              *)

NoAccess(bitEnd) == UartClock(FALSE, Zeros, bitEnd)

\* Call write_uart(Message[m]).
write_uart(p, m, bitEnd) ==
  /\ text' = [text EXCEPT ![p] = m]
  /\ expected' = StillExpected(bitEnd) \o m

Printing(p) == core = p /\ text[p] # <<>>
Silent(p) == core = p /\ text[p] = <<>>

\* Read the line status: bit 5, "FIFO not full".
Poll(bitEnd) ==
  /\ \E p \in Printers :
       /\ Printing(p) /\ ~polled[p]
       /\ polled' = [polled EXCEPT ![p] = ~fifo.full]
  /\ expected' = StillExpected(bitEnd)
  /\ NoAccess(bitEnd)
  /\ UNCHANGED <<core, next, text>>

Store(bitEnd) ==
  /\ \E p \in Printers :
       /\ Printing(p) /\ polled[p]
       /\ UartClock(TRUE, Head(text[p]), bitEnd)
       /\ text' = [text EXCEPT ![p] = Tail(@)]
       /\ polled' = [polled EXCEPT ![p] = FALSE]
  /\ expected' = StillExpected(bitEnd)
  /\ UNCHANGED <<core, next>>

\* A task is given the core, and goes on at the head of its loop.
Resume(t, bitEnd) ==
  /\ core' = t
  /\ IF t \in Tasks THEN write_uart(t, Message[t], bitEnd)
     ELSE UNCHANGED text /\ expected' = StillExpected(bitEnd)
  /\ UNCHANGED <<next, polled>>

is_uart_fifo_empty == fifo.empty

\* run_scheduler waits for the line before it arms the timer and launches.
Launch(bitEnd) ==
  /\ Silent("kernel") /\ next = "launch" /\ is_uart_fifo_empty
  /\ \E t \in Tasks : Resume(t, bitEnd)
  /\ NoAccess(bitEnd)

\* The kernel prints m with interrupts masked, then goes on with n.
Enter(m, n, bitEnd) ==
  /\ core' = "kernel" /\ next' = n
  /\ write_uart("kernel", m, bitEnd)
  /\ NoAccess(bitEnd)
  /\ UNCHANGED polled

\* rtos_delay, at the end of a task's loop.  Whose turn it is: see Rtos.
Delay(bitEnd) ==
  \E t \in Tasks, n \in Tasks \cup {"idle"} :
    Silent(t) /\ n # t /\ Enter(Message["switch"], n, bitEnd)

KernelReturns(bitEnd) ==
  /\ Silent("kernel") /\ next \in Tasks \cup {"idle"}
  /\ Resume(next, bitEnd)
  /\ NoAccess(bitEnd)

\* A tick looks for sleepers, and prints, only when it interrupts the idle
\* task; otherwise the task it interrupted goes on, which is a clock
\* without access.
Tick_Wrong(bitEnd) ==            \* a tick takes the core from a task, too
  \E t \in Tasks : core # "kernel" /\ core # t /\ Enter(Message["woken"], t, bitEnd)

\* The message is printed for each of the n tasks that wake.
Copies(m, n) == [i \in 1 .. n * Len(m) |-> m[((i - 1) % Len(m)) + 1]]

Tick(bitEnd) ==
  \E n \in 1 .. Cardinality(Tasks), t \in Tasks :
    core = "idle" /\ Enter(Copies(Message["woken"], n), t, bitEnd)

\* load_access_fault or major_alert_exception: whatever the task was printing
\* stays unfinished.  After its message the handler loops for ever.
Fault(bitEnd) ==
  \E t \in Tasks :
    /\ core = t
    /\ core' = "kernel" /\ next' = "halted"
    /\ text' = [text EXCEPT ![t] = <<>>, !["kernel"] = Message["fault"]]
    /\ expected' = LET e == StillExpected(bitEnd) IN
                     SubSeq(e, 1, Len(e) - Len(text[t])) \o Message["fault"]
    /\ NoAccess(bitEnd)
    /\ UNCHANGED polled

\* Clocks in which no one comes to print.
Elsewhere(bitEnd) ==
  /\ NoAccess(bitEnd)
  /\ expected' = StillExpected(bitEnd)
  /\ UNCHANGED <<core, next, text, polled>>

Program(bitEnd) ==
  \/ Poll(bitEnd) \/ Store(bitEnd)
  \/ Launch(bitEnd) \/ Delay(bitEnd) \/ KernelReturns(bitEnd)

UartNext ==
  \E bitEnd \in BOOLEAN :
    Program(bitEnd) \/ Tick(bitEnd) \/ Fault(bitEnd) \/ Elsewhere(bitEnd)

-----------------------------------------------------------------------------
(***************************************************************************)
(* Every byte printed arrives, once, with the bits it had, and the         *)
(* messages of tasks and kernel arrive whole, one after the other: though  *)
(* write_uart stores some time after it polled, nothing is dropped and     *)
(* nobody prints in between, because a tick takes the core from nobody     *)
(* but the idle task.                                                      *)
(***************************************************************************)
BytesArriveInOrder ==
  [][tx.state = "stop" /\ tx'.state = "idle"
       => expected # <<>> /\ frame = Head(expected)]_uartVars

(***************************************************************************)
(* When nobody is printing and the status says "empty", everything printed *)
(* has left the line: run_scheduler relies on it before it arms the timer  *)
(* (bare_metal_rtos.c:345).                                                *)
(***************************************************************************)
EmptyMeansDelivered ==
  fifo.empty /\ (\A p \in Printers : text[p] = <<>>) =>
    expected = <<>> /\ tx.state = "idle"

\* Every call of write_uart returns, unless a fault stops the task.
WriteReturns ==
  \A p \in Printers : Printing(p) ~> (text[p] = <<>>)
=============================================================================
