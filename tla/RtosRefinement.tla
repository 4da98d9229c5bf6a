--------------------------- MODULE RtosRefinement ---------------------------
(***************************************************************************)
(* Rtos implements TaskScheduler, as long as no 32-bit counter wraps.      *)
(***************************************************************************)
EXTENDS Rtos

\* Neither tick_count nor the wake-up time of a task that goes to sleep wraps.
NoWrap ==
  /\ tick_count' >= tick_count
  /\ \A t \in TaskIndex :
       state'[t] = "waiting" /\ state[t] # "waiting" => wake_tick'[t] >= tick_count

NoWrapSpec == Init /\ [][Next /\ NoWrap]_vars

HasStarted == \E t \in TaskIndex : state[t] \in {"running", "waiting"}

TicksLeft(t) ==
  IF state[t] = "waiting" /\ wake_tick[t] > tick_count
  THEN wake_tick[t] - tick_count
  ELSE 0

Turn == IF HasStarted THEN current_task_index ELSE 0
ReadyTasks == {t \in TaskIndex \ {0} :
                 state[t] = "ready" /\ (HasStarted => t # current_task_index)}
SleepingTasks == {t \in TaskIndex \ {0} : state[t] = "waiting"}
Delayed == [t \in TaskIndex \ {0} |-> TicksLeft(t)]

Scheduler == INSTANCE TaskScheduler WITH
  Tasks <- TaskIndex \ {0},
  Idle <- 0,
  TickDelays <- {DelayTicks(ms) : ms \in Delays},
  started <- HasStarted,
  running <- Turn,
  ready <- ReadyTasks,
  sleeping <- SleepingTasks,
  due <- Delayed

(***************************************************************************)
(* Ticks, delays and context switches of the RTOS are the turns, delays    *)
(* and ticks TaskScheduler promises: in particular a task sleeps for at    *)
(* least the ticks it asked for, and is taken up at the first idle tick    *)
(* after that.                                                             *)
(***************************************************************************)
ImplementsScheduler == Scheduler!Spec
=============================================================================
