---------------------------- MODULE TaskScheduler ----------------------------
(***************************************************************************)
(* What the RTOS promises its tasks, without ticks that wrap, control      *)
(* blocks, contexts or PMP settings: every task that was added runs in     *)
(* turns; a task that sleeps for d ticks is not runnable before d ticks    *)
(* have passed; the processor idles only when no task is ready; and        *)
(* sleepers whose time has come become ready together, at a tick that      *)
(* finds the processor idle.  Rtos implements this specification.          *)
(*                                                                         *)
(* Definitions whose name ends in _Wrong are not used: each is the same    *)
(* step with a plausible mistake, which the properties below must notice.  *)
(***************************************************************************)
EXTENDS Integers

CONSTANTS
  Tasks,        (* the tasks other than the idle task *)
  Idle,         (* the idle task, and "nobody runs yet" before Start *)
  TickDelays    (* the numbers of ticks a task may ask to sleep *)

ASSUME TaskSchedulerAssumption ==
  /\ Idle \notin Tasks
  /\ TickDelays \subseteq Nat

VARIABLES
  started,      (* run_scheduler has been called *)
  running,      (* the task whose turn it is, or Idle *)
  ready,        (* the tasks waiting for their turn *)
  sleeping,     (* the tasks that asked for a delay *)
  due           (* for each task, the ticks left until its delay is over *)

vars == <<started, running, ready, sleeping, due>>

Init ==
  /\ started = FALSE
  /\ running = Idle
  /\ ready = {}
  /\ sleeping = {}
  /\ due = [t \in Tasks |-> 0]

Add(t) ==
  /\ ~started
  /\ t \notin ready
  /\ ready' = ready \cup {t}
  /\ UNCHANGED <<started, running, sleeping, due>>

Start ==
  /\ ~started
  /\ started' = TRUE
  /\ \E t \in ready : running' = t /\ ready' = ready \ {t}
  /\ UNCHANGED <<sleeping, due>>

\* The next turn goes to some task of candidates, to Idle when there is none.
GiveTurn(candidates) ==
  \/ \E t \in candidates : running' = t /\ ready' = candidates \ {t}
  \/ candidates = {} /\ running' = Idle /\ ready' = {}

Sleep(d) ==
  /\ started
  /\ running # Idle
  /\ sleeping' = sleeping \cup {running}
  /\ due' = [due EXCEPT ![running] = d]
  /\ GiveTurn(ready)
  /\ UNCHANGED started

OneLess(ticks) == IF ticks = 0 THEN 0 ELSE ticks - 1

Over_Wrong(left) ==                  \* takes up one sleeper only
  LET over == {t \in sleeping : running = Idle /\ left[t] = 0}
  IN  IF over = {} THEN {} ELSE {CHOOSE t \in over : TRUE}

\* An idle processor takes up every task whose delay is over.
Over(left) == {t \in sleeping : running = Idle /\ left[t] = 0}

\* One tick passes: each delay is a tick shorter.
Tick ==
  LET left == [t \in Tasks |-> OneLess(due[t])]
      over == Over(left)
  IN  /\ started
      /\ due' = left
      /\ sleeping' = sleeping \ over
      /\ \/ over # {} /\ GiveTurn(over)
         \/ over = {} /\ UNCHANGED <<running, ready>>
      /\ UNCHANGED started

Next ==
  \/ \E t \in Tasks : Add(t)
  \/ Start
  \/ \E d \in TickDelays : Sleep(d)
  \/ Tick

Spec == Init /\ [][Next]_vars

\* Time passes, and a task that has its turn eventually asks for a delay: the
\* tasks of tasks.c are loops around rtos_delay.
Fairness ==
  /\ WF_vars(Tick)
  /\ \A t \in Tasks : WF_vars(running = t /\ \E d \in TickDelays : Sleep(d))

FairSpec == Spec /\ Fairness

-----------------------------------------------------------------------------
(***************************************************************************)
(* No task starves: a task that sleeps gets another turn, however the      *)
(* others sleep, because sleepers are taken up only when everybody ready   *)
(* has had a turn.                                                         *)
(***************************************************************************)
SleepersRunAgain == \A t \in Tasks : (t \in sleeping) ~> (running = t)
=============================================================================
