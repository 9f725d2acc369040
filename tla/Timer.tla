-------------------------------- MODULE Timer --------------------------------
(***************************************************************************)
(* The timer manager (kernel/timer.cpp, kernel/timer.hpp), the system call *)
(* that feeds it (CreateTimer of kernel/syscall.cpp) and the task timer    *)
(* that drives preemption.  The timer interrupt may come between any two   *)
(* steps, in particular between the two critical sections of CreateTimer.  *)
(***************************************************************************)
EXTENDS Integers, Sequences, FiniteSets, SequencesExt

CONSTANTS
  Task,       \* tasks that use timers
  Ms,         \* the durations (arg3, milliseconds) they ask for
  Arg2,       \* the timer values (arg2, a 64-bit register) they ask for
  Word,       \* 2^64 in the code: unsigned long is modulo Word
  IntMax,     \* the largest int, 2^31 - 1 in the code
  MaxTick,    \* bound of the model: timer interrupts
  MaxTimers   \* bound of the model: timers created by programs

(* Task ids start at 1; the machine is not up for the 2^63 ticks (three    *)
(* thousand million years) after which tick_ + timeout could wrap around.  *)
ASSUME TimerAssumption ==
  /\ Ms \subseteq 0..(Word - 1) /\ Arg2 \subseteq 0..(2 * IntMax + 1)
  /\ {Word, IntMax, MaxTick, MaxTimers} \subseteq Nat \ {0}
  /\ MaxTick <= Word \div 2 /\ 0 \notin Task

kTimerFreq == 100                              \* ticks in a second
kTaskTimerPeriod == (kTimerFreq * 2) \div 100  \* 20 ms
kTaskTimerValue == IntMax

VARIABLES
  tick,     \* tick_
  timers,   \* timers_: the timers in the priority queue
  pending,  \* the timer a task inside CreateTimer has computed, or None
  alive,    \* tasks that have not finished
  got,      \* kTimerTimeout messages sent to each task, in order
  switches, \* history: the ticks at which the task timer made Tick return true
  made      \* history: number of timers created by programs

vars == <<tick, timers, pending, alive, got, switches, made>>

(* serial, ms, from and added are history: the number of the timer, the    *)
(* duration its caller asked for and the tick it is counted from, and the  *)
(* tick at which it was added.                                             *)
Timer(timeout, value, task, serial, ms, from) ==
  [timeout |-> timeout, value |-> value, task |-> task,
   serial |-> serial, ms |-> ms, from |-> from, added |-> 0]

None == Timer(0, 0, 0, 0, 0, 0)

-----------------------------------------------------------------------------
(* The constructor's sentinel keeps the queue from being empty;            *)
(* InitializeTask adds the task timer.                                     *)
Init ==
  /\ tick = 0
  /\ timers = {Timer(Word - 1, 0, 0, 0, 0, 0),
               Timer(kTaskTimerPeriod, kTaskTimerValue, 1, 0, 0, 0)}
  /\ pending = [t \in Task |-> None]
  /\ alive = Task
  /\ got = [t \in Task |-> <<>>]
  /\ switches = <<>>
  /\ made = 0

(* const int timer_value = arg2: the low half of the register, signed.     *)
ToInt(arg2) == IF arg2 <= IntMax THEN arg2 ELSE arg2 - 2 * (IntMax + 1)

(* Mutant of ValueAccepted: the check for a positive value is missing.     *)
AnyValueAccepted(arg2) == arg2 \in Arg2

ValueAccepted(arg2) == ToInt(arg2) > 0

(* Mutant of Timeout: a relative timer is treated like an absolute one.    *)
TimeoutAbsolute(relative, ms, now) == ((ms * kTimerFreq) % Word) \div 1000

Timeout(relative, ms, now) ==
  LET ticks == ((ms * kTimerFreq) % Word) \div 1000
  IN  IF relative THEN (ticks + now) % Word ELSE ticks

(* CreateTimer up to the second cli: the current tick is read here.  A     *)
(* value that is not positive is refused with EINVAL.                      *)
CreateTimer(t, relative, arg2, ms) ==
  /\ t \in alive /\ pending[t] = None
  /\ made < MaxTimers
  /\ ValueAccepted(arg2)
  /\ made' = made + 1
  /\ pending' = [pending EXCEPT ![t] =
       Timer(Timeout(relative, ms, tick), - ToInt(arg2), t, made + 1,
             ms, IF relative THEN tick ELSE 0)]
  /\ UNCHANGED <<tick, timers, alive, got, switches>>

AddTimer(t) ==
  /\ pending[t] # None
  /\ timers' = timers \cup {[pending[t] EXCEPT !.added = tick]}
  /\ pending' = [pending EXCEPT ![t] = None]
  /\ UNCHANGED <<tick, alive, got, switches, made>>

(* Mutant of Expired: a timer fires one tick after its timeout.            *)
ExpiredLate(timer, now) == timer.timeout < now

Expired(timer, now) == timer.timeout <= now

(* Mutant of Precedes: the priority queue is ordered by arrival.           *)
PrecedesByArrival(a, b) == a.serial <= b.serial

(* operator< : the top of the queue is a timer with the least timeout;     *)
(* which of several is not specified.                                      *)
Precedes(a, b) == a.timeout <= b.timeout

(* The orders in which the timers of a set can come off the top.           *)
Orders(S) ==
  {o \in SetToSeqs(S) : \A i, j \in 1..Len(o) : i < j => Precedes(o[i], o[j])}

Rearmed(now) == Timer(now + kTaskTimerPeriod, kTaskTimerValue, 1, 0, 0, 0)

(* LAPICTimerOnInterrupt: Tick takes every expired timer off the top; the  *)
(* task timer is pushed again, for the others a message is sent, which is  *)
(* dropped when the task has finished.  SwitchTask runs if Tick says so.   *)
(* Each task has its own mailbox: only the order of its own timers shows.  *)
Tick ==
  LET now     == tick + 1
      due     == {x \in timers : Expired(x, now)}
      task    == {x \in due : x.value = kTaskTimerValue}
      Mine(t) == {x \in due \ task : x.task = t}
  IN  /\ tick < MaxTick
      /\ tick' = now
      /\ timers' = (timers \ due) \cup (IF task = {} THEN {} ELSE {Rearmed(now)})
      /\ switches' = IF task = {} THEN switches ELSE Append(switches, now)
      /\ \E order \in [Task -> UNION {Orders(Mine(t)) : t \in Task}] :
           /\ \A t \in Task : order[t] \in Orders(Mine(t))
           /\ got' = [t \in Task |->
                IF t \in alive
                THEN got[t] \o [i \in 1..Len(order[t]) |-> [timer |-> order[t][i], at |-> now]]
                ELSE got[t]]
      /\ UNCHANGED <<pending, alive, made>>

(* The task exits; its mailbox goes with it.                               *)
Finish(t) ==
  /\ t \in alive /\ pending[t] = None
  /\ alive' = alive \ {t}
  /\ got' = [got EXCEPT ![t] = <<>>]
  /\ UNCHANGED <<tick, timers, pending, switches, made>>

Next ==
  \/ \E t \in Task, rel \in BOOLEAN, v \in Arg2, ms \in Ms : CreateTimer(t, rel, v, ms)
  \/ \E t \in Task : AddTimer(t) \/ Finish(t)
  \/ Tick

Spec == Init /\ [][Next]_vars

-----------------------------------------------------------------------------
(* There is one task timer at any time, no program can make another one or *)
(* take it away, and it expires within the next two ticks: preemption      *)
(* (SwitchTask) neither stops nor speeds up.                               *)
PreemptionKeepsPace ==
  /\ Cardinality({x \in timers : x.value = kTaskTimerValue}) = 1
  /\ \A x \in timers : x.value = kTaskTimerValue =>
       x.timeout \in (tick + 1)..(tick + kTaskTimerPeriod)
  /\ \A i \in 1..Len(switches) : switches[i] = i * kTaskTimerPeriod

(* No timeout message is sent before the tick its caller asked for, unless *)
(* the multiplication of the duration wraps around.                        *)
NeverEarly ==
  \A t \in Task : \A i \in 1..Len(got[t]) :
    LET timer == got[t][i].timer
    IN  timer.ms * kTimerFreq < Word =>
          got[t][i].at >= timer.from + (timer.ms * kTimerFreq) \div 1000

(* Nothing is late: what is still in the queue after its timeout was added *)
(* after the last interrupt, and a message goes out at the first interrupt *)
(* at or after the timeout that finds the timer in the queue.              *)
NeverLate ==
  /\ \A x \in timers : x.timeout <= tick => x.added = tick
  /\ \A t \in Task : \A i \in 1..Len(got[t]) :
       LET g == got[t][i]
       IN  g.at = g.timer.timeout \/ (g.at = g.timer.added + 1 /\ g.timer.timeout < g.at)

(* A task gets the messages of the timers it had set at the same time in   *)
(* the order of their timeouts, and every timer once.                      *)
OnceAndInOrder ==
  \A t \in Task : \A i \in 1..Len(got[t]) :
    /\ \A x \in timers : x.serial # got[t][i].timer.serial
    /\ \A j \in 1..Len(got[t]) : i < j =>
         /\ got[t][i].timer.serial # got[t][j].timer.serial
         /\ got[t][j].timer.added < got[t][i].at =>
              got[t][i].timer.timeout <= got[t][j].timer.timeout
=============================================================================
