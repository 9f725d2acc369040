----------------------------- MODULE TaskManager ----------------------------
(***************************************************************************)
(* The kernel's task manager (kernel/task.cpp, kernel/task.hpp) with its   *)
(* whole public interface: task creation, sleep and wake-up with and       *)
(* without a level, the wake-up of a message's receiver, preemption by the *)
(* task timer, Finish and WaitFinish.  Each action is one call run with    *)
(* interrupts disabled; the caller is the current task or an interrupt     *)
(* handler.  Mailboxes and the programs of the tasks are in module Kernel, *)
(* which implements this specification.                                    *)
(***************************************************************************)
EXTENDS RunQueue

VARIABLES
  latestId,      \* latest_id_
  tasks,         \* ids of the objects in tasks_
  sched,         \* run queues, levels and flags (see RunQueue)
  finishTasks,   \* keys of finish_tasks_
  finishWaiter,  \* finish_waiter_: the waiter of each task id, 0 for none
  waitFor        \* the id a task inside WaitFinish waits for, 0 outside

vars == <<latestId, tasks, sched, finishTasks, finishWaiter, waitFor>>

Current == CurrentTask(sched)

-----------------------------------------------------------------------------
Init ==
  /\ latestId = 2
  /\ tasks = {MainTask, IdleTask}
  /\ sched = InitSched
  /\ finishTasks = {}
  /\ finishWaiter = [t \in Id |-> 0]
  /\ waitFor = [t \in Id |-> 0]

(* The current task can call the kernel: it is not the idle task, whose    *)
(* body only halts, and it is not inside the loop of WaitFinish.           *)
CurrentCalls == Current # IdleTask /\ waitFor[Current] = 0

NewTask ==
  /\ CurrentCalls
  /\ latestId < MaxTask
  /\ latestId' = latestId + 1
  /\ tasks' = tasks \cup {latestId + 1}
  /\ UNCHANGED <<sched, finishTasks, finishWaiter, waitFor>>

(* The task timer's interrupt.                                             *)
SwitchTask ==
  /\ sched' = RotateCurrentRunQueue(sched, FALSE)
  /\ UNCHANGED <<latestId, tasks, finishTasks, finishWaiter, waitFor>>

(* Sleep(id), of oneself or of another task.  Nobody puts the idle task to *)
(* sleep.  An unknown id is refused with kNoSuchTask and changes nothing.  *)
SleepTask(t) ==
  /\ CurrentCalls
  /\ t \in tasks \ {IdleTask}
  /\ sched' = Sleep(sched, t)
  /\ UNCHANGED <<latestId, tasks, finishTasks, finishWaiter, waitFor>>

(* Wakeup(id, level); StartAppTask and StartServerTask end in it.          *)
WakeupTask(t, lv) ==
  /\ CurrentCalls
  /\ t \in tasks
  /\ sched' = Wakeup(sched, t, lv)
  /\ UNCHANGED <<latestId, tasks, finishTasks, finishWaiter, waitFor>>

(* What SendMessage(id, msg) does to the run queues: Wakeup without a      *)
(* level, by the current task or by an interrupt handler.                  *)
SendMessage(t) ==
  /\ t \in tasks
  /\ sched' = Wakeup(sched, t, NoLevel)
  /\ UNCHANGED <<latestId, tasks, finishTasks, finishWaiter, waitFor>>

(* Mutant of Finish: the entry of finish_waiter_ is not erased.            *)
FinishKeepsWaiter ==
  LET me      == Current
      rotated == RotateCurrentRunQueue([sched EXCEPT !.running[me] = FALSE], TRUE)
      waiter  == finishWaiter[me]
  IN  /\ CurrentCalls
      /\ me # MainTask
      /\ tasks' = tasks \ {me}
      /\ finishTasks' = finishTasks \cup {me}
      /\ sched' = IF waiter = 0 THEN rotated ELSE Wakeup(rotated, waiter, NoLevel)
      /\ UNCHANGED <<latestId, finishWaiter, waitFor>>

(* Finish: leave the run queue for good, destroy the task object, record   *)
(* the exit code, wake the waiter if there is one.  running_ is cleared    *)
(* here because the object that held it is gone.                           *)
Finish ==
  LET me      == Current
      rotated == RotateCurrentRunQueue([sched EXCEPT !.running[me] = FALSE], TRUE)
      waiter  == finishWaiter[me]
  IN  /\ CurrentCalls
      /\ me # MainTask
      /\ tasks' = tasks \ {me}
      /\ finishTasks' = finishTasks \cup {me}
      /\ finishWaiter' = [finishWaiter EXCEPT ![me] = 0]
      /\ sched' = IF waiter = 0 THEN rotated ELSE Wakeup(rotated, waiter, NoLevel)
      /\ UNCHANGED <<latestId, waitFor>>

(* One turn of the loop of WaitFinish(id): take the exit code if the task  *)
(* has finished, else register as its waiter and sleep.  A waiter that is  *)
(* woken for another reason goes round again.  An id comes from NewTask.   *)
WaitFinish(id) ==
  LET me == Current
  IN  /\ me # IdleTask
      /\ id <= latestId
      /\ waitFor[me] \in {0, id}
      /\ \/ /\ id \in finishTasks
            /\ finishTasks' = finishTasks \ {id}
            /\ waitFor' = [waitFor EXCEPT ![me] = 0]
            /\ UNCHANGED <<sched, finishWaiter>>
         \/ /\ id \notin finishTasks
            /\ finishWaiter' = [finishWaiter EXCEPT ![id] = me]
            /\ waitFor' = [waitFor EXCEPT ![me] = id]
            /\ sched' = Sleep(sched, me)
            /\ UNCHANGED finishTasks
      /\ UNCHANGED <<latestId, tasks>>

Next ==
  \/ NewTask
  \/ SwitchTask
  \/ \E t \in Id : SleepTask(t)
  \/ \E t \in Id, lv \in Level \cup {NoLevel} : WakeupTask(t, lv)
  \/ \E t \in Id : SendMessage(t)
  \/ Finish
  \/ \E t \in Id : WaitFinish(t)

Spec == Init /\ [][Next]_vars

-----------------------------------------------------------------------------
(* Every variable stays in its set.                                        *)
TypeOK ==
  /\ latestId \in 2..MaxTask
  /\ tasks \subseteq 1..latestId
  /\ sched \in Sched
  /\ finishTasks \subseteq Id
  /\ finishWaiter \in [Id -> 0..MaxTask]
  /\ waitFor \in [Id -> 0..MaxTask]

(* A task is in the run queues exactly when its running_ flag is set, once *)
(* and in the queue of its own level: SetRunning, SetLevel and the deque   *)
(* operations of Sleep, Wakeup, ChangeLevelRunning, Finish never diverge.  *)
RunQueueIntegrity == QueuesMatchFlags(sched, tasks) /\ QueuedOnce(sched)

(* running_[current_level_].front(), which CurrentTask and every switch    *)
(* dereference, always exists and is a live task.                          *)
CurrentExists == CurrentDefined(sched) /\ Current \in tasks

(* A runnable task above the current level is always announced by          *)
(* level_changed_, so the next switch cannot overlook it.                  *)
NoMissedPreemption == HigherIsFlagged(sched)

(* finish_waiter_ holds raw Task pointers: each points to a live task that *)
(* is inside WaitFinish for that id, never to a destroyed object; and no   *)
(* registered waiter is left over once the exit code of id is there.       *)
WaitersAlive ==
  \A id \in Id : finishWaiter[id] # 0 =>
    /\ finishWaiter[id] \in tasks
    /\ waitFor[finishWaiter[id]] = id
    /\ id \notin finishTasks

(* After the timer's switch the processor belongs to a task of the highest *)
(* non-empty level.                                                        *)
SwitchRunsHighest ==
  [][SwitchTask => \A lv \in Level :
       sched'.queue[lv] # <<>> => lv <= sched'.currentLevel]_vars
=============================================================================
