------------------------------ MODULE RunQueue ------------------------------
(***************************************************************************)
(* The run queues of the kernel (kernel/task.cpp, class TaskManager), as   *)
(* operators on one record s that holds the scheduling state:              *)
(*                                                                         *)
(*   s.queue[lv]     running_[lv], the deque of runnable tasks of level lv *)
(*   s.level[t]      level_ of task t                                      *)
(*   s.running[t]    running_ flag of task t                               *)
(*   s.currentLevel  current_level_                                        *)
(*   s.levelChanged  level_changed_                                        *)
(*                                                                         *)
(* The task that owns the processor is the front of the deque of the       *)
(* current level.  Every operator is the effect of one member function run *)
(* to its end with interrupts disabled.                                    *)
(***************************************************************************)
EXTENDS Integers, Sequences

CONSTANTS
  MaxTask,    \* the largest task id the instance can hand out (latest_id_)
  kMaxLevel   \* TaskManager::kMaxLevel, the highest priority level

\* Ids 1 (the kernel's main thread) and 2 (TaskIdle) always exist.
ASSUME MaxTaskAssumption == MaxTask \in Nat /\ MaxTask >= 2
ASSUME MaxLevelAssumption == kMaxLevel \in Nat /\ kMaxLevel >= 1

Id == 1..MaxTask
Level == 0..kMaxLevel
kDefaultLevel == 1
NoLevel == -1           \* the default argument level = -1 of Wakeup

MainTask == 1
IdleTask == 2

Sched == [queue : [Level -> Seq(Id)], level : [Id -> Level],
          running : [Id -> BOOLEAN], currentLevel : Level, levelChanged : BOOLEAN]

-----------------------------------------------------------------------------
(* Erase(c, value).  The code removes every occurrence; a task is never    *)
(* twice in a queue (RunQueueIntegrity of TaskManager, proved in           *)
(* TaskManager_proofs), so cutting out one occurrence is the same.         *)
Erase(q, t) ==
  IF \E i \in 1..Len(q) : q[i] = t
  THEN LET i == CHOOSE i \in 1..Len(q) : q[i] = t
       IN  SubSeq(q, 1, i - 1) \o SubSeq(q, i + 1, Len(q))
  ELSE q

CurrentTask(s) == Head(s.queue[s.currentLevel])

(* Mutant of HighestLevel: the scan stops above level 0.                   *)
HighestLevelAboveIdle(queue, default) ==
  IF \E lv \in Level \ {0} : queue[lv] # <<>>
  THEN CHOOSE lv \in Level \ {0} : /\ queue[lv] # <<>>
                                   /\ \A h \in Level : h > lv => queue[h] = <<>>
  ELSE -1

(* The highest non-empty level: the loop at the end of                     *)
(* RotateCurrentRunQueue.  With every queue empty the level is kept.       *)
HighestLevel(queue, default) ==
  IF \E lv \in Level : queue[lv] # <<>>
  THEN CHOOSE lv \in Level : /\ queue[lv] # <<>>
                             /\ \A h \in Level : h > lv => queue[h] = <<>>
  ELSE default

(* Mutants of RotateCurrentRunQueue: level_changed_ is not looked at; an   *)
(* empty queue does not make it scan; the task goes back to the front.     *)
RotateIgnoringChange(s, currentSleep) ==
  LET q     == s.queue[s.currentLevel]
      rest  == IF currentSleep THEN Tail(q) ELSE Append(Tail(q), Head(q))
      queue == [s.queue EXCEPT ![s.currentLevel] = rest]
  IN  [s EXCEPT !.queue = queue,
                !.currentLevel = IF rest = <<>> THEN HighestLevel(queue, @) ELSE @,
                !.levelChanged = FALSE]

RotateIgnoringEmpty(s, currentSleep) ==
  LET q     == s.queue[s.currentLevel]
      rest  == IF currentSleep THEN Tail(q) ELSE Append(Tail(q), Head(q))
      queue == [s.queue EXCEPT ![s.currentLevel] = rest]
  IN  [s EXCEPT !.queue = queue,
                !.currentLevel = IF s.levelChanged THEN HighestLevel(queue, @) ELSE @,
                !.levelChanged = FALSE]

RotateToFront(s, currentSleep) ==
  LET q     == s.queue[s.currentLevel]
      rest  == IF currentSleep THEN Tail(q) ELSE q
      queue == [s.queue EXCEPT ![s.currentLevel] = rest]
  IN  [s EXCEPT !.queue = queue,
                !.currentLevel = IF s.levelChanged \/ rest = <<>>
                                 THEN HighestLevel(queue, @) ELSE @,
                !.levelChanged = FALSE]

(* Take the current task off the front of its queue and, unless it goes to *)
(* sleep, put it back at the end; then pick the level to run next.         *)
RotateCurrentRunQueue(s, currentSleep) ==
  LET q     == s.queue[s.currentLevel]
      rest  == IF currentSleep THEN Tail(q) ELSE Append(Tail(q), Head(q))
      queue == [s.queue EXCEPT ![s.currentLevel] = rest]
  IN  [s EXCEPT
         !.queue = queue,
         !.currentLevel = IF s.levelChanged \/ rest = <<>>
                          THEN HighestLevel(queue, s.currentLevel)
                          ELSE s.currentLevel,
         !.levelChanged = FALSE]

(* Sleep(Task* ).  A task that is not running stays as it is; the current  *)
(* task is rotated out, any other one is erased from its queue.            *)
Sleep(s, t) ==
  LET stopped == [s EXCEPT !.running[t] = FALSE]
  IN  IF ~ s.running[t] THEN s
      ELSE IF t = CurrentTask(s) THEN RotateCurrentRunQueue(stopped, TRUE)
      ELSE [stopped EXCEPT !.queue[s.level[t]] = Erase(s.queue[s.level[t]], t)]

(* ChangeLevelRunning: Wakeup of a task that is already running.           *)
ChangeLevelRunning(s, t, lv) ==
  IF lv = NoLevel \/ lv = s.level[t] THEN s
  ELSE IF t # CurrentTask(s)
  THEN LET erased == [s.queue EXCEPT ![s.level[t]] = Erase(s.queue[s.level[t]], t)]
       IN  [s EXCEPT !.queue = [erased EXCEPT ![lv] = Append(erased[lv], t)],
                     !.level[t] = lv,
                     !.levelChanged = s.levelChanged \/ lv > s.currentLevel]
  ELSE LET popped == [s.queue EXCEPT ![s.currentLevel] = Tail(s.queue[s.currentLevel])]
       IN  [s EXCEPT !.queue = [popped EXCEPT ![lv] = <<t>> \o popped[lv]],
                     !.level[t] = lv,
                     !.currentLevel = lv,
                     !.levelChanged = s.levelChanged \/ lv < s.currentLevel]

(* Mutants of Wakeup: a running task is queued again; a higher level is    *)
(* not announced.                                                          *)
WakeupUnchecked(s, t, lv) ==
  LET new == IF lv = NoLevel THEN s.level[t] ELSE lv
  IN  [s EXCEPT !.level[t] = new,
                !.running[t] = TRUE,
                !.queue[new] = Append(s.queue[new], t),
                !.levelChanged = s.levelChanged \/ new > s.currentLevel]

WakeupUnannounced(s, t, lv) ==
  LET new == IF lv = NoLevel THEN s.level[t] ELSE lv
  IN  IF s.running[t] THEN ChangeLevelRunning(s, t, lv)
      ELSE [s EXCEPT !.level[t] = new,
                     !.running[t] = TRUE,
                     !.queue[new] = Append(s.queue[new], t)]

(* Wakeup(Task*, level).                                                   *)
Wakeup(s, t, lv) ==
  LET new == IF lv = NoLevel THEN s.level[t] ELSE lv
  IN  IF s.running[t] THEN ChangeLevelRunning(s, t, lv)
      ELSE [s EXCEPT !.level[t] = new,
                     !.running[t] = TRUE,
                     !.queue[new] = Append(s.queue[new], t),
                     !.levelChanged = s.levelChanged \/ new > s.currentLevel]

(* The constructor: the main thread runs at the highest level, the idle    *)
(* task waits in the lowest.                                               *)
InitSched ==
  [queue |-> [lv \in Level |-> IF lv = kMaxLevel THEN <<MainTask>>
                               ELSE IF lv = 0 THEN <<IdleTask>> ELSE <<>>],
   level |-> [t \in Id |-> IF t = MainTask THEN kMaxLevel
                           ELSE IF t = IdleTask THEN 0 ELSE kDefaultLevel],
   running |-> [t \in Id |-> t \in {MainTask, IdleTask}],
   currentLevel |-> kMaxLevel,
   levelChanged |-> FALSE]

-----------------------------------------------------------------------------
(* Well-formedness of the scheduling state over the set T of live tasks.   *)

Elements(q) == {q[i] : i \in 1..Len(q)}
Unique(q) == \A i, j \in 1..Len(q) : q[i] = q[j] => i = j

QueuesMatchFlags(s, T) ==
  \A lv \in Level :
    Elements(s.queue[lv]) = {t \in T : s.running[t] /\ s.level[t] = lv}

QueuedOnce(s) == \A lv \in Level : Unique(s.queue[lv])

CurrentDefined(s) == s.queue[s.currentLevel] # <<>>

HigherIsFlagged(s) ==
  \A lv \in Level : lv > s.currentLevel /\ s.queue[lv] # <<>> => s.levelChanged
=============================================================================
