------------------------- MODULE TaskManager_proofs -------------------------
(***************************************************************************)
(* Proofs about the task manager, for every number of tasks and levels,    *)
(* with the lemmas of RunQueue_proofs.                                     *)
(***************************************************************************)
EXTENDS TaskManager, RunQueue_proofs

(* The inductive invariant.  Two facts are needed beyond the properties:   *)
(* the idle task always runs, so taking the current task out never empties *)
(* the queues, and an id that is not live has a clear running_ flag, so    *)
(* NewTask adds a task that belongs in no queue.                           *)
IInv ==
  /\ TypeOK
  /\ WellFormed(sched, tasks)
  /\ IdleTask \in tasks /\ sched.running[IdleTask]
  /\ \A t \in Id \ tasks : ~ sched.running[t]
  /\ WaitersAlive

LEMMA InitIInv == Init => IInv
<1> SUFFICES ASSUME Init PROVE IInv
  OBVIOUS
<1>1. /\ MainTask \in Id /\ IdleTask \in Id
      /\ WellFormed(sched, tasks) /\ sched.running = [t \in Id |-> t \in tasks]
  BY InitSchedFacts DEF Init
<1>2. TypeOK
  BY <1>1, MaxTaskAssumption DEF Init, TypeOK, WellFormed, Id, MainTask, IdleTask
<1>3. WaitersAlive
  BY DEF Init, WaitersAlive
<1>4. IdleTask \in tasks /\ sched.running[IdleTask] /\ \A t \in Id \ tasks : ~ sched.running[t]
  BY <1>1 DEF Init
<1>. QED BY <1>1, <1>2, <1>3, <1>4 DEF IInv

(* One step per action.                                                    *)
LEMMA NextIInv == IInv /\ [Next]_vars => IInv'
<1> SUFFICES ASSUME IInv, [Next]_vars PROVE IInv'
  OBVIOUS
<1> USE MaxTaskAssumption, MaxLevelAssumption
<1>0. /\ TypeOK /\ WellFormed(sched, tasks) /\ IdleTask \in tasks
      /\ sched.running[IdleTask] /\ tasks \subseteq Id
      /\ sched.running \in [Id -> BOOLEAN] /\ IdleTask \in Id
      /\ (\A t \in Id \ tasks : ~ sched.running[t])
  BY DEF IInv, WellFormed, Sched
<1>c. Current \in tasks /\ Current \in Id
  BY <1>0, CurrentFacts DEF Current
<1>w. ASSUME WellFormed(sched', tasks), UNCHANGED <<tasks, finishTasks, finishWaiter, waitFor, latestId>>,
             NEW t \in tasks, NEW b \in BOOLEAN, t = IdleTask => b,
             sched'.running = [sched.running EXCEPT ![t] = b]
      PROVE  IInv'
  <2>1. TypeOK'
    BY <1>0, <1>w DEF TypeOK, WellFormed
  <2>2. sched'.running[IdleTask] /\ \A u \in Id \ tasks : ~ sched'.running[u]
    BY <1>0, <1>w
  <2>3. WaitersAlive'
    BY <1>w DEF IInv, WaitersAlive
  <2>4. WellFormed(sched, tasks)'
    BY <1>w
  <2>. QED BY <1>0, <1>w, <2>1, <2>2, <2>3, <2>4 DEF IInv
<1>1. CASE NewTask
  <2> DEFINE n == latestId + 1
  <2>1. /\ n \in Id /\ n \notin tasks /\ n \in 2..MaxTask /\ tasks \subseteq 1..n /\ n \in 1..n
    BY <1>0, <1>1 DEF NewTask, TypeOK, Id
  <2> HIDE DEF n
  <2>2. /\ tasks' = tasks \cup {n} /\ latestId' = n
        /\ UNCHANGED <<sched, finishTasks, finishWaiter, waitFor>>
    BY <1>1 DEF NewTask, n
  <2>3. TypeOK'
    BY <1>0, <2>1, <2>2 DEF TypeOK
  <2>4. WellFormed(sched, tasks)'
    <3>1. ~ sched.running[n]
      BY <1>0, <2>1
    <3>2. WellFormed(sched, tasks \cup {n})
      BY <1>0, <2>1, <3>1, NewTaskKeeps
    <3>. QED BY <2>2, <3>2
  <2>5. WaitersAlive'
    BY <2>2 DEF IInv, WaitersAlive
  <2>. QED BY <1>0, <2>2, <2>3, <2>4, <2>5 DEF IInv
<1>2. CASE SwitchTask
  <2>1. /\ sched' = RotateCurrentRunQueue(sched, FALSE)
        /\ UNCHANGED <<latestId, tasks, finishTasks, finishWaiter, waitFor>>
    BY <1>2 DEF SwitchTask
  <2>2. WellFormed(sched', tasks) /\ sched'.running = sched.running
    <3>1. sched'.running = sched.running
      BY <1>0, <2>1, RotateFacts DEF WellFormed
    <3>. QED BY <1>0, <2>1, <3>1, RotateKeeps
  <2>3. sched'.running = [sched.running EXCEPT ![IdleTask] = TRUE]
    BY <1>0, <2>2
  <2>. QED BY <1>0, <1>w, <2>1, <2>2, <2>3
<1>3. ASSUME NEW t \in Id, SleepTask(t) PROVE IInv'
  <2>1. /\ t \in tasks /\ t # IdleTask /\ sched' = Sleep(sched, t)
        /\ UNCHANGED <<latestId, tasks, finishTasks, finishWaiter, waitFor>>
    BY <1>3 DEF SleepTask
  <2>2. WellFormed(sched', tasks) /\ sched'.running = [sched.running EXCEPT ![t] = FALSE]
    BY <1>0, <2>1, SleepKeeps
  <2>. QED BY <1>w, <2>1, <2>2
<1>4. ASSUME NEW t \in Id, NEW lv \in Level \cup {NoLevel}, WakeupTask(t, lv) PROVE IInv'
  <2>1. /\ t \in tasks /\ sched' = Wakeup(sched, t, lv)
        /\ UNCHANGED <<latestId, tasks, finishTasks, finishWaiter, waitFor>>
    BY <1>4 DEF WakeupTask
  <2>2. WellFormed(sched', tasks) /\ sched'.running = [sched.running EXCEPT ![t] = TRUE]
    BY <1>0, <2>1, WakeupKeeps
  <2>. QED BY <1>w, <2>1, <2>2
<1>5. ASSUME NEW t \in Id, SendMessage(t) PROVE IInv'
  <2>1. /\ t \in tasks /\ sched' = Wakeup(sched, t, NoLevel)
        /\ UNCHANGED <<latestId, tasks, finishTasks, finishWaiter, waitFor>>
    BY <1>5 DEF SendMessage
  <2>2. WellFormed(sched', tasks) /\ sched'.running = [sched.running EXCEPT ![t] = TRUE]
    BY <1>0, <2>1, WakeupKeeps
  <2>. QED BY <1>w, <2>1, <2>2
<1>6. CASE Finish
  <2> DEFINE me == Current
             p == RotateCurrentRunQueue([sched EXCEPT !.running[me] = FALSE], TRUE)
             waiter == finishWaiter[me]
  <2>1. /\ me # IdleTask /\ waitFor[me] = 0
        /\ tasks' = tasks \ {me} /\ finishTasks' = finishTasks \cup {me}
        /\ finishWaiter' = [finishWaiter EXCEPT ![me] = 0]
        /\ sched' = (IF waiter = 0 THEN p ELSE Wakeup(p, waiter, NoLevel))
        /\ UNCHANGED <<latestId, waitFor>>
    BY <1>6 DEF Finish, CurrentCalls
  <2>2. /\ WellFormed(p, tasks \ {me})
        /\ p.running = [sched.running EXCEPT ![me] = FALSE]
    BY <1>0, <2>1, RotateOutKeeps DEF Current
  <2>3. waiter # 0 => waiter \in tasks \ {me}
    <3>1. waiter # 0 => waiter \in tasks /\ waitFor[waiter] = me
      BY <1>c DEF IInv, WaitersAlive
    <3>2. me # 0
      BY <1>c DEF Id
    <3>. QED BY <2>1, <3>1, <3>2
  <2> HIDE DEF p, me, waiter
  <2>4. /\ WellFormed(sched', tasks \ {me})
        /\ \A u \in Id : sched'.running[u] => (u = waiter /\ waiter # 0) \/ (sched.running[u] /\ u # me)
        /\ sched'.running[IdleTask]
    <3>1. /\ p.running \in [Id -> BOOLEAN] /\ p.running[IdleTask]
          /\ \A u \in Id : p.running[u] <=> sched.running[u] /\ u # me
      BY <1>0, <1>c, <2>1, <2>2 DEF me
    <3>2. CASE waiter = 0
      BY <2>1, <2>2, <3>1, <3>2
    <3>3. CASE waiter # 0
      <4>1. /\ WellFormed(Wakeup(p, waiter, NoLevel), tasks \ {me})
            /\ Wakeup(p, waiter, NoLevel).running = [p.running EXCEPT ![waiter] = TRUE]
        <5> DEFINE U == tasks \ {me}
        <5>1. WellFormed(p, U) /\ waiter \in U /\ NoLevel \in Level \cup {NoLevel}
          BY <2>2, <2>3, <3>3
        <5> HIDE DEF U
        <5>2. /\ WellFormed(Wakeup(p, waiter, NoLevel), U)
              /\ Wakeup(p, waiter, NoLevel).running = [p.running EXCEPT ![waiter] = TRUE]
          BY <5>1, WakeupKeeps
        <5>. QED BY <5>2 DEF U
      <4>. QED BY <1>0, <2>1, <3>1, <3>3, <4>1
    <3>. QED BY <3>2, <3>3
  <2>5. \A u \in Id \ tasks' : ~ sched'.running[u]
    BY <1>0, <2>1, <2>3, <2>4
  <2>6. TypeOK'
    BY <1>0, <1>c, <2>1, <2>4 DEF TypeOK, WellFormed, me
  <2>7. WaitersAlive'
    <3> SUFFICES ASSUME NEW id \in Id, finishWaiter'[id] # 0
                 PROVE  /\ finishWaiter'[id] \in tasks'
                        /\ waitFor'[finishWaiter'[id]] = id
                        /\ id \notin finishTasks'
      BY DEF WaitersAlive
    <3>1. id # me /\ finishWaiter'[id] = finishWaiter[id]
      BY <1>0, <1>c, <2>1 DEF TypeOK, me
    <3>2. /\ finishWaiter[id] \in tasks /\ waitFor[finishWaiter[id]] = id
          /\ id \notin finishTasks
      BY <3>1 DEF IInv, WaitersAlive
    <3>3. id # 0
      BY DEF Id
    <3>. QED BY <2>1, <3>1, <3>2, <3>3
  <2>. QED BY <1>0, <2>1, <2>4, <2>5, <2>6, <2>7 DEF IInv
<1>7. ASSUME NEW id \in Id, WaitFinish(id) PROVE IInv'
  <2> DEFINE me == Current
  <2>1. me # IdleTask /\ waitFor[me] \in {0, id} /\ UNCHANGED <<latestId, tasks>>
    BY <1>7 DEF WaitFinish
  <2>2. CASE /\ id \in finishTasks
             /\ finishTasks' = finishTasks \ {id}
             /\ waitFor' = [waitFor EXCEPT ![me] = 0]
             /\ UNCHANGED <<sched, finishWaiter>>
    <3>1. TypeOK'
      BY <1>0, <1>c, <2>1, <2>2 DEF TypeOK
    <3>2. WaitersAlive'
      <4> SUFFICES ASSUME NEW i \in Id, finishWaiter[i] # 0
                   PROVE  /\ finishWaiter[i] \in tasks
                          /\ waitFor'[finishWaiter[i]] = i
                          /\ i \notin finishTasks'
        BY <2>1, <2>2 DEF WaitersAlive
      <4>1. finishWaiter[i] \in tasks /\ waitFor[finishWaiter[i]] = i /\ i \notin finishTasks
        BY DEF IInv, WaitersAlive
      <4>2. i # id /\ i # 0
        BY <2>2, <4>1 DEF Id
      <4>3. finishWaiter[i] # me
        BY <2>1, <4>1, <4>2
      <4>. QED BY <1>0, <1>c, <2>2, <4>1, <4>3 DEF TypeOK
    <3>. QED BY <1>0, <2>1, <2>2, <3>1, <3>2 DEF IInv
  <2>3. CASE /\ id \notin finishTasks
             /\ finishWaiter' = [finishWaiter EXCEPT ![id] = me]
             /\ waitFor' = [waitFor EXCEPT ![me] = id]
             /\ sched' = Sleep(sched, me)
             /\ UNCHANGED finishTasks
    <3>1. WellFormed(sched', tasks) /\ sched'.running = [sched.running EXCEPT ![me] = FALSE]
      BY <1>0, <1>c, <2>1, <2>3, SleepKeeps
    <3>2. TypeOK'
      <4>1. me \in 0..MaxTask /\ id \in 0..MaxTask /\ me \in Id
        BY <1>c DEF Id
      <4>. QED BY <1>0, <2>1, <2>3, <3>1, <4>1 DEF TypeOK, WellFormed
    <3>3. sched'.running[IdleTask] /\ \A u \in Id \ tasks : ~ sched'.running[u]
      BY <1>0, <2>1, <3>1
    <3>4. WaitersAlive'
      <4> SUFFICES ASSUME NEW i \in Id, finishWaiter'[i] # 0
                   PROVE  /\ finishWaiter'[i] \in tasks
                          /\ waitFor'[finishWaiter'[i]] = i
                          /\ i \notin finishTasks
        BY <2>1, <2>3 DEF WaitersAlive
      <4>1. CASE i = id
        BY <1>0, <1>c, <2>3, <4>1 DEF TypeOK
      <4>2. CASE i # id
        <5>1. finishWaiter'[i] = finishWaiter[i]
          BY <1>0, <2>3, <4>2 DEF TypeOK
        <5>2. /\ finishWaiter[i] \in tasks /\ waitFor[finishWaiter[i]] = i
              /\ i \notin finishTasks /\ i # 0
          BY <5>1 DEF IInv, WaitersAlive, Id
        <5>3. finishWaiter[i] # me
          BY <2>1, <4>2, <5>2
        <5>. QED BY <1>0, <1>c, <2>3, <5>1, <5>2, <5>3 DEF TypeOK
      <4>. QED BY <4>1, <4>2
    <3>5. WellFormed(sched, tasks)' /\ (IdleTask \in tasks)'
      BY <1>0, <2>1, <3>1
    <3>. QED BY <2>1, <3>2, <3>3, <3>4, <3>5 DEF IInv
  <2>. QED BY <1>7, <2>2, <2>3 DEF WaitFinish
<1>8. CASE UNCHANGED vars
  BY <1>8 DEF vars, IInv, TypeOK, WellFormed, WaitersAlive
<1>. QED
  BY <1>1, <1>2, <1>3, <1>4, <1>5, <1>6, <1>7, <1>8 DEF Next

LEMMA IInvAlways == Spec => []IInv
BY InitIInv, NextIInv, PTL DEF Spec

(* The variables of the task manager keep their types.                     *)
THEOREM TypeCorrect == Spec => []TypeOK
BY IInvAlways, PTL DEF IInv

(* Run queues, running_ flags and levels always agree, whatever sequence   *)
(* of Sleep, Wakeup, level changes, switches and Finish calls is made.     *)
THEOREM RunQueuesAgree == Spec => []RunQueueIntegrity
<1>1. IInv => RunQueueIntegrity
  BY DEF IInv, WellFormed, RunQueueIntegrity
<1>. QED BY <1>1, IInvAlways, PTL

(* There is always a current task, and it is a live one.                   *)
THEOREM CurrentAlwaysExists == Spec => []CurrentExists
<1>1. IInv => CurrentExists
  BY CurrentFacts DEF IInv, WellFormed, CurrentExists, Current
<1>. QED BY <1>1, IInvAlways, PTL

(* A runnable task above the current level is always flagged.              *)
THEOREM PreemptionNeverMissed == Spec => []NoMissedPreemption
<1>1. IInv => NoMissedPreemption
  BY DEF IInv, WellFormed, NoMissedPreemption
<1>. QED BY <1>1, IInvAlways, PTL

(* No entry of finish_waiter_ points to a destroyed task.                  *)
THEOREM WaitersNeverDangle == Spec => []WaitersAlive
BY IInvAlways, PTL DEF IInv

(* The switch of the task timer leaves no higher level waiting.            *)
THEOREM SwitchPicksHighest == Spec => SwitchRunsHighest
<1>1. IInv /\ SwitchTask => \A lv \in Level :
        sched'.queue[lv] # <<>> => lv <= sched'.currentLevel
  <2> SUFFICES ASSUME IInv, SwitchTask, NEW lv \in Level, sched'.queue[lv] # <<>>
               PROVE  lv <= sched'.currentLevel
    OBVIOUS
  <2>1. /\ sched' \in Sched /\ HigherIsFlagged(sched') /\ ~ sched'.levelChanged
    BY RotateFacts DEF IInv, WellFormed, SwitchTask
  <2>2. ~ (lv > sched'.currentLevel)
    BY <2>1 DEF HigherIsFlagged
  <2>3. lv \in Int /\ sched'.currentLevel \in Int
    BY <2>1, MaxLevelAssumption DEF Sched, Level
  <2>. QED BY <2>2, <2>3
<1>2. IInv /\ [Next]_vars => [SwitchTask => \A lv \in Level :
        sched'.queue[lv] # <<>> => lv <= sched'.currentLevel]_vars
  BY <1>1
<1>. QED BY <1>2, IInvAlways, PTL DEF SwitchRunsHighest, Spec
=============================================================================
