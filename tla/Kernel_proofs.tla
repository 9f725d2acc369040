---------------------------- MODULE Kernel_proofs ---------------------------
(***************************************************************************)
(* Proofs about the kernel's tasks and mailboxes, for every number of      *)
(* tasks, levels and messages: no wake-up is lost, only started tasks run, *)
(* and the kernel implements TaskManager.                                  *)
(***************************************************************************)
EXTENDS Kernel, RunQueue_proofs

-----------------------------------------------------------------------------
(* The inductive invariant.                                                *)

(* A task to which a message may go: none, or an id that has been handed   *)
(* out and is not between its creation and its start.                      *)
Addressable(d) == d \in 0..latestId /\ (d # 0 => pc[d] \notin {"created", "starting"})

(* Who sent a message can be answered; what is to be started is a task of  *)
(* a program.                                                              *)
MessageOK(m) == Addressable(m.src) /\ (m.type = "start" => m.id \in UserTask)

MailOK ==
  /\ \A t \in Id : \A i \in 1..Len(msgs[t]) : MessageOK(msgs[t][i])
  /\ \A t \in Id : MessageOK(held[t]) /\ Addressable(parent[t])

MainPlace == {"boot", "bootWake", "loop", "handle"}
EndPlace == {"exit", "report", "finish"}
StartedPlace == {"user", "open", "closed", "bounce"} \cup EndPlace
UnstartedPlace == {"none", "created", "starting"}

(* Where each task can be.  The init server's task, which the main thread  *)
(* wakes after it has created it, is still there then.                     *)
PlacesOK ==
  /\ pc[MainTask] \in MainPlace /\ pc[IdleTask] = "idle"
  /\ \A t \in UserTask : pc[t] \in StartedPlace \cup UnstartedPlace
  /\ \A t \in Id : t \in tasks <=> pc[t] # "none"
  /\ pc[MainTask] = "boot" => latestId = IdleTask
  /\ pc[MainTask] = "bootWake" => InitTask \in tasks
  /\ pc[InitTask] \notin EndPlace

SchedOK ==
  /\ WellFormed(sched, tasks)
  /\ sched.running[IdleTask]
  /\ \A t \in Id \ tasks : ~ sched.running[t]

IInv == TypeOK /\ SchedOK /\ PlacesOK /\ MailOK /\ NoLostWakeup /\ OnlyStartedTasksRun

-----------------------------------------------------------------------------
(* The three fixed tasks.                                                  *)
LEMMA FixedTasks ==
  /\ MainTask \in Id /\ IdleTask \in Id /\ InitTask \in UserTask
  /\ MainTask # IdleTask /\ MainTask \notin UserTask /\ IdleTask \notin UserTask
  /\ UserTask \subseteq Id
  /\ \A t \in Id : t \in UserTask \/ t = MainTask \/ t = IdleTask
BY MaxTaskAssumption, InitTaskAssumption
   DEF MainTask, IdleTask, InitTask, UserTask, Id

(* The ids of the live tasks have been handed out.                         *)
LEMMA LiveIds ==
  ASSUME TypeOK
  PROVE  /\ MainTask \in 0..latestId /\ MainTask \in 0..MaxTask /\ 0 \in 0..latestId
         /\ \A t \in tasks : t \in 0..latestId /\ t \in 0..MaxTask
<1>1. latestId \in Nat /\ latestId >= 2 /\ latestId <= MaxTask
  BY MaxTaskAssumption DEF TypeOK, IdleTask
<1>2. \A t \in tasks : t \in 1..latestId
  BY DEF TypeOK
<1>. QED BY <1>1, <1>2, MaxTaskAssumption DEF MainTask

LEMMA InitIInv == Init => IInv
<1> SUFFICES ASSUME Init PROVE IInv
  OBVIOUS
<1>1. /\ WellFormed(sched, tasks) /\ sched.running = [t \in Id |-> t \in tasks]
      /\ sched \in Sched
  BY InitSchedFacts DEF Init, WellFormed
<1>2. TypeOK
  BY <1>1, FixedTasks, MaxTaskAssumption, CreditAssumption
     DEF Init, TypeOK, IdleTask, MainTask, PC, Message, NoMsg, Msg, Type
<1>3. SchedOK
  BY <1>1, FixedTasks DEF SchedOK, Init
<1>4. /\ pc[MainTask] = "boot" /\ pc[IdleTask] = "idle"
      /\ \A t \in UserTask : pc[t] = "none"
  BY FixedTasks DEF Init
<1>5. PlacesOK
  BY <1>4, FixedTasks DEF PlacesOK, Init, MainPlace, StartedPlace, UnstartedPlace, EndPlace
<1>6. MailOK
  <2>1. Addressable(0)
    BY DEF Addressable, Init, IdleTask
  <2>2. \A t \in Id : msgs[t] = <<>> /\ held[t] = NoMsg /\ parent[t] = 0
    BY DEF Init
  <2>3. NoMsg.src = 0 /\ NoMsg.type # "start"
    BY DEF NoMsg, Msg
  <2>. QED BY <2>1, <2>2, <2>3 DEF MailOK, MessageOK
<1>7. \A t \in tasks : sched.running[t] /\ pc[t] \notin {"none", "created", "starting"}
  <2>1. tasks = {MainTask, IdleTask}
    BY DEF Init
  <2>2. \A t \in tasks : t \in Id /\ pc[t] \in {"boot", "idle"}
    BY ONLY <1>4, <2>1, FixedTasks
  <2>3. \A t \in tasks : sched.running[t]
    BY ONLY <1>1, <2>2
  <2>. QED BY ONLY <2>2, <2>3
<1>8. NoLostWakeup /\ OnlyStartedTasksRun
  BY <1>7 DEF NoLostWakeup, OnlyStartedTasksRun
<1>. QED BY <1>2, <1>3, <1>5, <1>6, <1>8 DEF IInv

-----------------------------------------------------------------------------
(* A place a running task may go to.                                       *)
PlaceFor(t, label) ==
  \/ t = MainTask /\ label \in {"loop", "handle"}
  \/ t \in UserTask /\ label \in StartedPlace /\ (t = InitTask => label \notin EndPlace)

(* What a step that creates and ends no task has to keep.                  *)
LEMMA StepKeeps ==
  ASSUME IInv, TypeOK', SchedOK', UNCHANGED <<latestId, tasks>>,
         \A t \in Id : \/ pc'[t] = pc[t]
                       \/ t \in tasks /\ PlaceFor(t, pc'[t])
                       \/ pc[t] = "created" /\ pc'[t] = "starting",
         \A t \in tasks : ~ sched'.running[t] =>
            \/ pc'[t] \in {"created", "starting"}
            \/ msgs'[t] = <<>> /\ pc'[t] \in {"loop", "open", "closed", "report"},
         \A t \in tasks : sched'.running[t] => pc'[t] \notin UnstartedPlace,
         \A t \in Id : \A i \in 1..Len(msgs'[t]) : MessageOK(msgs'[t][i]),
         \A t \in Id : MessageOK(held'[t]) /\ Addressable(parent'[t])
  PROVE  IInv'
<1> USE FixedTasks
<1>1. PlacesOK'
  <2>1. /\ pc[MainTask] \in MainPlace /\ pc[IdleTask] = "idle"
        /\ \A t \in UserTask : pc[t] \in StartedPlace \cup UnstartedPlace
        /\ \A t \in Id : t \in tasks <=> pc[t] # "none"
        /\ pc[MainTask] = "boot" => latestId = IdleTask
        /\ pc[MainTask] = "bootWake" => InitTask \in tasks
        /\ pc[InitTask] \notin EndPlace
    BY DEF IInv, PlacesOK
  <2>2. pc'[MainTask] = pc[MainTask] \/ pc'[MainTask] \in {"loop", "handle"}
    BY <2>1 DEF PlaceFor, MainPlace
  <2>3. pc'[IdleTask] = "idle"
    BY <2>1 DEF PlaceFor
  <2>4. \A t \in UserTask : pc'[t] \in StartedPlace \cup UnstartedPlace
    <3> TAKE t \in UserTask
    <3>1. t \in Id /\ t # MainTask /\ pc[t] \in StartedPlace \cup UnstartedPlace
      BY <2>1
    <3>2. pc'[t] = pc[t] \/ pc'[t] \in StartedPlace \/ pc'[t] = "starting"
      BY <3>1 DEF PlaceFor
    <3>. QED BY <3>1, <3>2 DEF UnstartedPlace
  <2>5. \A t \in Id : t \in tasks <=> pc'[t] # "none"
    BY <2>1 DEF PlaceFor, StartedPlace, EndPlace
  <2>6. pc'[InitTask] \notin EndPlace
    BY <2>1 DEF PlaceFor, EndPlace
  <2>. QED BY <2>1, <2>2, <2>3, <2>4, <2>5, <2>6 DEF PlacesOK, MainPlace
<1>2. ASSUME NEW d, Addressable(d) PROVE Addressable(d)'
  <2>1. d \in 0..latestId /\ (d # 0 => d \in Id /\ pc[d] \notin {"created", "starting"})
    BY <1>2, MaxTaskAssumption DEF Addressable, IInv, TypeOK, Id, IdleTask
  <2>. QED BY <2>1 DEF Addressable, PlaceFor, StartedPlace, EndPlace
<1>3. MailOK'
  BY <1>2 DEF MailOK, MessageOK
<1>4. NoLostWakeup' /\ OnlyStartedTasksRun'
  BY DEF NoLostWakeup, OnlyStartedTasksRun, UnstartedPlace
<1>. QED BY <1>1, <1>3, <1>4 DEF IInv

(* The task that owns the processor is live and running, and a label At    *)
(* which it is tells what kind of task it is.                              *)
LEMMA CurrentTaskFacts ==
  ASSUME IInv
  PROVE  /\ Current \in tasks /\ Current \in Id /\ sched.running[Current]
         /\ pc[Current] \notin UnstartedPlace
<1>1. Current \in tasks /\ Current \in Id /\ sched.running[Current]
  BY CurrentFacts DEF IInv, SchedOK, Current
<1>. QED BY <1>1 DEF IInv, OnlyStartedTasksRun, UnstartedPlace

(* SendMessage to a task that may be sent to: nobody is put to sleep, who  *)
(* gets the message is awake, and no other mailbox changes.                *)
LEMMA DeliverFacts ==
  ASSUME IInv, NEW dst, Addressable(dst), NEW m \in Message, MessageOK(m),
         Deliver(dst, m), UNCHANGED tasks
  PROVE  /\ msgs' \in [Id -> Seq(Message)] /\ sched' \in Sched /\ SchedOK'
         /\ \A t \in tasks : ~ sched'.running[t] => ~ sched.running[t] /\ msgs'[t] = msgs[t]
         /\ \A t \in tasks : sched'.running[t] => pc[t] \notin UnstartedPlace
         /\ \A t \in Id : \A i \in 1..Len(msgs'[t]) : MessageOK(msgs'[t][i])
<1>0. /\ WellFormed(sched, tasks) /\ sched.running[IdleTask] /\ sched \in Sched
      /\ msgs \in [Id -> Seq(Message)] /\ sched.running \in [Id -> BOOLEAN] /\ tasks \subseteq Id
      /\ (\A t \in Id \ tasks : ~ sched.running[t]) /\ IdleTask \in Id
      /\ (\A t \in Id : \A i \in 1..Len(msgs[t]) : MessageOK(msgs[t][i]))
      /\ (\A t \in tasks : sched.running[t] => pc[t] \notin UnstartedPlace)
  BY FixedTasks DEF IInv, TypeOK, SchedOK, WellFormed, Sched, MailOK,
                    OnlyStartedTasksRun, UnstartedPlace
<1>1. CASE dst \notin tasks
  <2>1. UNCHANGED <<msgs, sched>>
    BY <1>1 DEF Deliver
  <2>2. SchedOK'
    BY <2>1 DEF IInv, SchedOK
  <2>. QED BY <1>0, <2>1, <2>2
<1>2. CASE dst \in tasks
  <2>1. /\ msgs' = [msgs EXCEPT ![dst] = Append(msgs[dst], m)]
        /\ sched' = Wakeup(sched, dst, NoLevel)
    BY <1>2 DEF Deliver
  <2>2. WellFormed(sched', tasks) /\ sched'.running = [sched.running EXCEPT ![dst] = TRUE]
    BY <1>0, <1>2, <2>1, WakeupKeeps
  <2>3. SchedOK' /\ sched' \in Sched
    BY <1>0, <1>2, <2>2 DEF SchedOK, WellFormed
  <2>4. msgs' \in [Id -> Seq(Message)]
    BY <1>0, <1>2, <2>1
  <2>5. \A t \in tasks : ~ sched'.running[t] => ~ sched.running[t] /\ msgs'[t] = msgs[t]
    BY <1>0, <1>2, <2>1, <2>2
  <2>6. pc[dst] \notin UnstartedPlace
    BY <1>0, <1>2 DEF Addressable, IInv, PlacesOK, UnstartedPlace, Id
  <2>7. \A t \in tasks : sched'.running[t] => pc[t] \notin UnstartedPlace
    BY <1>0, <1>2, <2>2, <2>6
  <2>8. ASSUME NEW t \in Id, NEW i \in 1..Len(msgs'[t]) PROVE MessageOK(msgs'[t][i])
    <3>1. CASE t # dst
      BY <1>0, <1>2, <2>1, <2>8, <3>1
    <3>2. CASE t = dst
      <4> DEFINE q == msgs[dst]
      <4>1. msgs'[t] = Append(q, m) /\ q \in Seq(Message)
        BY <1>0, <1>2, <2>1, <3>2
      <4>2. \A j \in 1..Len(q) : MessageOK(q[j])
        BY <1>0, <1>2
      <4> HIDE DEF q
      <4>3. /\ Len(Append(q, m)) = Len(q) + 1 /\ Len(q) \in Nat
            /\ \A j \in 1..Len(q) : Append(q, m)[j] = q[j]
            /\ Append(q, m)[Len(q) + 1] = m
        BY <4>1
      <4>4. CASE i \in 1..Len(q)
        BY <4>1, <4>2, <4>3, <4>4
      <4>5. CASE i = Len(q) + 1
        BY <4>1, <4>3, <4>5
      <4>. QED BY <2>8, <4>1, <4>3, <4>4, <4>5
    <3>. QED BY <3>1, <3>2
  <2>. QED BY <2>3, <2>4, <2>5, <2>7, <2>8
<1>. QED BY <1>1, <1>2

(* A step that leaves the run queues alone or sends one message, and moves *)
(* the current task c from where it is to another place.                   *)
LEMMA MoveKeeps ==
  ASSUME IInv, TypeOK', SchedOK', UNCHANGED <<latestId, tasks>>,
         NEW c \in tasks, sched.running[c], NEW label, PlaceFor(c, label),
         pc' = [pc EXCEPT ![c] = label],
         \A t \in tasks : ~ sched'.running[t] => ~ sched.running[t] /\ msgs'[t] = msgs[t],
         \A t \in tasks : sched'.running[t] => pc[t] \notin UnstartedPlace,
         \A t \in Id : \A i \in 1..Len(msgs'[t]) : MessageOK(msgs'[t][i]),
         \A t \in Id : MessageOK(held'[t]) /\ Addressable(parent'[t])
  PROVE  IInv'
<1>0. tasks \subseteq Id /\ pc \in [Id -> PC] /\ c \in Id
  BY DEF IInv, SchedOK, WellFormed, TypeOK
<1>1. \A t \in Id : pc'[t] = IF t = c THEN label ELSE pc[t]
  BY <1>0
<1>2. \A t \in Id : pc'[t] = pc[t] \/ (t \in tasks /\ PlaceFor(t, pc'[t]))
  BY <1>1
<1>3. label \notin UnstartedPlace
  BY DEF PlaceFor, StartedPlace, EndPlace, UnstartedPlace
<1>4. \A t \in tasks : ~ sched'.running[t] =>
        \/ pc'[t] \in {"created", "starting"}
        \/ msgs'[t] = <<>> /\ pc'[t] \in {"loop", "open", "closed", "report"}
  BY <1>0, <1>1 DEF IInv, NoLostWakeup
<1>5. \A t \in tasks : sched'.running[t] => pc'[t] \notin UnstartedPlace
  BY <1>0, <1>1, <1>3
<1>. QED BY <1>2, <1>4, <1>5, StepKeeps

(* The receive of a message that is there, at the head of the mailbox.     *)
LEMMA TakeKeeps ==
  ASSUME IInv, NEW t \in Id, t = Current, NEW label \in PC, PlaceFor(t, label), Take(t, label)
  PROVE  IInv'
<1>0. t \in tasks /\ sched.running[t]
  BY CurrentTaskFacts
<1>1. /\ msgs \in [Id -> Seq(Message)] /\ held \in [Id -> Message] /\ msgs[t] # <<>>
      /\ msgs' = [msgs EXCEPT ![t] = Tail(msgs[t])]
      /\ held' = IF label \in {"handle", "bounce"}
                 THEN [held EXCEPT ![t] = Head(msgs[t])] ELSE held
      /\ target' = IF label = "user" THEN [target EXCEPT ![t] = 0] ELSE target
      /\ pc' = [pc EXCEPT ![t] = label]
      /\ UNCHANGED <<latestId, tasks, finishTasks, sched, parent, kind, credit>>
  BY DEF Take, Goto, tmVars, IInv, TypeOK
<1>2. /\ msgs[t] \in Seq(Message) /\ Head(msgs[t]) \in Message /\ Tail(msgs[t]) \in Seq(Message)
      /\ Len(msgs[t]) \in Nat \ {0} /\ Len(Tail(msgs[t])) = Len(msgs[t]) - 1
      /\ \A i \in 1..Len(Tail(msgs[t])) : Tail(msgs[t])[i] = msgs[t][i + 1]
      /\ Head(msgs[t]) = msgs[t][1]
  BY <1>1
<1>3. TypeOK'
  BY <1>1, <1>2, MaxTaskAssumption DEF IInv, TypeOK
<1>4. SchedOK'
  BY <1>1 DEF IInv, SchedOK
<1>5. \A u \in Id : \A i \in 1..Len(msgs[u]) : MessageOK(msgs[u][i])
  BY DEF IInv, MailOK
<1>6. ASSUME NEW u \in Id, NEW i \in 1..Len(msgs'[u]) PROVE MessageOK(msgs'[u][i])
  <2>1. CASE u # t
    BY <1>1, <1>5, <1>6, <2>1
  <2>2. CASE u = t
    <3>1. msgs'[u] = Tail(msgs[t]) /\ i + 1 \in 1..Len(msgs[t])
      BY <1>1, <1>2, <1>6, <2>2
    <3>. QED BY <1>2, <1>5, <1>6, <2>2, <3>1
  <2>. QED BY <2>1, <2>2
<1>7. \A u \in Id : MessageOK(held'[u]) /\ Addressable(parent'[u])
  <2>1. MessageOK(Head(msgs[t]))
    BY <1>2, <1>5
  <2>. QED BY <1>1, <2>1 DEF IInv, MailOK
<1>8. \A u \in tasks : sched.running[u] => pc[u] \notin UnstartedPlace
  BY DEF IInv, OnlyStartedTasksRun, UnstartedPlace
<1>9. \A u \in tasks : ~ sched'.running[u] => ~ sched.running[u] /\ msgs'[u] = msgs[u]
  BY <1>0, <1>1 DEF IInv, SchedOK, WellFormed
<1>. QED BY <1>0, <1>1, <1>3, <1>4, <1>6, <1>7, <1>8, <1>9, MoveKeeps

(* The sleep of the current task when its mailbox is empty.                *)
LEMMA SleepIfEmptyKeeps ==
  ASSUME IInv, NEW t \in Id, t = Current, t # IdleTask, SleepIfEmpty(t),
         pc[t] \in {"loop", "open", "closed", "report"}
  PROVE  IInv'
<1>0. /\ t \in tasks /\ IdleTask \in tasks /\ sched.running[IdleTask]
      /\ WellFormed(sched, tasks) /\ sched.running \in [Id -> BOOLEAN]
      /\ (\A u \in Id \ tasks : ~ sched.running[u])
  BY CurrentTaskFacts, FixedTasks DEF IInv, SchedOK, WellFormed, Sched, PlacesOK
<1>1. /\ msgs[t] = <<>> /\ sched' = Sleep(sched, t)
      /\ UNCHANGED <<latestId, tasks, finishTasks, msgs, pc, held, target, parent, kind, credit>>
  BY DEF SleepIfEmpty, tmVars
<1>2. WellFormed(sched', tasks) /\ sched'.running = [sched.running EXCEPT ![t] = FALSE]
  BY <1>0, <1>1, SleepKeeps
<1>3. TypeOK' /\ SchedOK'
  BY <1>0, <1>1, <1>2, FixedTasks DEF IInv, TypeOK, SchedOK, WellFormed
<1>4. \A u \in tasks : ~ sched'.running[u] => ~ sched.running[u] \/ u = t
  BY <1>0, <1>2 DEF WellFormed
<1>5. \A u \in tasks : sched'.running[u] => sched.running[u]
  BY <1>0, <1>2 DEF WellFormed
<1>6. \A u \in tasks : ~ sched'.running[u] =>
        \/ pc'[u] \in {"created", "starting"}
        \/ msgs'[u] = <<>> /\ pc'[u] \in {"loop", "open", "closed", "report"}
  BY <1>1, <1>4 DEF IInv, NoLostWakeup
<1>7. \A u \in tasks : sched'.running[u] => pc'[u] \notin UnstartedPlace
  BY <1>1, <1>5 DEF IInv, OnlyStartedTasksRun, UnstartedPlace
<1>8. /\ \A u \in Id : \A i \in 1..Len(msgs'[u]) : MessageOK(msgs'[u][i])
      /\ \A u \in Id : MessageOK(held'[u]) /\ Addressable(parent'[u])
  BY <1>1 DEF IInv, MailOK
<1>. QED BY <1>1, <1>3, <1>6, <1>7, <1>8, StepKeeps

(* A step that sends one message and changes no place.                     *)
LEMMA SendKeeps ==
  ASSUME IInv, NEW dst, Addressable(dst), NEW m \in Message, MessageOK(m), Deliver(dst, m),
         credit' \in 0..Credit, UNCHANGED <<tmVars, pc, held, target, parent, kind>>
  PROVE  IInv'
<1>0. UNCHANGED <<latestId, tasks, finishTasks, pc, held, target, parent, kind>>
  BY DEF tmVars
<1>1. /\ msgs' \in [Id -> Seq(Message)] /\ sched' \in Sched /\ SchedOK'
      /\ \A t \in tasks : ~ sched'.running[t] => ~ sched.running[t] /\ msgs'[t] = msgs[t]
      /\ \A t \in tasks : sched'.running[t] => pc[t] \notin UnstartedPlace
      /\ \A t \in Id : \A i \in 1..Len(msgs'[t]) : MessageOK(msgs'[t][i])
  BY <1>0, DeliverFacts
<1>2. TypeOK'
  BY <1>0, <1>1 DEF IInv, TypeOK
<1>3. \A t \in tasks : ~ sched'.running[t] =>
        \/ pc'[t] \in {"created", "starting"}
        \/ msgs'[t] = <<>> /\ pc'[t] \in {"loop", "open", "closed", "report"}
  BY <1>0, <1>1 DEF IInv, NoLostWakeup
<1>4. \A t \in Id : MessageOK(held'[t]) /\ Addressable(parent'[t])
  BY <1>0 DEF IInv, MailOK
<1>. QED BY <1>0, <1>1, <1>2, <1>3, <1>4, StepKeeps

(* A step in which the current task c sends one message and goes on.       *)
LEMMA SendAndMoveKeeps ==
  ASSUME IInv, NEW dst, Addressable(dst), NEW m \in Message, MessageOK(m), Deliver(dst, m),
         NEW c \in Id, c = Current, NEW label \in PC, PlaceFor(c, label), Goto(c, label),
         held' \in [Id -> Message], \A t \in Id : MessageOK(held'[t]),
         credit' \in 0..Credit, UNCHANGED <<tmVars, target, parent, kind>>
  PROVE  IInv'
<1>0. /\ UNCHANGED <<latestId, tasks, finishTasks, target, parent, kind>>
      /\ c \in tasks /\ sched.running[c] /\ pc' = [pc EXCEPT ![c] = label]
  BY CurrentTaskFacts DEF tmVars, Goto
<1>1. /\ msgs' \in [Id -> Seq(Message)] /\ sched' \in Sched /\ SchedOK'
      /\ \A t \in tasks : ~ sched'.running[t] => ~ sched.running[t] /\ msgs'[t] = msgs[t]
      /\ \A t \in tasks : sched'.running[t] => pc[t] \notin UnstartedPlace
      /\ \A t \in Id : \A i \in 1..Len(msgs'[t]) : MessageOK(msgs'[t][i])
  BY <1>0, DeliverFacts
<1>2. TypeOK'
  BY <1>0, <1>1 DEF IInv, TypeOK
<1>3. \A t \in Id : MessageOK(held'[t]) /\ Addressable(parent'[t])
  BY <1>0 DEF IInv, MailOK
<1>. QED BY <1>0, <1>1, <1>2, <1>3, MoveKeeps

(* A step in which the current task c goes on and nobody is concerned.     *)
LEMMA PlainMoveKeeps ==
  ASSUME IInv, NEW c \in Id, c = Current, NEW label \in PC, PlaceFor(c, label), Goto(c, label),
         held' \in [Id -> Message], \A t \in Id : MessageOK(held'[t]),
         target' \in [Id -> 0..MaxTask], credit' \in 0..Credit,
         UNCHANGED <<tmVars, sched, msgs, parent, kind>>
  PROVE  IInv'
<1>0. /\ UNCHANGED <<latestId, tasks, finishTasks, sched, msgs, parent, kind>>
      /\ c \in tasks /\ sched.running[c] /\ pc' = [pc EXCEPT ![c] = label]
  BY CurrentTaskFacts DEF tmVars, Goto
<1>1. TypeOK'
  BY <1>0 DEF IInv, TypeOK
<1>2. SchedOK'
  BY <1>0 DEF IInv, SchedOK
<1>3. /\ \A t \in Id : MessageOK(held'[t]) /\ Addressable(parent'[t])
      /\ \A t \in Id : \A i \in 1..Len(msgs'[t]) : MessageOK(msgs'[t][i])
      /\ \A t \in tasks : sched'.running[t] => pc[t] \notin UnstartedPlace
  BY <1>0 DEF IInv, MailOK, OnlyStartedTasksRun, UnstartedPlace
<1>. QED BY <1>0, <1>1, <1>2, <1>3, MoveKeeps

(* The main thread starts a task: it is woken, at the beginning of its     *)
(* program, and the main thread goes back to its loop.                     *)
LEMMA StartKeeps ==
  ASSUME IInv, MainTask = Current, NEW id \in UserTask, id \in tasks,
         sched' = Wakeup(sched, id, NoLevel),
         pc' = [pc EXCEPT ![id] = "user", ![MainTask] = "loop"],
         held' \in [Id -> Message], \A t \in Id : MessageOK(held'[t]),
         parent' \in [Id -> 0..MaxTask], \A t \in Id : Addressable(parent'[t]),
         UNCHANGED <<tmVars, msgs, target, kind, credit>>
  PROVE  IInv'
<1> USE FixedTasks
<1>0. /\ UNCHANGED <<latestId, tasks, finishTasks, msgs, target, kind, credit>>
      /\ WellFormed(sched, tasks) /\ sched.running[IdleTask]
      /\ sched.running \in [Id -> BOOLEAN] /\ tasks \subseteq Id /\ pc \in [Id -> PC]
      /\ (\A t \in Id \ tasks : ~ sched.running[t])
      /\ MainTask \in tasks /\ sched.running[MainTask] /\ id # MainTask
  BY CurrentTaskFacts DEF tmVars, IInv, SchedOK, WellFormed, Sched, TypeOK
<1>1. WellFormed(sched', tasks) /\ sched'.running = [sched.running EXCEPT ![id] = TRUE]
  BY <1>0, WakeupKeeps
<1>2. SchedOK'
  BY <1>0, <1>1 DEF SchedOK
<1>3. "user" \in PC /\ "loop" \in PC
  BY DEF PC
<1>4. TypeOK'
  BY <1>0, <1>1, <1>3 DEF IInv, TypeOK, WellFormed
<1>5. \A t \in Id : pc'[t] = IF t = MainTask THEN "loop" ELSE IF t = id THEN "user" ELSE pc[t]
  BY <1>0
<1>6. PlaceFor(MainTask, "loop") /\ PlaceFor(id, "user")
  BY DEF PlaceFor, StartedPlace, EndPlace
<1>7. \A t \in Id : pc'[t] = pc[t] \/ (t \in tasks /\ PlaceFor(t, pc'[t]))
  BY <1>0, <1>5, <1>6
<1>8. \A t \in tasks : ~ sched'.running[t] => ~ sched.running[t] /\ t # id /\ t # MainTask
  BY <1>0, <1>1
<1>9. \A t \in tasks : ~ sched'.running[t] =>
        \/ pc'[t] \in {"created", "starting"}
        \/ msgs'[t] = <<>> /\ pc'[t] \in {"loop", "open", "closed", "report"}
  BY <1>0, <1>5, <1>8 DEF IInv, NoLostWakeup
<1>10. \A t \in tasks : sched'.running[t] => pc'[t] \notin UnstartedPlace
  BY <1>0, <1>1, <1>5 DEF IInv, OnlyStartedTasksRun, UnstartedPlace
<1>11. \A t \in Id : \A i \in 1..Len(msgs'[t]) : MessageOK(msgs'[t][i])
  BY <1>0 DEF IInv, MailOK
<1>. QED BY <1>0, <1>2, <1>4, <1>7, <1>9, <1>10, <1>11, StepKeeps

(* NewTask: the next id, which is in no queue and has no place yet.  The   *)
(* main thread may go on to wake the first task it creates.                *)
LEMMA CreateKeeps ==
  ASSUME IInv, latestId < MaxTask, NEW n, n = latestId + 1, NEW label,
         \/ label = pc[MainTask] /\ label # "boot"
         \/ label = "bootWake" /\ n = InitTask /\ sched.running[MainTask],
         latestId' = n, tasks' = tasks \cup {n}, pc' \in [Id -> PC],
         \A t \in Id : pc'[t] = IF t = n THEN "created" ELSE IF t = MainTask THEN label ELSE pc[t],
         parent' \in [Id -> 0..MaxTask], \A t \in Id : Addressable(parent'[t]),
         UNCHANGED <<sched, finishTasks, msgs, held, target, kind, credit>>
  PROVE  IInv'
<1> USE FixedTasks
<1>0. /\ latestId \in IdleTask..MaxTask /\ tasks \subseteq 1..latestId /\ tasks \subseteq Id
      /\ WellFormed(sched, tasks) /\ sched.running[IdleTask] /\ sched.running \in [Id -> BOOLEAN]
      /\ (\A t \in Id \ tasks : ~ sched.running[t])
  BY DEF IInv, TypeOK, SchedOK, WellFormed, Sched
<1>1. /\ n \in IdleTask..MaxTask /\ n \in Id /\ n \notin tasks /\ n \in UserTask
      /\ tasks \cup {n} \subseteq 1..n /\ n > latestId
  BY <1>0, MaxTaskAssumption DEF Id, IdleTask, MainTask, UserTask
<1>2. TypeOK'
  BY <1>0, <1>1 DEF IInv, TypeOK
<1>3. SchedOK'
  <2>1. WellFormed(sched, tasks \cup {n})
    BY <1>0, <1>1, NewTaskKeeps
  <2>. QED BY <1>0, <2>1 DEF SchedOK
<1>4. PlacesOK'
  <2>1. /\ pc[MainTask] \in MainPlace /\ pc[IdleTask] = "idle"
        /\ \A t \in UserTask : pc[t] \in StartedPlace \cup UnstartedPlace
        /\ \A t \in Id : t \in tasks <=> pc[t] # "none"
        /\ pc[MainTask] = "bootWake" => InitTask \in tasks
        /\ pc[InitTask] \notin EndPlace
    BY DEF IInv, PlacesOK
  <2>2. pc'[MainTask] = label /\ label \in MainPlace /\ label # "boot"
    BY <1>1, <2>1 DEF MainPlace
  <2>3. pc'[IdleTask] = "idle"
    BY <1>1, <2>1
  <2>4. \A t \in UserTask : pc'[t] \in StartedPlace \cup UnstartedPlace
    BY <2>1 DEF UnstartedPlace
  <2>5. \A t \in Id : t \in tasks \cup {n} <=> pc'[t] # "none"
    BY <2>1, <2>2 DEF MainPlace
  <2>6. label = "bootWake" => InitTask \in tasks \cup {n}
    BY <2>1
  <2>7. pc'[InitTask] \notin EndPlace
    BY <2>1 DEF EndPlace
  <2>. QED BY <2>2, <2>3, <2>4, <2>5, <2>6, <2>7 DEF PlacesOK
<1>5. ASSUME NEW d, Addressable(d) PROVE Addressable(d)'
  <2>1. /\ d \in 0..n /\ d # n
        /\ d # 0 => d \in Id /\ pc[d] \notin {"created", "starting"}
    BY <1>0, <1>1, <1>5, MaxTaskAssumption DEF Addressable, Id, IdleTask
  <2>2. label \notin {"created", "starting"}
    BY DEF IInv, PlacesOK, MainPlace
  <2>. QED BY <2>1, <2>2 DEF Addressable
<1>6. MailOK'
  <2>1. \A t \in Id : \A i \in 1..Len(msgs[t]) : MessageOK(msgs[t][i])
    BY DEF IInv, MailOK
  <2>2. \A t \in Id : MessageOK(held[t])
    BY DEF IInv, MailOK
  <2>. QED BY <1>5, <2>1, <2>2 DEF MailOK, MessageOK
<1>7. NoLostWakeup'
  <2> SUFFICES ASSUME NEW t \in tasks \cup {n}, ~ sched.running[t],
                      pc'[t] \notin {"created", "starting"}
               PROVE  msgs[t] = <<>> /\ pc'[t] \in {"loop", "open", "closed", "report"}
    BY DEF NoLostWakeup
  <2>1. t \in tasks /\ t \in Id /\ t # n
    BY <1>0, <1>1
  <2>2. pc'[t] = pc[t]
    BY <2>1
  <2>. QED BY <2>1, <2>2 DEF IInv, NoLostWakeup
<1>8. OnlyStartedTasksRun'
  <2> SUFFICES ASSUME NEW t \in tasks \cup {n}, sched.running[t]
               PROVE  pc'[t] \notin {"none", "created", "starting"}
    BY DEF OnlyStartedTasksRun
  <2>1. t \in tasks /\ t \in Id /\ t # n
    BY <1>0, <1>1
  <2>2. pc'[t] = pc[t] \/ pc'[t] = "bootWake"
    BY <2>1
  <2>. QED BY <2>1, <2>2 DEF IInv, OnlyStartedTasksRun
<1>. QED BY <1>2, <1>3, <1>4, <1>6, <1>7, <1>8 DEF IInv

(* Finish: the current task leaves the run queues and the kernel for good. *)
LEMMA FinishKeeps ==
  ASSUME IInv, NEW t \in UserTask, FinishTask(t)
  PROVE  IInv'
<1> USE FixedTasks
<1>0. /\ latestId \in IdleTask..MaxTask /\ tasks \subseteq 1..latestId /\ tasks \subseteq Id
      /\ WellFormed(sched, tasks) /\ sched.running[IdleTask] /\ sched.running \in [Id -> BOOLEAN]
      /\ (\A u \in Id \ tasks : ~ sched.running[u]) /\ IdleTask \in tasks
      /\ pc \in [Id -> PC] /\ msgs \in [Id -> Seq(Message)] /\ parent \in [Id -> 0..MaxTask]
  BY DEF IInv, TypeOK, SchedOK, WellFormed, Sched, PlacesOK
<1>1. /\ t = Current /\ pc[t] = "finish" /\ t \in tasks /\ t \in Id /\ t # IdleTask /\ t # MainTask
      /\ sched' = RotateCurrentRunQueue([sched EXCEPT !.running[t] = FALSE], TRUE)
      /\ tasks' = tasks \ {t} /\ finishTasks' = finishTasks \cup {t}
      /\ msgs' = [msgs EXCEPT ![t] = <<>>] /\ pc' = [pc EXCEPT ![t] = "none"]
      /\ parent' = [parent EXCEPT ![t] = 0] /\ kind' = [kind EXCEPT ![t] = "server"]
      /\ UNCHANGED <<latestId, held, target, credit>>
  BY CurrentTaskFacts DEF FinishTask, At, Goto
<1>2. /\ WellFormed(sched', tasks \ {t})
      /\ sched'.running = [sched.running EXCEPT ![t] = FALSE]
  BY <1>0, <1>1, RotateOutKeeps DEF Current
<1>3. SchedOK'
  BY <1>0, <1>1, <1>2 DEF SchedOK
<1>4. TypeOK'
  <2>1. "none" \in PC /\ <<>> \in Seq(Message) /\ 0 \in 0..MaxTask
    BY MaxTaskAssumption DEF PC
  <2>2. /\ pc' \in [Id -> PC] /\ msgs' \in [Id -> Seq(Message)] /\ parent' \in [Id -> 0..MaxTask]
    BY <1>0, <1>1, <2>1
  <2>. QED BY <1>0, <1>1, <1>2, <2>2 DEF IInv, TypeOK, WellFormed
<1>5. /\ pc'[t] = "none" /\ \A u \in Id : u # t => pc'[u] = pc[u]
      /\ t # InitTask
  BY <1>0, <1>1 DEF IInv, PlacesOK, EndPlace
<1>6. PlacesOK'
  <2>1. /\ pc[MainTask] \in MainPlace /\ pc[IdleTask] = "idle"
        /\ \A u \in UserTask : pc[u] \in StartedPlace \cup UnstartedPlace
        /\ \A u \in Id : u \in tasks <=> pc[u] # "none"
        /\ pc[MainTask] = "boot" => latestId = IdleTask
        /\ pc[MainTask] = "bootWake" => InitTask \in tasks
        /\ pc[InitTask] \notin EndPlace
    BY DEF IInv, PlacesOK
  <2>2. /\ pc'[MainTask] = pc[MainTask] /\ pc'[IdleTask] = pc[IdleTask]
        /\ pc'[InitTask] = pc[InitTask]
    BY <1>1, <1>5
  <2>3. \A u \in UserTask : pc'[u] \in StartedPlace \cup UnstartedPlace
    BY <1>5, <2>1 DEF UnstartedPlace
  <2>4. \A u \in Id : u \in tasks \ {t} <=> pc'[u] # "none"
    BY <1>5, <2>1
  <2>. QED BY <1>1, <1>5, <2>1, <2>2, <2>3, <2>4 DEF PlacesOK
<1>7. ASSUME NEW d, Addressable(d) PROVE Addressable(d)'
  <2>1. d \in 0..latestId /\ (d # 0 => d \in Id /\ pc[d] \notin {"created", "starting"})
    BY <1>0, <1>7, MaxTaskAssumption DEF Addressable, Id, IdleTask
  <2>. QED BY <1>1, <1>5, <2>1 DEF Addressable
<1>8. MailOK'
  <2>1. \A u \in Id : \A i \in 1..Len(msgs[u]) : MessageOK(msgs[u][i])
    BY DEF IInv, MailOK
  <2>2. \A u \in Id : MessageOK(held[u]) /\ Addressable(parent[u])
    BY DEF IInv, MailOK
  <2>3. \A u \in Id : msgs'[u] = <<>> \/ msgs'[u] = msgs[u]
    BY <1>0, <1>1
  <2>4. Addressable(0)
    BY <1>0 DEF Addressable, IdleTask
  <2>5. \A u \in Id : Addressable(parent'[u])
    BY <1>0, <1>1, <2>2, <2>4
  <2>6. \A u \in Id : \A i \in 1..Len(msgs'[u]) : MessageOK(msgs'[u][i])
    BY <2>1, <2>3
  <2>. QED BY <1>1, <1>7, <2>2, <2>5, <2>6 DEF MailOK, MessageOK
<1>9. \A u \in tasks \ {t} : /\ sched'.running[u] = sched.running[u]
                             /\ pc'[u] = pc[u] /\ msgs'[u] = msgs[u]
  <2> TAKE u \in tasks \ {t}
  <2>1. u \in Id /\ u # t
    BY <1>0
  <2>2. sched'.running[u] = sched.running[u]
    BY <1>0, <1>2, <2>1
  <2>3. msgs'[u] = msgs[u]
    BY <1>0, <1>1, <2>1
  <2>. QED BY <1>5, <2>1, <2>2, <2>3
<1>10. NoLostWakeup'
  <2>1. \A u \in tasks : ~ sched.running[u] /\ pc[u] \notin {"created", "starting"} =>
          msgs[u] = <<>> /\ pc[u] \in {"loop", "open", "closed", "report"}
    BY DEF IInv, NoLostWakeup
  <2>. QED BY <1>1, <1>9, <2>1 DEF NoLostWakeup
<1>11. OnlyStartedTasksRun'
  <2>1. \A u \in tasks : sched.running[u] => pc[u] \notin {"none", "created", "starting"}
    BY DEF IInv, OnlyStartedTasksRun
  <2>. QED BY <1>1, <1>9, <2>1 DEF OnlyStartedTasksRun
<1>. QED BY <1>3, <1>4, <1>6, <1>8, <1>10, <1>11 DEF IInv

-----------------------------------------------------------------------------
(* One step per action.                                                    *)

(* The steps of the main thread.                                           *)
LEMMA MainStepKeeps == IInv /\ MainStep => IInv'
<1> SUFFICES ASSUME IInv, MainStep PROVE IInv'
  OBVIOUS
<1> USE FixedTasks
<1>0. TypeOK /\ PlacesOK /\ MailOK
  BY DEF IInv
<1>1. \A t \in Id : MessageOK(held[t]) /\ Addressable(parent[t])
  BY <1>0 DEF MailOK
<1>2. /\ NoMsg \in Message /\ MessageOK(NoMsg) /\ Addressable(MainTask) /\ Addressable(0)
      /\ InitTask \in Id
  BY SMTT(60), <1>0, MaxTaskAssumption
     DEF NoMsg, Msg, Message, Type, MessageOK, Addressable, TypeOK, PlacesOK, MainPlace,
         IdleTask, MainTask
<1>3. ASSUME NEW t \in Id, held' = [held EXCEPT ![t] = NoMsg]
      PROVE  held' \in [Id -> Message] /\ \A u \in Id : MessageOK(held'[u])
  BY <1>0, <1>1, <1>2, <1>3 DEF TypeOK
<1>4. PlaceFor(MainTask, "loop") /\ PlaceFor(MainTask, "handle") /\ {"loop", "handle"} \subseteq PC
  BY DEF PlaceFor, PC
<1>5. credit \in 0..Credit /\ held[MainTask] \in Message
  BY <1>0 DEF TypeOK
<1>6. CASE MainBoot
  <2>1. CASE /\ At(MainTask, "boot")
             /\ latestId' = InitTask
             /\ tasks' = tasks \cup {InitTask}
             /\ pc' = [pc EXCEPT ![InitTask] = "created", ![MainTask] = "bootWake"]
             /\ UNCHANGED <<sched, finishTasks, msgs, held, target, parent, kind, credit>>
    <3>1. latestId = IdleTask /\ InitTask = latestId + 1 /\ latestId < MaxTask
      BY <1>0, <2>1, InitTaskAssumption, MaxTaskAssumption DEF At, PlacesOK, IdleTask, InitTask
    <3>2. sched.running[MainTask]
      BY <2>1, CurrentTaskFacts DEF At
    <3>3. /\ pc' \in [Id -> PC]
          /\ \A t \in Id : pc'[t] = IF t = InitTask THEN "created"
                                    ELSE IF t = MainTask THEN "bootWake" ELSE pc[t]
      <4>1. {"created", "bootWake"} \subseteq PC /\ pc \in [Id -> PC]
        BY <1>0 DEF TypeOK, PC
      <4>. QED BY <1>2, <2>1, <4>1
    <3>4. parent' \in [Id -> 0..MaxTask] /\ \A t \in Id : Addressable(parent'[t])
      BY <1>0, <1>1, <2>1 DEF TypeOK
    <3>. QED BY <2>1, <3>1, <3>2, <3>3, <3>4, CreateKeeps
  <2>2. CASE /\ At(MainTask, "bootWake")
             /\ sched' = Wakeup(sched, InitTask, NoLevel)
             /\ pc' = [pc EXCEPT ![InitTask] = "user", ![MainTask] = "loop"]
             /\ UNCHANGED <<tmVars, msgs, held, target, parent, kind, credit>>
    <3>1. MainTask = Current /\ InitTask \in tasks
      BY <1>0, <2>2 DEF At, PlacesOK
    <3>2. /\ held' \in [Id -> Message] /\ \A t \in Id : MessageOK(held'[t])
          /\ parent' \in [Id -> 0..MaxTask] /\ \A t \in Id : Addressable(parent'[t])
      BY <1>0, <1>1, <2>2 DEF TypeOK
    <3>. QED BY <2>2, <3>1, <3>2, StartKeeps
  <2>. QED BY <1>6, <2>1, <2>2 DEF MainBoot
<1>7. CASE MainReceive
  <2>1. MainTask = Current /\ pc[MainTask] = "loop"
    BY <1>7 DEF MainReceive, At
  <2>2. CASE SleepIfEmpty(MainTask)
    BY <2>1, <2>2, SleepIfEmptyKeeps
  <2>3. CASE Take(MainTask, "handle")
    BY <1>4, <2>1, <2>3, TakeKeeps
  <2>. QED BY <1>7, <2>2, <2>3 DEF MainReceive
<1>8. CASE MainProcessEvents
  <2>1. /\ MainTask = Current /\ held' = [held EXCEPT ![MainTask] = NoMsg]
        /\ Goto(MainTask, "loop") /\ UNCHANGED <<tmVars, target, parent, kind>>
    BY <1>8 DEF MainProcessEvents, At, Done
  <2>2. CASE UNCHANGED <<msgs, sched, credit>>
    <3>1. target' \in [Id -> 0..MaxTask]
      BY <1>0, <2>1 DEF TypeOK
    <3>. QED BY <1>3, <1>4, <1>5, <2>1, <2>2, <3>1, PlainMoveKeeps
  <2>3. ASSUME NEW gui \in UserTask \cap tasks, pc[gui] \notin {"created", "starting"},
               credit > 0, credit' = credit - 1, Deliver(gui, Msg("input", 0, 0))
        PROVE  IInv'
    <3>1. Msg("input", 0, 0) \in Message /\ MessageOK(Msg("input", 0, 0))
      BY <1>2, MaxTaskAssumption DEF Msg, Message, MessageOK, Type
    <3>2. gui \in 0..latestId
      BY <1>0, <2>3, LiveIds
    <3>3. credit' \in 0..Credit
      BY <1>5, <2>3, CreditAssumption
    <3>4. Addressable(gui)
      BY <2>3, <3>2 DEF Addressable
    <3>. QED BY <1>3, <1>4, <2>1, <2>3, <3>1, <3>3, <3>4, SendAndMoveKeeps
  <2>. QED BY <1>8, <2>2, <2>3 DEF MainProcessEvents
<1>9. CASE MainExpand
  <2>1. /\ MainTask = Current /\ held' = [held EXCEPT ![MainTask] = NoMsg]
        /\ Deliver(held[MainTask].src, Msg("expand", MainTask, 0))
        /\ Goto(MainTask, "loop") /\ UNCHANGED <<tmVars, target, parent, kind, credit>>
    BY <1>9 DEF MainExpand, At, Done
  <2>2. Addressable(held[MainTask].src)
    BY <1>1 DEF MessageOK
  <2>3. Msg("expand", MainTask, 0) \in Message /\ MessageOK(Msg("expand", MainTask, 0))
    BY <1>2, MaxTaskAssumption DEF Msg, Message, MessageOK, Type, MainTask
  <2>. QED BY <1>3, <1>4, <1>5, <2>1, <2>2, <2>3, SendAndMoveKeeps
<1>10. CASE MainStart
  <2> DEFINE id == held[MainTask].id
  <2>1. /\ MainTask = Current /\ held[MainTask].type = "start"
        /\ UNCHANGED <<tmVars, msgs, target, kind, credit>>
    BY <1>10 DEF MainStart, At
  <2>2. CASE id \in tasks
    <3>1. /\ sched' = Wakeup(sched, id, NoLevel)
          /\ parent' = [parent EXCEPT ![id] = held[MainTask].src]
          /\ pc' = [pc EXCEPT ![id] = "user", ![MainTask] = "loop"]
          /\ held' = [held EXCEPT ![MainTask] = NoMsg]
      BY <1>10, <2>2 DEF MainStart
    <3>2. id \in UserTask /\ Addressable(held[MainTask].src) /\ held[MainTask].src \in 0..MaxTask
      BY <1>1, <1>5, <2>1 DEF MessageOK, Message
    <3> HIDE DEF id
    <3>3. parent' \in [Id -> 0..MaxTask] /\ \A t \in Id : Addressable(parent'[t])
      BY <1>0, <1>1, <3>1, <3>2 DEF TypeOK
    <3>. QED BY <1>3, <2>1, <2>2, <3>1, <3>2, <3>3, StartKeeps
  <2>3. CASE id \notin tasks
    <3>1. /\ held' = [held EXCEPT ![MainTask] = NoMsg] /\ Goto(MainTask, "loop")
          /\ UNCHANGED <<sched, parent>>
      BY <1>10, <2>3 DEF MainStart, Done
    <3>2. target' \in [Id -> 0..MaxTask]
      BY <1>0, <2>1 DEF TypeOK
    <3>. QED BY <1>3, <1>4, <1>5, <2>1, <3>1, <3>2, PlainMoveKeeps
  <2>. QED BY <2>2, <2>3
<1>11. CASE MainUnknown
  <2>1. /\ MainTask = Current /\ held' = [held EXCEPT ![MainTask] = NoMsg] /\ Goto(MainTask, "loop")
        /\ UNCHANGED <<tmVars, sched, msgs, target, parent, kind, credit>>
    BY <1>11 DEF MainUnknown, At, Done
  <2>2. target' \in [Id -> 0..MaxTask]
    BY <1>0, <2>1 DEF TypeOK
  <2>. QED BY <1>3, <1>4, <1>5, <2>1, <2>2, PlainMoveKeeps
<1>. QED BY <1>6, <1>7, <1>8, <1>9, <1>10, <1>11 DEF MainStep

(* The system calls of a program.                                          *)
LEMMA ProgramKeeps == ASSUME IInv, NEW t \in UserTask, Program(t) PROVE IInv'
<1> USE FixedTasks
<1>0. TypeOK /\ PlacesOK /\ MailOK
  BY DEF IInv
<1>1. /\ t = Current /\ pc[t] = "user" /\ t \in Id /\ t \in tasks
      /\ t \in 0..latestId /\ t \in 0..MaxTask /\ sched.running[t]
  <2>1. t = Current /\ pc[t] = "user"
    BY DEF Program, SysSendMessage, SysCreateNewTask, SysSendStart, SysOpenReceive,
           SysClosedReceive, SysExit, At
  <2>2. t \in tasks /\ t \in Id /\ sched.running[t]
    BY <2>1, CurrentTaskFacts
  <2>3. t \in 0..latestId /\ t \in 0..MaxTask
    BY <1>0, <2>2, MaxTaskAssumption DEF TypeOK, IdleTask
  <2>. QED BY <2>1, <2>2, <2>3
<1>2. Addressable(t)
  BY <1>1 DEF Addressable
<1>3. ASSUME NEW d, Known(d) PROVE Addressable(d) /\ d \in 0..MaxTask
  <2>1. d \in 0..latestId /\ d \in 0..MaxTask
    BY <1>0, <1>3, MaxTaskAssumption DEF Known, TypeOK, IdleTask
  <2>. QED BY <1>3, <2>1 DEF Known, Addressable
<1>4. /\ held \in [Id -> Message] /\ target \in [Id -> 0..MaxTask] /\ pc \in [Id -> PC]
      /\ parent \in [Id -> 0..MaxTask] /\ credit \in 0..Credit
      /\ (\A u \in Id : MessageOK(held[u]) /\ Addressable(parent[u]))
  BY <1>0 DEF TypeOK, MailOK
<1>5. ASSUME NEW dst \in Id, NEW type \in {"request", "received", "expand"},
             SysSendMessage(t, dst, type)
      PROVE  IInv'
  <2>1. Addressable(dst) /\ Deliver(dst, Msg(type, t, 0)) /\ credit > 0 /\ credit' = credit - 1
        /\ UNCHANGED <<tmVars, pc, held, target, parent, kind>>
    BY <1>3, <1>5 DEF SysSendMessage
  <2>2. credit' \in 0..Credit
    BY <1>4, <2>1, CreditAssumption
  <2>3. Msg(type, t, 0) \in Message /\ MessageOK(Msg(type, t, 0))
    BY <1>1, <1>2, MaxTaskAssumption DEF Msg, Message, MessageOK, Type
  <2>. QED BY <2>1, <2>2, <2>3, SendKeeps
<1>6. CASE SysCreateNewTask(t)
  <2> DEFINE n == latestId + 1
  <2>1. /\ latestId < MaxTask /\ latestId' = n /\ tasks' = tasks \cup {n}
        /\ pc' = [pc EXCEPT ![n] = "created"] /\ parent' = [parent EXCEPT ![n] = t]
        /\ UNCHANGED <<sched, finishTasks, msgs, held, target, kind, credit>>
    BY <1>6 DEF SysCreateNewTask
  <2>2. n \in Id /\ n # MainTask /\ n # t
    BY <1>0, <1>1, <2>1, MaxTaskAssumption DEF TypeOK, Id, IdleTask, MainTask
  <2>3. pc[MainTask] # "boot"
    <3>1. t > IdleTask /\ t <= latestId
      BY <1>0, <1>1, MaxTaskAssumption DEF UserTask, Id, MainTask, IdleTask, TypeOK
    <3>2. latestId # IdleTask
      BY <1>0, <1>1, <3>1, MaxTaskAssumption DEF TypeOK, IdleTask, Id
    <3>. QED BY <1>0, <3>2 DEF PlacesOK
  <2> HIDE DEF n
  <2>4. "created" \in PC
    BY DEF PC
  <2>5. /\ pc' \in [Id -> PC]
        /\ \A u \in Id : pc'[u] = IF u = n THEN "created"
                                  ELSE IF u = MainTask THEN pc[MainTask] ELSE pc[u]
    BY <1>4, <2>1, <2>2, <2>4
  <2>6. parent' \in [Id -> 0..MaxTask] /\ \A u \in Id : Addressable(parent'[u])
    BY <1>1, <1>2, <1>4, <2>1, <2>2
  <2>. QED BY <2>1, <2>3, <2>5, <2>6, CreateKeeps DEF n
<1>7. ASSUME NEW id \in UserTask, NEW k \in {"app", "server"}, SysSendStart(t, id, k)
      PROVE  IInv'
  <2>1. /\ pc[id] = "created" /\ Deliver(MainTask, Msg("start", t, id))
        /\ pc' = [pc EXCEPT ![id] = "starting"] /\ kind' = [kind EXCEPT ![id] = k]
        /\ UNCHANGED <<latestId, tasks, finishTasks, held, target, parent, credit>>
    BY <1>7 DEF SysSendStart, Goto, tmVars
  <2>2. id \in 0..MaxTask /\ Addressable(MainTask)
    <3>1. id \in 0..MaxTask /\ MainTask \in 0..latestId
      BY <1>0, MaxTaskAssumption DEF Id, MainTask, TypeOK, IdleTask
    <3>2. pc[MainTask] \notin {"created", "starting"}
      BY <1>0 DEF PlacesOK, MainPlace
    <3>. QED BY <3>1, <3>2 DEF Addressable
  <2>3. Msg("start", t, id) \in Message /\ MessageOK(Msg("start", t, id))
    BY <1>1, <1>2, <2>2 DEF Msg, Message, MessageOK, Type
  <2>4. /\ msgs' \in [Id -> Seq(Message)] /\ sched' \in Sched /\ SchedOK'
        /\ \A u \in tasks : ~ sched'.running[u] => ~ sched.running[u] /\ msgs'[u] = msgs[u]
        /\ \A u \in tasks : sched'.running[u] => pc[u] \notin UnstartedPlace
        /\ \A u \in Id : \A i \in 1..Len(msgs'[u]) : MessageOK(msgs'[u][i])
    BY <2>1, <2>2, <2>3, DeliverFacts
  <2>5. \A u \in Id : pc'[u] = IF u = id THEN "starting" ELSE pc[u]
    BY <1>4, <2>1
  <2>6. TypeOK'
    <3>1. kind' \in [Id -> {"app", "server"}] /\ "starting" \in PC
      BY <1>0, <2>1 DEF TypeOK, PC
    <3>2. pc' \in [Id -> PC]
      BY <1>4, <2>1, <3>1
    <3>. QED BY <1>0, <2>1, <2>4, <3>1, <3>2 DEF TypeOK
  <2>7. \A u \in Id : pc'[u] = pc[u] \/ (pc[u] = "created" /\ pc'[u] = "starting")
    BY <2>1, <2>5
  <2>8. tasks \subseteq Id
    BY DEF IInv, SchedOK, WellFormed
  <2>9. \A u \in tasks : ~ sched'.running[u] =>
          \/ pc'[u] \in {"created", "starting"}
          \/ msgs'[u] = <<>> /\ pc'[u] \in {"loop", "open", "closed", "report"}
    BY <2>4, <2>5, <2>8 DEF IInv, NoLostWakeup
  <2>10. \A u \in tasks : sched'.running[u] => pc'[u] \notin UnstartedPlace
    BY <2>1, <2>4, <2>5, <2>8 DEF UnstartedPlace
  <2>. QED BY <1>4, <2>1, <2>4, <2>6, <2>7, <2>9, <2>10, StepKeeps
<1>8. {"open", "closed", "exit"} \subseteq PC /\ PlaceFor(t, "open") /\ PlaceFor(t, "closed")
  BY DEF PlaceFor, StartedPlace, EndPlace, PC
<1>9. CASE SysOpenReceive(t)
  <2>1. Goto(t, "open") /\ UNCHANGED <<tmVars, sched, msgs, held, target, parent, kind, credit>>
    BY <1>9 DEF SysOpenReceive
  <2>. QED BY <1>1, <1>4, <1>8, <2>1, PlainMoveKeeps
<1>10. ASSUME NEW from \in Id, SysClosedReceive(t, from) PROVE IInv'
  <2>1. /\ Goto(t, "closed") /\ target' = [target EXCEPT ![t] = from] /\ Known(from)
        /\ UNCHANGED <<tmVars, sched, msgs, held, parent, kind, credit>>
    BY <1>10 DEF SysClosedReceive
  <2>2. target' \in [Id -> 0..MaxTask]
    BY <1>3, <1>4, <2>1
  <2>. QED BY <1>1, <1>4, <1>8, <2>1, <2>2, PlainMoveKeeps
<1>11. CASE SysExit(t)
  <2>1. /\ Goto(t, "exit") /\ t # InitTask
        /\ UNCHANGED <<tmVars, sched, msgs, held, target, parent, kind, credit>>
    BY <1>11 DEF SysExit
  <2>2. PlaceFor(t, "exit")
    BY <2>1 DEF PlaceFor, StartedPlace, EndPlace
  <2>. QED BY <1>1, <1>4, <1>8, <2>1, <2>2, PlainMoveKeeps
<1>. QED BY <1>5, <1>6, <1>7, <1>9, <1>10, <1>11 DEF Program

(* The receive system calls.                                               *)
LEMMA ReceiveKeeps == ASSUME IInv, NEW t \in UserTask, ReceiveStep(t) PROVE IInv'
<1> USE FixedTasks
<1>1. t \in Id /\ t # IdleTask /\ t = Current
  BY DEF ReceiveStep, OpenReceiveStep, ClosedReceiveStep, BounceStep, At
<1>2. /\ {"user", "closed", "bounce"} \subseteq PC
      /\ PlaceFor(t, "user") /\ PlaceFor(t, "closed") /\ PlaceFor(t, "bounce")
  BY DEF PlaceFor, StartedPlace, EndPlace, PC
<1>3. CASE OpenReceiveStep(t)
  BY <1>1, <1>2, <1>3, SleepIfEmptyKeeps, TakeKeeps DEF OpenReceiveStep, At
<1>4. CASE ClosedReceiveStep(t)
  <2>1. pc[t] = "closed" /\ (SleepIfEmpty(t) \/ Take(t, "user") \/ Take(t, "bounce"))
    BY <1>4 DEF ClosedReceiveStep, At
  <2>. QED BY <1>1, <1>2, <2>1, SleepIfEmptyKeeps, TakeKeeps
<1>5. CASE BounceStep(t)
  <2>1. /\ Deliver(held[t].src, Msg("error", t, 0)) /\ Goto(t, "closed") /\ pc[t] = "bounce"
        /\ held' = [held EXCEPT ![t] = NoMsg]
        /\ UNCHANGED <<tmVars, target, parent, kind, credit>>
    BY <1>5 DEF BounceStep, Done, At
  <2>2. /\ held \in [Id -> Message] /\ credit \in 0..Credit
        /\ \A u \in Id : MessageOK(held[u])
    BY DEF IInv, TypeOK, MailOK
  <2>3. t \in 0..latestId /\ t \in 0..MaxTask
    BY <1>1, CurrentTaskFacts, LiveIds DEF IInv
  <2>4. Addressable(t) /\ Addressable(0) /\ Addressable(held[t].src)
    <3>1. Addressable(held[t].src)
      BY <1>1, <2>2 DEF MessageOK
    <3>2. 0 \in 0..latestId
      BY <2>3, MaxTaskAssumption DEF IInv, TypeOK, IdleTask
    <3>. QED BY <2>1, <2>3, <3>1, <3>2 DEF Addressable
  <2>5. /\ NoMsg \in Message /\ MessageOK(NoMsg)
        /\ Msg("error", t, 0) \in Message /\ MessageOK(Msg("error", t, 0))
    BY <2>3, <2>4, MaxTaskAssumption DEF NoMsg, Msg, Message, Type, MessageOK
  <2>6. held' \in [Id -> Message] /\ \A u \in Id : MessageOK(held'[u])
    BY <1>1, <2>1, <2>2, <2>5
  <2>. QED BY <1>1, <1>2, <2>1, <2>2, <2>4, <2>5, <2>6, SendAndMoveKeeps
<1>. QED BY <1>3, <1>4, <1>5 DEF ReceiveStep

(* The end of a server or application task.                                *)
LEMMA ExitKeeps == ASSUME IInv, NEW t \in UserTask, ExitStep(t) PROVE IInv'
<1> USE FixedTasks
<1>1. t \in Id /\ t # IdleTask /\ t = Current /\ pc[t] \in EndPlace
  BY DEF ExitStep, ExitReport, ExitLoop, FinishTask, At, EndPlace
<1>2. t # InitTask
  BY <1>1 DEF IInv, PlacesOK
<1>3. EndPlace \subseteq PC /\ \A label \in EndPlace : PlaceFor(t, label)
  BY <1>2 DEF PlaceFor, StartedPlace, EndPlace, PC
<1>4. CASE ExitReport(t)
  <2>1. UNCHANGED <<tmVars, held, target, parent, kind, credit>>
    BY <1>4 DEF ExitReport
  <2>2. /\ held' \in [Id -> Message] /\ credit' \in 0..Credit
        /\ \A u \in Id : MessageOK(held'[u]) /\ Addressable(parent[u])
    BY <2>1 DEF IInv, TypeOK, MailOK
  <2>3. t \in 0..latestId /\ t \in 0..MaxTask /\ MainTask \in 0..latestId /\ MainTask \in 0..MaxTask
    BY <1>1, CurrentTaskFacts, LiveIds DEF IInv
  <2>4. Addressable(t) /\ Addressable(MainTask)
    BY <1>1, <2>3 DEF IInv, PlacesOK, MainPlace, Addressable, EndPlace
  <2>5. /\ Msg("exitApp", t, t) \in Message /\ MessageOK(Msg("exitApp", t, t))
        /\ Msg("exitServer", MainTask, 0) \in Message /\ MessageOK(Msg("exitServer", MainTask, 0))
    BY <2>3, <2>4, MaxTaskAssumption DEF Msg, Message, Type, MessageOK
  <2>6. CASE Deliver(parent[t], Msg("exitApp", t, t)) /\ Goto(t, "report")
    <3>1. "report" \in EndPlace
      BY DEF EndPlace
    <3>. QED BY <1>1, <1>3, <2>1, <2>2, <2>5, <2>6, <3>1, SendAndMoveKeeps
  <2>7. CASE Deliver(parent[t], Msg("exitServer", MainTask, 0)) /\ Goto(t, "finish")
    <3>1. "finish" \in EndPlace
      BY DEF EndPlace
    <3>. QED BY <1>1, <1>3, <2>1, <2>2, <2>5, <2>7, <3>1, SendAndMoveKeeps
  <2>. QED BY <1>4, <2>6, <2>7 DEF ExitReport
<1>5. CASE ExitLoop(t)
  <2>1. pc[t] = "report" /\ (SleepIfEmpty(t) \/ \E label \in EndPlace : Take(t, label))
    BY <1>5 DEF ExitLoop, At, EndPlace
  <2>. QED BY <1>1, <1>3, <2>1, SleepIfEmptyKeeps, TakeKeeps
<1>6. CASE FinishTask(t)
  BY <1>6, FinishKeeps
<1>. QED BY <1>4, <1>5, <1>6 DEF ExitStep

(* The interrupts, and a step that changes nothing.                        *)
LEMMA InterruptKeeps ==
  ASSUME IInv, InterruptXHCI \/ (\E t \in UserTask : InterruptTimer(t)) \/ SwitchTask
  PROVE  IInv'
<1> USE FixedTasks
<1>1. /\ TypeOK /\ latestId \in IdleTask..MaxTask /\ credit \in 0..Credit
  BY DEF IInv, TypeOK
<1>2. Addressable(0) /\ Addressable(MainTask)
  <2>1. 0 \in 0..latestId /\ MainTask \in 0..latestId
    BY <1>1, MaxTaskAssumption DEF IdleTask, MainTask
  <2>. QED BY <2>1 DEF IInv, PlacesOK, MainPlace, Addressable
<1>3. \A type \in Type : type # "start" =>
        Msg(type, 0, 0) \in Message /\ MessageOK(Msg(type, 0, 0))
  BY <1>2, MaxTaskAssumption DEF Msg, Message, MessageOK
<1>4. CASE InterruptXHCI
  <2>1. credit > 0 /\ credit' = credit - 1 /\ Deliver(MainTask, Msg("xhci", 0, 0))
        /\ UNCHANGED <<tmVars, pc, held, target, parent, kind>>
    BY <1>4 DEF InterruptXHCI
  <2>2. credit' \in 0..Credit /\ "xhci" \in Type
    BY <1>1, <2>1, CreditAssumption DEF Type
  <2>. QED BY <1>2, <1>3, <2>1, <2>2, SendKeeps
<1>5. ASSUME NEW t \in UserTask, InterruptTimer(t) PROVE IInv'
  <2>1. credit > 0 /\ credit' = credit - 1 /\ Deliver(t, Msg("timer", 0, 0)) /\ Known(t)
        /\ UNCHANGED <<tmVars, pc, held, target, parent, kind>>
    BY <1>5 DEF InterruptTimer
  <2>2. credit' \in 0..Credit /\ "timer" \in Type
    BY <1>1, <2>1, CreditAssumption DEF Type
  <2>3. t \in 0..latestId
    BY <1>1, <2>1, MaxTaskAssumption DEF Known, IdleTask
  <2>4. Addressable(t)
    BY <2>1, <2>3 DEF Known, Addressable
  <2>. QED BY <1>3, <2>1, <2>2, <2>4, SendKeeps
<1>6. CASE SwitchTask
  <2>1. /\ sched' = RotateCurrentRunQueue(sched, FALSE)
        /\ UNCHANGED <<latestId, tasks, finishTasks, msgs, pc, held, target, parent, kind, credit>>
    BY <1>6 DEF SwitchTask, tmVars
  <2>2. WellFormed(sched, tasks) /\ sched.running[IdleTask]
    BY DEF IInv, SchedOK
  <2>3. WellFormed(sched', tasks) /\ sched'.running = sched.running
    <3>1. WellFormed(sched', tasks)
      BY <2>1, <2>2, RotateKeeps
    <3>2. sched \in Sched
      BY <1>1 DEF TypeOK
    <3>. QED BY <2>1, <3>1, <3>2 DEF RotateCurrentRunQueue, Sched
  <2>4. TypeOK'
    BY <1>1, <2>1, <2>3 DEF TypeOK, WellFormed
  <2>5. SchedOK'
    BY <2>1, <2>3 DEF IInv, SchedOK
  <2>6. /\ PlacesOK' /\ MailOK'
    BY <2>1 DEF IInv, PlacesOK, MailOK, MessageOK, Addressable
  <2>7. NoLostWakeup' /\ OnlyStartedTasksRun'
    BY <2>1, <2>3 DEF IInv, NoLostWakeup, OnlyStartedTasksRun
  <2>. QED BY <2>4, <2>5, <2>6, <2>7 DEF IInv
<1>. QED BY <1>4, <1>5, <1>6

LEMMA NextIInv == IInv /\ [Next]_vars => IInv'
<1> SUFFICES ASSUME IInv, [Next]_vars PROVE IInv'
  OBVIOUS
<1>1. CASE UNCHANGED vars
  BY <1>1 DEF vars, IInv, TypeOK, SchedOK, PlacesOK, MailOK, MessageOK, Addressable,
     NoLostWakeup, OnlyStartedTasksRun
<1>2. CASE MainStep
  BY <1>2, MainStepKeeps
<1>3. ASSUME NEW t \in UserTask, Program(t) \/ ReceiveStep(t) \/ ExitStep(t) PROVE IInv'
  BY <1>3, ProgramKeeps, ReceiveKeeps, ExitKeeps
<1>4. CASE InterruptXHCI \/ (\E t \in UserTask : InterruptTimer(t)) \/ SwitchTask
  BY <1>4, InterruptKeeps
<1>. QED BY <1>1, <1>2, <1>3, <1>4 DEF Next

LEMMA IInvAlways == Spec => []IInv
<1>. QED BY InitIInv, NextIInv, PTL DEF Spec

-----------------------------------------------------------------------------
(* The kernel's variables stay in their sets, whatever the programs, the   *)
(* devices and the task timer do.                                          *)
THEOREM TypeCorrect == Spec => []TypeOK
<1>1. IInv => TypeOK
  BY DEF IInv
<1>. QED BY <1>1, IInvAlways, PTL

(* The sleep in the receive loops of main.cpp, syscall.cpp and system.cpp  *)
(* never loses a message: a started task that sleeps has an empty mailbox  *)
(* and sleeps in one of those loops.                                       *)
THEOREM NoWakeupLost == Spec => []NoLostWakeup
<1>1. IInv => NoLostWakeup
  BY DEF IInv
<1>. QED BY <1>1, IInvAlways, PTL

(* No task is in a run queue before the main thread has given it a context *)
(* in InitContext, and none after its end.                                 *)
THEOREM StartedTasksRun == Spec => []OnlyStartedTasksRun
<1>1. IInv => OnlyStartedTasksRun
  BY DEF IInv
<1>. QED BY <1>1, IInvAlways, PTL

-----------------------------------------------------------------------------
(* The kernel implements TaskManager: the operators of the instance TM are *)
(* those of this module, and every step that touches the run queues is one *)
(* call of the task manager's interface.                                   *)

LEMMA SameOperators ==
  /\ TM!Id = Id /\ TM!Level = Level /\ TM!NoLevel = NoLevel
  /\ TM!MainTask = MainTask /\ TM!IdleTask = IdleTask
  /\ TM!InitSched = InitSched /\ TM!Current = Current
  /\ \A s : TM!CurrentTask(s) = CurrentTask(s)
<1>1. TM!Id = Id /\ TM!Level = Level /\ TM!NoLevel = NoLevel
      /\ TM!MainTask = MainTask /\ TM!IdleTask = IdleTask
  BY DEF TM!Id, Id, TM!Level, Level, TM!NoLevel, NoLevel, TM!MainTask, MainTask,
         TM!IdleTask, IdleTask
<1>2. TM!InitSched = InitSched
  BY <1>1 DEF TM!InitSched, InitSched, TM!kDefaultLevel, kDefaultLevel
<1>3. TM!Current = Current /\ \A s : TM!CurrentTask(s) = CurrentTask(s)
  BY DEF TM!Current, Current, TM!CurrentTask, CurrentTask
<1>. QED BY <1>1, <1>2, <1>3

LEMMA SameRotate ==
  ASSUME NEW s, NEW b
  PROVE  TM!RotateCurrentRunQueue(s, b) = RotateCurrentRunQueue(s, b)
BY DEF TM!RotateCurrentRunQueue, RotateCurrentRunQueue, TM!HighestLevel, HighestLevel,
       TM!Level, Level

LEMMA SameSleep ==
  ASSUME NEW s, NEW t
  PROVE  TM!Sleep(s, t) = Sleep(s, t)
BY SameRotate DEF TM!Sleep, Sleep, TM!CurrentTask, CurrentTask, TM!Erase, Erase

LEMMA SameWakeup ==
  ASSUME NEW s, NEW t
  PROVE  TM!Wakeup(s, t, TM!NoLevel) = Wakeup(s, t, NoLevel)
BY DEF TM!Wakeup, Wakeup, TM!ChangeLevelRunning, ChangeLevelRunning, TM!CurrentTask,
       CurrentTask, TM!Erase, Erase, TM!NoLevel, NoLevel

LEMMA InitImplements == Init => TM!Init
BY SameOperators, FixedTasks DEF Init, TM!Init, IdleTask, MainTask, TM!MainTask, TM!IdleTask

(* The current task, unless it is the idle one, can call the kernel:       *)
(* nobody uses WaitFinish.                                                 *)
LEMMA CallerImplements ==
  ASSUME IInv, Current # IdleTask
  PROVE  TM!CurrentCalls
<1>1. [t \in Id |-> 0][Current] = 0
  BY CurrentTaskFacts
<1>. QED BY <1>1, SameOperators DEF TM!CurrentCalls

LEMMA WakeupImplements ==
  ASSUME IInv, NEW t \in tasks, sched' = Wakeup(sched, t, NoLevel), UNCHANGED tmVars
  PROVE  TM!Next
<1>1. TM!SendMessage(t)
  BY SameWakeup DEF TM!SendMessage, tmVars
<1>2. t \in TM!Id
  BY SameOperators DEF IInv, SchedOK, WellFormed
<1>. QED BY <1>1, <1>2 DEF TM!Next

LEMMA DeliverImplements ==
  ASSUME IInv, NEW dst, NEW m, Deliver(dst, m), UNCHANGED tmVars
  PROVE  [TM!Next]_TM!vars
<1>1. CASE dst \in tasks
  BY <1>1, WakeupImplements DEF Deliver
<1>2. CASE dst \notin tasks
  BY <1>2 DEF Deliver, TM!vars, tmVars
<1>. QED BY <1>1, <1>2

LEMMA SleepImplements ==
  ASSUME IInv, NEW t, t = Current, t # IdleTask, SleepIfEmpty(t)
  PROVE  TM!Next
<1>1. t \in tasks /\ t \in Id
  BY CurrentTaskFacts
<1>2. TM!SleepTask(t)
  BY <1>1, CallerImplements, SameSleep, SameOperators DEF TM!SleepTask, SleepIfEmpty, tmVars
<1>. QED BY <1>1, <1>2, SameOperators DEF TM!Next

LEMMA QuietImplements ==
  ASSUME UNCHANGED <<tmVars, sched>>
  PROVE  [TM!Next]_TM!vars
BY DEF TM!vars, tmVars

LEMMA CreateImplements ==
  ASSUME IInv, Current # IdleTask, latestId < MaxTask,
         latestId' = latestId + 1, tasks' = tasks \cup {latestId + 1},
         UNCHANGED <<sched, finishTasks>>
  PROVE  TM!Next
<1>1. TM!NewTask
  BY CallerImplements DEF TM!NewTask
<1>. QED BY <1>1 DEF TM!Next

LEMMA FinishImplements ==
  ASSUME IInv, NEW t \in UserTask, FinishTask(t)
  PROVE  TM!Next
<1>1. /\ t = Current /\ t # MainTask /\ t # IdleTask /\ t \in Id
      /\ sched' = RotateCurrentRunQueue([sched EXCEPT !.running[t] = FALSE], TRUE)
      /\ tasks' = tasks \ {t} /\ finishTasks' = finishTasks \cup {t}
      /\ UNCHANGED latestId
  BY FixedTasks DEF FinishTask, At
<1>2. TM!CurrentCalls
  BY <1>1, CallerImplements
<1>3. [u \in Id |-> 0][t] = 0 /\ [[u \in Id |-> 0] EXCEPT ![t] = 0] = [u \in Id |-> 0]
  BY <1>1
<1>4. TM!Finish
  BY <1>1, <1>2, <1>3, SameOperators, SameRotate DEF TM!Finish
<1>. QED BY <1>4 DEF TM!Next

LEMMA MainImplements == ASSUME IInv, MainStep PROVE [TM!Next]_TM!vars
<1> USE FixedTasks
<1>1. MainTask = Current
  BY DEF MainStep, MainBoot, MainReceive, MainProcessEvents, MainExpand, MainStart, MainUnknown, At
<1>2. CASE MainBoot
  <2>1. CASE pc[MainTask] = "boot"
    <3>1. latestId = IdleTask
      BY <2>1 DEF IInv, PlacesOK
    <3>2. /\ latestId' = latestId + 1 /\ tasks' = tasks \cup {latestId + 1}
          /\ UNCHANGED <<sched, finishTasks>> /\ latestId < MaxTask
      BY <1>2, <2>1, <3>1, InitTaskAssumption, MaxTaskAssumption
         DEF MainBoot, At, IdleTask, InitTask
    <3>. QED BY <1>1, <3>2, CreateImplements
  <2>2. CASE pc[MainTask] # "boot"
    <3>1. /\ pc[MainTask] = "bootWake" /\ sched' = Wakeup(sched, InitTask, NoLevel)
          /\ UNCHANGED tmVars
      BY <1>2, <2>2 DEF MainBoot, At
    <3>2. InitTask \in tasks
      BY <3>1 DEF IInv, PlacesOK
    <3>. QED BY <3>1, <3>2, WakeupImplements
  <2>. QED BY <2>1, <2>2
<1>3. CASE MainReceive
  <2>1. CASE SleepIfEmpty(MainTask)
    BY <1>1, <2>1, SleepImplements
  <2>2. CASE Take(MainTask, "handle")
    BY <2>2, QuietImplements DEF Take
  <2>. QED BY <1>3, <2>1, <2>2 DEF MainReceive
<1>4. CASE MainProcessEvents
  <2>1. CASE UNCHANGED sched
    BY <1>4, <2>1, QuietImplements DEF MainProcessEvents
  <2>2. CASE \E gui \in tasks : Deliver(gui, Msg("input", 0, 0))
    BY <1>4, <2>2, DeliverImplements DEF MainProcessEvents
  <2>. QED BY <1>4, <2>1, <2>2 DEF MainProcessEvents
<1>5. CASE MainExpand
  BY <1>5, DeliverImplements DEF MainExpand
<1>6. CASE MainStart
  <2>1. CASE held[MainTask].id \in tasks
    BY <1>6, <2>1, WakeupImplements DEF MainStart
  <2>2. CASE held[MainTask].id \notin tasks
    BY <1>6, <2>2, QuietImplements DEF MainStart
  <2>. QED BY <2>1, <2>2
<1>7. CASE MainUnknown
  BY <1>7, QuietImplements DEF MainUnknown
<1>. QED BY <1>2, <1>3, <1>4, <1>5, <1>6, <1>7 DEF MainStep

LEMMA UserImplements ==
  ASSUME IInv, NEW t \in UserTask, Program(t) \/ ReceiveStep(t) \/ ExitStep(t)
  PROVE  [TM!Next]_TM!vars
<1> USE FixedTasks
<1>1. t = Current /\ t # IdleTask
  BY DEF Program, SysSendMessage, SysCreateNewTask, SysSendStart, SysOpenReceive,
         SysClosedReceive, SysExit, ReceiveStep, OpenReceiveStep, ClosedReceiveStep, BounceStep,
         ExitStep, ExitReport, ExitLoop, FinishTask, At
<1>2. CASE \E dst \in Id, type \in {"request", "received", "expand"} : SysSendMessage(t, dst, type)
  BY <1>2, DeliverImplements DEF SysSendMessage
<1>3. CASE SysCreateNewTask(t)
  BY <1>1, <1>3, CreateImplements DEF SysCreateNewTask
<1>4. CASE \E id \in UserTask, k \in {"app", "server"} : SysSendStart(t, id, k)
  BY <1>4, DeliverImplements DEF SysSendStart
<1>5. CASE SysOpenReceive(t) \/ (\E from \in Id : SysClosedReceive(t, from)) \/ SysExit(t)
  BY <1>5, QuietImplements DEF SysOpenReceive, SysClosedReceive, SysExit
<1>6. CASE OpenReceiveStep(t) \/ ClosedReceiveStep(t) \/ ExitLoop(t)
  <2>1. CASE SleepIfEmpty(t)
    BY <1>1, <2>1, SleepImplements
  <2>2. CASE \E label : Take(t, label)
    BY <2>2, QuietImplements DEF Take
  <2>. QED BY <1>6, <2>1, <2>2 DEF OpenReceiveStep, ClosedReceiveStep, ExitLoop
<1>7. CASE BounceStep(t)
  BY <1>7, DeliverImplements DEF BounceStep
<1>8. CASE ExitReport(t)
  BY <1>8, DeliverImplements DEF ExitReport
<1>9. CASE FinishTask(t)
  BY <1>9, FinishImplements
<1>. QED BY <1>2, <1>3, <1>4, <1>5, <1>6, <1>7, <1>8, <1>9 DEF Program, ReceiveStep, ExitStep

LEMMA NextImplements == IInv /\ [Next]_vars => [TM!Next]_TM!vars
<1> SUFFICES ASSUME IInv, [Next]_vars PROVE [TM!Next]_TM!vars
  OBVIOUS
<1>1. CASE UNCHANGED vars
  BY <1>1, QuietImplements DEF vars, tmVars
<1>2. CASE MainStep
  BY <1>2, MainImplements
<1>3. ASSUME NEW t \in UserTask, Program(t) \/ ReceiveStep(t) \/ ExitStep(t)
      PROVE  [TM!Next]_TM!vars
  BY <1>3, UserImplements
<1>4. CASE InterruptXHCI \/ \E t \in UserTask : InterruptTimer(t)
  BY <1>4, DeliverImplements DEF InterruptXHCI, InterruptTimer
<1>5. CASE SwitchTask
  <2>1. TM!SwitchTask
    BY <1>5, SameRotate DEF SwitchTask, TM!SwitchTask, tmVars
  <2>. QED BY <2>1 DEF TM!Next
<1>. QED BY <1>1, <1>2, <1>3, <1>4, <1>5 DEF Next

(* The kernel uses the task manager through its interface only: every      *)
(* behaviour of the kernel, seen through tasks_, the run queues and        *)
(* finish_tasks_, is one of TaskManager, so RunQueueIntegrity,             *)
(* CurrentExists and NoMissedPreemption, which TaskManager_proofs proves   *)
(* there, hold of it as well.                                              *)
THEOREM KernelImplementsTaskManager == Spec => ImplementsTaskManager
<1>. QED BY InitImplements, NextImplements, IInvAlways, PTL DEF Spec, ImplementsTaskManager, TM!Spec
=============================================================================
