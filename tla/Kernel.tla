------------------------------- MODULE Kernel -------------------------------
(***************************************************************************)
(* Tasks, mailboxes and the run queues together: the main loop of the      *)
(* kernel (kernel/main.cpp), the messaging system calls                    *)
(* (kernel/syscall.cpp), the life of a server or application task          *)
(* (TaskServer and TaskApp of kernel/system.cpp), the interrupt handlers   *)
(* that send messages (kernel/interrupt.cpp, kernel/timer.cpp) and the     *)
(* input observers (kernel/keyboard.cpp, kernel/mouse.cpp).                *)
(*                                                                         *)
(* One step is a stretch of code between a cli and the matching sti, or a  *)
(* call of the task manager that the code makes with interrupts enabled    *)
(* (the preemption of such calls is the subject of module Preemption).     *)
(* Interrupts come between any two steps.  Every caller in the repository  *)
(* asks the receive system calls for one message (len = 1).                *)
(***************************************************************************)
EXTENDS RunQueue

CONSTANT
  Credit      \* bound of the model: messages sent spontaneously (by a program or a device)

ASSUME CreditAssumption == Credit \in Nat

InitTask == 3
ASSUME InitTaskAssumption == MaxTask >= InitTask

VARIABLES
  latestId, tasks, sched, finishTasks,   \* as in TaskManager
  msgs,     \* msgs_ of each task
  pc,       \* where each task is (see PC)
  held,     \* the message a task has taken and still needs (NoMsg when none)
  target,   \* target_id of a ClosedReceiveMessage under way
  parent,   \* am_id or init_id: who asked for the task to be started
  kind,     \* "app" or "server": which of TaskApp, TaskServer the task runs
  credit    \* spontaneous messages left

vars == <<latestId, tasks, sched, finishTasks, msgs, pc, held, target, parent, kind, credit>>
tmVars == <<latestId, tasks, finishTasks>>

PC == {"boot", "bootWake",            \* the main thread in InitializeSystemTask
       "loop", "handle",              \* ... in its loop
       "idle",                        \* TaskIdle
       "none", "created", "starting", \* no object; NewTask done; kStartApp/kStartServer sent
       "user",                        \* in the program of the server or application
       "open", "closed", "bounce",    \* in OpenReceiveMessage, ClosedReceiveMessage
       "exit", "report", "finish"}    \* in TaskApp or TaskServer after the program

Type == {"xhci", "input", "timer", "expand", "start", "request",
         "error", "received", "exitApp", "exitServer"}

(* src 0: the sender left src_task unset (interrupt handlers, observers).  *)
Message == [type : Type, src : 0..MaxTask, id : 0..MaxTask]
Msg(type, src, id) == [type |-> type, src |-> src, id |-> id]
NoMsg == Msg("error", 0, 0)

Current == CurrentTask(sched)
UserTask == Id \ {MainTask, IdleTask}
At(t, label) == t = Current /\ pc[t] = label
Goto(t, label) == pc' = [pc EXCEPT ![t] = label]

-----------------------------------------------------------------------------
(* InitializeTask has built the task manager and armed the task timer.     *)
Init ==
  /\ latestId = IdleTask
  /\ tasks = {MainTask, IdleTask}
  /\ sched = InitSched
  /\ finishTasks = {}
  /\ msgs = [t \in Id |-> <<>>]
  /\ pc = [t \in Id |-> CASE t = MainTask -> "boot" [] t = IdleTask -> "idle"
                          [] OTHER -> "none"]
  /\ held = [t \in Id |-> NoMsg]
  /\ target = [t \in Id |-> 0]
  /\ parent = [t \in Id |-> 0]
  /\ kind = [t \in Id |-> "server"]
  /\ credit = Credit

(* Mutant of Deliver: the receiver is not woken.                           *)
DeliverSilently(dst, m) ==
  /\ msgs' = IF dst \in tasks THEN [msgs EXCEPT ![dst] = Append(@, m)] ELSE msgs
  /\ UNCHANGED sched

(* TaskManager::SendMessage: kNoSuchTask for an unknown id, which every    *)
(* caller ignores; else append and wake.                                   *)
Deliver(dst, m) ==
  IF dst \in tasks
  THEN /\ msgs' = [msgs EXCEPT ![dst] = Append(@, m)]
       /\ sched' = Wakeup(sched, dst, NoLevel)
  ELSE UNCHANGED <<msgs, sched>>

(* Mutant of SleepIfEmpty: the mailbox was looked at before the cli.       *)
SleepAnyway(t) ==
  /\ sched' = Sleep(sched, t)
  /\ UNCHANGED <<tmVars, msgs, pc, held, target, parent, kind, credit>>

(* cli; ReceiveMessage; Sleep when there is none.                          *)
SleepIfEmpty(t) ==
  /\ msgs[t] = <<>>
  /\ sched' = Sleep(sched, t)
  /\ UNCHANGED <<tmVars, msgs, pc, held, target, parent, kind, credit>>

(* cli; ReceiveMessage; sti, when there is one.                            *)
Take(t, label) ==
  /\ msgs[t] # <<>>
  /\ msgs' = [msgs EXCEPT ![t] = Tail(@)]
  /\ held' = IF label \in {"handle", "bounce"}
             THEN [held EXCEPT ![t] = Head(msgs[t])] ELSE held
  /\ target' = IF label = "user" THEN [target EXCEPT ![t] = 0] ELSE target
  /\ Goto(t, label)
  /\ UNCHANGED <<tmVars, sched, parent, kind, credit>>

(* Back to the loop: the message just handled goes out of scope.           *)
Done(t, label) ==
  /\ held' = [held EXCEPT ![t] = NoMsg]
  /\ Goto(t, label)

-----------------------------------------------------------------------------
(* The kernel's main thread.                                               *)

(* InitializeSystemTask: create the init server's task, then wake it.      *)
MainBoot ==
  \/ /\ At(MainTask, "boot")
     /\ latestId' = InitTask
     /\ tasks' = tasks \cup {InitTask}
     /\ pc' = [pc EXCEPT ![InitTask] = "created", ![MainTask] = "bootWake"]
     /\ UNCHANGED <<sched, finishTasks, msgs, held, target, parent, kind, credit>>
  \/ /\ At(MainTask, "bootWake")
     /\ sched' = Wakeup(sched, InitTask, NoLevel)
     /\ pc' = [pc EXCEPT ![InitTask] = "user", ![MainTask] = "loop"]
     /\ UNCHANGED <<tmVars, msgs, held, target, parent, kind, credit>>

MainReceive ==
  /\ At(MainTask, "loop")
  /\ SleepIfEmpty(MainTask) \/ Take(MainTask, "handle")

(* kInterruptXHCI: ProcessEvents may call the keyboard or mouse observer,  *)
(* which sends to the GUI server, if FindTask knows one.                   *)
MainProcessEvents ==
  /\ At(MainTask, "handle")
  /\ held[MainTask].type = "xhci"
  /\ \/ UNCHANGED <<msgs, sched, credit>>
     \/ \E gui \in {t \in UserTask \cap tasks : pc[t] \notin {"created", "starting"}} :
          /\ credit > 0
          /\ credit' = credit - 1
          /\ Deliver(gui, Msg("input", 0, 0))
  /\ Done(MainTask, "loop")
  /\ UNCHANGED <<tmVars, target, parent, kind>>

(* kExpandTaskBuffer: resize the buffer, answer the sender.                *)
MainExpand ==
  /\ At(MainTask, "handle")
  /\ held[MainTask].type = "expand"
  /\ Deliver(held[MainTask].src, Msg("expand", MainTask, 0))
  /\ Done(MainTask, "loop")
  /\ UNCHANGED <<tmVars, target, parent, kind, credit>>

(* kStartApp, kStartServer: InitContext and Wakeup; the sender becomes the *)
(* parent that is told of the exit.                                        *)
MainStart ==
  LET id == held[MainTask].id
  IN  /\ At(MainTask, "handle")
      /\ held[MainTask].type = "start"
      /\ IF id \in tasks
         THEN /\ sched' = Wakeup(sched, id, NoLevel)
              /\ parent' = [parent EXCEPT ![id] = held[MainTask].src]
              /\ pc' = [pc EXCEPT ![id] = "user", ![MainTask] = "loop"]
              /\ held' = [held EXCEPT ![MainTask] = NoMsg]
         ELSE /\ Done(MainTask, "loop")
              /\ UNCHANGED <<sched, parent>>
      /\ UNCHANGED <<tmVars, msgs, target, kind, credit>>

(* Anything else is logged and dropped.                                    *)
MainUnknown ==
  /\ At(MainTask, "handle")
  /\ held[MainTask].type \notin {"xhci", "expand", "start"}
  /\ Done(MainTask, "loop")
  /\ UNCHANGED <<tmVars, sched, msgs, target, parent, kind, credit>>

MainStep == MainBoot \/ MainReceive \/ MainProcessEvents \/ MainExpand \/ MainStart \/ MainUnknown

-----------------------------------------------------------------------------
(* System calls.  A program sends to tasks it knows: the main thread, a    *)
(* started task, or one that has ended since.                              *)

Known(dst) ==
  dst \in 1..latestId \ {IdleTask} /\ pc[dst] \notin {"created", "starting"}

SysSendMessage(t, dst, type) ==
  /\ At(t, "user") /\ t \in UserTask
  /\ Known(dst) /\ dst # t
  /\ type \in {"request", "received"} \/ (type = "expand" /\ dst = MainTask)
  /\ credit > 0
  /\ credit' = credit - 1
  /\ Deliver(dst, Msg(type, t, 0))
  /\ UNCHANGED <<tmVars, pc, held, target, parent, kind>>

(* Mutant of SysCreateNewTask: the new task is made runnable at once.      *)
CreateRunnableTask(t) ==
  /\ At(t, "user") /\ t \in UserTask
  /\ latestId < MaxTask
  /\ latestId' = latestId + 1
  /\ tasks' = tasks \cup {latestId + 1}
  /\ sched' = Wakeup(sched, latestId + 1, NoLevel)
  /\ pc' = [pc EXCEPT ![latestId + 1] = "created"]
  /\ parent' = [parent EXCEPT ![latestId + 1] = t]
  /\ UNCHANGED <<finishTasks, msgs, held, target, kind, credit>>

SysCreateNewTask(t) ==
  /\ At(t, "user") /\ t \in UserTask
  /\ latestId < MaxTask
  /\ latestId' = latestId + 1
  /\ tasks' = tasks \cup {latestId + 1}
  /\ pc' = [pc EXCEPT ![latestId + 1] = "created"]
  /\ parent' = [parent EXCEPT ![latestId + 1] = t]
  /\ UNCHANGED <<sched, finishTasks, msgs, held, target, kind, credit>>

(* The creator asks the main thread to start the new task, once.           *)
SysSendStart(t, id, k) ==
  /\ At(t, "user") /\ t \in UserTask
  /\ pc[id] = "created" /\ parent[id] = t
  /\ Deliver(MainTask, Msg("start", t, id))
  /\ Goto(id, "starting")
  /\ kind' = [kind EXCEPT ![id] = k]
  /\ UNCHANGED <<tmVars, held, target, parent, credit>>

SysOpenReceive(t) ==
  /\ At(t, "user") /\ t \in UserTask
  /\ Goto(t, "open")
  /\ UNCHANGED <<tmVars, sched, msgs, held, target, parent, kind, credit>>

SysClosedReceive(t, from) ==
  /\ At(t, "user") /\ t \in UserTask
  /\ Known(from)
  /\ Goto(t, "closed")
  /\ target' = [target EXCEPT ![t] = from]
  /\ UNCHANGED <<tmVars, sched, msgs, held, parent, kind, credit>>

OpenReceiveStep(t) ==
  /\ At(t, "open")
  /\ SleepIfEmpty(t) \/ Take(t, "user")

(* A message of another sender is taken out and bounced.                   *)
ClosedReceiveStep(t) ==
  /\ At(t, "closed")
  /\ \/ SleepIfEmpty(t)
     \/ /\ msgs[t] # <<>>
        /\ Take(t, IF Head(msgs[t]).src = target[t] THEN "user" ELSE "bounce")

(* kError with retry, sent after the sti that follows the taking.          *)
BounceStep(t) ==
  /\ At(t, "bounce")
  /\ Deliver(held[t].src, Msg("error", t, 0))
  /\ Done(t, "closed")
  /\ UNCHANGED <<tmVars, target, parent, kind, credit>>

ReceiveStep(t) == OpenReceiveStep(t) \/ ClosedReceiveStep(t) \/ BounceStep(t)

(* The program calls Exit, is killed by a fault, or cannot be executed.    *)
(* The init server's task never leaves its program.                        *)
SysExit(t) ==
  /\ At(t, "user") /\ t \in UserTask \ {InitTask}
  /\ Goto(t, "exit")
  /\ UNCHANGED <<tmVars, sched, msgs, held, target, parent, kind, credit>>

(* TaskApp tells its parent and waits; TaskServer tells its parent, in the *)
(* name of task 1, and is done.                                            *)
ExitReport(t) ==
  /\ At(t, "exit")
  /\ IF kind[t] = "app"
     THEN Deliver(parent[t], Msg("exitApp", t, t)) /\ Goto(t, "report")
     ELSE Deliver(parent[t], Msg("exitServer", MainTask, 0)) /\ Goto(t, "finish")
  /\ UNCHANGED <<tmVars, held, target, parent, kind, credit>>

(* The loop at the end of TaskApp: on kError with retry the report is sent *)
(* again, on kReceived the task finishes, the rest is ignored.             *)
ExitLoop(t) ==
  /\ At(t, "report")
  /\ \/ SleepIfEmpty(t)
     \/ /\ msgs[t] # <<>>
        /\ Take(t, CASE Head(msgs[t]).type = "error"    -> "exit"
                     [] Head(msgs[t]).type = "received" -> "finish"
                     [] OTHER                           -> "report")

(* Mutant of FinishTask: the object is destroyed but left in its queue.    *)
FinishQueued(t) ==
  /\ At(t, "finish")
  /\ sched' = RotateCurrentRunQueue(sched, FALSE)
  /\ tasks' = tasks \ {t}
  /\ finishTasks' = finishTasks \cup {t}
  /\ msgs' = [msgs EXCEPT ![t] = <<>>]
  /\ Goto(t, "none")
  /\ parent' = [parent EXCEPT ![t] = 0]
  /\ kind' = [kind EXCEPT ![t] = "server"]
  /\ UNCHANGED <<latestId, held, target, credit>>

FinishTask(t) ==
  /\ At(t, "finish")
  /\ sched' = RotateCurrentRunQueue([sched EXCEPT !.running[t] = FALSE], TRUE)
  /\ tasks' = tasks \ {t}
  /\ finishTasks' = finishTasks \cup {t}
  /\ msgs' = [msgs EXCEPT ![t] = <<>>]
  /\ Goto(t, "none")
  /\ parent' = [parent EXCEPT ![t] = 0]
  /\ kind' = [kind EXCEPT ![t] = "server"]
  /\ UNCHANGED <<latestId, held, target, credit>>

ExitStep(t) == ExitReport(t) \/ ExitLoop(t) \/ FinishTask(t)

-----------------------------------------------------------------------------
(* Interrupts.                                                             *)

(* IntHandlerXHCI.                                                         *)
InterruptXHCI ==
  /\ credit > 0
  /\ credit' = credit - 1
  /\ Deliver(MainTask, Msg("xhci", 0, 0))
  /\ UNCHANGED <<tmVars, pc, held, target, parent, kind>>

(* A timer of a program runs out (TimerManager::Tick).                     *)
InterruptTimer(t) ==
  /\ t \in UserTask /\ Known(t)
  /\ credit > 0
  /\ credit' = credit - 1
  /\ Deliver(t, Msg("timer", 0, 0))
  /\ UNCHANGED <<tmVars, pc, held, target, parent, kind>>

(* The task timer runs out (LAPICTimerOnInterrupt).                        *)
SwitchTask ==
  /\ sched' = RotateCurrentRunQueue(sched, FALSE)
  /\ UNCHANGED <<tmVars, msgs, pc, held, target, parent, kind, credit>>

-----------------------------------------------------------------------------
Program(t) ==
  \/ \E dst \in Id, type \in {"request", "received", "expand"} : SysSendMessage(t, dst, type)
  \/ SysCreateNewTask(t)
  \/ \E id \in UserTask, k \in {"app", "server"} : SysSendStart(t, id, k)
  \/ SysOpenReceive(t)
  \/ \E from \in Id : SysClosedReceive(t, from)
  \/ SysExit(t)

Next ==
  \/ MainStep
  \/ \E t \in UserTask : Program(t) \/ ReceiveStep(t) \/ ExitStep(t)
  \/ InterruptXHCI
  \/ \E t \in UserTask : InterruptTimer(t)
  \/ SwitchTask

Spec == Init /\ [][Next]_vars

(* The timer interrupt keeps coming, and a task that owns the processor    *)
(* again and again gets instructions done before it is preempted again     *)
(* (20 ms between two task timer interrupts).  Programs owe nothing.       *)
Fairness ==
  /\ WF_vars(SwitchTask)
  /\ SF_vars(MainStep)
  /\ \A t \in UserTask : SF_vars(ReceiveStep(t)) /\ SF_vars(ExitStep(t))

FairSpec == Spec /\ Fairness

-----------------------------------------------------------------------------
(* Every variable stays in its set.                                        *)
TypeOK ==
  /\ latestId \in IdleTask..MaxTask
  /\ tasks \subseteq 1..latestId
  /\ sched \in Sched
  /\ finishTasks \subseteq Id
  /\ msgs \in [Id -> Seq(Message)]
  /\ pc \in [Id -> PC]
  /\ held \in [Id -> Message]
  /\ target \in [Id -> 0..MaxTask]
  /\ parent \in [Id -> 0..MaxTask]
  /\ kind \in [Id -> {"app", "server"}]
  /\ credit \in 0..Credit

(* No lost wake-up: a started task that sleeps has no message waiting, so  *)
(* the check of the mailbox and the sleep in the four receive loops cannot *)
(* be separated by a sender or an interrupt.                               *)
NoLostWakeup ==
  \A t \in tasks : ~ sched.running[t] /\ pc[t] \notin {"created", "starting"} =>
    /\ msgs[t] = <<>>
    /\ pc[t] \in {"loop", "open", "closed", "report"}

(* Only tasks whose context InitContext has set up are ever in a run       *)
(* queue: a new task is not scheduled before its start is processed.       *)
OnlyStartedTasksRun ==
  \A t \in tasks : sched.running[t] => pc[t] \notin {"none", "created", "starting"}

(* The kernel uses the task manager through its interface only, so what is *)
(* proved of TaskManager holds here.                                       *)
TM == INSTANCE TaskManager WITH
        finishWaiter <- [t \in Id |-> 0], waitFor <- [t \in Id |-> 0]
ImplementsTaskManager == TM!Spec

(* Every runnable task is eventually given the processor: the main thread  *)
(* preempts the others, and they take turns.                               *)
NoStarvation ==
  \A t \in Id \ {IdleTask} : sched.running[t] ~> (Current = t \/ ~ sched.running[t])

(* A task that waits in OpenReceiveMessage and has mail gets it; one in    *)
(* ClosedReceiveMessage gets the message of its target, however many other *)
(* messages it has to bounce first; the main thread works off its mail.    *)
MailIsReceived ==
  /\ \A t \in UserTask : (pc[t] = "open" /\ msgs[t] # <<>>) ~> pc[t] = "user"
  /\ \A t \in UserTask :
       (pc[t] = "closed" /\ \E i \in 1..Len(msgs[t]) : msgs[t][i].src = target[t])
         ~> pc[t] = "user"
  /\ msgs[MainTask] # <<>> ~> msgs[MainTask] = <<>>
=============================================================================
