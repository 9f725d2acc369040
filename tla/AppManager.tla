----------------------------- MODULE AppManager -----------------------------
(***************************************************************************)
(* Command lines: the terminal (servers/terminal/terminal.cpp), the        *)
(* application management server (servers/am) and the applications it      *)
(* starts, with the calls open, read, write, the wait for a key and the    *)
(* exit (libs/kinos/common/newlib_support.c, apps/more, TaskApp of the     *)
(* kernel).  Three kinds of lines are typed, "one", "pipe" (one | ...) and *)
(* "redirect" (one > file).                                                *)
(*                                                                         *)
(* A task's mailbox is a queue; a step is one receive with the handling of *)
(* the message up to the next receive, the sends included.  Who waits in   *)
(* ClosedReceiveMessage answers the messages of everybody else with kError *)
(* and retry.  The bytes that go through pipes and files are those of the  *)
(* modules Pipe and FileSystem; here an application reads and writes the   *)
(* terminal (its standard input, unless that is a pipe, and its standard   *)
(* error) and files (its standard output when the line redirects it, and   *)
(* what it has opened).                                                    *)
(***************************************************************************)
EXTENDS Integers, Sequences, FiniteSets

CONSTANTS
  MaxApps,     \* bound of the model: applications that can be started
  MaxLines,    \* bound of the model: lines typed
  MaxCalls     \* bound of the model: calls all applications make together

ASSUME AppManagerAssumption == MaxApps \in Nat /\ MaxLines \in Nat /\ MaxCalls \in Nat

App == 1..MaxApps
T == -1            \* the terminal
AM == -2           \* the application management server
FS == -3           \* the file system server
Gui == -4          \* the GUI server, which sends the keys

VARIABLES
  msgs,      \* the mailboxes
  term,      \* the terminal: where it is, sm, waiting_id, and the lines typed
  am,        \* the server: its state and the members of its class
  apps,      \* the applications: apps_ of the server and the tasks
  calls,     \* bound: calls still to be made
  cut,       \* history: pipes whose line ended without a program to read them
  late,      \* history: a line was typed while an application still ran
  aborted,   \* history: the terminal gave up a line the server had begun with
  dropped    \* history: the server dropped a request other than kWrite in the
             \* loop of FatFileDescriptor::Write

vars == <<msgs, term, am, apps, calls, cut, late, aborted, dropped>>

(* A message; n is the id, the length, the retry flag or the kind of line. *)
(* line is there for the properties only.                                  *)
Msg(type, src, n) == [type |-> type, src |-> src, n |-> n, line |-> 0]
Error(src, retry) == Msg("error", src, IF retry THEN 1 ELSE 0)

(* SendMessage; a message to a task that has finished is dropped.          *)
Post(box, dst, m) ==
  IF dst \in App /\ apps[dst].pc = "done" THEN box ELSE [box EXCEPT ![dst] = Append(@, m)]
Rest(p) == [msgs EXCEPT ![p] = Tail(@)]

(* What a descriptor leads to: the terminal, a file, or the pipe of the    *)
(* application with that number.                                           *)
Terminal == 0
File == -1

NoApp == [pc |-> "none", sm |-> Msg("none", AM, 0), run |-> FALSE,
          stdin |-> Terminal, stdout |-> Terminal, opened |-> FALSE, line |-> 0, last |-> FALSE]

Init ==
  /\ msgs = [p \in App \cup {T, AM, FS} |-> <<>>]
  /\ term = [pc |-> "prompt", sm |-> Msg("none", T, 0), waiting |-> 0, line |-> 0]
  /\ am = [state |-> "init", target |-> T, pipe |-> FALSE, redirect |-> FALSE, piped |-> FALSE,
           pipeFd |-> 0, new |-> 0, line |-> 0, id |-> 0, waiting |-> FALSE, waitingId |-> 0]
  /\ apps = [i \in App |-> NoApp]
  /\ calls = MaxCalls /\ cut = {} /\ late = FALSE /\ aborted = FALSE /\ dropped = FALSE

(* The application i has been started and has not finished.                *)
Alive(i) == apps[i].run \/ apps[i].pc \notin {"none", "done"}

(* What follows a crash of the server is not modelled.                     *)
Up == am.state # "crashed"

-----------------------------------------------------------------------------
(* The terminal.  pc: "prompt" (main, OpenReceiveMessage), "pipe" and      *)
(* "reply" (the two loops of ExecuteFile, ClosedReceiveMessage), "readKey" *)
(* and "waitKey" (the inner loops of kRead and kWaitingKey,                *)
(* OpenReceiveMessage).                                                    *)

(* ExecuteFile up to its first receive.  With a redirection sm is          *)
(* overwritten and sent a second time; a file name that is too long makes  *)
(* it return in between.                                                   *)
ExecuteFile(kind, line, box) ==
  LET exec == [Msg("executeFile", T, CASE kind = "pipe" -> 1
                                       [] kind = "redirect" -> 2
                                       [] kind = "redirectTooLong" -> 2
                                       [] OTHER -> 0) EXCEPT !.line = line]
      name == [Msg("redirect", T, 0) EXCEPT !.line = line]
  IN  CASE kind = "tooLong" ->
             /\ msgs' = box
             /\ term' = [term EXCEPT !.pc = "prompt", !.line = line]
        [] kind = "redirectTooLong" ->
             /\ msgs' = Post(box, AM, exec)
             /\ term' = [term EXCEPT !.pc = "prompt", !.sm = name, !.line = line]
        [] kind = "redirect" ->
             /\ msgs' = Post(Post(box, AM, exec), AM, name)
             /\ term' = [term EXCEPT !.pc = "reply", !.sm = name, !.line = line]
        [] OTHER ->
             /\ msgs' = Post(box, AM, exec)
             /\ term' = [term EXCEPT !.pc = IF kind = "pipe" THEN "pipe" ELSE "reply",
                                     !.sm = exec, !.line = line]

(* The last key of a line is at the head of the mailbox: messages that are *)
(* already behind it are left for the loops of ExecuteFile.                *)
EnterLine(kind) ==
  /\ Up /\ term.pc = "prompt" /\ term.line < MaxLines
  /\ ExecuteFile(kind, term.line + 1, msgs)
  /\ aborted' = (aborted \/ kind = "redirectTooLong")
  /\ late' = (late \/ \E i \in App : Alive(i))
  /\ UNCHANGED <<am, apps, calls, cut, dropped>>

(* A key is pressed while the terminal takes any message; n = 0 stands for *)
(* control-D, the end of the input.                                        *)
KeyPush ==
  /\ Up /\ term.pc \in {"readKey", "waitKey"}
  /\ \A i \in 1..Len(msgs[T]) : msgs[T][i].src # Gui
  /\ \E n \in {0, 1} : msgs' = Post(msgs, T, Msg("key", Gui, n))
  /\ UNCHANGED <<term, am, apps, calls, cut, late, aborted, dropped>>

(* kReady: the first program of a pipeline runs; ExecuteFile is called for *)
(* what follows the '|'.  The first call has already cut the line at a     *)
(* '>', so that no redirection is left in it.                              *)
NextInPipeline(kind) ==
  /\ ExecuteFile(kind, term.line, Rest(T))
  /\ aborted' = (aborted \/ kind = "tooLong")
  /\ cut' = IF kind = "tooLong" THEN cut \cup {am.pipeFd} ELSE cut

(* Mutant of ExitEndsLine: any application that exits ends the line.       *)
AnyExitEndsLine(m) == TRUE

(* kExitApp: the line is over when the application it waits for exits.     *)
ExitEndsLine(m) == term.waiting = m.n

(* The loop at the end of ExecuteFile.                                     *)
TerminalHandles(m) ==
  /\ \/ m.type = "error" /\ m.n = 1 /\ msgs' = Post(Rest(T), AM, term.sm) /\ UNCHANGED term
     \/ m.type = "error" /\ m.n = 0 /\ msgs' = Rest(T) /\ term' = [term EXCEPT !.pc = "prompt"]
     \/ m.type = "executeFile" /\ msgs' = Rest(T) /\ term' = [term EXCEPT !.waiting = m.n]
     \/ m.type = "read" /\ msgs' = Rest(T) /\ term' = [term EXCEPT !.pc = "readKey"]
     \/ m.type = "waitingKey" /\ msgs' = Rest(T) /\ term' = [term EXCEPT !.pc = "waitKey"]
     \/ /\ m.type = "exitApp" /\ msgs' = Rest(T)
        /\ term' = IF ExitEndsLine(m) THEN [term EXCEPT !.pc = "prompt"] ELSE term
     \/ m.type \in {"write", "ready"} /\ msgs' = Rest(T) /\ UNCHANGED term
  /\ UNCHANGED <<cut, aborted>>

(* The loop in front of the second program of a pipeline.                  *)
TerminalAwaitsReady(m) ==
  \/ m.type = "ready" /\ \E kind \in {"one", "pipe", "tooLong"} : NextInPipeline(kind)
  \/ /\ m.type = "error"
     /\ IF m.n = 1 THEN msgs' = Post(Rest(T), AM, term.sm) /\ UNCHANGED term
                   ELSE msgs' = Rest(T) /\ term' = [term EXCEPT !.pc = "prompt"]
     /\ UNCHANGED <<cut, aborted>>
  \/ m.type \notin {"ready", "error"} /\ msgs' = Rest(T) /\ UNCHANGED <<term, cut, aborted>>

(* Mutant of TerminalAwaitsKey: the loop of kRead is not left.             *)
TerminalAwaitsKeyNoBreak(m) ==
  /\ \/ /\ m.type = "key" /\ term.pc = "readKey"
        /\ msgs' = Post(Rest(T), AM, Msg("read", T, m.n))
        /\ term' = [term EXCEPT !.sm = Msg("read", T, m.n)]
     \/ /\ m.type = "key" /\ term.pc = "waitKey"
        /\ msgs' = Post(Rest(T), AM, Msg("key", T, m.n))
        /\ term' = [term EXCEPT !.pc = "reply"]
     \/ m.type # "key" /\ msgs' = Rest(T) /\ UNCHANGED term
  /\ UNCHANGED <<cut, aborted>>

(* The loops that wait for a key: everything else is dropped.              *)
TerminalAwaitsKey(m) ==
  /\ \/ /\ m.type = "key" /\ term.pc = "readKey"
        /\ msgs' = Post(Rest(T), AM, Msg("read", T, m.n))
        /\ term' = [term EXCEPT !.pc = "reply", !.sm = Msg("read", T, m.n)]
     \/ /\ m.type = "key" /\ term.pc = "waitKey"
        /\ msgs' = Post(Rest(T), AM, Msg("key", T, m.n))
        /\ term' = [term EXCEPT !.pc = "reply"]
     \/ m.type # "key" /\ msgs' = Rest(T) /\ UNCHANGED term
  /\ UNCHANGED <<cut, aborted>>

TerminalStep ==
  /\ Up /\ msgs[T] # <<>>
  /\ LET m == Head(msgs[T])
     IN  \/ term.pc = "prompt" /\ msgs' = Rest(T) /\ UNCHANGED <<term, cut, aborted>>
         \/ term.pc = "reply" /\ m.src = AM /\ TerminalHandles(m)
         \/ term.pc = "pipe" /\ m.src = AM /\ TerminalAwaitsReady(m)
         \/ term.pc \in {"readKey", "waitKey"} /\ TerminalAwaitsKey(m)
  /\ UNCHANGED <<am, apps, calls, late, dropped>>

-----------------------------------------------------------------------------
(* The server.  state: "init" takes any message; "redirectName" and "pipe" *)
(* (a message of the terminal that gave the line), "exec", "create",       *)
(* "redirect", "open" and "readFile" (the file system server), "read" and  *)
(* "key" (the terminal, for an application), "writeFile" (the application  *)
(* that writes) are receives of one sender.  "crashed": it has followed a  *)
(* null pointer or returned from ReceiveMessage without a state.           *)
Awaited == CASE am.state \in {"exec", "create", "redirect", "open", "readFile"} -> FS
             [] am.state \in {"redirectName", "pipe"} -> am.target
             [] am.state \in {"read", "key"} -> T
             [] am.state = "writeFile" -> am.id

Crash == am' = [am EXCEPT !.state = "crashed"] /\ msgs' = Rest(AM) /\ UNCHANGED <<apps, cut>>

(* ExecFileState::HandleMessage and SendMessage, for the message m.        *)
ExecFile(m, piped) ==
  LET a == [am EXCEPT !.target = m.src, !.pipe = (m.n = 1), !.redirect = (m.n = 2),
                      !.piped = piped, !.line = m.line]
  IN  /\ IF m.n = 2
         THEN am' = [a EXCEPT !.state = "redirectName"] /\ msgs' = Rest(AM)
         ELSE /\ am' = [a EXCEPT !.state = "exec"]
              /\ msgs' = Post(Rest(AM), FS, Msg("executeFile", AM, 0))
      /\ UNCHANGED <<apps, cut>>

(* The second message of a redirection: the type is not looked at.         *)
RedirectName ==
  /\ am' = [am EXCEPT !.state = "exec"]
  /\ msgs' = Post(Rest(AM), FS, Msg("executeFile", AM, 0))
  /\ UNCHANGED <<apps, cut>>


(* PipeState: the next program of the pipeline; the rest is dropped.       *)
PipeContinues(m) ==
  IF m.type = "executeFile" THEN ExecFile(m, TRUE)
                            ELSE msgs' = Rest(AM) /\ UNCHANGED <<am, apps, cut>>

(* An error of the file system server ends the request.  The flag piped_   *)
(* is not reset.                                                           *)
FsError ==
  /\ am' = [am EXCEPT !.state = "init"]
  /\ msgs' = Post(Rest(AM), am.target, Error(AM, FALSE))
  /\ cut' = IF am.state # "open" /\ am.piped THEN cut \cup {am.pipeFd} ELSE cut
  /\ UNCHANGED apps

(* CreateTaskState: the new task gets the next id.                         *)
CreateTask ==
  /\ am' = [am EXCEPT !.state = "create", !.new = @ + 1]
  /\ msgs' = Post(Rest(AM), FS, Msg("executeFile", AM, am.new + 1))
  /\ UNCHANGED <<apps, cut>>

(* Mutant of StartTask: the new pipe takes the place of the one to be read *)
(* before the standard input is set.                                       *)
StartTaskPipesFirst ==
  /\ am' = [am EXCEPT !.state = IF am.pipe THEN "pipe" ELSE "init", !.piped = FALSE,
                      !.pipeFd = IF am.pipe THEN am.new ELSE @]
  /\ apps' = [apps EXCEPT ![am.new] =
       [NoApp EXCEPT !.pc = "idle", !.run = TRUE, !.line = am.line, !.last = ~am.pipe,
                     !.stdin = IF am.piped THEN am'.pipeFd ELSE Terminal,
                     !.stdout = IF am.pipe THEN am.new ELSE IF am.redirect THEN File ELSE Terminal]]
  /\ LET box == Post(Rest(AM), am.target, Msg("executeFile", AM, am.new))
     IN  msgs' = IF am.pipe THEN Post(box, am.target, Msg("ready", AM, 0)) ELSE box
  /\ UNCHANGED cut

(* StartTaskState with NewApp and InitializeFileDescriptor: the new        *)
(* application gets its descriptors and is started by the kernel.          *)
StartTask ==
  /\ am' = [am EXCEPT !.state = IF am.pipe THEN "pipe" ELSE "init", !.piped = FALSE,
                      !.pipeFd = IF am.pipe THEN am.new ELSE @]
  /\ apps' = [apps EXCEPT ![am.new] =
       [NoApp EXCEPT !.pc = "idle", !.run = TRUE, !.line = am.line, !.last = ~am.pipe,
                     !.stdin = IF am.piped THEN am.pipeFd ELSE Terminal,
                     !.stdout = IF am.pipe THEN am.new ELSE IF am.redirect THEN File ELSE Terminal]]
  /\ LET box == Post(Rest(AM), am.target, Msg("executeFile", AM, am.new))
     IN  msgs' = IF am.pipe THEN Post(box, am.target, Msg("ready", AM, 0)) ELSE box
  /\ UNCHANGED cut

(* The answers of the file system server: ExecFileState, CreateTaskState,  *)
(* RedirectState and OpenState::ReceiveMessage, with AllocateFDState.      *)
FsAnswered(m) ==
  \/ m.type = "error" /\ FsError
  \/ m.type = "executeFile" /\ am.state = "exec" /\ CreateTask
  \/ m.type = "ready" /\ am.state = "create" /\ ~am.redirect /\ StartTask
  \/ /\ m.type = "ready" /\ am.state = "create" /\ am.redirect
     /\ am' = [am EXCEPT !.state = "redirect"]
     /\ msgs' = Post(Rest(AM), FS, Msg("open", AM, 0))
     /\ UNCHANGED <<apps, cut>>
  \/ m.type = "open" /\ am.state = "redirect" /\ StartTask
  \/ /\ m.type = "open" /\ am.state = "open"
     /\ am' = [am EXCEPT !.state = "init"]
     /\ msgs' = Post(Rest(AM), am.target, Msg("open", AM, 3))
     /\ apps' = [apps EXCEPT ![am.target].opened = TRUE]
     /\ UNCHANGED cut

(* An answer of another type than the one awaited is an error the          *)
(* application is not told of; waiting_ stays set.                         *)
WrongAnswer ==
  /\ msgs' = Post(Rest(AM), T, Error(AM, FALSE))
  /\ am' = [am EXCEPT !.state = "init"]

(* TerminalFileDescriptor::Read after its receive: the answer is passed on *)
(* and followed by an empty one.                                           *)
ReadAnswered(m) ==
  /\ \/ /\ m.type = "read"
        /\ msgs' = Post(Post(Rest(AM), am.id, Msg("read", AM, m.n)), am.id, Msg("read", AM, 0))
        /\ am' = [am EXCEPT !.state = "init", !.id = 0]
     \/ m.type # "read" /\ WrongAnswer
  /\ UNCHANGED <<apps, cut>>

(* FatFileDescriptor::Read after its receive: what the file system server  *)
(* sends is passed on up to the empty message.                             *)
FileAnswered(m) ==
  /\ msgs' = Post(Rest(AM), am.id, Msg("read", AM, m.n))
  /\ am' = IF m.n = 0 THEN [am EXCEPT !.state = "init", !.id = 0] ELSE am
  /\ UNCHANGED <<apps, cut>>

(* kWrite, whatever the descriptor leads to.                               *)
IsWrite(m) == m.type \in {"write", "writeFile"}

(* A message of FatFileDescriptor::Write for the file system server, which *)
(* does not answer it.                                                     *)
PassOn(m) ==
  msgs' = Post(Post(Rest(AM), FS, Msg("write", AM, m.n)), m.src, Msg("received", AM, 0))

(* The loop of FatFileDescriptor::Write: every kWrite of the application   *)
(* belongs to the file until an empty one; the rest is dropped.            *)
FileWritten(m) ==
  /\ IF IsWrite(m)
     THEN PassOn(m) /\ am' = IF m.n = 0 THEN [am EXCEPT !.state = "init", !.id = 0] ELSE am
     ELSE msgs' = Rest(AM) /\ UNCHANGED am
  /\ UNCHANGED <<apps, cut>>

(* WaitingKeyState::ReceiveMessage, and HandleMessage and SendMessage with *)
(* waiting_ set.                                                           *)
KeyAnswered(m) ==
  /\ \/ /\ m.type = "key"
        /\ msgs' = Post(Rest(AM), am.waitingId, Msg("key", AM, 1))
        /\ am' = [am EXCEPT !.state = "init", !.waiting = FALSE]
     \/ m.type # "key" /\ WrongAnswer
  /\ UNCHANGED <<apps, cut>>

(* PipeFileDescriptor::Close for the two ends an application may have.     *)
CloseFiles(i, box) ==
  LET in  == IF apps[i].stdin > 0 THEN Post(box, apps[i].stdin, Error(AM, FALSE)) ELSE box
  IN  IF apps[i].stdout > 0 THEN Post(in, apps[i].stdout, Error(AM, FALSE)) ELSE in

(* ExitState with ExitApp.                                                 *)
ExitApp(i) ==
  LET box == IF apps[i].run THEN CloseFiles(i, Rest(AM)) ELSE Rest(AM)
  IN  /\ msgs' = Post(Post(box, T, Msg("exitApp", AM, i)), i, Msg("received", AM, 0))
      /\ apps' = [apps EXCEPT ![i].run = FALSE]
      /\ am' = [am EXCEPT !.target = T]
      /\ UNCHANGED cut

(* WaitingKeyState::HandleMessage and SendMessage.                         *)
WaitingKey(i) ==
  /\ IF am.waiting
     THEN /\ msgs' = Post(Rest(AM), am.waitingId, Msg("waitingKey", AM, 0))
          /\ am' = [am EXCEPT !.waiting = FALSE]
     ELSE /\ msgs' = Post(Post(Rest(AM), i, Msg("received", AM, 0)), T, Msg("waitingKey", AM, 0))
          /\ am' = [am EXCEPT !.state = "key", !.waiting = TRUE, !.waitingId = i, !.target = T]
  /\ UNCHANGED <<apps, cut>>

(* OpenState::HandleMessage and SendMessage; "@stdin" is open already.     *)
OpenFile(i) ==
  /\ \/ /\ msgs' = Post(Rest(AM), FS, Msg("open", AM, 0))
        /\ am' = [am EXCEPT !.target = i, !.state = "open"]
     \/ /\ msgs' = Post(Rest(AM), i, Msg("open", AM, 0))
        /\ am' = [am EXCEPT !.target = i]
  /\ UNCHANGED <<apps, cut>>

(* InitState::ReceiveMessage with the states it leads to.  The terminal is *)
(* not an application: GetAppInfo finds nothing for it.                    *)
InitReceives(m) ==
  \/ m.type = "executeFile" /\ ExecFile(m, am.piped)
  \/ m.src \in App /\ m.type = "exitApp" /\ ExitApp(m.src)
  \/ m.src \in App /\ m.type = "waitingKey" /\ WaitingKey(m.src)
  \/ /\ m.src \in App /\ m.type = "write"
     /\ msgs' = Post(Post(Rest(AM), T, Msg("write", AM, m.n)), m.src, Msg("received", AM, 0))
     /\ am' = [am EXCEPT !.target = m.src] /\ UNCHANGED <<apps, cut>>
  \/ /\ m.src \in App /\ m.type = "read"
     /\ msgs' = Post(Rest(AM), T, Msg("read", AM, 0))
     /\ am' = [am EXCEPT !.target = m.src, !.state = "read", !.id = m.src]
     /\ UNCHANGED <<apps, cut>>
  \/ /\ m.src \in App /\ m.type = "writeFile" /\ PassOn(m)
     /\ am' = [am EXCEPT !.target = m.src, !.state = m.type, !.id = m.src]
     /\ UNCHANGED <<apps, cut>>
  \/ /\ m.src \in App /\ m.type = "readFile"
     /\ msgs' = Post(Rest(AM), FS, Msg("read", AM, 0))
     /\ am' = [am EXCEPT !.target = m.src, !.state = m.type, !.id = m.src]
     /\ UNCHANGED <<apps, cut>>
  \/ m.src \in App /\ m.type = "open" /\ OpenFile(m.src)
  \/ m.src = T /\ m.type # "executeFile" /\ Crash

AmStep ==
  /\ Up /\ msgs[AM] # <<>>
  /\ LET m == Head(msgs[AM])
     IN  \/ am.state = "init" /\ InitReceives(m)
         \/ am.state # "init" /\ m.src # Awaited
            /\ msgs' = Post(Rest(AM), m.src, Error(AM, TRUE)) /\ UNCHANGED <<am, apps, cut>>
         \/ am.state # "init" /\ m.src = FS /\ Awaited = FS /\ FsAnswered(m)
         \/ am.state = "readFile" /\ m.src = FS /\ FileAnswered(m)
         \/ am.state = "writeFile" /\ m.src = am.id /\ FileWritten(m)
         \/ am.state = "read" /\ m.src = T /\ ReadAnswered(m)
         \/ am.state = "key" /\ m.src = T /\ KeyAnswered(m)
         \/ am.state = "redirectName" /\ m.src = am.target /\ RedirectName
         \/ am.state = "pipe" /\ m.src = am.target /\ PipeContinues(m)
  /\ dropped' = \/ dropped
                \/ am.state = "writeFile" /\ Head(msgs[AM]).src = am.id /\ ~IsWrite(Head(msgs[AM]))
  /\ UNCHANGED <<term, calls, late, aborted>>

(* The file system server serves one request of the server after the other *)
(* (module FileSystem): it finds the program or the file, or does not,     *)
(* loads what it has found, sends what is read up to an empty message, and *)
(* does not answer a write.  Loading has no answer but kReady: the kernel  *)
(* always grants the buffer and the result of the copies is not looked at. *)
(* With MaxApps applications it finds no more.                             *)
FsStep ==
  /\ Up /\ msgs[FS] # <<>>
  /\ LET m == Head(msgs[FS])
         search == m.type \in {"executeFile", "open"} /\ m.n = 0
     IN  \/ /\ search /\ (m.type = "executeFile" => am.new < MaxApps)
            /\ msgs' = Post(Rest(FS), AM, Msg(m.type, FS, 0))
         \/ search /\ msgs' = Post(Rest(FS), AM, Error(FS, FALSE))
         \/ m.type = "executeFile" /\ ~search /\ msgs' = Post(Rest(FS), AM, Msg("ready", FS, 0))
         \/ m.type = "write" /\ msgs' = Rest(FS)
         \/ /\ m.type = "read"
            /\ \E data \in {<<>>, <<Msg("read", FS, 1)>>} :
                 msgs' = [Rest(FS) EXCEPT ![AM] = @ \o data \o <<Msg("read", FS, 0)>>]
  /\ UNCHANGED <<term, am, apps, calls, cut, late, aborted, dropped>>

-----------------------------------------------------------------------------
(* The applications.  pc: "idle" (in the program), "open", "read", "write" *)
(* and "writeEnd" (in the calls), "keyAsked" and "key" (WaitKey of more),  *)
(* "exit" (TaskApp after kExitApp), "done".                                *)

Request(i, m, label, box) ==
  /\ msgs' = Post(box, AM, m)
  /\ apps' = [apps EXCEPT ![i].pc = label, ![i].sm = m]

(* A call; what is written may be empty.                                   *)
Call(i, type, n, label) ==
  /\ Up /\ apps[i].pc = "idle" /\ calls > 0
  /\ type = "read" => apps[i].stdin = Terminal
  /\ type = "writeFile" => apps[i].stdout = File \/ apps[i].opened
  /\ type = "readFile" => apps[i].opened
  /\ Request(i, Msg(type, i, n), label, msgs)
  /\ calls' = calls - 1
  /\ UNCHANGED <<term, am, cut, late, aborted, dropped>>

(* The end of the program, by exit() or by a fault.                        *)
Ends(i, box) == Request(i, Msg("exitApp", i, 1), "exit", box)

Exit(i) ==
  /\ Up /\ apps[i].pc = "idle"
  /\ Ends(i, msgs)
  /\ UNCHANGED <<term, am, calls, cut, late, aborted, dropped>>

(* WaitKey of more, which asks for a key and then takes any message until  *)
(* it has one.                                                             *)
WaitKey(i) == Call(i, "waitingKey", 1, "keyAsked")

Goto(i, label) == msgs' = Rest(i) /\ apps' = [apps EXCEPT ![i].pc = label]

(* The call returns, and its variables are gone.                           *)
Return(i) == msgs' = Rest(i) /\ apps' = [apps EXCEPT ![i].pc = "idle", ![i].sm = NoApp.sm]

(* A receive of the application i.  A buffer that is not in its memory     *)
(* ends it inside the call, before the next part of what is written is     *)
(* sent or when what was read is copied.                                   *)
AppStep(i) ==
  /\ Up /\ apps[i].pc \notin {"none", "idle", "done"} /\ msgs[i] # <<>>
  /\ LET m == Head(msgs[i])
         pc == apps[i].pc
         Takes(label, type) == pc = label /\ m.type = type
     IN  \/ m.type = "error" /\ m.n = 1 /\ pc # "key" /\ Request(i, apps[i].sm, pc, Rest(i))
         \/ m.type = "error" /\ m.n = 0 /\ pc \in {"open", "read", "write", "writeEnd"} /\ Return(i)
         \/ /\ m.type = "error" /\ m.n = 0 /\ pc = "keyAsked"
            /\ Ends(i, Rest(i))
         \/ Takes("open", "open") /\ Return(i)
         \/ Takes("read", "read") /\ IF m.n = 0 THEN Return(i) ELSE Goto(i, "read")
         \/ Takes("read", "read") /\ m.n # 0 /\ Ends(i, Rest(i))
         \/ Takes("write", "received") /\ Request(i, [apps[i].sm EXCEPT !.n = 0], "writeEnd", Rest(i))
         \/ Takes("write", "received") /\ Ends(i, Rest(i))
         \/ Takes("writeEnd", "received") /\ Return(i)
         \/ Takes("keyAsked", "received") /\ Goto(i, "key")
         \/ Takes("key", "key") /\ Return(i)
         \/ /\ Takes("exit", "received")
            /\ msgs' = [msgs EXCEPT ![i] = <<>>] /\ apps' = [apps EXCEPT ![i].pc = "done", ![i].sm = NoApp.sm]
         \/ /\ \/ m.type \in {"open", "read", "waitingKey", "key"} /\ pc # m.type
               \/ m.type = "received" /\ pc \in {"open", "read", "key"}
               \/ m.type = "error" /\ m.n = 0 /\ pc \in {"exit", "key"}
            /\ Goto(i, pc)
  /\ UNCHANGED <<term, am, calls, cut, late, aborted, dropped>>

Program(i) ==
  \/ Call(i, "open", 1, "open") \/ WaitKey(i)
  \/ \E type \in {"read", "readFile"} : Call(i, type, 1, "read")
  \/ \E type \in {"write", "writeFile"} : Call(i, type, 1, "write") \/ Call(i, type, 0, "writeEnd")
  \/ Exit(i)

Next ==
  \/ \E kind \in {"one", "pipe", "redirect", "tooLong", "redirectTooLong"} : EnterLine(kind)
  \/ KeyPush \/ TerminalStep \/ AmStep \/ FsStep
  \/ \E i \in App : Program(i) \/ AppStep(i)

Spec == Init /\ [][Next]_vars

(* Every task runs again and again (NoStarvation of module Kernel), the    *)
(* programs go on until they exit, and somebody presses keys; nobody has   *)
(* to type a line.                                                         *)
Fairness ==
  /\ WF_vars(TerminalStep) /\ WF_vars(AmStep) /\ WF_vars(FsStep) /\ WF_vars(KeyPush)
  /\ \A i \in App : WF_vars(Program(i)) /\ WF_vars(AppStep(i))

FairSpec == Spec /\ Fairness

-----------------------------------------------------------------------------
(* As long as every line has been typed after the programs of the lines    *)
(* before it had ended, and none has been given up half way, no message    *)
(* reaches the server in a state that has no answer to it: no second       *)
(* message of the terminal arrives in InitState, which returns no value    *)
(* for a type it does not know and looks the sender up among the           *)
(* applications for the others.                                            *)
ServerSurvives == ~late /\ ~aborted => Up

(* A pipe is read by the program started next after its writer, for the    *)
(* same line, and by no other.  It falls to a program of another line only *)
(* when the one that was to read it could not be loaded: the error states  *)
(* do not reset piped_.                                                    *)
PipeGoesToReader ==
  \A i, j \in App : apps[i].stdin = j =>
     /\ \/ i = j + 1 /\ apps[i].line = apps[j].line
        \/ i > j /\ j \in cut
     /\ \A k \in App : apps[k].stdin = j => k = i

(* The terminal shows its prompt again only when the last program of the   *)
(* line has ended: the kExitApp that ends ExecuteFile is that of           *)
(* waiting_id and never that of another program or of an earlier line.     *)
PromptMeansDone ==
  term.pc = "prompt" /\ ~aborted => \A i \in App : apps[i].last => ~apps[i].run

=============================================================================
