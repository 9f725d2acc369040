-------------------------------- MODULE Pipe --------------------------------
(***************************************************************************)
(* "writer | reader" at the terminal: two applications that talk through   *)
(* a PipeFileDescriptor of the application management server               *)
(* (servers/am/filedescriptor.cpp, servers/am/serverstate.cpp), with       *)
(* write() and read() of libs/kinos/common/newlib_support.c and the end of *)
(* an application in TaskApp (kernel/system.cpp).                          *)
(*                                                                         *)
(* A task's mailbox is a queue; a step is one receive with the handling of *)
(* the message, up to the next receive (module Kernel shows that sleeping  *)
(* and waking lose nothing).  While the server waits for another server it *)
(* is in ClosedReceiveMessage and every message of the two applications is *)
(* answered with kError and retry.                                         *)
(***************************************************************************)
EXTENDS Integers, Sequences, FiniteSets

CONSTANTS
  Slot,       \* bytes in a message and in the pipe, 16 in the code
  Counts,     \* the counts write() and read() are called with
  MaxBytes,   \* bound of the model: bytes the writer writes
  MaxBusy,    \* bound of the model: requests of others that keep the server busy
  MaxZero     \* bound of the model: calls with the count 0

ASSUME PipeAssumption ==
  Slot \in Nat \ {0} /\ Counts \subseteq Nat /\ {MaxBytes, MaxBusy, MaxZero} \subseteq Nat

W == "writer"
R == "reader"
AM == "am"
App == {W, R}

VARIABLES
  msgs,     \* the mailboxes
  pc,       \* where each application is
  sm,       \* smsg: the message an application sends again on kError with retry
  left,     \* bytes of the write() under way that are not sent yet
  sent,     \* bytes the writer has taken from its buffers; byte i is the number i
  got,      \* bytes of the answers the reader has taken
  readBytes,\* read_bytes of the read() under way
  am,       \* what the server waits for
  slot,     \* data_ and len_ of the pipe
  closed,   \* closed_ of the pipe
  running,  \* apps_ whose state is AppState::Run
  busy,     \* requests of others still to come
  zeros,    \* calls with the count 0 still to come
  done,     \* history: bytes of the writes that returned success
  eof,      \* history: a read() with a count that is not 0 has returned 0
  stray     \* history: a read() with the count 0 was answered twice

vars == <<msgs, pc, sm, left, sent, got, readBytes, am, slot, closed, running, busy, zeros,
          done, eof, stray>>
appVars == <<pc, sm, left, sent, got, readBytes, zeros, done, eof>>
amVars == <<am, slot, closed, running, busy, stray>>

(* am: in "init" the server takes any message (OpenReceiveMessage), else   *)
(* only those of the terminal ("pipe": PipeState) or of the file system    *)
(* server, while the second program is loaded ("start") or another client  *)
(* is served ("other").                                                    *)

(* pc: "none" (not started), "idle" (in the program, outside of calls),    *)
(* "write" and "writeEnd" (in write(), after a chunk and after the empty   *)
(* message), "read" (in read()), "exit" (in TaskApp after kExitApp),       *)
(* "done" (finished).                                                      *)

Msg(type, src, data, count, retry) ==
  [type |-> type, src |-> src, data |-> data, count |-> count, retry |-> retry]
NoMsg == Msg("none", AM, <<>>, 0, FALSE)

Bytes(from, n) == [i \in 1..n |-> from + i]

-----------------------------------------------------------------------------
(* The writer is started; the server is in PipeState until the terminal    *)
(* sends the second command.                                               *)
Init ==
  /\ msgs = [p \in App \cup {AM} |-> <<>>]
  /\ pc = [p \in App |-> IF p = W THEN "idle" ELSE "none"]
  /\ sm = [p \in App |-> NoMsg]
  /\ left = 0 /\ sent = 0 /\ got = <<>> /\ readBytes = 0
  /\ am = "pipe"
  /\ slot = <<>> /\ closed = FALSE
  /\ running = {W}
  /\ busy = MaxBusy /\ zeros = MaxZero
  /\ done = 0 /\ eof = FALSE /\ stray = FALSE

(* The application p sends m to the server and waits at label.             *)
Request(p, m, label, rest) ==
  /\ msgs' = [rest EXCEPT ![AM] = Append(@, m)]
  /\ sm' = [sm EXCEPT ![p] = m]
  /\ pc' = [pc EXCEPT ![p] = label]

(* The next chunk of write(), or the empty message after the last one.     *)
NextChunk(n, rest) ==
  LET len == IF n > Slot THEN Slot ELSE n
  IN  /\ Request(W, Msg("write", W, Bytes(sent, len), n, FALSE),
                 IF n = 0 THEN "writeEnd" ELSE "write", rest)
      /\ sent' = sent + len
      /\ left' = n - len

CountZero(n) == (n = 0 => zeros > 0) /\ zeros' = IF n = 0 THEN zeros - 1 ELSE zeros

WriteCall(n) ==
  /\ pc[W] = "idle"
  /\ sent + n <= MaxBytes /\ CountZero(n)
  /\ NextChunk(n, msgs)
  /\ UNCHANGED <<got, readBytes, done, eof, amVars>>

ReadCall(n) ==
  /\ pc[R] = "idle" /\ CountZero(n)
  /\ Request(R, Msg("read", R, <<>>, n, FALSE), "read", msgs)
  /\ readBytes' = 0
  /\ UNCHANGED <<left, sent, got, done, eof, amVars>>

(* TaskApp after the program: exit(), or the end by a fault.               *)
EndTask(p, rest) == Request(p, Msg("exitApp", p, <<>>, 0, FALSE), "exit", rest)

Exit(p) ==
  /\ pc[p] = "idle"
  /\ EndTask(p, msgs)
  /\ UNCHANGED <<left, sent, got, readBytes, zeros, done, eof, amVars>>

(* ClosedReceiveMessage of an application; only the server writes to it.   *)
Received(p, type) == msgs[p] # <<>> /\ Head(msgs[p]).type = type
Rest(p) == [msgs EXCEPT ![p] = Tail(@)]

(* kError with retry: the same message once more.                          *)
Retry(p) ==
  /\ pc[p] \in {"write", "writeEnd", "read", "exit"}
  /\ Received(p, "error") /\ Head(msgs[p]).retry
  /\ Request(p, sm[p], pc[p], Rest(p))
  /\ UNCHANGED <<left, sent, got, readBytes, zeros, done, eof, amVars>>

(* kError without retry: the call returns -1; TaskApp ignores it.          *)
Failure(p) ==
  /\ pc[p] \in {"write", "writeEnd", "read", "exit"}
  /\ Received(p, "error") /\ ~ Head(msgs[p]).retry
  /\ msgs' = Rest(p)
  /\ pc' = [pc EXCEPT ![p] = IF @ = "exit" THEN "exit" ELSE "idle"]
  /\ UNCHANGED <<sm, left, sent, got, readBytes, zeros, done, eof, amVars>>

WriteReceived ==
  /\ pc[W] \in {"write", "writeEnd"} /\ Received(W, "received")
  /\ \/ pc[W] = "write" /\ NextChunk(left, Rest(W)) /\ UNCHANGED done
     \/ /\ pc[W] = "writeEnd"
        /\ msgs' = Rest(W)
        /\ pc' = [pc EXCEPT ![W] = "idle"]
        /\ done' = sent
        /\ UNCHANGED <<sm, left, sent>>
  /\ UNCHANGED <<got, readBytes, zeros, eof, amVars>>

(* kRead: copy the bytes; the empty message ends read(), also one that an  *)
(* earlier call has left in the mailbox.                                   *)
ReadReceived ==
  LET m == Head(msgs[R])
  IN  /\ pc[R] = "read" /\ Received(R, "read")
      /\ msgs' = Rest(R)
      /\ got' = got \o m.data
      /\ readBytes' = readBytes + Len(m.data)
      /\ pc' = IF m.data = <<>> THEN [pc EXCEPT ![R] = "idle"] ELSE pc
      /\ eof' = (eof \/ (m.data = <<>> /\ readBytes = 0 /\ sm[R].count > 0))
      /\ UNCHANGED <<sm, left, sent, zeros, done, amVars>>

(* A fault on the buffer kills the program in a call: when write() takes   *)
(* the next chunk from it, and when read() copies an answer into it.       *)
Killed(p) ==
  /\ \/ /\ p = W /\ pc[W] = "write" /\ Received(W, "received") /\ left > 0
        /\ UNCHANGED got
     \/ /\ p = R /\ pc[R] = "read" /\ Received(R, "read") /\ Head(msgs[R]).data # <<>>
        /\ got' = got \o Head(msgs[R]).data
  /\ EndTask(p, Rest(p))
  /\ UNCHANGED <<left, sent, readBytes, zeros, done, eof, amVars>>

(* TaskApp ignores what a call has left in the mailbox.                    *)
Ignored(p) ==
  /\ pc[p] = "exit" /\ Received(p, "read")
  /\ msgs' = Rest(p)
  /\ got' = got \o Head(msgs[p]).data
  /\ UNCHANGED <<pc, sm, left, sent, readBytes, zeros, done, eof, amVars>>

ExitReceived(p) ==
  /\ pc[p] = "exit" /\ Received(p, "received")
  /\ msgs' = Rest(p)
  /\ pc' = [pc EXCEPT ![p] = "done"]
  /\ UNCHANGED <<sm, left, sent, got, readBytes, zeros, done, eof, amVars>>
-----------------------------------------------------------------------------
(* The server.  Post(box, dst, ms) is box with the messages ms sent to dst. *)
Post(box, dst, ms) == [box EXCEPT ![dst] = @ \o ms]

Error(retry) == Msg("error", AM, <<>>, 0, retry)
Data(bytes) == Msg("read", AM, bytes, 0, FALSE)
EndOfData == Data(<<>>)
Ack == Msg("received", AM, <<>>, 0, FALSE)

(* Mutant of PipeRead: what does not fit the reader's buffer is dropped.   *)
PipeReadTruncating(m, box) ==
  CASE closed      -> msgs' = Post(box, m.src, <<EndOfData>>) /\ UNCHANGED slot
    [] slot = <<>> -> msgs' = Post(box, m.src, <<Error(TRUE)>>) /\ UNCHANGED slot
    [] OTHER ->
         /\ msgs' = Post(Post(box, m.src,
              <<Data(SubSeq(slot, 1, IF Len(slot) <= m.count THEN Len(slot) ELSE m.count)),
                EndOfData>>), W, <<Ack>>)
         /\ slot' = <<>>

(* Mutant of PipeRead: an empty pipe is reported as its end.               *)
PipeReadEmptyIsEnd(m, box) ==
  CASE closed \/ slot = <<>> -> msgs' = Post(box, m.src, <<EndOfData>>) /\ UNCHANGED slot
    [] OTHER ->
         /\ msgs' = Post(Post(box, m.src, <<Data(slot), EndOfData>>), W, <<Ack>>)
         /\ slot' = <<>>

(* PipeFileDescriptor::Read.  The writer is told once the slot is empty.   *)
(* For the count 0 both answers are empty, and the second one stays in the *)
(* mailbox of the reader.                                                  *)
PipeRead(m, box) ==
  \/ /\ closed
     /\ msgs' = Post(box, m.src, <<EndOfData>>)
     /\ UNCHANGED slot
  \/ /\ ~ closed /\ slot = <<>>
     /\ msgs' = Post(box, m.src, <<Error(TRUE)>>)
     /\ UNCHANGED slot
  \/ /\ ~ closed /\ Len(slot) \in 1..m.count
     /\ msgs' = Post(Post(box, m.src, <<Data(slot), EndOfData>>), W, <<Ack>>)
     /\ slot' = <<>>
  \/ /\ ~ closed /\ Len(slot) > m.count
     /\ msgs' = Post(box, m.src, <<Data(SubSeq(slot, 1, m.count)), EndOfData>>)
     /\ slot' = SubSeq(slot, m.count + 1, Len(slot))

(* Mutant of PipeWrite: a chunk is acknowledged when it is stored.         *)
PipeWriteEarlyAck(m, box) ==
  CASE closed        -> msgs' = Post(box, W, <<Error(FALSE)>>) /\ UNCHANGED slot
    [] ~ closed /\ slot # <<>> -> msgs' = Post(box, W, <<Error(TRUE)>>) /\ UNCHANGED slot
    [] OTHER -> msgs' = Post(box, W, <<Ack>>) /\ slot' = m.data

(* PipeFileDescriptor::Write.  A chunk is not answered before it has been  *)
(* read; the empty message is answered at once.  The writer is to try      *)
(* again when the pipe is full, not when it is closed.                     *)
PipeWrite(m, box) ==
  \/ /\ closed \/ slot # <<>>
     /\ msgs' = Post(box, W, <<Error(~ closed)>>)
     /\ UNCHANGED slot
  \/ /\ ~ closed /\ slot = <<>> /\ m.data = <<>>
     /\ msgs' = Post(box, W, <<Ack>>)
     /\ UNCHANGED slot
  \/ /\ ~ closed /\ slot = <<>> /\ m.data # <<>>
     /\ msgs' = box
     /\ slot' = m.data

(* Mutant of Close: the writer is not told.                                *)
CloseSilently(box) == box

(* PipeFileDescriptor::Close, called for each application that has it.     *)
Close(box) == Post(box, W, <<Error(FALSE)>>)

(* InitState with ReadState, WriteState or ExitState.                      *)
ServeRead ==
  /\ am = "init" /\ Received(AM, "read")
  /\ PipeRead(Head(msgs[AM]), Rest(AM))
  /\ stray' = (stray \/ (~ closed /\ slot # <<>> /\ Head(msgs[AM]).count = 0))
  /\ UNCHANGED <<appVars, am, closed, running, busy>>

ServeWrite ==
  /\ am = "init" /\ Received(AM, "write")
  /\ PipeWrite(Head(msgs[AM]), Rest(AM))
  /\ UNCHANGED <<appVars, am, closed, running, busy, stray>>

ServeExit ==
  LET p == Head(msgs[AM]).src
  IN  /\ am = "init" /\ Received(AM, "exitApp")
      /\ msgs' = Post(IF p \in running THEN Close(Rest(AM)) ELSE Rest(AM), p, <<Ack>>)
      /\ closed' = (closed \/ p \in running)
      /\ running' = running \ {p}
      /\ UNCHANGED <<appVars, am, slot, busy, stray>>

(* ClosedReceiveMessage: a message of anybody else is bounced.             *)
Bounce ==
  /\ am # "init" /\ msgs[AM] # <<>>
  /\ msgs' = Post(Rest(AM), Head(msgs[AM]).src, <<Error(TRUE)>>)
  /\ UNCHANGED <<appVars, amVars>>

(* The terminal's second command arrives (ExecFileState).                  *)
SecondCommand ==
  /\ am = "pipe"
  /\ am' = "start"
  /\ UNCHANGED <<msgs, appVars, slot, closed, running, busy, stray>>

(* StartTaskState: the new application gets the pipe as its input.  When   *)
(* it cannot be started, piped_ stays set for the next command.            *)
StartReader ==
  /\ am = "start"
  /\ am' = "init"
  /\ \/ /\ pc' = [pc EXCEPT ![R] = "idle"]
        /\ running' = running \cup {R}
     \/ UNCHANGED <<pc, running>>
  /\ UNCHANGED <<msgs, sm, left, sent, got, readBytes, zeros, done, eof, slot, closed, busy, stray>>

(* Another command of the terminal after such a failure.                   *)
NextCommand ==
  /\ am = "init" /\ pc[R] = "none" /\ busy > 0
  /\ am' = "start"
  /\ busy' = busy - 1
  /\ UNCHANGED <<msgs, appVars, slot, closed, running, stray>>

(* A request of another client that needs the file system server.          *)
OtherRequest ==
  /\ am = "init" /\ busy > 0
  /\ am' = "other"
  /\ busy' = busy - 1
  /\ UNCHANGED <<msgs, appVars, slot, closed, running, stray>>

OtherDone ==
  /\ am = "other"
  /\ am' = "init"
  /\ UNCHANGED <<msgs, appVars, slot, closed, running, busy, stray>>

-----------------------------------------------------------------------------
Program(p) ==
  \/ p = W /\ \E n \in Counts : WriteCall(n)
  \/ p = R /\ \E n \in Counts : ReadCall(n)
  \/ Exit(p)

Answered(p) ==
  \/ Retry(p) \/ Failure(p) \/ Killed(p) \/ Ignored(p) \/ ExitReceived(p)
  \/ p = W /\ WriteReceived
  \/ p = R /\ ReadReceived

Serve == ServeRead \/ ServeWrite \/ ServeExit \/ Bounce

Next ==
  \/ \E p \in App : Program(p) \/ Answered(p)
  \/ Serve
  \/ SecondCommand \/ StartReader \/ NextCommand \/ OtherRequest \/ OtherDone

Spec == Init /\ [][Next]_vars

(* Every task gets the processor again and again (NoStarvation of module   *)
(* Kernel), other servers answer, and the two programs go on until they    *)
(* exit.  Nothing is asked of the user at the terminal.                    *)
Fairness ==
  /\ \A p \in App : WF_vars(Program(p)) /\ WF_vars(Answered(p))
  /\ WF_vars(Serve) /\ WF_vars(OtherDone) /\ WF_vars(StartReader)

FairSpec == Spec /\ Fairness

-----------------------------------------------------------------------------
(* The messages with bytes in the mailbox of p.                            *)
Pending(p) == {i \in 1..Len(msgs[p]) : msgs[p][i].data # <<>>}

(* The reader gets the writer's bytes in the order in which they were      *)
(* written, each of them once, whatever is bounced and sent again.         *)
BytesInOrder == got = Bytes(0, Len(got))

(* write() returns success only when the reader's side has all the bytes:  *)
(* in its buffers or in its mailbox, none in the pipe.                     *)
WriteMeansRead ==
  done <= Len(got) \/ \E i \in Pending(R) :
                       msgs[R][i].data[Len(msgs[R][i].data)] >= done

(* read() reports the end of the data only after one side has exited, or   *)
(* after a read() with the count 0 has left an empty answer behind.        *)
EndMeansClosed == eof => closed \/ stray

(* A call that is under way returns, or its program dies in it: write()    *)
(* once there is a reader, which then reads or exits; read() once the      *)
(* writer writes or exits; and the task of an application that has ended   *)
(* goes away.                                                              *)
CallsReturn ==
  /\ (pc[W] \in {"write", "writeEnd"} /\ pc[R] # "none") ~> pc[W] \in {"idle", "exit"}
  /\ pc[R] = "read" ~> pc[R] \in {"idle", "exit"}
  /\ \A p \in App : (pc[p] = "exit" /\ am # "pipe") ~> pc[p] = "done"
=============================================================================
