----------------------------- MODULE Pipe_proofs -----------------------------
(***************************************************************************)
(* The safety properties of module Pipe, for every size of the slot, every *)
(* set of counts and every bound.                                          *)
(*                                                                         *)
(* The reader and the server exchange one request and one answer at a time *)
(* until a read() with the count 0 is answered twice; from then on         *)
(* (stray), and once the reader has exited, nothing is said of how its     *)
(* requests and answers match.  The writer and the server do so only until *)
(* the pipe is closed: Close sends kError whether or not the writer waits, *)
(* and from then on an answer may meet a later request.                    *)
(*                                                                         *)
(* What always holds is where the bytes are.  g is the number of bytes     *)
(* that the server has given to the reader: those of got, and those of the *)
(* answers in the reader's mailbox, one run after the other.  While the    *)
(* pipe is open the rest of what was sent is in the writer's request or    *)
(* its bounced copy, or in the slot.  Closed or not, a kReceived that the  *)
(* writer finds in write() means that everything sent has been given.      *)
(***************************************************************************)
EXTENDS Pipe, SequenceTheorems, TLAPS

(* The messages of the two applications, and those of the server.          *)
Asking(p, types) ==
  [type : types, src : {p}, data : Seq(Nat), count : Nat, retry : {FALSE}]
Requests == Asking(W, {"write", "exitApp"}) \cup Asking(R, {"read", "exitApp"})
Answers ==
  [type : {"error", "read", "received"}, src : {AM}, data : Seq(Nat), count : {0},
   retry : BOOLEAN]

(* No message of p in q; and one, which is m.                              *)
Absent(q, p) == \A i \in 1..Len(q) : q[i].src # p
Once(q, p, m) ==
  \E i \in 1..Len(q) : q[i] = m /\ \A j \in 1..Len(q) : q[j].src = p => j = i

(* The writer's messages in q are all of write().                          *)
WritesOnly(q) == \A i \in 1..Len(q) : q[i].src = W => q[i].type = "write"

(* The request of p waits at the server; the server has answered with ms.  *)
Asked(p) == Once(msgs[AM], p, sm[p]) /\ msgs[p] = <<>>
Replied(p, ms) == Absent(msgs[AM], p) /\ msgs[p] = ms

(* The answer m has the bytes after a and up to b; only kRead has bytes.   *)
Piece(m, a, b) ==
  /\ b = a + Len(m.data) /\ m.data = Bytes(a, Len(m.data))
  /\ m.type # "read" => m.data = <<>>

(* The answers of q have the bytes after a and up to b, one after the      *)
(* other, and the last of these bytes is at the end of an answer.          *)
Runs(q, a, b) ==
  \E f \in [1..(Len(q) + 1) -> Nat] :
     f[1] = a /\ f[Len(q) + 1] = b /\ \A i \in 1..Len(q) : Piece(q[i], f[i], f[i + 1])
Reach(q, a, b) ==
  b <= a \/ \E i \in 1..Len(q) : q[i].data # <<>> /\ q[i].data[Len(q[i].data)] >= b
Given(q, a, b) == Runs(q, a, b) /\ Reach(q, a, b)

(* The reader's side has the first g bytes; those on their way to it.      *)
MailOK(g) == got = Bytes(0, Len(got)) /\ Given(msgs[R], Len(got), g)
OnTheWay(g, data) == sent = g + Len(data) /\ data = Bytes(g, Len(data))

Types ==
  /\ msgs \in [{W, R, AM} -> Seq(Requests \cup Answers)]
  /\ msgs[AM] \in Seq(Requests)
  /\ msgs[W] \in Seq({Ack, Error(TRUE), Error(FALSE)})
  /\ msgs[R] \in Seq(Answers)
  /\ pc \in [{W, R} -> {"none", "idle", "write", "writeEnd", "read", "exit", "done"}]
  /\ pc[W] \notin {"none", "read"} /\ pc[R] \notin {"write", "writeEnd"}
  /\ sm \in [{W, R} -> Requests \cup {NoMsg}]
  /\ left \in Nat /\ sent \in Nat /\ readBytes \in Nat /\ done \in Nat
  /\ got \in Seq(Nat) /\ slot \in Seq(Nat)
  /\ am \in {"pipe", "start", "init", "other"}
  /\ closed \in BOOLEAN /\ eof \in BOOLEAN /\ stray \in BOOLEAN /\ running \in SUBSET {W, R}

(* Until the pipe is closed nobody has exited; nobody reads before the     *)
(* second application is started.                                          *)
ServerOK ==
  /\ am \in {"pipe", "start"} => pc[R] = "none"
  /\ ~ closed => W \in running /\ (pc[R] # "none" => R \in running)
  /\ EndMeansClosed

(* The message that a retry sends belongs to the call under way.           *)
RetryOK ==
  /\ pc[W] \in {"write", "writeEnd"} => sm[W] \in Asking(W, {"write"})
  /\ pc[W] = "exit" => sm[W] \in Asking(W, {"exitApp"})
  /\ pc[R] = "read" => sm[R] \in Asking(R, {"read"})
  /\ pc[R] = "exit" => sm[R] \in Asking(R, {"exitApp"})

(* The reader, before a stray answer: one request, then one answer.        *)
ReaderOK ==
  /\ pc[R] = "none" => Replied(R, <<>>)
  /\ ~ stray /\ pc[R] = "idle" => Replied(R, <<>>)
  /\ ~ stray /\ pc[R] = "read" =>
       \/ readBytes = 0 /\ Asked(R)
       \/ readBytes = 0 /\ Replied(R, <<Error(TRUE)>>)
       \/ readBytes = 0 /\ \E d \in Seq(Nat) : d # <<>> /\ Replied(R, <<Data(d), EndOfData>>)
       \/ (readBytes > 0 \/ closed) /\ Replied(R, <<EndOfData>>)

(* The writer of an open pipe: one request, then one answer, and every     *)
(* byte is in one place.                                                   *)
Waiting(g, data) == (Asked(W) \/ Replied(W, <<Error(TRUE)>>)) /\ slot = <<>> /\ OnTheWay(g, data)
Drained(g) == slot = <<>> /\ sent = g
WriterOK(g) ==
  ~ closed =>
    /\ pc[W] = "idle" => Replied(W, <<>>) /\ Drained(g)
    /\ pc[W] = "write" =>
         \/ sm[W].data # <<>> /\ Waiting(g, sm[W].data)
         \/ Replied(W, <<>>) /\ slot # <<>> /\ OnTheWay(g, slot)
         \/ Replied(W, <<Ack>>) /\ Drained(g)
    /\ pc[W] = "writeEnd" =>
         /\ Asked(W) \/ Replied(W, <<Error(TRUE)>>) \/ Replied(W, <<Ack>>)
         /\ sm[W].data = <<>> /\ Drained(g)
    /\ pc[W] = "exit" =>
         /\ Asked(W) \/ Replied(W, <<Error(TRUE)>>)
         /\ sm[W].data = <<>> /\ Drained(g)
    /\ pc[W] # "done"

(* Closed or not: what the reader has is what was written, and a kReceived *)
(* that the writer finds in write() means that the reader's side has all.  *)
StreamOK(g) ==
  /\ MailOK(g)
  /\ done <= g
  /\ pc[W] \notin {"exit", "done"} =>
       /\ WritesOnly(msgs[AM])
       /\ \A i \in 1..Len(msgs[W]) : msgs[W][i].type = "received" =>
            i = 1 /\ pc[W] \in {"write", "writeEnd"} /\ sent = g

IInvAt(g) == Types /\ ServerOK /\ RetryOK /\ ReaderOK /\ WriterOK(g) /\ StreamOK(g)
IInv == \E g \in Nat : IInvAt(g)

-----------------------------------------------------------------------------
LEMMA Names == W # R /\ W # AM /\ R # AM /\ App = {W, R} /\ App \cup {AM} = {W, R, AM}
BY DEF W, R, AM, App

(* What Bytes is, and how it is cut and put together.                      *)
LEMMA BytesAre ==
  ASSUME NEW a \in Nat, NEW n \in Nat
  PROVE  /\ Bytes(a, n) \in Seq(Nat) /\ Len(Bytes(a, n)) = n
         /\ \A i \in 1..n : Bytes(a, n)[i] = a + i
BY DEF Bytes

LEMMA BytesConcat ==
  ASSUME NEW a \in Nat, NEW n \in Nat
  PROVE  Bytes(0, a) \o Bytes(a, n) = Bytes(0, a + n)
<1> DEFINE s == Bytes(0, a) t == Bytes(a, n) u == Bytes(0, a + n)
<1>1. s \in Seq(Nat) /\ Len(s) = a /\ \A i \in 1..a : s[i] = i
  <2>1. 0 \in Nat /\ \A i \in 1..a : 0 + i = i
    OBVIOUS
  <2>. QED BY <2>1, BytesAre
<1>2. t \in Seq(Nat) /\ Len(t) = n /\ \A i \in 1..n : t[i] = a + i
  BY BytesAre
<1>3. u \in Seq(Nat) /\ Len(u) = a + n /\ \A i \in 1..(a + n) : u[i] = i
  <2>1. 0 \in Nat /\ a + n \in Nat
    OBVIOUS
  <2>2. \A i \in 1..(a + n) : 0 + i = i
    OBVIOUS
  <2>. QED BY <2>1, <2>2, BytesAre
<1> HIDE DEF s, t, u
<1>4. /\ s \o t \in Seq(Nat) /\ Len(s \o t) = a + n
      /\ \A i \in 1..(a + n) : (s \o t)[i] = IF i <= a THEN s[i] ELSE t[i - a]
  BY ZenonT(60), <1>1, <1>2, ConcatProperties
<1>5. \A i \in 1..(a + n) : (s \o t)[i] = i
  BY <1>1, <1>2, <1>4
<1>6. s \o t = u
  BY <1>3, <1>4, <1>5, SeqEqual
<1>. QED BY <1>6 DEF s, t, u

LEMMA BytesCut ==
  ASSUME NEW a \in Nat, NEW n \in Nat, NEW k \in 0..n
  PROVE  /\ SubSeq(Bytes(a, n), 1, k) = Bytes(a, k)
         /\ SubSeq(Bytes(a, n), k + 1, n) = Bytes(a + k, n - k)
<1> DEFINE s == Bytes(a, n) t == SubSeq(s, 1, k) u == SubSeq(s, k + 1, n)
<1>1. s \in Seq(Nat) /\ Len(s) = n /\ \A i \in 1..n : s[i] = a + i
  BY BytesAre
<1>2. t \in Seq(Nat) /\ Len(t) = k /\ \A i \in 1..k : t[i] = s[i]
  BY <1>1
<1>3. u \in Seq(Nat) /\ Len(u) = n - k /\ \A i \in 1..(n - k) : u[i] = s[k + i]
  BY <1>1
<1>4. t = Bytes(a, k)
  <2>1. Bytes(a, k) \in Seq(Nat) /\ Len(Bytes(a, k)) = k /\ \A i \in 1..k : Bytes(a, k)[i] = a + i
    BY BytesAre
  <2> HIDE DEF t, s
  <2>. QED BY SMTT(60), <1>1, <1>2, <2>1
<1>5. u = Bytes(a + k, n - k)
  <2>1. /\ Bytes(a + k, n - k) \in Seq(Nat) /\ Len(Bytes(a + k, n - k)) = n - k
        /\ \A i \in 1..(n - k) : Bytes(a + k, n - k)[i] = a + k + i
    <3>1. a + k \in Nat /\ n - k \in Nat
      OBVIOUS
    <3>. QED BY <3>1, BytesAre
  <2>2. \A i \in 1..(n - k) : u[i] = a + k + i
    BY <1>1, <1>3
  <2> HIDE DEF u, s
  <2>. QED BY <1>3, <2>1, <2>2
<1>. QED BY <1>4, <1>5

(* The server's queue: a message arrives, a message is taken.              *)
LEMMA QueueAppend ==
  ASSUME NEW q \in Seq(Requests), NEW m \in Requests, NEW p
  PROVE  /\ Append(q, m) \in Seq(Requests)
         /\ m.src = p /\ Absent(q, p) => Once(Append(q, m), p, m)
         /\ m.src # p /\ Absent(q, p) => Absent(Append(q, m), p)
         /\ \A x : m.src # p /\ Once(q, p, x) => Once(Append(q, m), p, x)
         /\ WritesOnly(q) /\ (m.src = W => m.type = "write") => WritesOnly(Append(q, m))
<1> DEFINE r == Append(q, m)
<1>1. r \in Seq(Requests) /\ Len(r) = Len(q) + 1 /\ r[Len(q) + 1] = m /\ Len(q) \in Nat
      /\ \A i \in 1..Len(q) : r[i] = q[i]
  OBVIOUS
<1> HIDE DEF r
<1>2. m.src = p /\ Absent(q, p) => Once(r, p, m)
  BY <1>1 DEF Absent, Once
<1>3. m.src # p /\ Absent(q, p) => Absent(r, p)
  BY <1>1 DEF Absent
<1>4. ASSUME NEW x, m.src # p, Once(q, p, x)
      PROVE  Once(r, p, x)
  <2>1. PICK i \in 1..Len(q) : q[i] = x /\ \A j \in 1..Len(q) : q[j].src = p => j = i
    BY <1>4 DEF Once
  <2>2. i \in 1..Len(r) /\ r[i] = x
    BY <1>1, <2>1
  <2>3. \A j \in 1..Len(r) : r[j].src = p => j = i
    BY <1>1, <1>4, <2>1
  <2>. QED BY <2>2, <2>3 DEF Once
<1>5. WritesOnly(q) /\ (m.src = W => m.type = "write") => WritesOnly(r)
  BY <1>1 DEF WritesOnly
<1>. QED BY <1>1, <1>2, <1>3, <1>4, <1>5 DEF r

LEMMA QueueTail ==
  ASSUME NEW q \in Seq(Requests), q # <<>>, NEW p
  PROVE  /\ Head(q) \in Requests /\ Tail(q) \in Seq(Requests)
         /\ Absent(q, p) => Absent(Tail(q), p) /\ Head(q).src # p
         /\ \A x : Once(q, p, x) /\ Head(q).src = p => Head(q) = x /\ Absent(Tail(q), p)
         /\ \A x : Once(q, p, x) /\ Head(q).src # p /\ x.src = p => Once(Tail(q), p, x)
         /\ WritesOnly(q) => WritesOnly(Tail(q)) /\ (Head(q).src = W => Head(q).type = "write")
<1> DEFINE r == Tail(q)
<1>1. r \in Seq(Requests) /\ Len(r) = Len(q) - 1 /\ Len(q) \in Nat \ {0} /\ Head(q) = q[1]
      /\ q[1] \in Requests /\ \A i \in 1..Len(r) : r[i] = q[i + 1]
  OBVIOUS
<1> HIDE DEF r
<1>2. Absent(q, p) => Absent(r, p) /\ q[1].src # p
  BY <1>1 DEF Absent
<1>3. ASSUME NEW x, Once(q, p, x), q[1].src = p
      PROVE  q[1] = x /\ Absent(r, p)
  <2>1. PICK i \in 1..Len(q) : q[i] = x /\ \A j \in 1..Len(q) : q[j].src = p => j = i
    BY <1>3 DEF Once
  <2>2. i = 1
    BY <1>1, <1>3, <2>1
  <2>3. ASSUME NEW k \in 1..Len(r) PROVE r[k].src # p
    <3>1. k + 1 \in 1..Len(q) /\ k + 1 # 1 /\ r[k] = q[k + 1]
      BY <1>1
    <3>. QED BY <2>1, <2>2, <3>1
  <2>. QED BY <2>1, <2>2, <2>3 DEF Absent
<1>4. ASSUME NEW x, Once(q, p, x), q[1].src # p, x.src = p
      PROVE  Once(r, p, x)
  <2>1. PICK i \in 1..Len(q) : q[i] = x /\ \A j \in 1..Len(q) : q[j].src = p => j = i
    BY <1>4 DEF Once
  <2>2. i - 1 \in 1..Len(r) /\ r[i - 1] = x
    <3>1. i # 1
      BY <1>4, <2>1
    <3>. QED BY <1>1, <2>1, <3>1
  <2>3. ASSUME NEW j \in 1..Len(r), r[j].src = p PROVE j = i - 1
    <3>1. j + 1 \in 1..Len(q) /\ r[j] = q[j + 1]
      BY <1>1
    <3>2. j + 1 = i
      BY <2>1, <2>3, <3>1
    <3>. QED BY <3>2
  <2>. QED BY <2>2, <2>3 DEF Once
<1>5. WritesOnly(q) => WritesOnly(r) /\ (q[1].src = W => q[1].type = "write")
  BY <1>1 DEF WritesOnly
<1>. QED BY <1>1, <1>2, <1>3, <1>4, <1>5 DEF r

(* Answers are taken from the front and added at the end of a mailbox.     *)
LEMMA EmptyPiece ==
  ASSUME NEW x \in Answers, x.data = <<>>, NEW a \in Nat
  PROVE  Piece(x, a, a)
<1>1. Bytes(a, 0) = <<>> /\ Len(<<>>) = 0 /\ a = a + 0
  BY BytesAre
<1>. QED BY <1>1 DEF Piece

LEMMA RunsTail ==
  ASSUME NEW q \in Seq(Answers), q # <<>>, NEW a \in Nat, NEW b \in Nat, Runs(q, a, b)
  PROVE  \E c \in Nat : Piece(Head(q), a, c) /\ Runs(Tail(q), c, b)
<1>1. PICK f \in [1..(Len(q) + 1) -> Nat] :
        f[1] = a /\ f[Len(q) + 1] = b /\ \A i \in 1..Len(q) : Piece(q[i], f[i], f[i + 1])
  BY DEF Runs
<1>2. PICK n \in Nat : n = Len(Tail(q)) /\ Len(q) = n + 1
  OBVIOUS
<1>3. Head(q) = q[1] /\ \A i \in 1..n : Tail(q)[i] = q[i + 1]
  BY <1>2
<1>4. PICK h : h = [i \in 1..(n + 1) |-> f[i + 1]]
  OBVIOUS
<1>5. /\ \A i \in 1..(n + 1) : i + 1 \in 1..(Len(q) + 1)
      /\ \A i \in 1..n : i \in 1..(n + 1) /\ i + 1 \in 1..(n + 1) /\ i + 1 \in 1..Len(q)
      /\ 1 \in 1..(n + 1) /\ n + 1 \in 1..(n + 1) /\ 1 \in 1..Len(q)
      /\ 1 + 1 = 2 /\ (n + 1) + 1 = Len(q) + 1 /\ 2 \in 1..(Len(q) + 1)
  BY <1>2
<1>6. h \in [1..(n + 1) -> Nat] /\ h[1] = f[2] /\ h[n + 1] = b
      /\ \A i \in 1..n : h[i] = f[i + 1] /\ h[i + 1] = f[(i + 1) + 1]
  BY <1>1, <1>4, <1>5
<1>7. \A i \in 1..n : Piece(Tail(q)[i], h[i], h[i + 1])
  BY <1>1, <1>3, <1>5, <1>6
<1>8. Runs(Tail(q), f[2], b)
  BY <1>2, <1>6, <1>7 DEF Runs
<1>9. Piece(Head(q), a, f[2]) /\ f[2] \in Nat
  BY <1>1, <1>3, <1>5
<1>. QED BY <1>8, <1>9

LEMMA RunsMore ==
  ASSUME NEW q \in Seq(Answers), NEW x \in Answers, NEW a \in Nat, NEW b \in Nat, NEW c \in Nat,
         Runs(q, a, b), Piece(x, b, c)
  PROVE  Runs(Append(q, x), a, c)
<1>1. PICK f \in [1..(Len(q) + 1) -> Nat] :
        f[1] = a /\ f[Len(q) + 1] = b /\ \A i \in 1..Len(q) : Piece(q[i], f[i], f[i + 1])
  BY DEF Runs
<1>2. PICK n \in Nat : n = Len(q)
  OBVIOUS
<1>3. PICK r : r = Append(q, x)
  OBVIOUS
<1>4. Len(r) = n + 1 /\ r[n + 1] = x /\ \A i \in 1..n : r[i] = q[i]
  BY <1>2, <1>3
<1>5. PICK h : h = [i \in 1..(n + 2) |-> IF i = n + 2 THEN c ELSE f[i]]
  OBVIOUS
<1>6. /\ h \in [1..(n + 2) -> Nat] /\ h[n + 2] = c
      /\ \A i \in 1..(n + 1) : h[i] = f[i]
  BY <1>1, <1>2, <1>5
<1>7. h[1] = a /\ h[(n + 1) + 1] = c /\ (n + 1) + 1 = n + 2
  BY <1>1, <1>2, <1>6
<1>8. ASSUME NEW i \in 1..(n + 1)
      PROVE  Piece(r[i], h[i], h[i + 1])
  <2>1. CASE i = n + 1
    BY <1>1, <1>2, <1>4, <1>6, <1>7, <2>1
  <2>2. CASE i # n + 1
    <3>1. i \in 1..n /\ i + 1 \in 1..(n + 1)
      BY <2>2
    <3>. QED BY <1>1, <1>2, <1>4, <1>6, <3>1
  <2>. QED BY <2>1, <2>2
<1>9. Runs(r, a, c)
  BY <1>4, <1>6, <1>7, <1>8 DEF Runs
<1>. QED BY <1>3, <1>9

LEMMA GivenTail ==
  ASSUME NEW q \in Seq(Answers), q # <<>>, NEW a \in Nat, NEW b \in Nat, Given(q, a, b)
  PROVE  \E c \in Nat : Piece(Head(q), a, c) /\ Given(Tail(q), c, b)
<1>1. PICK c \in Nat : Piece(Head(q), a, c) /\ Runs(Tail(q), c, b)
  BY RunsTail DEF Given
<1>2. PICK n \in Nat : n = Len(Tail(q)) /\ Len(q) = n + 1
  OBVIOUS
<1>3. Head(q) = q[1] /\ Head(q) \in Answers /\ \A i \in 1..n : Tail(q)[i] = q[i + 1]
  BY <1>2
<1>4. PICK k \in Nat : k = Len(Head(q).data)
  <2>1. Head(q).data \in Seq(Nat)
    BY <1>3 DEF Answers
  <2>. QED BY <2>1
<1>5. c = a + k /\ Head(q).data = Bytes(a, k)
  BY <1>1, <1>4 DEF Piece
<1>6. CASE b <= a
  BY <1>1, <1>5, <1>6 DEF Given, Reach
<1>7. ASSUME NEW i \in 1..Len(q), q[i].data # <<>>, q[i].data[Len(q[i].data)] >= b
      PROVE  Reach(Tail(q), c, b)
  <2>1. CASE i = 1
    <3>1. Head(q).data # <<>> /\ Bytes(a, k)[k] >= b
      BY <1>3, <1>4, <1>5, <1>7, <2>1
    <3>2. k # 0
      <4>1. Head(q).data \in Seq(Nat)
        BY <1>3 DEF Answers
      <4>. QED BY <1>4, <3>1, <4>1
    <3>3. Bytes(a, k)[k] = a + k
      BY <3>2, BytesAre
    <3>. QED BY <1>5, <3>1, <3>3 DEF Reach
  <2>2. CASE i # 1
    <3>1. i - 1 \in 1..n /\ (i - 1) + 1 = i
      BY <1>2, <2>2
    <3>2. Tail(q)[i - 1] = q[i]
      BY <1>3, <3>1
    <3>. QED BY <1>2, <1>7, <3>1, <3>2 DEF Reach
  <2>. QED BY <2>1, <2>2
<1>8. Reach(Tail(q), c, b)
  BY <1>6, <1>7, <1>1, <1>5 DEF Given, Reach
<1>. QED BY <1>1, <1>8 DEF Given

LEMMA GivenMore ==
  ASSUME NEW q \in Seq(Answers), NEW x \in Answers, NEW a \in Nat, NEW b \in Nat, NEW c \in Nat,
         Given(q, a, b), Piece(x, b, c)
  PROVE  Append(q, x) \in Seq(Answers) /\ Given(Append(q, x), a, c)
<1>1. Runs(Append(q, x), a, c)
  BY RunsMore DEF Given
<1>2. PICK n \in Nat : n = Len(q)
  OBVIOUS
<1>3. PICK r : r = Append(q, x)
  OBVIOUS
<1>4. r \in Seq(Answers) /\ Len(r) = n + 1 /\ r[n + 1] = x /\ \A i \in 1..n : r[i] = q[i]
  BY <1>2, <1>3
<1>5. PICK k \in Nat : k = Len(x.data)
  <2>1. x.data \in Seq(Nat)
    BY DEF Answers
  <2>. QED BY <2>1
<1>6. c = b + k /\ x.data = Bytes(b, k)
  BY <1>5 DEF Piece
<1>7. CASE k = 0
  <2>1. c = b
    BY <1>6, <1>7
  <2>2. Reach(q, a, b)
    BY DEF Given
  <2>3. \A i \in 1..Len(q) : i \in 1..Len(r) /\ r[i] = q[i]
    BY <1>2, <1>4
  <2>. QED BY <1>1, <1>3, <1>4, <2>1, <2>2, <2>3 DEF Given, Reach
<1>8. CASE k # 0
  <2>1. Bytes(b, k)[k] = b + k
    BY <1>8, BytesAre
  <2>2. x.data # <<>>
    BY <1>5, <1>8
  <2>3. r[n + 1].data # <<>> /\ r[n + 1].data[Len(r[n + 1].data)] >= c /\ n + 1 \in 1..Len(r)
    BY <1>4, <1>5, <1>6, <2>1, <2>2
  <2>. QED BY <1>1, <1>3, <1>4, <2>3 DEF Given, Reach
<1>. QED BY <1>7, <1>8

-----------------------------------------------------------------------------
(* The application p sees nothing of a step: its place, its mailbox and    *)
(* its request at the server stay.                                         *)
Kept(p) ==
  /\ pc'[p] = pc[p] /\ sm'[p] = sm[p] /\ msgs'[p] = msgs[p]
  /\ Absent(msgs[AM], p) => Absent(msgs'[AM], p)
  /\ sm[p].src = p /\ Once(msgs[AM], p, sm[p]) => Once(msgs'[AM], p, sm[p])

LEMMA ReaderFrame ==
  ASSUME RetryOK, ReaderOK, Kept(R), readBytes' = readBytes, closed => closed', stray => stray'
  PROVE  ReaderOK'
<1>1. pc[R] = "read" => sm[R].src = R
  BY DEF RetryOK, Asking
<1>2. pc[R] = "read" /\ Asked(R) => Asked(R)'
  BY <1>1 DEF Kept, Asked
<1>3. \A ms : Replied(R, ms) => Replied(R, ms)'
  BY DEF Kept, Replied
<1>4. pc'[R] = pc[R]
  BY DEF Kept
<1>5. /\ pc[R] = "none" => Replied(R, <<>>)'
      /\ ~ stray' /\ pc[R] = "idle" => Replied(R, <<>>)'
  BY <1>3 DEF ReaderOK
<1>6. ~ stray' /\ pc[R] = "read" =>
       \/ readBytes' = 0 /\ Asked(R)'
       \/ readBytes' = 0 /\ Replied(R, <<Error(TRUE)>>)'
       \/ readBytes' = 0 /\ \E d \in Seq(Nat) : d # <<>> /\ Replied(R, <<Data(d), EndOfData>>)'
       \/ (readBytes' > 0 \/ closed') /\ Replied(R, <<EndOfData>>)'
  BY <1>2, <1>3 DEF ReaderOK
<1>. QED BY <1>4, <1>5, <1>6 DEF ReaderOK

LEMMA WriterFrame ==
  ASSUME NEW g \in Nat, RetryOK, WriterOK(g), Kept(W), slot' = slot, sent' = sent,
         closed => closed'
  PROVE  WriterOK(g)'
<1>1. pc[W] \in {"write", "writeEnd", "exit"} => sm[W].src = W
  BY DEF RetryOK, Asking
<1>2. pc[W] \in {"write", "writeEnd", "exit"} /\ Asked(W) => Asked(W)'
  BY <1>1 DEF Kept, Asked
<1>3. \A ms : Replied(W, ms) => Replied(W, ms)'
  BY DEF Kept, Replied
<1>4. pc'[W] = pc[W] /\ sm'[W] = sm[W]
  BY DEF Kept
<1>5. Drained(g) => Drained(g)'
  BY DEF Drained
<1>6. \A d : OnTheWay(g, d) => OnTheWay(g, d)'
  BY DEF OnTheWay
<1>7. pc[W] \in {"write", "writeEnd", "exit"} =>
        \A d : Waiting(g, d) => Waiting(g, d)'
  BY <1>2, <1>3, <1>6 DEF Waiting
<1> SUFFICES ASSUME ~ closed
             PROVE  WriterOK(g)'
  BY DEF WriterOK
<1>8. pc[W] = "write" =>
         \/ sm'[W].data # <<>> /\ Waiting(g, sm[W].data)'
         \/ Replied(W, <<>>)' /\ slot' # <<>> /\ OnTheWay(g, slot)'
         \/ Replied(W, <<Ack>>)' /\ Drained(g)'
  BY <1>3, <1>4, <1>5, <1>6, <1>7 DEF WriterOK
<1>. QED BY <1>2, <1>3, <1>4, <1>5, <1>8 DEF WriterOK

LEMMA StreamFrame ==
  ASSUME NEW g \in Nat, StreamOK(g), pc'[W] = pc[W], sent' = sent, done' = done, MailOK(g)',
         msgs'[W] = msgs[W], WritesOnly(msgs[AM]) => WritesOnly(msgs'[AM])
  PROVE  StreamOK(g)'
BY DEF StreamOK

-----------------------------------------------------------------------------
(* A step of an application: it takes the head of its mailbox, and sends.  *)
LEMMA EmptyOnTheWay ==
  ASSUME NEW g \in Nat, Drained(g)
  PROVE  slot = <<>> /\ OnTheWay(g, <<>>)
<1>1. Bytes(g, 0) = <<>> /\ Len(<<>>) = 0 /\ g + 0 = g
  BY BytesAre
<1>. QED BY <1>1 DEF Drained, OnTheWay

LEMMA MailboxTypes ==
  ASSUME Types
  PROVE  /\ msgs = [q \in {W, R, AM} |-> msgs[q]]
         /\ \A q \in {W, R, AM} : msgs[q] \in Seq(Requests \cup Answers)
         /\ msgs[AM] \in Seq(Requests)
         /\ msgs[W] \in Seq({Ack, Error(TRUE), Error(FALSE)})
         /\ msgs[R] \in Seq(Answers)
BY DEF Types

(* The reader's mailbox: nothing happens to it; the head is copied or, if  *)
(* it has no bytes, dropped; an answer comes in.                           *)
LEMMA MailFrame ==
  ASSUME NEW g \in Nat, MailOK(g), msgs'[R] = msgs[R], got' = got
  PROVE  MailOK(g)'
BY DEF MailOK

LEMMA ReaderHead ==
  ASSUME Types, msgs[R] # <<>>
  PROVE  /\ msgs[R] \in Seq(Answers) /\ Head(msgs[R]) \in Answers
         /\ Head(msgs[R]).data \in Seq(Nat) /\ Tail(msgs[R]) \in Seq(Answers)
<1>1. msgs[R] \in Seq(Answers)
  BY DEF Types
<1>2. Head(msgs[R]) \in Answers /\ Tail(msgs[R]) \in Seq(Answers)
  BY <1>1
<1>. QED BY <1>1, <1>2 DEF Answers

LEMMA TakeHead ==
  ASSUME NEW g \in Nat, Types, MailOK(g), msgs[R] # <<>>, msgs'[R] = Tail(msgs[R]),
         got' = got \o Head(msgs[R]).data
  PROVE  MailOK(g)' /\ got' \in Seq(Nat)
<1>1. PICK a \in Nat : a = Len(got)
  BY DEF Types
<1>2. PICK x \in Answers : x = Head(msgs[R])
  BY ReaderHead
<1>3. PICK c \in Nat : Piece(x, a, c) /\ Given(Tail(msgs[R]), c, g)
  <2>1. Given(msgs[R], a, g) /\ msgs[R] \in Seq(Answers)
    BY <1>1, ReaderHead DEF MailOK
  <2>. QED BY <1>2, <2>1, GivenTail
<1>4. PICK n \in Nat : n = Len(x.data)
  <2>1. x.data \in Seq(Nat)
    BY <1>2 DEF Answers
  <2>. QED BY <2>1
<1>5. x.data = Bytes(a, n) /\ c = a + n
  BY <1>3, <1>4 DEF Piece
<1>6. got = Bytes(0, a)
  BY <1>1 DEF MailOK
<1>7. got' = Bytes(0, a + n)
  <2>1. Bytes(0, a) \o Bytes(a, n) = Bytes(0, a + n)
    BY BytesConcat
  <2>. QED BY <1>2, <1>5, <1>6, <2>1
<1>8. Bytes(0, a + n) \in Seq(Nat) /\ Len(Bytes(0, a + n)) = a + n
  <2>1. a + n \in Nat /\ 0 \in Nat
    OBVIOUS
  <2>. QED BY ONLY <2>1, BytesAre
<1>9. Len(got') = c /\ got' = Bytes(0, Len(got')) /\ got' \in Seq(Nat)
  BY <1>5, <1>7, <1>8
<1>. QED BY <1>3, <1>9 DEF MailOK

LEMMA DropHead ==
  ASSUME NEW g \in Nat, Types, MailOK(g), msgs[R] # <<>>, msgs'[R] = Tail(msgs[R]),
         got' = got, Head(msgs[R]).type # "read"
  PROVE  MailOK(g)'
<1>1. PICK a \in Nat : a = Len(got)
  BY DEF Types
<1>2. PICK c \in Nat : Piece(Head(msgs[R]), a, c) /\ Given(Tail(msgs[R]), c, g)
  <2>1. Given(msgs[R], a, g) /\ msgs[R] \in Seq(Answers)
    BY <1>1, ReaderHead DEF MailOK
  <2>. QED BY <2>1, GivenTail
<1>3. c = a
  <2>1. Head(msgs[R]).data = <<>> /\ c = a + Len(Head(msgs[R]).data)
    BY <1>2 DEF Piece
  <2>2. Len(<<>>) = 0 /\ a + 0 = a
    OBVIOUS
  <2>. QED BY <2>1, <2>2
<1>. QED BY <1>1, <1>2, <1>3 DEF MailOK

LEMMA MoreMail ==
  ASSUME NEW g \in Nat, Types, MailOK(g), NEW x \in Answers, x.data = <<>>,
         msgs'[R] = msgs[R] \o <<x>>, got' = got
  PROVE  MailOK(g)' /\ msgs'[R] \in Seq(Answers)
<1>1. PICK a \in Nat : a = Len(got)
  BY DEF Types
<1>2. PICK q \in Seq(Answers) : q = msgs[R] /\ Given(q, a, g)
  BY <1>1 DEF Types, MailOK
<1>3. q \o <<x>> = Append(q, x)
  OBVIOUS
<1>4. Piece(x, g, g)
  BY EmptyPiece
<1>5. Append(q, x) \in Seq(Answers) /\ Given(Append(q, x), a, g)
  BY <1>2, <1>4, GivenMore
<1>. QED BY <1>1, <1>2, <1>3, <1>5 DEF MailOK

(* A read() is answered with the bytes after g and up to h.                *)
LEMMA AnsweredMail ==
  ASSUME NEW g \in Nat, NEW h \in Nat, Types, MailOK(g), NEW x \in Answers, Piece(x, g, h),
         NEW y \in Answers, y.data = <<>>, msgs'[R] = msgs[R] \o <<x, y>>, got' = got
  PROVE  MailOK(h)' /\ msgs'[R] \in Seq(Answers)
<1>1. PICK a \in Nat : a = Len(got)
  BY DEF Types
<1>2. PICK q \in Seq(Answers) : q = msgs[R] /\ Given(q, a, g)
  BY <1>1 DEF Types, MailOK
<1>3. PICK r : r = Append(q, x)
  OBVIOUS
<1>4. r \in Seq(Answers) /\ Given(r, a, h)
  BY <1>2, <1>3, GivenMore
<1>5. Append(r, y) \in Seq(Answers) /\ Given(Append(r, y), a, h)
  <2>1. Piece(y, h, h)
    BY EmptyPiece
  <2>. QED BY <1>4, <2>1, GivenMore
<1>6. q \o <<x, y>> = Append(r, y)
  BY <1>3
<1>. QED BY <1>1, <1>2, <1>5, <1>6 DEF MailOK

LEMMA RestOf ==
  ASSUME Types, NEW p \in {W, R, AM}, msgs[p] # <<>>
  PROVE  /\ Rest(p) \in [{W, R, AM} -> Seq(Requests \cup Answers)]
         /\ Rest(p)[p] = Tail(msgs[p])
         /\ \A q \in {W, R, AM} \ {p} : Rest(p)[q] = msgs[q]
<1>1. msgs[p] \in Seq(Requests \cup Answers) /\ msgs \in [{W, R, AM} -> Seq(Requests \cup Answers)]
  BY DEF Types
<1>2. Tail(msgs[p]) \in Seq(Requests \cup Answers)
  BY <1>1
<1>. QED BY <1>1, <1>2 DEF Rest

LEMMA RequestStep ==
  ASSUME Types, NEW p \in {W, R}, NEW m \in Requests, m.src = p, NEW label, NEW rest,
         rest = msgs \/ (msgs[p] # <<>> /\ rest = Rest(p)), Request(p, m, label, rest)
  PROVE  /\ msgs' \in [{W, R, AM} -> Seq(Requests \cup Answers)]
         /\ msgs'[AM] = Append(msgs[AM], m) /\ msgs'[AM] \in Seq(Requests)
         /\ msgs'[p] = rest[p] /\ sm'[p] = m /\ pc'[p] = label
         /\ pc' = [pc EXCEPT ![p] = label] /\ sm' = [sm EXCEPT ![p] = m]
         /\ \A q \in {W, R} \ {p} : Kept(q)
         /\ Absent(msgs[AM], p) => Once(msgs'[AM], p, m)
         /\ WritesOnly(msgs[AM]) /\ (p = W => m.type = "write") => WritesOnly(msgs'[AM])
<1>1. msgs[AM] \in Seq(Requests) /\ msgs \in [{W, R, AM} -> Seq(Requests \cup Answers)]
      /\ pc = [q \in {W, R} |-> pc[q]] /\ sm = [q \in {W, R} |-> sm[q]]
  BY DEF Types
<1>2. rest \in [{W, R, AM} -> Seq(Requests \cup Answers)]
      /\ \A q \in {W, R, AM} \ {p} : rest[q] = msgs[q]
  BY <1>1, RestOf
<1>3. /\ msgs' = [rest EXCEPT ![AM] = Append(@, m)]
      /\ sm' = [sm EXCEPT ![p] = m]
      /\ pc' = [pc EXCEPT ![p] = label]
  BY DEF Request
<1>4. rest[AM] = msgs[AM] /\ p # AM
  BY <1>2, Names
<1>5. Append(msgs[AM], m) \in Seq(Requests \cup Answers)
  BY <1>1
<1>6. /\ msgs' \in [{W, R, AM} -> Seq(Requests \cup Answers)]
      /\ msgs'[AM] = Append(msgs[AM], m)
      /\ \A q \in {W, R} : msgs'[q] = rest[q]
  BY <1>2, <1>3, <1>4, <1>5, Names
<1>7. sm'[p] = m /\ pc'[p] = label /\ \A q \in {W, R} \ {p} : sm'[q] = sm[q] /\ pc'[q] = pc[q]
  BY <1>1, <1>3
<1>8. ASSUME NEW q \in {W, R} \ {p}
      PROVE  Kept(q)
  <2>1. m.src # q
    BY <1>8
  <2>2. Absent(msgs[AM], q) => Absent(msgs'[AM], q)
    BY <1>1, <1>6, <2>1, QueueAppend
  <2>3. \A x : Once(msgs[AM], q, x) => Once(Append(msgs[AM], m), q, x)
    BY <1>1, <2>1, QueueAppend
  <2>4. msgs'[q] = msgs[q] /\ sm'[q] = sm[q] /\ pc'[q] = pc[q]
    BY <1>2, <1>6, <1>7
  <2>. QED BY <1>6, <2>2, <2>3, <2>4 DEF Kept
<1>9. Absent(msgs[AM], p) => Once(msgs'[AM], p, m)
  BY <1>1, <1>6, QueueAppend
<1>10. WritesOnly(msgs[AM]) /\ (p = W => m.type = "write") => WritesOnly(msgs'[AM])
  BY <1>1, <1>6, QueueAppend
<1>11. msgs'[AM] \in Seq(Requests)
  BY <1>1, <1>6
<1>. QED BY <1>3, <1>6, <1>7, <1>8, <1>9, <1>10, <1>11

LEMMA ReceiveStep ==
  ASSUME Types, NEW p \in {W, R}, msgs[p] # <<>>, msgs' = Rest(p), sm' = sm, NEW label,
         pc' = [pc EXCEPT ![p] = label]
  PROVE  /\ msgs' \in [{W, R, AM} -> Seq(Requests \cup Answers)]
         /\ msgs'[AM] = msgs[AM] /\ msgs'[p] = Tail(msgs[p]) /\ pc'[p] = label
         /\ \A q \in {W, R} \ {p} : Kept(q)
<1>1. /\ msgs' \in [{W, R, AM} -> Seq(Requests \cup Answers)]
      /\ msgs'[p] = Tail(msgs[p])
      /\ \A q \in {W, R, AM} \ {p} : msgs'[q] = msgs[q]
  BY RestOf
<1>2. pc'[p] = label /\ \A q \in {W, R} \ {p} : pc'[q] = pc[q]
  BY DEF Types
<1>3. msgs'[AM] = msgs[AM]
  BY <1>1, Names
<1>. QED BY <1>1, <1>2, <1>3 DEF Kept

(* A step of the server: it takes the head of its mailbox.                 *)
LEMMA ServeStep ==
  ASSUME Types, msgs[AM] # <<>>, NEW p \in {W, R},
         msgs'[AM] = Tail(msgs[AM]), msgs'[p] = msgs[p], Head(msgs[AM]).src # p,
         UNCHANGED <<pc, sm>>
  PROVE  Kept(p)
<1>1. msgs[AM] \in Seq(Requests)
  BY DEF Types
<1>2. Absent(msgs[AM], p) => Absent(msgs'[AM], p)
  BY <1>1, QueueTail
<1>3. \A x : Once(msgs[AM], p, x) /\ x.src = p => Once(Tail(msgs[AM]), p, x)
  BY <1>1, QueueTail
<1>. QED BY <1>2, <1>3 DEF Kept

LEMMA PostIs ==
  ASSUME NEW box \in [{W, R, AM} -> Seq(Requests \cup Answers)], NEW d \in {W, R},
         NEW ms \in Seq(Answers)
  PROVE  /\ Post(box, d, ms) \in [{W, R, AM} -> Seq(Requests \cup Answers)]
         /\ Post(box, d, ms)[d] = box[d] \o ms
         /\ \A q \in {W, R, AM} \ {d} : Post(box, d, ms)[q] = box[q]
<1>1. box[d] \in Seq(Requests \cup Answers) /\ ms \in Seq(Requests \cup Answers)
  OBVIOUS
<1>2. box[d] \o ms \in Seq(Requests \cup Answers)
  BY ONLY <1>1, ConcatProperties
<1>. QED BY <1>2 DEF Post

-----------------------------------------------------------------------------
(* The writer's steps.                                                     *)
LEMMA WriterRequestStep ==
  ASSUME NEW g \in Nat, IInvAt(g), NEW m \in Requests, m.src = W, NEW label, NEW rest,
         rest = msgs \/ (msgs[W] # <<>> /\ rest = Rest(W)), Request(W, m, label, rest),
         UNCHANGED <<got, readBytes, done, eof, amVars>>, sent' \in Nat, left' \in Nat,
         \/ label \in {"write", "writeEnd"} /\ m.type = "write"
         \/ label = "exit" /\ m.type = "exitApp",
         rest[W] \in Seq({Ack, Error(TRUE), Error(FALSE)}),
         label # "exit" => /\ WritesOnly(msgs[AM])
                           /\ \A i \in 1..Len(rest[W]) : rest[W][i].type # "received",
         ~ closed => /\ Absent(msgs[AM], W) /\ rest[W] = <<>> /\ slot = <<>>
                     /\ sent' = g + Len(m.data)
                     /\ m.data = Bytes(g, Len(m.data))
                     /\ (m.data = <<>> <=> label # "write")
  PROVE  IInvAt(g)'
<1>1. Types /\ ServerOK /\ RetryOK /\ ReaderOK /\ WriterOK(g) /\ StreamOK(g)
  BY DEF IInvAt
<1>2. /\ UNCHANGED <<got, readBytes, done, eof>>
      /\ UNCHANGED <<am, slot, closed, running, busy, stray>>
  BY DEF amVars
<1>3. /\ W \in {W, R} /\ m \in Requests /\ m.src = W /\ Request(W, m, label, rest)
      /\ rest = msgs \/ (msgs[W] # <<>> /\ rest = Rest(W))
  OBVIOUS
<1>4. /\ msgs' \in [{W, R, AM} -> Seq(Requests \cup Answers)]
      /\ msgs'[AM] = Append(msgs[AM], m) /\ msgs'[AM] \in Seq(Requests)
      /\ msgs'[W] = rest[W] /\ sm'[W] = m /\ pc'[W] = label
      /\ pc' = [pc EXCEPT ![W] = label] /\ sm' = [sm EXCEPT ![W] = m]
      /\ \A q \in {W, R} \ {W} : Kept(q)
      /\ Absent(msgs[AM], W) => Once(msgs'[AM], W, m)
      /\ WritesOnly(msgs[AM]) /\ (W = W => m.type = "write") => WritesOnly(msgs'[AM])
  BY ONLY <1>1, <1>3, RequestStep
<1>5. Kept(R) /\ msgs'[R] = msgs[R] /\ pc'[R] = pc[R] /\ sm'[R] = sm[R]
  BY <1>4, Names DEF Kept
<1>6. MailOK(g)'
  BY <1>1, <1>2, <1>5, MailFrame DEF StreamOK
<1>7. Types'
  <2>1. msgs'[R] \in Seq(Answers)
    BY <1>1, <1>5 DEF Types
  <2>2. pc' \in [{W, R} -> {"none", "idle", "write", "writeEnd", "read", "exit", "done"}]
        /\ pc'[W] \notin {"none", "read"} /\ pc'[R] \notin {"write", "writeEnd"}
    BY <1>1, <1>4, <1>5 DEF Types
  <2>3. sm' \in [{W, R} -> Requests \cup {NoMsg}]
    BY <1>1, <1>4 DEF Types
  <2>. QED BY <1>1, <1>2, <1>4, <2>1, <2>2, <2>3 DEF Types
<1>8. ServerOK'
  BY <1>1, <1>2, <1>5 DEF ServerOK, EndMeansClosed
<1>9. RetryOK'
  <2>1. m \in Asking(W, {m.type})
    BY Names DEF Requests, Asking
  <2>. QED BY <1>1, <1>4, <1>5, <2>1 DEF RetryOK
<1>10. ReaderOK'
  BY <1>1, <1>2, <1>5, ReaderFrame
<1>11. WriterOK(g)'
  <2> SUFFICES ASSUME ~ closed
               PROVE  WriterOK(g)'
    BY <1>2 DEF WriterOK
  <2>1. Asked(W)' /\ slot' = <<>> /\ OnTheWay(g, m.data)'
    BY <1>2, <1>4, <1>6 DEF Asked, OnTheWay
  <2>2. Waiting(g, m.data)'
    BY <2>1 DEF Waiting
  <2>3. m.data = <<>> => Drained(g)'
    <3>1. Len(<<>>) = 0 /\ g + 0 = g
      OBVIOUS
    <3>. QED BY <1>6, <2>1, <3>1 DEF Drained
  <2>4. CASE label = "write"
    BY <1>4, <2>2, <2>4 DEF WriterOK
  <2>5. CASE label # "write"
    BY <1>4, <2>1, <2>3, <2>5 DEF WriterOK
  <2>. QED BY <2>4, <2>5
<1>12. StreamOK(g)'
  <2>1. label # "exit" => WritesOnly(msgs'[AM])
    BY <1>4
  <2>. QED BY <1>1, <1>2, <1>4, <1>6, <2>1 DEF StreamOK
<1>. QED BY <1>7, <1>8, <1>9, <1>10, <1>11, <1>12 DEF IInvAt

LEMMA ChunkStep ==
  ASSUME NEW g \in Nat, IInvAt(g), NEW n \in Nat, NEW rest,
         rest = msgs \/ (msgs[W] # <<>> /\ rest = Rest(W)),
         NextChunk(n, rest), UNCHANGED <<got, readBytes, done, eof, amVars>>,
         pc[W] \in {"idle", "write"},
         ~ closed => Absent(msgs[AM], W) /\ rest[W] = <<>> /\ Drained(g),
         rest[W] \in Seq({Ack, Error(TRUE), Error(FALSE)}),
         \A i \in 1..Len(rest[W]) : rest[W][i].type # "received"
  PROVE  IInvAt(g)'
<1> DEFINE len == IF n > Slot THEN Slot ELSE n
           label == IF n = 0 THEN "writeEnd" ELSE "write"
<1>1. PICK m : m = Msg("write", W, Bytes(sent, len), n, FALSE)
  OBVIOUS
<1>2. len \in Nat /\ (n = 0 <=> len = 0) /\ n - len \in Nat /\ sent \in Nat
  <2>1. sent \in Nat
    BY DEF IInvAt, Types
  <2>2. Slot \in Nat /\ Slot # 0 /\ n \in Nat
    BY PipeAssumption
  <2>3. len \in Nat /\ (n = 0 <=> len = 0) /\ n - len \in Nat
    BY ONLY <2>2
  <2>. QED BY <2>1, <2>3
<1>3. Request(W, m, label, rest) /\ sent' = sent + len /\ left' = n - len
  BY <1>1 DEF NextChunk
<1> HIDE DEF len
<1>4. Bytes(sent, len) \in Seq(Nat) /\ Len(Bytes(sent, len)) = len
  BY <1>2, BytesAre
<1>5. m \in Requests /\ m.src = W /\ m.type = "write" /\ m.data = Bytes(sent, len)
  BY <1>1, <1>4 DEF Msg, Asking, Requests
<1>6. WritesOnly(msgs[AM])
  BY DEF IInvAt, StreamOK
<1>7. m.data = <<>> <=> label # "write"
  BY <1>2, <1>4, <1>5
<1>8. label \in {"write", "writeEnd"} /\ sent' \in Nat /\ left' \in Nat
  BY <1>2, <1>3
<1>9. ~ closed => /\ Absent(msgs[AM], W) /\ rest[W] = <<>> /\ slot = <<>>
                  /\ sent' = g + Len(m.data)
                  /\ m.data = Bytes(g, Len(m.data))
  BY <1>3, <1>4, <1>5 DEF Drained
<1> HIDE DEF label
<1>. QED BY <1>3, <1>5, <1>6, <1>7, <1>8, <1>9, WriterRequestStep

LEMMA WriteCallStep ==
  ASSUME NEW g \in Nat, IInvAt(g), NEW n \in Counts, WriteCall(n)
  PROVE  IInvAt(g)'
<1>1. n \in Nat
  BY PipeAssumption
<1>2. pc[W] = "idle" /\ NextChunk(n, msgs) /\ UNCHANGED <<got, readBytes, done, eof, amVars>>
  BY DEF WriteCall
<1>3. ~ closed => Absent(msgs[AM], W) /\ msgs[W] = <<>> /\ Drained(g)
  BY <1>2 DEF IInvAt, WriterOK, Replied
<1>4. \A i \in 1..Len(msgs[W]) : msgs[W][i].type # "received"
  BY <1>2 DEF IInvAt, StreamOK
<1>5. msgs[W] \in Seq({Ack, Error(TRUE), Error(FALSE)})
  BY DEF IInvAt, Types
<1>. QED BY <1>1, <1>2, <1>3, <1>4, <1>5, ChunkStep

(* The head of the writer's mailbox, and the others.                       *)
LEMMA WriterMail ==
  ASSUME Types, msgs[W] # <<>>
  PROVE  /\ Head(msgs[W]) = msgs[W][1] /\ 1 \in 1..Len(msgs[W])
         /\ Tail(msgs[W]) \in Seq({Ack, Error(TRUE), Error(FALSE)})
         /\ \A i \in 1..Len(Tail(msgs[W])) :
              i + 1 \in 1..Len(msgs[W]) /\ i + 1 # 1 /\ Tail(msgs[W])[i] = msgs[W][i + 1]
<1> DEFINE S == {Ack, Error(TRUE), Error(FALSE)}
<1>1. msgs[W] \in Seq(S)
  BY DEF Types
<1> HIDE DEF S
<1>. QED BY <1>1 DEF S

LEMMA WriterTail ==
  ASSUME NEW g \in Nat, IInvAt(g), msgs[W] # <<>>, pc[W] \notin {"exit", "done"}
  PROVE  \A i \in 1..Len(Tail(msgs[W])) : Tail(msgs[W])[i].type # "received"
<1>1. Types
  BY DEF IInvAt
<1>. QED BY <1>1, WriterMail DEF IInvAt, StreamOK

LEMMA WriterReceiveStep ==
  ASSUME NEW g \in Nat, IInvAt(g), msgs[W] # <<>>, msgs' = Rest(W),
         NEW label \in {"idle", "exit", "done"},
         pc' = [pc EXCEPT ![W] = label], done' \in Nat, done' <= g,
         UNCHANGED <<sm, left, sent, got, readBytes, eof, amVars>>,
         label = "idle" => pc[W] \in {"write", "writeEnd"}, label = "exit" => pc[W] = "exit",
         closed \/ (label = "idle" /\ Replied(W, <<Ack>>) /\ Drained(g))
  PROVE  IInvAt(g)'
<1>1. Types /\ ServerOK /\ RetryOK /\ ReaderOK /\ WriterOK(g) /\ StreamOK(g)
  BY DEF IInvAt
<1>2. UNCHANGED <<am, slot, closed, running, busy, stray, sm, left, sent, got, readBytes, eof>>
  BY DEF amVars
<1>3. W \in {W, R} /\ sm' = sm
  BY <1>2
<1>4. /\ msgs' \in [{W, R, AM} -> Seq(Requests \cup Answers)]
      /\ msgs'[AM] = msgs[AM] /\ msgs'[W] = Tail(msgs[W]) /\ pc'[W] = label
      /\ \A q \in {W, R} \ {W} : Kept(q)
  BY <1>1, <1>3, ReceiveStep
<1>5. Kept(R) /\ msgs'[R] = msgs[R] /\ pc'[R] = pc[R]
  BY <1>4, Names DEF Kept
<1>6. MailOK(g)'
  BY <1>1, <1>2, <1>5, MailFrame DEF StreamOK
<1>7. Types'
  <2>1. msgs'[R] \in Seq(Answers) /\ msgs'[AM] \in Seq(Requests)
    BY <1>1, <1>4, <1>5 DEF Types
  <2>2. pc' \in [{W, R} -> {"none", "idle", "write", "writeEnd", "read", "exit", "done"}]
        /\ pc'[W] \notin {"none", "read"} /\ pc'[R] \notin {"write", "writeEnd"}
    BY <1>1, <1>4, <1>5 DEF Types
  <2>3. msgs'[W] \in Seq({Ack, Error(TRUE), Error(FALSE)})
    BY <1>1, <1>4, WriterMail
  <2>. QED BY <1>1, <1>2, <1>4, <2>1, <2>2, <2>3 DEF Types
<1>8. ServerOK'
  BY <1>1, <1>2, <1>5 DEF ServerOK, EndMeansClosed
<1>9. RetryOK'
  BY <1>1, <1>2, <1>4, <1>5 DEF RetryOK
<1>10. ReaderOK'
  BY <1>1, <1>2, <1>5, ReaderFrame
<1>11. WriterOK(g)'
  <2>1. Tail(<<Ack>>) = <<>>
    OBVIOUS
  <2>. QED BY <1>2, <1>4, <1>6, <2>1 DEF WriterOK, Replied, Drained
<1>12. StreamOK(g)'
  <2>1. pc[W] \notin {"exit", "done"} => \A i \in 1..Len(msgs'[W]) : msgs'[W][i].type # "received"
    BY <1>4, WriterTail
  <2>2. label \notin {"exit", "done"} => pc[W] \notin {"exit", "done"}
    OBVIOUS
  <2>. QED BY <1>1, <1>2, <1>4, <1>6, <2>1, <2>2 DEF StreamOK
<1>. QED BY <1>7, <1>8, <1>9, <1>10, <1>11, <1>12 DEF IInvAt

LEMMA WriteReceivedStep ==
  ASSUME NEW g \in Nat, IInvAt(g), WriteReceived
  PROVE  IInvAt(g)'
<1>1. Types /\ WriterOK(g) /\ StreamOK(g)
  BY DEF IInvAt
<1>2. pc[W] \in {"write", "writeEnd"} /\ msgs[W] # <<>> /\ Head(msgs[W]).type = "received"
      /\ UNCHANGED <<got, readBytes, eof, amVars>>
  BY DEF WriteReceived, Received
<1>3. sent = g /\ sent \in Nat
  BY <1>1, <1>2, WriterMail DEF StreamOK, Types
<1>4. ~ closed => Replied(W, <<Ack>>) /\ Drained(g)
  <2>1. ~ Asked(W) /\ ~ Replied(W, <<>>)
    BY <1>2 DEF Asked, Replied
  <2>2. ~ Replied(W, <<Error(TRUE)>>)
    BY <1>2 DEF Replied, Error, Msg
  <2>. QED BY <1>1, <1>2, <2>1, <2>2 DEF WriterOK, Waiting
<1>5. ASSUME pc[W] = "write", NextChunk(left, Rest(W)), UNCHANGED done
      PROVE  IInvAt(g)'
  <2>1. left \in Nat
    BY <1>1 DEF Types
  <2>2. /\ Tail(msgs[W]) \in Seq({Ack, Error(TRUE), Error(FALSE)})
        /\ \A i \in 1..Len(Tail(msgs[W])) : Tail(msgs[W])[i].type # "received"
    BY <1>1, <1>2, WriterMail, WriterTail
  <2>3. Rest(W)[W] = Tail(msgs[W]) /\ Tail(<<Ack>>) = <<>>
    BY <1>1, <1>2, RestOf
  <2>4. ~ closed => Absent(msgs[AM], W) /\ Rest(W)[W] = <<>> /\ Drained(g)
    BY <1>4, <2>3 DEF Replied
  <2>. QED BY <1>2, <1>5, <2>1, <2>2, <2>3, <2>4, ChunkStep
<1>6. ASSUME pc[W] = "writeEnd", msgs' = Rest(W), pc' = [pc EXCEPT ![W] = "idle"],
             done' = sent, UNCHANGED <<sm, left, sent>>
      PROVE  IInvAt(g)'
  <2>1. done' \in Nat /\ done' <= g
    BY <1>3, <1>6
  <2>. QED BY <1>2, <1>4, <1>6, <2>1, WriterReceiveStep
<1>. QED BY <1>5, <1>6 DEF WriteReceived

LEMMA WriterRetryStep ==
  ASSUME NEW g \in Nat, IInvAt(g), Retry(W)
  PROVE  IInvAt(g)'
<1>1. Types /\ RetryOK /\ WriterOK(g) /\ StreamOK(g)
  BY DEF IInvAt
<1>2. pc[W] \in {"write", "writeEnd", "exit"} /\ msgs[W] # <<>> /\ Head(msgs[W]).type = "error"
      /\ Request(W, sm[W], pc[W], Rest(W))
      /\ UNCHANGED <<left, sent, got, readBytes, done, eof, amVars>>
  BY <1>1 DEF Retry, Received, Types
<1>3. /\ sm[W] \in Requests /\ sm[W].src = W
      /\ sm[W].type = IF pc[W] = "exit" THEN "exitApp" ELSE "write"
      /\ sm[W].data \in Seq(Nat)
  BY <1>1, <1>2 DEF RetryOK, Asking, Requests
<1>4. Rest(W)[W] = Tail(msgs[W])
  BY <1>1, <1>2, RestOf
<1>5. /\ Tail(msgs[W]) \in Seq({Ack, Error(TRUE), Error(FALSE)})
      /\ pc[W] # "exit" => \A i \in 1..Len(Tail(msgs[W])) : Tail(msgs[W])[i].type # "received"
  BY <1>1, <1>2, WriterMail, WriterTail
<1>6. pc[W] # "exit" => WritesOnly(msgs[AM])
  BY <1>1, <1>2 DEF StreamOK
<1>7. sent' \in Nat /\ left' \in Nat
  BY <1>1, <1>2 DEF Types
<1>8. ~ closed => /\ Absent(msgs[AM], W) /\ Tail(msgs[W]) = <<>> /\ slot = <<>>
                  /\ OnTheWay(g, sm[W].data) /\ (sm[W].data = <<>> <=> pc[W] # "write")
  <2> SUFFICES ASSUME ~ closed
               PROVE  /\ Absent(msgs[AM], W) /\ Tail(msgs[W]) = <<>> /\ slot = <<>>
                      /\ OnTheWay(g, sm[W].data) /\ (sm[W].data = <<>> <=> pc[W] # "write")
    OBVIOUS
  <2>1. ~ Asked(W) /\ ~ Replied(W, <<>>) /\ ~ Replied(W, <<Ack>>)
    BY <1>2 DEF Asked, Replied, Ack, Msg
  <2>2. Replied(W, <<Error(TRUE)>>)
    BY <1>1, <1>2, <2>1 DEF WriterOK, Waiting
  <2>3. Absent(msgs[AM], W) /\ Tail(msgs[W]) = <<>>
    BY <2>2 DEF Replied
  <2>4. pc[W] = "write" => slot = <<>> /\ OnTheWay(g, sm[W].data) /\ sm[W].data # <<>>
    BY <1>1, <2>1 DEF WriterOK, Waiting
  <2>5. pc[W] # "write" => sm[W].data = <<>> /\ Drained(g)
    BY <1>1, <1>2 DEF WriterOK
  <2>6. Drained(g) => slot = <<>> /\ OnTheWay(g, <<>>)
    BY <1>1, EmptyOnTheWay
  <2>. QED BY <2>3, <2>4, <2>5, <2>6
<1>9. ~ closed => /\ Absent(msgs[AM], W) /\ Rest(W)[W] = <<>> /\ slot = <<>>
                  /\ sent' = g + Len(sm[W].data)
                  /\ sm[W].data = Bytes(g, Len(sm[W].data))
                  /\ (sm[W].data = <<>> <=> pc[W] # "write")
  BY <1>2, <1>4, <1>8 DEF OnTheWay
<1>. QED BY <1>2, <1>3, <1>4, <1>5, <1>6, <1>7, <1>9, WriterRequestStep

(* TaskApp reports the end: of exit(), or of a fault in write().           *)
LEMMA WriterEndStep ==
  ASSUME NEW g \in Nat, IInvAt(g), NEW rest, rest = msgs \/ (msgs[W] # <<>> /\ rest = Rest(W)),
         EndTask(W, rest), UNCHANGED <<left, sent, got, readBytes, done, eof, amVars>>,
         ~ closed => Absent(msgs[AM], W) /\ rest[W] = <<>> /\ Drained(g)
  PROVE  IInvAt(g)'
<1>1. Types
  BY DEF IInvAt
<1>2. PICK m : m = Msg("exitApp", W, <<>>, 0, FALSE)
  OBVIOUS
<1>3. Request(W, m, "exit", rest)
  BY <1>2 DEF EndTask
<1>4. m \in Requests /\ m.src = W /\ m.type = "exitApp" /\ m.data = <<>>
  BY <1>2 DEF Msg, Requests, Asking
<1>5. rest[W] \in Seq({Ack, Error(TRUE), Error(FALSE)}) /\ sent' \in Nat /\ left' \in Nat
  <2>1. CASE rest = msgs
    BY <1>1, <2>1 DEF Types
  <2>2. CASE msgs[W] # <<>> /\ rest = Rest(W)
    BY <1>1, <2>2, RestOf, WriterMail DEF Types
  <2>. QED BY <2>1, <2>2
<1>6. ~ closed => /\ Absent(msgs[AM], W) /\ rest[W] = <<>> /\ slot = <<>>
                  /\ sent' = g + Len(m.data)
                  /\ m.data = Bytes(g, Len(m.data))
  <2>1. Drained(g) => slot = <<>> /\ OnTheWay(g, <<>>)
    BY EmptyOnTheWay
  <2>. QED BY <1>4, <2>1 DEF OnTheWay
<1>. QED BY <1>3, <1>4, <1>5, <1>6, WriterRequestStep

LEMMA WriterExitStep ==
  ASSUME NEW g \in Nat, IInvAt(g), Exit(W)
  PROVE  IInvAt(g)'
<1>1. pc[W] = "idle" /\ EndTask(W, msgs)
      /\ UNCHANGED <<left, sent, got, readBytes, done, eof, amVars>>
  BY DEF Exit
<1>2. ~ closed => Absent(msgs[AM], W) /\ msgs[W] = <<>> /\ Drained(g)
  BY <1>1 DEF IInvAt, WriterOK, Replied
<1>. QED BY <1>1, <1>2, WriterEndStep

LEMMA WriterKilledStep ==
  ASSUME NEW g \in Nat, IInvAt(g), Killed(W)
  PROVE  IInvAt(g)'
<1>1. Types /\ WriterOK(g)
  BY DEF IInvAt
<1>2. /\ pc[W] = "write" /\ msgs[W] # <<>> /\ Head(msgs[W]).type = "received"
      /\ EndTask(W, Rest(W)) /\ UNCHANGED <<left, sent, got, readBytes, done, eof, amVars>>
  BY Names DEF Killed, Received
<1>3. ~ closed => Replied(W, <<Ack>>) /\ Drained(g)
  <2>1. ~ Asked(W) /\ ~ Replied(W, <<>>)
    BY <1>2 DEF Asked, Replied
  <2>2. ~ Replied(W, <<Error(TRUE)>>)
    BY <1>2 DEF Replied, Error, Msg
  <2>. QED BY <1>1, <1>2, <2>1, <2>2 DEF WriterOK, Waiting
<1>4. Rest(W)[W] = Tail(msgs[W]) /\ Tail(<<Ack>>) = <<>>
  BY <1>1, <1>2, RestOf
<1>5. ~ closed => Absent(msgs[AM], W) /\ Rest(W)[W] = <<>> /\ Drained(g)
  BY <1>3, <1>4 DEF Replied
<1>. QED BY <1>2, <1>5, WriterEndStep

LEMMA WriterIgnoredStep ==
  ASSUME NEW g \in Nat, IInvAt(g), Ignored(W)
  PROVE  FALSE
<1>1. msgs[W] # <<>> /\ Head(msgs[W]).type = "read"
  BY DEF Ignored, Received
<1>2. Head(msgs[W]) \in {Ack, Error(TRUE), Error(FALSE)}
  <2> DEFINE S == {Ack, Error(TRUE), Error(FALSE)}
  <2>1. msgs[W] \in Seq(S)
    BY DEF IInvAt, Types
  <2> HIDE DEF S
  <2>2. Head(msgs[W]) \in S
    BY <1>1, <2>1
  <2>. QED BY <2>2 DEF S
<1>. QED BY <1>1, <1>2 DEF Ack, Error, Msg

LEMMA WriterFailureStep ==
  ASSUME NEW g \in Nat, IInvAt(g), Failure(W)
  PROVE  IInvAt(g)'
<1>1. Types /\ WriterOK(g) /\ StreamOK(g)
  BY DEF IInvAt
<1>2. PICK label \in {"idle", "exit"} : label = IF pc[W] = "exit" THEN "exit" ELSE "idle"
  OBVIOUS
<1>3. pc[W] \in {"write", "writeEnd", "exit"} /\ msgs[W] # <<>> /\ msgs' = Rest(W)
      /\ Head(msgs[W]).type = "error" /\ ~ Head(msgs[W]).retry
      /\ pc' = [pc EXCEPT ![W] = label]
      /\ UNCHANGED <<sm, left, sent, got, readBytes, done, eof, amVars>>
  BY <1>1, <1>2 DEF Failure, Received, Types
<1>4. closed
  <2>1. ~ Asked(W) /\ ~ Replied(W, <<>>)
    BY <1>3 DEF Asked, Replied
  <2>2. ~ Replied(W, <<Ack>>) /\ ~ Replied(W, <<Error(TRUE)>>)
    BY <1>3 DEF Replied, Ack, Error, Msg
  <2>. QED BY <1>1, <1>3, <2>1, <2>2 DEF WriterOK, Waiting
<1>5. done' \in Nat /\ done' <= g
  BY <1>1, <1>3 DEF Types, StreamOK
<1>6. UNCHANGED <<sm, left, sent, got, readBytes, eof, amVars>>
  BY <1>3
<1>. QED BY <1>2, <1>3, <1>4, <1>5, <1>6, WriterReceiveStep

LEMMA WriterExitReceivedStep ==
  ASSUME NEW g \in Nat, IInvAt(g), ExitReceived(W)
  PROVE  IInvAt(g)'
<1>1. Types /\ WriterOK(g) /\ StreamOK(g)
  BY DEF IInvAt
<1>2. pc[W] = "exit" /\ msgs[W] # <<>> /\ msgs' = Rest(W)
      /\ Head(msgs[W]).type = "received" /\ pc' = [pc EXCEPT ![W] = "done"]
      /\ UNCHANGED <<sm, left, sent, got, readBytes, done, eof, amVars>>
  BY DEF ExitReceived, Received
<1>3. closed
  <2>1. ~ Asked(W) /\ ~ Replied(W, <<Error(TRUE)>>)
    BY <1>2 DEF Asked, Replied, Error, Msg
  <2>. QED BY <1>1, <1>2, <2>1 DEF WriterOK
<1>4. done' \in Nat /\ done' <= g
  BY <1>1, <1>2 DEF Types, StreamOK
<1>5. UNCHANGED <<sm, left, sent, got, readBytes, eof, amVars>>
  BY <1>2
<1>. QED BY <1>2, <1>3, <1>4, <1>5, WriterReceiveStep

-----------------------------------------------------------------------------
(* The reader's steps.                                                     *)
LEMMA ReaderRequestStep ==
  ASSUME NEW g \in Nat, IInvAt(g), NEW m \in Requests, m.src = R, NEW label, NEW rest,
         rest = msgs \/ (msgs[R] # <<>> /\ rest = Rest(R)), Request(R, m, label, rest),
         UNCHANGED <<left, sent, done, eof, amVars>>, readBytes' \in Nat, got' \in Seq(Nat),
         \/ label = "read" /\ m.type = "read"
         \/ label = "exit" /\ m.type = "exitApp",
         pc[R] # "none", MailOK(g)',
         ~ stray /\ label = "read" => /\ readBytes' = 0 /\ rest[R] = <<>>
                                     /\ Absent(msgs[AM], R)
  PROVE  IInvAt(g)'
<1>1. Types /\ ServerOK /\ RetryOK /\ ReaderOK /\ WriterOK(g) /\ StreamOK(g)
  BY DEF IInvAt
<1>2. /\ UNCHANGED <<left, sent, done, eof>>
      /\ UNCHANGED <<am, slot, closed, running, busy, stray>>
  BY DEF amVars
<1>3. /\ R \in {W, R} /\ m \in Requests /\ m.src = R /\ Request(R, m, label, rest)
      /\ rest = msgs \/ (msgs[R] # <<>> /\ rest = Rest(R))
  OBVIOUS
<1>4. /\ msgs' \in [{W, R, AM} -> Seq(Requests \cup Answers)]
      /\ msgs'[AM] = Append(msgs[AM], m) /\ msgs'[AM] \in Seq(Requests)
      /\ msgs'[R] = rest[R] /\ sm'[R] = m /\ pc'[R] = label
      /\ pc' = [pc EXCEPT ![R] = label] /\ sm' = [sm EXCEPT ![R] = m]
      /\ \A q \in {W, R} \ {R} : Kept(q)
      /\ Absent(msgs[AM], R) => Once(msgs'[AM], R, m)
      /\ WritesOnly(msgs[AM]) /\ (R = W => m.type = "write") => WritesOnly(msgs'[AM])
  BY ONLY <1>1, <1>3, RequestStep
<1>5. Kept(W) /\ msgs'[W] = msgs[W] /\ pc'[W] = pc[W] /\ sm'[W] = sm[W]
  BY <1>4, Names DEF Kept
<1>6. MailOK(g)' /\ stray' = stray
  BY <1>2
<1>7. Types'
  <2>1. msgs'[W] \in Seq({Ack, Error(TRUE), Error(FALSE)})
    BY <1>1, <1>5, MailboxTypes
  <2>4. msgs'[R] \in Seq(Answers)
    <3>1. CASE rest = msgs
      BY <1>1, <1>4, <3>1, MailboxTypes
    <3>2. CASE msgs[R] # <<>> /\ rest = Rest(R)
      BY <1>1, <1>4, <3>2, RestOf, ReaderHead
    <3>. QED BY <1>3, <3>1, <3>2
  <2>2. pc' \in [{W, R} -> {"none", "idle", "write", "writeEnd", "read", "exit", "done"}]
        /\ pc'[W] \notin {"none", "read"} /\ pc'[R] \notin {"write", "writeEnd"}
    BY <1>1, <1>4, <1>5 DEF Types
  <2>3. sm' \in [{W, R} -> Requests \cup {NoMsg}]
    BY <1>1, <1>4 DEF Types
  <2>. QED BY <1>1, <1>2, <1>4, <2>1, <2>2, <2>3, <2>4 DEF Types
<1>8. ServerOK'
  BY <1>1, <1>2, <1>4 DEF ServerOK, EndMeansClosed
<1>9. RetryOK'
  <2>1. m \in Asking(R, {m.type})
    BY Names DEF Requests, Asking
  <2>. QED BY <1>1, <1>4, <1>5, <2>1 DEF RetryOK
<1>10. ReaderOK'
  <2>1. ~ stray /\ label = "read" => Asked(R)' /\ readBytes' = 0
    BY <1>4 DEF Asked
  <2>. QED BY <1>4, <1>6, <2>1 DEF ReaderOK
<1>11. WriterOK(g)'
  BY <1>1, <1>2, <1>5, <1>6, WriterFrame
<1>12. StreamOK(g)'
  BY <1>1, <1>2, <1>4, <1>5, <1>6, StreamFrame, Names
<1>. QED BY <1>7, <1>8, <1>9, <1>10, <1>11, <1>12 DEF IInvAt

LEMMA ReaderSends ==
  ASSUME Types, NEW m \in Requests, m.src = R, NEW label, NEW rest,
         rest = msgs \/ (msgs[R] # <<>> /\ rest = Rest(R)), Request(R, m, label, rest)
  PROVE  msgs'[R] = rest[R]
<1>1. R \in {W, R}
  OBVIOUS
<1>. QED BY <1>1, RequestStep

LEMMA ReadCallStep ==
  ASSUME NEW g \in Nat, IInvAt(g), NEW n \in Counts, ReadCall(n)
  PROVE  IInvAt(g)'
<1>1. Types /\ ReaderOK /\ MailOK(g)
  BY DEF IInvAt, StreamOK
<1>2. PICK m : m = Msg("read", R, <<>>, n, FALSE)
  OBVIOUS
<1>3. pc[R] = "idle" /\ Request(R, m, "read", msgs) /\ readBytes' = 0 /\ got' = got
      /\ UNCHANGED <<left, sent, done, eof, amVars>>
  BY <1>2 DEF ReadCall
<1>4. n \in Nat
  BY PipeAssumption
<1>5. m \in Requests /\ m.src = R /\ m.type = "read"
  BY <1>2, <1>4 DEF Msg, Requests, Asking
<1>6. ~ stray => msgs[R] = <<>> /\ Absent(msgs[AM], R)
  BY <1>1, <1>3 DEF ReaderOK, Replied
<1>7. msgs'[R] = msgs[R]
  BY <1>1, <1>3, <1>5, ReaderSends
<1>8. MailOK(g)' /\ got' \in Seq(Nat)
  BY <1>1, <1>3, <1>7, MailFrame DEF Types
<1>. QED BY <1>3, <1>5, <1>6, <1>8, ReaderRequestStep

LEMMA ReaderEndStep ==
  ASSUME NEW g \in Nat, IInvAt(g), NEW rest, rest = msgs \/ (msgs[R] # <<>> /\ rest = Rest(R)),
         EndTask(R, rest), UNCHANGED <<left, sent, readBytes, done, eof, amVars>>,
         pc[R] # "none", got' \in Seq(Nat), msgs'[R] = rest[R] => MailOK(g)'
  PROVE  IInvAt(g)'
<1>1. Types
  BY DEF IInvAt
<1>2. PICK m : m = Msg("exitApp", R, <<>>, 0, FALSE)
  OBVIOUS
<1>3. Request(R, m, "exit", rest)
  BY <1>2 DEF EndTask
<1>4. m \in Requests /\ m.src = R /\ m.type = "exitApp"
  BY <1>2 DEF Msg, Requests, Asking
<1>5. MailOK(g)'
  BY <1>1, <1>3, <1>4, ReaderSends
<1>6. readBytes' \in Nat
  BY <1>1 DEF Types
<1>. QED BY <1>3, <1>4, <1>5, <1>6, ReaderRequestStep

LEMMA ReaderExitStep ==
  ASSUME NEW g \in Nat, IInvAt(g), Exit(R)
  PROVE  IInvAt(g)'
<1>1. Types /\ MailOK(g)
  BY DEF IInvAt, StreamOK
<1>2. pc[R] = "idle" /\ EndTask(R, msgs) /\ got' = got
      /\ UNCHANGED <<left, sent, readBytes, done, eof, amVars>>
  BY DEF Exit
<1>3. got' \in Seq(Nat) /\ (msgs'[R] = msgs[R] => MailOK(g)')
  BY <1>1, <1>2, MailFrame DEF Types
<1>. QED BY <1>2, <1>3, ReaderEndStep

LEMMA ReaderKilledStep ==
  ASSUME NEW g \in Nat, IInvAt(g), Killed(R)
  PROVE  IInvAt(g)'
<1>1. Types /\ MailOK(g)
  BY DEF IInvAt, StreamOK
<1>2. /\ pc[R] = "read" /\ msgs[R] # <<>> /\ EndTask(R, Rest(R))
      /\ got' = got \o Head(msgs[R]).data
      /\ UNCHANGED <<left, sent, readBytes, done, eof, amVars>>
  BY Names DEF Killed, Received
<1>3. Rest(R)[R] = Tail(msgs[R])
  BY <1>1, <1>2, RestOf
<1>4. msgs'[R] = Rest(R)[R] => MailOK(g)'
  BY <1>1, <1>2, <1>3, TakeHead
<1>5. got' \in Seq(Nat)
  <2>1. got \in Seq(Nat) /\ Head(msgs[R]).data \in Seq(Nat)
    BY <1>1, <1>2, ReaderHead DEF Types
  <2>2. got \o Head(msgs[R]).data \in Seq(Nat)
    BY ONLY <2>1, ConcatProperties
  <2>. QED BY <1>2, <2>2
<1>. QED BY <1>2, <1>4, <1>5, ReaderEndStep

(* What the reader finds in its mailbox.                                   *)
LEMMA ReaderMail ==
  ASSUME NEW g \in Nat, IInvAt(g), pc[R] = "read", ~ stray, msgs[R] # <<>>
  PROVE  /\ Absent(msgs[AM], R)
         /\ \/ msgs[R] = <<Error(TRUE)>> /\ readBytes = 0
            \/ /\ readBytes = 0
               /\ \E d \in Seq(Nat) : d # <<>> /\ msgs[R] = <<Data(d), EndOfData>>
            \/ (readBytes > 0 \/ closed) /\ msgs[R] = <<EndOfData>>
<1>1. ~ Asked(R)
  BY DEF Asked
<1>. QED BY <1>1 DEF IInvAt, ReaderOK, Replied

LEMMA AnswersAre ==
  /\ \A d \in Seq(Nat) : Data(d) \in Answers /\ Data(d).type = "read" /\ Data(d).data = d
  /\ EndOfData \in Answers /\ EndOfData.type = "read" /\ EndOfData.data = <<>>
  /\ Ack \in Answers /\ Ack.type = "received" /\ Ack.data = <<>>
  /\ Error(TRUE) \in Answers /\ Error(TRUE).type = "error"
  /\ Error(TRUE).data = <<>> /\ Error(TRUE).retry
  /\ Error(FALSE) \in Answers /\ Error(FALSE).type = "error"
<1>1. <<>> \in Seq(Nat)
  OBVIOUS
<1>. QED BY <1>1 DEF Data, EndOfData, Ack, Error, Msg, Answers

LEMMA ReaderRetryStep ==
  ASSUME NEW g \in Nat, IInvAt(g), Retry(R)
  PROVE  IInvAt(g)'
<1>1. Types /\ RetryOK /\ MailOK(g)
  BY DEF IInvAt, StreamOK
<1>2. pc[R] \in {"read", "exit"} /\ msgs[R] # <<>> /\ Head(msgs[R]).type = "error"
      /\ Request(R, sm[R], pc[R], Rest(R)) /\ readBytes' = readBytes /\ got' = got
      /\ UNCHANGED <<left, sent, done, eof, amVars>>
  BY <1>1 DEF Retry, Received, Types
<1>3. /\ sm[R] \in Requests /\ sm[R].src = R
      /\ sm[R].type = IF pc[R] = "exit" THEN "exitApp" ELSE "read"
  BY <1>1, <1>2 DEF RetryOK, Asking, Requests
<1>4. ~ stray /\ pc[R] = "read" =>
        Absent(msgs[AM], R) /\ msgs[R] = <<Error(TRUE)>> /\ readBytes = 0
  <2>1. \A d \in Seq(Nat) : Head(<<Data(d), EndOfData>>).type = "read"
    BY AnswersAre
  <2>2. Head(<<EndOfData>>).type = "read"
    BY AnswersAre
  <2>. QED BY <1>2, <2>1, <2>2, ReaderMail
<1>5. Rest(R)[R] = Tail(msgs[R]) /\ Tail(<<Error(TRUE)>>) = <<>>
  BY <1>1, <1>2, RestOf
<1>6. msgs'[R] = Rest(R)[R]
  BY <1>1, <1>2, <1>3, ReaderSends
<1>7. MailOK(g)'
  BY <1>1, <1>2, <1>5, <1>6, DropHead
<1>8. readBytes' \in Nat /\ got' \in Seq(Nat)
  BY <1>1, <1>2 DEF Types
<1>9. ~ stray /\ pc[R] = "read" =>
        readBytes' = 0 /\ Rest(R)[R] = <<>> /\ Absent(msgs[AM], R)
  BY <1>2, <1>4, <1>5
<1>. QED BY <1>2, <1>3, <1>7, <1>8, <1>9, ReaderRequestStep

LEMMA ReaderReceiveStep ==
  ASSUME NEW g \in Nat, IInvAt(g), msgs[R] # <<>>, msgs' = Rest(R),
         NEW label \in {"idle", "read", "exit", "done"},
         pc' = [pc EXCEPT ![R] = label], UNCHANGED <<sm, left, sent, done, amVars>>,
         got' \in Seq(Nat), readBytes' \in Nat, eof' \in BOOLEAN, eof' => closed \/ stray,
         label \in {"read", "exit"} => pc[R] = label, pc[R] # "none",
         MailOK(g)', ReaderOK'
  PROVE  IInvAt(g)'
<1>1. Types /\ ServerOK /\ RetryOK /\ ReaderOK /\ WriterOK(g) /\ StreamOK(g)
  BY DEF IInvAt
<1>2. UNCHANGED <<am, slot, closed, running, busy, stray, sm, left, sent, done>>
  BY DEF amVars
<1>3. R \in {W, R} /\ sm' = sm
  BY <1>2
<1>4. /\ msgs' \in [{W, R, AM} -> Seq(Requests \cup Answers)]
      /\ msgs'[AM] = msgs[AM] /\ msgs'[R] = Tail(msgs[R]) /\ pc'[R] = label
      /\ \A q \in {W, R} \ {R} : Kept(q)
  BY <1>1, <1>3, ReceiveStep
<1>5. Kept(W) /\ msgs'[W] = msgs[W] /\ pc'[W] = pc[W]
  BY <1>4, Names DEF Kept
<1>6. Types'
  <2>1. msgs'[W] \in Seq({Ack, Error(TRUE), Error(FALSE)}) /\ msgs'[AM] \in Seq(Requests)
    BY <1>1, <1>4, <1>5 DEF Types
  <2>2. pc' \in [{W, R} -> {"none", "idle", "write", "writeEnd", "read", "exit", "done"}]
        /\ pc'[W] \notin {"none", "read"} /\ pc'[R] \notin {"write", "writeEnd"}
    BY <1>1, <1>4, <1>5 DEF Types
  <2>3. msgs'[R] \in Seq(Answers)
    BY <1>1, <1>4, ReaderHead
  <2>. QED BY <1>1, <1>2, <1>4, <2>1, <2>2, <2>3 DEF Types
<1>7. ServerOK'
  BY <1>1, <1>2, <1>4 DEF ServerOK, EndMeansClosed
<1>8. RetryOK'
  BY <1>1, <1>2, <1>4, <1>5 DEF RetryOK
<1>9. WriterOK(g)'
  BY <1>1, <1>2, <1>5, WriterFrame
<1>10. StreamOK(g)'
  BY <1>1, <1>2, <1>4, <1>5, StreamFrame
<1>. QED BY <1>6, <1>7, <1>8, <1>9, <1>10 DEF IInvAt

LEMMA ReaderFailureStep ==
  ASSUME NEW g \in Nat, IInvAt(g), Failure(R)
  PROVE  IInvAt(g)'
<1>1. Types /\ ServerOK /\ MailOK(g)
  BY DEF IInvAt, StreamOK
<1>2. PICK label : label = IF pc[R] = "exit" THEN "exit" ELSE "idle"
  OBVIOUS
<1>3. /\ pc[R] \in {"read", "exit"} /\ msgs[R] # <<>> /\ msgs' = Rest(R)
      /\ Head(msgs[R]).type = "error" /\ ~ Head(msgs[R]).retry
      /\ pc' = [pc EXCEPT ![R] = label] /\ got' = got /\ readBytes' = readBytes /\ eof' = eof
      /\ UNCHANGED <<sm, left, sent, done, amVars>>
  BY <1>1, <1>2 DEF Failure, Received, Types
<1>4. pc[R] = "read" => stray
  <2>1. \A d \in Seq(Nat) : Head(<<Data(d), EndOfData>>).type = "read"
    BY AnswersAre
  <2>2. Head(<<EndOfData>>).type = "read" /\ Head(<<Error(TRUE)>>).retry
    <3>1. \A x : Head(<<x>>) = x
      OBVIOUS
    <3>. QED BY <3>1, AnswersAre, Zenon
  <2>. QED BY <1>3, <2>1, <2>2, ReaderMail
<1>5. msgs'[R] = Tail(msgs[R])
  BY <1>1, <1>3, RestOf
<1>6. MailOK(g)' /\ got' \in Seq(Nat) /\ readBytes' \in Nat /\ eof' \in BOOLEAN
      /\ (eof' => closed \/ stray)
  BY <1>1, <1>3, <1>5, DropHead DEF Types, ServerOK, EndMeansClosed
<1>7. (label = "exit" /\ pc[R] = "exit") \/ (label = "idle" /\ stray)
  <2>1. CASE pc[R] = "exit"
    BY <1>2, <2>1
  <2>2. CASE pc[R] = "read"
    <3>1. stray
      BY <1>4, <2>2
    <3>2. label = "idle"
      BY <1>2, <2>2
    <3>. QED BY <3>1, <3>2
  <2>. QED BY <1>3, <2>1, <2>2
<1>8. ReaderOK'
  <2>1. pc'[R] = label /\ stray' = stray
    BY <1>1, <1>3 DEF Types, amVars
  <2>. QED BY <1>7, <2>1 DEF ReaderOK
<1>. QED BY <1>3, <1>6, <1>7, <1>8, ReaderReceiveStep

LEMMA ReaderIgnoredStep ==
  ASSUME NEW g \in Nat, IInvAt(g), Ignored(R)
  PROVE  IInvAt(g)'
<1>1. Types /\ ServerOK /\ MailOK(g)
  BY DEF IInvAt, StreamOK
<1>2. /\ pc[R] = "exit" /\ msgs[R] # <<>> /\ msgs' = Rest(R) /\ pc' = pc
      /\ got' = got \o Head(msgs[R]).data /\ readBytes' = readBytes /\ eof' = eof
      /\ UNCHANGED <<sm, left, sent, done, amVars>>
  BY DEF Ignored, Received
<1>3. msgs'[R] = Tail(msgs[R])
  BY <1>1, <1>2, RestOf
<1>4. MailOK(g)' /\ got' \in Seq(Nat)
  BY <1>1, <1>2, <1>3, TakeHead
<1>5. readBytes' \in Nat /\ eof' \in BOOLEAN /\ (eof' => closed \/ stray)
  BY <1>1, <1>2 DEF Types, ServerOK, EndMeansClosed
<1>6. pc' = [pc EXCEPT ![R] = "exit"]
  BY <1>1, <1>2 DEF Types
<1>7. ReaderOK'
  BY <1>2 DEF ReaderOK
<1>. QED BY <1>2, <1>4, <1>5, <1>6, <1>7, ReaderReceiveStep

LEMMA ReadReceivedStep ==
  ASSUME NEW g \in Nat, IInvAt(g), ReadReceived
  PROVE  IInvAt(g)'
<1>1. Types /\ ServerOK /\ MailOK(g)
  BY DEF IInvAt, StreamOK
<1>2. PICK m : m = Head(msgs[R])
  OBVIOUS
<1>3. /\ pc[R] = "read" /\ msgs[R] # <<>> /\ m.type = "read" /\ msgs' = Rest(R)
      /\ got' = got \o m.data /\ readBytes' = readBytes + Len(m.data)
      /\ pc' = IF m.data = <<>> THEN [pc EXCEPT ![R] = "idle"] ELSE pc
      /\ eof' = (eof \/ (m.data = <<>> /\ readBytes = 0 /\ sm[R].count > 0))
      /\ UNCHANGED <<sm, left, sent, done, amVars>>
  BY <1>2 DEF ReadReceived, Received
<1>4. msgs'[R] = Tail(msgs[R]) /\ msgs'[AM] = msgs[AM]
  BY <1>1, <1>3, RestOf, Names
<1>5. MailOK(g)' /\ got' \in Seq(Nat)
  BY <1>1, <1>2, <1>3, <1>4, TakeHead
<1>6. m.data \in Seq(Nat)
  BY <1>1, <1>2, <1>3, ReaderHead
<1>7. ~ stray => /\ Absent(msgs[AM], R)
                 /\ \/ readBytes = 0 /\ m.data # <<>> /\ Tail(msgs[R]) = <<EndOfData>>
                    \/ (readBytes > 0 \/ closed) /\ m.data = <<>> /\ Tail(msgs[R]) = <<>>
  <2>1. \A x : Head(<<x>>) = x /\ Tail(<<x>>) = <<>>
    OBVIOUS
  <2>2. Head(<<Error(TRUE)>>).type = "error"
    BY <2>1, AnswersAre, Zenon
  <2>3. Head(<<EndOfData>>).data = <<>>
    BY <2>1, AnswersAre, Zenon
  <2>4. \A x, y : Head(<<x, y>>) = x /\ Tail(<<x, y>>) = <<y>>
    OBVIOUS
  <2>5. \A d \in Seq(Nat) : Head(<<Data(d), EndOfData>>).data = d
    BY <2>4, AnswersAre, Zenon
  <2>6. CASE msgs[R] = <<Error(TRUE)>>
    BY <1>2, <1>3, <2>2, <2>6
  <2>7. CASE msgs[R] = <<EndOfData>>
    <3>1. m.data = <<>> /\ Tail(msgs[R]) = <<>>
      BY <1>2, <2>1, <2>3, <2>7
    <3>2. \A d \in Seq(Nat) : msgs[R] # <<Data(d), EndOfData>>
      <4>1. Len(msgs[R]) = 1
        BY <2>7
      <4>2. \A x, y : Len(<<x, y>>) = 2
        OBVIOUS
      <4>3. \A d : Len(<<Data(d), EndOfData>>) = 2
        BY <4>2
      <4>4. \A d : Len(<<Data(d), EndOfData>>) # 1
        BY ONLY <4>3
      <4>. QED BY ONLY <4>1, <4>4, Zenon
    <3>3. <<EndOfData>> # <<Error(TRUE)>>
      <4>1. Head(<<EndOfData>>).type = "read"
        BY <2>1, AnswersAre, Zenon
      <4>. QED BY <2>2, <4>1
    <3>. QED BY <1>3, <2>7, <3>1, <3>2, <3>3, ReaderMail
  <2>8. ASSUME NEW d \in Seq(Nat), d # <<>>, msgs[R] = <<Data(d), EndOfData>>
        PROVE  m.data # <<>> /\ Tail(msgs[R]) = <<EndOfData>>
    BY <1>2, <2>4, <2>5, <2>8
  <2>. QED BY <1>3, <2>6, <2>7, <2>8, ReaderMail
<1>8. readBytes \in Nat /\ closed' = closed /\ stray' = stray /\ eof \in BOOLEAN
      /\ (eof => closed \/ stray) /\ pc = [q \in {W, R} |-> pc[q]]
  BY <1>1, <1>3 DEF Types, ServerOK, EndMeansClosed, amVars
<1>9. CASE m.data # <<>>
  <2>1. pc' = [pc EXCEPT ![R] = "read"] /\ pc'[R] = "read" /\ eof' = eof
    BY <1>3, <1>8, <1>9
  <2>2. readBytes' > 0 /\ readBytes' \in Nat
    <3>1. Len(m.data) \in Nat /\ Len(m.data) # 0
      BY <1>6, <1>9
    <3>. QED BY <1>3, <1>8, <3>1
  <2>3. ~ stray => Replied(R, <<EndOfData>>)'
    BY <1>4, <1>7, <1>9 DEF Replied
  <2>4. ReaderOK'
    BY <1>8, <2>1, <2>2, <2>3 DEF ReaderOK
  <2>. QED BY <1>3, <1>5, <1>8, <2>1, <2>2, <2>4, ReaderReceiveStep
<1>10. CASE m.data = <<>>
  <2>1. pc' = [pc EXCEPT ![R] = "idle"] /\ pc'[R] = "idle"
    BY <1>3, <1>8, <1>10
  <2>2. readBytes' \in Nat /\ eof' \in BOOLEAN
    <3>1. Len(m.data) \in Nat
      BY <1>6
    <3>. QED BY <1>3, <1>8, <3>1
  <2>3. eof' => closed \/ stray
    BY <1>3, <1>7, <1>8, <1>10
  <2>4. ~ stray => Replied(R, <<>>)'
    BY <1>4, <1>7, <1>10 DEF Replied
  <2>5. ReaderOK'
    BY <1>8, <2>1, <2>4 DEF ReaderOK
  <2>. QED BY <1>3, <1>5, <2>1, <2>2, <2>3, <2>5, ReaderReceiveStep
<1>. QED BY <1>9, <1>10

LEMMA ReaderExitReceivedStep ==
  ASSUME NEW g \in Nat, IInvAt(g), ExitReceived(R)
  PROVE  IInvAt(g)'
<1>1. Types /\ ServerOK /\ MailOK(g)
  BY DEF IInvAt, StreamOK
<1>2. /\ pc[R] = "exit" /\ msgs[R] # <<>> /\ Head(msgs[R]).type = "received"
      /\ msgs' = Rest(R) /\ pc' = [pc EXCEPT ![R] = "done"]
      /\ got' = got /\ readBytes' = readBytes /\ eof' = eof
      /\ UNCHANGED <<sm, left, sent, done, amVars>>
  BY DEF ExitReceived, Received
<1>3. msgs'[R] = Tail(msgs[R])
  BY <1>1, <1>2, RestOf
<1>4. MailOK(g)'
  BY <1>1, <1>2, <1>3, DropHead
<1>5. got' \in Seq(Nat) /\ readBytes' \in Nat /\ eof' \in BOOLEAN /\ (eof' => closed \/ stray)
      /\ pc'[R] = "done"
  BY <1>1, <1>2 DEF Types, ServerOK, EndMeansClosed
<1>6. ReaderOK'
  BY <1>5 DEF ReaderOK
<1>. QED BY <1>2, <1>4, <1>5, <1>6, ReaderReceiveStep

-----------------------------------------------------------------------------
(* The server's steps: whose message it takes, and where the sender is.    *)
LEMMA FromReader ==
  ASSUME NEW g \in Nat, IInvAt(g), msgs[AM] # <<>>, Head(msgs[AM]).src = R
  PROVE  /\ pc[R] # "none"
         /\ ~ stray => /\ pc[R] # "idle"
                       /\ pc[R] = "read" => /\ Head(msgs[AM]) = sm[R] /\ msgs[R] = <<>>
                                            /\ Absent(Tail(msgs[AM]), R) /\ readBytes = 0
<1>1. ReaderOK /\ msgs[AM] \in Seq(Requests)
  BY DEF IInvAt, Types
<1>2. ~ Absent(msgs[AM], R)
  BY <1>1, QueueTail
<1>3. \A ms : ~ Replied(R, ms)
  BY <1>2 DEF Replied
<1>4. pc[R] # "none" /\ (~ stray => pc[R] # "idle")
      /\ (~ stray /\ pc[R] = "read" => Asked(R) /\ readBytes = 0)
  BY <1>1, <1>3 DEF ReaderOK
<1>5. \A x : Once(msgs[AM], R, x) => Head(msgs[AM]) = x /\ Absent(Tail(msgs[AM]), R)
  BY <1>1, QueueTail
<1>. QED BY <1>4, <1>5 DEF Asked

LEMMA FromWriter ==
  ASSUME NEW g \in Nat, IInvAt(g), msgs[AM] # <<>>, Head(msgs[AM]).src = W, ~ closed
  PROVE  /\ pc[W] \in {"write", "writeEnd", "exit"} /\ Head(msgs[AM]) = sm[W]
         /\ msgs[W] = <<>> /\ Absent(Tail(msgs[AM]), W) /\ slot = <<>>
         /\ pc[W] = "write" => sm[W].data # <<>> /\ OnTheWay(g, sm[W].data)
         /\ pc[W] \in {"writeEnd", "exit"} => sm[W].data = <<>> /\ Drained(g)
<1>1. Types /\ WriterOK(g) /\ msgs[AM] \in Seq(Requests)
  BY DEF IInvAt, Types
<1>2. ~ Absent(msgs[AM], W)
  BY <1>1, QueueTail
<1>3. \A ms : ~ Replied(W, ms)
  BY <1>2 DEF Replied
<1>4. /\ Asked(W) /\ pc[W] \in {"write", "writeEnd", "exit"} /\ slot = <<>>
      /\ pc[W] = "write" => sm[W].data # <<>> /\ OnTheWay(g, sm[W].data)
      /\ pc[W] \in {"writeEnd", "exit"} => sm[W].data = <<>> /\ Drained(g)
  BY <1>1, <1>3 DEF WriterOK, Waiting, Drained, Types
<1>5. Once(msgs[AM], W, sm[W]) /\ msgs[W] = <<>>
  BY <1>4 DEF Asked
<1>6. \A x : Once(msgs[AM], W, x) => Head(msgs[AM]) = x /\ Absent(Tail(msgs[AM]), W)
  BY <1>1, QueueTail
<1>. QED BY <1>4, <1>5, <1>6

LEMMA ServerTypes ==
  ASSUME Types, msgs[AM] # <<>>, msgs' \in [{W, R, AM} -> Seq(Requests \cup Answers)],
         msgs'[AM] = Tail(msgs[AM]), msgs'[R] \in Seq(Answers),
         msgs'[W] \in Seq({Ack, Error(TRUE), Error(FALSE)}), slot' \in Seq(Nat),
         closed' \in BOOLEAN, stray' \in BOOLEAN, running' \in SUBSET {W, R},
         UNCHANGED <<appVars, am, busy>>
  PROVE  Types'
<1>1. UNCHANGED <<pc, sm, left, sent, got, readBytes, done, eof, am>>
  BY DEF appVars
<1>2. msgs'[AM] \in Seq(Requests)
  BY DEF Types
<1>. QED BY <1>1, <1>2 DEF Types

(* The writer's mailbox with one more message.                             *)
LEMMA WriterMore ==
  ASSUME Types, NEW x \in {Ack, Error(TRUE), Error(FALSE)}
  PROVE  /\ msgs[W] \o <<x>> \in Seq({Ack, Error(TRUE), Error(FALSE)})
         /\ msgs[W] = <<>> => msgs[W] \o <<x>> = <<x>>
         /\ \A i \in 1..Len(msgs[W] \o <<x>>) :
              \/ i \in 1..Len(msgs[W]) /\ (msgs[W] \o <<x>>)[i] = msgs[W][i]
              \/ i = Len(msgs[W]) + 1 /\ (msgs[W] \o <<x>>)[i] = x
<1> DEFINE S == {Ack, Error(TRUE), Error(FALSE)}
           q == msgs[W]
<1>1. q \in Seq(S) /\ x \in S
  BY DEF Types
<1> HIDE DEF S, q
<1>2. q \o <<x>> = Append(q, x)
  BY <1>1
<1>3. Append(q, x) \in Seq(S) /\ (q = <<>> => Append(q, x) = <<x>>)
  <2>1. Append(q, x) \in Seq(S)
    BY ONLY <1>1
  <2>2. q = <<>> => Append(q, x) = <<x>>
    BY ONLY <1>1
  <2>. QED BY <2>1, <2>2
<1>4. /\ Len(Append(q, x)) = Len(q) + 1 /\ Append(q, x)[Len(q) + 1] = x /\ Len(q) \in Nat
      /\ \A i \in 1..Len(q) : Append(q, x)[i] = q[i]
  BY <1>1
<1>5. \A i \in 1..Len(Append(q, x)) :
           \/ i \in 1..Len(q) /\ Append(q, x)[i] = q[i]
           \/ i = Len(q) + 1 /\ Append(q, x)[i] = x
  BY <1>4
<1>. QED BY <1>2, <1>3, <1>5 DEF S, q

LEMMA ServerStream ==
  ASSUME NEW g \in Nat, IInvAt(g), msgs[AM] # <<>>, msgs'[AM] = Tail(msgs[AM]), MailOK(g)',
         UNCHANGED <<pc, sent, done>>,
         \/ msgs'[W] = msgs[W]
         \/ msgs'[W] = msgs[W] \o <<Error(TRUE)>> \/ msgs'[W] = msgs[W] \o <<Error(FALSE)>>
         \/ pc[W] \in {"exit", "done"}
  PROVE  StreamOK(g)'
<1>1. Types /\ StreamOK(g) /\ msgs[AM] \in Seq(Requests)
  BY DEF IInvAt, Types
<1>2. WritesOnly(msgs[AM]) => WritesOnly(msgs'[AM])
  BY <1>1, QueueTail
<1>3. CASE pc[W] \in {"exit", "done"}
  BY <1>1, <1>3 DEF StreamOK
<1>4. CASE msgs'[W] = msgs[W]
  BY <1>1, <1>2, <1>4, StreamFrame
<1>5. ASSUME NEW x \in {Error(TRUE), Error(FALSE)}, msgs'[W] = msgs[W] \o <<x>>
      PROVE  StreamOK(g)'
  <2>1. x.type = "error"
    BY AnswersAre
  <2>2. \A i \in 1..Len(msgs'[W]) : msgs'[W][i].type = "received" =>
           i \in 1..Len(msgs[W]) /\ msgs'[W][i] = msgs[W][i]
    BY <1>1, <1>5, <2>1, WriterMore
  <2>. QED BY <1>1, <1>2, <2>2 DEF StreamOK
<1>. QED BY <1>3, <1>4, <1>5

(* The reader is told one thing without bytes.                             *)
LEMMA TellReader ==
  ASSUME NEW g \in Nat, IInvAt(g), msgs[AM] # <<>>, Head(msgs[AM]).src = R,
         NEW x \in Answers, x.data = <<>>,
         msgs' = Post(Rest(AM), R, <<x>>), UNCHANGED <<appVars, amVars>>,
         x = Error(TRUE) \/ (x = EndOfData /\ closed)
  PROVE  IInvAt(g)'
<1>1. Types /\ ServerOK /\ RetryOK /\ ReaderOK /\ WriterOK(g) /\ StreamOK(g)
  BY DEF IInvAt
<1>2. UNCHANGED <<pc, sm, left, sent, got, readBytes, done, eof, am, slot, closed, running, busy, stray>>
  BY DEF appVars, amVars
<1>3. /\ Rest(AM) \in [{W, R, AM} -> Seq(Requests \cup Answers)]
      /\ Rest(AM)[AM] = Tail(msgs[AM]) /\ Rest(AM)[W] = msgs[W] /\ Rest(AM)[R] = msgs[R]
  BY <1>1, RestOf, Names
<1>4. /\ msgs' \in [{W, R, AM} -> Seq(Requests \cup Answers)]
      /\ msgs'[AM] = Tail(msgs[AM]) /\ msgs'[W] = msgs[W] /\ msgs'[R] = msgs[R] \o <<x>>
  <2>1. <<x>> \in Seq(Answers) /\ R \in {W, R}
        /\ msgs' = Post(Rest(AM), R, <<x>>)
    OBVIOUS
  <2>2. /\ msgs' \in [{W, R, AM} -> Seq(Requests \cup Answers)]
        /\ msgs'[R] = Rest(AM)[R] \o <<x>>
        /\ \A q \in {W, R, AM} \ {R} : msgs'[q] = Rest(AM)[q]
    BY ONLY <1>3, <2>1, PostIs
  <2>. QED BY <1>3, <2>1, <2>2, Names
<1>5. Kept(W)
  BY <1>1, <1>2, <1>4, ServeStep, Names
<1>6. MailOK(g)' /\ msgs'[R] \in Seq(Answers)
  BY <1>1, <1>2, <1>4, MoreMail DEF StreamOK
<1>7. Types'
  <2>1. msgs'[W] \in Seq({Ack, Error(TRUE), Error(FALSE)})
    BY <1>1, <1>4, MailboxTypes
  <2>3. /\ slot' \in Seq(Nat) /\ closed' \in BOOLEAN /\ stray' \in BOOLEAN /\ running' \in SUBSET {W, R}
        /\ UNCHANGED <<appVars, am, busy>>
    BY <1>1, <1>2 DEF Types, appVars
  <2>. QED BY <1>1, <1>4, <1>6, <2>1, <2>3, ServerTypes
<1>8. ServerOK'
  BY <1>1, <1>2 DEF ServerOK, EndMeansClosed
<1>9. RetryOK'
  BY <1>1, <1>2 DEF RetryOK
<1>10. ReaderOK'
  <2>1. <<>> \o <<x>> = <<x>>
    OBVIOUS
  <2>2. ~ stray /\ pc[R] = "read" => Replied(R, <<x>>)' /\ readBytes = 0
    BY <1>4, <2>1, FromReader DEF Replied
  <2>3. pc[R] # "none" /\ (~ stray => pc[R] # "idle")
    BY FromReader
  <2>. QED BY <1>2, <2>2, <2>3 DEF ReaderOK
<1>11. WriterOK(g)'
  BY <1>1, <1>2, <1>5, <1>6, WriterFrame
<1>12. StreamOK(g)'
  BY <1>2, <1>4, <1>6, ServerStream
<1>. QED BY <1>7, <1>8, <1>9, <1>10, <1>11, <1>12 DEF IInvAt

(* The writer is told to try again, or that the pipe is closed.            *)
LEMMA TellWriter ==
  ASSUME NEW g \in Nat, IInvAt(g), msgs[AM] # <<>>, Head(msgs[AM]).src = W,
         NEW x \in {Error(TRUE), Error(FALSE)},
         msgs' = Post(Rest(AM), W, <<x>>), UNCHANGED <<appVars, amVars>>,
         closed \/ x = Error(TRUE)
  PROVE  IInvAt(g)'
<1>1. Types /\ ServerOK /\ RetryOK /\ ReaderOK /\ WriterOK(g) /\ StreamOK(g)
  BY DEF IInvAt
<1>2. UNCHANGED <<pc, sm, left, sent, got, readBytes, done, eof, am, slot, closed, running, busy, stray>>
  BY DEF appVars, amVars
<1>3. /\ Rest(AM) \in [{W, R, AM} -> Seq(Requests \cup Answers)]
      /\ Rest(AM)[AM] = Tail(msgs[AM]) /\ Rest(AM)[W] = msgs[W] /\ Rest(AM)[R] = msgs[R]
  BY <1>1, RestOf, Names
<1>4. /\ msgs' \in [{W, R, AM} -> Seq(Requests \cup Answers)]
      /\ msgs'[AM] = Tail(msgs[AM]) /\ msgs'[W] = msgs[W] \o <<x>> /\ msgs'[R] = msgs[R]
  <2>1. x \in Answers
    BY AnswersAre
  <2>2. <<x>> \in Seq(Answers) /\ W \in {W, R} /\ msgs' = Post(Rest(AM), W, <<x>>)
    BY <2>1
  <2>3. /\ msgs' \in [{W, R, AM} -> Seq(Requests \cup Answers)]
        /\ msgs'[W] = Rest(AM)[W] \o <<x>>
        /\ \A q \in {W, R, AM} \ {W} : msgs'[q] = Rest(AM)[q]
    BY ONLY <1>3, <2>2, PostIs
  <2>. QED BY <1>3, <2>3, Names
<1>5. Kept(R)
  BY <1>1, <1>2, <1>4, ServeStep, Names
<1>6. MailOK(g)'
  BY <1>1, <1>2, <1>4, MailFrame DEF StreamOK
<1>7. Types'
  <2>1. msgs'[W] \in Seq({Ack, Error(TRUE), Error(FALSE)})
    BY <1>1, <1>4, WriterMore
  <2>2. msgs'[R] \in Seq(Answers)
    BY <1>1, <1>4, MailboxTypes
  <2>3. /\ slot' \in Seq(Nat) /\ closed' \in BOOLEAN /\ stray' \in BOOLEAN /\ running' \in SUBSET {W, R}
        /\ UNCHANGED <<appVars, am, busy>>
    BY <1>1, <1>2 DEF Types, appVars
  <2>. QED BY <1>1, <1>4, <2>1, <2>2, <2>3, ServerTypes
<1>8. ServerOK'
  BY <1>1, <1>2 DEF ServerOK, EndMeansClosed
<1>9. RetryOK'
  BY <1>1, <1>2 DEF RetryOK
<1>10. ReaderOK'
  BY <1>1, <1>2, <1>5, ReaderFrame
<1>11. WriterOK(g)'
  <2> SUFFICES ASSUME ~ closed
               PROVE  WriterOK(g)'
    BY <1>2 DEF WriterOK
  <2>1. Replied(W, <<Error(TRUE)>>)'
    BY <1>1, <1>4, FromWriter, WriterMore DEF Replied
  <2>2. pc[W] = "write" => sm'[W].data # <<>> /\ slot' = <<>> /\ OnTheWay(g, sm[W].data)'
    BY <1>2, <1>6, FromWriter DEF OnTheWay
  <2>3. pc[W] = "write" => Waiting(g, sm[W].data)'
    BY <2>1, <2>2 DEF Waiting
  <2>4. pc[W] \in {"writeEnd", "exit"} => sm'[W].data = <<>> /\ Drained(g)'
    BY <1>2, <1>6, FromWriter DEF Drained
  <2>5. pc[W] \in {"write", "writeEnd", "exit"} /\ pc' = pc
    BY <1>2, FromWriter
  <2>. QED BY <2>1, <2>2, <2>3, <2>4, <2>5 DEF WriterOK
<1>12. StreamOK(g)'
  BY <1>2, <1>4, <1>6, ServerStream
<1>. QED BY <1>7, <1>8, <1>9, <1>10, <1>11, <1>12 DEF IInvAt

LEMMA BounceStep ==
  ASSUME NEW g \in Nat, IInvAt(g), Bounce
  PROVE  IInvAt(g)'
<1>1. msgs[AM] # <<>> /\ UNCHANGED <<appVars, amVars>>
      /\ msgs' = Post(Rest(AM), Head(msgs[AM]).src, <<Error(TRUE)>>)
  BY DEF Bounce
<1>2. Head(msgs[AM]) \in Requests
  BY <1>1 DEF IInvAt, Types
<1>3. Head(msgs[AM]).src \in {W, R}
  BY <1>2 DEF Requests, Asking
<1>4. Error(TRUE) \in Answers /\ Error(TRUE).data = <<>>
  BY AnswersAre
<1>5. CASE Head(msgs[AM]).src = R
  BY <1>1, <1>4, <1>5, TellReader
<1>6. CASE Head(msgs[AM]).src = W
  BY <1>1, <1>6, TellWriter
<1>. QED BY <1>3, <1>5, <1>6

(* A read() of an open pipe with bytes in it: k of them go to the reader,  *)
(* and the writer is told when that was the last of the chunk.             *)
LEMMA SlotInUse ==
  ASSUME NEW g \in Nat, IInvAt(g), ~ closed, slot # <<>>
  PROVE  pc[W] = "write" /\ Replied(W, <<>>) /\ OnTheWay(g, slot)
<1>1. Types /\ WriterOK(g)
  BY DEF IInvAt
<1>. QED BY <1>1 DEF WriterOK, Waiting, Drained, Types

LEMMA ReadOpenStep ==
  ASSUME NEW g \in Nat, IInvAt(g), msgs[AM] # <<>>, Head(msgs[AM]).src = R, ~ closed,
         slot # <<>>, NEW k \in 0..Len(slot), stray' \in BOOLEAN, k = 0 => stray', stray => stray',
         msgs' \in [{W, R, AM} -> Seq(Requests \cup Answers)],
         msgs'[AM] = Tail(msgs[AM]),
         msgs'[R] = msgs[R] \o <<Data(SubSeq(slot, 1, k)), EndOfData>>,
         slot' = SubSeq(slot, k + 1, Len(slot)),
         msgs'[W] = IF k = Len(slot) THEN <<Ack>> ELSE <<>>,
         UNCHANGED <<appVars, am, closed, running, busy>>
  PROVE  g + k \in Nat /\ IInvAt(g + k)'
<1>1. Types /\ ServerOK /\ RetryOK /\ ReaderOK /\ WriterOK(g) /\ StreamOK(g)
  BY DEF IInvAt
<1>2. UNCHANGED <<pc, sm, left, sent, got, readBytes, done, eof, am, closed, running, busy>>
  BY DEF appVars
<1>3. pc[W] = "write" /\ Absent(msgs[AM], W) /\ msgs[W] = <<>> /\ OnTheWay(g, slot)
  BY SlotInUse DEF Replied
<1>4. PICK n \in Nat : n = Len(slot)
  BY <1>1 DEF Types
<1>5. slot = Bytes(g, n) /\ sent = g + n /\ k \in 0..n /\ n > 0
  <2>1. slot = Bytes(g, n) /\ sent = g + n /\ k \in 0..n
    BY <1>3, <1>4 DEF OnTheWay
  <2>2. n # 0
    <3>1. slot \in Seq(Nat)
      BY <1>1 DEF Types
    <3>. QED BY <1>4, <3>1
  <2>. QED BY <2>1, <2>2
<1>6. PICK h \in Nat : h = g + k
  BY <1>5
<1>7. k \in Nat /\ n - k \in Nat /\ h + (n - k) = g + n /\ g <= h
  BY <1>5, <1>6
<1>8. SubSeq(slot, 1, k) = Bytes(g, k) /\ slot' = Bytes(h, n - k)
  <2>1. /\ SubSeq(Bytes(g, n), 1, k) = Bytes(g, k)
        /\ SubSeq(Bytes(g, n), k + 1, n) = Bytes(g + k, n - k)
    BY <1>5, BytesCut
  <2>. QED BY <1>4, <1>5, <1>6, <2>1
<1>9. /\ Bytes(g, k) \in Seq(Nat) /\ Len(Bytes(g, k)) = k
      /\ slot' \in Seq(Nat) /\ Len(slot') = n - k
  <2>1. Bytes(g, k) \in Seq(Nat) /\ Len(Bytes(g, k)) = k
    BY <1>7, BytesAre
  <2>2. Bytes(h, n - k) \in Seq(Nat) /\ Len(Bytes(h, n - k)) = n - k
    BY <1>7, BytesAre
  <2>. QED BY <1>8, <2>1, <2>2
<1>10. PICK x \in Answers : x = Data(Bytes(g, k)) /\ x.type = "read" /\ x.data = Bytes(g, k)
  BY <1>9, AnswersAre
<1>11. msgs'[R] = msgs[R] \o <<x, EndOfData>> /\ EndOfData \in Answers /\ EndOfData.data = <<>>
  BY <1>8, <1>10, AnswersAre
<1>12. MailOK(h)' /\ msgs'[R] \in Seq(Answers)
  <2>1. Piece(x, g, h)
    BY <1>6, <1>9, <1>10 DEF Piece
  <2>. QED BY <1>1, <1>2, <1>11, <2>1, AnsweredMail DEF StreamOK
<1>13. msgs[AM] \in Seq(Requests) /\ Head(msgs[AM]).src # W
  BY <1>1, Names DEF Types
<1>14. Absent(msgs'[AM], W)
  BY <1>3, <1>13, QueueTail
<1>15. Types'
  <2>1. msgs'[W] \in Seq({Ack, Error(TRUE), Error(FALSE)})
    <3>1. \A S : \A y \in S : <<y>> \in Seq(S) /\ <<>> \in Seq(S)
      OBVIOUS
    <3>. QED BY <3>1
  <2>2. /\ slot' \in Seq(Nat) /\ closed' \in BOOLEAN /\ stray' \in BOOLEAN
        /\ running' \in SUBSET {W, R} /\ UNCHANGED <<appVars, am, busy>>
    BY <1>1, <1>2, <1>9 DEF Types, appVars
  <2>. QED BY <1>1, <1>12, <2>1, <2>2, ServerTypes
<1>16. ServerOK'
  BY <1>1, <1>2 DEF ServerOK, EndMeansClosed
<1>17. RetryOK'
  BY <1>1, <1>2 DEF RetryOK
<1>18. ReaderOK'
  <2>1. pc[R] # "none" /\ (~ stray => pc[R] # "idle")
    BY FromReader
  <2>2. ASSUME ~ stray', pc[R] = "read"
        PROVE  readBytes = 0 /\ \E d \in Seq(Nat) : d # <<>> /\ Replied(R, <<Data(d), EndOfData>>)'
    <3>1. Absent(Tail(msgs[AM]), R) /\ readBytes = 0 /\ msgs[R] = <<>>
      BY <2>2, FromReader
    <3>2. msgs'[R] = <<x, EndOfData>>
      <4>1. \A y, z : <<>> \o <<y, z>> = <<y, z>>
        OBVIOUS
      <4>. QED BY <1>11, <3>1, <4>1
    <3>3. Bytes(g, k) # <<>>
      <4>1. k # 0
        BY <2>2
      <4>. QED BY <1>9, <4>1
    <3>4. Replied(R, <<Data(Bytes(g, k)), EndOfData>>)'
      BY <1>10, <3>1, <3>2 DEF Replied
    <3>. QED BY <1>9, <3>1, <3>3, <3>4
  <2>. QED BY <1>2, <2>1, <2>2 DEF ReaderOK
<1>19. WriterOK(h)'
  <2>1. CASE k = n
    <3>1. Replied(W, <<Ack>>)' /\ Drained(h)'
      <4>1. msgs'[W] = <<Ack>>
        BY <1>4, <2>1
      <4>2. slot' = <<>>
        BY <1>9, <2>1
      <4>3. sent' = h
        BY <1>2, <1>5, <1>6, <2>1
      <4>. QED BY <1>14, <4>1, <4>2, <4>3 DEF Replied, Drained
    <3>. QED BY <1>2, <1>3, <3>1 DEF WriterOK
  <2>2. CASE k # n
    <3>1. Replied(W, <<>>)'
      BY <1>4, <1>14, <2>2 DEF Replied
    <3>2. slot' # <<>>
      <4>1. Len(slot') # 0
        BY ONLY <1>4, <1>5, <1>9, <2>2
      <4>. QED BY ONLY <4>1
    <3>3. OnTheWay(h, slot)'
      <4>1. sent' = h + Len(slot')
        BY <1>2, <1>5, <1>7, <1>9
      <4>2. slot' = Bytes(h, Len(slot'))
        BY <1>8, <1>9
      <4>. QED BY <4>1, <4>2 DEF OnTheWay
    <3>. QED BY <1>2, <1>3, <3>1, <3>2, <3>3 DEF WriterOK
  <2>. QED BY <2>1, <2>2
<1>20. StreamOK(h)'
  <2>1. done' <= h
    <3>1. done <= g /\ done \in Nat /\ done' = done
      BY <1>1, <1>2 DEF StreamOK, Types
    <3>. QED BY <1>7, <3>1
  <2>2. WritesOnly(msgs'[AM])
    <3>1. WritesOnly(msgs[AM])
      BY <1>1, <1>3 DEF StreamOK
    <3>. QED BY <1>13, <3>1, QueueTail
  <2>3. \A i \in 1..Len(msgs'[W]) : i = 1 /\ k = n
    BY <1>4
  <2>4. k = n => sent' = h
    BY <1>2, <1>5, <1>6
  <2>. QED BY <1>2, <1>3, <1>12, <2>1, <2>2, <2>3, <2>4 DEF StreamOK
<1>21. IInvAt(h)'
  BY <1>15, <1>16, <1>17, <1>18, <1>19, <1>20 DEF IInvAt
<1>. QED BY <1>6, <1>21

LEMMA ServeReadStep ==
  ASSUME NEW g \in Nat, IInvAt(g), ServeRead
  PROVE  \E h \in Nat : IInvAt(h)'
<1>1. Types
  BY DEF IInvAt
<1>2. PICK m : m = Head(msgs[AM])
  OBVIOUS
<1>3. msgs[AM] # <<>> /\ m.type = "read" /\ PipeRead(m, Rest(AM))
      /\ stray' = (stray \/ (~ closed /\ slot # <<>> /\ m.count = 0))
      /\ UNCHANGED <<appVars, am, closed, running, busy>>
  BY <1>2 DEF ServeRead, Received
<1>4. m \in Requests
  BY <1>1, <1>2, <1>3 DEF Types
<1>5. m.src = R /\ m.count \in Nat
  BY <1>3, <1>4 DEF Requests, Asking
<1>7. slot \in Seq(Nat) /\ closed \in BOOLEAN /\ stray \in BOOLEAN
  BY <1>1 DEF Types
<1>8. UNCHANGED slot /\ (closed \/ slot = <<>>) => UNCHANGED <<appVars, amVars>>
  <2>1. closed \/ slot = <<>> => stray' = stray
    BY <1>3, <1>7
  <2>. QED BY <1>3, <2>1 DEF amVars
<1>9. CASE closed
  <2>1. msgs' = Post(Rest(AM), R, <<EndOfData>>) /\ UNCHANGED slot
    BY <1>3, <1>5, <1>9 DEF PipeRead
  <2>2. EndOfData \in Answers /\ EndOfData.data = <<>>
    BY AnswersAre
  <2>3. IInvAt(g)'
    BY <1>2, <1>3, <1>5, <1>8, <1>9, <2>1, <2>2, TellReader
  <2>. QED BY <2>3
<1>10. CASE ~ closed /\ slot = <<>>
  <2>1. msgs' = Post(Rest(AM), R, <<Error(TRUE)>>) /\ UNCHANGED slot
    <3>1. Len(slot) = 0
      BY <1>10
    <3>. QED BY <1>3, <1>5, <1>10, <3>1 DEF PipeRead, Error, Msg
  <2>2. Error(TRUE) \in Answers /\ Error(TRUE).data = <<>>
    BY AnswersAre
  <2>3. IInvAt(g)'
    BY <1>2, <1>3, <1>5, <1>8, <1>10, <2>1, <2>2, TellReader
  <2>. QED BY <2>3
<1>11. CASE ~ closed /\ slot # <<>>
  <2>1. msgs[W] = <<>>
    BY <1>11, SlotInUse DEF Replied
  <2>2. /\ Rest(AM) \in [{W, R, AM} -> Seq(Requests \cup Answers)]
        /\ Rest(AM)[AM] = Tail(msgs[AM]) /\ Rest(AM)[W] = <<>> /\ Rest(AM)[R] = msgs[R]
    BY <1>1, <1>3, <2>1, RestOf, Names
  <2>3. PICK n \in Nat : n = Len(slot) /\ n > 0
    BY <1>7, <1>11
  <2>4. PICK k \in 0..n : k = IF n <= m.count THEN n ELSE m.count
    BY <1>5, <2>3
  <2>5. PICK ms : ms = <<Data(SubSeq(slot, 1, k)), EndOfData>>
    OBVIOUS
  <2>6. PICK box : box = Post(Rest(AM), R, ms)
    OBVIOUS
  <2>7. ms \in Seq(Answers)
    <3>1. SubSeq(slot, 1, k) \in Seq(Nat)
      BY <1>7, <2>3
    <3>2. Data(SubSeq(slot, 1, k)) \in Answers /\ EndOfData \in Answers
      BY <3>1, AnswersAre
    <3>. QED BY <2>5, <3>2
  <2>8. /\ box \in [{W, R, AM} -> Seq(Requests \cup Answers)]
        /\ box[AM] = Tail(msgs[AM]) /\ box[W] = <<>> /\ box[R] = msgs[R] \o ms
    <3>1. R \in {W, R}
      OBVIOUS
    <3>2. /\ box \in [{W, R, AM} -> Seq(Requests \cup Answers)]
          /\ box[R] = Rest(AM)[R] \o ms
          /\ \A q \in {W, R, AM} \ {R} : box[q] = Rest(AM)[q]
      BY ONLY <2>2, <2>6, <2>7, <3>1, PostIs
    <3>. QED BY <2>2, <3>1, <3>2, Names
  <2>a. stray' \in BOOLEAN /\ (k = 0 => stray') /\ (stray => stray')
    <3>1. k = 0 => m.count = 0
      BY <1>5, <2>3, <2>4
    <3>. QED BY <1>3, <1>7, <1>11, <3>1
  <2>9. CASE n <= m.count
    <3>1. n \in 1..m.count /\ k = n
      BY <1>5, <2>3, <2>4, <2>9
    <3>2. SubSeq(slot, 1, n) = slot /\ SubSeq(slot, n + 1, n) = <<>>
      BY <1>7, <2>3
    <3>3. msgs' = Post(Post(Rest(AM), R, <<Data(slot), EndOfData>>), W, <<Ack>>) /\ slot' = <<>>
      <4>1. Len(slot) \in 1..m.count
        BY <2>3, <3>1
      <4>. QED BY <1>3, <1>5, <1>11, <4>1 DEF PipeRead, Error, Msg
    <3>4. msgs' = Post(box, W, <<Ack>>)
      BY <2>5, <2>6, <3>1, <3>2, <3>3
    <3>5. <<Ack>> \in Seq(Answers) /\ W \in {W, R} /\ <<>> \o <<Ack>> = <<Ack>>
      BY AnswersAre
    <3>6. /\ msgs' \in [{W, R, AM} -> Seq(Requests \cup Answers)]
          /\ msgs'[W] = box[W] \o <<Ack>>
          /\ \A q \in {W, R, AM} \ {W} : msgs'[q] = box[q]
      BY ONLY <2>8, <3>4, <3>5, PostIs
    <3>7. msgs'[AM] = Tail(msgs[AM]) /\ msgs'[W] = <<Ack>> /\ msgs'[R] = msgs[R] \o ms
      BY <2>8, <3>5, <3>6, Names
    <3>8. slot' = SubSeq(slot, k + 1, Len(slot))
      BY <2>3, <3>1, <3>2, <3>3
    <3>9. msgs'[W] = IF k = Len(slot) THEN <<Ack>> ELSE <<>>
      BY <2>3, <3>1, <3>7
    <3>10. g + k \in Nat /\ IInvAt(g + k)'
      BY <1>2, <1>3, <1>5, <1>11, <2>3, <2>4, <2>5, <2>a, <3>6, <3>7, <3>8, <3>9, ReadOpenStep
    <3>. QED BY <3>10
  <2>10. CASE ~ (n <= m.count)
    <3>1. Len(slot) > m.count /\ Len(slot) \notin 1..m.count /\ k = m.count
      BY <1>5, <2>3, <2>4, <2>10
    <3>2. msgs' = box /\ slot' = SubSeq(slot, k + 1, Len(slot))
      BY <1>3, <1>5, <1>11, <2>5, <2>6, <3>1 DEF PipeRead
    <3>3. msgs'[W] = IF k = Len(slot) THEN <<Ack>> ELSE <<>>
      BY <1>5, <2>3, <2>8, <3>1, <3>2
    <3>4. g + k \in Nat /\ IInvAt(g + k)'
      BY <1>2, <1>3, <1>5, <1>11, <2>3, <2>4, <2>5, <2>8, <2>a, <3>2, <3>3, ReadOpenStep
    <3>. QED BY <3>4
  <2>. QED BY <2>9, <2>10
<1>. QED BY <1>7, <1>9, <1>10, <1>11

LEMMA ServeWriteStep ==
  ASSUME NEW g \in Nat, IInvAt(g), ServeWrite
  PROVE  IInvAt(g)'
<1>1. Types /\ ServerOK /\ RetryOK /\ ReaderOK /\ WriterOK(g) /\ StreamOK(g)
  BY DEF IInvAt
<1>2. PICK m : m = Head(msgs[AM])
  OBVIOUS
<1>3. msgs[AM] # <<>> /\ m.type = "write" /\ PipeWrite(m, Rest(AM))
      /\ UNCHANGED <<appVars, am, closed, running, busy, stray>>
  BY <1>2 DEF ServeWrite, Received
<1>4. m \in Requests
  BY <1>1, <1>2, <1>3 DEF Types
<1>5. m.src = W /\ m.data \in Seq(Nat)
  BY <1>3, <1>4 DEF Requests, Asking
<1>6. UNCHANGED <<pc, sm, left, sent, got, readBytes, done, eof, am, closed, running, busy, stray>>
  BY <1>3 DEF appVars
<1>7. /\ Rest(AM) \in [{W, R, AM} -> Seq(Requests \cup Answers)]
      /\ Rest(AM)[AM] = Tail(msgs[AM]) /\ Rest(AM)[W] = msgs[W] /\ Rest(AM)[R] = msgs[R]
  BY <1>1, <1>3, RestOf, Names
<1>8. ASSUME closed \/ slot # <<>>, msgs' = Post(Rest(AM), W, <<Error(~ closed)>>), UNCHANGED slot
      PROVE  IInvAt(g)'
  <2>1. PICK x : x = Error(~ closed)
    OBVIOUS
  <2>2. UNCHANGED <<appVars, amVars>>
    BY <1>3, <1>8 DEF amVars
  <2>3. closed => x = Error(FALSE)
    BY <2>1 DEF Error, Msg
  <2>4. ~ closed => x = Error(TRUE)
    BY <2>1 DEF Error, Msg
  <2>5. msgs' = Post(Rest(AM), W, <<x>>)
    BY <1>8, <2>1, Zenon
  <2>. QED BY <1>2, <1>3, <1>5, <2>2, <2>3, <2>4, <2>5, TellWriter
<1>9. ASSUME ~ closed, slot = <<>>, NEW ms, msgs'[W] = ms,
             msgs' \in [{W, R, AM} -> Seq(Requests \cup Answers)],
             msgs'[AM] = Tail(msgs[AM]), msgs'[R] = msgs[R],
             \/ m.data = <<>> /\ ms = <<Ack>> /\ slot' = slot
             \/ m.data # <<>> /\ ms = <<>> /\ slot' = m.data
      PROVE  IInvAt(g)'
  <2>1. /\ pc[W] \in {"write", "writeEnd", "exit"} /\ m = sm[W] /\ msgs[W] = <<>>
        /\ Absent(Tail(msgs[AM]), W)
        /\ pc[W] = "write" => m.data # <<>> /\ OnTheWay(g, m.data)
        /\ pc[W] \in {"writeEnd", "exit"} => m.data = <<>> /\ Drained(g)
    BY <1>2, <1>3, <1>5, <1>9, FromWriter
  <2>2. pc[W] # "exit"
    BY <1>1, <1>3, <2>1 DEF RetryOK, Asking
  <2>3. Kept(R)
    BY <1>1, <1>2, <1>3, <1>5, <1>6, <1>9, ServeStep, Names
  <2>4. MailOK(g)'
    BY <1>1, <1>6, <1>9, MailFrame DEF StreamOK
  <2>5. Types'
    <3>1. ms \in Seq({Ack, Error(TRUE), Error(FALSE)})
      <4>1. \A S : \A x \in S : <<x>> \in Seq(S) /\ <<>> \in Seq(S)
        OBVIOUS
      <4>. QED BY <1>9, <4>1
    <3>2. msgs'[R] \in Seq(Answers)
      BY <1>1, <1>9, MailboxTypes
    <3>3. /\ slot' \in Seq(Nat) /\ closed' \in BOOLEAN /\ stray' \in BOOLEAN /\ running' \in SUBSET {W, R}
          /\ UNCHANGED <<appVars, am, busy>>
      BY <1>1, <1>3, <1>5, <1>6, <1>9 DEF Types
    <3>. QED BY <1>1, <1>3, <1>9, <3>1, <3>2, <3>3, ServerTypes
  <2>6. ServerOK'
    BY <1>1, <1>6 DEF ServerOK, EndMeansClosed
  <2>7. RetryOK'
    BY <1>1, <1>6 DEF RetryOK
  <2>8. ReaderOK'
    BY <1>1, <1>6, <2>3, ReaderFrame
  <2>9. WriterOK(g)'
    <3>1. Replied(W, ms)'
      BY <1>9, <2>1 DEF Replied
    <3>2. CASE pc[W] = "write"
      <4>1. ms = <<>> /\ slot' = m.data /\ slot' # <<>> /\ OnTheWay(g, slot)'
        BY <1>6, <1>9, <2>1, <2>4, <3>2 DEF OnTheWay
      <4>. QED BY <1>6, <3>1, <3>2, <4>1 DEF WriterOK
    <3>3. CASE pc[W] = "writeEnd"
      <4>1. ms = <<Ack>> /\ sm'[W].data = <<>> /\ Drained(g)'
        BY <1>6, <1>9, <2>1, <2>4, <3>3 DEF Drained
      <4>. QED BY <1>6, <3>1, <3>3, <4>1 DEF WriterOK
    <3>. QED BY <2>1, <2>2, <3>2, <3>3
  <2>10. StreamOK(g)'
    <3>1. WritesOnly(msgs'[AM])
      <4>1. WritesOnly(msgs[AM]) /\ msgs[AM] \in Seq(Requests)
        BY <1>1, <2>1, <2>2 DEF StreamOK, Types
      <4>. QED BY <1>3, <1>9, <4>1, QueueTail
    <3>2. \A i \in 1..Len(ms) : i = 1 /\ m.data = <<>>
      <4>1. Len(<<Ack>>) = 1 /\ Len(<<>>) = 0
        OBVIOUS
      <4>2. \/ ms = <<Ack>> /\ m.data = <<>>
            \/ ms = <<>>
        BY <1>9
      <4>3. (Len(ms) = 1 /\ m.data = <<>>) \/ Len(ms) = 0
        BY ONLY <4>1, <4>2, Zenon
      <4>4. (\A i \in 1..1 : i = 1) /\ (\A i \in 1..0 : FALSE)
        OBVIOUS
      <4>. QED BY ONLY <4>3, <4>4, Zenon
    <3>3. m.data = <<>> => pc[W] = "writeEnd" /\ sent' = g
      BY <1>6, <2>1, <2>2, <2>4 DEF Drained
    <3>. QED BY <1>1, <1>6, <1>9, <2>4, <3>1, <3>2, <3>3 DEF StreamOK
  <2>. QED BY <2>5, <2>6, <2>7, <2>8, <2>9, <2>10 DEF IInvAt
<1>10. ASSUME ~ closed, slot = <<>>, m.data = <<>>,
              msgs' = Post(Rest(AM), W, <<Ack>>), UNCHANGED slot
       PROVE  IInvAt(g)'
  <2>1. msgs[W] = <<>>
    BY <1>2, <1>3, <1>5, <1>10, FromWriter
  <2>2. <<Ack>> \in Seq(Answers) /\ W \in {W, R} /\ <<>> \o <<Ack>> = <<Ack>>
    BY AnswersAre
  <2>3. /\ msgs' \in [{W, R, AM} -> Seq(Requests \cup Answers)]
        /\ msgs'[W] = Rest(AM)[W] \o <<Ack>>
        /\ \A q \in {W, R, AM} \ {W} : msgs'[q] = Rest(AM)[q]
    BY ONLY <1>7, <1>10, <2>2, PostIs
  <2>4. msgs'[AM] = Tail(msgs[AM]) /\ msgs'[W] = <<Ack>> /\ msgs'[R] = msgs[R]
    BY <1>7, <2>1, <2>2, <2>3, Names
  <2>. QED BY <1>9, <1>10, <2>3, <2>4
<1>11. ASSUME ~ closed, slot = <<>>, m.data # <<>>, msgs' = Rest(AM), slot' = m.data
       PROVE  IInvAt(g)'
  <2>1. msgs[W] = <<>>
    BY <1>2, <1>3, <1>5, <1>11, FromWriter
  <2>. QED BY <1>7, <1>9, <1>11, <2>1
<1>. QED BY <1>3, <1>8, <1>10, <1>11 DEF PipeWrite

(* An application ends: afterwards the pipe is closed.                     *)
LEMMA ServeExitStep ==
  ASSUME NEW g \in Nat, IInvAt(g), ServeExit
  PROVE  IInvAt(g)'
<1>1. Types /\ ServerOK /\ RetryOK /\ ReaderOK /\ WriterOK(g) /\ StreamOK(g)
  BY DEF IInvAt
<1>2. PICK m : m = Head(msgs[AM])
  OBVIOUS
<1>3. /\ msgs[AM] # <<>> /\ m.type = "exitApp"
      /\ msgs' = Post(IF m.src \in running THEN Close(Rest(AM)) ELSE Rest(AM), m.src, <<Ack>>)
      /\ closed' = (closed \/ m.src \in running)
      /\ running' = running \ {m.src}
      /\ UNCHANGED <<appVars, am, slot, busy, stray>>
  BY <1>2 DEF ServeExit, Received
<1>4. m \in Requests /\ msgs[AM] \in Seq(Requests)
  BY <1>1, <1>2, <1>3 DEF Types
<1>5. m.src \in {W, R}
  BY <1>4 DEF Requests, Asking
<1>6. UNCHANGED <<pc, sm, left, sent, got, readBytes, done, eof, am, slot, busy, stray>>
  BY <1>3 DEF appVars
<1>7. /\ Rest(AM) \in [{W, R, AM} -> Seq(Requests \cup Answers)]
      /\ Rest(AM)[AM] = Tail(msgs[AM]) /\ Rest(AM)[W] = msgs[W] /\ Rest(AM)[R] = msgs[R]
  BY <1>1, <1>3, RestOf, Names
<1>8. PICK box : box = IF m.src \in running THEN Close(Rest(AM)) ELSE Rest(AM)
  OBVIOUS
<1>9. PICK e : e = Error(FALSE)
  OBVIOUS
<1>10. /\ box \in [{W, R, AM} -> Seq(Requests \cup Answers)]
       /\ box[AM] = Tail(msgs[AM]) /\ box[R] = msgs[R]
       /\ box[W] = msgs[W] \/ box[W] = msgs[W] \o <<e>>
  <2>1. CASE m.src \in running
    <3>1. e \in Answers
      BY <1>9, AnswersAre
    <3>2. <<e>> \in Seq(Answers) /\ W \in {W, R}
      BY <3>1
    <3>3. box = Post(Rest(AM), W, <<e>>)
      BY <1>8, <1>9, <2>1, Zenon DEF Close
    <3>4. /\ box \in [{W, R, AM} -> Seq(Requests \cup Answers)]
          /\ box[W] = Rest(AM)[W] \o <<e>>
          /\ \A q \in {W, R, AM} \ {W} : box[q] = Rest(AM)[q]
      BY ONLY <1>7, <3>2, <3>3, PostIs
    <3>. QED BY <1>7, <3>4, Names
  <2>2. CASE m.src \notin running
    BY <1>7, <1>8, <2>2
  <2>. QED BY <2>1, <2>2
<1>11. box[W] \in Seq({Ack, Error(TRUE), Error(FALSE)})
  BY <1>1, <1>9, <1>10, WriterMore, MailboxTypes
<1>12. <<Ack>> \in Seq(Answers) /\ msgs' = Post(box, m.src, <<Ack>>)
  BY <1>3, <1>8, AnswersAre
<1>13. /\ msgs' \in [{W, R, AM} -> Seq(Requests \cup Answers)]
       /\ msgs'[m.src] = box[m.src] \o <<Ack>>
       /\ \A q \in {W, R, AM} \ {m.src} : msgs'[q] = box[q]
  <2>1. \A d \in {W, R} :
          /\ Post(box, d, <<Ack>>) \in [{W, R, AM} -> Seq(Requests \cup Answers)]
          /\ Post(box, d, <<Ack>>)[d] = box[d] \o <<Ack>>
          /\ \A q \in {W, R, AM} \ {d} : Post(box, d, <<Ack>>)[q] = box[q]
    BY ONLY <1>10, <1>12, PostIs
  <2>. QED BY ONLY <1>5, <1>12, <2>1
<1>14. msgs'[AM] = Tail(msgs[AM])
  BY <1>5, <1>10, <1>13, Names
<1>15. RetryOK'
  BY <1>1, <1>6 DEF RetryOK
<1>16. slot' \in Seq(Nat) /\ closed' \in BOOLEAN /\ stray' \in BOOLEAN /\ running' \in SUBSET {W, R}
       /\ UNCHANGED <<appVars, am, busy>>
  BY <1>1, <1>3, <1>6 DEF Types
<1>17. CASE m.src = R
  <2>1. pc[R] # "none" /\ (~ stray => pc[R] # "idle")
        /\ (~ stray /\ pc[R] = "read" => m = sm[R])
    BY <1>2, <1>3, <1>17, FromReader
  <2>2. ~ stray => pc[R] # "read"
    BY <1>1, <1>3, <2>1 DEF RetryOK, Asking
  <2>3. closed'
    BY <1>1, <1>3, <1>17, <2>1 DEF ServerOK
  <2>4. msgs'[R] = msgs[R] \o <<Ack>> /\ msgs'[W] = box[W]
    BY <1>10, <1>13, <1>17, Names
  <2>9. MailOK(g)' /\ msgs'[R] \in Seq(Answers)
    <3>1. Ack \in Answers /\ Ack.data = <<>>
      BY AnswersAre
    <3>. QED BY <1>1, <1>6, <2>4, <3>1, MoreMail DEF StreamOK
  <2>5. Types'
    BY <1>1, <1>3, <1>11, <1>13, <1>14, <1>16, <2>4, <2>9, ServerTypes
  <2>6. ServerOK'
    BY <1>1, <1>6, <2>3 DEF ServerOK, EndMeansClosed
  <2>7. ReaderOK'
    BY <1>6, <2>1, <2>2 DEF ReaderOK
  <2>8. WriterOK(g)'
    BY <2>3 DEF WriterOK
  <2>10. StreamOK(g)'
    <3>1. msgs'[W] = msgs[W] \/ msgs'[W] = msgs[W] \o <<Error(FALSE)>>
      BY <1>9, <1>10, <2>4, Zenon
    <3>. QED BY <1>3, <1>6, <1>14, <2>9, <3>1, ServerStream
  <2>. QED BY <1>15, <2>5, <2>6, <2>7, <2>8, <2>10 DEF IInvAt
<1>18. CASE m.src = W
  <2>1. pc[W] \in {"exit", "done"}
    <3>1. ~ WritesOnly(msgs[AM])
      BY <1>2, <1>3, <1>4, <1>18, QueueTail
    <3>. QED BY <1>1, <3>1 DEF StreamOK
  <2>2. closed'
    BY <1>1, <1>3, <1>18 DEF ServerOK
  <2>3. msgs'[R] = msgs[R] /\ msgs'[W] = box[W] \o <<Ack>>
    BY <1>10, <1>13, <1>18, Names
  <2>4. Kept(R)
    BY <1>1, <1>2, <1>3, <1>6, <1>14, <1>18, <2>3, ServeStep, Names
  <2>5. Types'
    <3>1. msgs'[W] \in Seq({Ack, Error(TRUE), Error(FALSE)})
      <4> DEFINE S == {Ack, Error(TRUE), Error(FALSE)}
      <4>1. box[W] \in Seq(S) /\ Ack \in S
        BY <1>11
      <4> HIDE DEF S
      <4>2. <<Ack>> \in Seq(S)
        BY ONLY <4>1
      <4>3. box[W] \o <<Ack>> \in Seq(S)
        BY ONLY <4>1, <4>2, ConcatProperties
      <4>. QED BY <2>3, <4>3 DEF S
    <3>2. msgs'[R] \in Seq(Answers)
      BY <1>1, <2>3, MailboxTypes
    <3>. QED BY <1>1, <1>3, <1>13, <1>14, <1>16, <3>1, <3>2, ServerTypes
  <2>6. ServerOK'
    BY <1>1, <1>6, <2>2 DEF ServerOK, EndMeansClosed
  <2>7. ReaderOK'
    BY <1>1, <1>6, <2>2, <2>4, ReaderFrame
  <2>8. WriterOK(g)'
    BY <2>2 DEF WriterOK
  <2>9. MailOK(g)'
    BY <1>1, <1>6, <2>3, MailFrame DEF StreamOK
  <2>10. StreamOK(g)'
    BY <1>3, <1>6, <1>14, <2>1, <2>9, ServerStream
  <2>. QED BY <1>15, <2>5, <2>6, <2>7, <2>8, <2>10 DEF IInvAt
<1>. QED BY <1>5, <1>17, <1>18

-----------------------------------------------------------------------------
(* The terminal's commands and other clients.                              *)
LEMMA OtherStep ==
  ASSUME NEW g \in Nat, IInvAt(g), SecondCommand \/ StartReader \/ NextCommand \/ OtherRequest \/ OtherDone
  PROVE  IInvAt(g)'
<1>1. Types /\ ServerOK /\ RetryOK /\ ReaderOK /\ WriterOK(g) /\ StreamOK(g)
  BY DEF IInvAt
<1>2. /\ UNCHANGED <<msgs, sm, left, sent, got, readBytes, done, eof, slot, closed, stray>>
      /\ \/ UNCHANGED <<pc, running>>
         \/ am = "start" /\ pc' = [pc EXCEPT ![R] = "idle"] /\ running' = running \cup {R}
      /\ am' \in {"init", "other"} \/ (am' = "start" /\ pc[R] = "none" /\ pc' = pc)
  BY <1>1 DEF SecondCommand, StartReader, NextCommand, OtherRequest, OtherDone, appVars, ServerOK
<1>3. /\ pc'[W] = pc[W]
      /\ pc'[R] = pc[R] \/ (pc[R] = "none" /\ pc'[R] = "idle" /\ R \in running')
      /\ running \subseteq running' /\ running' \subseteq {W, R}
      /\ pc' \in [{W, R} -> {"none", "idle", "write", "writeEnd", "read", "exit", "done"}]
  BY <1>1, <1>2, Names DEF Types, ServerOK
<1>4. Types'
  BY <1>1, <1>2, <1>3 DEF Types
<1>5. ServerOK'
  BY <1>1, <1>2, <1>3 DEF ServerOK, EndMeansClosed
<1>6. RetryOK'
  BY <1>1, <1>2, <1>3 DEF RetryOK
<1>7. MailOK(g)'
  BY <1>1, <1>2, MailFrame DEF StreamOK
<1>8. ReaderOK'
  <2>1. CASE pc'[R] = pc[R]
    <3>1. Kept(R)
      BY <1>2, <2>1 DEF Kept
    <3>. QED BY <1>1, <1>2, <3>1, ReaderFrame
  <2>2. CASE pc[R] = "none" /\ pc'[R] = "idle"
    <3>1. Replied(R, <<>>)'
      BY <1>1, <1>2, <2>2 DEF ReaderOK, Replied
    <3>. QED BY <2>2, <3>1 DEF ReaderOK
  <2>. QED BY <1>3, <2>1, <2>2
<1>9. WriterOK(g)'
  <2>1. Kept(W)
    BY <1>2, <1>3 DEF Kept
  <2>. QED BY <1>1, <1>2, <1>7, <2>1, WriterFrame
<1>10. StreamOK(g)'
  BY <1>1, <1>2, <1>3, <1>7, StreamFrame
<1>. QED BY <1>4, <1>5, <1>6, <1>8, <1>9, <1>10 DEF IInvAt

LEMMA InitIInv == Init => IInv
<1> SUFFICES ASSUME Init PROVE IInvAt(0)
  BY DEF IInv
<1>1. /\ msgs = [p \in {W, R, AM} |-> <<>>] /\ pc = [p \in {W, R} |-> IF p = W THEN "idle" ELSE "none"]
      /\ sm = [p \in {W, R} |-> NoMsg] /\ left = 0 /\ sent = 0 /\ got = <<>> /\ readBytes = 0
      /\ am = "pipe" /\ slot = <<>> /\ closed = FALSE /\ running = {W} /\ done = 0 /\ eof = FALSE /\ stray = FALSE
  BY Names DEF Init
<1>2. msgs[AM] = <<>> /\ msgs[W] = <<>> /\ msgs[R] = <<>> /\ pc[W] = "idle" /\ pc[R] = "none"
  BY <1>1, Names
<1>3. \A p : Absent(<<>>, p) /\ WritesOnly(<<>>)
  BY DEF Absent, WritesOnly
<1>4. MailOK(0)
  <2>1. Bytes(0, 0) = <<>> /\ Len(<<>>) = 0
    BY BytesAre
  <2>2. Runs(<<>>, 0, 0)
    <3>1. PICK f : f = [i \in 1..1 |-> 0]
      OBVIOUS
    <3>2. f \in [1..(Len(<<>>) + 1) -> Nat] /\ f[1] = 0 /\ f[Len(<<>>) + 1] = 0
          /\ \A i \in 1..Len(<<>>) : FALSE
      BY <3>1
    <3>. QED BY <3>2 DEF Runs
  <2>3. Reach(<<>>, 0, 0)
    BY DEF Reach
  <2>. QED BY <1>1, <1>2, <2>1, <2>2, <2>3 DEF MailOK, Given
<1>5. Types
  <2>1. \A S : <<>> \in Seq(S)
    OBVIOUS
  <2>. QED BY <1>1, <1>2, <2>1 DEF Types
<1>6. ServerOK /\ RetryOK
  BY <1>1, <1>2 DEF ServerOK, RetryOK, EndMeansClosed
<1>7. ReaderOK /\ WriterOK(0)
  BY <1>1, <1>2, <1>3, <1>4 DEF ReaderOK, WriterOK, Replied, Drained
<1>8. StreamOK(0)
  BY <1>1, <1>2, <1>3, <1>4 DEF StreamOK
<1>. QED BY <1>5, <1>6, <1>7, <1>8 DEF IInvAt

LEMMA StepIInv == IInv /\ [Next]_vars => IInv'
<1> SUFFICES ASSUME NEW g \in Nat, IInvAt(g), [Next]_vars
             PROVE  \E h \in Nat : IInvAt(h)'
  BY DEF IInv
<1>1. ASSUME NEW p \in App, Program(p)
      PROVE  IInvAt(g)'
  <2>1. p = W \/ p = R
    BY Names
  <2>. QED BY <1>1, <2>1, WriteCallStep, ReadCallStep, WriterExitStep, ReaderExitStep DEF Program
<1>2. ASSUME NEW p \in App, Answered(p)
      PROVE  IInvAt(g)'
  <2>1. p = W \/ p = R
    BY Names
  <2>. QED BY <1>2, <2>1, WriterRetryStep, WriterFailureStep, WriterKilledStep,
              WriterIgnoredStep, WriterExitReceivedStep, WriteReceivedStep, ReaderRetryStep,
              ReaderFailureStep, ReaderKilledStep, ReaderIgnoredStep, ReaderExitReceivedStep,
              ReadReceivedStep DEF Answered
<1>3. CASE ServeRead
  BY <1>3, ServeReadStep
<1>4. ASSUME \/ ServeWrite \/ ServeExit \/ Bounce
             \/ SecondCommand \/ StartReader \/ NextCommand \/ OtherRequest \/ OtherDone
      PROVE  IInvAt(g)'
  BY <1>4, ServeWriteStep, ServeExitStep, BounceStep, OtherStep
<1>5. ASSUME UNCHANGED vars
      PROVE  IInvAt(g)'
  <2>1. UNCHANGED <<msgs, pc, sm, left, sent, got, readBytes, am, slot, closed, running, busy,
                    done, eof, stray>>
    BY <1>5 DEF vars
  <2>2. Types /\ ServerOK /\ RetryOK /\ ReaderOK /\ WriterOK(g) /\ StreamOK(g)
    BY DEF IInvAt
  <2>3. MailOK(g)' /\ Kept(W) /\ Kept(R)
    BY <2>1, <2>2, MailFrame DEF StreamOK, Kept
  <2>4. Types'
    BY <2>1, <2>2 DEF Types
  <2>5. ServerOK' /\ RetryOK'
    BY <2>1, <2>2 DEF ServerOK, EndMeansClosed, RetryOK
  <2>6. ReaderOK' /\ WriterOK(g)' /\ StreamOK(g)'
    BY <2>1, <2>2, <2>3, ReaderFrame, WriterFrame, StreamFrame
  <2>. QED BY <2>4, <2>5, <2>6 DEF IInvAt
<1>. QED BY <1>1, <1>2, <1>3, <1>4, <1>5 DEF Next, Serve

LEMMA Invariant == Spec => []IInv
BY InitIInv, StepIInv, PTL DEF Spec

-----------------------------------------------------------------------------
(* The reader gets the bytes of "writer | reader" in the order in which    *)
(* they were written, each once, whatever ClosedReceiveMessage bounces and *)
(* write() and read() send again, and whenever either side exits.          *)
THEOREM StreamIsKept == Spec => []BytesInOrder
<1>1. IInv => BytesInOrder
  BY DEF IInv, IInvAt, StreamOK, MailOK, BytesInOrder
<1>. QED BY <1>1, Invariant, PTL

(* When write() has returned success, every byte it was given is in the    *)
(* reader's buffers or in its mailbox: PipeFileDescriptor answers a chunk  *)
(* when it has been read, and no other kReceived can be taken for that     *)
(* answer.                                                                 *)
THEOREM SuccessMeansRead == Spec => []WriteMeansRead
<1>1. IInv => WriteMeansRead
  <2> SUFFICES ASSUME NEW g \in Nat, IInvAt(g), ~ (done <= Len(got))
               PROVE  \E i \in Pending(R) : msgs[R][i].data[Len(msgs[R][i].data)] >= done
    BY DEF IInv, WriteMeansRead
  <2>1. /\ Types /\ StreamOK(g) /\ done <= g /\ done \in Nat
        /\ got \in Seq(Nat) /\ msgs[R] \in Seq(Answers)
    BY DEF IInvAt, StreamOK, Types
  <2>2. PICK n \in Nat : n = Len(got)
    BY <2>1
  <2>3. Runs(msgs[R], n, g) /\ Reach(msgs[R], n, g) /\ ~ (g <= n)
    BY <2>1, <2>2 DEF StreamOK, MailOK, Given
  <2>4. PICK i \in 1..Len(msgs[R]) :
          msgs[R][i].data # <<>> /\ msgs[R][i].data[Len(msgs[R][i].data)] >= g
    BY <2>3 DEF Reach
  <2>5. i \in Pending(R)
    BY <2>4 DEF Pending
  <2>6. msgs[R][i].data[Len(msgs[R][i].data)] \in Nat
    <3>1. msgs[R][i] \in Answers
      BY <2>1, <2>4
    <3>2. PICK d \in Seq(Nat) : d = msgs[R][i].data
      BY <3>1 DEF Answers
    <3>3. d # <<>> /\ Len(d) \in 1..Len(d)
      BY <2>4, <3>2
    <3>4. d[Len(d)] \in Nat
      BY <3>2, <3>3
    <3>. QED BY <3>2, <3>4
  <2>7. msgs[R][i].data[Len(msgs[R][i].data)] >= done
    BY <2>1, <2>4, <2>6
  <2>. QED BY <2>5, <2>7
<1>. QED BY <1>1, Invariant, PTL

(* read() returns 0 only when the pipe has been closed, or when a read()   *)
(* with the count 0 was answered twice before (PipeFileDescriptor::Read of *)
(* a filled slot): an empty pipe is answered with retry, and the message   *)
(* that ends a read() with bytes is never taken for the answer of the next *)
(* one.                                                                    *)
THEOREM EndIsTheEnd == Spec => []EndMeansClosed
<1>1. IInv => EndMeansClosed
  BY DEF IInv, IInvAt, ServerOK
<1>. QED BY <1>1, Invariant, PTL

=============================================================================
