-------------------------- MODULE RunQueue_proofs ---------------------------
(***************************************************************************)
(* Lemmas about the run queues, for every number of tasks and levels: what *)
(* the deque operations return, and that each operator of RunQueue keeps   *)
(* the scheduling state well-formed.                                       *)
(***************************************************************************)
EXTENDS RunQueue, SequenceTheorems, WellFoundedInduction, TLAPS

(* A non-empty set of naturals has a least element.                        *)
LEMMA LeastNatural ==
  ASSUME NEW T \in SUBSET Nat, T # {}
  PROVE  \E x \in T : \A y \in T : x <= y
<1> DEFINE R == OpToRel(<, Nat)
<1>1. IsWellFoundedOn(R, Nat)
  BY NatLessThanWellFounded
<1>2. PICK x \in T : \A y \in T : ~ (<<y, x>> \in R)
  BY <1>1, WFMin
<1>3. \A m, n \in Nat : m < n => <<m, n>> \in R
  BY DEF OpToRel
<1> HIDE DEF R
<1>4. \A y \in T : ~ (y < x)
  BY <1>2, <1>3
<1>5. \A y \in T : y \in Nat /\ x \in Nat
  OBVIOUS
<1>6. \A y \in T : x <= y
  BY <1>4, <1>5
<1>. QED BY <1>6

(* A non-empty subset of 0..n has a greatest element.                      *)
LEMMA GreatestNatural ==
  ASSUME NEW n \in Nat, NEW T \in SUBSET (0..n), T # {}
  PROVE  \E x \in T : \A y \in T : y <= x
<1> DEFINE D == {n - y : y \in T}
<1>1. D \in SUBSET Nat /\ D # {}
  <2>1. \A y \in T : n - y \in Nat
    OBVIOUS
  <2>. QED BY <2>1
<1>2. PICK d \in D : \A e \in D : d <= e
  BY <1>1, LeastNatural
<1>3. PICK x \in T : d = n - x
  OBVIOUS
<1>4. \A y \in T : n - x <= n - y
  BY <1>2, <1>3
<1>5. \A y \in T : y <= x
  BY <1>4
<1>. QED BY <1>5

-----------------------------------------------------------------------------
(* Deques of distinct tasks.                                               *)

(* push_back of a task that is not in the deque.                           *)
LEMMA AppendFacts ==
  ASSUME NEW S, NEW q \in Seq(S), NEW t \in S
  PROVE  /\ Append(q, t) \in Seq(S)
         /\ Append(q, t) # <<>>
         /\ Elements(Append(q, t)) = Elements(q) \cup {t}
         /\ Unique(q) /\ t \notin Elements(q) => Unique(Append(q, t))
BY DEF Elements, Unique

(* pop_front of a non-empty deque of distinct tasks.                       *)
LEMMA TailFacts ==
  ASSUME NEW S, NEW q \in Seq(S), q # <<>>
  PROVE  /\ Tail(q) \in Seq(S)
         /\ Head(q) \in S
         /\ Head(q) \in Elements(q)
         /\ Unique(q) => /\ Unique(Tail(q))
                         /\ Elements(Tail(q)) = Elements(q) \ {Head(q)}
<1>1. Len(q) \in Nat /\ Len(q) > 0 /\ Head(q) = q[1]
  BY EmptySeq, LenProperties
<1>2. /\ Tail(q) \in Seq(S) /\ Len(Tail(q)) = Len(q) - 1
      /\ \A i \in 1..Len(Tail(q)) : Tail(q)[i] = q[i + 1]
  BY HeadTailProperties
<1>3. Head(q) \in S /\ Head(q) \in Elements(q)
  BY <1>1, ElementOfSeq DEF Elements
<1>4. ASSUME Unique(q)
      PROVE  Unique(Tail(q)) /\ Elements(Tail(q)) = Elements(q) \ {Head(q)}
  <2>1. Unique(Tail(q))
    BY <1>1, <1>2, <1>4 DEF Unique
  <2>2. ASSUME NEW x \in Elements(Tail(q)) PROVE x \in Elements(q) \ {Head(q)}
    BY <1>1, <1>2, <1>4, <2>2 DEF Elements, Unique
  <2>3. ASSUME NEW x \in Elements(q) \ {Head(q)} PROVE x \in Elements(Tail(q))
    <3>1. PICK i \in 1..Len(q) : x = q[i]
      BY <2>3 DEF Elements
    <3>2. i # 1 /\ i - 1 \in 1..Len(Tail(q)) /\ Tail(q)[i - 1] = x
      BY <1>1, <1>2, <2>3, <3>1
    <3>. QED BY <3>2 DEF Elements
  <2>. QED BY <2>1, <2>2, <2>3
<1>. QED BY <1>2, <1>3, <1>4

(* push_front, as ChangeLevelRunning does with the current task.           *)
LEMMA PushFrontFacts ==
  ASSUME NEW S, NEW q \in Seq(S), NEW t \in S
  PROVE  /\ <<t>> \o q \in Seq(S)
         /\ <<t>> \o q # <<>>
         /\ Elements(<<t>> \o q) = Elements(q) \cup {t}
         /\ Unique(q) /\ t \notin Elements(q) => Unique(<<t>> \o q)
<1> DEFINE r == <<t>> \o q
<1>1. /\ r \in Seq(S) /\ Len(r) = Len(q) + 1 /\ Len(q) \in Nat
      /\ \A i \in 1..Len(r) : r[i] = IF i = 1 THEN t ELSE q[i - 1]
  OBVIOUS
<1> HIDE DEF r
<1>2. ASSUME NEW x \in Elements(r) PROVE x \in Elements(q) \cup {t}
  BY <1>1, <1>2 DEF Elements
<1>3. ASSUME NEW x \in Elements(q) PROVE x \in Elements(r)
  <2>1. PICK i \in 1..Len(q) : x = q[i]
    BY <1>3 DEF Elements
  <2>2. i + 1 \in 1..Len(r) /\ r[i + 1] = x
    BY <1>1, <2>1
  <2>. QED BY <2>2 DEF Elements
<1>4. t \in Elements(r)
  <2>1. 1 \in 1..Len(r) /\ r[1] = t
    BY <1>1
  <2>. QED BY <2>1 DEF Elements
<1>5. Unique(q) /\ t \notin Elements(q) => Unique(r)
  <2>1. \A i \in 1..Len(r) : i # 1 => i - 1 \in 1..Len(q) /\ r[i] = q[i - 1]
    BY <1>1
  <2>2. ASSUME Unique(q), t \notin Elements(q),
               NEW i \in 1..Len(r), NEW j \in 1..Len(r), r[i] = r[j]
        PROVE  i = j
    <3>1. \A k \in 1..Len(q) : q[k] # t
      BY <2>2 DEF Elements
    <3>2. CASE i = 1 \/ j = 1
      BY <1>1, <2>1, <2>2, <3>1, <3>2
    <3>3. CASE i # 1 /\ j # 1
      <4>1. i - 1 = j - 1
        BY <2>1, <2>2, <3>3 DEF Unique
      <4>. QED BY <4>1
    <3>. QED BY <3>2, <3>3
  <2>. QED BY <2>2 DEF Unique
<1>6. r # <<>>
  BY <1>1, EmptySeq
<1>. QED BY <1>1, <1>2, <1>3, <1>4, <1>5, <1>6 DEF r

(* Erase of a deque of distinct tasks leaves the other ones, in order.     *)
LEMMA EraseFacts ==
  ASSUME NEW S, NEW q \in Seq(S), NEW t \in S, Unique(q)
  PROVE  /\ Erase(q, t) \in Seq(S)
         /\ Unique(Erase(q, t))
         /\ Elements(Erase(q, t)) = Elements(q) \ {t}
<1>1. CASE ~ \E i \in 1..Len(q) : q[i] = t
  BY <1>1 DEF Erase, Elements
<1>2. CASE \E i \in 1..Len(q) : q[i] = t
  <2> DEFINE k == CHOOSE i \in 1..Len(q) : q[i] = t
             r == SubSeq(q, 1, k - 1) \o SubSeq(q, k + 1, Len(q))
  <2>1. k \in 1..Len(q) /\ q[k] = t
    BY <1>2
  <2>2. Erase(q, t) = r
    BY <1>2 DEF Erase
  <2> HIDE DEF k
  <2>3. Len(q) \in Nat
    OBVIOUS
  <2>4. /\ r \in Seq(S) /\ Len(r) = Len(q) - 1
        /\ \A i \in 1..Len(r) : r[i] = IF i < k THEN q[i] ELSE q[i + 1]
    <3> DEFINE a == SubSeq(q, 1, k - 1)
               b == SubSeq(q, k + 1, Len(q))
    <3>1. /\ a \in Seq(S) /\ Len(a) = k - 1
          /\ \A i \in 1..(k - 1) : a[i] = q[i]
      BY <2>1, <2>3
    <3>2. /\ b \in Seq(S) /\ Len(b) = Len(q) - k
          /\ \A i \in 1..(Len(q) - k) : b[i] = q[k + i]
      BY <2>1, <2>3
    <3> HIDE DEF a, b
    <3>3. /\ a \o b \in Seq(S) /\ Len(a \o b) = Len(a) + Len(b)
          /\ \A i \in 1..(Len(a) + Len(b)) :
               (a \o b)[i] = IF i <= Len(a) THEN a[i] ELSE b[i - Len(a)]
      BY <3>1, <3>2, ConcatProperties
    <3>4. /\ a \o b \in Seq(S) /\ Len(a \o b) = Len(q) - 1
          /\ \A i \in 1..(Len(q) - 1) :
               (a \o b)[i] = IF i < k THEN q[i] ELSE q[i + 1]
      BY <2>1, <2>3, <3>1, <3>2, <3>3
    <3>. QED BY <3>4 DEF a, b
  <2> HIDE DEF r
  <2>5. Unique(r)
    BY <2>1, <2>3, <2>4 DEF Unique
  <2>6. ASSUME NEW x \in Elements(r) PROVE x \in Elements(q) \ {t}
    BY <2>1, <2>3, <2>4, <2>6 DEF Elements, Unique
  <2>7. ASSUME NEW x \in Elements(q) \ {t} PROVE x \in Elements(r)
    <3>1. PICK i \in 1..Len(q) : x = q[i]
      BY <2>7 DEF Elements
    <3>2. CASE i < k
      BY <2>1, <2>3, <2>4, <3>1, <3>2 DEF Elements
    <3>3. CASE i > k
      <4>1. i - 1 \in 1..Len(r) /\ r[i - 1] = x
        BY <2>1, <2>3, <2>4, <3>1, <3>3
      <4>. QED BY <4>1 DEF Elements
    <3>. QED BY <2>1, <2>7, <3>1, <3>2, <3>3
  <2>. QED BY <2>2, <2>4, <2>5, <2>6, <2>7
<1>. QED BY <1>1, <1>2

(* A deque is empty when it has no elements.                               *)
LEMMA EmptyFacts ==
  ASSUME NEW S, NEW q \in Seq(S)
  PROVE  q = <<>> <=> Elements(q) = {}
<1>1. CASE q = <<>>
  BY <1>1 DEF Elements
<1>2. CASE q # <<>>
  BY <1>2, TailFacts
<1>. QED BY <1>1, <1>2

-----------------------------------------------------------------------------
(* The run queues.                                                         *)

(* What every operation on the run queues keeps, over the live tasks T.    *)
WellFormed(s, T) ==
  /\ s \in Sched
  /\ T \subseteq Id
  /\ QueuesMatchFlags(s, T)
  /\ QueuedOnce(s)
  /\ CurrentDefined(s)
  /\ HigherIsFlagged(s)

(* The loop over the levels finds the highest non-empty one.               *)
LEMMA HighestLevelFacts ==
  ASSUME NEW queue \in [Level -> Seq(Id)], NEW default,
         \E lv \in Level : queue[lv] # <<>>
  PROVE  LET h == HighestLevel(queue, default)
         IN  /\ h \in Level
             /\ queue[h] # <<>>
             /\ \A lv \in Level : lv > h => queue[lv] = <<>>
<1> DEFINE T == {lv \in Level : queue[lv] # <<>>}
<1>1. PICK m \in T : \A y \in T : y <= m
  <2>1. T \in SUBSET (0..kMaxLevel) /\ T # {} /\ kMaxLevel \in Nat
    BY MaxLevelAssumption DEF Level
  <2>. QED BY <2>1, GreatestNatural
<1>2. m \in Level /\ queue[m] # <<>> /\ \A lv \in Level : lv > m => queue[lv] = <<>>
  BY <1>1, MaxLevelAssumption DEF Level
<1>. QED BY <1>2 DEF HighestLevel

(* The current task is a running task of the current level.                *)
LEMMA CurrentFacts ==
  ASSUME NEW s, NEW T, WellFormed(s, T)
  PROVE  /\ CurrentTask(s) \in T /\ CurrentTask(s) \in Id
         /\ s.running[CurrentTask(s)]
         /\ s.level[CurrentTask(s)] = s.currentLevel
<1>1. s.queue[s.currentLevel] \in Seq(Id) /\ s.currentLevel \in Level
  BY DEF WellFormed, Sched
<1>2. CurrentTask(s) \in Elements(s.queue[s.currentLevel]) /\ CurrentTask(s) \in Id
  BY <1>1, TailFacts DEF WellFormed, CurrentDefined, CurrentTask
<1>. QED BY <1>1, <1>2 DEF WellFormed, QueuesMatchFlags

(* Rotation, up to the agreement with the flags: what is left of the       *)
(* current queue, and a current level that is the highest non-empty one.   *)
LEMMA RotateFacts ==
  ASSUME NEW s \in Sched, QueuedOnce(s), CurrentDefined(s), HigherIsFlagged(s),
         NEW sleep \in BOOLEAN,
         sleep => \E lv \in Level : /\ s.queue[lv] # <<>>
                                    /\ lv = s.currentLevel =>
                                         Tail(s.queue[lv]) # <<>>
  PROVE  LET r == RotateCurrentRunQueue(s, sleep)
             q == s.queue[s.currentLevel]
         IN  /\ r \in Sched /\ QueuedOnce(r) /\ CurrentDefined(r) /\ HigherIsFlagged(r)
             /\ r.running = s.running /\ r.level = s.level /\ ~ r.levelChanged
             /\ \A lv \in Level : lv # s.currentLevel => r.queue[lv] = s.queue[lv]
             /\ Elements(r.queue[s.currentLevel]) =
                  IF sleep THEN Elements(q) \ {Head(q)} ELSE Elements(q)
<1> DEFINE cl == s.currentLevel
           q == s.queue[cl]
           rest == IF sleep THEN Tail(q) ELSE Append(Tail(q), Head(q))
           queue == [s.queue EXCEPT ![cl] = rest]
           h == HighestLevel(queue, cl)
           r == RotateCurrentRunQueue(s, sleep)
<1>1. /\ s.queue \in [Level -> Seq(Id)] /\ cl \in Level /\ q \in Seq(Id) /\ q # <<>>
      /\ Unique(q) /\ s.levelChanged \in BOOLEAN
  BY DEF Sched, CurrentDefined, QueuedOnce
<1>2. /\ Tail(q) \in Seq(Id) /\ Head(q) \in Id /\ Head(q) \in Elements(q)
      /\ Unique(Tail(q)) /\ Elements(Tail(q)) = Elements(q) \ {Head(q)}
  BY <1>1, TailFacts
<1>3. /\ rest \in Seq(Id) /\ Unique(rest)
      /\ Elements(rest) = IF sleep THEN Elements(q) \ {Head(q)} ELSE Elements(q)
      /\ ~ sleep => rest # <<>>
  <2>1. CASE sleep
    BY <1>2, <2>1
  <2>2. CASE ~ sleep
    <3>1. Head(q) \notin Elements(Tail(q))
      BY <1>2
    <3> DEFINE u == Tail(q)
               v == Head(q)
    <3> HIDE DEF u, v, q
    <3>2. /\ Append(u, v) \in Seq(Id) /\ Append(u, v) # <<>> /\ Unique(Append(u, v))
          /\ Elements(Append(u, v)) = Elements(u) \cup {v}
      <4>1. u \in Seq(Id) /\ v \in Id /\ Unique(u) /\ v \notin Elements(u)
        BY <1>2, <3>1 DEF u, v
      <4>. QED BY <4>1, AppendFacts
    <3>. QED BY <1>2, <2>2, <3>2 DEF u, v
  <2>. QED BY <2>1, <2>2
<1> HIDE DEF rest
<1>4. /\ queue \in [Level -> Seq(Id)] /\ queue[cl] = rest
      /\ \A lv \in Level : lv # cl => queue[lv] = s.queue[lv]
  BY <1>1, <1>3
<1>5. \E lv \in Level : queue[lv] # <<>>
  <2>1. CASE sleep
    <3>1. PICK lv \in Level : s.queue[lv] # <<>> /\ (lv = cl => Tail(q) # <<>>)
      BY <2>1
    <3>2. queue[lv] # <<>>
      BY <1>4, <2>1, <3>1 DEF rest
    <3>. QED BY <3>2
  <2>2. CASE ~ sleep
    BY <1>1, <1>3, <1>4, <2>2
  <2>. QED BY <2>1, <2>2
<1> HIDE DEF queue, q
<1>6. h \in Level /\ queue[h] # <<>> /\ \A lv \in Level : lv > h => queue[lv] = <<>>
  BY <1>4, <1>5, HighestLevelFacts
<1> HIDE DEF h
<1>7. /\ r = [s EXCEPT !.queue = queue,
                       !.currentLevel = IF s.levelChanged \/ rest = <<>> THEN h ELSE cl,
                       !.levelChanged = FALSE]
  BY DEF RotateCurrentRunQueue, rest, queue, q, h
<1> HIDE DEF r
<1>8. /\ r.queue = queue /\ r.running = s.running /\ r.level = s.level
      /\ r.levelChanged = FALSE
      /\ r.currentLevel = IF s.levelChanged \/ rest = <<>> THEN h ELSE cl
      /\ r \in Sched
  BY <1>1, <1>4, <1>6, <1>7 DEF Sched
<1>9. QueuedOnce(r)
  BY <1>3, <1>4, <1>8 DEF QueuedOnce
<1>10. CurrentDefined(r)
  BY <1>4, <1>6, <1>8 DEF CurrentDefined
<1>11. HigherIsFlagged(r)
  <2>1. CASE s.levelChanged \/ rest = <<>>
    BY <1>6, <1>8, <2>1 DEF HigherIsFlagged
  <2>2. CASE ~ (s.levelChanged \/ rest = <<>>)
    <3>1. \A lv \in Level : lv > cl => s.queue[lv] = <<>> /\ lv # cl
      BY <1>1, <2>2 DEF HigherIsFlagged, Level
    <3>. QED BY <1>4, <1>8, <2>2, <3>1 DEF HigherIsFlagged
  <2>. QED BY <2>1, <2>2
<1>. QED BY <1>3, <1>4, <1>8, <1>9, <1>10, <1>11 DEF r, q

(* A running task makes the queue of its level non-empty.                  *)
LEMMA RunningMakesNonEmpty ==
  ASSUME NEW s, NEW T, WellFormed(s, T), NEW o \in T, s.running[o]
  PROVE  /\ s.level[o] \in Level
         /\ o \in Elements(s.queue[s.level[o]])
         /\ s.queue[s.level[o]] # <<>>
<1>1. s.level[o] \in Level /\ s.queue[s.level[o]] \in Seq(Id)
  BY DEF WellFormed, Sched
<1>2. o \in Elements(s.queue[s.level[o]])
  BY <1>1 DEF WellFormed, QueuesMatchFlags
<1>. QED BY <1>1, <1>2, EmptyFacts

(* The timer's switch keeps the run queues well-formed.                    *)
LEMMA RotateKeeps ==
  ASSUME NEW s, NEW T, WellFormed(s, T)
  PROVE  WellFormed(RotateCurrentRunQueue(s, FALSE), T)
<1> DEFINE r == RotateCurrentRunQueue(s, FALSE)
<1>1. /\ r \in Sched /\ QueuedOnce(r) /\ CurrentDefined(r) /\ HigherIsFlagged(r)
      /\ r.running = s.running /\ r.level = s.level
      /\ \A lv \in Level : lv # s.currentLevel => r.queue[lv] = s.queue[lv]
      /\ Elements(r.queue[s.currentLevel]) = Elements(s.queue[s.currentLevel])
  BY RotateFacts DEF WellFormed
<1> HIDE DEF r
<1>2. \A lv \in Level : Elements(r.queue[lv]) = Elements(s.queue[lv])
  BY <1>1
<1>3. QueuesMatchFlags(r, T)
  BY <1>1, <1>2 DEF QueuesMatchFlags, WellFormed
<1>. QED BY <1>1, <1>3 DEF WellFormed, r

(* Taking the current task out, for a while (Sleep) or for good (Finish),  *)
(* keeps the run queues well-formed as long as another task is running.    *)
LEMMA RotateOutKeeps ==
  ASSUME NEW s, NEW T, WellFormed(s, T),
         NEW o \in T, s.running[o], o # CurrentTask(s)
  PROVE  LET c == CurrentTask(s)
             r == RotateCurrentRunQueue([s EXCEPT !.running[c] = FALSE], TRUE)
         IN  /\ WellFormed(r, T) /\ WellFormed(r, T \ {c})
             /\ r.running = [s.running EXCEPT ![c] = FALSE]
             /\ r.level = s.level
<1> DEFINE c == CurrentTask(s)
           p == [s EXCEPT !.running[c] = FALSE]
           r == RotateCurrentRunQueue(p, TRUE)
           q == s.queue[s.currentLevel]
<1>1. /\ c \in T /\ c \in Id /\ s.running[c] /\ s.level[c] = s.currentLevel
      /\ c = Head(q)
  BY CurrentFacts DEF CurrentTask
<1>2. /\ s \in Sched /\ s.queue \in [Level -> Seq(Id)] /\ s.currentLevel \in Level
      /\ q \in Seq(Id) /\ q # <<>> /\ Unique(q) /\ s.running \in [Id -> BOOLEAN]
      /\ T \subseteq Id
  BY DEF WellFormed, Sched, QueuedOnce, CurrentDefined
<1>3. /\ p \in Sched /\ p.queue = s.queue /\ p.level = s.level
      /\ p.currentLevel = s.currentLevel /\ p.levelChanged = s.levelChanged
      /\ p.running = [s.running EXCEPT ![c] = FALSE]
  BY <1>1, <1>2 DEF Sched
<1> HIDE DEF p, c
<1>4. QueuedOnce(p) /\ CurrentDefined(p) /\ HigherIsFlagged(p)
  BY <1>3 DEF WellFormed, QueuedOnce, CurrentDefined, HigherIsFlagged
<1>5. \E lv \in Level : p.queue[lv] # <<>> /\ (lv = p.currentLevel => Tail(p.queue[lv]) # <<>>)
  <2>1. /\ s.level[o] \in Level /\ o \in Elements(s.queue[s.level[o]])
        /\ s.queue[s.level[o]] # <<>>
    BY RunningMakesNonEmpty
  <2>2. ASSUME s.level[o] = s.currentLevel PROVE Tail(s.queue[s.level[o]]) # <<>>
    <3>1. Tail(q) \in Seq(Id) /\ Elements(Tail(q)) = Elements(q) \ {Head(q)}
      BY <1>2, TailFacts
    <3>2. o \in Elements(Tail(q))
      BY <1>1, <2>1, <2>2, <3>1 DEF c
    <3>. QED BY <2>2, <3>1, <3>2, EmptyFacts
  <2>. QED BY <1>3, <2>1, <2>2
<1>6. /\ r \in Sched /\ QueuedOnce(r) /\ CurrentDefined(r) /\ HigherIsFlagged(r)
      /\ r.running = p.running /\ r.level = p.level
      /\ \A lv \in Level : lv # p.currentLevel => r.queue[lv] = p.queue[lv]
      /\ Elements(r.queue[p.currentLevel]) =
           Elements(p.queue[p.currentLevel]) \ {Head(p.queue[p.currentLevel])}
  BY <1>3, <1>4, <1>5, RotateFacts
<1> HIDE DEF r, q
<1>7. \A lv \in Level : Elements(r.queue[lv]) =
        {t \in T : s.running[t] /\ s.level[t] = lv} \ {c}
  <2> TAKE lv \in Level
  <2>1. Elements(s.queue[lv]) = {t \in T : s.running[t] /\ s.level[t] = lv}
    BY DEF WellFormed, QueuesMatchFlags
  <2>2. CASE lv = s.currentLevel
    BY <1>1, <1>3, <1>6, <2>1, <2>2 DEF q
  <2>3. CASE lv # s.currentLevel
    BY <1>1, <1>3, <1>6, <2>1, <2>3
  <2>. QED BY <2>2, <2>3
<1>8. /\ \A t \in T : r.running[t] <=> s.running[t] /\ t # c
      /\ r.level = s.level
  BY <1>1, <1>2, <1>3, <1>6
<1>9. QueuesMatchFlags(r, T) /\ QueuesMatchFlags(r, T \ {c})
  BY <1>7, <1>8 DEF QueuesMatchFlags
<1>. QED BY <1>2, <1>3, <1>6, <1>8, <1>9 DEF WellFormed, r, p, c

(* Sleep keeps the run queues well-formed as long as another task runs.    *)
LEMMA SleepKeeps ==
  ASSUME NEW s, NEW T, WellFormed(s, T), NEW t \in T,
         NEW o \in T, s.running[o], o # t
  PROVE  /\ WellFormed(Sleep(s, t), T)
         /\ Sleep(s, t).running = [s.running EXCEPT ![t] = FALSE]
         /\ Sleep(s, t).level = s.level
<1> DEFINE p == [s EXCEPT !.running[t] = FALSE]
           lt == s.level[t]
           e == Erase(s.queue[lt], t)
           r == [p EXCEPT !.queue[lt] = e]
<1>1. /\ s \in Sched /\ T \subseteq Id /\ s.queue \in [Level -> Seq(Id)]
      /\ s.running \in [Id -> BOOLEAN] /\ s.level \in [Id -> Level]
      /\ s.currentLevel \in Level /\ s.levelChanged \in BOOLEAN
  BY DEF WellFormed, Sched
<1>2. CASE ~ s.running[t]
  BY <1>1, <1>2 DEF Sleep
<1>3. CASE s.running[t] /\ t = CurrentTask(s)
  BY <1>3, RotateOutKeeps DEF Sleep
<1>4. CASE s.running[t] /\ t # CurrentTask(s)
  <2>1. /\ lt \in Level /\ t \in Id /\ s.queue[lt] \in Seq(Id) /\ Unique(s.queue[lt])
    BY <1>1 DEF WellFormed, QueuedOnce
  <2>2. e \in Seq(Id) /\ Unique(e) /\ Elements(e) = Elements(s.queue[lt]) \ {t}
    BY <2>1, EraseFacts
  <2> HIDE DEF e
  <2>3. /\ r \in Sched /\ r.level = s.level /\ r.currentLevel = s.currentLevel
        /\ r.levelChanged = s.levelChanged /\ r.running = [s.running EXCEPT ![t] = FALSE]
        /\ r.queue = [s.queue EXCEPT ![lt] = e]
    BY <1>1, <2>1, <2>2 DEF Sched
  <2>4. r = Sleep(s, t)
    BY <1>4 DEF Sleep, e
  <2> HIDE DEF r
  <2>5. /\ QueuedOnce(r) /\ r.queue[lt] = e
        /\ \A lv \in Level : lv # lt => r.queue[lv] = s.queue[lv]
    BY <1>1, <2>1, <2>2, <2>3 DEF QueuedOnce, WellFormed
  <2>6. QueuesMatchFlags(r, T)
    <3> SUFFICES ASSUME NEW lv \in Level
                 PROVE  Elements(r.queue[lv]) = {u \in T : r.running[u] /\ r.level[u] = lv}
      BY DEF QueuesMatchFlags
    <3>1. Elements(s.queue[lv]) = {u \in T : s.running[u] /\ s.level[u] = lv}
      BY DEF WellFormed, QueuesMatchFlags
    <3>2. \A u \in T : r.running[u] <=> s.running[u] /\ u # t
      BY <1>1, <2>1, <2>3
    <3>3. CASE lv = lt
      BY <2>2, <2>3, <2>5, <3>1, <3>2, <3>3
    <3>4. CASE lv # lt
      BY <2>3, <2>5, <3>1, <3>2, <3>4
    <3>. QED BY <3>3, <3>4
  <2>7. CurrentDefined(r)
    <3>1. CASE lt # s.currentLevel
      BY <1>1, <2>3, <2>5, <3>1 DEF CurrentDefined, WellFormed
    <3>2. CASE lt = s.currentLevel
      <4>1. /\ CurrentTask(s) \in T /\ s.running[CurrentTask(s)]
            /\ s.level[CurrentTask(s)] = s.currentLevel
        BY CurrentFacts
      <4>2. CurrentTask(s) \in Elements(s.queue[lt])
        BY <2>1, <3>2, <4>1 DEF WellFormed, QueuesMatchFlags
      <4>3. e # <<>>
        BY <1>4, <2>2, <4>2, EmptyFacts
      <4>. QED BY <2>3, <2>5, <3>2, <4>3 DEF CurrentDefined
    <3>. QED BY <3>1, <3>2
  <2>8. HigherIsFlagged(r)
    <3>1. \A lv \in Level : r.queue[lv] # <<>> => s.queue[lv] # <<>>
      BY <2>1, <2>2, <2>5, EmptyFacts
    <3>. QED BY <2>3, <3>1 DEF HigherIsFlagged, WellFormed
  <2>. QED BY <1>1, <2>3, <2>4, <2>5, <2>6, <2>7, <2>8 DEF WellFormed
<1>. QED BY <1>2, <1>3, <1>4

(* Changing the level of a running task keeps the run queues well-formed.  *)
LEMMA ChangeLevelKeeps ==
  ASSUME NEW s, NEW T, WellFormed(s, T), NEW t \in T, s.running[t],
         NEW lv \in Level \cup {NoLevel}
  PROVE  /\ WellFormed(ChangeLevelRunning(s, t, lv), T)
         /\ ChangeLevelRunning(s, t, lv).running = s.running
<1> DEFINE lt == s.level[t]
           cl == s.currentLevel
           e == Erase(s.queue[lt], t)
           r == ChangeLevelRunning(s, t, lv)
<1>1. /\ s \in Sched /\ T \subseteq Id /\ t \in Id /\ s.queue \in [Level -> Seq(Id)]
      /\ s.running \in [Id -> BOOLEAN] /\ s.level \in [Id -> Level]
      /\ cl \in Level /\ s.levelChanged \in BOOLEAN
      /\ lt \in Level /\ s.queue[lt] \in Seq(Id) /\ Unique(s.queue[lt])
  BY DEF WellFormed, Sched, QueuedOnce
<1>2. \A l \in Level : Elements(s.queue[l]) = {u \in T : s.running[u] /\ s.level[u] = l}
  BY DEF WellFormed, QueuesMatchFlags
<1>3. CASE lv = NoLevel \/ lv = lt
  BY <1>3 DEF ChangeLevelRunning
<1>4. ASSUME lv \in Level, lv # lt,
             NEW f \in Seq(Id), NEW b \in Seq(Id), NEW ncl \in Level, NEW nch \in BOOLEAN,
             Unique(f), Elements(f) = Elements(s.queue[lt]) \ {t},
             Unique(b), Elements(b) = Elements(s.queue[lv]) \cup {t},
             r = [s EXCEPT !.queue = [[s.queue EXCEPT ![lt] = f] EXCEPT ![lv] = b],
                           !.level[t] = lv, !.currentLevel = ncl, !.levelChanged = nch]
      PROVE  /\ r \in Sched /\ QueuedOnce(r) /\ QueuesMatchFlags(r, T)
             /\ r.running = s.running /\ r.currentLevel = ncl /\ r.levelChanged = nch
             /\ r.queue[lt] = f /\ r.queue[lv] = b
             /\ \A l \in Level : l # lt /\ l # lv => r.queue[l] = s.queue[l]
  <2> HIDE DEF r
  <2>1. /\ r \in Sched /\ r.running = s.running /\ r.currentLevel = ncl
        /\ r.levelChanged = nch /\ r.level = [s.level EXCEPT ![t] = lv]
        /\ r.queue = [[s.queue EXCEPT ![lt] = f] EXCEPT ![lv] = b]
    BY <1>1, <1>4 DEF Sched
  <2>2. /\ r.queue[lt] = f /\ r.queue[lv] = b
        /\ \A l \in Level : l # lt /\ l # lv => r.queue[l] = s.queue[l]
    BY <1>1, <1>4, <2>1
  <2>3. QueuedOnce(r)
    BY <1>4, <2>2 DEF QueuedOnce, WellFormed
  <2>4. QueuesMatchFlags(r, T)
    <3> SUFFICES ASSUME NEW l \in Level
                 PROVE  Elements(r.queue[l]) = {u \in T : r.running[u] /\ r.level[u] = l}
      BY DEF QueuesMatchFlags
    <3>1. \A u \in T : r.level[u] = IF u = t THEN lv ELSE s.level[u]
      BY <1>1, <2>1
    <3>2. CASE l = lt
      BY SMTT(60), <1>2, <1>4, <2>1, <2>2, <3>1, <3>2
    <3>3. CASE l = lv
      BY <1>2, <1>4, <2>1, <2>2, <3>1, <3>3
    <3>4. CASE l # lt /\ l # lv
      <4>1. \A u \in T : r.level[u] = l <=> s.level[u] = l
        BY <3>1, <3>4
      <4>. QED BY SMTT(60), <1>2, <2>1, <2>2, <3>4, <4>1
    <3>. QED BY <3>2, <3>3, <3>4
  <2>. QED BY <2>1, <2>2, <2>3, <2>4
<1>5. CASE lv \in Level /\ lv # lt /\ t # CurrentTask(s)
  <2> DEFINE b == Append(s.queue[lv], t)
             nch == s.levelChanged \/ lv > cl
  <2>1. e \in Seq(Id) /\ Unique(e) /\ Elements(e) = Elements(s.queue[lt]) \ {t}
    BY <1>1, EraseFacts
  <2>2. /\ b \in Seq(Id) /\ b # <<>> /\ Unique(b)
        /\ Elements(b) = Elements(s.queue[lv]) \cup {t}
    <3>1. /\ s.queue[lv] \in Seq(Id) /\ Unique(s.queue[lv])
          /\ t \notin Elements(s.queue[lv])
      BY <1>1, <1>2, <1>5 DEF WellFormed, QueuedOnce
    <3> DEFINE q0 == s.queue[lv]
    <3> HIDE DEF q0
    <3>2. /\ Append(q0, t) \in Seq(Id) /\ Append(q0, t) # <<>> /\ Unique(Append(q0, t))
          /\ Elements(Append(q0, t)) = Elements(q0) \cup {t}
      <4>1. q0 \in Seq(Id) /\ t \in Id /\ Unique(q0) /\ t \notin Elements(q0)
        BY <1>1, <3>1 DEF q0
      <4>. QED BY <4>1, AppendFacts
    <3>. QED BY <3>2 DEF q0
  <2>3. r = [s EXCEPT !.queue = [[s.queue EXCEPT ![lt] = e] EXCEPT ![lv] = b],
                      !.level[t] = lv, !.currentLevel = cl, !.levelChanged = nch]
    <3> DEFINE er == [s.queue EXCEPT ![lt] = e]
    <3>1. er[lv] = s.queue[lv]
      BY <1>1, <1>5
    <3>2. r = [s EXCEPT !.queue = [er EXCEPT ![lv] = Append(er[lv], t)],
                        !.level[t] = lv, !.levelChanged = nch]
      BY <1>5, <1>1 DEF ChangeLevelRunning, NoLevel, Level
    <3> HIDE DEF er
    <3>. QED BY <1>1, <3>1, <3>2 DEF er, Sched
  <2> HIDE DEF e, b, r
  <2>4. nch \in BOOLEAN
    BY <1>1
  <2> HIDE DEF nch
  <2>5. /\ r \in Sched /\ QueuedOnce(r) /\ QueuesMatchFlags(r, T)
        /\ r.running = s.running /\ r.currentLevel = cl /\ r.levelChanged = nch
        /\ r.queue[lt] = e /\ r.queue[lv] = b
        /\ \A l \in Level : l # lt /\ l # lv => r.queue[l] = s.queue[l]
    BY ZenonT(60), <1>1, <1>4, <1>5, <2>1, <2>2, <2>3, <2>4
  <2>6. CurrentDefined(r)
    <3>1. CASE lt # cl
      BY <1>1, <2>2, <2>5, <3>1 DEF CurrentDefined, WellFormed
    <3>2. CASE lt = cl
      <4>1. /\ CurrentTask(s) \in T /\ s.running[CurrentTask(s)]
            /\ s.level[CurrentTask(s)] = cl
        BY CurrentFacts
      <4>2. CurrentTask(s) \in Elements(s.queue[lt])
        BY <1>1, <1>2, <3>2, <4>1
      <4>3. e # <<>>
        BY <1>5, <2>1, <4>2, EmptyFacts
      <4>. QED BY <2>5, <3>2, <4>3 DEF CurrentDefined
    <3>. QED BY <3>1, <3>2
  <2>7. HigherIsFlagged(r)
    <3>1. \A l \in Level : l # lv /\ r.queue[l] # <<>> => s.queue[l] # <<>>
      BY <1>1, <2>1, <2>5, EmptyFacts
    <3>. QED BY <2>5, <3>1 DEF HigherIsFlagged, WellFormed, nch
  <2>. QED BY <1>1, <2>5, <2>6, <2>7 DEF WellFormed, r
<1>6. CASE lv \in Level /\ lv # lt /\ t = CurrentTask(s)
  <2> DEFINE f == Tail(s.queue[cl])
             b == <<t>> \o s.queue[lv]
             nch == s.levelChanged \/ lv < cl
  <2>1. lt = cl /\ t = Head(s.queue[cl])
    BY <1>6, CurrentFacts DEF CurrentTask
  <2>2. f \in Seq(Id) /\ Unique(f) /\ Elements(f) = Elements(s.queue[lt]) \ {t}
    BY <1>1, <2>1, TailFacts DEF WellFormed, CurrentDefined
  <2>3. /\ b \in Seq(Id) /\ b # <<>> /\ Unique(b)
        /\ Elements(b) = Elements(s.queue[lv]) \cup {t}
    <3>1. /\ s.queue[lv] \in Seq(Id) /\ Unique(s.queue[lv])
          /\ t \notin Elements(s.queue[lv])
      BY <1>1, <1>2, <1>6 DEF WellFormed, QueuedOnce
    <3>. QED BY <1>1, <3>1, PushFrontFacts
  <2>4. r = [s EXCEPT !.queue = [[s.queue EXCEPT ![lt] = f] EXCEPT ![lv] = b],
                      !.level[t] = lv, !.currentLevel = lv, !.levelChanged = nch]
    <3> DEFINE po == [s.queue EXCEPT ![cl] = Tail(s.queue[cl])]
    <3>1. po[lv] = s.queue[lv]
      BY <1>1, <1>6, <2>1
    <3>2. r = [s EXCEPT !.queue = [po EXCEPT ![lv] = <<t>> \o po[lv]],
                        !.level[t] = lv, !.currentLevel = lv, !.levelChanged = nch]
      BY <1>6, <1>1 DEF ChangeLevelRunning, NoLevel, Level
    <3>. QED BY <2>1, <3>1, <3>2
  <2> HIDE DEF f, b, r
  <2>5. nch \in BOOLEAN
    BY <1>1
  <2> HIDE DEF nch
  <2>6. /\ r \in Sched /\ QueuedOnce(r) /\ QueuesMatchFlags(r, T)
        /\ r.running = s.running /\ r.currentLevel = lv /\ r.levelChanged = nch
        /\ r.queue[lt] = f /\ r.queue[lv] = b
        /\ \A l \in Level : l # lt /\ l # lv => r.queue[l] = s.queue[l]
    BY <1>1, <1>4, <1>6, <2>2, <2>3, <2>4, <2>5
  <2>7. CurrentDefined(r)
    BY <2>3, <2>6 DEF CurrentDefined
  <2>8. HigherIsFlagged(r)
    <3>1. ASSUME NEW l \in Level, l > lv, r.queue[l] # <<>> PROVE nch
      <4>1. CASE lv < cl
        BY <4>1 DEF nch
      <4>2. CASE ~ (lv < cl)
        <5>1. l > cl /\ l # lt /\ l # lv
          BY <1>1, <1>6, <2>1, <3>1, <4>2 DEF Level
        <5>2. s.levelChanged
          BY <2>6, <3>1, <5>1 DEF WellFormed, HigherIsFlagged
        <5>. QED BY <5>2 DEF nch
      <4>. QED BY <4>1, <4>2
    <3>. QED BY <2>6, <3>1 DEF HigherIsFlagged
  <2>. QED BY <1>1, <2>6, <2>7, <2>8 DEF WellFormed, r
<1>. QED BY <1>3, <1>5, <1>6

(* Wakeup, with or without a level, keeps the run queues well-formed.      *)
LEMMA WakeupKeeps ==
  ASSUME NEW s, NEW T, WellFormed(s, T), NEW t \in T,
         NEW lv \in Level \cup {NoLevel}
  PROVE  /\ WellFormed(Wakeup(s, t, lv), T)
         /\ Wakeup(s, t, lv).running = [s.running EXCEPT ![t] = TRUE]
<1> DEFINE n == IF lv = NoLevel THEN s.level[t] ELSE lv
           b == Append(s.queue[n], t)
           nch == s.levelChanged \/ n > s.currentLevel
           r == [s EXCEPT !.level[t] = n, !.running[t] = TRUE,
                          !.queue[n] = b, !.levelChanged = nch]
<1>1. /\ s \in Sched /\ T \subseteq Id /\ t \in Id /\ s.queue \in [Level -> Seq(Id)]
      /\ s.running \in [Id -> BOOLEAN] /\ s.level \in [Id -> Level]
      /\ s.currentLevel \in Level /\ s.levelChanged \in BOOLEAN
  BY DEF WellFormed, Sched
<1>2. CASE s.running[t]
  <2>1. [s.running EXCEPT ![t] = TRUE] = s.running
    BY <1>1, <1>2
  <2>2. Wakeup(s, t, lv) = ChangeLevelRunning(s, t, lv)
    BY <1>2 DEF Wakeup
  <2>. QED BY <1>2, <2>1, <2>2, ChangeLevelKeeps
<1>3. CASE ~ s.running[t]
  <2>1. n \in Level /\ nch \in BOOLEAN
    BY <1>1
  <2>2. r = Wakeup(s, t, lv)
    BY <1>3 DEF Wakeup
  <2> HIDE DEF n, nch
  <2>3. \A l \in Level : Elements(s.queue[l]) = {u \in T : s.running[u] /\ s.level[u] = l}
    BY DEF WellFormed, QueuesMatchFlags
  <2>4. /\ b \in Seq(Id) /\ b # <<>> /\ Unique(b)
        /\ Elements(b) = Elements(s.queue[n]) \cup {t}
    <3>1. /\ s.queue[n] \in Seq(Id) /\ Unique(s.queue[n])
          /\ t \notin Elements(s.queue[n])
      BY <1>1, <1>3, <2>1, <2>3 DEF WellFormed, QueuedOnce
    <3> DEFINE q0 == s.queue[n]
    <3> HIDE DEF q0
    <3>2. /\ Append(q0, t) \in Seq(Id) /\ Append(q0, t) # <<>> /\ Unique(Append(q0, t))
          /\ Elements(Append(q0, t)) = Elements(q0) \cup {t}
      <4>1. q0 \in Seq(Id) /\ t \in Id /\ Unique(q0) /\ t \notin Elements(q0)
        BY <1>1, <3>1 DEF q0
      <4>. QED BY <4>1, AppendFacts
    <3>. QED BY <3>2 DEF q0
  <2> HIDE DEF b
  <2>5. /\ r \in Sched /\ r.level = [s.level EXCEPT ![t] = n]
        /\ r.running = [s.running EXCEPT ![t] = TRUE]
        /\ r.queue = [s.queue EXCEPT ![n] = b]
        /\ r.currentLevel = s.currentLevel /\ r.levelChanged = nch
    BY <1>1, <2>1, <2>4 DEF Sched
  <2> HIDE DEF r
  <2>6. r.queue[n] = b /\ \A l \in Level : l # n => r.queue[l] = s.queue[l]
    BY <1>1, <2>1, <2>5
  <2>7. QueuedOnce(r) /\ CurrentDefined(r)
    BY <1>1, <2>4, <2>5, <2>6 DEF QueuedOnce, CurrentDefined, WellFormed
  <2>8. HigherIsFlagged(r)
    BY <2>1, <2>5, <2>6 DEF HigherIsFlagged, WellFormed, nch
  <2>9. QueuesMatchFlags(r, T)
    <3> SUFFICES ASSUME NEW l \in Level
                 PROVE  Elements(r.queue[l]) = {u \in T : r.running[u] /\ r.level[u] = l}
      BY DEF QueuesMatchFlags
    <3>1. \A u \in T : /\ r.level[u] = (IF u = t THEN n ELSE s.level[u])
                       /\ r.running[u] <=> (u = t \/ s.running[u])
      BY <1>1, <2>5
    <3>2. CASE l = n
      BY <1>3, <2>3, <2>4, <2>6, <3>1, <3>2
    <3>3. CASE l # n
      BY <1>3, <2>3, <2>6, <3>1, <3>3
    <3>. QED BY <3>2, <3>3
  <2>. QED BY <1>1, <2>2, <2>5, <2>7, <2>8, <2>9 DEF WellFormed
<1>. QED BY <1>2, <1>3

(* A new task, whose flag is clear, belongs in no queue.                   *)
LEMMA NewTaskKeeps ==
  ASSUME NEW s, NEW T, WellFormed(s, T), NEW n \in Id, ~ s.running[n]
  PROVE  WellFormed(s, T \cup {n})
<1>1. QueuesMatchFlags(s, T \cup {n})
  BY DEF WellFormed, QueuesMatchFlags
<1>. QED BY <1>1 DEF WellFormed

(* The constructor builds a well-formed state of the two first tasks.      *)
LEMMA InitSchedFacts ==
  /\ MainTask \in Id /\ IdleTask \in Id /\ MainTask # IdleTask
  /\ WellFormed(InitSched, {MainTask, IdleTask})
  /\ InitSched.running = [t \in Id |-> t \in {MainTask, IdleTask}]
<1> DEFINE s == InitSched
           T == {MainTask, IdleTask}
<1> USE MaxTaskAssumption, MaxLevelAssumption
<1>1. /\ MainTask \in Id /\ IdleTask \in Id /\ MainTask # IdleTask
      /\ 0 \in Level /\ kMaxLevel \in Level /\ kDefaultLevel \in Level /\ kMaxLevel # 0
  BY DEF MainTask, IdleTask, Id, Level, kDefaultLevel
<1>2. /\ <<MainTask>> \in Seq(Id) /\ <<IdleTask>> \in Seq(Id) /\ <<>> \in Seq(Id)
      /\ Unique(<<MainTask>>) /\ Unique(<<IdleTask>>) /\ Unique(<<>>)
      /\ Elements(<<MainTask>>) = {MainTask} /\ Elements(<<IdleTask>>) = {IdleTask}
      /\ Elements(<<>>) = {}
  BY <1>1 DEF Unique, Elements
<1>3. /\ s \in Sched
      /\ s.queue = [lv \in Level |-> IF lv = kMaxLevel THEN <<MainTask>>
                                     ELSE IF lv = 0 THEN <<IdleTask>> ELSE <<>>]
      /\ s.level = [t \in Id |-> IF t = MainTask THEN kMaxLevel
                                 ELSE IF t = IdleTask THEN 0 ELSE kDefaultLevel]
      /\ s.running = [t \in Id |-> t \in {MainTask, IdleTask}]
      /\ s.currentLevel = kMaxLevel /\ s.levelChanged = FALSE
  BY <1>1, <1>2 DEF InitSched, Sched
<1> HIDE DEF s
<1>4. QueuedOnce(s) /\ CurrentDefined(s)
  BY <1>1, <1>2, <1>3 DEF QueuedOnce, CurrentDefined
<1>5. HigherIsFlagged(s)
  BY <1>3 DEF HigherIsFlagged, Level
<1>6. QueuesMatchFlags(s, T)
  <2> SUFFICES ASSUME NEW lv \in Level
               PROVE  Elements(s.queue[lv]) = {t \in T : s.running[t] /\ s.level[t] = lv}
    BY DEF QueuesMatchFlags
  <2>1. /\ s.running[MainTask] /\ s.running[IdleTask]
        /\ s.level[MainTask] = kMaxLevel /\ s.level[IdleTask] = 0
    BY <1>1, <1>3
  <2>2. CASE lv = kMaxLevel
    BY <1>1, <1>2, <1>3, <2>1, <2>2
  <2>3. CASE lv = 0
    BY <1>1, <1>2, <1>3, <2>1, <2>3
  <2>4. CASE lv # 0 /\ lv # kMaxLevel
    BY <1>1, <1>2, <1>3, <2>1, <2>4
  <2>. QED BY <2>2, <2>3, <2>4
<1>7. WellFormed(s, T)
  BY <1>1, <1>3, <1>4, <1>5, <1>6 DEF WellFormed
<1>. QED BY <1>1, <1>3, <1>7 DEF s
=============================================================================
