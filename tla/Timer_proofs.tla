---------------------------- MODULE Timer_proofs ----------------------------
(***************************************************************************)
(* Proofs about the timer manager, for every set of tasks, durations and   *)
(* values, every word size and any number of timers and interrupts.        *)
(***************************************************************************)
EXTENDS Timer, FiniteSetTheorems, SequenceTheorems, TLAPS

-----------------------------------------------------------------------------
(* The inductive invariant.                                                *)

TimerRecord == [timeout : Nat, value : Int, task : Task \cup {0, 1},
                serial : Nat, ms : Nat, from : Nat, added : Nat]
Mail == [timer : TimerRecord, at : Nat]

Types ==
  /\ tick \in 0..MaxTick
  /\ timers \subseteq TimerRecord /\ IsFiniteSet(timers)
  /\ pending \in [Task -> TimerRecord]
  /\ alive \subseteq Task
  /\ got \in [Task -> Seq(Mail)]
  /\ switches \in Seq(Nat)
  /\ made \in Nat

IsTaskTimer(x) == x.value = kTaskTimerValue

(* The one task timer, and the switches it has caused: one in every period *)
(* since the start.                                                        *)
TaskTimerOK ==
  /\ \E x : /\ {y \in timers : IsTaskTimer(y)} = {x}
            /\ x.timeout = (Len(switches) + 1) * kTaskTimerPeriod
  /\ tick \in (Len(switches) * kTaskTimerPeriod)..((Len(switches) + 1) * kTaskTimerPeriod - 1)
  /\ \A i \in 1..Len(switches) : switches[i] = i * kTaskTimerPeriod

(* A timer's timeout is what its caller asked for, or later.               *)
Honest(x) ==
  x.ms * kTimerFreq < Word => x.timeout >= x.from + (x.ms * kTimerFreq) \div 1000

AllHonest ==
  /\ \A x \in timers : Honest(x)
  /\ \A t \in Task : Honest(pending[t])
  /\ \A t \in Task : \A i \in 1..Len(got[t]) : Honest(got[t][i].timer)

(* A message has gone out, and not before the timer's timeout.             *)
SentWhenDue ==
  \A t \in Task : \A i \in 1..Len(got[t]) :
    got[t][i].at <= tick /\ got[t][i].timer.timeout <= got[t][i].at

(* The numbers of the timers programs have created: each one is in one     *)
(* place only, computed, in the queue or sent.                             *)
SerialsOK ==
  /\ \A x \in timers : ~ IsTaskTimer(x) /\ x.task \in Task => x.serial \in 1..made
  /\ \A x \in timers : x.serial <= made
  /\ \A x, y \in timers : x.serial = y.serial => x.serial = 0 \/ x = y
  /\ \A t \in Task : \A i \in 1..Len(got[t]) : got[t][i].timer.serial \in 1..made

PendingOK ==
  \A t \in Task : pending[t] # None =>
    /\ ~ IsTaskTimer(pending[t]) /\ pending[t].serial \in 1..made
    /\ \A x \in timers : x.serial # pending[t].serial
    /\ \A u \in Task : \A i \in 1..Len(got[u]) : got[u][i].timer.serial # pending[t].serial
    /\ \A u \in Task : pending[u].serial = pending[t].serial => u = t

IInv == /\ Types /\ TaskTimerOK /\ AllHonest /\ SentWhenDue /\ SerialsOK /\ PendingOK
        /\ NeverLate /\ OnceAndInOrder

-----------------------------------------------------------------------------
(* Facts about the constants and the operators.                            *)

LEMMA Constants ==
  /\ kTaskTimerPeriod = 2 /\ kTimerFreq = 100 /\ kTaskTimerValue = IntMax
  /\ Word \in Nat /\ Word > 0 /\ IntMax \in Nat /\ IntMax > 0 /\ MaxTick \in Nat
  /\ MaxTick <= Word \div 2 /\ 0 \notin Task
  /\ \A ms \in Ms : ms \in Nat
  /\ \A v \in Arg2 : v \in Nat
BY TimerAssumption DEF kTaskTimerPeriod, kTimerFreq, kTaskTimerValue

(* A timer value that is accepted is a positive int; its negative is no    *)
(* task timer's.                                                           *)
LEMMA AcceptedValue ==
  ASSUME NEW v \in Arg2, ValueAccepted(v)
  PROVE  - ToInt(v) \in Int /\ - ToInt(v) < 0 /\ - ToInt(v) # kTaskTimerValue
<1>1. v \in Nat /\ IntMax \in Nat
  BY Constants
<1>2. ToInt(v) \in Int /\ ToInt(v) > 0
  BY <1>1 DEF ValueAccepted, ToInt
<1>. QED BY <1>1, <1>2 DEF kTaskTimerValue

LEMMA SmallModulo ==
  ASSUME NEW a \in Nat, NEW w \in Nat, a < w
  PROVE  a % w = a
OBVIOUS

LEMMA ModuloBound ==
  ASSUME NEW a \in Nat, NEW w \in Nat, w > 0
  PROVE  a % w \in Nat /\ a % w < w
OBVIOUS

(* What CreateTimer computes is not before the asked time.                 *)
LEMMA TimeoutFacts ==
  ASSUME NEW relative \in BOOLEAN, NEW ms \in Ms, NEW now \in 0..MaxTick
  PROVE  LET from == IF relative THEN now ELSE 0
         IN  /\ Timeout(relative, ms, now) \in Nat
             /\ ms * kTimerFreq < Word =>
                  Timeout(relative, ms, now) >= from + (ms * kTimerFreq) \div 1000
<1> DEFINE product == ms * kTimerFreq
           ticks == (product % Word) \div 1000
<1>1. product \in Nat /\ now \in Nat /\ now <= Word \div 2 /\ Word \in Nat /\ Word > 0
  BY Constants
<1>2. product % Word \in Nat /\ product % Word < Word
  BY <1>1, ModuloBound
<1>3. product < Word => product % Word = product
  BY <1>1, SmallModulo
<1> HIDE DEF product
<1>4. ticks \in Nat /\ ticks + now \in Nat /\ ticks + now < Word
  BY <1>1, <1>2
<1>5. (ticks + now) % Word = ticks + now
  <2> HIDE DEF ticks
  <2>. QED BY <1>1, <1>4, SmallModulo
<1>6. Timeout(relative, ms, now) = IF relative THEN ticks + now ELSE ticks
  BY <1>5 DEF Timeout, product
<1>7. product < Word => ticks = product \div 1000
  BY <1>3
<1> HIDE DEF ticks
<1>8. product \div 1000 \in Nat
  BY <1>1
<1>. QED BY <1>1, <1>4, <1>6, <1>7, <1>8 DEF product

(* The orders of a finite set of timers are sequences of distinct timers   *)
(* with increasing timeouts.                                               *)
LEMMA OrdersFacts ==
  ASSUME NEW S, IsFiniteSet(S), NEW o \in Orders(S)
  PROVE  /\ o \in Seq(S)
         /\ \A i, j \in 1..Len(o) : i < j => o[i] # o[j] /\ o[i].timeout <= o[j].timeout
<1>1. Cardinality(S) \in Nat
  BY FS_CardinalityType
<1>2. /\ o \in [1..Cardinality(S) -> S]
      /\ \A i, j \in 1..Cardinality(S) : i # j => o[i] # o[j]
      /\ \A i, j \in 1..Len(o) : i < j => Precedes(o[i], o[j])
  BY DEF Orders, SetToSeqs
<1>3. o \in Seq(S) /\ Len(o) = Cardinality(S)
  BY <1>1, <1>2, IsASeq, LenProperties
<1>. QED BY <1>1, <1>2, <1>3 DEF Precedes

-----------------------------------------------------------------------------
LEMMA InitIInv == Init => IInv
<1> SUFFICES ASSUME Init PROVE IInv
  OBVIOUS
<1> USE Constants
<1> DEFINE sentinel == Timer(Word - 1, 0, 0, 0, 0, 0)
           first == Timer(kTaskTimerPeriod, kTaskTimerValue, 1, 0, 0, 0)
<1>1. /\ sentinel \in TimerRecord /\ first \in TimerRecord /\ None \in TimerRecord
      /\ sentinel.serial = 0 /\ first.serial = 0 /\ sentinel.task = 0
      /\ IsTaskTimer(first) /\ ~ IsTaskTimer(sentinel) /\ first.timeout = 2
      /\ sentinel.timeout = Word - 1
      /\ Honest(sentinel) /\ Honest(first) /\ Honest(None)
      /\ sentinel.added = 0 /\ first.added = 0
  BY DEF Timer, TimerRecord, IsTaskTimer, Honest, None
<1>2. timers = {sentinel, first} /\ tick = 0 /\ made = 0 /\ switches = <<>>
  BY DEF Init
<1> HIDE DEF sentinel, first
<1>3. \A t \in Task : got[t] = <<>> /\ pending[t] = None
  BY DEF Init
<1>4. Types
  <2>1. IsFiniteSet(timers)
    <3>1. IsFiniteSet({first})
      BY FS_Singleton
    <3>2. IsFiniteSet({first} \cup {sentinel})
      BY <3>1, FS_AddElement
    <3>3. {first} \cup {sentinel} = timers
      BY <1>2
    <3>. QED BY <3>2, <3>3
  <2>2. pending \in [Task -> TimerRecord] /\ got \in [Task -> Seq(Mail)] /\ alive \subseteq Task
    BY <1>1 DEF Init
  <2>3. timers \subseteq TimerRecord
    BY <1>1, <1>2
  <2>4. tick \in 0..MaxTick /\ made \in Nat /\ switches \in Seq(Nat)
    BY <1>2
  <2>. QED BY <2>1, <2>2, <2>3, <2>4 DEF Types
<1>5. TaskTimerOK
  <2>1. {y \in timers : IsTaskTimer(y)} = {first}
    BY <1>1, <1>2
  <2>2. Len(switches) = 0
    BY <1>2
  <2>. QED BY <1>1, <1>2, <2>1, <2>2 DEF TaskTimerOK
<1>6. AllHonest
  BY <1>1, <1>2, <1>3 DEF AllHonest
<1>7. SentWhenDue /\ PendingOK /\ OnceAndInOrder
  BY <1>3 DEF SentWhenDue, PendingOK, OnceAndInOrder
<1>8. SerialsOK
  BY <1>1, <1>2, <1>3 DEF SerialsOK
<1>9. NeverLate
  BY <1>1, <1>2, <1>3 DEF NeverLate
<1>. QED BY <1>4, <1>5, <1>6, <1>7, <1>8, <1>9 DEF IInv

-----------------------------------------------------------------------------
(* One lemma per action.                                                   *)

LEMMA CreateTimerKeeps ==
  ASSUME IInv, NEW t \in Task, NEW relative \in BOOLEAN, NEW v \in Arg2, NEW ms \in Ms,
         CreateTimer(t, relative, v, ms)
  PROVE  IInv'
<1> USE Constants
<1> DEFINE from == IF relative THEN tick ELSE 0
           new == Timer(Timeout(relative, ms, tick), - ToInt(v), t, made + 1, ms, from)
<1>0. Types
  BY DEF IInv
<1>1. /\ ValueAccepted(v) /\ made' = made + 1 /\ pending' = [pending EXCEPT ![t] = new]
      /\ UNCHANGED <<tick, timers, alive, got, switches>>
  BY DEF CreateTimer
<1>2. /\ tick \in 0..MaxTick /\ made \in Nat /\ pending \in [Task -> TimerRecord]
      /\ timers \subseteq TimerRecord /\ got \in [Task -> Seq(Mail)]
  BY <1>0 DEF Types
<1>3. /\ Timeout(relative, ms, tick) \in Nat /\ from \in Nat
      /\ ms * kTimerFreq < Word =>
           Timeout(relative, ms, tick) >= from + (ms * kTimerFreq) \div 1000
  <2>1. from \in Nat
    BY <1>2
  <2>. QED BY <1>2, <2>1, TimeoutFacts
<1>4. - ToInt(v) \in Int /\ - ToInt(v) # kTaskTimerValue
  BY <1>1, AcceptedValue
<1>5. new \in TimerRecord /\ ~ IsTaskTimer(new) /\ new.serial = made + 1 /\ Honest(new)
  <2> HIDE DEF from
  <2>1. ms \in Nat /\ made + 1 \in Nat
    BY <1>2
  <2>2. new = [timeout |-> Timeout(relative, ms, tick), value |-> - ToInt(v), task |-> t,
               serial |-> made + 1, ms |-> ms, from |-> from, added |-> 0]
    BY DEF Timer
  <2>. QED BY <1>3, <1>4, <2>1, <2>2 DEF TimerRecord, IsTaskTimer, Honest
<1> HIDE DEF new
<1>6. pending' \in [Task -> TimerRecord]
      /\ \A u \in Task : pending'[u] = IF u = t THEN new ELSE pending[u]
  BY <1>1, <1>2, <1>5
<1>7. Types'
  BY <1>0, <1>1, <1>2, <1>6 DEF Types
<1>8. TaskTimerOK' /\ NeverLate' /\ OnceAndInOrder' /\ SentWhenDue'
  <2>1. TaskTimerOK /\ NeverLate /\ OnceAndInOrder /\ SentWhenDue
    BY DEF IInv
  <2>2. TaskTimerOK'
    BY <1>1, <2>1 DEF TaskTimerOK
  <2>3. NeverLate' /\ SentWhenDue'
    BY <1>1, <2>1 DEF NeverLate, SentWhenDue
  <2>4. OnceAndInOrder'
    BY <1>1, <2>1 DEF OnceAndInOrder
  <2>. QED BY <2>2, <2>3, <2>4
<1>9. AllHonest'
  <2>1. AllHonest
    BY DEF IInv
  <2>. QED BY <1>1, <1>5, <1>6, <2>1 DEF AllHonest
<1>10. SerialsOK'
  <2>1. SerialsOK
    BY DEF IInv
  <2>2. \A n \in 1..made : n \in 1..made'
    BY <1>1, <1>2
  <2>3. \A x \in timers : x.serial <= made'
    <3>1. \A x \in timers : x.serial <= made /\ x.serial \in Nat
      BY <1>2, <2>1 DEF SerialsOK, TimerRecord
    <3>. QED BY <1>1, <1>2, <3>1
  <2>. QED BY <1>1, <2>1, <2>2, <2>3 DEF SerialsOK
<1>11. PendingOK'
  <2>1. PendingOK /\ SerialsOK
    BY DEF IInv
  <2>2. /\ \A x \in timers : x.serial # made + 1
        /\ \A u \in Task : \A i \in 1..Len(got[u]) : got[u][i].timer.serial # made + 1
    <3>1. \A x \in timers : x.serial \in Nat /\ x.serial <= made
      BY <1>2, <2>1 DEF SerialsOK, TimerRecord
    <3>2. \A u \in Task : \A i \in 1..Len(got[u]) : got[u][i].timer.serial \in 1..made
      BY <2>1 DEF SerialsOK
    <3>. QED BY <1>2, <3>1, <3>2
  <2>3. \A u \in Task : pending[u].serial # made + 1
    <3> TAKE u \in Task
    <3>1. CASE pending[u] = None
      BY <1>2, <3>1 DEF None, Timer
    <3>2. CASE pending[u] # None
      BY <1>2, <2>1, <3>2 DEF PendingOK
    <3>. QED BY <3>1, <3>2
  <2>4. made + 1 \in 1..made' /\ \A n \in 1..made : n \in 1..made'
    BY <1>1, <1>2
  <2> SUFFICES ASSUME NEW u \in Task, pending'[u] # None
               PROVE  /\ ~ IsTaskTimer(pending'[u]) /\ pending'[u].serial \in 1..made'
                      /\ \A x \in timers : x.serial # pending'[u].serial
                      /\ \A w \in Task : \A i \in 1..Len(got[w]) :
                           got[w][i].timer.serial # pending'[u].serial
                      /\ \A w \in Task : pending'[w].serial = pending'[u].serial => w = u
    BY <1>1 DEF PendingOK
  <2>5. CASE u = t
    BY <1>5, <1>6, <2>2, <2>3, <2>4, <2>5
  <2>6. CASE u # t
    <3>1. pending'[u] = pending[u]
      BY <1>6, <2>6
    <3>. QED BY <1>5, <1>6, <2>1, <2>3, <2>4, <2>6, <3>1 DEF PendingOK
  <2>. QED BY <2>5, <2>6
<1>. QED BY <1>7, <1>8, <1>9, <1>10, <1>11 DEF IInv

LEMMA AddTimerKeeps ==
  ASSUME IInv, NEW t \in Task, AddTimer(t)
  PROVE  IInv'
<1> USE Constants
<1> DEFINE new == [pending[t] EXCEPT !.added = tick]
<1>0. Types /\ PendingOK /\ SerialsOK
  BY DEF IInv
<1>1. /\ pending[t] # None /\ timers' = timers \cup {new}
      /\ pending' = [pending EXCEPT ![t] = None]
      /\ UNCHANGED <<tick, alive, got, switches, made>>
  BY DEF AddTimer
<1>2. /\ tick \in 0..MaxTick /\ made \in Nat /\ pending \in [Task -> TimerRecord]
      /\ timers \subseteq TimerRecord /\ got \in [Task -> Seq(Mail)] /\ IsFiniteSet(timers)
  BY <1>0 DEF Types
<1>3. /\ ~ IsTaskTimer(pending[t]) /\ pending[t].serial \in 1..made
      /\ \A x \in timers : x.serial # pending[t].serial
      /\ \A u \in Task : \A i \in 1..Len(got[u]) : got[u][i].timer.serial # pending[t].serial
      /\ \A u \in Task : pending[u].serial = pending[t].serial => u = t
  BY <1>0, <1>1 DEF PendingOK
<1>4. Honest(pending[t])
  BY DEF IInv, AllHonest
<1>5. /\ new \in TimerRecord /\ new.added = tick /\ new.serial = pending[t].serial
      /\ ~ IsTaskTimer(new) /\ Honest(new)
  <2>1. pending[t] \in TimerRecord /\ tick \in Nat
    BY <1>2
  <2>2. /\ new \in TimerRecord /\ new.added = tick /\ new.serial = pending[t].serial
        /\ new.value = pending[t].value /\ new.timeout = pending[t].timeout
        /\ new.ms = pending[t].ms /\ new.from = pending[t].from
    BY <2>1 DEF TimerRecord
  <2> HIDE DEF new
  <2>. QED BY <1>3, <1>4, <2>2 DEF IsTaskTimer, Honest
<1> HIDE DEF new
<1>6. None \in TimerRecord /\ Honest(None) /\ None.serial = 0
  BY DEF None, Timer, TimerRecord, Honest
<1>7. /\ pending' \in [Task -> TimerRecord]
      /\ \A u \in Task : pending'[u] = IF u = t THEN None ELSE pending[u]
  BY <1>1, <1>2, <1>6
<1>8. Types'
  <2>1. IsFiniteSet(timers \cup {new})
    BY <1>2, FS_AddElement
  <2>2. timers' \subseteq TimerRecord /\ IsFiniteSet(timers')
    BY <1>1, <1>2, <1>5, <2>1
  <2>. QED BY <1>0, <1>1, <1>7, <2>2 DEF Types
<1>9. TaskTimerOK'
  <2>1. {y \in timers' : IsTaskTimer(y)} = {y \in timers : IsTaskTimer(y)}
    BY <1>1, <1>5
  <2>. QED BY <1>1, <2>1 DEF IInv, TaskTimerOK
<1>10. AllHonest'
  BY <1>1, <1>5, <1>6, <1>7 DEF IInv, AllHonest
<1>11. SentWhenDue'
  BY <1>1 DEF IInv, SentWhenDue
<1>12. NeverLate'
  BY <1>1, <1>5 DEF IInv, NeverLate
<1>13. OnceAndInOrder'
  BY <1>1, <1>3, <1>5 DEF IInv, OnceAndInOrder
<1>14. SerialsOK'
  <2>1. new.serial <= made
    BY <1>2, <1>3, <1>5
  <2>. QED BY <1>0, <1>1, <1>3, <1>5, <2>1 DEF SerialsOK
<1>15. PendingOK'
  <2> SUFFICES ASSUME NEW u \in Task, pending'[u] # None
               PROVE  /\ ~ IsTaskTimer(pending'[u]) /\ pending'[u].serial \in 1..made
                      /\ \A x \in timers' : x.serial # pending'[u].serial
                      /\ \A w \in Task : \A i \in 1..Len(got[w]) :
                           got[w][i].timer.serial # pending'[u].serial
                      /\ \A w \in Task : pending'[w].serial = pending'[u].serial => w = u
    BY <1>1 DEF PendingOK
  <2>1. u # t /\ pending'[u] = pending[u] /\ pending[u] # None
    BY <1>7
  <2>2. /\ ~ IsTaskTimer(pending[u]) /\ pending[u].serial \in 1..made
        /\ \A x \in timers : x.serial # pending[u].serial
        /\ \A w \in Task : \A i \in 1..Len(got[w]) : got[w][i].timer.serial # pending[u].serial
        /\ \A w \in Task : pending[w].serial = pending[u].serial => w = u
    BY <1>0, <2>1 DEF PendingOK
  <2>3. pending[u].serial # 0
    BY <1>2, <2>2
  <2>. QED BY <1>1, <1>3, <1>5, <1>6, <1>7, <2>1, <2>2, <2>3
<1>. QED BY <1>8, <1>9, <1>10, <1>11, <1>12, <1>13, <1>14, <1>15 DEF IInv

LEMMA FinishKeeps ==
  ASSUME IInv, NEW t \in Task, Finish(t)
  PROVE  IInv'
<1>1. /\ alive' = alive \ {t} /\ got' = [got EXCEPT ![t] = <<>>]
      /\ UNCHANGED <<tick, timers, pending, switches, made>>
  BY DEF Finish
<1>2. got \in [Task -> Seq(Mail)] /\ Types
  BY DEF IInv, Types
<1>3. got' \in [Task -> Seq(Mail)]
  BY <1>1, <1>2
<1>4. \A u \in Task : \A i \in 1..Len(got'[u]) : i \in 1..Len(got[u]) /\ got'[u] = got[u]
  BY <1>1, <1>2
<1>5. Types'
  BY <1>1, <1>2, <1>3 DEF Types
<1>6. TaskTimerOK'
  BY <1>1 DEF IInv, TaskTimerOK
<1>7. AllHonest' /\ SentWhenDue'
  BY <1>1, <1>4 DEF IInv, AllHonest, SentWhenDue
<1>8. SerialsOK'
  BY <1>1, <1>4 DEF IInv, SerialsOK
<1>9. PendingOK'
  BY <1>1, <1>4 DEF IInv, PendingOK
<1>10. NeverLate'
  BY <1>1, <1>4 DEF IInv, NeverLate
<1>11. OnceAndInOrder'
  BY <1>1, <1>4 DEF IInv, OnceAndInOrder
<1>. QED BY <1>5, <1>6, <1>7, <1>8, <1>9, <1>10, <1>11 DEF IInv

-----------------------------------------------------------------------------
(* The timer interrupt.                                                    *)

(* The timers whose message the next interrupt sends to t, if t lives.     *)
DueFor(t) == {x \in timers : x.timeout <= tick + 1 /\ ~ IsTaskTimer(x) /\ x.task = t}

(* What an interrupt sends: the timers of t that are due, each once, in    *)
(* the order of their timeouts, after what t already had.                  *)
LEMMA TickMail ==
  ASSUME Types, Tick, NEW t \in Task
  PROVE  /\ got'[t] \in Seq(Mail) /\ Len(got[t]) \in Nat /\ Len(got[t]) <= Len(got'[t])
         /\ \A i \in 1..Len(got'[t]) :
              \/ i \in 1..Len(got[t]) /\ got'[t][i] = got[t][i]
              \/ /\ i > Len(got[t]) /\ got'[t][i].at = tick + 1
                 /\ got'[t][i].timer \in DueFor(t)
         /\ \A i, j \in 1..Len(got'[t]) : i > Len(got[t]) /\ i < j =>
              /\ got'[t][i].timer # got'[t][j].timer
              /\ got'[t][i].timer.timeout <= got'[t][j].timer.timeout
<1> DEFINE due == {x \in timers : Expired(x, tick + 1)}
           Mine(u) == {x \in due \ {y \in due : y.value = kTaskTimerValue} : x.task = u}
<1>1. PICK order \in [Task -> UNION {Orders(Mine(u)) : u \in Task}] :
        /\ \A u \in Task : order[u] \in Orders(Mine(u))
        /\ got' = [u \in Task |->
             IF u \in alive
             THEN got[u] \o [i \in 1..Len(order[u]) |-> [timer |-> order[u][i], at |-> tick + 1]]
             ELSE got[u]]
  BY DEF Tick
<1>2. Mine(t) = DueFor(t)
  BY DEF DueFor, Expired, IsTaskTimer
<1>3. IsFiniteSet(DueFor(t)) /\ DueFor(t) \subseteq TimerRecord
  BY FS_Subset DEF Types, DueFor
<1> DEFINE o == order[t]
           sent == [i \in 1..Len(o) |-> [timer |-> o[i], at |-> tick + 1]]
<1>4. /\ o \in Seq(DueFor(t))
      /\ \A i, j \in 1..Len(o) : i < j => o[i] # o[j] /\ o[i].timeout <= o[j].timeout
  <2>1. o \in Orders(DueFor(t))
    BY <1>1, <1>2
  <2> HIDE DEF o
  <2>. QED BY <1>3, <2>1, OrdersFacts
<1>5. got[t] \in Seq(Mail) /\ Len(got[t]) \in Nat /\ tick + 1 \in Nat
  BY Constants DEF Types
<1>6. got'[t] = IF t \in alive THEN got[t] \o sent ELSE got[t]
  BY <1>1
<1> HIDE DEF o
<1>7. \A i \in 1..Len(o) : o[i] \in DueFor(t)
  BY <1>4
<1>8. sent \in Seq(Mail) /\ Len(sent) = Len(o) /\ Len(o) \in Nat
      /\ \A i \in 1..Len(o) : sent[i] = [timer |-> o[i], at |-> tick + 1]
  <2>1. Len(o) \in Nat
    BY <1>4
  <2>2. \A i \in 1..Len(o) : [timer |-> o[i], at |-> tick + 1] \in Mail
    BY <1>3, <1>5, <1>7 DEF Mail
  <2>3. sent \in [1..Len(o) -> Mail]
    BY <2>2
  <2>. QED BY <2>1, <2>3, IsASeq, LenProperties
<1> HIDE DEF sent
<1>9. CASE t \notin alive
  BY <1>5, <1>6, <1>9
<1>10. CASE t \in alive
  <2>1. got'[t] = got[t] \o sent
    BY <1>6, <1>10
  <2>2. /\ got'[t] \in Seq(Mail) /\ Len(got'[t]) = Len(got[t]) + Len(o)
        /\ \A i \in 1..Len(got'[t]) :
             got'[t][i] = IF i <= Len(got[t]) THEN got[t][i] ELSE sent[i - Len(got[t])]
    <3>1. /\ got[t] \o sent \in Seq(Mail) /\ Len(got[t] \o sent) = Len(got[t]) + Len(sent)
          /\ \A i \in 1..(Len(got[t]) + Len(sent)) :
               (got[t] \o sent)[i] = IF i <= Len(got[t]) THEN got[t][i] ELSE sent[i - Len(got[t])]
      <4>1. got[t] \in Seq(Mail) /\ sent \in Seq(Mail)
        BY <1>5, <1>8
      <4>. QED BY ONLY <4>1, ConcatProperties
    <3>. QED BY <1>8, <2>1, <3>1
  <2>3. \A i \in 1..Len(got'[t]) : i > Len(got[t]) =>
          /\ i - Len(got[t]) \in 1..Len(o)
          /\ got'[t][i].timer = o[i - Len(got[t])] /\ got'[t][i].at = tick + 1
    <3> SUFFICES ASSUME NEW i \in 1..Len(got'[t]), i > Len(got[t])
                 PROVE  /\ i - Len(got[t]) \in 1..Len(o)
                        /\ got'[t][i].timer = o[i - Len(got[t])] /\ got'[t][i].at = tick + 1
      OBVIOUS
    <3>1. i - Len(got[t]) \in 1..Len(o)
      BY <1>5, <1>8, <2>2
    <3>2. got'[t][i] = sent[i - Len(got[t])]
      BY <1>5, <1>8, <2>2
    <3>3. sent[i - Len(got[t])] = [timer |-> o[i - Len(got[t])], at |-> tick + 1]
      BY <1>8, <3>1
    <3>. QED BY <3>1, <3>2, <3>3
  <2>4. \A i \in 1..Len(got'[t]) :
          \/ i \in 1..Len(got[t]) /\ got'[t][i] = got[t][i]
          \/ /\ i > Len(got[t]) /\ got'[t][i].at = tick + 1
             /\ got'[t][i].timer \in DueFor(t)
    <3> TAKE i \in 1..Len(got'[t])
    <3>1. CASE i <= Len(got[t])
      BY <1>5, <2>2, <3>1
    <3>2. CASE i > Len(got[t])
      BY <1>7, <2>3, <3>2
    <3>. QED BY <1>5, <1>8, <2>2, <3>1, <3>2
  <2>5. ASSUME NEW i \in 1..Len(got'[t]), NEW j \in 1..Len(got'[t]), i > Len(got[t]), i < j
        PROVE  /\ got'[t][i].timer # got'[t][j].timer
               /\ got'[t][i].timer.timeout <= got'[t][j].timer.timeout
    <3>1. j > Len(got[t]) /\ i - Len(got[t]) < j - Len(got[t])
      BY <1>5, <1>8, <2>2, <2>5
    <3>. QED BY <1>4, <2>3, <2>5, <3>1
  <2>6. Len(got[t]) <= Len(got'[t])
    BY <1>5, <1>8, <2>2
  <2>. QED BY <1>5, <2>2, <2>4, <2>5, <2>6
<1>. QED BY <1>9, <1>10

(* What stays in the queue, and the task timer that is armed again.        *)
LEMMA TickQueue ==
  ASSUME Types, TaskTimerOK, Tick
  PROVE  /\ \A x \in timers' : \/ x \in timers /\ x.timeout > tick + 1
                               \/ x = Rearmed(tick + 1)
         /\ timers' \subseteq TimerRecord /\ IsFiniteSet(timers')
         /\ switches' \in Seq(Nat) /\ TaskTimerOK'
<1> USE Constants
<1> DEFINE due == {x \in timers : Expired(x, tick + 1)}
           task == {x \in due : x.value = kTaskTimerValue}
           new == Rearmed(tick + 1)
           L == Len(switches)
<1>1. /\ tick < MaxTick /\ tick' = tick + 1
      /\ timers' = (timers \ due) \cup (IF task = {} THEN {} ELSE {new})
      /\ switches' = IF task = {} THEN switches ELSE Append(switches, tick + 1)
  BY DEF Tick
<1>2. /\ tick \in Nat /\ timers \subseteq TimerRecord /\ IsFiniteSet(timers)
      /\ switches \in Seq(Nat) /\ L \in Nat
  BY DEF Types
<1>3. new \in TimerRecord /\ IsTaskTimer(new) /\ new.timeout = tick + 3 /\ new.serial = 0
  BY <1>2 DEF Rearmed, Timer, TimerRecord, IsTaskTimer
<1>4. PICK x : /\ {y \in timers : IsTaskTimer(y)} = {x}
               /\ x.timeout = (L + 1) * 2
  BY DEF TaskTimerOK
<1>5. tick \in (L * 2)..((L + 1) * 2 - 1) /\ \A i \in 1..L : switches[i] = i * 2
  BY DEF TaskTimerOK
<1>6. x \in timers /\ IsTaskTimer(x) /\ \A y \in timers : IsTaskTimer(y) => y = x
  BY <1>4
<1>7. \A y \in timers : y \in due <=> y.timeout <= tick + 1
  BY DEF Expired
<1>8. task = IF x.timeout <= tick + 1 THEN {x} ELSE {}
  BY <1>6, <1>7 DEF IsTaskTimer
<1>9. \A y \in timers : y.timeout \in Nat
  BY <1>2 DEF TimerRecord
<1>10. \A y \in timers' : (y \in timers /\ y.timeout > tick + 1) \/ y = new
  BY <1>1, <1>2, <1>7, <1>9
<1>11. timers' \subseteq TimerRecord
  BY <1>2, <1>3, <1>10
<1>12. IsFiniteSet(timers')
  <2>1. IsFiniteSet(timers \ due)
    BY <1>2, FS_Subset
  <2>2. IsFiniteSet((timers \ due) \cup {new})
    BY <2>1, FS_AddElement
  <2>3. timers' = timers \ due \/ timers' = (timers \ due) \cup {new}
    BY <1>1
  <2>. QED BY <2>1, <2>2, <2>3
<1>13. switches' \in Seq(Nat)
  BY <1>1, <1>2
<1>14. TaskTimerOK'
  <2>1. CASE x.timeout <= tick + 1
    <3>1. tick + 1 = (L + 1) * 2
      BY SMTT(60), <1>2, <1>4, <1>5, <2>1
    <3>2. timers' = (timers \ due) \cup {new} /\ switches' = Append(switches, tick + 1)
      BY <1>1, <1>8, <2>1
    <3>3. {y \in timers' : IsTaskTimer(y)} = {new}
      BY <1>3, <1>6, <1>7, <2>1, <3>2
    <3>4. /\ Len(switches') = L + 1
          /\ \A i \in 1..L : switches'[i] = switches[i]
          /\ switches'[L + 1] = tick + 1
      BY <1>2, <3>2, AppendProperties
    <3>5. \A i \in 1..Len(switches') : switches'[i] = i * 2
      <4> TAKE i \in 1..Len(switches')
      <4>1. i \in 1..L \/ i = L + 1
        BY <1>2, <3>4
      <4>2. CASE i \in 1..L
        BY <1>5, <3>4, <4>2
      <4>3. CASE i = L + 1
        BY <1>2, <3>1, <3>4, <4>3
      <4>. QED BY <4>1, <4>2, <4>3
    <3>6. new.timeout = (Len(switches') + 1) * 2
      BY <1>2, <1>3, <3>1, <3>4
    <3>7. tick' \in (Len(switches') * 2)..((Len(switches') + 1) * 2 - 1)
      BY <1>1, <1>2, <3>1, <3>4
    <3> HIDE DEF new
    <3>. QED BY <3>3, <3>5, <3>6, <3>7 DEF TaskTimerOK
  <2>2. CASE ~ (x.timeout <= tick + 1)
    <3>1. task = {} /\ timers' = timers \ due /\ switches' = switches
      BY <1>1, <1>8, <2>2
    <3>2. {y \in timers' : IsTaskTimer(y)} = {x}
      BY <1>6, <1>7, <2>2, <3>1
    <3>3. tick' \in (L * 2)..((L + 1) * 2 - 1)
      BY <1>1, <1>2, <1>4, <1>5, <2>2
    <3>. QED BY <1>4, <1>5, <3>1, <3>2, <3>3 DEF TaskTimerOK
  <2>. QED BY <2>1, <2>2
<1>. QED BY <1>10, <1>11, <1>12, <1>13, <1>14

LEMMA TickKeeps ==
  ASSUME IInv, Tick
  PROVE  IInv'
<1> USE Constants
<1>0. Types /\ TaskTimerOK /\ AllHonest /\ SentWhenDue /\ SerialsOK /\ PendingOK
      /\ NeverLate /\ OnceAndInOrder
  BY DEF IInv
<1>1. /\ tick < MaxTick /\ tick' = tick + 1 /\ UNCHANGED <<pending, alive, made>>
      /\ DOMAIN got' = Task /\ got' = [t \in DOMAIN got' |-> got'[t]]
  BY DEF Tick
<1>2. /\ tick \in Nat /\ made \in Nat /\ timers \subseteq TimerRecord
      /\ pending \in [Task -> TimerRecord] /\ got \in [Task -> Seq(Mail)]
  BY <1>0 DEF Types
<1>2a. \A t \in Task : \A i \in 1..Len(got[t]) :
         got[t][i].at \in Nat /\ got[t][i].timer.timeout \in Nat
  <2> TAKE t \in Task
  <2> TAKE i \in 1..Len(got[t])
  <2>1. got[t][i] \in Mail
    BY <1>2, ElementOfSeq
  <2>. QED BY <2>1 DEF Mail, TimerRecord
<1>3. /\ \A x \in timers' : (x \in timers /\ x.timeout > tick + 1) \/ x = Rearmed(tick + 1)
      /\ timers' \subseteq TimerRecord /\ IsFiniteSet(timers')
      /\ switches' \in Seq(Nat) /\ TaskTimerOK'
  BY <1>0, TickQueue
<1>4. /\ Rearmed(tick + 1).serial = 0 /\ IsTaskTimer(Rearmed(tick + 1))
      /\ Rearmed(tick + 1).timeout = tick + 3 /\ Honest(Rearmed(tick + 1))
  BY <1>2 DEF Rearmed, Timer, IsTaskTimer, Honest
<1>5. ASSUME NEW t \in Task
      PROVE  /\ got'[t] \in Seq(Mail) /\ Len(got[t]) \in Nat /\ Len(got[t]) <= Len(got'[t])
             /\ \A i \in 1..Len(got'[t]) :
                  \/ i \in 1..Len(got[t]) /\ got'[t][i] = got[t][i]
                  \/ /\ i > Len(got[t]) /\ got'[t][i].at = tick + 1
                     /\ got'[t][i].timer \in DueFor(t)
             /\ \A i, j \in 1..Len(got'[t]) : i > Len(got[t]) /\ i < j =>
                  /\ got'[t][i].timer # got'[t][j].timer
                  /\ got'[t][i].timer.timeout <= got'[t][j].timer.timeout
  BY <1>0, <1>5, TickMail
<1>6. \A t \in Task : \A x \in DueFor(t) :
        /\ x \in timers /\ x.timeout <= tick + 1 /\ x.timeout \in Nat /\ x.added \in Nat
        /\ x.serial \in 1..made /\ x \notin timers'
  <2> TAKE t \in Task
  <2> TAKE x \in DueFor(t)
  <2>1. x \in timers /\ x.timeout <= tick + 1 /\ ~ IsTaskTimer(x) /\ x.task \in Task
    BY DEF DueFor
  <2>2. x.timeout \in Nat /\ x.added \in Nat
    BY <1>2, <2>1 DEF TimerRecord
  <2>3. x.serial \in 1..made
    BY <1>0, <2>1 DEF SerialsOK
  <2>4. x \notin timers'
    <3>1. x # Rearmed(tick + 1)
      BY <1>4, <2>1
    <3>2. ~ (x.timeout > tick + 1)
      BY <1>2, <2>1, <2>2
    <3>. QED BY <1>3, <3>1, <3>2
  <2>. QED BY <2>1, <2>2, <2>3, <2>4
<1>7. Types'
  <2>1. got' \in [Task -> Seq(Mail)]
    BY <1>1, <1>5
  <2>2. tick' \in 0..MaxTick
    BY <1>1, <1>2
  <2>. QED BY <1>0, <1>1, <1>3, <2>1, <2>2 DEF Types
<1>8. AllHonest'
  <2>1. \A x \in timers' : Honest(x)
    BY <1>0, <1>3, <1>4 DEF AllHonest
  <2>2. \A t \in Task : \A i \in 1..Len(got'[t]) : Honest(got'[t][i].timer)
    BY <1>0, <1>5, <1>6 DEF AllHonest
  <2>. QED BY <1>0, <1>1, <2>1, <2>2 DEF AllHonest
<1>9. SentWhenDue'
  <2> SUFFICES ASSUME NEW t \in Task, NEW i \in 1..Len(got'[t])
               PROVE  got'[t][i].at <= tick + 1 /\ got'[t][i].timer.timeout <= got'[t][i].at
    BY <1>1 DEF SentWhenDue
  <2>1. CASE i \in 1..Len(got[t]) /\ got'[t][i] = got[t][i]
    <3>1. got[t][i].at <= tick /\ got[t][i].timer.timeout <= got[t][i].at
      BY <1>0, <2>1 DEF SentWhenDue
    <3>2. got[t][i].at \in Nat
      BY <1>2a, <2>1
    <3>. QED BY <1>2, <2>1, <3>1, <3>2
  <2>2. CASE got'[t][i].at = tick + 1 /\ got'[t][i].timer \in DueFor(t)
    BY <1>2, <1>6, <2>2
  <2>. QED BY <1>5, <2>1, <2>2
<1>10. SerialsOK'
  <2>1. \A x \in timers' : ~ IsTaskTimer(x) /\ x.task \in Task => x.serial \in 1..made
    BY <1>0, <1>3, <1>4 DEF SerialsOK
  <2>2. \A x \in timers' : x.serial <= made
    BY <1>0, <1>2, <1>3, <1>4 DEF SerialsOK
  <2>3. \A x, y \in timers' : x.serial = y.serial => x.serial = 0 \/ x = y
    BY <1>0, <1>3, <1>4 DEF SerialsOK
  <2>4. \A t \in Task : \A i \in 1..Len(got'[t]) : got'[t][i].timer.serial \in 1..made
    BY <1>0, <1>5, <1>6 DEF SerialsOK
  <2>. QED BY <1>1, <2>1, <2>2, <2>3, <2>4 DEF SerialsOK
<1>11. PendingOK'
  <2> SUFFICES ASSUME NEW u \in Task, pending[u] # None
               PROVE  /\ ~ IsTaskTimer(pending[u]) /\ pending[u].serial \in 1..made
                      /\ \A x \in timers' : x.serial # pending[u].serial
                      /\ \A w \in Task : \A i \in 1..Len(got'[w]) :
                           got'[w][i].timer.serial # pending[u].serial
                      /\ \A w \in Task : pending[w].serial = pending[u].serial => w = u
    BY <1>1 DEF PendingOK
  <2>1. /\ ~ IsTaskTimer(pending[u]) /\ pending[u].serial \in 1..made
        /\ \A x \in timers : x.serial # pending[u].serial
        /\ \A w \in Task : \A i \in 1..Len(got[w]) : got[w][i].timer.serial # pending[u].serial
        /\ \A w \in Task : pending[w].serial = pending[u].serial => w = u
    BY <1>0 DEF PendingOK
  <2>2. pending[u].serial # 0
    BY <1>2, <2>1
  <2>3. \A x \in timers' : x.serial # pending[u].serial
    BY <1>3, <1>4, <2>1, <2>2
  <2>4. \A w \in Task : \A i \in 1..Len(got'[w]) : got'[w][i].timer.serial # pending[u].serial
    BY <1>5, <1>6, <2>1
  <2>. QED BY <2>1, <2>3, <2>4
<1>12. NeverLate'
  <2>1. \A x \in timers' : ~ (x.timeout <= tick + 1)
    <3> TAKE x \in timers'
    <3>1. x.timeout \in Nat
      BY <1>3 DEF TimerRecord
    <3>. QED BY <1>2, <1>3, <1>4, <3>1
  <2>2. ASSUME NEW t \in Task, NEW i \in 1..Len(got'[t])
        PROVE  LET g == got'[t][i]
               IN  g.at = g.timer.timeout \/ (g.at = g.timer.added + 1 /\ g.timer.timeout < g.at)
    <3>1. CASE i \in 1..Len(got[t]) /\ got'[t][i] = got[t][i]
      BY <1>0, <3>1 DEF NeverLate
    <3>2. CASE got'[t][i].at = tick + 1 /\ got'[t][i].timer \in DueFor(t)
      <4> DEFINE x == got'[t][i].timer
      <4>1. x \in timers /\ x.timeout <= tick + 1 /\ x.timeout \in Nat
        BY <1>6, <3>2
      <4>2. x.timeout <= tick => x.added = tick
        BY <1>0, <4>1 DEF NeverLate
      <4> HIDE DEF x
      <4>3. tick + 1 = x.timeout \/ (tick + 1 = x.added + 1 /\ x.timeout < tick + 1)
        BY <1>2, <4>1, <4>2
      <4>. QED BY <3>2, <4>3 DEF x
    <3>. QED BY <1>5, <3>1, <3>2
  <2>. QED BY <1>1, <2>1, <2>2 DEF NeverLate
<1>13. OnceAndInOrder'
  <2>1. ASSUME NEW t \in Task, NEW i \in 1..Len(got'[t]), NEW x \in timers'
        PROVE  x.serial # got'[t][i].timer.serial
    <3> DEFINE a == got'[t][i].timer
    <3>1. CASE i \in 1..Len(got[t]) /\ got'[t][i] = got[t][i]
      <4>1. a.serial # 0 /\ \A y \in timers : y.serial # a.serial
        BY <1>0, <1>2, <3>1 DEF SerialsOK, OnceAndInOrder
      <4>. QED BY <1>3, <1>4, <4>1
    <3>2. CASE a \in DueFor(t)
      <4>1. a \in timers /\ a \notin timers' /\ a.serial # 0
        BY <1>2, <1>6, <3>2
      <4>. QED BY <1>0, <1>3, <1>4, <4>1 DEF SerialsOK
    <3>. QED BY <1>5, <3>1, <3>2
  <2>2. ASSUME NEW t \in Task, NEW i \in 1..Len(got'[t]), NEW j \in 1..Len(got'[t]), i < j
        PROVE  /\ got'[t][i].timer.serial # got'[t][j].timer.serial
               /\ got'[t][j].timer.added < got'[t][i].at =>
                    got'[t][i].timer.timeout <= got'[t][j].timer.timeout
    <3> DEFINE a == got'[t][i]
               b == got'[t][j]
    <3>1. CASE i \in 1..Len(got[t]) /\ j \in 1..Len(got[t])
      <4>1. a = got[t][i] /\ b = got[t][j]
        BY <1>5, <3>1
      <4>. QED BY <1>0, <2>2, <3>1, <4>1 DEF OnceAndInOrder
    <3>2. CASE i \in 1..Len(got[t]) /\ j > Len(got[t])
      <4>1. a = got[t][i] /\ b.timer \in DueFor(t)
        BY <1>5, <3>2
      <4>2. b.timer \in timers /\ b.timer.timeout \in Nat /\ b.timer.added \in Nat
        BY <1>6, <4>1
      <4>3. /\ a.at <= tick /\ a.timer.timeout <= a.at
            /\ \A x \in timers : x.serial # a.timer.serial
        BY <1>0, <3>2, <4>1 DEF SentWhenDue, OnceAndInOrder
      <4>4. a.at \in Nat /\ a.timer.timeout \in Nat
        BY <1>2a, <3>2, <4>1
      <4>5. b.timer.timeout <= tick => b.timer.added = tick
        BY <1>0, <4>2 DEF NeverLate
      <4>6. b.timer.added < a.at => a.timer.timeout <= b.timer.timeout
        <5> HIDE DEF a, b
        <5>. QED BY <1>2, <4>2, <4>3, <4>4, <4>5
      <4>. QED BY <4>2, <4>3, <4>6
    <3>3. CASE i > Len(got[t])
      <4>1. a.timer \in DueFor(t) /\ b.timer \in DueFor(t)
        <5>1. j > Len(got[t])
          BY <1>5, <2>2, <3>3
        <5>. QED BY <1>5, <3>3, <5>1
      <4>2. a.timer # b.timer /\ a.timer.timeout <= b.timer.timeout
        BY <1>5, <2>2, <3>3
      <4>3. a.timer \in timers /\ b.timer \in timers /\ a.timer.serial # 0
        BY <1>2, <1>6, <4>1
      <4>. QED BY <1>0, <4>2, <4>3 DEF SerialsOK
    <3>4. /\ i \in 1..Len(got[t]) \/ i > Len(got[t])
          /\ j \in 1..Len(got[t]) \/ j > Len(got[t])
      BY <1>5
    <3>. QED BY <3>1, <3>2, <3>3, <3>4
  <2>. QED BY <2>1, <2>2 DEF OnceAndInOrder
<1>. QED BY <1>3, <1>7, <1>8, <1>9, <1>10, <1>11, <1>12, <1>13 DEF IInv

LEMMA NextIInv == IInv /\ [Next]_vars => IInv'
<1> SUFFICES ASSUME IInv, [Next]_vars PROVE IInv'
  OBVIOUS
<1>1. CASE UNCHANGED vars
  <2>1. UNCHANGED <<tick, timers, pending, alive, got, switches, made>>
    BY <1>1 DEF vars
  <2>2. Types' /\ TaskTimerOK' /\ AllHonest' /\ SentWhenDue'
    BY <2>1 DEF IInv, Types, TaskTimerOK, AllHonest, SentWhenDue
  <2>3. SerialsOK' /\ PendingOK'
    BY <2>1 DEF IInv, SerialsOK, PendingOK
  <2>4. NeverLate'
    BY <2>1 DEF IInv, NeverLate
  <2>5. OnceAndInOrder'
    BY <2>1 DEF IInv, OnceAndInOrder
  <2>. QED BY <2>2, <2>3, <2>4, <2>5 DEF IInv
<1>2. CASE \E t \in Task, rel \in BOOLEAN, v \in Arg2, ms \in Ms : CreateTimer(t, rel, v, ms)
  BY <1>2, CreateTimerKeeps
<1>3. CASE \E t \in Task : AddTimer(t) \/ Finish(t)
  BY <1>3, AddTimerKeeps, FinishKeeps
<1>4. CASE Tick
  BY <1>4, TickKeeps
<1>. QED BY <1>1, <1>2, <1>3, <1>4 DEF Next

LEMMA IInvAlways == Spec => []IInv
<1>. QED BY InitIInv, NextIInv, PTL DEF Spec

-----------------------------------------------------------------------------
(* The task timer of TimerManager::Tick is always there, alone, and at     *)
(* most one period away, whatever timers the programs create: the switches *)
(* it causes come at every multiple of the period.                         *)
THEOREM Pace == Spec => []PreemptionKeepsPace
<1>1. IInv => PreemptionKeepsPace
  <2> SUFFICES ASSUME IInv PROVE PreemptionKeepsPace
    OBVIOUS
  <2> USE Constants
  <2> DEFINE L == Len(switches)
  <2>1. PICK x : {y \in timers : IsTaskTimer(y)} = {x} /\ x.timeout = (L + 1) * 2
    BY DEF IInv, TaskTimerOK
  <2>2. tick \in (L * 2)..((L + 1) * 2 - 1) /\ tick \in Nat /\ L \in Nat
    BY DEF IInv, TaskTimerOK, Types
  <2>3. x.timeout \in (tick + 1)..(tick + 2)
    BY <2>1, <2>2
  <2>4. {y \in timers : y.value = kTaskTimerValue} = {x}
    BY <2>1 DEF IsTaskTimer
  <2>5. Cardinality({x}) = 1
    BY FS_Singleton
  <2>6. \A y \in timers : y.value = kTaskTimerValue => y = x
    BY <2>4
  <2>7. \A i \in 1..L : switches[i] = i * kTaskTimerPeriod
    BY DEF IInv, TaskTimerOK
  <2>. QED BY <2>3, <2>4, <2>5, <2>6, <2>7 DEF PreemptionKeepsPace
<1>. QED BY <1>1, IInvAlways, PTL

(* A timeout message never comes before the tick its caller asked for in   *)
(* CreateTimer, although the tick is read in one critical section and the  *)
(* timer added in another.                                                 *)
THEOREM NotEarly == Spec => []NeverEarly
<1>1. IInv => NeverEarly
  <2> SUFFICES ASSUME IInv, NEW t \in Task, NEW i \in 1..Len(got[t]),
                      got[t][i].timer.ms * kTimerFreq < Word
               PROVE  got[t][i].at >= got[t][i].timer.from
                                        + (got[t][i].timer.ms * kTimerFreq) \div 1000
    BY DEF NeverEarly
  <2> DEFINE g == got[t][i]
             asked == g.timer.from + (g.timer.ms * kTimerFreq) \div 1000
  <2>1. g.timer.timeout >= asked
    BY DEF IInv, AllHonest, Honest
  <2>2. g.timer.timeout <= g.at
    BY DEF IInv, SentWhenDue
  <2>3. g \in Mail
    <3>1. got[t] \in Seq(Mail)
      BY DEF IInv, Types
    <3>. QED BY <3>1, ElementOfSeq
  <2>4. /\ g.at \in Nat /\ g.timer.timeout \in Nat /\ g.timer.from \in Nat
        /\ g.timer.ms \in Nat
    BY <2>3 DEF Mail, TimerRecord
  <2>5. asked \in Int
    <3> HIDE DEF g
    <3>1. g.timer.ms * kTimerFreq \in Nat
      BY <2>4, Constants
    <3>2. (g.timer.ms * kTimerFreq) \div 1000 \in Nat
      BY <3>1
    <3>. QED BY <2>4, <3>2
  <2> HIDE DEF asked
  <2>6. g.at >= asked
    BY <2>1, <2>2, <2>4, <2>5
  <2>. QED BY <2>6 DEF asked
<1>. QED BY <1>1, IInvAlways, PTL

(* Tick forgets no expired timer: a message goes out at the timeout, or at *)
(* the first interrupt after the timer was added when that is later.       *)
THEOREM NotLate == Spec => []NeverLate
<1>1. IInv => NeverLate
  BY DEF IInv
<1>. QED BY <1>1, IInvAlways, PTL

(* Tick sends the message of a timer once, and a task's messages come in   *)
(* the order of their timeouts.                                            *)
THEOREM OnceInOrder == Spec => []OnceAndInOrder
<1>1. IInv => OnceAndInOrder
  BY DEF IInv
<1>. QED BY <1>1, IInvAlways, PTL
=============================================================================
