---------------------------- MODULE Xhci_proofs -----------------------------
(***************************************************************************)
(* Proofs about the driver of the xHCI controller, for every number of     *)
(* ports and slots, every size of the rings, every choice of devices and   *)
(* any number of faults.                                                   *)
(*                                                                         *)
(* That never two devices answer to the default address follows from       *)
(*   XState      the state is type-correct,                                *)
(*   InTurn      a device at the default address is behind the port that   *)
(*               is being addressed, and that port is the one in the       *)
(*               phases between reset and address,                         *)
(*   ContextsOK  a port that is named in an input or device context has    *)
(*               come to the phase of addressing, and one that is named    *)
(*               in a device context has left the default address for      *)
(*               good: a port is reset only once,                          *)
(*   CommandsOK  an AddressDevice command in the ring names a slot whose   *)
(*               input context names a port.                               *)
(* That the rings are queues follows from this and RInv:                   *)
(*   Holds       indices and cycle bits of a ring say which of its entries *)
(*               are in the queue, whatever the number of rounds so far,   *)
(*   LinkOK      the link entry is handed over once in each round,         *)
(*   Claims      every command that is not handled to its end is on its    *)
(*               way for a port of its own, so the command ring, with one  *)
(*               entry for each port, is never full,                       *)
(*   Trail       the completions that were posted are those of the first   *)
(*               such commands, in order,                                  *)
(*   AnswersOK, SlotsOK   what completions and commands say of slots.      *)
(* That no report of a keyboard is lost follows from the two and KInv:     *)
(*   HidOK       a class driver is started once,                           *)
(*   SentOK      a transfer event names a slot with a device,              *)
(*   ReadsOK     a driver that runs has a read under way or a report to    *)
(*               handle, never both and never two.                         *)
(* That no device is left behind follows from the three and LInv: as long  *)
(* as nothing was unplugged, no transfer failed and the slots sufficed,    *)
(*   PortMoves   a port that is not at its end waits for something that is *)
(*               on its way: its status change event, the completion of a  *)
(*               command, its turn, or Initialize that comes to it,        *)
(*   SlotMoves   a device whose start is not at its end has its own        *)
(*               address and waits for the answer to the request of its    *)
(*               initialize_phase_,                                        *)
(*   AddressOK   an AddressDevice command succeeds, for the port whose     *)
(*               turn it is,                                               *)
(*   OneDevice   no two slots name one port.                               *)
(***************************************************************************)
EXTENDS Xhci, FiniteSetTheorems, WellFoundedInduction, TLAPS

(* A non-empty set of naturals has a least element.                        *)
LEMMA LeastNatural ==
  ASSUME NEW T \in SUBSET Nat, T # {}
  PROVE  \E x \in T : \A y \in T : x <= y
<1> DEFINE R == OpToRel(<, Nat)
<1>1. IsWellFoundedOn(R, Nat)
  BY NatLessThanWellFounded
<1>2. PICK x \in T : \A y \in T : ~ (<<y, x>> \in R)
  BY <1>1, WFMin
<1>3. \A m, n \in Nat : m < n => <<m, n>> \in R
  BY DEF OpToRel
<1> HIDE DEF R
<1>4. \A y \in T : ~ (y < x)
  BY <1>2, <1>3
<1>5. \A y \in T : y \in Nat /\ x \in Nat
  OBVIOUS
<1>6. \A y \in T : x <= y
  BY <1>4, <1>5
<1>. QED BY <1>6

Phase == {"NotConnected", "WaitingAddressed", "ResettingPort", "EnablingSlot",
          "AddressingDevice", "InitializingDevice", "ConfiguringEndpoints", "Configured"}
InSequence == {"ResettingPort", "EnablingSlot", "AddressingDevice"}
Addressed == {"AddressingDevice", "InitializingDevice", "ConfiguringEndpoints", "Configured"}

PortReg == [connected : BOOLEAN, enabled : BOOLEAN, csc : BOOLEAN, prc : BOOLEAN]
Request == {"GetDeviceDescriptor", "GetConfigurationDescriptor", "SetConfiguration", "SetProtocol"}
Device == [alloc : {TRUE}, inPort : 0..MaxPorts, ctxPort : 0..MaxPorts, ctl : Seq(Request),
           reads : Nat, init : 0..4, hid : 0..2, buf : SUBSET Keys, prev : SUBSET Keys,
           halted : SUBSET {"control", "interrupt"}]

Command == [type : {"EnableSlot", "AddressDevice", "ConfigureEndpoint"}, slot : SlotId]
Event == [type : {"PortStatusChange"}, port : Port]
           \cup [type : {"CommandCompletion"}, at : Nat, slot : SlotId]
           \cup [type : {"Transfer"}, slot : SlotId, request : Request \cup {"Normal"}, ok : BOOLEAN]

CmdEntry == [trb : Command \cup {Blank, LinkTRB}, cycle : BOOLEAN]
EvtEntry == [trb : Event \cup {Blank}, cycle : BOOLEAN]
CmdRing == [buf : [0..(CmdSize - 1) -> CmdEntry],
            index : 0..(CmdSize - 2), cycle : BOOLEAN]
EvtRing == [buf : [0..(EvtSize - 1) -> EvtEntry],
            index : 0..(EvtSize - 1), cycle : BOOLEAN]

XState == [phase : [Port -> Phase], addressing : 0..MaxPorts, port : [Port -> PortReg],
           pending : SUBSET Port, addr : [Port -> {"none", "default", "own"}],
           cmd : CmdRing, queued : Seq(Command), dev : [SlotId -> Device \cup {NoDevice}]]

InTurn(s) ==
  /\ \A p \in Port : s.addr[p] = "default" => p = s.addressing
  /\ \A p \in Port : s.phase[p] \in InSequence <=> p = s.addressing

ContextsOK(s) ==
  \A slot \in SlotId : s.dev[slot].alloc =>
    /\ s.dev[slot].inPort # 0 => s.phase[s.dev[slot].inPort] \in Addressed
    /\ s.dev[slot].ctxPort # 0 => /\ s.phase[s.dev[slot].ctxPort] \in Addressed
                                  /\ s.addr[s.dev[slot].ctxPort] # "default"

CommandsOK(s) ==
  /\ s.cmd.buf[CmdSize - 1].trb \in {Blank, LinkTRB}
  /\ \A i \in 0..(CmdSize - 2) :
       LET c == s.cmd.buf[i].trb
       IN  c.type = "AddressDevice" => s.dev[c.slot].alloc /\ s.dev[c.slot].inPort # 0

Good(s) == s \in XState /\ InTurn(s) /\ ContextsOK(s) /\ CommandsOK(s)

Around ==
  /\ boot \in Nat \ {0} /\ slots \subseteq SlotId \ {0}
  /\ cmdAt \in [index : 0..(CmdSize - 1), cycle : BOOLEAN]
  /\ evt \in EvtRing /\ evtAt \in [index : 0..(EvtSize - 1), cycle : BOOLEAN]

IInv == Good(xhc) /\ Around

-----------------------------------------------------------------------------
LEMMA Sizes ==
  /\ MaxPorts \in Nat \ {0} /\ MaxSlots \in Nat \ {0}
  /\ CmdSize \in Nat /\ CmdSize >= 2 /\ EvtSize \in Nat /\ EvtSize >= 2
BY XhciAssumption

(* Setting a change bit of a port changes that port and pending only.      *)
LEMMA ChangeIs ==
  ASSUME NEW s \in XState, NEW p \in Port, NEW bit \in {"csc", "prc"}
  PROVE  /\ Change(s, p, bit) \in XState
         /\ Change(s, p, bit).phase = s.phase /\ Change(s, p, bit).addressing = s.addressing
         /\ Change(s, p, bit).addr = s.addr /\ Change(s, p, bit).cmd = s.cmd
         /\ Change(s, p, bit).queued = s.queued /\ Change(s, p, bit).dev = s.dev
<1> DEFINE pend == IF s.port[p].csc \/ s.port[p].prc THEN s.pending ELSE s.pending \cup {p}
<1>1. pend \in SUBSET Port
  BY DEF XState
<1> HIDE DEF pend
<1>2. CASE bit = "csc"
  <2>1. Change(s, p, bit) = [s EXCEPT !.pending = pend, !.port[p].csc = TRUE]
    BY Zenon, <1>2 DEF Change, pend
  <2>2. [s.port EXCEPT ![p].csc = TRUE] \in [Port -> PortReg]
    BY ZenonT(60) DEF XState, PortReg
  <2>3. Change(s, p, bit) = [s EXCEPT !.pending = pend, !.port = [s.port EXCEPT ![p].csc = TRUE]]
    BY <2>1 DEF XState
  <2>. QED BY <1>1, <2>2, <2>3 DEF XState
<1>3. CASE bit = "prc"
  <2>1. Change(s, p, bit) = [s EXCEPT !.pending = pend, !.port[p].prc = TRUE]
    BY Zenon, <1>3 DEF Change, pend
  <2>2. [s.port EXCEPT ![p].prc = TRUE] \in [Port -> PortReg]
    BY ZenonT(60) DEF XState, PortReg
  <2>3. Change(s, p, bit) = [s EXCEPT !.pending = pend, !.port = [s.port EXCEPT ![p].prc = TRUE]]
    BY <2>1 DEF XState
  <2>. QED BY <1>1, <2>2, <2>3 DEF XState
<1>. QED BY <1>2, <1>3

LEMMA OnPortStatusChangeIs ==
  ASSUME NEW s, NEW p
  PROVE  \/ s.phase[p] = "NotConnected" /\ OnPortStatusChange(s, p) = ResetPort(s, p)
         \/ s.phase[p] = "ResettingPort" /\ OnPortStatusChange(s, p) = EnableSlot(s, p)
         \/ OnPortStatusChange(s, p) = s
BY Zenon DEF OnPortStatusChange

-----------------------------------------------------------------------------
(* What a step may do to contexts and phases without harm.                 *)
SamePorts(s, t) ==
  \A slot \in SlotId :
    /\ t.dev[slot].alloc = s.dev[slot].alloc
    /\ s.dev[slot].alloc => /\ t.dev[slot].inPort = s.dev[slot].inPort
                            /\ t.dev[slot].ctxPort = s.dev[slot].ctxPort

Forward(s, t) ==
  \A p \in Port : s.phase[p] \in Addressed =>
    t.phase[p] \in Addressed /\ (t.addr[p] = "default" => s.addr[p] = "default")

LEMMA DeviceOf ==
  ASSUME NEW s \in XState, NEW slot \in SlotId, s.dev[slot].alloc
  PROVE  s.dev[slot] \in Device
<1>1. s.dev[slot] \in Device \cup {NoDevice}
  BY DEF XState
<1>2. s.dev[slot] # NoDevice
  BY DEF NoDevice
<1>. QED BY <1>1, <1>2

LEMMA ContextsKept ==
  ASSUME NEW s \in XState, NEW t \in XState, ContextsOK(s), SamePorts(s, t), Forward(s, t)
  PROVE  ContextsOK(t)
<1> SUFFICES ASSUME NEW slot \in SlotId, t.dev[slot].alloc
             PROVE  /\ t.dev[slot].inPort # 0 => t.phase[t.dev[slot].inPort] \in Addressed
                    /\ t.dev[slot].ctxPort # 0 => /\ t.phase[t.dev[slot].ctxPort] \in Addressed
                                                  /\ t.addr[t.dev[slot].ctxPort] # "default"
  BY DEF ContextsOK
<1>1. s.dev[slot].alloc /\ t.dev[slot].inPort = s.dev[slot].inPort
                        /\ t.dev[slot].ctxPort = s.dev[slot].ctxPort
  BY DEF SamePorts
<1>2. s.dev[slot].inPort \in 0..MaxPorts /\ s.dev[slot].ctxPort \in 0..MaxPorts
  BY <1>1, DeviceOf DEF Device
<1>3. \A p \in 0..MaxPorts : p # 0 => p \in Port
  BY Sizes DEF Port
<1>. QED BY <1>1, <1>2, <1>3 DEF ContextsOK, Forward

LEMMA CommandsKept ==
  ASSUME NEW s \in XState, NEW t \in XState, CommandsOK(s), SamePorts(s, t), t.cmd = s.cmd
  PROVE  CommandsOK(t)
<1>1. ASSUME NEW i \in 0..(CmdSize - 2), s.cmd.buf[i].trb.type = "AddressDevice"
      PROVE  /\ t.dev[s.cmd.buf[i].trb.slot].alloc
             /\ t.dev[s.cmd.buf[i].trb.slot].inPort # 0
  <2>1. i \in 0..(CmdSize - 1)
    BY Sizes
  <2>2. s.cmd.buf[i].trb \in Command \cup {Blank, LinkTRB}
    BY <2>1 DEF XState, CmdRing, CmdEntry
  <2>3. s.cmd.buf[i].trb.slot \in SlotId
    BY <1>1, <2>2 DEF Command, Blank, LinkTRB
  <2>. QED BY <1>1, <2>3 DEF CommandsOK, SamePorts
<1>. QED BY <1>1 DEF CommandsOK

(* A step that leaves phases, addresses and the command ring alone.        *)
LEMMA GoodKept ==
  ASSUME NEW s, NEW t \in XState, Good(s), SamePorts(s, t), t.cmd = s.cmd,
         t.phase = s.phase, t.addressing = s.addressing, t.addr = s.addr
  PROVE  Good(t)
<1>1. s \in XState
  BY DEF Good
<1>2. Forward(s, t)
  BY DEF Forward
<1>3. InTurn(t)
  BY DEF Good, InTurn
<1>. QED BY <1>1, <1>2, <1>3, ContextsKept, CommandsKept DEF Good

-----------------------------------------------------------------------------
(* Commands.                                                               *)
LEMMA PushIs ==
  ASSUME NEW r \in CmdRing, NEW c \in Command
  PROVE  /\ Push(r, CmdSize, c) \in CmdRing
         /\ \A i \in 0..(CmdSize - 2) :
              Push(r, CmdSize, c).buf[i] = IF i = r.index THEN [trb |-> c, cycle |-> r.cycle]
                                                          ELSE r.buf[i]
         /\ Push(r, CmdSize, c).buf[CmdSize - 1].trb \in {r.buf[CmdSize - 1].trb, LinkTRB}
         /\ r.index + 1 # CmdSize - 1 =>
              /\ Push(r, CmdSize, c).index = r.index + 1 /\ Push(r, CmdSize, c).cycle = r.cycle
              /\ Push(r, CmdSize, c).buf[CmdSize - 1] = r.buf[CmdSize - 1]
         /\ r.index + 1 = CmdSize - 1 =>
              /\ Push(r, CmdSize, c).index = 0 /\ Push(r, CmdSize, c).cycle = ~r.cycle
              /\ Push(r, CmdSize, c).buf[CmdSize - 1] = [trb |-> LinkTRB, cycle |-> r.cycle]
<1> DEFINE e == [trb |-> c, cycle |-> r.cycle]
           link == [trb |-> LinkTRB, cycle |-> r.cycle]
           b == [r.buf EXCEPT ![r.index] = e]
           bl == [b EXCEPT ![CmdSize - 1] = link]
<1>1. r.buf \in [0..(CmdSize - 1) -> CmdEntry] /\ r.index \in 0..(CmdSize - 2) /\ r.cycle \in BOOLEAN
  BY DEF CmdRing
<1>2. e \in CmdEntry /\ link \in CmdEntry
  BY <1>1 DEF CmdEntry
<1> DEFINE d == [CopyToLast(r, c) EXCEPT !.index = @ + 1]
<1>a. /\ d = [r EXCEPT !.buf = b, !.index = r.index + 1]
      /\ d.buf = b /\ d.index = r.index + 1 /\ d.cycle = r.cycle
  BY DEF CopyToLast, CmdRing
<1>b. Push(r, CmdSize, c) = IF d.index = CmdSize - 1
                            THEN [CopyToLast(d, LinkTRB) EXCEPT !.index = 0, !.cycle = ~@]
                            ELSE d
  BY DEF Push
<1> HIDE DEF d
<1>3. CASE r.index + 1 = CmdSize - 1
  <2>a. Push(r, CmdSize, c) = [CopyToLast(d, LinkTRB) EXCEPT !.index = 0, !.cycle = ~@]
    BY <1>3, <1>a, <1>b
  <2>b. CopyToLast(d, LinkTRB) = [d EXCEPT !.buf = bl]
    BY <1>3, <1>a DEF CopyToLast, CmdRing
  <2>1. Push(r, CmdSize, c) = [r EXCEPT !.buf = bl, !.index = 0, !.cycle = ~ r.cycle]
    BY <1>a, <2>a, <2>b DEF CmdRing
  <2> HIDE DEF e, link
  <2>2. bl \in [0..(CmdSize - 1) -> CmdEntry]
    BY <1>1, <1>2
  <2>3. \A i \in 0..(CmdSize - 2) : bl[i] = IF i = r.index THEN e ELSE r.buf[i]
    BY <1>1, Sizes
  <2>4. bl[CmdSize - 1] = link
    BY <1>1, Sizes
  <2> HIDE DEF bl
  <2>5. /\ Push(r, CmdSize, c) \in CmdRing /\ Push(r, CmdSize, c).buf = bl
        /\ Push(r, CmdSize, c).index = 0 /\ Push(r, CmdSize, c).cycle = ~r.cycle
    <3>1. 0 \in 0..(CmdSize - 2) /\ (~ r.cycle) \in BOOLEAN
      BY Sizes
    <3>. QED BY <2>1, <2>2, <3>1 DEF CmdRing
  <2>6. link.trb = LinkTRB
    BY DEF link
  <2>. QED BY <1>3, <2>3, <2>4, <2>5, <2>6 DEF e, link
<1>4. CASE r.index + 1 # CmdSize - 1
  <2>1. Push(r, CmdSize, c) = [r EXCEPT !.buf = b, !.index = r.index + 1]
    BY <1>4, <1>a, <1>b
  <2> HIDE DEF e
  <2>2. b \in [0..(CmdSize - 1) -> CmdEntry]
    BY <1>1, <1>2
  <2>3. \A i \in 0..(CmdSize - 2) : b[i] = IF i = r.index THEN e ELSE r.buf[i]
    BY <1>1, Sizes
  <2>4. b[CmdSize - 1] = r.buf[CmdSize - 1]
    BY <1>1, Sizes
  <2> HIDE DEF b
  <2>5. /\ Push(r, CmdSize, c) \in CmdRing /\ Push(r, CmdSize, c).buf = b
        /\ Push(r, CmdSize, c).index = r.index + 1 /\ Push(r, CmdSize, c).cycle = r.cycle
    <3>1. r.index + 1 \in 0..(CmdSize - 2)
      BY <1>1, <1>4, Sizes
    <3>. QED BY <2>1, <2>2, <3>1 DEF CmdRing
  <2>. QED BY <1>4, <2>3, <2>4, <2>5 DEF e
<1>. QED BY <1>3, <1>4

(* A command leaves everything but the command ring alone.                 *)
LEMMA PushCommandIs ==
  ASSUME NEW s \in XState, NEW c \in Command, CommandsOK(s),
         c.type = "AddressDevice" => s.dev[c.slot].alloc /\ s.dev[c.slot].inPort # 0
  PROVE  LET t == PushCommand(s, c)
         IN  /\ t \in XState /\ CommandsOK(t)
             /\ t.phase = s.phase /\ t.addressing = s.addressing /\ t.addr = s.addr
             /\ t.port = s.port /\ t.pending = s.pending /\ t.dev = s.dev
             /\ t.cmd = Push(s.cmd, CmdSize, c) /\ t.queued = Append(s.queued, c)
<1> DEFINE ring == Push(s.cmd, CmdSize, c)
<1>1. s.cmd \in CmdRing
  BY DEF XState
<1>2. /\ ring \in CmdRing
      /\ \A i \in 0..(CmdSize - 2) :
           ring.buf[i] = IF i = s.cmd.index THEN [trb |-> c, cycle |-> s.cmd.cycle]
                                            ELSE s.cmd.buf[i]
      /\ ring.buf[CmdSize - 1].trb \in {s.cmd.buf[CmdSize - 1].trb, LinkTRB}
  BY <1>1, PushIs
<1> HIDE DEF ring
<1>3. PICK t : t = PushCommand(s, c)
  OBVIOUS
<1>4. t = [s EXCEPT !.cmd = ring, !.queued = Append(s.queued, c)]
  BY <1>3 DEF PushCommand, ring, XState
<1>5. Append(s.queued, c) \in Seq(Command)
  BY DEF XState
<1>6. /\ t \in XState /\ t.cmd = ring /\ t.queued = Append(s.queued, c)
      /\ t.phase = s.phase /\ t.addressing = s.addressing /\ t.addr = s.addr
      /\ t.port = s.port /\ t.pending = s.pending /\ t.dev = s.dev
  BY <1>2, <1>4, <1>5 DEF XState
<1>7. \A i \in 0..(CmdSize - 2) : ring.buf[i].trb \in {c, s.cmd.buf[i].trb}
  BY <1>2
<1>8. CommandsOK(t)
  BY <1>2, <1>6, <1>7 DEF CommandsOK
<1>. QED BY <1>3, <1>6, <1>8 DEF ring

-----------------------------------------------------------------------------
(* Ports.                                                                  *)
LEMMA ResetIs ==
  ASSUME NEW s \in XState, NEW p \in Port
  PROVE  LET t == Reset(s, p)
         IN  /\ t \in XState
             /\ t.phase = s.phase /\ t.addressing = s.addressing
             /\ t.cmd = s.cmd /\ t.queued = s.queued /\ t.dev = s.dev
             /\ t.addr = [s.addr EXCEPT ![p] = "default"]
<1> DEFINE cl == [s EXCEPT !.port[p].csc = FALSE]
           ch == Change(cl, p, "prc")
<1>1. [s.port EXCEPT ![p].csc = FALSE] \in [Port -> PortReg]
  BY ZenonT(60) DEF XState, PortReg
<1>2. cl = [s EXCEPT !.port = [s.port EXCEPT ![p].csc = FALSE]]
  BY DEF XState
<1>3. /\ cl \in XState /\ cl.phase = s.phase /\ cl.addressing = s.addressing
      /\ cl.cmd = s.cmd /\ cl.queued = s.queued /\ cl.dev = s.dev /\ cl.addr = s.addr
  BY <1>1, <1>2 DEF XState
<1> HIDE DEF cl
<1>4. /\ ch \in XState /\ ch.phase = s.phase /\ ch.addressing = s.addressing
      /\ ch.cmd = s.cmd /\ ch.queued = s.queued /\ ch.dev = s.dev /\ ch.addr = s.addr
  BY <1>3, ChangeIs
<1>5. Reset(s, p) = [ch EXCEPT !.port[p].enabled = TRUE, !.addr[p] = "default"]
  BY Zenon DEF Reset, ch, cl
<1> HIDE DEF ch
<1>6. [ch.port EXCEPT ![p].enabled = TRUE] \in [Port -> PortReg]
  <2>1. ch.port \in [Port -> PortReg]
    BY <1>4 DEF XState
  <2>. QED BY <2>1 DEF PortReg
<1>7. [s.addr EXCEPT ![p] = "default"] \in [Port -> {"none", "default", "own"}]
  BY DEF XState
<1>8. Reset(s, p) = [ch EXCEPT !.port = [ch.port EXCEPT ![p].enabled = TRUE],
                               !.addr = [s.addr EXCEPT ![p] = "default"]]
  BY <1>4, <1>5 DEF XState
<1>. QED BY <1>4, <1>6, <1>7, <1>8 DEF XState

(* The sequence has begun for port p.                                      *)
Begun(s, t, p) ==
  /\ t.phase = [s.phase EXCEPT ![p] = "ResettingPort"] /\ t.addressing = p
  /\ t.addr = [s.addr EXCEPT ![p] = "default"]

LEMMA ResetPortIs ==
  ASSUME NEW s \in XState, NEW p \in Port, s.phase[p] \in {"NotConnected", "WaitingAddressed"},
         s.addressing = 0, s.port[p].connected
  PROVE  LET t == ResetPort(s, p)
         IN  /\ t \in XState /\ t.cmd = s.cmd /\ t.queued = s.queued /\ t.dev = s.dev
             /\ Begun(s, t, p)
<1> DEFINE u == [s EXCEPT !.addressing = p, !.phase[p] = "ResettingPort"]
<1>1. u = [s EXCEPT !.addressing = p, !.phase = [s.phase EXCEPT ![p] = "ResettingPort"]]
  BY DEF XState
<1>2. [s.phase EXCEPT ![p] = "ResettingPort"] \in [Port -> Phase] /\ p \in 0..MaxPorts
  BY Sizes DEF XState, Phase, Port
<1>3. /\ u \in XState /\ u.phase = [s.phase EXCEPT ![p] = "ResettingPort"] /\ u.addressing = p
      /\ u.addr = s.addr /\ u.cmd = s.cmd /\ u.queued = s.queued /\ u.dev = s.dev
  BY <1>1, <1>2 DEF XState
<1>4. ResetPort(s, p) = Reset(u, p)
  BY DEF ResetPort
<1> HIDE DEF u
<1>5. PICK t : t = Reset(u, p)
  OBVIOUS
<1>6. /\ t \in XState /\ t.phase = u.phase /\ t.addressing = u.addressing
      /\ t.cmd = u.cmd /\ t.queued = u.queued /\ t.dev = u.dev
      /\ t.addr = [u.addr EXCEPT ![p] = "default"]
  <2>1. u \in XState /\ p \in Port
    BY <1>3
  <2>. QED BY ONLY <1>5, <2>1, ResetIs
<1>7. Begun(s, t, p)
  BY <1>3, <1>6 DEF Begun
<1>. QED BY <1>3, <1>4, <1>5, <1>6, <1>7

LEMMA ResetPortGood ==
  ASSUME NEW s, Good(s), NEW p \in Port, s.phase[p] \in {"NotConnected", "WaitingAddressed"}
  PROVE  Good(ResetPort(s, p))
<1>1. s \in XState
  BY DEF Good
<1>2. p # 0
  BY Sizes DEF Port
<1>3. CASE ~ s.port[p].connected
  BY <1>3 DEF ResetPort
<1>4. CASE s.port[p].connected /\ s.addressing # 0
  <2>1. PICK t : t = ResetPort(s, p)
    OBVIOUS
  <2>2. t = [s EXCEPT !.phase = [s.phase EXCEPT ![p] = "WaitingAddressed"]]
    BY <1>1, <1>4, <2>1 DEF ResetPort, XState
  <2>3. [s.phase EXCEPT ![p] = "WaitingAddressed"] \in [Port -> Phase]
    BY <1>1 DEF XState, Phase
  <2>4. /\ t \in XState /\ t.phase = [s.phase EXCEPT ![p] = "WaitingAddressed"]
        /\ t.addressing = s.addressing /\ t.addr = s.addr /\ t.cmd = s.cmd /\ t.dev = s.dev
    BY <1>1, <2>2, <2>3 DEF XState
  <2>5. s.phase \in [Port -> Phase]
    BY <1>1 DEF XState
  <2>6. Forward(s, t) /\ SamePorts(s, t)
    BY <2>4, <2>5 DEF Forward, SamePorts, Addressed
  <2>7. InTurn(t)
    BY <2>4, <2>5 DEF Good, InTurn, InSequence
  <2>. QED BY <1>1, <2>1, <2>4, <2>6, <2>7, ContextsKept, CommandsKept DEF Good
<1>5. CASE s.port[p].connected /\ s.addressing = 0
  <2>1. PICK t : t = ResetPort(s, p)
    OBVIOUS
  <2>2. t \in XState /\ t.cmd = s.cmd /\ t.dev = s.dev /\ Begun(s, t, p)
    BY <1>1, <1>5, <2>1, ResetPortIs
  <2>3. s.phase \in [Port -> Phase] /\ s.addr \in [Port -> {"none", "default", "own"}]
    BY <1>1 DEF XState
  <2>4. Forward(s, t) /\ SamePorts(s, t)
    BY <2>2, <2>3 DEF Begun, Forward, SamePorts, Addressed
  <2>5. InTurn(t)
    <3>1. \A q \in Port : q # 0
      BY Sizes DEF Port
    <3>2. \A q \in Port : s.phase[q] \notin InSequence /\ s.addr[q] # "default"
      BY <1>5, <3>1 DEF Good, InTurn
    <3>. QED BY <2>2, <2>3, <3>2 DEF Begun, InTurn, InSequence
  <2>. QED BY <1>1, <2>1, <2>2, <2>4, <2>5, ContextsKept, CommandsKept DEF Good
<1>. QED BY <1>3, <1>4, <1>5

(* A step of one port from a phase to the next.                            *)
PhaseOnly(s, t, p, x) ==
  /\ t \in XState /\ t.phase = [s.phase EXCEPT ![p] = x]
  /\ t.addressing = s.addressing /\ t.addr = s.addr /\ t.dev = s.dev
  /\ t.cmd = s.cmd /\ t.queued = s.queued

LEMMA EnableSlotIs ==
  ASSUME NEW s \in XState, NEW p \in Port
  PROVE  \/ EnableSlot(s, p) = s
         \/ \E u : /\ PhaseOnly(s, u, p, "EnablingSlot")
                  /\ EnableSlot(s, p) = PushCommand(u, [type |-> "EnableSlot", slot |-> 0])
<1> DEFINE u == [s EXCEPT !.port[p].prc = FALSE, !.phase[p] = "EnablingSlot"]
<1>1. \/ EnableSlot(s, p) = s
      \/ EnableSlot(s, p) = PushCommand(u, [type |-> "EnableSlot", slot |-> 0])
  BY DEF EnableSlot
<1>2. [s.port EXCEPT ![p].prc = FALSE] \in [Port -> PortReg]
  BY ZenonT(60) DEF XState, PortReg
<1>3. [s.phase EXCEPT ![p] = "EnablingSlot"] \in [Port -> Phase]
  BY DEF XState, Phase
<1>4. u = [s EXCEPT !.port = [s.port EXCEPT ![p].prc = FALSE],
                    !.phase = [s.phase EXCEPT ![p] = "EnablingSlot"]]
  BY DEF XState
<1>5. PhaseOnly(s, u, p, "EnablingSlot")
  BY <1>2, <1>3, <1>4 DEF XState, PhaseOnly
<1> HIDE DEF u
<1>. QED BY <1>1, <1>5

LEMMA EnableSlotGood ==
  ASSUME NEW s, Good(s), NEW p \in Port, s.phase[p] = "ResettingPort"
  PROVE  Good(EnableSlot(s, p))
<1> DEFINE c == [type |-> "EnableSlot", slot |-> 0]
<1>1. s \in XState
  BY DEF Good
<1>2. CASE EnableSlot(s, p) = s
  BY <1>2
<1>3. CASE \E u : PhaseOnly(s, u, p, "EnablingSlot") /\ EnableSlot(s, p) = PushCommand(u, c)
  <2>1. PICK u : PhaseOnly(s, u, p, "EnablingSlot") /\ EnableSlot(s, p) = PushCommand(u, c)
    BY <1>3
  <2>2. c \in Command /\ c.type # "AddressDevice"
    BY Sizes DEF Command, SlotId
  <2> HIDE DEF c
  <2>3. u \in XState /\ SamePorts(s, u)
    BY <2>1 DEF PhaseOnly, SamePorts
  <2>4. CommandsOK(u)
    BY <1>1, <2>1, <2>3, CommandsKept DEF Good, PhaseOnly
  <2>5. PICK t : t = EnableSlot(s, p)
    OBVIOUS
  <2>6. /\ t \in XState /\ CommandsOK(t) /\ t.phase = u.phase
        /\ t.addressing = u.addressing /\ t.addr = u.addr /\ t.dev = u.dev
    BY <2>1, <2>2, <2>3, <2>4, <2>5, PushCommandIs
  <2>7. /\ t.phase = [s.phase EXCEPT ![p] = "EnablingSlot"]
        /\ t.addressing = s.addressing /\ t.addr = s.addr /\ t.dev = s.dev
    BY <2>1, <2>6 DEF PhaseOnly
  <2>8. s.phase \in [Port -> Phase]
    BY <1>1 DEF XState
  <2>9. Forward(s, t) /\ SamePorts(s, t)
    BY <2>7, <2>8 DEF Forward, SamePorts, Addressed
  <2>10. InTurn(t)
    BY <2>7, <2>8 DEF Good, InTurn, InSequence
  <2>. QED BY <1>1, <2>5, <2>6, <2>9, <2>10, ContextsKept DEF Good
<1>. QED BY <1>1, <1>2, <1>3, EnableSlotIs

LEMMA OnPortStatusChangeGood ==
  ASSUME NEW s, Good(s), NEW p \in Port
  PROVE  Good(OnPortStatusChange(s, p))
BY OnPortStatusChangeIs, ResetPortGood, EnableSlotGood

-----------------------------------------------------------------------------
(* Devices.  Most handlers change a device only, and start one only behind *)
(* a port.                                                                 *)
OnlyStarted(s, t) ==
  \A slot \in SlotId : s.dev[slot].alloc /\ t.dev[slot].init # 0 =>
    s.dev[slot].init # 0 \/ s.dev[slot].ctxPort # 0

OnlyDevices(s, t) ==
  /\ t \in XState /\ SamePorts(s, t) /\ OnlyStarted(s, t)
  /\ t.cmd = s.cmd /\ t.queued = s.queued
  /\ t.phase = s.phase /\ t.addressing = s.addressing /\ t.addr = s.addr

(* What the keyboard driver of one slot works on becomes hid, reads and    *)
(* prev; the report buffer and the other slots stay.                       *)
Others(s, t, slot) == \A i \in SlotId : i # slot => t.dev[i] = s.dev[i]

Reads(s, t, slot, hid, reads, prev) ==
  /\ t.dev[slot].hid = hid /\ t.dev[slot].reads = reads /\ t.dev[slot].prev = prev
  /\ t.dev[slot].buf = s.dev[slot].buf /\ Others(s, t, slot)
SameReads(s, t, slot) ==
  Reads(s, t, slot, s.dev[slot].hid, s.dev[slot].reads, s.dev[slot].prev)

LEMMA OnlyDevicesGood ==
  ASSUME NEW s, NEW t, Good(s), OnlyDevices(s, t)
  PROVE  Good(t)
BY GoodKept DEF OnlyDevices

LEMMA OnlyDevicesTwice ==
  ASSUME NEW s, NEW t, NEW u, OnlyDevices(s, t), OnlyDevices(t, u)
  PROVE  OnlyDevices(s, u)
BY DEF OnlyDevices, SamePorts, OnlyStarted

LEMMA ReadsTwice ==
  ASSUME NEW s, NEW t, NEW u, NEW slot, NEW hid, NEW reads, NEW prev,
         \/ SameReads(s, t, slot) /\ Reads(t, u, slot, hid, reads, prev)
         \/ Reads(s, t, slot, hid, reads, prev) /\ SameReads(t, u, slot)
  PROVE  Reads(s, u, slot, hid, reads, prev)
BY DEF Reads, SameReads, Others

LEMMA SetDevice ==
  ASSUME NEW s \in XState, NEW slot \in SlotId, s.dev[slot].alloc, NEW d \in Device,
         d.inPort = s.dev[slot].inPort, d.ctxPort = s.dev[slot].ctxPort,
         d.init = s.dev[slot].init \/ s.dev[slot].init # 0 \/ s.dev[slot].ctxPort # 0,
         NEW t, t = [s EXCEPT !.dev = [s.dev EXCEPT ![slot] = d]]
  PROVE  OnlyDevices(s, t) /\ t.dev[slot] = d /\ t.dev[slot].alloc /\ Others(s, t, slot)
<1>1. [s.dev EXCEPT ![slot] = d] \in [SlotId -> Device \cup {NoDevice}]
  BY DEF XState
<1>2. /\ t \in XState /\ t.cmd = s.cmd /\ t.phase = s.phase /\ t.addressing = s.addressing
      /\ t.queued = s.queued /\ t.addr = s.addr /\ t.dev = [s.dev EXCEPT ![slot] = d]
  BY <1>1 DEF XState
<1>3. s.dev \in [SlotId -> Device \cup {NoDevice}]
  BY DEF XState
<1>4. t.dev[slot] = d /\ \A i \in SlotId : i # slot => t.dev[i] = s.dev[i]
  BY <1>2, <1>3
<1>5. d.alloc = TRUE /\ s.dev[slot].alloc = TRUE
  BY DeviceOf DEF Device
<1>6. SamePorts(s, t)
  BY <1>4, <1>5 DEF SamePorts
<1>7. OnlyStarted(s, t)
  BY <1>4 DEF OnlyStarted
<1>. QED BY <1>2, <1>4, <1>5, <1>6, <1>7 DEF OnlyDevices, Others

LEMMA ControlIs ==
  ASSUME NEW s \in XState, NEW slot \in SlotId, s.dev[slot].alloc, NEW request \in Request
  PROVE  LET t == Control(s, slot, request)
         IN  /\ OnlyDevices(s, t) /\ t.dev[slot].alloc
             /\ SameReads(s, t, slot)
<1>1. s.dev[slot] \in Device
  BY DeviceOf
<1>2. PICK c \in Seq(Request) : c = Append(s.dev[slot].ctl, request)
  <2>1. s.dev[slot].ctl \in Seq(Request)
    BY <1>1 DEF Device
  <2>2. Append(s.dev[slot].ctl, request) \in Seq(Request)
    BY <2>1
  <2>. QED BY <2>2
<1> DEFINE d == [s.dev[slot] EXCEPT !.ctl = c]
<1>3. d \in Device /\ d.inPort = s.dev[slot].inPort /\ d.ctxPort = s.dev[slot].ctxPort
      /\ d.init = s.dev[slot].init
  BY <1>1 DEF Device
<1>4. Control(s, slot, request) = [s EXCEPT !.dev = [s.dev EXCEPT ![slot] = d]]
  BY <1>2 DEF Control, XState
<1>5. d.hid = s.dev[slot].hid /\ d.reads = s.dev[slot].reads /\ d.prev = s.dev[slot].prev
      /\ d.buf = s.dev[slot].buf
  BY <1>1 DEF Device
<1> HIDE DEF d
<1>6. PICK t : t = Control(s, slot, request)
  OBVIOUS
<1>7. OnlyDevices(s, t) /\ t.dev[slot].alloc /\ Others(s, t, slot)
  BY <1>3, <1>4, <1>6, SetDevice
<1>8. t.dev[slot] = d
  BY <1>4, <1>6 DEF XState
<1>. QED BY <1>5, <1>6, <1>7, <1>8 DEF Reads, SameReads

LEMMA InterruptInIs ==
  ASSUME NEW s \in XState, NEW slot \in SlotId, s.dev[slot].alloc
  PROVE  LET t == InterruptIn(s, slot)
         IN  /\ OnlyDevices(s, t) /\ t.dev[slot].alloc
             /\ Reads(s, t, slot, s.dev[slot].hid, s.dev[slot].reads + 1, s.dev[slot].prev)
<1>1. s.dev[slot] \in Device
  BY DeviceOf
<1>2. PICK n \in Nat : n = s.dev[slot].reads + 1
  <2>1. s.dev[slot].reads \in Nat
    BY <1>1 DEF Device
  <2>. QED BY <2>1
<1> DEFINE d == [s.dev[slot] EXCEPT !.reads = n]
<1>3. d \in Device /\ d.inPort = s.dev[slot].inPort /\ d.ctxPort = s.dev[slot].ctxPort
      /\ d.init = s.dev[slot].init
  BY <1>1 DEF Device
<1>4. InterruptIn(s, slot) = [s EXCEPT !.dev = [s.dev EXCEPT ![slot] = d]]
  BY <1>2 DEF InterruptIn, XState
<1>5. d.hid = s.dev[slot].hid /\ d.reads = s.dev[slot].reads + 1 /\ d.prev = s.dev[slot].prev
      /\ d.buf = s.dev[slot].buf
  BY <1>1, <1>2 DEF Device
<1> HIDE DEF d
<1>6. PICK t : t = InterruptIn(s, slot)
  OBVIOUS
<1>7. OnlyDevices(s, t) /\ t.dev[slot].alloc /\ Others(s, t, slot)
  BY <1>3, <1>4, <1>6, SetDevice
<1>8. t.dev[slot] = d
  BY <1>4, <1>6 DEF XState
<1>. QED BY <1>5, <1>6, <1>7, <1>8 DEF Reads

LEMMA SetInitIs ==
  ASSUME NEW s \in XState, NEW slot \in SlotId, s.dev[slot].alloc, NEW n \in 0..4,
         s.dev[slot].init # 0 \/ s.dev[slot].ctxPort # 0
  PROVE  LET t == [s EXCEPT !.dev[slot].init = n]
         IN  /\ OnlyDevices(s, t) /\ t.dev[slot].alloc
             /\ SameReads(s, t, slot)
<1> DEFINE d == [s.dev[slot] EXCEPT !.init = n]
<1>1. s.dev[slot] \in Device
  BY DeviceOf
<1>3. d \in Device /\ d.inPort = s.dev[slot].inPort /\ d.ctxPort = s.dev[slot].ctxPort
  BY <1>1 DEF Device
<1>4. [s EXCEPT !.dev[slot].init = n] = [s EXCEPT !.dev = [s.dev EXCEPT ![slot] = d]]
  BY DEF XState
<1>5. d.hid = s.dev[slot].hid /\ d.reads = s.dev[slot].reads /\ d.prev = s.dev[slot].prev
      /\ d.buf = s.dev[slot].buf
  BY <1>1 DEF Device
<1> HIDE DEF d
<1>6. PICK t : t = [s EXCEPT !.dev[slot].init = n]
  OBVIOUS
<1>7. OnlyDevices(s, t) /\ t.dev[slot].alloc /\ Others(s, t, slot)
  BY <1>3, <1>4, <1>6, SetDevice
<1>8. t.dev[slot] = d
  BY <1>4, <1>6 DEF XState
<1>. QED BY <1>5, <1>6, <1>7, <1>8 DEF Reads, SameReads

LEMMA SetHidIs ==
  ASSUME NEW s \in XState, NEW slot \in SlotId, s.dev[slot].alloc, NEW n \in 0..2
  PROVE  LET t == [s EXCEPT !.dev[slot].hid = n]
         IN  /\ OnlyDevices(s, t) /\ t.dev[slot].alloc
             /\ Reads(s, t, slot, n, s.dev[slot].reads, s.dev[slot].prev)
<1> DEFINE d == [s.dev[slot] EXCEPT !.hid = n]
<1>1. s.dev[slot] \in Device
  BY DeviceOf
<1>3. d \in Device /\ d.inPort = s.dev[slot].inPort /\ d.ctxPort = s.dev[slot].ctxPort
      /\ d.init = s.dev[slot].init
  BY <1>1 DEF Device
<1>4. [s EXCEPT !.dev[slot].hid = n] = [s EXCEPT !.dev = [s.dev EXCEPT ![slot] = d]]
  BY DEF XState
<1>5. d.hid = n /\ d.reads = s.dev[slot].reads /\ d.prev = s.dev[slot].prev
      /\ d.buf = s.dev[slot].buf
  BY <1>1 DEF Device
<1> HIDE DEF d
<1>6. PICK t : t = [s EXCEPT !.dev[slot].hid = n]
  OBVIOUS
<1>7. OnlyDevices(s, t) /\ t.dev[slot].alloc /\ Others(s, t, slot)
  BY <1>3, <1>4, <1>6, SetDevice
<1>8. t.dev[slot] = d
  BY <1>4, <1>6 DEF XState
<1>. QED BY <1>5, <1>6, <1>7, <1>8 DEF Reads

LEMMA OnInterruptCompletedIs ==
  ASSUME NEW s \in XState, NEW slot \in SlotId, s.dev[slot].alloc
  PROVE  LET t == OnInterruptCompleted(s, slot)
         IN  /\ OnlyDevices(s, t)
             /\ Reads(s, t, slot, s.dev[slot].hid, s.dev[slot].reads + 1, s.dev[slot].buf)
<1> DEFINE d == [s.dev[slot] EXCEPT !.prev = s.dev[slot].buf]
           u == [s EXCEPT !.dev[slot].prev = s.dev[slot].buf]
<1>1. s.dev[slot] \in Device
  BY DeviceOf
<1>2. d \in Device /\ d.inPort = s.dev[slot].inPort /\ d.ctxPort = s.dev[slot].ctxPort
      /\ d.init = s.dev[slot].init
  BY <1>1 DEF Device
<1>3. u = [s EXCEPT !.dev = [s.dev EXCEPT ![slot] = d]]
  BY DEF XState
<1>4. OnInterruptCompleted(s, slot) = InterruptIn(u, slot)
  BY DEF OnInterruptCompleted
<1>5. d.hid = s.dev[slot].hid /\ d.reads = s.dev[slot].reads /\ d.prev = s.dev[slot].buf
      /\ d.buf = s.dev[slot].buf
  BY <1>1 DEF Device
<1> HIDE DEF d, u
<1>6. OnlyDevices(s, u) /\ u.dev[slot].alloc /\ Others(s, u, slot)
  BY <1>2, <1>3, SetDevice
<1>7. u.dev[slot] = d
  BY <1>3 DEF XState
<1>8. u \in XState
  BY <1>6 DEF OnlyDevices
<1>9. PICK t : t = InterruptIn(u, slot)
  OBVIOUS
<1>10. /\ OnlyDevices(u, t)
       /\ Reads(u, t, slot, u.dev[slot].hid, u.dev[slot].reads + 1, u.dev[slot].prev)
  BY <1>6, <1>8, <1>9, InterruptInIs
<1>11. OnlyDevices(s, t)
  BY <1>6, <1>10, OnlyDevicesTwice
<1>12. Reads(s, t, slot, s.dev[slot].hid, s.dev[slot].reads + 1, s.dev[slot].buf)
  BY <1>5, <1>6, <1>7, <1>10 DEF Reads, Others
<1>. QED BY <1>4, <1>9, <1>11, <1>12

(* What the answer to a control transfer does to the keyboard driver: it   *)
(* may start the first read.                                               *)
MayStart(s, t, slot) ==
  /\ OnlyDevices(s, t)
  /\ \/ SameReads(s, t, slot)
     \/ /\ s.dev[slot].hid = 1
        /\ Reads(s, t, slot, 2, s.dev[slot].reads + 1, s.dev[slot].prev)

LEMMA OnControlCompletedIs ==
  ASSUME NEW s \in XState, NEW slot \in SlotId, s.dev[slot].alloc, NEW request
  PROVE  MayStart(s, OnControlCompleted(s, slot, request), slot)
<1>0. MayStart(s, s, slot)
  BY DEF MayStart, OnlyDevices, SamePorts, OnlyStarted, SameReads, Reads, Others
<1>1. \/ OnControlCompleted(s, slot, request) = OnSetProtocol(s, slot)
      \/ /\ s.dev[slot].init \in {1, 2, 3}
         /\ \/ OnControlCompleted(s, slot, request) =
                 Control([s EXCEPT !.dev[slot].init = 2], slot, "GetConfigurationDescriptor")
            \/ OnControlCompleted(s, slot, request) =
                 IF kind[s.dev[slot].ctxPort] = "unsupported" THEN s
                 ELSE Control([s EXCEPT !.dev[slot].init = 3], slot, "SetConfiguration")
            \/ OnControlCompleted(s, slot, request) = [s EXCEPT !.dev[slot].init = 4]
      \/ OnControlCompleted(s, slot, request) = s
  BY Zenon DEF OnControlCompleted
<1>2. MayStart(s, OnSetProtocol(s, slot), slot)
  <2> DEFINE u == [s EXCEPT !.dev[slot].hid = 2]
  <2>1. OnSetProtocol(s, slot) = IF s.dev[slot].hid = 1 THEN InterruptIn(u, slot) ELSE s
    BY DEF OnSetProtocol
  <2>2. /\ OnlyDevices(s, u) /\ u.dev[slot].alloc
        /\ Reads(s, u, slot, 2, s.dev[slot].reads, s.dev[slot].prev)
    <3>1. 2 \in 0..2
      OBVIOUS
    <3>. QED BY <3>1, SetHidIs
  <2> HIDE DEF u
  <2>3. u \in XState
    BY <2>2 DEF OnlyDevices
  <2>4. PICK t : t = InterruptIn(u, slot)
    OBVIOUS
  <2>5. /\ OnlyDevices(u, t)
        /\ Reads(u, t, slot, u.dev[slot].hid, u.dev[slot].reads + 1, u.dev[slot].prev)
    BY <2>2, <2>3, <2>4, InterruptInIs
  <2>6. OnlyDevices(s, t)
    BY <2>2, <2>5, OnlyDevicesTwice
  <2>7. Reads(s, t, slot, 2, s.dev[slot].reads + 1, s.dev[slot].prev)
    BY <2>2, <2>5 DEF Reads, Others
  <2>. QED BY <1>0, <2>1, <2>4, <2>6, <2>7 DEF MayStart
<1>3. ASSUME NEW n \in 0..4, NEW r \in Request, s.dev[slot].init # 0
      PROVE  MayStart(s, Control([s EXCEPT !.dev[slot].init = n], slot, r), slot)
  <2> DEFINE u == [s EXCEPT !.dev[slot].init = n]
  <2>1. OnlyDevices(s, u) /\ u.dev[slot].alloc /\ SameReads(s, u, slot)
    BY <1>3, SetInitIs
  <2> HIDE DEF u
  <2>2. u \in XState
    BY <2>1 DEF OnlyDevices
  <2>3. OnlyDevices(u, Control(u, slot, r)) /\ SameReads(u, Control(u, slot, r), slot)
    BY <2>1, <2>2, ControlIs
  <2>4. MayStart(s, Control(u, slot, r), slot)
    BY <2>1, <2>3, OnlyDevicesTwice, ReadsTwice DEF MayStart, SameReads
  <2>. QED BY Zenon, <2>4 DEF u
<1>4. s.dev[slot].init # 0 =>
      /\ MayStart(s, Control([s EXCEPT !.dev[slot].init = 2], slot, "GetConfigurationDescriptor"),
                   slot)
      /\ MayStart(s, Control([s EXCEPT !.dev[slot].init = 3], slot, "SetConfiguration"), slot)
  <2>1. 2 \in 0..4 /\ 3 \in 0..4
    OBVIOUS
  <2>2. "GetConfigurationDescriptor" \in Request /\ "SetConfiguration" \in Request
    BY DEF Request
  <2>. QED BY ONLY <1>3, <2>1, <2>2
<1>5. s.dev[slot].init # 0 => MayStart(s, [s EXCEPT !.dev[slot].init = 4], slot)
  <2>1. 4 \in 0..4
    OBVIOUS
  <2>. QED BY <2>1, SetInitIs DEF MayStart
<1>6. s.dev[slot].init \in {1, 2, 3} => s.dev[slot].init # 0
  OBVIOUS
<1>. QED BY Zenon, <1>0, <1>1, <1>2, <1>4, <1>5, <1>6

LEMMA OnTransferEventReceivedIs ==
  ASSUME NEW s \in XState, NEW e, e.slot \in SlotId, s.dev[e.slot].alloc
  PROVE  LET t == OnTransferEventReceived(s, e)
             d == s.dev[e.slot]
         IN  /\ OnlyDevices(s, t)
             /\ e.request = "Normal" => Reads(s, t, e.slot, d.hid, d.reads + 1, d.buf)
             /\ e.request # "Normal" => MayStart(s, t, e.slot)
<1>1. CASE e.request = "Normal"
  BY <1>1, OnInterruptCompletedIs DEF OnTransferEventReceived
<1>2. CASE e.request # "Normal"
  BY <1>2, OnControlCompletedIs DEF OnTransferEventReceived, MayStart
<1>. QED BY <1>1, <1>2

(* A phase of an addressed device is followed by a later one.              *)
LEMMA PhaseForward ==
  ASSUME NEW s, Good(s), NEW p \in 0..MaxPorts, NEW t \in XState,
         s.phase[p] \in {"InitializingDevice", "ConfiguringEndpoints"},
         NEW x \in {"ConfiguringEndpoints", "Configured"},
         t.phase = [s.phase EXCEPT ![p] = x], t.addressing = s.addressing, t.addr = s.addr,
         SamePorts(s, t), CommandsOK(t)
  PROVE  Good(t)
<1>1. s \in XState /\ s.phase \in [Port -> Phase]
  BY DEF Good, XState
<1>2. \A q \in Port : t.phase[q] = IF q = p THEN x ELSE s.phase[q]
  BY <1>1
<1>3. Forward(s, t)
  BY <1>2 DEF Forward, Addressed
<1>4. InTurn(t)
  BY <1>2 DEF InTurn, InSequence, Good
<1>. QED BY <1>1, <1>3, <1>4, ContextsKept DEF Good

LEMMA ConfigureEndpointsIs ==
  ASSUME NEW s \in XState, NEW slot \in SlotId
  PROVE  \/ ConfigureEndpoints(s, slot) = s
         \/ \E u : /\ PhaseOnly(s, u, s.dev[slot].ctxPort, "ConfiguringEndpoints")
                  /\ ConfigureEndpoints(s, slot) =
                       PushCommand(u, [type |-> "ConfigureEndpoint", slot |-> slot])
<1> DEFINE p == s.dev[slot].ctxPort
           u == [s EXCEPT !.phase[p] = "ConfiguringEndpoints"]
<1>1. \/ ConfigureEndpoints(s, slot) = s
      \/ ConfigureEndpoints(s, slot) =
           PushCommand(u, [type |-> "ConfigureEndpoint", slot |-> slot])
  BY DEF ConfigureEndpoints
<1> HIDE DEF p
<1>2. [s.phase EXCEPT ![p] = "ConfiguringEndpoints"] \in [Port -> Phase]
  BY DEF XState, Phase
<1>3. PhaseOnly(s, u, p, "ConfiguringEndpoints")
  BY <1>2 DEF XState, PhaseOnly
<1> HIDE DEF u
<1>. QED BY <1>1, <1>3 DEF p

LEMMA ConfigureEndpointsGood ==
  ASSUME NEW s, Good(s), NEW slot \in SlotId, s.dev[slot].alloc,
         s.phase[s.dev[slot].ctxPort] = "InitializingDevice"
  PROVE  Good(ConfigureEndpoints(s, slot))
<1> DEFINE c == [type |-> "ConfigureEndpoint", slot |-> slot]
<1>1. s \in XState
  BY DEF Good
<1>2. PICK p \in 0..MaxPorts : p = s.dev[slot].ctxPort
  BY <1>1, DeviceOf DEF Device
<1>3. CASE ConfigureEndpoints(s, slot) = s
  BY <1>3
<1>4. CASE \E u : /\ PhaseOnly(s, u, p, "ConfiguringEndpoints")
                 /\ ConfigureEndpoints(s, slot) = PushCommand(u, c)
  <2>1. PICK u : /\ PhaseOnly(s, u, p, "ConfiguringEndpoints")
                 /\ ConfigureEndpoints(s, slot) = PushCommand(u, c)
    BY <1>4
  <2>2. c \in Command /\ c.type # "AddressDevice"
    BY DEF Command
  <2> HIDE DEF c
  <2>3. u \in XState /\ SamePorts(s, u)
    BY <2>1 DEF PhaseOnly, SamePorts
  <2>4. CommandsOK(u)
    BY <1>1, <2>1, <2>3, CommandsKept DEF Good, PhaseOnly
  <2>5. PICK t : t = ConfigureEndpoints(s, slot)
    OBVIOUS
  <2>6. /\ t \in XState /\ CommandsOK(t) /\ t.phase = u.phase
        /\ t.addressing = u.addressing /\ t.addr = u.addr /\ t.dev = u.dev
    BY <2>1, <2>2, <2>3, <2>4, <2>5, PushCommandIs
  <2>7. /\ t.phase = [s.phase EXCEPT ![p] = "ConfiguringEndpoints"]
        /\ t.addressing = s.addressing /\ t.addr = s.addr /\ t.dev = s.dev
    BY <2>1, <2>6 DEF PhaseOnly
  <2>8. SamePorts(s, t)
    BY <2>7 DEF SamePorts
  <2>. QED BY <1>2, <2>5, <2>6, <2>7, <2>8, PhaseForward
<1>. QED BY <1>1, <1>2, <1>3, <1>4, ConfigureEndpointsIs

LEMMA OnTransferGood ==
  ASSUME NEW s, Good(s), NEW e, e.slot \in SlotId
  PROVE  Good(OnTransfer(s, e))
<1> DEFINE t == OnTransferEventReceived(s, e)
<1>1. s \in XState
  BY DEF Good
<1>2. \/ OnTransfer(s, e) = s
      \/ s.dev[e.slot].alloc /\ OnTransfer(s, e) = t
      \/ /\ s.dev[e.slot].alloc /\ t.phase[t.dev[e.slot].ctxPort] = "InitializingDevice"
         /\ OnTransfer(s, e) = ConfigureEndpoints(t, e.slot)
  BY Zenon DEF OnTransfer
<1>3. ASSUME s.dev[e.slot].alloc
      PROVE  Good(t) /\ t.dev[e.slot].alloc
  <2>1. OnlyDevices(s, t)
    BY <1>1, <1>3, OnTransferEventReceivedIs
  <2> HIDE DEF t
  <2>2. Good(t)
    BY <2>1, OnlyDevicesGood
  <2>. QED BY <1>3, <2>1, <2>2 DEF OnlyDevices, SamePorts
<1> HIDE DEF t
<1>. QED BY <1>2, <1>3, ConfigureEndpointsGood

-----------------------------------------------------------------------------
(* Completion of commands.                                                 *)
(* What AddressDevice makes of a slot.                                     *)
Prepared(s, u, p, slot) ==
  /\ u \in XState /\ u.phase = [s.phase EXCEPT ![p] = "AddressingDevice"]
  /\ u.addressing = s.addressing /\ u.addr = s.addr /\ u.cmd = s.cmd /\ u.queued = s.queued
  /\ u.port = s.port /\ u.pending = s.pending
  /\ u.dev[slot] \in Device /\ u.dev[slot].inPort = p /\ u.dev[slot].alloc
  /\ s.dev[slot].alloc => u.dev[slot] = [s.dev[slot] EXCEPT !.inPort = p]
  /\ ~ s.dev[slot].alloc => u.dev[slot] = [NewDevice EXCEPT !.inPort = p]
  /\ \A i \in SlotId : i # slot => u.dev[i] = s.dev[i]

LEMMA AddressDeviceIs ==
  ASSUME NEW s \in XState, NEW p \in Port, NEW slot \in SlotId
  PROVE  \E u : /\ Prepared(s, u, p, slot)
               /\ AddressDevice(s, p, slot) =
                    PushCommand(u, [type |-> "AddressDevice", slot |-> slot])
<1> DEFINE a == AllocDevice(s, slot)
           u == [a EXCEPT !.dev[slot].inPort = p, !.phase[p] = "AddressingDevice"]
<1>2. NewDevice \in Device
  BY Sizes DEF NewDevice, Device
<1>3. /\ a \in XState /\ a.phase = s.phase /\ a.addressing = s.addressing /\ a.addr = s.addr
      /\ a.cmd = s.cmd /\ a.queued = s.queued /\ a.port = s.port /\ a.pending = s.pending
      /\ a.dev[slot] \in Device
      /\ \A i \in SlotId : i # slot => a.dev[i] = s.dev[i]
      /\ s.dev[slot].alloc => a.dev[slot] = s.dev[slot]
      /\ ~ s.dev[slot].alloc => a.dev[slot] = NewDevice
  <2>1. CASE s.dev[slot].alloc
    BY <2>1, DeviceOf DEF AllocDevice
  <2>2. CASE ~ s.dev[slot].alloc
    <3>1. a = [s EXCEPT !.dev = [s.dev EXCEPT ![slot] = NewDevice]]
      BY <2>2 DEF AllocDevice, XState
    <3>2. [s.dev EXCEPT ![slot] = NewDevice] \in [SlotId -> Device \cup {NoDevice}]
      BY <1>2 DEF XState
    <3>3. /\ a \in XState /\ a.phase = s.phase /\ a.addressing = s.addressing
          /\ a.addr = s.addr /\ a.cmd = s.cmd /\ a.queued = s.queued
          /\ a.port = s.port /\ a.pending = s.pending
          /\ a.dev = [s.dev EXCEPT ![slot] = NewDevice]
      BY <3>1, <3>2 DEF XState
    <3>4. s.dev \in [SlotId -> Device \cup {NoDevice}]
      BY DEF XState
    <3>. QED BY <1>2, <2>2, <3>3, <3>4
  <2>. QED BY <2>1, <2>2
<1>4. AddressDevice(s, p, slot) = PushCommand(u, [type |-> "AddressDevice", slot |-> slot])
  BY DEF AddressDevice
<1> HIDE DEF a
<1> DEFINE d == [a.dev[slot] EXCEPT !.inPort = p]
           ph == [s.phase EXCEPT ![p] = "AddressingDevice"]
           dv == [a.dev EXCEPT ![slot] = d]
<1>5. d \in Device /\ d.inPort = p /\ d.alloc
  <2>1. p \in 0..MaxPorts
    BY Sizes DEF Port
  <2>. QED BY <1>3, <2>1 DEF Device
<1>6. a.dev \in [SlotId -> Device \cup {NoDevice}]
  BY <1>3 DEF XState
<1>7. ph \in [Port -> Phase]
  BY DEF XState, Phase
<1>8. u = [a EXCEPT !.dev = dv, !.phase = ph]
  BY <1>3 DEF XState
<1>a. /\ s.dev[slot].alloc => d = [s.dev[slot] EXCEPT !.inPort = p]
      /\ ~ s.dev[slot].alloc => d = [NewDevice EXCEPT !.inPort = p]
  BY <1>3
<1> HIDE DEF d
<1>9. dv \in [SlotId -> Device \cup {NoDevice}] /\ dv[slot] = d
      /\ \A i \in SlotId : i # slot => dv[i] = s.dev[i]
  BY <1>3, <1>5, <1>6
<1> HIDE DEF u, dv
<1>10. /\ u \in XState /\ u.phase = ph /\ u.addressing = s.addressing /\ u.addr = s.addr
       /\ u.cmd = s.cmd /\ u.queued = s.queued /\ u.port = s.port /\ u.pending = s.pending
       /\ u.dev = dv
  BY <1>3, <1>7, <1>8, <1>9 DEF XState
<1>11. Prepared(s, u, p, slot)
  BY <1>5, <1>a, <1>9, <1>10 DEF Prepared
<1>. QED BY <1>4, <1>11

LEMMA AddressDeviceGood ==
  ASSUME NEW s, Good(s), NEW p \in Port, p = s.addressing, s.phase[p] = "EnablingSlot",
         NEW slot \in SlotId
  PROVE  Good(AddressDevice(s, p, slot))
<1> DEFINE c == [type |-> "AddressDevice", slot |-> slot]
           ph == [s.phase EXCEPT ![p] = "AddressingDevice"]
<1>1. s \in XState
  BY DEF Good
<1>2. PICK u : Prepared(s, u, p, slot) /\ AddressDevice(s, p, slot) = PushCommand(u, c)
  BY <1>1, AddressDeviceIs
<1>3. /\ u \in XState /\ u.phase = ph /\ u.addressing = s.addressing /\ u.addr = s.addr
      /\ u.cmd = s.cmd /\ u.dev[slot].inPort = p /\ u.dev[slot].alloc
      /\ \A i \in SlotId : i # slot => u.dev[i] = s.dev[i]
  BY <1>2 DEF Prepared
<1>4. u.dev[slot].ctxPort = IF s.dev[slot].alloc THEN s.dev[slot].ctxPort ELSE 0
  <2>1. CASE s.dev[slot].alloc
    <3>1. s.dev[slot] \in Device /\ u.dev[slot] = [s.dev[slot] EXCEPT !.inPort = p]
      BY <1>1, <1>2, <2>1, DeviceOf DEF Prepared
    <3>. QED BY <2>1, <3>1 DEF Device
  <2>2. CASE ~ s.dev[slot].alloc
    BY <1>2, <2>2 DEF Prepared, NewDevice
  <2>. QED BY <2>1, <2>2
<1>11. p # 0
  BY Sizes DEF Port
<1>12. CommandsOK(u)
  <2>1. ASSUME NEW i \in 0..(CmdSize - 2), s.cmd.buf[i].trb.type = "AddressDevice"
        PROVE  /\ u.dev[s.cmd.buf[i].trb.slot].alloc
               /\ u.dev[s.cmd.buf[i].trb.slot].inPort # 0
    <3>1. i \in 0..(CmdSize - 1)
      BY Sizes
    <3>2. s.cmd.buf[i].trb \in Command \cup {Blank, LinkTRB}
      BY <1>1, <3>1 DEF XState, CmdRing, CmdEntry
    <3>3. s.cmd.buf[i].trb.slot \in SlotId
      BY <2>1, <3>2 DEF Command, Blank, LinkTRB
    <3>4. s.dev[s.cmd.buf[i].trb.slot].alloc /\ s.dev[s.cmd.buf[i].trb.slot].inPort # 0
      BY <2>1 DEF Good, CommandsOK
    <3>. QED BY <1>3, <1>11, <3>3, <3>4
  <2>. QED BY <1>3, <2>1 DEF Good, CommandsOK
<1>13. c \in Command /\ c.slot = slot
  BY DEF Command
<1> HIDE DEF c
<1>14. u.dev[c.slot].alloc /\ u.dev[c.slot].inPort # 0
  BY <1>3, <1>11, <1>13
<1>15. PICK t : t = AddressDevice(s, p, slot)
  OBVIOUS
<1>16. /\ t \in XState /\ CommandsOK(t) /\ t.phase = ph /\ t.addressing = s.addressing
       /\ t.addr = s.addr /\ t.dev = u.dev
  BY <1>2, <1>3, <1>12, <1>13, <1>14, <1>15, PushCommandIs
<1>17. \A q \in Port : t.phase[q] = IF q = p THEN "AddressingDevice" ELSE s.phase[q]
  BY <1>1, <1>16 DEF XState
<1>18. InTurn(t)
  BY <1>16, <1>17 DEF Good, InTurn, InSequence
<1>19. ContextsOK(t)
  <2> SUFFICES ASSUME NEW i \in SlotId, t.dev[i].alloc
               PROVE  /\ t.dev[i].inPort # 0 => t.phase[t.dev[i].inPort] \in Addressed
                      /\ t.dev[i].ctxPort # 0 => /\ t.phase[t.dev[i].ctxPort] \in Addressed
                                                 /\ t.addr[t.dev[i].ctxPort] # "default"
    BY DEF ContextsOK
  <2>1. \A q \in 0..MaxPorts : q # 0 => q \in Port
    BY Sizes DEF Port
  <2>2. \A q \in Port : s.phase[q] \in Addressed => t.phase[q] \in Addressed
    BY <1>17 DEF Addressed
  <2>3. CASE i = slot
    <3>1. t.dev[i].inPort = p /\ t.dev[i].ctxPort = u.dev[slot].ctxPort
      BY <1>3, <1>16, <2>3
    <3>2. t.phase[p] \in Addressed
      BY <1>17 DEF Addressed
    <3>3. CASE s.dev[slot].alloc
      <4>1. s.dev[slot].ctxPort \in 0..MaxPorts /\ u.dev[slot].ctxPort = s.dev[slot].ctxPort
        BY <1>1, <1>4, <3>3, DeviceOf DEF Device
      <4>2. s.dev[slot].ctxPort # 0 => /\ s.phase[s.dev[slot].ctxPort] \in Addressed
                                       /\ s.addr[s.dev[slot].ctxPort] # "default"
        BY <3>3 DEF Good, ContextsOK
      <4>. QED BY <1>16, <2>1, <2>2, <3>1, <3>2, <4>1, <4>2
    <3>4. CASE ~ s.dev[slot].alloc
      BY <1>4, <3>1, <3>2, <3>4
    <3>. QED BY <3>3, <3>4
  <2>4. CASE i # slot
    <3>1. t.dev[i] = s.dev[i] /\ s.dev[i].alloc
      BY <1>3, <1>16, <2>4
    <3>2. s.dev[i].inPort \in 0..MaxPorts /\ s.dev[i].ctxPort \in 0..MaxPorts
      BY <1>1, <3>1, DeviceOf DEF Device
    <3>. QED BY <1>16, <2>1, <2>2, <3>1, <3>2 DEF Good, ContextsOK
  <2>. QED BY <2>3, <2>4
<1>. QED BY <1>15, <1>16, <1>18, <1>19 DEF Good

(* The next port is reset when the device of the last one has its address. *)
(* ResetWaiting tries the first of the ports that wait.                    *)
LEMMA FirstWaiting ==
  ASSUME NEW s \in XState, NEW p
  PROVE  \/ /\ \A i \in Port : s.phase[i] # "WaitingAddressed"
            /\ ResetWaiting(s, p) = s
         \/ \E i \in Port : /\ s.phase[i] = "WaitingAddressed"
                            /\ ResetWaiting(s, p) = ResetPort(s, i)
<1> DEFINE W(i) == /\ s.phase[i] = "WaitingAddressed"
                   /\ \A j \in 1..i-1 : s.phase[j] # "WaitingAddressed"
<1>1. CASE ~ \E i \in Port : s.phase[i] = "WaitingAddressed"
  BY <1>1 DEF ResetWaiting
<1>2. CASE \E i \in Port : s.phase[i] = "WaitingAddressed"
  <2> DEFINE S == {i \in Port : s.phase[i] = "WaitingAddressed"}
  <2>1. S \in SUBSET Nat /\ S # {}
    BY <1>2 DEF Port
  <2>2. PICK x \in S : \A y \in S : x <= y
    BY <2>1, LeastNatural
  <2>3. x \in Port /\ W(x)
    <3>1. ASSUME NEW j \in 1..x-1, s.phase[j] = "WaitingAddressed"
          PROVE  FALSE
      <4>1. j \in Port /\ ~ (x <= j)
        BY Sizes DEF Port
      <4>. QED BY <2>2, <3>1, <4>1
    <3>. QED BY <3>1
  <2>4. PICK i : i = CHOOSE k \in Port : W(k)
    OBVIOUS
  <2>5. i \in Port /\ W(i)
    BY <2>3, <2>4
  <2>6. ResetWaiting(s, p) = ResetPort(s, i)
    BY Zenon, <1>2, <2>4 DEF ResetWaiting
  <2>. QED BY <2>5, <2>6
<1>. QED BY <1>1, <1>2

LEMMA ResetWaitingIs ==
  ASSUME NEW s \in XState, s.addressing = 0, NEW p
  PROVE  LET t == ResetWaiting(s, p)
         IN  /\ t \in XState /\ t.cmd = s.cmd /\ t.queued = s.queued /\ t.dev = s.dev
             /\ \/ t.phase = s.phase /\ t.addressing = 0 /\ t.addr = s.addr
                \/ \E i \in Port : s.phase[i] = "WaitingAddressed" /\ Begun(s, t, i)
<1>1. CASE ResetWaiting(s, p) = s
  BY <1>1
<1>2. ASSUME NEW i \in Port, s.phase[i] = "WaitingAddressed", ResetWaiting(s, p) = ResetPort(s, i)
      PROVE  LET t == ResetWaiting(s, p)
             IN  /\ t \in XState /\ t.cmd = s.cmd /\ t.queued = s.queued /\ t.dev = s.dev
                 /\ \/ t.phase = s.phase /\ t.addressing = 0 /\ t.addr = s.addr
                    \/ \E j \in Port : s.phase[j] = "WaitingAddressed" /\ Begun(s, t, j)
  <2>1. CASE s.port[i].connected
    BY <1>2, <2>1, ResetPortIs
  <2>2. CASE ~ s.port[i].connected
    BY <1>2, <2>2 DEF ResetPort
  <2>. QED BY <2>1, <2>2
<1>. QED BY <1>1, <1>2, FirstWaiting

(* Another port's turn may have come.                                      *)
NextTurn(s, w) ==
  /\ w \in XState /\ w.cmd = s.cmd /\ w.queued = s.queued /\ w.dev = s.dev
  /\ \/ w.phase = s.phase /\ w.addressing = 0 /\ w.addr = s.addr
     \/ \E i \in Port : s.phase[i] = "WaitingAddressed" /\ Begun(s, w, i)

LEMMA InitializeDeviceIs ==
  ASSUME NEW s \in XState, NEW slot \in SlotId, s.dev[slot].alloc, NEW p \in Port,
         p = s.dev[slot].ctxPort
  PROVE  LET t == InitializeDevice(ResetWaiting([s EXCEPT !.addressing = 0], p), p, slot)
         IN  \E w, v : /\ NextTurn(s, w) /\ PhaseOnly(w, v, p, "InitializingDevice")
                      /\ OnlyDevices(v, t) /\ SameReads(v, t, slot)
<1> DEFINE z == [s EXCEPT !.addressing = 0]
           w == ResetWaiting(z, p)
           v == [w EXCEPT !.phase[p] = "InitializingDevice"]
           u == [v EXCEPT !.dev[slot].init = 1]
           t == Control(u, slot, "GetDeviceDescriptor")
<1>2. /\ z \in XState /\ z.addressing = 0 /\ z.phase = s.phase /\ z.addr = s.addr
      /\ z.cmd = s.cmd /\ z.queued = s.queued /\ z.dev = s.dev
  <2>1. 0 \in 0..MaxPorts
    BY Sizes
  <2>. QED BY <2>1 DEF XState
<1> HIDE DEF z
<1>a. NextTurn(s, w)
  <2>1. /\ w \in XState /\ w.cmd = z.cmd /\ w.queued = z.queued /\ w.dev = z.dev
        /\ \/ w.phase = z.phase /\ w.addressing = 0 /\ w.addr = z.addr
           \/ \E i \in Port : z.phase[i] = "WaitingAddressed" /\ Begun(z, w, i)
    BY <1>2, ResetWaitingIs
  <2> HIDE DEF w
  <2>2. \A i : Begun(z, w, i) => Begun(s, w, i)
    BY <1>2 DEF Begun
  <2>. QED BY <1>2, <2>1, <2>2 DEF NextTurn
<1>3. w \in XState /\ w.dev = s.dev
  BY <1>a DEF NextTurn
<1>4. InitializeDevice(w, p, slot) = t
  <2>1. w.phase \in [Port -> Phase] /\ w.dev \in [SlotId -> Device \cup {NoDevice}]
    BY <1>3 DEF XState
  <2>2. [w EXCEPT !.phase[p] = "InitializingDevice", !.dev[slot].init = 1] = u
    BY <1>3 DEF XState
  <2>. QED BY <2>2 DEF InitializeDevice
<1> HIDE DEF w
<1>5. [w.phase EXCEPT ![p] = "InitializingDevice"] \in [Port -> Phase]
  BY <1>3 DEF XState, Phase
<1>b. PhaseOnly(w, v, p, "InitializingDevice")
  BY <1>3, <1>5 DEF XState, PhaseOnly
<1>6. v \in XState /\ v.dev = w.dev
  BY <1>b DEF PhaseOnly
<1> HIDE DEF v
<1>8. v.dev[slot].alloc
  BY <1>3, <1>6
<1>9. OnlyDevices(v, u) /\ u.dev[slot].alloc /\ SameReads(v, u, slot)
  <2>1. 1 \in 0..4
    OBVIOUS
  <2>2. v.dev[slot].ctxPort # 0
    <3>1. p # 0
      BY Sizes DEF Port
    <3>2. v.dev = s.dev
      BY <1>3, <1>6
    <3>. QED BY <3>1, <3>2
  <2>. QED BY <1>6, <1>8, <2>1, <2>2, SetInitIs
<1> HIDE DEF u
<1>10. u \in XState
  BY <1>9 DEF OnlyDevices
<1>11. OnlyDevices(u, t) /\ SameReads(u, t, slot)
  BY <1>9, <1>10, ControlIs DEF Request
<1> HIDE DEF t
<1>12. OnlyDevices(v, t) /\ SameReads(v, t, slot)
  BY <1>9, <1>11, OnlyDevicesTwice, ReadsTwice DEF SameReads
<1>13. InitializeDevice(ResetWaiting([s EXCEPT !.addressing = 0], p), p, slot) = t
  BY Zenon, <1>4 DEF w, z
<1>. QED BY <1>a, <1>b, <1>12, <1>13

LEMMA InitializeDeviceGood ==
  ASSUME NEW s, Good(s), NEW slot \in SlotId, s.dev[slot].alloc, NEW p \in Port,
         p = s.dev[slot].ctxPort, p = s.addressing, s.phase[p] = "AddressingDevice"
  PROVE  Good(InitializeDevice(ResetWaiting([s EXCEPT !.addressing = 0], p), p, slot))
<1>1. s \in XState
  BY DEF Good
<1>2. PICK t : t = InitializeDevice(ResetWaiting([s EXCEPT !.addressing = 0], p), p, slot)
  OBVIOUS
<1>3. PICK w, v : /\ NextTurn(s, w) /\ PhaseOnly(w, v, p, "InitializingDevice")
                  /\ OnlyDevices(v, t)
  BY <1>1, <1>2, InitializeDeviceIs
<1>4. /\ w.cmd = s.cmd /\ w.dev = s.dev
      /\ \/ w.phase = s.phase /\ w.addressing = 0 /\ w.addr = s.addr
         \/ \E i \in Port : s.phase[i] = "WaitingAddressed" /\ Begun(s, w, i)
  BY <1>3 DEF NextTurn
<1>6. /\ v \in XState /\ v.phase = [w.phase EXCEPT ![p] = "InitializingDevice"]
      /\ v.addressing = w.addressing /\ v.addr = w.addr /\ v.cmd = w.cmd /\ v.dev = w.dev
  BY <1>3 DEF PhaseOnly
<1>7. Good(v)
  <2>1. s.phase \in [Port -> Phase] /\ s.addr \in [Port -> {"none", "default", "own"}]
    BY <1>1 DEF XState
  <2>2. SamePorts(s, v)
    BY <1>4, <1>6 DEF SamePorts
  <2>3. p # 0 /\ s.addr[p] # "default"
    <3>1. p # 0
      BY Sizes DEF Port
    <3>. QED BY <3>1 DEF Good, ContextsOK
  <2>4. /\ \A q \in Port : s.phase[q] \in InSequence <=> q = p
        /\ \A q \in Port : s.addr[q] # "default"
    BY <2>3 DEF Good, InTurn
  <2>5. CASE w.phase = s.phase /\ w.addressing = 0 /\ w.addr = s.addr
    <3>1. \A q \in Port : v.phase[q] = IF q = p THEN "InitializingDevice" ELSE s.phase[q]
      BY <1>6, <2>1, <2>5
    <3>2. \A q \in Port : q # 0
      BY Sizes DEF Port
    <3>3. Forward(s, v)
      BY <1>6, <2>5, <3>1 DEF Forward, Addressed
    <3>4. InTurn(v)
      BY <1>6, <2>4, <2>5, <3>1, <3>2 DEF InTurn, InSequence
    <3>. QED BY <1>1, <1>4, <1>6, <2>2, <3>3, <3>4, ContextsKept, CommandsKept DEF Good
  <2>6. CASE \E i \in Port : s.phase[i] = "WaitingAddressed" /\ Begun(s, w, i)
    <3>1. PICK i \in Port : s.phase[i] = "WaitingAddressed" /\ Begun(s, w, i)
      BY <2>6
    <3>2. /\ \A q \in Port : v.phase[q] = IF q = p THEN "InitializingDevice"
                                          ELSE IF q = i THEN "ResettingPort" ELSE s.phase[q]
          /\ \A q \in Port : v.addr[q] = IF q = i THEN "default" ELSE s.addr[q]
          /\ v.addressing = i
      BY <1>6, <2>1, <3>1 DEF Begun
    <3>3. i # p
      BY <3>1
    <3>4. Forward(s, v)
      BY <3>1, <3>2, <3>3 DEF Forward, Addressed
    <3>5. InTurn(v)
      BY <2>4, <3>2, <3>3 DEF InTurn, InSequence
    <3>. QED BY <1>1, <1>4, <1>6, <2>2, <3>4, <3>5, ContextsKept, CommandsKept DEF Good
  <2>. QED BY <1>4, <2>5, <2>6
<1>. QED BY <1>2, <1>3, <1>7, OnlyDevicesGood

LEMMA CompleteConfigurationIs ==
  ASSUME NEW s \in XState, NEW slot \in SlotId, s.dev[slot].alloc, NEW p \in Port
  PROVE  \E o : /\ OnlyDevices(s, o) /\ Reads(s, o, slot, 1, s.dev[slot].reads, s.dev[slot].prev)
               /\ PhaseOnly(o, CompleteConfiguration(s, p, slot), p, "Configured")
<1> DEFINE h == [s EXCEPT !.dev[slot].hid = 1]
           one == Control(h, slot, "SetProtocol")
           o == OnEndpointsConfigured(s, slot)
           t == [o EXCEPT !.phase[p] = "Configured"]
<1>2. /\ OnlyDevices(s, h) /\ h.dev[slot].alloc
      /\ Reads(s, h, slot, 1, s.dev[slot].reads, s.dev[slot].prev)
  <2>1. 1 \in 0..2
    OBVIOUS
  <2>. QED BY <2>1, SetHidIs
<1> HIDE DEF h
<1>3. "SetProtocol" \in Request
  BY DEF Request
<1>4. OnlyDevices(h, one) /\ one.dev[slot].alloc /\ SameReads(h, one, slot)
  <2>1. h \in XState
    BY <1>2 DEF OnlyDevices
  <2>. QED BY <1>2, <1>3, <2>1, ControlIs
<1>5. o = one \/ o = Control(one, slot, "SetProtocol")
  BY Zenon DEF OnEndpointsConfigured, one, h
<1> HIDE DEF one
<1>6. /\ OnlyDevices(one, Control(one, slot, "SetProtocol"))
      /\ SameReads(one, Control(one, slot, "SetProtocol"), slot)
  <2>1. one \in XState
    BY <1>4 DEF OnlyDevices
  <2>. QED BY <1>3, <1>4, <2>1, ControlIs
<1>7. OnlyDevices(s, o) /\ Reads(s, o, slot, 1, s.dev[slot].reads, s.dev[slot].prev)
  <2>1. OnlyDevices(s, one) /\ Reads(s, one, slot, 1, s.dev[slot].reads, s.dev[slot].prev)
    BY <1>2, <1>4, OnlyDevicesTwice, ReadsTwice
  <2>. QED BY <1>5, <1>6, <2>1, OnlyDevicesTwice, ReadsTwice
<1>8. CompleteConfiguration(s, p, slot) = t
  BY DEF CompleteConfiguration
<1> HIDE DEF o
<1>9. o \in XState /\ o.phase = s.phase
  BY <1>7 DEF OnlyDevices
<1>10. [o.phase EXCEPT ![p] = "Configured"] \in [Port -> Phase]
  BY <1>9 DEF XState, Phase
<1>11. PhaseOnly(o, t, p, "Configured")
  BY <1>9, <1>10 DEF XState, PhaseOnly
<1>. QED BY <1>7, <1>8, <1>11

LEMMA CompleteConfigurationGood ==
  ASSUME NEW s, Good(s), NEW slot \in SlotId, s.dev[slot].alloc, NEW p \in Port,
         s.phase[p] = "ConfiguringEndpoints"
  PROVE  Good(CompleteConfiguration(s, p, slot))
<1>1. s \in XState
  BY DEF Good
<1>2. PICK t : t = CompleteConfiguration(s, p, slot)
  OBVIOUS
<1>3. PICK o : OnlyDevices(s, o) /\ PhaseOnly(o, t, p, "Configured")
  BY <1>1, <1>2, CompleteConfigurationIs
<1>4. Good(o) /\ o \in XState /\ o.phase = s.phase
  BY <1>3, OnlyDevicesGood DEF OnlyDevices
<1>5. /\ t \in XState /\ t.phase = [o.phase EXCEPT ![p] = "Configured"]
      /\ t.addressing = o.addressing /\ t.addr = o.addr /\ t.cmd = o.cmd /\ t.dev = o.dev
  BY <1>3 DEF PhaseOnly
<1>6. SamePorts(o, t)
  BY <1>5 DEF SamePorts
<1>7. CommandsOK(t)
  BY <1>4, <1>5, <1>6, CommandsKept DEF Good
<1>8. p \in 0..MaxPorts /\ o.phase[p] = "ConfiguringEndpoints"
  BY <1>4, Sizes DEF Port
<1>9. Good(t)
  BY <1>4, <1>5, <1>6, <1>7, <1>8, PhaseForward
<1>. QED BY <1>2, <1>9

LEMMA OnCommandCompletionGood ==
  ASSUME NEW s, Good(s), NEW e, e.slot \in SlotId
  PROVE  Good(OnCommandCompletion(s, e))
<1> DEFINE p == s.dev[e.slot].ctxPort
<1>1. s \in XState
  BY DEF Good
<1>2. \/ OnCommandCompletion(s, e) = s
      \/ /\ s.addressing # 0 /\ s.phase[s.addressing] = "EnablingSlot"
         /\ OnCommandCompletion(s, e) = AddressDevice(s, s.addressing, e.slot)
      \/ /\ s.dev[e.slot].alloc /\ p # 0 /\ p = s.addressing /\ s.phase[p] = "AddressingDevice"
         /\ OnCommandCompletion(s, e) =
              InitializeDevice(ResetWaiting([s EXCEPT !.addressing = 0], p), p, e.slot)
      \/ /\ s.dev[e.slot].alloc /\ p # 0 /\ s.phase[p] = "ConfiguringEndpoints"
         /\ OnCommandCompletion(s, e) = CompleteConfiguration(s, p, e.slot)
  BY Zenon DEF OnCommandCompletion
<1>3. \A q \in 0..MaxPorts : q # 0 => q \in Port
  BY Sizes DEF Port
<1>4. s.addressing \in 0..MaxPorts
  BY <1>1 DEF XState
<1>5. s.dev[e.slot].alloc => p \in 0..MaxPorts
  BY <1>1, DeviceOf DEF Device
<1>6. CASE /\ s.addressing # 0 /\ s.phase[s.addressing] = "EnablingSlot"
           /\ OnCommandCompletion(s, e) = AddressDevice(s, s.addressing, e.slot)
  BY <1>3, <1>4, <1>6, AddressDeviceGood
<1>7. CASE /\ s.dev[e.slot].alloc /\ p # 0 /\ p = s.addressing /\ s.phase[p] = "AddressingDevice"
           /\ OnCommandCompletion(s, e) =
                InitializeDevice(ResetWaiting([s EXCEPT !.addressing = 0], p), p, e.slot)
  BY <1>3, <1>5, <1>7, InitializeDeviceGood
<1>8. CASE /\ s.dev[e.slot].alloc /\ p # 0 /\ s.phase[p] = "ConfiguringEndpoints"
           /\ OnCommandCompletion(s, e) = CompleteConfiguration(s, p, e.slot)
  BY <1>3, <1>5, <1>8, CompleteConfigurationGood
<1>. QED BY <1>2, <1>6, <1>7, <1>8

-----------------------------------------------------------------------------
(* The event ring, as far as the types of its entries go.                  *)
LEMMA FrontIsEvent ==
  ASSUME evt \in EvtRing, evtAt \in [index : 0..(EvtSize - 1), cycle : BOOLEAN],
         NEW e, e = Front(evt, evtAt)
  PROVE  /\ e \in Event \cup {Blank}
         /\ e.type = "Transfer" => e.slot \in SlotId
         /\ e.type = "CommandCompletion" => e.slot \in SlotId
         /\ e.type = "PortStatusChange" => e.port \in Port
<1>1. evtAt.index \in 0..(EvtSize - 1)
  OBVIOUS
<1>2. evt.buf \in [0..(EvtSize - 1) -> EvtEntry]
  BY DEF EvtRing
<1>3. evt.buf[evtAt.index] \in EvtEntry
  BY <1>1, <1>2
<1>4. e \in Event \cup {Blank}
  BY <1>3 DEF Front, EvtEntry
<1>5. CASE e = Blank
  BY <1>4, <1>5 DEF Blank
<1>6. CASE e \in Event
  BY <1>6 DEF Event
<1>. QED BY <1>4, <1>5, <1>6

LEMMA PopForgetTyped ==
  ASSUME evt \in EvtRing, evtAt \in [index : 0..(EvtSize - 1), cycle : BOOLEAN]
  PROVE  /\ Forget(evt, evtAt) \in EvtRing
         /\ Pop(evtAt, EvtSize) \in [index : 0..(EvtSize - 1), cycle : BOOLEAN]
<1> DEFINE i == evtAt.index
           b == [evt.buf EXCEPT ![i].trb = Blank]
<1>1. i \in 0..(EvtSize - 1) /\ evt.buf \in [0..(EvtSize - 1) -> EvtEntry]
  BY DEF EvtRing
<1>2. b \in [0..(EvtSize - 1) -> EvtEntry]
  <2>1. evt.buf[i] \in EvtEntry
    BY <1>1
  <2>2. [evt.buf[i] EXCEPT !.trb = Blank] \in EvtEntry
    BY <2>1 DEF EvtEntry
  <2>3. b = [evt.buf EXCEPT ![i] = [evt.buf[i] EXCEPT !.trb = Blank]]
    BY <1>1
  <2>. QED BY <1>1, <2>2, <2>3
<1>3. Forget(evt, evtAt) = [evt EXCEPT !.buf = b]
  BY DEF Forget, EvtRing
<1> HIDE DEF b, i
<1>4. Forget(evt, evtAt) \in EvtRing
  BY <1>2, <1>3 DEF EvtRing
<1>5. Pop(evtAt, EvtSize) \in [index : 0..(EvtSize - 1), cycle : BOOLEAN]
  <2>1. CASE evtAt.index + 1 = EvtSize
    <3>1. 0 \in 0..(EvtSize - 1)
      BY Sizes
    <3>. QED BY <2>1, <3>1 DEF Pop
  <2>2. CASE evtAt.index + 1 # EvtSize
    <3>1. evtAt.index + 1 \in 0..(EvtSize - 1)
      BY <1>1, <2>2, Sizes DEF i
    <3>2. Pop(evtAt, EvtSize) = [index |-> evtAt.index + 1, cycle |-> evtAt.cycle]
      BY <2>2 DEF Pop
    <3>. QED BY <3>1, <3>2
  <2>. QED BY <2>1, <2>2
<1>. QED BY <1>4, <1>5

LEMMA PostTyped ==
  ASSUME evt \in EvtRing, NEW e \in Event, PostEvent(e)
  PROVE  evt' \in EvtRing /\ evtAt' = evtAt /\ boot' = boot
<1> DEFINE x == [trb |-> e, cycle |-> evt.cycle]
           b == [evt.buf EXCEPT ![evt.index] = x]
           w == CopyToLast(evt, e)
<1>1. evt.index \in 0..(EvtSize - 1) /\ evt.buf \in [0..(EvtSize - 1) -> EvtEntry]
      /\ evt.cycle \in BOOLEAN
  BY DEF EvtRing
<1>2. x \in EvtEntry
  BY <1>1 DEF EvtEntry
<1>3. b \in [0..(EvtSize - 1) -> EvtEntry]
  BY <1>1, <1>2
<1>4. w = [evt EXCEPT !.buf = b]
  BY DEF CopyToLast, EvtRing
<1> HIDE DEF b
<1>5. w \in EvtRing /\ w.index = evt.index /\ w.cycle = evt.cycle
  BY <1>3, <1>4 DEF EvtRing
<1>6. evt' = IF evt.index + 1 = EvtSize THEN [w EXCEPT !.index = 0, !.cycle = ~@]
                                       ELSE [w EXCEPT !.index = @ + 1]
  BY DEF PostEvent, Post
<1> HIDE DEF w
<1>7. evt' \in EvtRing
  <2>1. CASE evt.index + 1 = EvtSize
    <3>1. 0 \in 0..(EvtSize - 1)
      BY Sizes
    <3>2. evt' = [w EXCEPT !.index = 0, !.cycle = ~ w.cycle]
      BY <1>6, <2>1
    <3>. QED BY <1>5, <3>1, <3>2 DEF EvtRing
  <2>2. CASE evt.index + 1 # EvtSize
    <3>1. evt.index + 1 \in 0..(EvtSize - 1)
      BY <1>1, <2>2, Sizes
    <3>2. evt' = [w EXCEPT !.index = evt.index + 1]
      BY <1>5, <1>6, <2>2
    <3>. QED BY <1>5, <3>1, <3>2 DEF EvtRing
  <2>. QED BY <2>1, <2>2
<1>. QED BY <1>7 DEF PostEvent

-----------------------------------------------------------------------------
(* The steps.                                                              *)
LEMMA InitIInv == Init => IInv
<1> SUFFICES ASSUME Init PROVE IInv
  OBVIOUS
<1> USE DEF Init
<1>1. PICK plugged \in SUBSET Port, announced \in SUBSET Port :
        xhc = [phase |-> [p \in Port |-> "NotConnected"], addressing |-> 0,
               port |-> [p \in Port |-> [connected |-> p \in plugged, enabled |-> FALSE,
                                        csc |-> p \in plugged, prc |-> FALSE]],
               pending |-> announced, addr |-> [p \in Port |-> "none"],
               cmd |-> NewRing(CmdSize), queued |-> <<>>, dev |-> [i \in SlotId |-> NoDevice]]
  BY Zenon
<1>2. NewRing(CmdSize) \in CmdRing
  <2>1. 0 \in 0..(CmdSize - 2)
    BY Sizes
  <2>2. [i \in 0..CmdSize-1 |-> [trb |-> Blank, cycle |-> FALSE]] \in [0..(CmdSize - 1) -> CmdEntry]
    BY DEF CmdEntry
  <2>. QED BY <2>1, <2>2 DEF NewRing, CmdRing
<1>3. NewRing(EvtSize) \in EvtRing
  <2>1. 0 \in 0..(EvtSize - 1)
    BY Sizes
  <2>2. [i \in 0..EvtSize-1 |-> [trb |-> Blank, cycle |-> FALSE]] \in [0..(EvtSize - 1) -> EvtEntry]
    BY DEF EvtEntry
  <2>. QED BY <2>1, <2>2 DEF NewRing, EvtRing
<1>4. xhc \in XState
  <2>1. xhc.port \in [Port -> PortReg]
    BY <1>1 DEF PortReg
  <2>2. xhc.phase \in [Port -> Phase] /\ xhc.addr \in [Port -> {"none", "default", "own"}]
    BY <1>1 DEF Phase
  <2>3. 0 \in 0..MaxPorts
    BY Sizes
  <2>4. <<>> \in Seq(Command)
    OBVIOUS
  <2>5. announced \in SUBSET Port
    OBVIOUS
  <2>. QED BY <1>1, <1>2, <2>1, <2>2, <2>3, <2>4, <2>5 DEF XState
<1>5. InTurn(xhc)
  <2>1. \A p \in Port : p # 0
    BY Sizes DEF Port
  <2>. QED BY <1>1, <2>1 DEF InTurn, InSequence
<1>6. ContextsOK(xhc)
  BY <1>1 DEF ContextsOK, NoDevice
<1>7. CommandsOK(xhc)
  <2>1. \A i \in 0..(CmdSize - 1) : xhc.cmd.buf[i].trb = Blank
    BY <1>1 DEF NewRing
  <2>2. CmdSize - 1 \in 0..(CmdSize - 1) /\ \A i \in 0..(CmdSize - 2) : i \in 0..(CmdSize - 1)
    BY Sizes
  <2>. QED BY <2>1, <2>2 DEF CommandsOK, Blank
<1>8. Around
  <2>1. NewConsumer \in [index : 0..(EvtSize - 1), cycle : BOOLEAN]
    BY Sizes DEF NewConsumer
  <2>2. NewConsumer \in [index : 0..(CmdSize - 1), cycle : BOOLEAN]
    BY Sizes DEF NewConsumer
  <2>3. slots \subseteq SlotId \ {0}
    BY Sizes DEF SlotId
  <2>. QED BY <1>3, <2>1, <2>2, <2>3 DEF Around
<1>. QED BY <1>4, <1>5, <1>6, <1>7, <1>8 DEF IInv, Good

LEMMA InitializePortStep ==
  ASSUME IInv, InitializePort
  PROVE  IInv'
<1>1. boot \in Port
  BY Sizes DEF IInv, Around, InitializePort, Port
<1>2. Good(xhc')
  <2>1. CASE xhc.phase[boot] = "NotConnected"
    <3>1. Good(ResetPort(xhc, boot))
      BY <1>1, <2>1, ResetPortGood DEF IInv
    <3>. QED BY <2>1, <3>1 DEF InitializePort
  <2>2. CASE xhc.phase[boot] # "NotConnected"
    BY <2>2 DEF InitializePort, IInv
  <2>. QED BY <2>1, <2>2
<1>3. Around'
  BY <1>1 DEF InitializePort, IInv, Around, Port
<1>. QED BY <1>2, <1>3 DEF IInv, Good, InTurn, ContextsOK, CommandsOK

LEMMA ProcessEventStep ==
  ASSUME IInv, ProcessEvent
  PROVE  IInv'
<1>1. PICK e : e = Front(evt, evtAt)
  OBVIOUS
<1>2. /\ e.type = "Transfer" => e.slot \in SlotId
      /\ e.type = "CommandCompletion" => e.slot \in SlotId
      /\ e.type = "PortStatusChange" => e.port \in Port
  BY <1>1, FrontIsEvent DEF IInv, Around
<1>3. \/ e.type = "Transfer" /\ xhc' = OnTransfer(xhc, e)
      \/ e.type = "PortStatusChange" /\ xhc' = OnPortStatusChange(xhc, e.port)
      \/ e.type = "CommandCompletion" /\ xhc' = OnCommandCompletion(xhc, e)
      \/ xhc' = xhc
  BY Zenon, <1>1 DEF ProcessEvent
<1>4. Good(xhc)
  BY DEF IInv
<1>5. Good(xhc')
  BY <1>2, <1>3, <1>4, OnTransferGood, OnPortStatusChangeGood, OnCommandCompletionGood
<1>6. Around'
  BY PopForgetTyped DEF ProcessEvent, IInv, Around
<1>. QED BY <1>5, <1>6 DEF IInv, Good, InTurn, ContextsOK, CommandsOK

LEMMA PostPortEventIs ==
  ASSUME IInv, NEW p \in Port, PostPortEvent(p)
  PROVE  /\ OnlyDevices(xhc, xhc') /\ xhc'.dev = xhc.dev /\ cmdAt' = cmdAt /\ slots' = slots
         /\ \E e \in Event : e.type = "PortStatusChange" /\ PostEvent(e)
<1> DEFINE e == [type |-> "PortStatusChange", port |-> p]
<1>1. e \in Event /\ e.type = "PortStatusChange"
  BY DEF Event
<1>2. PostEvent(e)
  BY DEF PostPortEvent
<1> HIDE DEF e
<1>3. xhc \in XState /\ xhc' = [xhc EXCEPT !.pending = @ \ {p}]
  BY DEF IInv, Good, PostPortEvent
<1>4. xhc.pending \ {p} \in SUBSET Port
  BY <1>3 DEF XState
<1>5. /\ xhc' \in XState /\ xhc'.cmd = xhc.cmd /\ xhc'.phase = xhc.phase
      /\ xhc'.addressing = xhc.addressing /\ xhc'.addr = xhc.addr /\ xhc'.dev = xhc.dev
      /\ xhc'.queued = xhc.queued
  BY <1>3, <1>4 DEF XState
<1>6. OnlyDevices(xhc, xhc')
  BY <1>5 DEF OnlyDevices, SamePorts, OnlyStarted
<1>. QED BY <1>1, <1>2, <1>5, <1>6 DEF PostPortEvent

(* A step of the controller that changes devices only and posts an event.  *)
LEMMA PostingStep ==
  ASSUME IInv, OnlyDevices(xhc, xhc'), cmdAt' = cmdAt, slots' = slots,
         NEW e \in Event, PostEvent(e)
  PROVE  IInv'
<1>1. evt' \in EvtRing /\ evtAt' = evtAt /\ boot' = boot
  BY PostTyped DEF IInv, Around
<1>2. Around'
  BY <1>1 DEF IInv, Around
<1>3. Good(xhc')
  BY OnlyDevicesGood DEF IInv
<1>. QED BY <1>2, <1>3 DEF IInv, Good, InTurn, ContextsOK, CommandsOK

(* The device of a slot gets its address.                                  *)
Assigned(s, t, slot, p) ==
  /\ slot \in SlotId /\ s.dev[slot] \in Device /\ p = s.dev[slot].inPort /\ p \in Port
  /\ s.addr[p] = "default" /\ t.addr = [s.addr EXCEPT ![p] = "own"]
  /\ t.dev = [s.dev EXCEPT ![slot] = [s.dev[slot] EXCEPT !.ctxPort = p]]

(* The controller has executed the command c and says slot.                *)
Executed(c, slot) ==
  /\ c = Front(xhc.cmd, cmdAt) /\ c \in Command /\ cmdAt.index \in 0..(CmdSize - 2)
  /\ xhc' \in XState /\ xhc'.phase = xhc.phase /\ xhc'.addressing = xhc.addressing
  /\ xhc'.cmd = xhc.cmd
  /\ xhc'.queued = IF xhc.queued = <<>> THEN xhc.queued ELSE Tail(xhc.queued)
  /\ \/ xhc'.dev = xhc.dev /\ xhc'.addr = xhc.addr
     \/ c.type = "AddressDevice" /\ c.slot \in slots /\ \E p : Assigned(xhc, xhc', c.slot, p)
  /\ slot \in SlotId
  /\ PostEvent([type |-> "CommandCompletion", at |-> cmdAt.index, slot |-> slot])
  /\ \/ c.type = "EnableSlot" /\ slot \notin slots /\ slot # 0 /\ slots' = slots \cup {slot}
     \/ c.type = "EnableSlot" /\ slot = 0 /\ slots' = slots
     \/ c.type # "EnableSlot" /\ slot = c.slot /\ slots' = slots

LEMMA ExecuteCommandIs ==
  ASSUME IInv, ExecuteCommand
  PROVE  \E c, slot : Executed(c, slot)
<1> DEFINE c == Front(xhc.cmd, cmdAt)
           q == IF xhc.queued = <<>> THEN xhc.queued ELSE Tail(xhc.queued)
           done == [xhc EXCEPT !.queued = IF @ = <<>> THEN @ ELSE Tail(@)]
           Completion(slot) == [type |-> "CommandCompletion", at |-> cmdAt.index, slot |-> slot]
           p == xhc.dev[c.slot].inPort
<1>1. Good(xhc) /\ xhc \in XState
  BY DEF IInv, Good
<1>2. cmdAt.index \in 0..(CmdSize - 1)
  BY DEF IInv, Around
<1>3. c \in Command \cup {Blank, LinkTRB}
  <2>1. xhc.cmd.buf \in [0..(CmdSize - 1) -> CmdEntry]
    BY <1>1 DEF XState, CmdRing
  <2>2. xhc.cmd.buf[cmdAt.index] \in CmdEntry
    BY <1>2, <2>1
  <2>. QED BY <2>2 DEF Front, CmdEntry
<1>4. c.type \in {"EnableSlot", "AddressDevice", "ConfigureEndpoint"}
  BY DEF ExecuteCommand
<1>5. c \in Command /\ c.slot \in SlotId
  BY <1>3, <1>4 DEF Command, Blank, LinkTRB
<1>6. cmdAt.index \in 0..(CmdSize - 2)
  <2>1. cmdAt.index # CmdSize - 1
    BY SMTT(60), <1>1, <1>4 DEF Good, CommandsOK, Front, Blank, LinkTRB
  <2>. QED BY <1>2, <2>1, Sizes
<1>7. c.type = "AddressDevice" => xhc.dev[c.slot].alloc /\ xhc.dev[c.slot].inPort # 0
  BY <1>1, <1>6 DEF Good, CommandsOK, Front
<1>8. \/ /\ c.type = "EnableSlot" /\ xhc' = done
         /\ \/ \E slot \in SlotId \ (slots \cup {0}) :
                 slots' = slots \cup {slot} /\ PostEvent(Completion(slot))
            \/ slots' = slots /\ PostEvent(Completion(0))
      \/ /\ c.type = "AddressDevice"
         /\ xhc' = IF c.slot \in slots /\ xhc.addr[p] = "default"
                   THEN [done EXCEPT !.addr[p] = "own", !.dev[c.slot].ctxPort = p]
                   ELSE done
         /\ slots' = slots /\ PostEvent(Completion(c.slot))
      \/ /\ c.type = "ConfigureEndpoint" /\ xhc' = done
         /\ slots' = slots /\ PostEvent(Completion(c.slot))
  BY Zenon DEF ExecuteCommand
<1> HIDE DEF c
<1>9. \E slot \in SlotId :
        /\ PostEvent(Completion(slot))
        /\ \/ c.type = "EnableSlot" /\ slot \notin slots /\ slot # 0 /\ slots' = slots \cup {slot}
           \/ c.type = "EnableSlot" /\ slot = 0 /\ slots' = slots
           \/ c.type # "EnableSlot" /\ slot = c.slot /\ slots' = slots
  <2>1. 0 \in SlotId
    BY Sizes DEF SlotId
  <2> HIDE DEF Completion, done, p
  <2>. QED BY <1>5, <1>8, <2>1
<1> HIDE DEF Completion
<1>10. q \in Seq(Command)
  <2>1. xhc.queued \in Seq(Command)
    BY <1>1 DEF XState
  <2>2. CASE xhc.queued = <<>>
    BY <2>1, <2>2
  <2>3. CASE xhc.queued # <<>>
    <3>1. Tail(xhc.queued) \in Seq(Command)
      BY <2>1, <2>3
    <3>. QED BY <2>3, <3>1
  <2>. QED BY <2>2, <2>3
<1>11. done = [xhc EXCEPT !.queued = q]
  BY Zenon DEF done
<1> HIDE DEF q, done
<1>12. /\ done \in XState /\ done.phase = xhc.phase /\ done.addressing = xhc.addressing
       /\ done.addr = xhc.addr /\ done.cmd = xhc.cmd /\ done.dev = xhc.dev /\ done.queued = q
  BY <1>1, <1>10, <1>11 DEF XState
<1>13. /\ xhc' \in XState /\ xhc'.phase = xhc.phase /\ xhc'.addressing = xhc.addressing
       /\ xhc'.cmd = xhc.cmd /\ xhc'.queued = q
       /\ \/ xhc'.dev = xhc.dev /\ xhc'.addr = xhc.addr
          \/ c.type = "AddressDevice" /\ c.slot \in slots /\ Assigned(xhc, xhc', c.slot, p)
  <2>1. CASE xhc' = done
    BY <1>12, <2>1
  <2>2. CASE /\ c.type = "AddressDevice" /\ c.slot \in slots /\ xhc.addr[p] = "default"
             /\ xhc' = [done EXCEPT !.addr[p] = "own", !.dev[c.slot].ctxPort = p]
    <3> DEFINE slot == c.slot
               d == [xhc.dev[slot] EXCEPT !.ctxPort = p]
               ad == [xhc.addr EXCEPT ![p] = "own"]
               dv == [xhc.dev EXCEPT ![slot] = d]
    <3>1. slot \in SlotId /\ xhc.dev[slot].alloc /\ p # 0
      BY <1>5, <1>7, <2>2
    <3>2. xhc.dev[slot] \in Device
      BY <1>1, <3>1, DeviceOf
    <3>3. p \in Port /\ p \in 0..MaxPorts
      <4>1. p \in 0..MaxPorts
        BY <3>2 DEF Device
      <4>. QED BY <3>1, <4>1, Sizes DEF Port
    <3>4. xhc.dev[slot].inPort = p
      OBVIOUS
    <3> HIDE DEF p
    <3>5. d \in Device
      BY <3>2, <3>3 DEF Device
    <3>6. xhc' = [done EXCEPT !.addr = ad, !.dev = dv]
      BY <1>12, <2>2 DEF XState
    <3> HIDE DEF d
    <3>7. dv \in [SlotId -> Device \cup {NoDevice}] /\ ad \in [Port -> {"none", "default", "own"}]
      BY <1>1, <3>5 DEF XState
    <3> HIDE DEF ad, dv
    <3>8. /\ xhc' \in XState /\ xhc'.phase = xhc.phase /\ xhc'.addressing = xhc.addressing
          /\ xhc'.addr = ad /\ xhc'.cmd = xhc.cmd /\ xhc'.dev = dv /\ xhc'.queued = q
      BY <1>12, <3>6, <3>7 DEF XState
    <3>9. Assigned(xhc, xhc', slot, p)
      BY <2>2, <3>1, <3>2, <3>3, <3>4, <3>8 DEF Assigned, ad, dv, d
    <3>. QED BY <2>2, <3>8, <3>9
  <2>. QED BY <1>8, <2>1, <2>2
<1>. QED BY <1>5, <1>6, <1>9, <1>13 DEF Executed, c, q, Completion

LEMMA ExecuteCommandStep ==
  ASSUME IInv, ExecuteCommand
  PROVE  IInv'
<1>1. Good(xhc) /\ xhc \in XState
  BY DEF IInv, Good
<1>2. PICK c, slot : Executed(c, slot)
  BY ExecuteCommandIs
<1>3. cmdAt' \in [index : 0..(CmdSize - 1), cycle : BOOLEAN]
  <2>1. cmdAt \in [index : 0..(CmdSize - 1), cycle : BOOLEAN]
    BY DEF IInv, Around
  <2>2. \/ cmdAt' = [index |-> 0, cycle |-> ~ cmdAt.cycle]
        \/ cmdAt' = [cmdAt EXCEPT !.index = @ + 1]
    BY DEF ExecuteCommand, Consume
  <2>3. 0 \in 0..(CmdSize - 1) /\ cmdAt.index + 1 \in 0..(CmdSize - 1)
    BY <1>2, Sizes DEF Executed
  <2>4. CASE cmdAt' = [index |-> 0, cycle |-> ~ cmdAt.cycle]
    BY <2>1, <2>3, <2>4
  <2>5. CASE cmdAt' = [cmdAt EXCEPT !.index = @ + 1]
    <3>1. cmdAt' = [index |-> cmdAt.index + 1, cycle |-> cmdAt.cycle]
      BY <2>1, <2>5
    <3>. QED BY <2>1, <2>3, <3>1
  <2>. QED BY <2>2, <2>4, <2>5
<1>4. Around'
  <2>1. \E e \in Event : PostEvent(e)
    <3>1. cmdAt.index \in Nat /\ slot \in SlotId
      BY <1>2, Sizes DEF Executed
    <3>2. [type |-> "CommandCompletion", at |-> cmdAt.index, slot |-> slot] \in Event
      BY <3>1 DEF Event
    <3>. QED BY <1>2, <3>2 DEF Executed
  <2>2. evt' \in EvtRing /\ evtAt' = evtAt /\ boot' = boot
    BY <2>1, PostTyped DEF IInv, Around
  <2>3. slots' \subseteq SlotId \ {0}
    BY <1>2 DEF Executed, IInv, Around
  <2>. QED BY <1>3, <2>2, <2>3 DEF IInv, Around
<1>5. /\ xhc' \in XState /\ xhc'.phase = xhc.phase /\ xhc'.addressing = xhc.addressing
      /\ xhc'.cmd = xhc.cmd
  BY <1>2 DEF Executed
<1>6. CASE xhc'.dev = xhc.dev /\ xhc'.addr = xhc.addr
  <2>1. SamePorts(xhc, xhc')
    BY <1>6 DEF SamePorts
  <2>2. Good(xhc')
    BY <1>1, <1>5, <1>6, <2>1, GoodKept
  <2>. QED BY <1>4, <2>2 DEF IInv, Good, InTurn, ContextsOK, CommandsOK
<1>7. CASE \E p : Assigned(xhc, xhc', c.slot, p)
  <2>1. PICK p : Assigned(xhc, xhc', c.slot, p)
    BY <1>7
  <2> DEFINE k == c.slot
             d == [xhc.dev[k] EXCEPT !.ctxPort = p]
             ad == [xhc.addr EXCEPT ![p] = "own"]
             dv == [xhc.dev EXCEPT ![k] = d]
  <2>2. /\ k \in SlotId /\ p \in Port /\ xhc.dev[k] \in Device /\ xhc.dev[k].inPort = p
        /\ xhc'.addr = ad /\ xhc'.dev = dv
    BY <2>1 DEF Assigned
  <2>3. xhc.dev[k].alloc /\ p # 0 /\ p \in 0..MaxPorts
    <3>1. xhc.dev[k].alloc
      BY <2>2 DEF Device
    <3>2. p # 0 /\ p \in 0..MaxPorts
      BY <2>2, Sizes DEF Port
    <3>. QED BY <3>1, <3>2
  <2>4. xhc.phase[p] \in Addressed
    BY <1>1, <2>2, <2>3 DEF Good, ContextsOK
  <2>5. d.inPort = p /\ d.ctxPort = p /\ d.alloc
    BY <2>2, <2>3 DEF Device
  <2> HIDE DEF d
  <2>6. /\ dv[k] = d /\ \A i \in SlotId : i # k => dv[i] = xhc.dev[i]
        /\ \A j \in Port : ad[j] = IF j = p THEN "own" ELSE xhc.addr[j]
    BY <1>1, <2>2 DEF XState
  <2> HIDE DEF ad, dv
  <2>7. InTurn(xhc')
    BY <1>1, <1>5, <2>2, <2>6 DEF Good, InTurn
  <2>8. ContextsOK(xhc')
    <3> SUFFICES ASSUME NEW i \in SlotId, dv[i].alloc
                 PROVE  /\ dv[i].inPort # 0 => xhc.phase[dv[i].inPort] \in Addressed
                        /\ dv[i].ctxPort # 0 => /\ xhc.phase[dv[i].ctxPort] \in Addressed
                                                /\ ad[dv[i].ctxPort] # "default"
      BY <1>5, <2>2 DEF ContextsOK
    <3>1. CASE i = k
      <4>1. ad[p] = "own" /\ dv[k] = d
        BY <2>2, <2>6
      <4> HIDE DEF k
      <4>. QED BY <2>4, <2>5, <3>1, <4>1
    <3>2. CASE i # k
      <4>1. dv[i] = xhc.dev[i] /\ xhc.dev[i].alloc
        BY <2>6, <3>2
      <4>2. xhc.dev[i].ctxPort \in 0..MaxPorts
        BY <1>1, <4>1, DeviceOf DEF Device
      <4>3. xhc.dev[i].ctxPort # 0 => xhc.dev[i].ctxPort \in Port
        BY <4>2, Sizes DEF Port
      <4>. QED BY <1>1, <2>6, <4>1, <4>3 DEF Good, ContextsOK
    <3>. QED BY <3>1, <3>2
  <2>9. CommandsOK(xhc')
    <3>1. \A i \in SlotId : xhc.dev[i].alloc /\ xhc.dev[i].inPort # 0 => dv[i].alloc /\ dv[i].inPort # 0
      BY <2>2, <2>3, <2>5, <2>6
    <3>2. ASSUME NEW i \in 0..(CmdSize - 2), xhc.cmd.buf[i].trb.type = "AddressDevice"
          PROVE  xhc.cmd.buf[i].trb.slot \in SlotId
      <4>1. i \in 0..(CmdSize - 1)
        BY Sizes
      <4>2. xhc.cmd.buf[i].trb \in Command \cup {Blank, LinkTRB}
        BY <1>1, <4>1 DEF XState, CmdRing, CmdEntry
      <4>. QED BY <3>2, <4>2 DEF Command, Blank, LinkTRB
    <3>. QED BY <1>1, <1>5, <2>2, <3>1, <3>2 DEF Good, CommandsOK
  <2>. QED BY <1>4, <1>5, <2>7, <2>8, <2>9 DEF IInv, Good, InTurn, ContextsOK, CommandsOK
<1>. QED BY <1>2, <1>6, <1>7 DEF Executed

(* A transfer ends: the device d is in the place of the old one, and the   *)
(* controller says so.                                                     *)
Ended(slot, d, request, ok) ==
  /\ xhc.dev[slot] \in Device /\ d \in Device
  /\ d.inPort = xhc.dev[slot].inPort /\ d.ctxPort = xhc.dev[slot].ctxPort
  /\ d.init = xhc.dev[slot].init /\ d.hid = xhc.dev[slot].hid /\ d.prev = xhc.dev[slot].prev
  /\ xhc' = [xhc EXCEPT !.dev = [xhc.dev EXCEPT ![slot] = d]]
  /\ PostEvent(Transfer(slot, request, ok)) /\ cmdAt' = cmdAt /\ slots' = slots

LEMMA EndedIs ==
  ASSUME IInv, NEW slot \in SlotId, xhc.dev[slot].alloc, NEW d,
         NEW request \in Request \cup {"Normal"}, NEW ok \in BOOLEAN, Ended(slot, d, request, ok)
  PROVE  /\ OnlyDevices(xhc, xhc') /\ xhc'.dev[slot] = d
         /\ \A i \in SlotId : i # slot => xhc'.dev[i] = xhc.dev[i]
         /\ Transfer(slot, request, ok) \in Event
<1>1. xhc \in XState
  BY DEF IInv, Good
<1>2. Transfer(slot, request, ok) \in Event
  BY DEF Event, Transfer
<1>. QED BY <1>1, <1>2, SetDevice DEF Ended

LEMMA FailIs ==
  ASSUME IInv, NEW slot \in SlotId, xhc.dev[slot].alloc,
         NEW ep \in {"control", "interrupt"}, NEW request,
         Fail(slot, ep, request), cmdAt' = cmdAt, slots' = slots
  PROVE  \E d : /\ Ended(slot, d, request, FALSE)
               /\ d.reads = xhc.dev[slot].reads /\ d.buf = xhc.dev[slot].buf
<1> DEFINE d == [xhc.dev[slot] EXCEPT !.halted = xhc.dev[slot].halted \cup {ep}]
<1>1. PostEvent(Transfer(slot, request, FALSE))
  BY DEF Fail
<1>2. xhc \in XState
  BY DEF IInv, Good
<1>3. xhc.dev[slot] \in Device
  BY <1>2, DeviceOf
<1>4. d \in Device /\ d.inPort = xhc.dev[slot].inPort /\ d.ctxPort = xhc.dev[slot].ctxPort
      /\ d.init = xhc.dev[slot].init /\ d.hid = xhc.dev[slot].hid /\ d.prev = xhc.dev[slot].prev
      /\ d.reads = xhc.dev[slot].reads /\ d.buf = xhc.dev[slot].buf
  <2>1. xhc.dev[slot].halted \cup {ep} \in SUBSET {"control", "interrupt"}
    BY <1>3 DEF Device
  <2>. QED BY <1>3, <2>1 DEF Device
<1>5. xhc' = [xhc EXCEPT !.dev = [xhc.dev EXCEPT ![slot] = d]]
  BY <1>2 DEF Fail, XState
<1> HIDE DEF d
<1>. QED BY <1>1, <1>3, <1>4, <1>5 DEF Ended

LEMMA CompleteControlIs ==
  ASSUME IInv, NEW slot \in SlotId, CompleteControl(slot)
  PROVE  /\ xhc.dev[slot].alloc
         /\ \E request \in Request, ok \in BOOLEAN : \E d :
              /\ Ended(slot, d, request, ok)
              /\ d.reads = xhc.dev[slot].reads /\ d.buf = xhc.dev[slot].buf
<1> DEFINE request == Head(xhc.dev[slot].ctl)
<1>1. xhc \in XState /\ xhc.dev[slot].alloc /\ xhc.dev[slot].ctl # <<>>
      /\ cmdAt' = cmdAt /\ slots' = slots
  BY DEF IInv, Good, CompleteControl
<1>2. xhc.dev[slot] \in Device
  BY <1>1, DeviceOf
<1>3. xhc.dev[slot].ctl \in Seq(Request)
  BY <1>2 DEF Device
<1>4. request \in Request
  BY <1>1, <1>3
<1>5. CASE Fail(slot, "control", request)
  <2> HIDE DEF request
  <2>. QED BY <1>1, <1>4, <1>5, FailIs
<1>6. CASE /\ xhc' = [xhc EXCEPT !.dev[slot].ctl = Tail(@)]
           /\ PostEvent(Transfer(slot, request, TRUE))
  <2>1. PICK rest \in Seq(Request) : rest = Tail(xhc.dev[slot].ctl)
    <3>1. Tail(xhc.dev[slot].ctl) \in Seq(Request)
      BY <1>1, <1>3
    <3>. QED BY <3>1
  <2> DEFINE d == [xhc.dev[slot] EXCEPT !.ctl = rest]
  <2>2. d \in Device /\ d.inPort = xhc.dev[slot].inPort /\ d.ctxPort = xhc.dev[slot].ctxPort
        /\ d.init = xhc.dev[slot].init /\ d.hid = xhc.dev[slot].hid /\ d.prev = xhc.dev[slot].prev
        /\ d.reads = xhc.dev[slot].reads /\ d.buf = xhc.dev[slot].buf
    BY <1>2 DEF Device
  <2>3. xhc' = [xhc EXCEPT !.dev = [xhc.dev EXCEPT ![slot] = d]]
    BY <1>1, <1>6, <2>1 DEF XState
  <2> HIDE DEF d, request
  <2>4. Ended(slot, d, request, TRUE)
    BY <1>1, <1>2, <1>6, <2>2, <2>3 DEF Ended
  <2>. QED BY <1>1, <1>4, <2>2, <2>4
<1>. QED BY Zenon, <1>5, <1>6 DEF CompleteControl

LEMMA CompleteInterruptIs ==
  ASSUME IInv, NEW slot \in SlotId, CompleteInterrupt(slot)
  PROVE  /\ xhc.dev[slot].alloc /\ xhc.dev[slot].reads > 0
         /\ \E d : \/ /\ Ended(slot, d, "Normal", FALSE)
                      /\ d.reads = xhc.dev[slot].reads /\ d.buf = xhc.dev[slot].buf
                   \/ /\ Ended(slot, d, "Normal", TRUE)
                      /\ d.reads = xhc.dev[slot].reads - 1
<1>1. xhc \in XState /\ xhc.dev[slot].alloc /\ xhc.dev[slot].reads > 0
      /\ cmdAt' = cmdAt /\ slots' = slots
  BY DEF IInv, Good, CompleteInterrupt
<1>2. xhc.dev[slot] \in Device
  BY <1>1, DeviceOf
<1>3. xhc.dev[slot].reads \in Nat
  BY <1>2 DEF Device
<1>4. CASE Fail(slot, "interrupt", "Normal")
  BY <1>1, <1>4, FailIs
<1>5. CASE /\ \E report \in SUBSET Keys :
                xhc' = [xhc EXCEPT !.dev[slot].reads = @ - 1, !.dev[slot].buf = report]
           /\ PostEvent(Transfer(slot, "Normal", TRUE))
  <2>1. PICK report \in SUBSET Keys :
          xhc' = [xhc EXCEPT !.dev[slot].reads = @ - 1, !.dev[slot].buf = report]
    BY <1>5
  <2>2. PICK n \in Nat : n = xhc.dev[slot].reads - 1
    BY <1>1, <1>3
  <2> DEFINE d == [xhc.dev[slot] EXCEPT !.reads = n, !.buf = report]
  <2>3. d \in Device /\ d.inPort = xhc.dev[slot].inPort /\ d.ctxPort = xhc.dev[slot].ctxPort
        /\ d.init = xhc.dev[slot].init /\ d.hid = xhc.dev[slot].hid /\ d.prev = xhc.dev[slot].prev
        /\ d.reads = n
    BY <1>2 DEF Device
  <2>4. xhc' = [xhc EXCEPT !.dev = [xhc.dev EXCEPT ![slot] = d]]
    BY <1>1, <2>1, <2>2 DEF XState
  <2> HIDE DEF d
  <2>5. Ended(slot, d, "Normal", TRUE)
    BY <1>1, <1>2, <1>5, <2>3, <2>4 DEF Ended
  <2>. QED BY <1>1, <2>2, <2>3, <2>5
<1>. QED BY Zenon, <1>4, <1>5 DEF CompleteInterrupt

LEMMA PlugIs ==
  ASSUME IInv, NEW p \in Port, Plug(p)
  PROVE  OnlyDevices(xhc, xhc') /\ xhc'.dev = xhc.dev
<1> DEFINE u == [xhc EXCEPT !.port[p].connected = TRUE]
<1>1. xhc \in XState /\ xhc' = Change(u, p, "csc")
  BY DEF IInv, Good, Plug
<1>2. [xhc.port EXCEPT ![p].connected = TRUE] \in [Port -> PortReg]
  <2>1. xhc.port \in [Port -> PortReg]
    BY <1>1 DEF XState
  <2>. QED BY <2>1 DEF PortReg
<1>3. u = [xhc EXCEPT !.port = [xhc.port EXCEPT ![p].connected = TRUE]]
  BY <1>1 DEF XState
<1>4. /\ u \in XState /\ u.phase = xhc.phase /\ u.addressing = xhc.addressing
      /\ u.addr = xhc.addr /\ u.cmd = xhc.cmd /\ u.queued = xhc.queued /\ u.dev = xhc.dev
  BY <1>1, <1>2, <1>3 DEF XState
<1> HIDE DEF u
<1>. QED BY <1>1, <1>4, ChangeIs DEF OnlyDevices, SamePorts, OnlyStarted

LEMMA PlugStep ==
  ASSUME IInv, NEW p \in Port, Plug(p)
  PROVE  IInv'
<1>1. Good(xhc')
  BY PlugIs, OnlyDevicesGood DEF IInv
<1>2. Around'
  BY DEF Plug, IInv, Around
<1>. QED BY <1>1, <1>2 DEF IInv, Good, InTurn, ContextsOK, CommandsOK

LEMMA UnplugIs ==
  ASSUME IInv, NEW p \in Port, Unplug(p)
  PROVE  /\ xhc' \in XState /\ xhc'.phase = xhc.phase /\ xhc'.addressing = xhc.addressing
         /\ xhc'.cmd = xhc.cmd /\ xhc'.queued = xhc.queued /\ xhc'.dev = xhc.dev
         /\ \A q \in Port : xhc'.addr[q] = IF q = p THEN "none" ELSE xhc.addr[q]
<1> DEFINE u == [xhc EXCEPT !.port[p].connected = FALSE, !.port[p].enabled = FALSE,
                            !.addr[p] = "none"]
           reg == [xhc.port EXCEPT ![p] = [xhc.port[p] EXCEPT !.connected = FALSE, !.enabled = FALSE]]
           ad == [xhc.addr EXCEPT ![p] = "none"]
<1>1. xhc \in XState /\ xhc' = Change(u, p, "csc")
  BY DEF IInv, Good, Unplug
<1>2. reg \in [Port -> PortReg]
  <2>1. xhc.port \in [Port -> PortReg]
    BY <1>1 DEF XState
  <2>. QED BY <2>1 DEF PortReg
<1>3. /\ ad \in [Port -> {"none", "default", "own"}]
      /\ \A q \in Port : ad[q] = IF q = p THEN "none" ELSE xhc.addr[q]
  BY <1>1 DEF XState
<1>4. u = [xhc EXCEPT !.port = reg, !.addr = ad]
  BY <1>1 DEF XState
<1> HIDE DEF reg, ad
<1>5. /\ u \in XState /\ u.phase = xhc.phase /\ u.addressing = xhc.addressing
      /\ u.addr = ad /\ u.cmd = xhc.cmd /\ u.queued = xhc.queued /\ u.dev = xhc.dev
  BY <1>1, <1>2, <1>3, <1>4 DEF XState
<1> HIDE DEF u
<1>6. /\ xhc' \in XState /\ xhc'.phase = xhc.phase /\ xhc'.addressing = xhc.addressing
      /\ xhc'.addr = ad /\ xhc'.cmd = xhc.cmd /\ xhc'.queued = xhc.queued /\ xhc'.dev = xhc.dev
  BY <1>1, <1>5, ChangeIs
<1>. QED BY <1>3, <1>6

LEMMA UnplugStep ==
  ASSUME IInv, NEW p \in Port, Unplug(p)
  PROVE  IInv'
<1>1. xhc \in XState /\ Good(xhc)
  BY DEF IInv, Good
<1>2. /\ xhc' \in XState /\ xhc'.phase = xhc.phase /\ xhc'.addressing = xhc.addressing
      /\ xhc'.cmd = xhc.cmd /\ xhc'.dev = xhc.dev
      /\ \A q \in Port : xhc'.addr[q] = IF q = p THEN "none" ELSE xhc.addr[q]
  BY UnplugIs
<1>3. SamePorts(xhc, xhc') /\ Forward(xhc, xhc')
  BY <1>2 DEF SamePorts, Forward
<1>4. InTurn(xhc')
  BY <1>1, <1>2 DEF Good, InTurn
<1>5. ContextsOK(xhc') /\ CommandsOK(xhc')
  BY <1>1, <1>2, <1>3, ContextsKept, CommandsKept DEF Good
<1>6. Around'
  BY DEF Unplug, IInv, Around
<1>. QED BY <1>2, <1>4, <1>5, <1>6 DEF IInv, Good, InTurn, ContextsOK, CommandsOK

LEMMA IInvStep == IInv /\ [Next]_vars => IInv'
<1> SUFFICES ASSUME IInv, [Next]_vars PROVE IInv'
  OBVIOUS
<1>1. CASE UNCHANGED vars
  BY <1>1 DEF vars, IInv, Around, Good, InTurn, ContextsOK, CommandsOK
<1>2. ASSUME NEW p \in Port, PostPortEvent(p) PROVE IInv'
  BY <1>2, PostPortEventIs, PostingStep
<1>3. ASSUME NEW slot \in SlotId, xhc.dev[slot].alloc, NEW d, NEW ok \in BOOLEAN,
             NEW request \in Request \cup {"Normal"}, Ended(slot, d, request, ok)
      PROVE  IInv'
  <2>1. OnlyDevices(xhc, xhc') /\ Transfer(slot, request, ok) \in Event
    BY <1>3, EndedIs
  <2>. QED BY <1>3, <2>1, PostingStep DEF Ended
<1>4. ASSUME NEW slot \in SlotId, CompleteControl(slot) PROVE IInv'
  BY <1>3, <1>4, CompleteControlIs
<1>5. ASSUME NEW slot \in SlotId, CompleteInterrupt(slot) PROVE IInv'
  BY <1>3, <1>5, CompleteInterruptIs
<1>6. CASE Next
  BY <1>2, <1>4, <1>5, <1>6, InitializePortStep, ProcessEventStep, ExecuteCommandStep,
     PlugStep, UnplugStep DEF Next
<1>. QED BY <1>1, <1>6

(* Never two devices answer to the default address: from the reset of a    *)
(* port until its device has an address of its own no other port is reset, *)
(* for every number of ports and slots and whatever is plugged, unplugged  *)
(* or fails meanwhile; addressing_port names that port.                    *)
THEOREM OneAtATime == Spec => []OneAtDefaultAddress
<1>1. IInv => OneAtDefaultAddress
  <2> SUFFICES ASSUME IInv PROVE OneAtDefaultAddress
    OBVIOUS
  <2>1. xhc \in XState /\ InTurn(xhc)
    BY DEF IInv, Good
  <2>2. \A p, q \in Port : xhc.addr[p] = "default" /\ xhc.addr[q] = "default" => p = q
    BY <2>1 DEF InTurn
  <2>3. {p \in Port : xhc.phase[p] \in InSequence} = {xhc.addressing} \ {0}
    <3>1. xhc.addressing \in 0..MaxPorts
      BY <2>1 DEF XState
    <3>2. \A q \in 0..MaxPorts : q # 0 <=> q \in Port
      BY Sizes DEF Port
    <3>3. \A q \in Port : q \in 0..MaxPorts
      BY Sizes DEF Port
    <3>. QED BY <2>1, <3>1, <3>2, <3>3 DEF InTurn
  <2>. QED BY <2>2, <2>3 DEF OneAtDefaultAddress, InSequence
<1>. QED BY <1>1, InitIInv, IInvStep, PTL DEF Spec

-----------------------------------------------------------------------------
(* The rings.  Without a remainder: the place i of a ring that goes round  *)
(* after k entries is Ahead(i, j, k) steps ahead of the place j.           *)
Ahead(i, j, k) == IF i >= j THEN i - j ELSE i - j + k
Step(i, n, k) == IF i + n < k THEN i + n ELSE i + n - k

(* The ring r, used up to entry k, holds the queue for the consumer c.     *)
Holds(r, c, k, queue) ==
  /\ c.index \in 0..(k - 1) /\ Len(queue) <= k
  /\ r.index = Step(c.index, Len(queue), k)
  /\ c.index + Len(queue) < k => r.cycle = c.cycle
  /\ c.index + Len(queue) >= k => r.cycle = ~c.cycle
  /\ \A i \in 0..(k - 1) :
       IF Ahead(i, c.index, k) < Len(queue)
       THEN /\ r.buf[i].trb = queue[Ahead(i, c.index, k) + 1]
            /\ r.buf[i].cycle = IF i >= c.index THEN c.cycle ELSE ~c.cycle
       ELSE r.buf[i].cycle = IF i >= c.index THEN ~c.cycle ELSE c.cycle

(* The link entry is new to the controller when the driver is a round      *)
(* ahead of it.                                                            *)
LinkOK(r, c) ==
  r.cycle = ~c.cycle => r.buf[CmdSize - 1] = [trb |-> LinkTRB, cycle |-> c.cycle]

(* A command that is not handled to its end is on its way for one port.    *)
Owner(s, c) == IF c.type = "ConfigureEndpoint" THEN s.dev[c.slot].ctxPort ELSE s.addressing
Busy == {"EnablingSlot", "AddressingDevice", "ConfiguringEndpoints"}
PhaseOf(c) ==
  IF c.type = "EnableSlot" THEN "EnablingSlot"
  ELSE IF c.type = "AddressDevice" THEN "AddressingDevice" ELSE "ConfiguringEndpoints"

Span == CmdSize - 1
Live(w, n) == {i \in 0..(Span - 1) : Ahead(i, w, Span) < n}

Claims(s, L) ==
  /\ \A i \in L : LET c == s.cmd.buf[i].trb
                  IN  /\ c \in Command /\ Owner(s, c) \in Port
                      /\ s.phase[Owner(s, c)] = PhaseOf(c)
                      /\ c.type = "ConfigureEndpoint" => s.dev[c.slot].alloc
  /\ \A i, j \in L : Owner(s, s.cmd.buf[i].trb) = Owner(s, s.cmd.buf[j].trb) => i = j

(* The completions the driver has not seen, in order, from the place w on. *)
Done(q) == {i \in 1..Len(q) : q[i].type = "CommandCompletion"}

Trail(q, w, m) ==
  /\ \A i \in Done(q) : q[i].at \in 0..(Span - 1) /\ Ahead(q[i].at, w, Span) < m
  /\ \A i, j \in Done(q) : i < j => Ahead(q[i].at, w, Span) < Ahead(q[j].at, w, Span)
  /\ \A a \in 0..(m - 1) : \E i \in Done(q) : Ahead(q[i].at, w, Span) = a

(* What the completions say of slots.                                      *)
AnswersOK(s, q, sl) ==
  \A i \in Done(q) :
    LET c == s.cmd.buf[q[i].at].trb
    IN  /\ c.type = "EnableSlot" => q[i].slot = 0 \/ (q[i].slot \in sl /\ ~s.dev[q[i].slot].alloc)
        /\ c.type = "ConfigureEndpoint" => q[i].slot = c.slot

SlotsOK(s, sl) ==
  /\ \A i \in SlotId : s.dev[i].alloc => /\ i # 0 => i \in sl
                                         /\ s.dev[i].init # 0 => s.dev[i].ctxPort # 0
  /\ \A j \in 1..Len(s.queued) : s.queued[j].type = "AddressDevice" =>
       \/ s.queued[j].slot = 0
       \/ s.dev[s.queued[j].slot].alloc /\ s.dev[s.queued[j].slot].ctxPort = 0

(* The commands that are not handled to their end: m of them executed, the *)
(* first at the place w.                                                   *)
Places(s, w, m) == Live(w, m + Len(s.queued))

Orderly(s, c, q, sl, w, m) ==
  /\ Holds(s.cmd, c, Span, s.queued) /\ LinkOK(s.cmd, c)
  /\ w \in 0..(Span - 1) /\ m \in Nat /\ m + Len(s.queued) <= Span /\ c.index = Step(w, m, Span)
  /\ Trail(q, w, m) /\ Claims(s, Places(s, w, m))
  /\ AnswersOK(s, q, sl) /\ SlotsOK(s, sl)

EventsOK ==
  posted \in Seq(Event) /\ Len(posted) < EvtSize /\ Holds(evt, evtAt, EvtSize, posted)

RInv ==
  /\ EventsOK
  /\ \E w \in 0..(Span - 1), m \in 0..Span : Orderly(xhc, cmdAt, posted, slots, w, m)

-----------------------------------------------------------------------------
Bits(r, k) == r.cycle \in BOOLEAN /\ \A i \in 0..(k - 1) : r.buf[i].cycle \in BOOLEAN

LEMMA AheadIs ==
  ASSUME NEW k \in Nat, NEW i \in 0..(k - 1), NEW j \in 0..(k - 1)
  PROVE  Ahead(i, j, k) \in 0..(k - 1) /\ Step(j, Ahead(i, j, k), k) = i
BY DEF Ahead, Step

LEMMA HoldsFront ==
  ASSUME NEW k \in Nat, NEW r, NEW c, NEW queue, Len(queue) \in Nat, c.cycle \in BOOLEAN,
         Holds(r, c, k, queue)
  PROVE  /\ r.buf[c.index].cycle = c.cycle <=> Len(queue) > 0
         /\ Len(queue) > 0 => r.buf[c.index].trb = queue[1]
<1>1. c.index \in 0..(k - 1)
  BY DEF Holds
<1>2. Ahead(c.index, c.index, k) = 0
  BY <1>1 DEF Ahead
<1>3. IF 0 < Len(queue)
      THEN r.buf[c.index].trb = queue[0 + 1] /\ r.buf[c.index].cycle = c.cycle
      ELSE r.buf[c.index].cycle = ~c.cycle
  BY <1>1, <1>2 DEF Holds
<1>. QED BY <1>3

(* What the producer adds.                                                 *)
LEMMA HoldsPut ==
  ASSUME NEW k \in Nat, NEW r, NEW c, NEW S, NEW queue \in Seq(S), NEW x \in S,
         c.cycle \in BOOLEAN, Bits(r, k), Holds(r, c, k, queue), Len(queue) < k,
         NEW t, r.index + 1 < k => t.index = r.index + 1 /\ t.cycle = r.cycle,
         r.index + 1 >= k => t.index = 0 /\ t.cycle = ~r.cycle,
         \A i \in 0..(k - 1) : t.buf[i] = IF i = r.index THEN [trb |-> x, cycle |-> r.cycle]
                                                        ELSE r.buf[i]
  PROVE  Holds(t, c, k, Append(queue, x))
<1> DEFINE n == Len(queue)
           q == Append(queue, x)
           a == c.index
<1>1. n \in Nat /\ Len(q) = n + 1 /\ q[n + 1] = x /\ \A j \in 1..n : q[j] = queue[j]
  OBVIOUS
<1>2. a \in 0..(k - 1) /\ n < k /\ r.index = Step(a, n, k)
      /\ (a + n < k => r.cycle = c.cycle) /\ (a + n >= k => r.cycle = ~c.cycle)
  BY DEF Holds
<1> HIDE DEF n, q, a
<1>3. r.index \in 0..(k - 1) /\ Ahead(r.index, a, k) = n
  BY <1>1, <1>2 DEF Step, Ahead
<1>4. t.index = Step(a, n + 1, k)
  BY <1>1, <1>2, <1>3 DEF Step
<1>5. (a + (n + 1) < k => t.cycle = c.cycle) /\ (a + (n + 1) >= k => t.cycle = ~c.cycle)
  BY <1>1, <1>2, <1>3 DEF Step
<1>6. ASSUME NEW i \in 0..(k - 1)
      PROVE  IF Ahead(i, a, k) < n + 1
             THEN /\ t.buf[i].trb = q[Ahead(i, a, k) + 1]
                  /\ t.buf[i].cycle = IF i >= a THEN c.cycle ELSE ~c.cycle
             ELSE t.buf[i].cycle = IF i >= a THEN ~c.cycle ELSE c.cycle
  <2>1. CASE i = r.index
    <3>1. t.buf[i] = [trb |-> x, cycle |-> r.cycle] /\ Ahead(i, a, k) = n
      BY <1>3, <2>1
    <3>2. r.cycle = IF i >= a THEN c.cycle ELSE ~c.cycle
      BY <1>1, <1>2, <2>1 DEF Step
    <3>. QED BY <1>1, <3>1, <3>2
  <2>2. CASE i # r.index
    <3>1. t.buf[i] = r.buf[i]
      BY <2>2
    <3>2. Ahead(i, a, k) # n /\ Ahead(i, a, k) \in 0..(k - 1)
      BY <1>1, <1>2, <2>2 DEF Ahead, Step
    <3>3. IF Ahead(i, a, k) < n
          THEN /\ r.buf[i].trb = queue[Ahead(i, a, k) + 1]
               /\ r.buf[i].cycle = IF i >= a THEN c.cycle ELSE ~c.cycle
          ELSE r.buf[i].cycle = IF i >= a THEN ~c.cycle ELSE c.cycle
      BY DEF Holds, n, a
    <3>4. PICK b \in 0..(k - 1) : b = Ahead(i, a, k)
      BY <3>2
    <3>5. b < n => queue[b + 1] = q[b + 1]
      BY <1>1
    <3>6. b < n <=> b < n + 1
      BY <1>1, <3>2, <3>4
    <3>. QED BY <3>1, <3>3, <3>4, <3>5, <3>6
  <2>. QED BY <2>1, <2>2
<1>7. Holds(t, c, k, q)
  <2>1. n + 1 = Len(q) /\ c.index = a
    BY <1>1 DEF a
  <2>2. c.index \in 0..(k - 1) /\ Len(q) <= k
    BY <1>1, <1>2, <2>1
  <2>3. \A i \in 0..(k - 1) :
          IF Ahead(i, c.index, k) < Len(q)
          THEN /\ t.buf[i].trb = q[Ahead(i, c.index, k) + 1]
               /\ t.buf[i].cycle = IF i >= c.index THEN c.cycle ELSE ~c.cycle
          ELSE t.buf[i].cycle = IF i >= c.index THEN ~c.cycle ELSE c.cycle
    BY ONLY <1>6, <2>1, Zenon
  <2>4. /\ t.index = Step(c.index, Len(q), k)
        /\ c.index + Len(q) < k => t.cycle = c.cycle
        /\ c.index + Len(q) >= k => t.cycle = ~c.cycle
    BY ONLY <1>4, <1>5, <2>1, Zenon
  <2>. QED BY ONLY <2>2, <2>3, <2>4, Zenon DEF Holds
<1>. QED BY <1>7 DEF q

(* What the consumer takes.                                                *)
LEMMA HoldsTake ==
  ASSUME NEW k \in Nat, NEW r, NEW c, NEW S, NEW queue \in Seq(S), Len(queue) > 0,
         c.cycle \in BOOLEAN, Bits(r, k), Holds(r, c, k, queue),
         NEW t, t.index = r.index, t.cycle = r.cycle,
         \A i \in 0..(k - 1) : /\ t.buf[i].cycle = r.buf[i].cycle
                               /\ i # c.index => t.buf[i].trb = r.buf[i].trb,
         NEW d, c.index + 1 < k => d.index = c.index + 1 /\ d.cycle = c.cycle,
         c.index + 1 >= k => d.index = 0 /\ d.cycle = ~c.cycle
  PROVE  Holds(t, d, k, Tail(queue))
<1> DEFINE n == Len(queue)
           q == Tail(queue)
           a == c.index
           b == d.index
<1>1. n \in Nat /\ n > 0 /\ Len(q) = n - 1 /\ \A j \in 1..(n - 1) : q[j] = queue[j + 1]
  OBVIOUS
<1>2. a \in 0..(k - 1) /\ n <= k /\ r.index = Step(a, n, k)
      /\ (a + n < k => r.cycle = c.cycle) /\ (a + n >= k => r.cycle = ~c.cycle)
  BY DEF Holds
<1>3. (a + 1 < k => b = a + 1 /\ d.cycle = c.cycle) /\ (a + 1 >= k => b = 0 /\ d.cycle = ~c.cycle)
  OBVIOUS
<1> HIDE DEF n, q, a, b
<1>4. b \in 0..(k - 1) /\ t.index = Step(b, n - 1, k)
  BY <1>1, <1>2, <1>3 DEF Step
<1>5. (b + (n - 1) < k => t.cycle = d.cycle) /\ (b + (n - 1) >= k => t.cycle = ~d.cycle)
  BY <1>1, <1>2, <1>3
<1>6. ASSUME NEW i \in 0..(k - 1)
      PROVE  IF Ahead(i, b, k) < n - 1
             THEN /\ t.buf[i].trb = q[Ahead(i, b, k) + 1]
                  /\ t.buf[i].cycle = IF i >= b THEN d.cycle ELSE ~d.cycle
             ELSE t.buf[i].cycle = IF i >= b THEN ~d.cycle ELSE d.cycle
  <2>0. IF Ahead(i, a, k) < n
        THEN /\ r.buf[i].trb = queue[Ahead(i, a, k) + 1]
             /\ r.buf[i].cycle = IF i >= a THEN c.cycle ELSE ~c.cycle
        ELSE r.buf[i].cycle = IF i >= a THEN ~c.cycle ELSE c.cycle
    BY DEF Holds, n, a
  <2>1. CASE i = a
    <3>1. Ahead(i, b, k) = k - 1 /\ Ahead(i, a, k) = 0
      BY <1>2, <1>3, <2>1 DEF Ahead
    <3>2. t.buf[i].cycle = c.cycle
      BY <1>1, <2>0, <2>1, <3>1
    <3>3. ~ (k - 1 < n - 1)
      BY <1>1, <1>2
    <3>4. c.cycle = IF i >= b THEN ~d.cycle ELSE d.cycle
      <4>1. CASE a + 1 < k
        <5>1. ~ (i >= b) /\ d.cycle = c.cycle
          BY <1>2, <1>3, <2>1, <4>1
        <5>. QED BY <5>1
      <4>2. CASE a + 1 >= k
        <5>1. i >= b /\ d.cycle = ~c.cycle
          BY <1>2, <1>3, <2>1, <4>2
        <5>. QED BY <5>1
      <4>. QED BY <1>2, <4>1, <4>2
    <3>. QED BY <3>1, <3>2, <3>3, <3>4
  <2>2. CASE i # a
    <3>1. t.buf[i].trb = r.buf[i].trb /\ t.buf[i].cycle = r.buf[i].cycle
      BY <2>2 DEF a
    <3>2. Ahead(i, a, k) = Ahead(i, b, k) + 1 /\ Ahead(i, b, k) \in 0..(k - 1)
      <4>1. CASE a + 1 < k
        <5>1. b = a + 1
          BY <1>3, <4>1
        <5>. QED BY <1>2, <2>2, <4>1, <5>1 DEF Ahead
      <4>2. CASE a + 1 >= k
        <5>1. b = 0 /\ a = k - 1 /\ ~ (i >= a) /\ i >= b
          BY <1>2, <1>3, <2>2, <4>2
        <5>2. Ahead(i, a, k) = i - a + k /\ Ahead(i, b, k) = i - b
          BY <5>1 DEF Ahead
        <5>. QED BY <5>1, <5>2
      <4>. QED BY <1>2, <4>1, <4>2
    <3>3. PICK e \in 0..(k - 1) : e = Ahead(i, b, k)
      BY <3>2
    <3>4. /\ (IF i >= a THEN c.cycle ELSE ~c.cycle) = (IF i >= b THEN d.cycle ELSE ~d.cycle)
          /\ (IF i >= a THEN ~c.cycle ELSE c.cycle) = (IF i >= b THEN ~d.cycle ELSE d.cycle)
      <4>1. CASE a + 1 < k
        <5>1. (i >= a <=> i >= b) /\ d.cycle = c.cycle
          BY <1>2, <1>3, <2>2, <4>1
        <5>. QED BY <5>1
      <4>2. CASE a + 1 >= k
        <5>1. ~ (i >= a) /\ i >= b /\ d.cycle = ~c.cycle
          BY <1>2, <1>3, <2>2, <4>2
        <5>. QED BY <5>1
      <4>. QED BY <1>2, <4>1, <4>2
    <3>5. e < n - 1 => q[e + 1] = queue[(e + 1) + 1]
      BY <1>1
    <3>6. e < n - 1 <=> e + 1 < n
      BY <1>1
    <3>. QED BY <2>0, <3>1, <3>2, <3>3, <3>4, <3>5, <3>6
  <2>. QED BY <2>1, <2>2
<1>7. Holds(t, d, k, q)
  BY <1>1, <1>2, <1>4, <1>5, <1>6 DEF Holds, b
<1>. QED BY <1>7 DEF q

LEMMA OneRound ==
  ASSUME NEW k \in Nat, NEW x \in Nat, x < 2 * k
  PROVE  /\ x < k => x % k = x /\ x \div k = 0
         /\ x >= k => x % k = x - k /\ x \div k = 1
OBVIOUS

(* What is held is what the property says.                                 *)
LEMMA HoldsShows ==
  ASSUME NEW k \in Nat, NEW r, NEW c, NEW S, NEW queue \in Seq(S), c.cycle \in BOOLEAN,
         Bits(r, k), Holds(r, c, k, queue)
  PROVE  Shows(r, c, k, queue)
<1> DEFINE n == Len(queue)
           a == c.index
           At(j) == (a + j) % k
           Expected(j) == IF ((a + j) \div k) % 2 = 0 THEN c.cycle ELSE ~c.cycle
<1>1. n \in Nat /\ a \in 0..(k - 1) /\ n <= k
  BY DEF Holds
<1>2. ASSUME NEW j \in 0..(k - 1)
      PROVE  /\ At(j) = Step(a, j, k) /\ At(j) \in 0..(k - 1) /\ Ahead(At(j), a, k) = j
             /\ Expected(j) = IF At(j) >= a THEN c.cycle ELSE ~c.cycle
  <2> HIDE DEF a
  <2>0. PICK x \in Nat : x = a + j /\ x < 2 * k
    BY <1>1
  <2>1. CASE x < k
    <3>1. x % k = x /\ x \div k = 0
      BY <2>0, <2>1, OneRound
    <3>2. At(j) = x /\ Expected(j) = c.cycle
      BY <2>0, <3>1
    <3> HIDE DEF At, Expected
    <3>. QED BY <1>1, <2>0, <2>1, <3>2 DEF Step, Ahead
  <2>2. CASE x >= k
    <3>1. x % k = x - k /\ x \div k = 1
      BY <2>0, <2>2, OneRound
    <3>2. At(j) = x - k /\ Expected(j) = ~c.cycle
      BY <2>0, <3>1
    <3> HIDE DEF At, Expected
    <3>. QED BY <1>1, <2>0, <2>2, <3>2 DEF Step, Ahead
  <2>. QED BY <2>0, <2>1, <2>2
<1>3. \A i \in 0..(k - 1) :
       IF Ahead(i, a, k) < n
       THEN /\ r.buf[i].trb = queue[Ahead(i, a, k) + 1]
            /\ r.buf[i].cycle = IF i >= a THEN c.cycle ELSE ~c.cycle
       ELSE r.buf[i].cycle = IF i >= a THEN ~c.cycle ELSE c.cycle
  BY DEF Holds
<1>4. a < k
  BY <1>1
<1>5. Shows(r, c, k, queue) <=>
        /\ a < k
        /\ \A j \in 1..n : r.buf[At(j - 1)].trb = queue[j] /\ r.buf[At(j - 1)].cycle = Expected(j - 1)
        /\ n < k => r.buf[At(n)].cycle # Expected(n)
  BY DEF Shows
<1> HIDE DEF n, a, At, Expected
<1>6. ASSUME NEW j \in 1..n
      PROVE  r.buf[At(j - 1)].trb = queue[j] /\ r.buf[At(j - 1)].cycle = Expected(j - 1)
  <2>1. PICK b \in 0..(k - 1) : b = j - 1 /\ b < n /\ j = b + 1
    BY <1>1
  <2>2. PICK i \in 0..(k - 1) : i = At(b) /\ Ahead(i, a, k) = b
    BY <1>2
  <2>3. Expected(b) = IF i >= a THEN c.cycle ELSE ~c.cycle
    BY <1>2, <2>2
  <2>4. r.buf[i].trb = queue[b + 1] /\ r.buf[i].cycle = IF i >= a THEN c.cycle ELSE ~c.cycle
    BY <1>3, <2>1, <2>2
  <2>. QED BY <2>1, <2>2, <2>3, <2>4
<1>7. ASSUME n < k
      PROVE  r.buf[At(n)].cycle # Expected(n)
  <2>1. n \in 0..(k - 1)
    BY <1>1, <1>7
  <2>2. PICK i \in 0..(k - 1) : i = At(n) /\ Ahead(i, a, k) = n
    BY <1>2, <2>1
  <2>3. Expected(n) = IF i >= a THEN c.cycle ELSE ~c.cycle
    BY <1>2, <2>1, <2>2
  <2>4. r.buf[i].cycle = IF i >= a THEN ~c.cycle ELSE c.cycle
    BY <1>1, <1>3, <2>2
  <2>. QED BY <2>2, <2>3, <2>4
<1>. QED BY <1>4, <1>5, <1>6, <1>7

-----------------------------------------------------------------------------
LEMMA SpanIs == Span \in Nat /\ Span >= 1 /\ MaxPorts <= Span /\ Span - 1 = CmdSize - 2
BY XhciAssumption DEF Span

LEMMA StepNext ==
  ASSUME NEW k \in Nat, NEW w \in 0..(k - 1)
  PROVE  /\ Step(w, 1, k) \in 0..(k - 1)
         /\ \A m \in 0..k : m > 0 => Step(Step(w, 1, k), m - 1, k) = Step(w, m, k)
         /\ \A i \in 0..(k - 1) : i # w => Ahead(i, Step(w, 1, k), k) = Ahead(i, w, k) - 1
         /\ Ahead(w, Step(w, 1, k), k) = k - 1
BY DEF Ahead, Step

LEMMA StepTwice ==
  ASSUME NEW k \in Nat, NEW w \in 0..(k - 1), NEW m \in Nat, NEW n \in Nat, m + n < k
  PROVE  Step(Step(w, m, k), n, k) = Step(w, m + n, k)
BY DEF Step

LEMMA AheadStep ==
  ASSUME NEW k \in Nat, NEW w \in 0..(k - 1), NEW n \in Nat, n < k
  PROVE  Step(w, n, k) \in 0..(k - 1) /\ Ahead(Step(w, n, k), w, k) = n
BY DEF Ahead, Step

LEMMA LiveNext ==
  ASSUME NEW w \in 0..(Span - 1), NEW n \in Nat, n < Span
  PROVE  LET k == Step(w, n, Span)
         IN  k \in 0..(Span - 1) /\ k \notin Live(w, n) /\ Live(w, n + 1) = Live(w, n) \cup {k}
<1>1. PICK k : k = Step(w, n, Span)
  OBVIOUS
<1>2. k \in 0..(Span - 1) /\ Ahead(k, w, Span) = n
  BY <1>1, SpanIs, AheadStep
<1>3. \A i \in 0..(Span - 1) : /\ Ahead(i, w, Span) \in 0..(Span - 1)
                               /\ Ahead(i, w, Span) = n => i = k
  BY <1>1, SpanIs, AheadIs
<1>4. \A i \in 0..(Span - 1) : Ahead(i, w, Span) < n + 1 <=> Ahead(i, w, Span) < n \/ i = k
  BY <1>2, <1>3
<1>. QED BY <1>1, <1>2, <1>4 DEF Live

(* No command on its way is for port p.                                    *)
Free(s, L, p) == \A i \in L : Owner(s, s.cmd.buf[i].trb) # p

LEMMA ClaimsKept ==
  ASSUME NEW s, NEW t, NEW L, Claims(s, L),
         \A i \in L : LET c == s.cmd.buf[i].trb
                      IN  /\ t.cmd.buf[i].trb = c /\ Owner(t, c) = Owner(s, c)
                          /\ t.phase[Owner(s, c)] = s.phase[Owner(s, c)]
                          /\ c.type = "ConfigureEndpoint" /\ s.dev[c.slot].alloc =>
                               t.dev[c.slot].alloc
  PROVE  Claims(t, L)
BY SMTT(60) DEF Claims

(* With every place taken every port has its command.                      *)
LEMMA NotFull ==
  ASSUME NEW s, NEW w \in 0..(Span - 1), NEW n \in Nat, n <= Span, Claims(s, Live(w, n)),
         NEW p \in Port, Free(s, Live(w, n), p)
  PROVE  n < Span
<1> SUFFICES ASSUME n = Span PROVE FALSE
  BY SpanIs
<1> DEFINE D == 0..(Span - 1)
           T == Port \ {p}
           f == [i \in D |-> Owner(s, s.cmd.buf[i].trb)]
<1>1. Live(w, n) = D
  <2>1. \A i \in D : Ahead(i, w, Span) \in 0..(Span - 1)
    BY SpanIs, AheadIs
  <2>2. \A i \in D : Ahead(i, w, Span) < n
    BY <2>1, SpanIs
  <2>. QED BY <2>2 DEF Live
<1>2. f \in Injection(D, T)
  <2>1. \A i \in D : f[i] \in T
    BY <1>1 DEF Claims, Free
  <2>2. \A i, j \in D : f[i] = f[j] => i = j
    BY <1>1 DEF Claims
  <2> HIDE DEF D, T
  <2>3. f \in [D -> T]
    BY <2>1
  <2>. QED BY <2>2, <2>3 DEF Injection, IsInjective
<1>3. IsFiniteSet(D) /\ Cardinality(D) = Span
  <2>1. 0 \in Int /\ Span - 1 \in Int /\ ~ (0 > Span - 1) /\ Span - 1 - 0 + 1 = Span
    BY SpanIs
  <2>. QED BY <2>1, FS_Interval
<1>4. IsFiniteSet(Port) /\ Cardinality(Port) = MaxPorts
  <2>1. 1 \in Int /\ MaxPorts \in Int /\ ~ (1 > MaxPorts) /\ MaxPorts - 1 + 1 = MaxPorts
    BY Sizes
  <2>. QED BY <2>1, FS_Interval DEF Port
<1>5. IsFiniteSet(T) /\ Cardinality(T) = MaxPorts - 1
  BY <1>4, FS_RemoveElement
<1> HIDE DEF D, T, f
<1>6. Cardinality(D) <= Cardinality(T)
  BY <1>2, <1>5, FS_Injection
<1>. QED BY <1>3, <1>5, <1>6, SpanIs, Sizes

(* A handler that gives no command, and touches no port a command is for.  *)
LEMMA CalmOrderly ==
  ASSUME NEW s \in XState, NEW t \in XState, NEW c, NEW q, NEW sl, NEW w, NEW m,
         Orderly(s, c, q, sl, w, m), SamePorts(s, t), OnlyStarted(s, t),
         t.cmd = s.cmd, t.queued = s.queued,
         \A p \in Port : s.phase[p] \in Busy => \/ t.phase[p] = s.phase[p]
                                               \/ Free(s, Places(s, w, m), p),
         t.addressing = s.addressing \/ Free(s, Places(s, w, m), s.addressing),
         \A i \in Done(q) : q[i].slot \in SlotId
  PROVE  Orderly(t, c, q, sl, w, m) /\ Places(t, w, m) = Places(s, w, m)
<1> DEFINE L == Places(s, w, m)
<1>1. Places(t, w, m) = L
  BY DEF Places
<1>2. Claims(s, L)
  BY DEF Orderly
<1>3. Claims(t, L)
  <2> SUFFICES ASSUME NEW i \in L, NEW b, b = s.cmd.buf[i].trb
               PROVE  /\ Owner(t, b) = Owner(s, b) /\ t.phase[Owner(s, b)] = s.phase[Owner(s, b)]
                      /\ b.type = "ConfigureEndpoint" => t.dev[b.slot].alloc
    BY SMTT(60), <1>2, ClaimsKept
  <2>1. /\ b \in Command /\ Owner(s, b) \in Port /\ s.phase[Owner(s, b)] = PhaseOf(b)
        /\ b.type = "ConfigureEndpoint" => s.dev[b.slot].alloc
    BY <1>2 DEF Claims
  <2>2. ~ Free(s, L, Owner(s, b))
    BY DEF Free
  <2>3. PhaseOf(b) \in Busy
    BY DEF PhaseOf, Busy
  <2>4. t.phase[Owner(s, b)] = s.phase[Owner(s, b)]
    BY <2>1, <2>2, <2>3
  <2>5. b.slot \in SlotId
    BY <2>1 DEF Command
  <2>6. Owner(t, b) = Owner(s, b) /\ (b.type = "ConfigureEndpoint" => t.dev[b.slot].alloc)
    BY <2>1, <2>2, <2>5 DEF SamePorts, Owner
  <2>. QED BY <2>4, <2>6
<1>4. AnswersOK(t, q, sl)
  BY DEF Orderly, AnswersOK, SamePorts
<1>5. SlotsOK(t, sl)
  <2>1. ASSUME NEW i \in SlotId, t.dev[i].alloc
        PROVE  (i # 0 => i \in sl) /\ (t.dev[i].init # 0 => t.dev[i].ctxPort # 0)
    <3>1. s.dev[i].alloc /\ t.dev[i].ctxPort = s.dev[i].ctxPort
      BY <2>1 DEF SamePorts
    <3>. QED BY <3>1 DEF Orderly, SlotsOK, OnlyStarted
  <2>2. ASSUME NEW j \in 1..Len(s.queued), s.queued[j].type = "AddressDevice"
        PROVE  \/ s.queued[j].slot = 0
               \/ t.dev[s.queued[j].slot].alloc /\ t.dev[s.queued[j].slot].ctxPort = 0
    <3>1. s.queued[j] \in Command
      BY DEF XState
    <3>2. s.queued[j].slot \in SlotId
      BY <3>1 DEF Command
    <3>. QED BY <2>2, <3>2 DEF Orderly, SlotsOK, SamePorts
  <2>. QED BY <2>1, <2>2 DEF SlotsOK
<1>. QED BY <1>1, <1>3, <1>4, <1>5 DEF Orderly

(* The command of a completion is not handled to its end.                  *)
LEMMA DoneInPlaces ==
  ASSUME NEW s \in XState, NEW c, NEW q, NEW sl, NEW w, NEW m, Orderly(s, c, q, sl, w, m),
         NEW i \in Done(q)
  PROVE  q[i].at \in Places(s, w, m)
<1> DEFINE n == Len(s.queued)
<1>1. n \in Nat
  BY DEF XState
<1>2. w \in 0..(Span - 1) /\ m \in Nat
  BY DEF Orderly
<1>3. q[i].at \in 0..(Span - 1) /\ Ahead(q[i].at, w, Span) < m
  BY DEF Orderly, Trail
<1>4. Ahead(q[i].at, w, Span) \in 0..(Span - 1)
  BY <1>2, <1>3, SpanIs, AheadIs
<1>5. Ahead(q[i].at, w, Span) < m + n
  <2> HIDE DEF n
  <2>. QED BY <1>1, <1>2, <1>3, <1>4
<1>. QED BY <1>3, <1>5 DEF Places, Live

(* A command for a port that has none.                                     *)
LEMMA PushOrderly ==
  ASSUME NEW s \in XState, NEW c, c.cycle \in BOOLEAN, NEW q, NEW sl, NEW w, NEW m,
         Orderly(s, c, q, sl, w, m), CommandsOK(s), NEW x \in Command,
         Owner(s, x) \in Port, s.phase[Owner(s, x)] = PhaseOf(x),
         x.type = "ConfigureEndpoint" => s.dev[x.slot].alloc,
         Free(s, Places(s, w, m), Owner(s, x)),
         x.type = "AddressDevice" => /\ s.dev[x.slot].alloc /\ s.dev[x.slot].inPort # 0
                                     /\ x.slot = 0 \/ s.dev[x.slot].ctxPort = 0
  PROVE  Orderly(PushCommand(s, x), c, q, sl, w, m)
<1> DEFINE n == Len(s.queued)
           k == s.cmd.index
           L == Places(s, w, m)
<1>1. PICK t : t = PushCommand(s, x)
  OBVIOUS
<1>2. /\ t \in XState /\ t.phase = s.phase /\ t.addressing = s.addressing /\ t.dev = s.dev
      /\ t.cmd = Push(s.cmd, CmdSize, x) /\ t.queued = Append(s.queued, x)
  BY <1>1, PushCommandIs
<1>3. s.queued \in Seq(Command) /\ s.cmd \in CmdRing /\ t.cmd \in CmdRing
  BY <1>2 DEF XState
<1>a. PICK r \in CmdRing :
        /\ r = Push(s.cmd, CmdSize, x)
        /\ \A i \in 0..(CmdSize - 2) : r.buf[i] = IF i = k THEN [trb |-> x, cycle |-> s.cmd.cycle]
                                                         ELSE s.cmd.buf[i]
        /\ k + 1 # CmdSize - 1 => /\ r.index = k + 1 /\ r.cycle = s.cmd.cycle
                                  /\ r.buf[CmdSize - 1] = s.cmd.buf[CmdSize - 1]
        /\ k + 1 = CmdSize - 1 => /\ r.index = 0 /\ r.cycle = ~s.cmd.cycle
                                  /\ r.buf[CmdSize - 1] = [trb |-> LinkTRB, cycle |-> s.cmd.cycle]
  <2>1. s.cmd \in CmdRing /\ x \in Command
    BY <1>3
  <2>2. Push(s.cmd, CmdSize, x) \in CmdRing
    BY ONLY <2>1, PushIs
  <2>3. \A i \in 0..(CmdSize - 2) :
           Push(s.cmd, CmdSize, x).buf[i] = IF i = s.cmd.index THEN [trb |-> x, cycle |-> s.cmd.cycle]
                                                              ELSE s.cmd.buf[i]
    BY ONLY <2>1, PushIs
  <2>4. k + 1 # CmdSize - 1 =>
           /\ Push(s.cmd, CmdSize, x).index = k + 1 /\ Push(s.cmd, CmdSize, x).cycle = s.cmd.cycle
           /\ Push(s.cmd, CmdSize, x).buf[CmdSize - 1] = s.cmd.buf[CmdSize - 1]
    BY ONLY <2>1, PushIs
  <2>5. k + 1 = CmdSize - 1 =>
           /\ Push(s.cmd, CmdSize, x).index = 0 /\ Push(s.cmd, CmdSize, x).cycle = ~s.cmd.cycle
           /\ Push(s.cmd, CmdSize, x).buf[CmdSize - 1] = [trb |-> LinkTRB, cycle |-> s.cmd.cycle]
    BY ONLY <2>1, PushIs
  <2>. QED BY Zenon, <2>2, <2>3, <2>4, <2>5
<1>4. n \in Nat /\ Len(t.queued) = n + 1
  BY <1>2, <1>3
<1>5. w \in 0..(Span - 1) /\ m \in Nat /\ m + n <= Span /\ Claims(s, L)
      /\ Holds(s.cmd, c, Span, s.queued) /\ c.index = Step(w, m, Span)
  BY DEF Orderly
<1>6. m + n < Span
  BY <1>4, <1>5, NotFull DEF Places
<1>7. \A i \in 0..(Span - 1) : t.cmd.buf[i] = IF i = k THEN [trb |-> x, cycle |-> s.cmd.cycle]
                                                     ELSE s.cmd.buf[i]
  <2>1. \A i \in 0..(CmdSize - 2) : t.cmd.buf[i] = IF i = k THEN [trb |-> x, cycle |-> s.cmd.cycle]
                                                         ELSE s.cmd.buf[i]
    BY <1>2, <1>a
  <2>. QED BY <2>1, SpanIs
<1>8. /\ k + 1 < Span => /\ t.cmd.index = k + 1 /\ t.cmd.cycle = s.cmd.cycle
                         /\ t.cmd.buf[CmdSize - 1] = s.cmd.buf[CmdSize - 1]
      /\ k + 1 >= Span => /\ t.cmd.index = 0 /\ t.cmd.cycle = ~s.cmd.cycle
                          /\ t.cmd.buf[CmdSize - 1] = [trb |-> LinkTRB, cycle |-> s.cmd.cycle]
  <2>1. k \in 0..(CmdSize - 2)
    BY <1>3 DEF CmdRing
  <2>2. k + 1 >= Span => k + 1 = CmdSize - 1
    BY <2>1, Sizes DEF Span
  <2>3. k + 1 < Span => k + 1 # CmdSize - 1
    BY <2>1, Sizes DEF Span
  <2>4. /\ k + 1 # CmdSize - 1 => /\ t.cmd.index = k + 1 /\ t.cmd.cycle = s.cmd.cycle
                                  /\ t.cmd.buf[CmdSize - 1] = s.cmd.buf[CmdSize - 1]
        /\ k + 1 = CmdSize - 1 => /\ t.cmd.index = 0 /\ t.cmd.cycle = ~s.cmd.cycle
                                  /\ t.cmd.buf[CmdSize - 1] = [trb |-> LinkTRB, cycle |-> s.cmd.cycle]
    BY <1>2, <1>a
  <2>. QED BY <2>2, <2>3, <2>4
<1>9. Bits(s.cmd, Span)
  <2>1. s.cmd.cycle \in BOOLEAN /\ s.cmd.buf \in [0..(CmdSize - 1) -> CmdEntry]
    BY <1>3 DEF CmdRing
  <2>2. \A i \in 0..(Span - 1) : i \in 0..(CmdSize - 1)
    BY SpanIs, Sizes
  <2>. QED BY <2>1, <2>2 DEF Bits, CmdEntry
<1>10. Holds(t.cmd, c, Span, t.queued)
  BY <1>2, <1>3, <1>4, <1>5, <1>6, <1>7, <1>8, <1>9, SpanIs, HoldsPut
<1>11. LinkOK(t.cmd, c)
  <2>1. CASE k + 1 < Span
    BY <1>8, <2>1 DEF Orderly, LinkOK
  <2>2. CASE ~ (k + 1 < Span)
    <3>1. k \in 0..(CmdSize - 2) /\ s.cmd.cycle \in BOOLEAN
      BY <1>3 DEF CmdRing
    <3>2. k + 1 >= Span
      BY <2>2, <3>1, SpanIs
    <3>. QED BY <1>8, <3>1, <3>2 DEF LinkOK
  <2>. QED BY <2>1, <2>2
<1>12. k \in 0..(Span - 1) /\ k \notin L /\ Places(t, w, m) = L \cup {k}
  <2>1. k = Step(c.index, n, Span)
    BY <1>5 DEF Holds
  <2>2. PICK a \in Nat : a = m + n /\ a < Span
    BY <1>4, <1>5, <1>6
  <2>3. k = Step(w, a, Span)
    <3>1. Span \in Nat /\ w \in 0..(Span - 1) /\ m \in Nat /\ n \in Nat /\ m + n < Span
      BY <1>4, <1>5, <1>6, SpanIs
    <3>2. Step(Step(w, m, Span), n, Span) = Step(w, m + n, Span)
      BY ONLY <3>1, StepTwice
    <3>. QED BY <1>5, <2>1, <2>2, <3>2
  <2>4. Places(t, w, m) = Live(w, a + 1)
    <3>1. m + Len(t.queued) = a + 1
      BY <1>4, <1>5, <2>2
    <3>. QED BY <3>1 DEF Places
  <2>5. L = Live(w, a)
    BY <2>2 DEF Places
  <2>. QED BY <1>5, <2>2, <2>3, <2>4, <2>5, LiveNext
<1>13. \A i \in L : i \in 0..(Span - 1) /\ t.cmd.buf[i] = s.cmd.buf[i]
  BY <1>7, <1>12 DEF Places, Live
<1>14. \A b : Owner(t, b) = Owner(s, b)
  BY <1>2 DEF Owner
<1>15. Claims(t, Places(t, w, m))
  <2>1. t.cmd.buf[k].trb = x
    BY <1>7, <1>12
  <2>a. t.phase = s.phase /\ t.dev = s.dev
    BY <1>2
  <2>2. Claims(t, L)
    <3> HIDE DEF L
    <3>1. \A i \in L : t.cmd.buf[i].trb = s.cmd.buf[i].trb
      BY <1>13
    <3>. QED BY ONLY <1>5, <1>14, <2>a, <3>1, ClaimsKept
  <2>3. \A i \in L : Owner(t, t.cmd.buf[i].trb) # Owner(t, x)
    BY <1>13, <1>14 DEF Free
  <2>4. /\ Owner(t, x) \in Port /\ t.phase[Owner(t, x)] = PhaseOf(x)
        /\ x.type = "ConfigureEndpoint" => t.dev[x.slot].alloc
    BY <1>2, <1>14
  <2> HIDE DEF k, L
  <2>5. Claims(t, L \cup {k})
    BY <2>1, <2>2, <2>3, <2>4 DEF Claims
  <2>. QED BY <1>12, <2>5
<1>16. AnswersOK(t, q, sl)
  <2>1. \A i \in Done(q) : q[i].at \in L
    BY DoneInPlaces
  <2>2. \A i \in Done(q) : t.cmd.buf[q[i].at] = s.cmd.buf[q[i].at]
    BY <1>13, <2>1
  <2>. QED BY <1>2, <2>2 DEF Orderly, AnswersOK
<1>17. SlotsOK(t, sl)
  <2>1. ASSUME NEW j \in 1..Len(t.queued), t.queued[j].type = "AddressDevice"
        PROVE  \/ t.queued[j].slot = 0
               \/ t.dev[t.queued[j].slot].alloc /\ t.dev[t.queued[j].slot].ctxPort = 0
    <3>1. CASE j \in 1..n
      <4>1. t.queued[j] = s.queued[j]
        BY <1>2, <1>3, <3>1
      <4>. QED BY <1>2, <2>1, <3>1, <4>1 DEF Orderly, SlotsOK
    <3>2. CASE j = n + 1
      <4>1. t.queued[j] = x
        BY <1>2, <1>3, <3>2
      <4>. QED BY <1>2, <2>1, <4>1
    <3>. QED BY <1>4, <3>1, <3>2
  <2>. QED BY <1>2, <2>1 DEF Orderly, SlotsOK
<1>18. m + Len(t.queued) <= Span
  BY <1>4, <1>5, <1>6, SpanIs
<1>. QED BY <1>1, <1>5, <1>10, <1>11, <1>15, <1>16, <1>17, <1>18 DEF Orderly

-----------------------------------------------------------------------------
(* The events not handled yet, after one is taken and after one is posted. *)
LEMMA DoneTail ==
  ASSUME NEW S, NEW q \in Seq(S), q # <<>>
  PROVE  /\ \A i \in Done(Tail(q)) : i \in Nat /\ i + 1 \in Done(q) /\ i + 1 # 1 /\ Tail(q)[i] = q[i + 1]
         /\ \A i \in Done(q) : i \in Nat /\ (i # 1 => i - 1 \in Done(Tail(q)) /\ i - 1 + 1 = i)
         /\ 1 \in Done(q) <=> q[1].type = "CommandCompletion"
<1>1. Len(q) \in Nat /\ Len(q) >= 1 /\ Len(Tail(q)) = Len(q) - 1
      /\ \A i \in 1..(Len(q) - 1) : Tail(q)[i] = q[i + 1]
  OBVIOUS
<1>2. ASSUME NEW i \in Done(Tail(q))
      PROVE  i \in Nat /\ i + 1 \in Done(q) /\ i + 1 # 1 /\ Tail(q)[i] = q[i + 1]
  BY <1>1 DEF Done
<1>3. ASSUME NEW i \in Done(q), i # 1
      PROVE  i - 1 \in Done(Tail(q)) /\ i - 1 + 1 = i
  <2>1. i \in 1..Len(q) /\ q[i].type = "CommandCompletion"
    BY DEF Done
  <2>2. PICK j \in 1..(Len(q) - 1) : j = i - 1 /\ j + 1 = i
    BY <1>1, <1>3, <2>1
  <2>3. Tail(q)[j] = q[i]
    BY <1>1, <2>2
  <2>4. j \in Done(Tail(q))
    BY <1>1, <2>1, <2>3 DEF Done
  <2>. QED BY <2>2, <2>4
<1>4. \A i \in Done(q) : i \in Nat
  BY DEF Done
<1>5. 1 \in Done(q) <=> q[1].type = "CommandCompletion"
  BY <1>1 DEF Done
<1>. QED BY <1>2, <1>3, <1>4, <1>5

LEMMA DoneAppend ==
  ASSUME NEW S, NEW q \in Seq(S), NEW e \in S
  PROVE  /\ \A i \in Done(q) : i \in 1..Len(q) /\ i \in Done(Append(q, e)) /\ Append(q, e)[i] = q[i]
         /\ \A i \in Done(Append(q, e)) : i \in Done(q) \/ i = Len(q) + 1
         /\ Len(q) + 1 \in Done(Append(q, e)) <=> e.type = "CommandCompletion"
         /\ Append(q, e)[Len(q) + 1] = e
<1>1. Len(q) \in Nat /\ Len(Append(q, e)) = Len(q) + 1 /\ Append(q, e)[Len(q) + 1] = e
      /\ \A i \in 1..Len(q) : Append(q, e)[i] = q[i]
  OBVIOUS
<1>2. ASSUME NEW i \in Done(q)
      PROVE  i \in 1..Len(q) /\ i \in Done(Append(q, e)) /\ Append(q, e)[i] = q[i]
  BY <1>1 DEF Done
<1>3. ASSUME NEW i \in Done(Append(q, e))
      PROVE  i \in Done(q) \/ i = Len(q) + 1
  BY <1>1 DEF Done
<1>4. Len(q) + 1 \in Done(Append(q, e)) <=> e.type = "CommandCompletion"
  BY <1>1 DEF Done
<1>. QED BY <1>1, <1>2, <1>3, <1>4

(* An event that is no completion comes and goes.                          *)
LEMMA OtherTaken ==
  ASSUME NEW s, NEW c, NEW q \in Seq(Event), NEW sl, NEW w, NEW m, Orderly(s, c, q, sl, w, m),
         q # <<>>, q[1].type # "CommandCompletion"
  PROVE  Orderly(s, c, Tail(q), sl, w, m)
<1> DEFINE r == Tail(q)
<1>1. /\ \A i \in Done(r) : i \in Nat /\ i + 1 \in Done(q) /\ r[i] = q[i + 1]
      /\ \A i \in Done(q) : i \in Nat /\ i - 1 \in Done(r) /\ i - 1 + 1 = i
  BY DoneTail
<1> HIDE DEF r
<1>2. Trail(q, w, m) /\ AnswersOK(s, q, sl)
  BY DEF Orderly
<1>3. Trail(r, w, m)
  <2>1. \A i \in Done(r) : r[i].at \in 0..(Span - 1) /\ Ahead(r[i].at, w, Span) < m
    BY <1>1, <1>2 DEF Trail
  <2>2. ASSUME NEW i \in Done(r), NEW j \in Done(r), i < j
        PROVE  Ahead(r[i].at, w, Span) < Ahead(r[j].at, w, Span)
    <3>1. i + 1 < j + 1
      BY <1>1, <2>2
    <3>. QED BY <1>1, <1>2, <3>1 DEF Trail
  <2>3. ASSUME NEW a \in 0..(m - 1)
        PROVE  \E i \in Done(r) : Ahead(r[i].at, w, Span) = a
    <3>1. PICK i \in Done(q) : Ahead(q[i].at, w, Span) = a
      BY <1>2 DEF Trail
    <3>2. PICK j \in Done(r) : j = i - 1 /\ j + 1 = i
      BY <1>1
    <3>. QED BY <1>1, <3>1, <3>2
  <2>. QED BY <2>1, <2>2, <2>3 DEF Trail
<1>4. AnswersOK(s, r, sl)
  <2>1. \A i \in Done(r) : \E j \in Done(q) : r[i] = q[j]
    BY <1>1
  <2>. QED BY <1>2, <2>1 DEF AnswersOK
<1>5. Orderly(s, c, r, sl, w, m)
  BY <1>3, <1>4 DEF Orderly
<1>. QED BY <1>5 DEF r

LEMMA OtherPosted ==
  ASSUME NEW s, NEW c, NEW q \in Seq(Event), NEW sl, NEW w, NEW m, Orderly(s, c, q, sl, w, m),
         NEW e \in Event, e.type # "CommandCompletion"
  PROVE  Orderly(s, c, Append(q, e), sl, w, m)
<1> DEFINE r == Append(q, e)
<1>1. Done(r) = Done(q) /\ \A i \in Done(q) : r[i] = q[i]
  <2>1. /\ \A i \in Done(q) : i \in Done(r) /\ r[i] = q[i]
        /\ \A i \in Done(r) : i \in Done(q) \/ i = Len(q) + 1
        /\ Len(q) + 1 \notin Done(r)
    BY DoneAppend
  <2>. QED BY <2>1
<1> HIDE DEF r
<1>2. Trail(r, w, m) /\ AnswersOK(s, r, sl)
  BY <1>1 DEF Orderly, Trail, AnswersOK
<1>3. Orderly(s, c, r, sl, w, m)
  BY <1>2 DEF Orderly
<1>. QED BY <1>3 DEF r

(* The first completion is the one of the oldest command; what it says is  *)
(* true, and the port of that command then has none.                       *)
Answered(s, e, w, L, sl) ==
  LET c == s.cmd.buf[w].trb
  IN  /\ e.at = w /\ c \in Command /\ Owner(s, c) \in Port
      /\ s.phase[Owner(s, c)] = PhaseOf(c) /\ Free(s, L, Owner(s, c))
      /\ c.type = "EnableSlot" => e.slot = 0 \/ (e.slot \in sl /\ ~s.dev[e.slot].alloc)
      /\ c.type = "ConfigureEndpoint" => e.slot = c.slot

LEMMA CompletionTaken ==
  ASSUME NEW s \in XState, NEW c, NEW q \in Seq(Event), NEW sl, NEW w, NEW m,
         Orderly(s, c, q, sl, w, m), q # <<>>, q[1].type = "CommandCompletion"
  PROVE  /\ Orderly(s, c, Tail(q), sl, Step(w, 1, Span), m - 1)
         /\ Answered(s, q[1], w, Places(s, Step(w, 1, Span), m - 1), sl)
<1> DEFINE r == Tail(q)
           v == Step(w, 1, Span)
           n == Len(s.queued)
<1>1. /\ \A i \in Done(r) : i \in Nat /\ i + 1 \in Done(q) /\ i + 1 # 1 /\ r[i] = q[i + 1]
      /\ \A i \in Done(q) : i \in Nat /\ (i # 1 => i - 1 \in Done(r) /\ i - 1 + 1 = i)
      /\ 1 \in Done(q)
  BY DoneTail
<1> HIDE DEF r
<1>2. /\ Trail(q, w, m) /\ AnswersOK(s, q, sl) /\ w \in 0..(Span - 1) /\ m \in Nat
      /\ m + n <= Span /\ c.index = Step(w, m, Span) /\ Claims(s, Live(w, m + n))
  BY DEF Orderly, Places
<1>3. n \in Nat
  BY DEF XState
<1> HIDE DEF n
<1>4. \A i \in Done(q) : /\ q[i].at \in 0..(Span - 1) /\ Ahead(q[i].at, w, Span) \in 0..(Span - 1)
                         /\ Ahead(q[i].at, w, Span) < m
                         /\ Ahead(q[i].at, w, Span) = 0 => q[i].at = w
  <2>1. \A i \in Done(q) : q[i].at \in 0..(Span - 1) /\ Ahead(q[i].at, w, Span) < m
    BY <1>2 DEF Trail
  <2>2. \A x \in 0..(Span - 1) : /\ Ahead(x, w, Span) \in 0..(Span - 1)
                                 /\ Ahead(x, w, Span) = 0 => x = w
    <3>1. \A x \in 0..(Span - 1) : Ahead(x, w, Span) \in 0..(Span - 1)
      BY <1>2, SpanIs, AheadIs
    <3>2. \A x \in 0..(Span - 1) : Ahead(x, w, Span) = 0 => x = w
      BY <1>2, SpanIs DEF Ahead
    <3>. QED BY <3>1, <3>2
  <2>. QED BY <2>1, <2>2
<1>5. m > 0
  <2>1. PICK a \in 0..(Span - 1) : a < m
    BY Zenon, <1>1, <1>4
  <2>. QED BY <1>2, <2>1
<1>6. q[1].at = w
  <2>1. PICK i \in Done(q) : Ahead(q[i].at, w, Span) = 0
    BY <1>2, <1>5 DEF Trail
  <2>2. i = 1
    <3> SUFFICES ASSUME i # 1 PROVE FALSE
      OBVIOUS
    <3>1. 1 < i
      BY DEF Done
    <3>2. Ahead(q[1].at, w, Span) < 0
      BY <1>1, <1>2, <2>1, <3>1 DEF Trail
    <3>3. PICK a \in 0..(Span - 1) : a = Ahead(q[1].at, w, Span)
      BY Zenon, <1>1, <1>4
    <3>. QED BY <3>2, <3>3
  <2>. QED BY Zenon, <1>4, <2>1, <2>2
<1>7. /\ v \in 0..(Span - 1) /\ Step(v, m - 1, Span) = c.index
      /\ \A x \in 0..(Span - 1) : x # w => Ahead(x, v, Span) = Ahead(x, w, Span) - 1
      /\ Ahead(w, v, Span) = Span - 1
  <2>1. m \in 0..Span
    BY <1>2, <1>3, SpanIs
  <2>2. Span \in Nat
    BY SpanIs
  <2>. QED BY ONLY <1>2, <1>5, <2>1, <2>2, StepNext
<1> HIDE DEF v
<1>8. \A i \in Done(q) : i # 1 => q[i].at # w /\ Ahead(q[i].at, w, Span) > 0
  <2>1. ASSUME NEW i \in Done(q), i # 1
        PROVE  Ahead(q[1].at, w, Span) < Ahead(q[i].at, w, Span)
    <3>1. 1 < i
      BY <2>1 DEF Done
    <3>. QED BY <1>1, <1>2, <3>1 DEF Trail
  <2>2. Ahead(w, w, Span) = 0
    BY <1>2, SpanIs DEF Ahead
  <2>. QED BY <1>4, <1>6, <2>1, <2>2
<1>9. Trail(r, v, m - 1)
  <2>1. \A i \in Done(r) : /\ r[i] = q[i + 1] /\ i + 1 \in Done(q) /\ i + 1 # 1 /\ i \in Nat
                           /\ Ahead(r[i].at, v, Span) = Ahead(r[i].at, w, Span) - 1
    <3>1. \A j \in Done(q) : j # 1 => Ahead(q[j].at, v, Span) = Ahead(q[j].at, w, Span) - 1
      BY Zenon, <1>4, <1>7, <1>8
    <3>. QED BY <1>1, <3>1
  <2>2. ASSUME NEW i \in Done(r)
        PROVE  r[i].at \in 0..(Span - 1) /\ Ahead(r[i].at, v, Span) < m - 1
    <3>1. PICK j \in Done(q) : r[i] = q[j]
      BY <2>1
    <3>2. PICK a \in 0..(Span - 1) : a = Ahead(r[i].at, w, Span) /\ a < m
      BY Zenon, <1>4, <3>1
    <3>3. Ahead(r[i].at, v, Span) = a - 1
      BY <2>1, <3>2
    <3>4. a - 1 < m - 1
      BY <1>2, <3>2
    <3>5. r[i].at \in 0..(Span - 1)
      BY Zenon, <1>4, <3>1
    <3>. QED BY <3>3, <3>4, <3>5
  <2>3. ASSUME NEW i \in Done(r), NEW j \in Done(r), i < j
        PROVE  Ahead(r[i].at, v, Span) < Ahead(r[j].at, v, Span)
    <3>1. i + 1 < j + 1
      BY <2>1, <2>3
    <3>2. Ahead(r[i].at, w, Span) < Ahead(r[j].at, w, Span)
      BY <1>2, <2>1, <3>1 DEF Trail
    <3>3. PICK a \in 0..(Span - 1), b \in 0..(Span - 1) :
            a = Ahead(r[i].at, w, Span) /\ b = Ahead(r[j].at, w, Span)
      BY Zenon, <1>4, <2>1
    <3>4. Ahead(r[i].at, v, Span) = a - 1 /\ Ahead(r[j].at, v, Span) = b - 1
      BY <2>1, <3>3
    <3>. QED BY <3>2, <3>3, <3>4
  <2>4. ASSUME NEW a \in 0..((m - 1) - 1)
        PROVE  \E i \in Done(r) : Ahead(r[i].at, v, Span) = a
    <3>1. a + 1 \in 0..(m - 1)
      BY <1>2, <1>5
    <3>2. PICK i \in Done(q) : Ahead(q[i].at, w, Span) = a + 1
      BY <1>2, <3>1 DEF Trail
    <3>3. i # 1
      <4>1. Ahead(w, w, Span) = 0
        BY <1>2, SpanIs DEF Ahead
      <4>. QED BY <1>6, <3>1, <3>2, <4>1
    <3>4. PICK j \in Done(r) : j = i - 1 /\ j + 1 = i
      BY <1>1, <3>3
    <3>5. Ahead(r[j].at, v, Span) = (a + 1) - 1
      BY <2>1, <3>2, <3>4
    <3>. QED BY <3>5
  <2>. QED BY <2>2, <2>3, <2>4 DEF Trail
<1>10. Live(v, (m - 1) + n) = Live(w, m + n) \ {w} /\ w \in Live(w, m + n)
  <2>1. PICK l \in Nat : l = (m - 1) + n /\ l + 1 = m + n /\ l < Span
    BY <1>2, <1>3, <1>5, SpanIs
  <2>2. Ahead(w, w, Span) = 0 /\ \A x \in 0..(Span - 1) : Ahead(x, w, Span) \in 0..(Span - 1)
    <3>1. Ahead(w, w, Span) = 0
      BY <1>2, SpanIs DEF Ahead
    <3>2. \A x \in 0..(Span - 1) : Ahead(x, w, Span) \in 0..(Span - 1)
      BY <1>2, SpanIs, AheadIs
    <3>. QED BY <3>1, <3>2
  <2>3. \A x \in 0..(Span - 1) : Ahead(x, v, Span) < l <=> Ahead(x, w, Span) < l + 1 /\ x # w
    <3> SUFFICES ASSUME NEW x \in 0..(Span - 1)
                 PROVE  Ahead(x, v, Span) < l <=> Ahead(x, w, Span) < l + 1 /\ x # w
      OBVIOUS
    <3>1. CASE x = w
      BY <1>7, <2>1, <3>1, SpanIs
    <3>2. CASE x # w
      <4>1. PICK a \in 0..(Span - 1) : a = Ahead(x, w, Span)
        BY <2>2
      <4>2. Ahead(x, v, Span) = a - 1
        BY <1>7, <3>2, <4>1
      <4>. QED BY <3>2, <4>1, <4>2
    <3>. QED BY <3>1, <3>2
  <2>4. Ahead(w, w, Span) < l + 1
    BY <2>1, <2>2
  <2>. QED BY <1>2, <2>1, <2>3, <2>4 DEF Live
<1>11. Claims(s, Live(v, (m - 1) + n))
  BY <1>2, <1>10 DEF Claims
<1>12. AnswersOK(s, r, sl)
  <2>1. \A i \in Done(r) : \E j \in Done(q) : r[i] = q[j]
    BY <1>1
  <2>. QED BY <1>2, <2>1 DEF AnswersOK
<1>13. Orderly(s, c, r, sl, v, m - 1)
  <2>1. m - 1 \in Nat /\ (m - 1) + n <= Span
    BY <1>2, <1>3, <1>5, SpanIs
  <2>. QED BY <1>7, <1>9, <1>11, <1>12, <2>1 DEF Orderly, Places, n
<1>14. Answered(s, q[1], w, Live(v, (m - 1) + n), sl)
  <2>1. Free(s, Live(v, (m - 1) + n), Owner(s, s.cmd.buf[w].trb))
    BY <1>2, <1>10 DEF Claims, Free
  <2>. QED BY <1>1, <1>2, <1>6, <1>10, <2>1 DEF Answered, Claims, AnswersOK
<1>. QED BY <1>13, <1>14 DEF r, v, n, Places

-----------------------------------------------------------------------------
(* The handlers.                                                           *)
Ready(s, c, q, sl, w, m) ==
  /\ Good(s) /\ c.cycle \in BOOLEAN /\ (\A i \in Done(q) : q[i].slot \in SlotId)
  /\ Orderly(s, c, q, sl, w, m)

(* No command is for a port in a phase without one.                        *)
LEMMA IdleFree ==
  ASSUME NEW s, NEW L, Claims(s, L), NEW p, p \notin Port \/ s.phase[p] \notin Busy
  PROVE  Free(s, L, p)
<1>1. \A b : PhaseOf(b) \in Busy
  BY DEF PhaseOf, Busy
<1>. QED BY <1>1 DEF Free, Claims

(* The phase of a port without command changes, and devices do.            *)
LEMMA PhaseOrderly ==
  ASSUME NEW s, NEW t \in XState, NEW c, NEW q, NEW sl, NEW w, NEW m, Ready(s, c, q, sl, w, m),
         NEW p \in Port, NEW x, t.phase = [s.phase EXCEPT ![p] = x], Free(s, Places(s, w, m), p),
         t.addressing = s.addressing \/ Free(s, Places(s, w, m), s.addressing),
         SamePorts(s, t), OnlyStarted(s, t), t.cmd = s.cmd, t.queued = s.queued
  PROVE  Orderly(t, c, q, sl, w, m) /\ Places(t, w, m) = Places(s, w, m)
<1>1. s \in XState /\ s.phase \in [Port -> Phase]
  BY DEF Ready, Good, XState
<1>2. \A p1 \in Port : t.phase[p1] = s.phase[p1] \/ Free(s, Places(s, w, m), p1)
  BY <1>1
<1>. QED BY <1>1, <1>2, CalmOrderly DEF Ready

LEMMA OnlyDevicesReady ==
  ASSUME NEW s, NEW t, NEW c, NEW q, NEW sl, NEW w, NEW m, Ready(s, c, q, sl, w, m),
         OnlyDevices(s, t)
  PROVE  Ready(t, c, q, sl, w, m)
<1>1. Good(t)
  BY OnlyDevicesGood DEF Ready
<1>2. Orderly(t, c, q, sl, w, m)
  BY CalmOrderly DEF Ready, OnlyDevices, Good
<1>. QED BY <1>1, <1>2 DEF Ready

LEMMA ResetPortOrderly ==
  ASSUME NEW s, NEW c, NEW q, NEW sl, NEW w, NEW m, Ready(s, c, q, sl, w, m),
         NEW p \in Port, s.phase[p] \in {"NotConnected", "WaitingAddressed"}
  PROVE  Orderly(ResetPort(s, p), c, q, sl, w, m)
<1>1. s \in XState /\ Claims(s, Places(s, w, m))
  BY DEF Ready, Good, Orderly
<1>2. 0 \notin Port
  BY Sizes DEF Port
<1>3. Free(s, Places(s, w, m), p) /\ Free(s, Places(s, w, m), 0)
  BY <1>1, <1>2, IdleFree DEF Busy
<1>4. CASE ~ s.port[p].connected
  BY <1>4 DEF ResetPort, Ready
<1>5. CASE s.port[p].connected /\ s.addressing # 0
  <2>1. PICK t : t = ResetPort(s, p)
    OBVIOUS
  <2>2. t = [s EXCEPT !.phase = [s.phase EXCEPT ![p] = "WaitingAddressed"]]
    BY <1>1, <1>5, <2>1 DEF ResetPort, XState
  <2>3. [s.phase EXCEPT ![p] = "WaitingAddressed"] \in [Port -> Phase]
    BY <1>1 DEF XState, Phase
  <2>4. /\ t \in XState /\ t.phase = [s.phase EXCEPT ![p] = "WaitingAddressed"]
        /\ t.addressing = s.addressing /\ t.cmd = s.cmd /\ t.queued = s.queued /\ t.dev = s.dev
    BY <1>1, <2>2, <2>3 DEF XState
  <2>5. SamePorts(s, t) /\ OnlyStarted(s, t)
    BY <2>4 DEF SamePorts, OnlyStarted
  <2>. QED BY <1>3, <2>1, <2>4, <2>5, PhaseOrderly
<1>6. CASE s.port[p].connected /\ s.addressing = 0
  <2>1. PICK t : t = ResetPort(s, p)
    OBVIOUS
  <2>2. t \in XState /\ t.cmd = s.cmd /\ t.queued = s.queued /\ t.dev = s.dev /\ Begun(s, t, p)
    BY <1>1, <1>6, <2>1, ResetPortIs
  <2>3. SamePorts(s, t) /\ OnlyStarted(s, t)
    BY <2>2 DEF SamePorts, OnlyStarted
  <2>. QED BY <1>3, <1>6, <2>1, <2>2, <2>3, PhaseOrderly DEF Begun
<1>. QED BY <1>4, <1>5, <1>6

(* A port comes to a phase that has a command, and the command is given.   *)
LEMMA GiveOrderly ==
  ASSUME NEW s, NEW c, NEW q, NEW sl, NEW w, NEW m, Ready(s, c, q, sl, w, m),
         NEW p \in Port, Free(s, Places(s, w, m), p), NEW x \in Command,
         NEW u, PhaseOnly(s, u, p, PhaseOf(x)), Owner(s, x) = p,
         x.type # "AddressDevice", x.type = "ConfigureEndpoint" => s.dev[x.slot].alloc
  PROVE  Orderly(PushCommand(u, x), c, q, sl, w, m)
<1>1. s \in XState /\ s.phase \in [Port -> Phase] /\ CommandsOK(s)
  BY DEF Ready, Good, XState
<1>2. /\ u \in XState /\ u.phase = [s.phase EXCEPT ![p] = PhaseOf(x)]
      /\ u.addressing = s.addressing /\ u.dev = s.dev /\ u.cmd = s.cmd /\ u.queued = s.queued
  BY DEF PhaseOnly
<1>3. SamePorts(s, u) /\ OnlyStarted(s, u)
  BY <1>2 DEF SamePorts, OnlyStarted
<1>4. Orderly(u, c, q, sl, w, m) /\ Places(u, w, m) = Places(s, w, m)
  BY <1>2, <1>3, PhaseOrderly
<1>5. \A b : Owner(u, b) = Owner(s, b)
  BY <1>2 DEF Owner
<1>6. Free(u, Places(u, w, m), p)
  BY <1>2, <1>4, <1>5 DEF Free
<1>7. CommandsOK(u)
  BY <1>1, <1>2, <1>3, CommandsKept
<1>8. Owner(u, x) = p /\ u.phase[p] = PhaseOf(x)
  BY <1>1, <1>2, <1>5
<1>9. c.cycle \in BOOLEAN
  BY DEF Ready
<1>10. /\ u \in XState /\ x \in Command /\ Owner(u, x) \in Port
       /\ u.phase[Owner(u, x)] = PhaseOf(x) /\ Free(u, Places(u, w, m), Owner(u, x))
  BY <1>2, <1>6, <1>8
<1>11. x.type # "AddressDevice" /\ (x.type = "ConfigureEndpoint" => u.dev[x.slot].alloc)
  BY <1>2
<1>. QED BY ONLY <1>4, <1>7, <1>9, <1>10, <1>11, PushOrderly

LEMMA EnableSlotOrderly ==
  ASSUME NEW s, NEW c, NEW q, NEW sl, NEW w, NEW m, Ready(s, c, q, sl, w, m),
         NEW p \in Port, s.phase[p] = "ResettingPort"
  PROVE  Orderly(EnableSlot(s, p), c, q, sl, w, m)
<1> DEFINE x == [type |-> "EnableSlot", slot |-> 0]
<1>1. s \in XState /\ Claims(s, Places(s, w, m)) /\ InTurn(s)
  BY DEF Ready, Good, Orderly
<1>2. CASE EnableSlot(s, p) = s
  BY <1>2 DEF Ready
<1>3. CASE \E u : PhaseOnly(s, u, p, "EnablingSlot") /\ EnableSlot(s, p) = PushCommand(u, x)
  <2>1. PICK u : PhaseOnly(s, u, p, "EnablingSlot") /\ EnableSlot(s, p) = PushCommand(u, x)
    BY <1>3
  <2>2. x \in Command /\ x.type = "EnableSlot"
    BY Sizes DEF Command, SlotId
  <2> HIDE DEF x
  <2>3. Owner(s, x) = p /\ PhaseOf(x) = "EnablingSlot"
    BY <1>1, <2>2 DEF Owner, PhaseOf, InTurn, InSequence
  <2>4. Free(s, Places(s, w, m), p)
    BY <1>1, IdleFree DEF Busy
  <2>. QED BY <2>1, <2>2, <2>3, <2>4, GiveOrderly
<1>. QED BY <1>1, <1>2, <1>3, EnableSlotIs

LEMMA OnPortStatusChangeOrderly ==
  ASSUME NEW s, NEW c, NEW q, NEW sl, NEW w, NEW m, Ready(s, c, q, sl, w, m), NEW p \in Port
  PROVE  Orderly(OnPortStatusChange(s, p), c, q, sl, w, m)
<1>1. Orderly(s, c, q, sl, w, m)
  BY DEF Ready
<1>. QED BY <1>1, OnPortStatusChangeIs, ResetPortOrderly, EnableSlotOrderly

LEMMA ConfigureEndpointsOrderly ==
  ASSUME NEW s, NEW c, NEW q, NEW sl, NEW w, NEW m, Ready(s, c, q, sl, w, m),
         NEW slot \in SlotId, s.dev[slot].alloc, s.dev[slot].ctxPort # 0,
         s.phase[s.dev[slot].ctxPort] = "InitializingDevice"
  PROVE  Orderly(ConfigureEndpoints(s, slot), c, q, sl, w, m)
<1> DEFINE x == [type |-> "ConfigureEndpoint", slot |-> slot]
<1>1. s \in XState /\ Claims(s, Places(s, w, m))
  BY DEF Ready, Good, Orderly
<1>2. PICK p \in Port : p = s.dev[slot].ctxPort
  <2>1. s.dev[slot].ctxPort \in 0..MaxPorts
    BY <1>1, DeviceOf DEF Device
  <2>. QED BY <2>1, Sizes DEF Port
<1>3. CASE ConfigureEndpoints(s, slot) = s
  BY <1>3 DEF Ready
<1>4. CASE \E u : /\ PhaseOnly(s, u, p, "ConfiguringEndpoints")
                 /\ ConfigureEndpoints(s, slot) = PushCommand(u, x)
  <2>1. PICK u : /\ PhaseOnly(s, u, p, "ConfiguringEndpoints")
                 /\ ConfigureEndpoints(s, slot) = PushCommand(u, x)
    BY <1>4
  <2>2. x \in Command /\ x.type = "ConfigureEndpoint" /\ x.slot = slot
    BY DEF Command
  <2> HIDE DEF x
  <2>3. Owner(s, x) = p /\ PhaseOf(x) = "ConfiguringEndpoints"
    BY <1>2, <2>2 DEF Owner, PhaseOf
  <2>4. Free(s, Places(s, w, m), p)
    BY <1>1, <1>2, IdleFree DEF Busy
  <2>. QED BY <2>1, <2>2, <2>3, <2>4, GiveOrderly
<1>. QED BY <1>1, <1>2, <1>3, <1>4, ConfigureEndpointsIs

LEMMA OnTransferOrderly ==
  ASSUME NEW s, NEW c, NEW q, NEW sl, NEW w, NEW m, Ready(s, c, q, sl, w, m),
         NEW e, e.slot \in SlotId
  PROVE  Orderly(OnTransfer(s, e), c, q, sl, w, m)
<1> DEFINE t == OnTransferEventReceived(s, e)
<1>1. s \in XState
  BY DEF Ready, Good
<1>2. \/ OnTransfer(s, e) = s
      \/ s.dev[e.slot].alloc /\ OnTransfer(s, e) = t
      \/ /\ s.dev[e.slot].alloc /\ t.phase[t.dev[e.slot].ctxPort] = "InitializingDevice"
         /\ t.dev[e.slot].init = 4
         /\ OnTransfer(s, e) = ConfigureEndpoints(t, e.slot)
  BY Zenon DEF OnTransfer
<1>3. ASSUME s.dev[e.slot].alloc
      PROVE  Ready(t, c, q, sl, w, m) /\ t.dev[e.slot].alloc
  <2>1. OnlyDevices(s, t)
    BY <1>1, <1>3, OnTransferEventReceivedIs
  <2> HIDE DEF t
  <2>2. Ready(t, c, q, sl, w, m)
    BY <2>1, OnlyDevicesReady
  <2>. QED BY <1>3, <2>1, <2>2 DEF OnlyDevices, SamePorts
<1> HIDE DEF t
<1>4. CASE OnTransfer(s, e) = s
  BY <1>4 DEF Ready
<1>5. CASE s.dev[e.slot].alloc /\ OnTransfer(s, e) = t
  BY <1>3, <1>5 DEF Ready
<1>6. CASE /\ s.dev[e.slot].alloc /\ t.phase[t.dev[e.slot].ctxPort] = "InitializingDevice"
           /\ t.dev[e.slot].init = 4
           /\ OnTransfer(s, e) = ConfigureEndpoints(t, e.slot)
  <2>1. t.dev[e.slot].ctxPort # 0
    BY <1>3, <1>6 DEF Ready, Orderly, SlotsOK
  <2>. QED BY <1>3, <1>6, <2>1, ConfigureEndpointsOrderly
<1>. QED BY <1>2, <1>4, <1>5, <1>6

(* The completion of EnableSlot: a slot is prepared for the port.          *)
LEMMA PreparedOrderly ==
  ASSUME NEW s, NEW c, NEW q, NEW sl, NEW w, NEW m, Ready(s, c, q, sl, w, m),
         NEW p \in Port, p = s.addressing, Free(s, Places(s, w, m), p), NEW slot \in SlotId,
         slot = 0 \/ (slot \in sl /\ ~ s.dev[slot].alloc),
         NEW u, Prepared(s, u, p, slot)
  PROVE  Orderly(u, c, q, sl, w, m) /\ Free(u, Places(u, w, m), p)
<1> DEFINE L == Places(s, w, m)
<1>1. s \in XState /\ s.phase \in [Port -> Phase] /\ Orderly(s, c, q, sl, w, m)
  BY DEF Ready, Good, XState
<1>2. /\ u \in XState /\ u.phase = [s.phase EXCEPT ![p] = "AddressingDevice"]
      /\ u.addressing = s.addressing /\ u.cmd = s.cmd /\ u.queued = s.queued
      /\ \A i \in SlotId : i # slot => u.dev[i] = s.dev[i]
  BY DEF Prepared
<1>3. u.dev[slot].alloc /\ (s.dev[slot].alloc => /\ u.dev[slot].ctxPort = s.dev[slot].ctxPort
                                                 /\ u.dev[slot].init = s.dev[slot].init)
  <2>1. ASSUME s.dev[slot].alloc
        PROVE  u.dev[slot].ctxPort = s.dev[slot].ctxPort /\ u.dev[slot].init = s.dev[slot].init
    <3>1. s.dev[slot] \in Device
      BY <1>1, <2>1, DeviceOf
    <3>2. u.dev[slot] = [s.dev[slot] EXCEPT !.inPort = p]
      BY <2>1 DEF Prepared
    <3>. QED BY <3>1, <3>2 DEF Device
  <2>. QED BY <2>1 DEF Prepared
<1>4. ~ s.dev[slot].alloc => u.dev[slot].ctxPort = 0 /\ u.dev[slot].init = 0
  BY DEF Prepared, NewDevice
<1>5. Places(u, w, m) = L
  BY <1>2 DEF Places
<1>6. \A i \in L : LET b == s.cmd.buf[i].trb
                   IN  /\ b \in Command /\ s.phase[Owner(s, b)] = PhaseOf(b) /\ Owner(s, b) \in Port
                       /\ b.type = "ConfigureEndpoint" => s.dev[b.slot].alloc
                       /\ Owner(s, b) # p
  BY <1>1 DEF Orderly, Claims, Free
<1>7. ASSUME NEW i \in L, NEW b, b = s.cmd.buf[i].trb
      PROVE  /\ Owner(u, b) = Owner(s, b) /\ u.phase[Owner(s, b)] = s.phase[Owner(s, b)]
             /\ b.type = "ConfigureEndpoint" => u.dev[b.slot].alloc
  <2>1. /\ b \in Command /\ Owner(s, b) \in Port /\ Owner(s, b) # p
        /\ b.type = "ConfigureEndpoint" => s.dev[b.slot].alloc
    BY <1>6, <1>7
  <2>2. u.phase[Owner(s, b)] = s.phase[Owner(s, b)]
    BY <1>1, <1>2, <2>1
  <2>3. b.slot \in SlotId
    BY <2>1 DEF Command
  <2>4. b.type = "ConfigureEndpoint" =>
          u.dev[b.slot].alloc /\ u.dev[b.slot].ctxPort = s.dev[b.slot].ctxPort
    BY <1>2, <1>3, <2>1, <2>3
  <2>. QED BY <1>2, <2>2, <2>4 DEF Owner
<1>8. Claims(u, L)
  <2>1. Claims(s, L) /\ u.cmd = s.cmd
    BY <1>1, <1>2 DEF Orderly
  <2> HIDE DEF L
  <2>. QED BY ONLY <1>7, <2>1, ClaimsKept
<1>9. Free(u, L, p)
  BY <1>2, <1>6, <1>7 DEF Free
<1>10. AnswersOK(u, q, sl)
  <2> SUFFICES ASSUME NEW i \in Done(q)
               PROVE  /\ s.cmd.buf[q[i].at].trb.type # "EnableSlot"
                      /\ s.cmd.buf[q[i].at].trb.type = "ConfigureEndpoint" =>
                           q[i].slot = s.cmd.buf[q[i].at].trb.slot
    BY <1>2 DEF AnswersOK
  <2>1. q[i].at \in L
    BY <1>1, DoneInPlaces
  <2>2. Owner(s, s.cmd.buf[q[i].at].trb) # s.addressing
    BY <1>6, <2>1
  <2>3. s.cmd.buf[q[i].at].trb.type # "EnableSlot"
    BY <2>2 DEF Owner
  <2>. QED BY <1>1, <2>3 DEF Orderly, AnswersOK
<1>11. SlotsOK(u, sl)
  <2>1. ASSUME NEW i \in SlotId, u.dev[i].alloc
        PROVE  (i # 0 => i \in sl) /\ (u.dev[i].init # 0 => u.dev[i].ctxPort # 0)
    <3>1. CASE i # slot
      BY <1>1, <1>2, <2>1, <3>1 DEF Orderly, SlotsOK
    <3>2. CASE i = slot
      BY <1>1, <1>3, <1>4, <3>2 DEF Orderly, SlotsOK
    <3>. QED BY <3>1, <3>2
  <2>2. ASSUME NEW j \in 1..Len(s.queued), s.queued[j].type = "AddressDevice"
        PROVE  \/ s.queued[j].slot = 0
               \/ u.dev[s.queued[j].slot].alloc /\ u.dev[s.queued[j].slot].ctxPort = 0
    <3>1. s.queued[j] \in Command
      BY <1>1 DEF XState
    <3>2. s.queued[j].slot \in SlotId
      BY <3>1 DEF Command
    <3>3. \/ s.queued[j].slot = 0
          \/ s.dev[s.queued[j].slot].alloc /\ s.dev[s.queued[j].slot].ctxPort = 0
      BY <1>1, <2>2 DEF Orderly, SlotsOK
    <3>. QED BY <1>2, <3>2, <3>3
  <2>. QED BY <1>2, <2>1, <2>2 DEF SlotsOK
<1>. QED BY <1>1, <1>2, <1>5, <1>8, <1>9, <1>10, <1>11 DEF Orderly

LEMMA AddressDeviceOrderly ==
  ASSUME NEW s, NEW c, NEW q, NEW sl, NEW w, NEW m, Ready(s, c, q, sl, w, m),
         NEW p \in Port, p = s.addressing, s.phase[p] = "EnablingSlot",
         Free(s, Places(s, w, m), p), NEW slot \in SlotId,
         slot = 0 \/ (slot \in sl /\ ~ s.dev[slot].alloc)
  PROVE  Orderly(AddressDevice(s, p, slot), c, q, sl, w, m)
<1> DEFINE x == [type |-> "AddressDevice", slot |-> slot]
<1>1. s \in XState /\ s.phase \in [Port -> Phase] /\ CommandsOK(s) /\ c.cycle \in BOOLEAN
  BY DEF Ready, Good, XState
<1>2. PICK u : Prepared(s, u, p, slot) /\ AddressDevice(s, p, slot) = PushCommand(u, x)
  BY <1>1, AddressDeviceIs
<1>3. x \in Command /\ x.type = "AddressDevice" /\ x.slot = slot
  BY DEF Command
<1> HIDE DEF x
<1>4. Orderly(u, c, q, sl, w, m) /\ Free(u, Places(u, w, m), p)
  BY <1>2, PreparedOrderly
<1>5. /\ u \in XState /\ u.phase = [s.phase EXCEPT ![p] = "AddressingDevice"]
      /\ u.addressing = s.addressing /\ u.cmd = s.cmd
      /\ u.dev[slot].alloc /\ u.dev[slot].inPort = p
      /\ \A i \in SlotId : i # slot => u.dev[i] = s.dev[i]
  BY <1>2 DEF Prepared
<1>6. Owner(u, x) = p /\ u.phase[p] = PhaseOf(x)
  BY <1>1, <1>3, <1>5 DEF Owner, PhaseOf
<1>7. p # 0
  BY Sizes DEF Port
<1>8. CommandsOK(u)
  <2>1. ASSUME NEW i \in 0..(CmdSize - 2), s.cmd.buf[i].trb.type = "AddressDevice"
        PROVE  u.dev[s.cmd.buf[i].trb.slot].alloc /\ u.dev[s.cmd.buf[i].trb.slot].inPort # 0
    <3>1. i \in 0..(CmdSize - 1)
      BY Sizes
    <3>2. s.cmd.buf[i].trb \in Command \cup {Blank, LinkTRB}
      BY <1>1, <3>1 DEF XState, CmdRing, CmdEntry
    <3>3. s.cmd.buf[i].trb.slot \in SlotId
      BY <2>1, <3>2 DEF Command, Blank, LinkTRB
    <3>. QED BY <1>1, <1>5, <1>7, <2>1, <3>3 DEF CommandsOK
  <2>. QED BY <1>1, <1>5, <2>1 DEF CommandsOK
<1>9. x.slot = 0 \/ u.dev[x.slot].ctxPort = 0
  BY <1>2, <1>3 DEF Prepared, NewDevice
<1>10. /\ Owner(u, x) \in Port /\ u.phase[Owner(u, x)] = PhaseOf(x)
       /\ Free(u, Places(u, w, m), Owner(u, x)) /\ u \in XState
  BY <1>4, <1>5, <1>6
<1>11. u.dev[x.slot].alloc /\ u.dev[x.slot].inPort # 0
  BY <1>3, <1>5, <1>7
<1>12. Orderly(PushCommand(u, x), c, q, sl, w, m)
  BY ONLY <1>1, <1>3, <1>4, <1>8, <1>9, <1>10, <1>11, PushOrderly
<1>. QED BY <1>2, <1>12

LEMMA InitializeDeviceOrderly ==
  ASSUME NEW s, NEW c, NEW q, NEW sl, NEW w, NEW m, Ready(s, c, q, sl, w, m),
         NEW slot \in SlotId, s.dev[slot].alloc, NEW p \in Port, p = s.dev[slot].ctxPort,
         p = s.addressing, s.phase[p] = "AddressingDevice", Free(s, Places(s, w, m), p)
  PROVE  Orderly(InitializeDevice(ResetWaiting([s EXCEPT !.addressing = 0], p), p, slot),
                 c, q, sl, w, m)
<1>1. s \in XState /\ s.phase \in [Port -> Phase]
  BY DEF Ready, Good, XState
<1>2. PICK t : t = InitializeDevice(ResetWaiting([s EXCEPT !.addressing = 0], p), p, slot)
  OBVIOUS
<1>3. PICK n, v : /\ NextTurn(s, n) /\ PhaseOnly(n, v, p, "InitializingDevice")
                  /\ OnlyDevices(v, t)
  BY <1>1, <1>2, InitializeDeviceIs
<1>4. /\ n.cmd = s.cmd /\ n.queued = s.queued /\ n.dev = s.dev
      /\ \/ n.phase = s.phase
         \/ \E i \in Port : s.phase[i] = "WaitingAddressed" /\ Begun(s, n, i)
  BY <1>3 DEF NextTurn
<1>5. /\ v.phase = [n.phase EXCEPT ![p] = "InitializingDevice"]
      /\ v.cmd = n.cmd /\ v.queued = n.queued /\ v.dev = n.dev
  BY <1>3 DEF PhaseOnly
<1>6. t \in XState /\ t.cmd = s.cmd /\ t.queued = s.queued /\ t.phase = v.phase
      /\ SamePorts(s, t) /\ OnlyStarted(s, t)
  BY <1>3, <1>4, <1>5 DEF OnlyDevices, SamePorts, OnlyStarted
<1>7. \A i \in Port : s.phase[i] \in Busy /\ i # p => v.phase[i] = s.phase[i]
  <2>1. CASE n.phase = s.phase
    BY <1>1, <1>5, <2>1
  <2>2. CASE \E i \in Port : s.phase[i] = "WaitingAddressed" /\ Begun(s, n, i)
    <3>1. PICK j \in Port : s.phase[j] = "WaitingAddressed" /\ Begun(s, n, j)
      BY <2>2
    <3>2. \A i \in Port : i # p /\ i # j => v.phase[i] = s.phase[i]
      BY <1>1, <1>5, <3>1 DEF Begun
    <3>. QED BY <3>1, <3>2 DEF Busy
  <2>. QED BY <1>4, <2>1, <2>2
<1>8. Orderly(t, c, q, sl, w, m)
  <2>1. \A i \in Port : s.phase[i] \in Busy => \/ t.phase[i] = s.phase[i]
                                              \/ Free(s, Places(s, w, m), i)
    BY <1>6, <1>7
  <2>2. Orderly(s, c, q, sl, w, m) /\ \A i \in Done(q) : q[i].slot \in SlotId
    BY DEF Ready
  <2>3. Free(s, Places(s, w, m), s.addressing)
    OBVIOUS
  <2>. QED BY ONLY <1>1, <1>6, <2>1, <2>2, <2>3, CalmOrderly
<1>. QED BY <1>2, <1>8

LEMMA CompleteConfigurationOrderly ==
  ASSUME NEW s, NEW c, NEW q, NEW sl, NEW w, NEW m, Ready(s, c, q, sl, w, m),
         NEW slot \in SlotId, s.dev[slot].alloc, NEW p \in Port, Free(s, Places(s, w, m), p)
  PROVE  Orderly(CompleteConfiguration(s, p, slot), c, q, sl, w, m)
<1>1. s \in XState
  BY DEF Ready, Good
<1>2. PICK t : t = CompleteConfiguration(s, p, slot)
  OBVIOUS
<1>3. PICK o : OnlyDevices(s, o) /\ PhaseOnly(o, t, p, "Configured")
  BY <1>1, <1>2, CompleteConfigurationIs
<1>4. /\ t \in XState /\ t.phase = [s.phase EXCEPT ![p] = "Configured"]
      /\ t.addressing = s.addressing /\ t.cmd = s.cmd /\ t.queued = s.queued
      /\ SamePorts(s, t) /\ OnlyStarted(s, t)
  BY <1>3 DEF OnlyDevices, PhaseOnly, SamePorts, OnlyStarted
<1>5. Orderly(t, c, q, sl, w, m)
  BY <1>4, PhaseOrderly
<1>. QED BY <1>2, <1>5

LEMMA OnCommandCompletionOrderly ==
  ASSUME NEW s, NEW c, NEW q, NEW sl, NEW w, NEW m, Ready(s, c, q, sl, w, m),
         NEW e, e.slot \in SlotId, NEW v, Answered(s, e, v, Places(s, w, m), sl)
  PROVE  Orderly(OnCommandCompletion(s, e), c, q, sl, w, m)
<1> DEFINE p == s.dev[e.slot].ctxPort
           x == s.cmd.buf[v].trb
<1>1. s \in XState /\ Orderly(s, c, q, sl, w, m)
  BY DEF Ready, Good
<1>2. /\ e.at = v /\ x \in Command /\ Owner(s, x) \in Port
      /\ s.phase[Owner(s, x)] = PhaseOf(x) /\ Free(s, Places(s, w, m), Owner(s, x))
      /\ x.type = "EnableSlot" => e.slot = 0 \/ (e.slot \in sl /\ ~s.dev[e.slot].alloc)
      /\ x.type = "ConfigureEndpoint" => e.slot = x.slot
  BY DEF Answered
<1>3. \/ OnCommandCompletion(s, e) = s
      \/ /\ x.type = "EnableSlot"
         /\ s.addressing # 0 /\ s.phase[s.addressing] = "EnablingSlot"
         /\ OnCommandCompletion(s, e) = AddressDevice(s, s.addressing, e.slot)
      \/ /\ x.type = "AddressDevice"
         /\ s.dev[e.slot].alloc /\ p # 0 /\ p = s.addressing /\ s.phase[p] = "AddressingDevice"
         /\ OnCommandCompletion(s, e) =
              InitializeDevice(ResetWaiting([s EXCEPT !.addressing = 0], p), p, e.slot)
      \/ /\ x.type = "ConfigureEndpoint"
         /\ s.dev[e.slot].alloc /\ p # 0 /\ s.phase[p] = "ConfiguringEndpoints"
         /\ OnCommandCompletion(s, e) = CompleteConfiguration(s, p, e.slot)
  BY Zenon, <1>2 DEF OnCommandCompletion
<1>4. CASE OnCommandCompletion(s, e) = s
  BY <1>1, <1>4
<1>5. CASE /\ x.type = "EnableSlot"
           /\ s.addressing # 0 /\ s.phase[s.addressing] = "EnablingSlot"
           /\ OnCommandCompletion(s, e) = AddressDevice(s, s.addressing, e.slot)
  <2>1. Owner(s, x) = s.addressing
    BY <1>5 DEF Owner
  <2>. QED BY <1>2, <1>5, <2>1, AddressDeviceOrderly
<1>6. CASE /\ x.type = "AddressDevice"
           /\ s.dev[e.slot].alloc /\ p # 0 /\ p = s.addressing /\ s.phase[p] = "AddressingDevice"
           /\ OnCommandCompletion(s, e) =
                InitializeDevice(ResetWaiting([s EXCEPT !.addressing = 0], p), p, e.slot)
  <2>1. Owner(s, x) = s.addressing
    BY <1>6 DEF Owner
  <2>. QED BY <1>2, <1>6, <2>1, InitializeDeviceOrderly
<1>7. CASE /\ x.type = "ConfigureEndpoint"
           /\ s.dev[e.slot].alloc /\ p # 0 /\ s.phase[p] = "ConfiguringEndpoints"
           /\ OnCommandCompletion(s, e) = CompleteConfiguration(s, p, e.slot)
  <2>1. Owner(s, x) = p
    BY <1>2, <1>7 DEF Owner
  <2>. QED BY <1>2, <1>7, <2>1, CompleteConfigurationOrderly
<1>. QED BY <1>3, <1>4, <1>5, <1>6, <1>7

-----------------------------------------------------------------------------
(* The steps.                                                              *)
LEMMA DoneSlots ==
  ASSUME NEW q \in Seq(Event), NEW i \in Done(q)
  PROVE  q[i].slot \in SlotId /\ q[i] \in Event
<1>1. q[i] \in Event /\ q[i].type = "CommandCompletion"
  BY DEF Done
<1>. QED BY <1>1 DEF Event

LEMMA EvtBits ==
  ASSUME NEW r \in EvtRing
  PROVE  Bits(r, EvtSize)
BY DEF EvtRing, EvtEntry, Bits

(* Before the driver's dequeue pointer there is always one free entry.     *)
LEMMA EventPosted ==
  ASSUME IInv, EventsOK, NEW e \in Event, PostEvent(e)
  PROVE  EventsOK' /\ posted' = Append(posted, e)
<1> DEFINE n == Len(posted)
           a == evtAt.index
           k == EvtSize
           q == Append(posted, e)
<1>1. posted \in Seq(Event) /\ n \in Nat /\ n < k /\ Holds(evt, evtAt, k, posted)
  BY DEF EventsOK
<1>2. k \in Nat /\ k >= 2 /\ a \in 0..(k - 1) /\ evtAt.cycle \in BOOLEAN /\ evt \in EvtRing
  BY Sizes DEF IInv, Around
<1>3. posted' = q /\ q \in Seq(Event) /\ Len(q) = n + 1 /\ evtAt' = evtAt
  BY <1>1 DEF PostEvent
<1>4. evt.index = Step(a, n, k) /\ evt.index \in 0..(k - 1)
  BY <1>1, <1>2 DEF Holds, EvtRing
<1>5. n + 1 < k
  <2> SUFFICES ASSUME n + 1 = k PROVE FALSE
    BY <1>1, <1>2
  <2>1. (evt.index + 1) % k # a
    BY DEF PostEvent, HasRoom
  <2> HIDE DEF n, a, k
  <2>2. PICK x \in Nat : x = evt.index + 1 /\ x < 2 * k
    BY <1>2, <1>4
  <2>3. CASE a = 0
    <3>1. x = k
      BY <1>1, <1>2, <1>4, <2>2, <2>3 DEF Step
    <3>2. x % k = x - k
      BY <1>2, <2>2, <3>1, OneRound
    <3>. QED BY <1>2, <2>1, <2>2, <2>3, <3>1, <3>2
  <2>4. CASE a # 0
    <3>1. x = a
      BY <1>1, <1>2, <1>4, <2>2, <2>4 DEF Step
    <3>2. x < k
      BY <1>2, <3>1
    <3>3. x % k = x
      BY <1>2, <2>2, <3>2, OneRound
    <3>. QED BY <2>1, <2>2, <3>1, <3>3
  <2>. QED BY <2>3, <2>4
<1>6. Holds(evt', evtAt, k, q)
  <2>1. evt' = Post(evt, k, e)
    BY DEF PostEvent
  <2> DEFINE x == [trb |-> e, cycle |-> evt.cycle]
             b == [evt.buf EXCEPT ![evt.index] = x]
             t == CopyToLast(evt, e)
  <2>2. t = [evt EXCEPT !.buf = b]
    BY DEF CopyToLast
  <2>3. evt' = IF evt.index + 1 = k THEN [t EXCEPT !.index = 0, !.cycle = ~@]
                                   ELSE [t EXCEPT !.index = @ + 1]
    BY <2>1 DEF Post
  <2>4. \A i \in 0..(k - 1) : b[i] = IF i = evt.index THEN x ELSE evt.buf[i]
    BY <1>2 DEF EvtRing
  <2> HIDE DEF b, k
  <2>5. /\ t.buf = b /\ t.index = evt.index /\ t.cycle = evt.cycle
        /\ t \in [buf : {b}, index : {evt.index}, cycle : {evt.cycle}]
    BY <1>2, <2>2 DEF EvtRing
  <2> HIDE DEF t
  <2>6. evt.index + 1 < k => evt'.index = evt.index + 1 /\ evt'.cycle = evt.cycle /\ evt'.buf = b
    BY <1>4, <2>3, <2>5
  <2>7. evt.index + 1 >= k => evt'.index = 0 /\ evt'.cycle = ~evt.cycle /\ evt'.buf = b
    BY <1>2, <1>4, <2>3, <2>5
  <2>8. \A i \in 0..(k - 1) : evt'.buf[i] = IF i = evt.index THEN x ELSE evt.buf[i]
    BY <1>2, <1>4, <2>4, <2>6, <2>7
  <2>9. Bits(evt, k)
    BY <1>2, EvtBits DEF k
  <2>10. Len(posted) < k
    BY <1>1
  <2>. QED BY ONLY <1>1, <1>2, <2>6, <2>7, <2>8, <2>9, <2>10, e \in Event, HoldsPut
<1>. QED BY <1>3, <1>5, <1>6 DEF EventsOK

LEMMA OrderlyRInv ==
  ASSUME IInv', EventsOK', NEW w, NEW m, Orderly(xhc', cmdAt', posted', slots', w, m)
  PROVE  RInv'
<1>1. w \in 0..(Span - 1) /\ m \in Nat /\ m + Len(xhc'.queued) <= Span
  BY DEF Orderly
<1>2. Len(xhc'.queued) \in Nat
  <2>1. xhc'.queued \in Seq(Command)
    BY DEF IInv, Good, XState
  <2>. QED BY <2>1
<1>3. m \in 0..Span
  BY <1>1, <1>2, SpanIs
<1>. QED BY <1>1, <1>3 DEF RInv

LEMMA RInvReady ==
  ASSUME IInv, RInv
  PROVE  \E w \in 0..(Span - 1), m \in Nat : Ready(xhc, cmdAt, posted, slots, w, m)
<1>1. PICK w \in 0..(Span - 1), m \in 0..Span : Orderly(xhc, cmdAt, posted, slots, w, m)
  BY DEF RInv
<1>2. m \in Nat
  BY SpanIs
<1>3. \A i \in Done(posted) : posted[i].slot \in SlotId
  BY DoneSlots DEF RInv, EventsOK
<1>. QED BY <1>1, <1>2, <1>3 DEF Ready, IInv, Around

(* A step that leaves the driver's commands and phases alone.              *)
LEMMA CalmStep ==
  ASSUME IInv, RInv, IInv', xhc' \in XState, SamePorts(xhc, xhc'), OnlyStarted(xhc, xhc'),
         xhc'.cmd = xhc.cmd, xhc'.queued = xhc.queued, xhc'.phase = xhc.phase,
         xhc'.addressing = xhc.addressing, cmdAt' = cmdAt, slots' = slots,
         \/ evt' = evt /\ evtAt' = evtAt /\ posted' = posted
         \/ \E e \in Event : e.type # "CommandCompletion" /\ PostEvent(e)
  PROVE  RInv'
<1>1. PICK w \in 0..(Span - 1), m \in Nat : Ready(xhc, cmdAt, posted, slots, w, m)
  BY RInvReady
<1>2. Orderly(xhc', cmdAt, posted, slots, w, m)
  BY <1>1, CalmOrderly DEF Ready, Good
<1>3. CASE evt' = evt /\ evtAt' = evtAt /\ posted' = posted
  <2>1. EventsOK'
    BY <1>3 DEF RInv, EventsOK
  <2>. QED BY <1>2, <1>3, <2>1, OrderlyRInv
<1>4. CASE \E e \in Event : e.type # "CommandCompletion" /\ PostEvent(e)
  <2>1. PICK e \in Event : e.type # "CommandCompletion" /\ PostEvent(e)
    BY <1>4
  <2>2. EventsOK' /\ posted' = Append(posted, e) /\ posted \in Seq(Event)
    BY <2>1, EventPosted DEF RInv, EventsOK
  <2>3. Orderly(xhc', cmdAt, Append(posted, e), slots, w, m)
    BY <1>2, <2>1, <2>2, OtherPosted
  <2>. QED BY <2>2, <2>3, OrderlyRInv
<1>. QED BY <1>3, <1>4

LEMMA InitializePortOrderly ==
  ASSUME IInv, RInv, IInv', InitializePort
  PROVE  RInv'
<1>1. boot \in Port
  BY Sizes DEF IInv, Around, InitializePort, Port
<1>2. PICK w \in 0..(Span - 1), m \in Nat : Ready(xhc, cmdAt, posted, slots, w, m)
  BY RInvReady
<1>3. Orderly(xhc', cmdAt, posted, slots, w, m)
  <2>1. CASE xhc.phase[boot] = "NotConnected"
    <3>1. Orderly(ResetPort(xhc, boot), cmdAt, posted, slots, w, m)
      BY <1>1, <1>2, <2>1, ResetPortOrderly
    <3>. QED BY <2>1, <3>1 DEF InitializePort
  <2>2. CASE xhc.phase[boot] # "NotConnected"
    BY <1>2, <2>2 DEF InitializePort, Ready
  <2>. QED BY <2>1, <2>2
<1>4. EventsOK' /\ cmdAt' = cmdAt /\ posted' = posted /\ slots' = slots
  BY DEF InitializePort, RInv, EventsOK
<1>. QED BY <1>3, <1>4, OrderlyRInv

(* The driver takes the first event that was posted.                       *)
LEMMA EventTaken ==
  ASSUME IInv, EventsOK, ProcessEvent
  PROVE  /\ EventsOK' /\ posted # <<>> /\ posted' = Tail(posted)
         /\ Front(evt, evtAt) = posted[1] /\ posted[1] \in Event
<1> DEFINE n == Len(posted)
           a == evtAt.index
           k == EvtSize
<1>1. posted \in Seq(Event) /\ n \in Nat /\ n < k /\ Holds(evt, evtAt, k, posted)
  BY DEF EventsOK
<1>2. k \in Nat /\ k >= 2 /\ a \in 0..(k - 1) /\ evtAt.cycle \in BOOLEAN /\ evt \in EvtRing
      /\ evtAt \in [index : 0..(k - 1), cycle : BOOLEAN]
  BY Sizes DEF IInv, Around
<1>3. n > 0 /\ Front(evt, evtAt) = posted[1]
  BY <1>1, <1>2, HoldsFront DEF ProcessEvent, HasFront, Front
<1>4. posted # <<>> /\ posted[1] \in Event /\ Tail(posted) \in Seq(Event) /\ Len(Tail(posted)) = n - 1
  BY <1>1, <1>3
<1>5. posted' = Tail(posted) /\ evtAt' = Pop(evtAt, k) /\ evt' = Forget(evt, evtAt)
  BY <1>4 DEF ProcessEvent
<1>6. Holds(evt', evtAt', k, Tail(posted))
  <2> DEFINE b == [evt.buf EXCEPT ![a].trb = Blank]
  <2>1. evt' = [evt EXCEPT !.buf = b]
    BY <1>2, <1>5 DEF Forget, EvtRing
  <2>2. evt.buf \in [0..(k - 1) -> EvtEntry]
    BY <1>2 DEF EvtRing
  <2>3. \A i \in 0..(k - 1) : /\ b[i].cycle = evt.buf[i].cycle
                              /\ i # a => b[i].trb = evt.buf[i].trb
    <3>1. ASSUME NEW i \in 0..(k - 1)
          PROVE  b[i].cycle = evt.buf[i].cycle /\ (i # a => b[i].trb = evt.buf[i].trb)
      <4>1. evt.buf[i] \in EvtEntry
        BY <2>2
      <4>2. CASE i = a
        <5>1. b[i] = [evt.buf[i] EXCEPT !.trb = Blank]
          BY <2>2, <4>2
        <5> HIDE DEF a, b
        <5>. QED BY <4>1, <4>2, <5>1 DEF EvtEntry
      <4>3. CASE i # a
        BY <2>2, <4>3
      <4>. QED BY <4>2, <4>3
    <3>. QED BY <3>1
  <2> HIDE DEF b
  <2>4. evt'.index = evt.index /\ evt'.cycle = evt.cycle /\ evt'.buf = b
    BY <1>2, <2>1 DEF EvtRing
  <2>5. /\ evtAt.index + 1 < k => evtAt'.index = evtAt.index + 1 /\ evtAt'.cycle = evtAt.cycle
        /\ evtAt.index + 1 >= k => evtAt'.index = 0 /\ evtAt'.cycle = ~ evtAt.cycle
    BY <1>2, <1>5 DEF Pop
  <2>6. Bits(evt, k)
    BY <1>2, EvtBits
  <2>7. \A i \in 0..(k - 1) : /\ evt'.buf[i].cycle = evt.buf[i].cycle
                              /\ i # evtAt.index => evt'.buf[i].trb = evt.buf[i].trb
    BY <2>3, <2>4
  <2>8. Len(posted) > 0
    BY <1>3
  <2> HIDE DEF k
  <2>. QED BY ONLY <1>1, <1>2, <2>4, <2>5, <2>6, <2>7, <2>8, HoldsTake
<1>7. n - 1 < k
  BY <1>1, <1>2
<1>. QED BY <1>3, <1>4, <1>5, <1>6, <1>7 DEF EventsOK

LEMMA ProcessEventOrderly ==
  ASSUME IInv, RInv, IInv', ProcessEvent
  PROVE  RInv'
<1>1. PICK w \in 0..(Span - 1), m \in Nat : Ready(xhc, cmdAt, posted, slots, w, m)
  BY RInvReady
<1>2. /\ EventsOK' /\ posted # <<>> /\ posted' = Tail(posted)
      /\ Front(evt, evtAt) = posted[1] /\ posted[1] \in Event
  BY EventTaken DEF RInv
<1>3. posted \in Seq(Event) /\ Tail(posted) \in Seq(Event)
  BY <1>2 DEF RInv, EventsOK
<1>4. PICK e \in Event : e = posted[1]
  BY <1>2
<1>5. /\ e.type = "Transfer" => e.slot \in SlotId
      /\ e.type = "CommandCompletion" => e.slot \in SlotId
      /\ e.type = "PortStatusChange" => e.port \in Port
  BY DEF Event
<1>6. \/ e.type = "Transfer" /\ xhc' = OnTransfer(xhc, e)
      \/ e.type = "PortStatusChange" /\ xhc' = OnPortStatusChange(xhc, e.port)
      \/ e.type = "CommandCompletion" /\ xhc' = OnCommandCompletion(xhc, e)
      \/ e.type # "CommandCompletion" /\ xhc' = xhc
  BY Zenon, <1>2, <1>4 DEF ProcessEvent
<1>7. \A i \in Done(Tail(posted)) : Tail(posted)[i].slot \in SlotId
  BY <1>3, DoneSlots
<1>8. cmdAt' = cmdAt /\ slots' = slots
  BY DEF ProcessEvent
<1>9. CASE e.type # "CommandCompletion"
  <2>1. Orderly(xhc, cmdAt, Tail(posted), slots, w, m)
    BY <1>1, <1>2, <1>3, <1>4, <1>9, OtherTaken DEF Ready
  <2>2. Ready(xhc, cmdAt, Tail(posted), slots, w, m)
    BY <1>1, <1>7, <2>1 DEF Ready
  <2>3. Orderly(xhc', cmdAt, Tail(posted), slots, w, m)
    BY <1>5, <1>6, <1>9, <2>1, <2>2, OnTransferOrderly, OnPortStatusChangeOrderly
  <2>. QED BY <1>2, <1>8, <2>3, OrderlyRInv
<1>10. CASE e.type = "CommandCompletion"
  <2>1. PICK v, k : v = Step(w, 1, Span) /\ k = m - 1
    OBVIOUS
  <2>2. /\ Orderly(xhc, cmdAt, Tail(posted), slots, v, k)
        /\ Answered(xhc, e, w, Places(xhc, v, k), slots)
    BY <1>1, <1>2, <1>3, <1>4, <1>10, <2>1, CompletionTaken DEF Ready, Good
  <2>3. Ready(xhc, cmdAt, Tail(posted), slots, v, k)
    BY <1>1, <1>7, <2>2 DEF Ready
  <2>4. xhc' = OnCommandCompletion(xhc, e)
    BY <1>6, <1>10
  <2>5. Orderly(xhc', cmdAt, Tail(posted), slots, v, k)
    BY <1>5, <1>10, <2>2, <2>3, <2>4, OnCommandCompletionOrderly
  <2>. QED BY <1>2, <1>8, <2>5, OrderlyRInv
<1>. QED BY <1>9, <1>10

(* Where the commands of the queue are.                                    *)
LEMMA QueuedAt ==
  ASSUME NEW s \in XState, NEW c, NEW q, NEW sl, NEW w, NEW m, Orderly(s, c, q, sl, w, m),
         NEW j \in 1..Len(s.queued)
  PROVE  LET i == Step(c.index, j - 1, Span)
         IN  /\ i \in Places(s, w, m) /\ s.cmd.buf[i].trb = s.queued[j]
             /\ Ahead(i, c.index, Span) = j - 1
<1> DEFINE n == Len(s.queued)
           a == c.index
<1>1. /\ n \in Nat /\ w \in 0..(Span - 1) /\ m \in Nat /\ m + n <= Span
      /\ a = Step(w, m, Span) /\ Holds(s.cmd, c, Span, s.queued)
  BY DEF Orderly, XState
<1>2. PICK l \in Nat : l = j - 1 /\ l + 1 = j /\ l < n /\ m + l < Span /\ l < Span
  <2> HIDE DEF n, a
  <2>1. j \in 1..n
    BY DEF n
  <2>. QED BY <1>1, <2>1, SpanIs
<1>3. PICK i : i = Step(a, l, Span)
  OBVIOUS
<1>4. a \in 0..(Span - 1)
  BY <1>1 DEF Holds
<1>5. i \in 0..(Span - 1) /\ Ahead(i, a, Span) = l
  BY <1>2, <1>3, <1>4, SpanIs, AheadStep
<1>6. s.cmd.buf[i].trb = s.queued[l + 1]
  BY <1>1, <1>2, <1>5 DEF Holds
<1>7. i \in Live(w, m + n)
  <2> HIDE DEF n, a
  <2>1. i = Step(w, m + l, Span)
    BY <1>1, <1>2, <1>3, SpanIs, StepTwice
  <2>2. PICK x \in Nat : x = m + l /\ x < Span
    BY <1>1, <1>2
  <2>3. Ahead(i, w, Span) = x
    BY <1>1, <2>1, <2>2, SpanIs, AheadStep
  <2>4. x < m + n
    BY <1>1, <1>2, <2>2
  <2>. QED BY <1>5, <2>3, <2>4 DEF Live
<1>. QED BY <1>2, <1>3, <1>5, <1>6, <1>7 DEF Places

LEMMA CmdBits ==
  ASSUME NEW s \in XState
  PROVE  Bits(s.cmd, Span)
<1>1. s.cmd.cycle \in BOOLEAN /\ s.cmd.buf \in [0..(CmdSize - 1) -> CmdEntry]
  BY DEF XState, CmdRing
<1>2. \A i \in 0..(Span - 1) : i \in 0..(CmdSize - 1)
  BY SpanIs, Sizes
<1>. QED BY <1>1, <1>2 DEF Bits, CmdEntry

(* The controller follows the link exactly at the end of a round.          *)
LEMMA ConsumeIs ==
  ASSUME NEW s \in XState, NEW c, c \in [index : 0..(CmdSize - 1), cycle : BOOLEAN],
         Holds(s.cmd, c, Span, s.queued), LinkOK(s.cmd, c), HasFront(s.cmd, c)
  PROVE  /\ Len(s.queued) > 0 /\ Front(s.cmd, c) = s.queued[1]
         /\ c.index + 1 < Span => Consume(s.cmd, c) = [index |-> c.index + 1, cycle |-> c.cycle]
         /\ c.index + 1 >= Span => /\ Consume(s.cmd, c) = [index |-> 0, cycle |-> ~ c.cycle]
                                   /\ s.cmd.cycle = ~ c.cycle
<1> DEFINE n == Len(s.queued)
           a == c.index
           next == [c EXCEPT !.index = @ + 1]
<1>1. s.queued \in Seq(Command) /\ n \in Nat /\ a \in 0..(Span - 1) /\ c.cycle \in BOOLEAN
  BY DEF XState, Holds
<1>2. n > 0 /\ Front(s.cmd, c) = s.queued[1]
  <2>1. Span \in Nat /\ Len(s.queued) \in Nat
    BY <1>1, SpanIs
  <2>2. /\ s.cmd.buf[c.index].cycle = c.cycle <=> Len(s.queued) > 0
        /\ Len(s.queued) > 0 => s.cmd.buf[c.index].trb = s.queued[1]
    BY <1>1, <2>1, HoldsFront
  <2>. QED BY <2>2 DEF HasFront, Front
<1>3. next = [index |-> a + 1, cycle |-> c.cycle]
  OBVIOUS
<1>4. Consume(s.cmd, c) = IF s.cmd.buf[a + 1].cycle = c.cycle /\ s.cmd.buf[a + 1].trb = LinkTRB
                          THEN [index |-> 0, cycle |-> ~ c.cycle] ELSE next
  BY <1>3 DEF Consume, HasFront, Front
<1>5. ASSUME a + 1 < Span
      PROVE  ~ (s.cmd.buf[a + 1].cycle = c.cycle /\ s.cmd.buf[a + 1].trb = LinkTRB)
  <2>1. PICK b \in 0..(Span - 1) : b = a + 1
    BY <1>1, <1>5, SpanIs
  <2>2. Ahead(b, a, Span) = 1 /\ b >= a
    BY <1>1, <2>1, SpanIs DEF Ahead
  <2>3. IF 1 < n THEN s.cmd.buf[b].trb = s.queued[1 + 1]
                 ELSE s.cmd.buf[b].cycle = ~ c.cycle
    BY <2>1, <2>2 DEF Holds
  <2>4. CASE 1 < n
    <3>1. s.queued[2] \in Command
      BY <1>1, <2>4
    <3>2. s.queued[2] # LinkTRB
      BY <3>1 DEF Command, LinkTRB
    <3>. QED BY <2>1, <2>3, <2>4, <3>2
  <2>5. CASE ~ (1 < n)
    BY <1>1, <2>1, <2>3, <2>5
  <2>. QED BY <2>4, <2>5
<1>6. ASSUME a + 1 >= Span
      PROVE  /\ s.cmd.buf[a + 1].cycle = c.cycle /\ s.cmd.buf[a + 1].trb = LinkTRB
             /\ s.cmd.cycle = ~ c.cycle
  <2>1. a + 1 = CmdSize - 1 /\ a + n >= Span
    <3> HIDE DEF a, n
    <3>1. a + 1 = Span /\ a + n >= Span
      BY <1>1, <1>2, <1>6, SpanIs
    <3>. QED BY <3>1 DEF Span
  <2>2. s.cmd.cycle = ~ c.cycle
    BY <2>1 DEF Holds
  <2>3. s.cmd.buf[CmdSize - 1] = [trb |-> LinkTRB, cycle |-> c.cycle]
    BY <2>2 DEF LinkOK
  <2>. QED BY <2>1, <2>2, <2>3
<1>. QED BY <1>2, <1>3, <1>4, <1>5, <1>6

LEMMA ExecuteCommandOrderly ==
  ASSUME IInv, RInv, IInv', ExecuteCommand
  PROVE  RInv'
<1>1. PICK w \in 0..(Span - 1), m \in Nat : Ready(xhc, cmdAt, posted, slots, w, m)
  BY RInvReady
<1>2. PICK c, slot : Executed(c, slot)
  BY ExecuteCommandIs
<1>3. PICK n \in Nat, a \in 0..(CmdSize - 2) : n = Len(xhc.queued) /\ a = cmdAt.index
  <2>1. xhc.queued \in Seq(Command)
    BY DEF IInv, Good, XState
  <2>. QED BY <1>2, <2>1 DEF Executed
<1>4. PICK e \in Event : /\ PostEvent(e) /\ e.type = "CommandCompletion" /\ e.at = a /\ e.slot = slot
  <2>1. a \in Nat /\ slot \in SlotId
    BY <1>2, Sizes DEF Executed
  <2>2. [type |-> "CommandCompletion", at |-> a, slot |-> slot] \in Event
    BY <2>1 DEF Event
  <2>. QED BY <1>2, <1>3, <2>2 DEF Executed
<1>5. EventsOK' /\ posted' = Append(posted, e) /\ posted \in Seq(Event)
  BY <1>4, EventPosted DEF RInv, EventsOK
<1>6. /\ xhc \in XState /\ cmdAt \in [index : 0..(CmdSize - 1), cycle : BOOLEAN]
      /\ Orderly(xhc, cmdAt, posted, slots, w, m) /\ xhc.queued \in Seq(Command)
  BY <1>1 DEF IInv, Good, Around, Ready, XState
<1>7. /\ xhc' \in XState /\ xhc'.phase = xhc.phase /\ xhc'.addressing = xhc.addressing
      /\ xhc'.cmd = xhc.cmd
  BY <1>2 DEF Executed
<1>8. /\ Holds(xhc.cmd, cmdAt, Span, xhc.queued) /\ LinkOK(xhc.cmd, cmdAt) /\ m + n <= Span
      /\ a = Step(w, m, Span) /\ Trail(posted, w, m) /\ Claims(xhc, Places(xhc, w, m))
      /\ AnswersOK(xhc, posted, slots) /\ SlotsOK(xhc, slots)
  BY <1>3, <1>6 DEF Orderly
<1>9. PICK f : f = Consume(xhc.cmd, cmdAt) /\ cmdAt' = f
  BY DEF ExecuteCommand
<1>10. /\ n > 0 /\ c = xhc.queued[1]
       /\ a + 1 < Span => f.index = a + 1 /\ f.cycle = cmdAt.cycle
       /\ a + 1 >= Span => f.index = 0 /\ f.cycle = ~ cmdAt.cycle /\ xhc.cmd.cycle = ~ cmdAt.cycle
  <2>1. HasFront(xhc.cmd, cmdAt) /\ c = Front(xhc.cmd, cmdAt)
    BY <1>2 DEF ExecuteCommand, Executed
  <2>2. /\ Len(xhc.queued) > 0 /\ Front(xhc.cmd, cmdAt) = xhc.queued[1]
        /\ cmdAt.index + 1 < Span => f = [index |-> cmdAt.index + 1, cycle |-> cmdAt.cycle]
        /\ cmdAt.index + 1 >= Span => /\ f = [index |-> 0, cycle |-> ~ cmdAt.cycle]
                                      /\ xhc.cmd.cycle = ~ cmdAt.cycle
    BY ONLY <1>6, <1>8, <1>9, <2>1, ConsumeIs
  <2>. QED BY <1>3, <2>1, <2>2
<1>11. /\ xhc'.queued = Tail(xhc.queued) /\ Len(xhc'.queued) = n - 1
       /\ \A j \in 1..(n - 1) : xhc'.queued[j] = xhc.queued[j + 1]
  <2>1. xhc'.queued = Tail(xhc.queued)
    BY <1>2, <1>3, <1>6, <1>10 DEF Executed
  <2>. QED BY <1>3, <1>6, <1>10, <2>1
<1>12. Holds(xhc'.cmd, f, Span, xhc'.queued)
  <2>1. Bits(xhc.cmd, Span) /\ Span \in Nat
    BY <1>6, CmdBits, SpanIs
  <2>2. Len(xhc.queued) > 0 /\ cmdAt.cycle \in BOOLEAN
    BY <1>3, <1>6, <1>10
  <2>3. /\ cmdAt.index + 1 < Span => f.index = cmdAt.index + 1 /\ f.cycle = cmdAt.cycle
        /\ cmdAt.index + 1 >= Span => f.index = 0 /\ f.cycle = ~ cmdAt.cycle
    BY <1>3, <1>10
  <2>4. PICK r : r = xhc.cmd
    OBVIOUS
  <2>5. Holds(r, f, Span, Tail(xhc.queued))
    BY ONLY <1>6, <1>8, <2>1, <2>2, <2>3, <2>4, HoldsTake
  <2>. QED BY <1>7, <1>11, <2>4, <2>5
<1>13. LinkOK(xhc'.cmd, f)
  <2>1. CASE a + 1 < Span
    BY <1>7, <1>8, <1>10, <2>1 DEF LinkOK
  <2>2. CASE a + 1 >= Span
    <3>1. cmdAt.cycle \in BOOLEAN
      BY <1>6
    <3>. QED BY <1>7, <1>10, <2>2, <3>1 DEF LinkOK
  <2>. QED BY <1>3, <2>1, <2>2, SpanIs
<1>14. /\ f.index = Step(w, m + 1, Span) /\ m + 1 \in Nat /\ (m + 1) + Len(xhc'.queued) = m + n
       /\ Places(xhc', w, m + 1) = Places(xhc, w, m)
  <2>1. f.index = Step(w, m + 1, Span)
    <3>1. PICK g, k \in Nat : /\ k = Span
                              /\ a + 1 < k => g = a + 1
                              /\ a + 1 >= k => g = 0
                              /\ g = f.index
      <4>1. a + 1 \in Nat /\ Span \in Nat /\ 0 \in Nat
        BY <1>3, Sizes, SpanIs
      <4>2. f.index \in Nat
        BY <1>3, <1>10, <4>1, SpanIs
      <4>. QED BY <1>10, <4>1, <4>2
    <3>2. m + n <= k /\ n > 0 /\ a = Step(w, m, k) /\ w \in 0..(k - 1) /\ k = Span
      BY <1>1, <1>8, <1>10, <3>1
    <3>3. g = Step(w, m + 1, k)
      BY ONLY <3>1, <3>2, m \in Nat, n \in Nat DEF Step
    <3>. QED BY <3>1, <3>2, <3>3
  <2>2. m + 1 \in Nat /\ (m + 1) + Len(xhc'.queued) = m + n
    <3>1. PICK l : l = Len(xhc'.queued) /\ l = n - 1
      BY <1>11
    <3>. QED BY <3>1
  <2>. QED BY <1>3, <2>1, <2>2 DEF Places
<1>15. a \in 0..(Span - 1) /\ Ahead(a, w, Span) = m
  <2>1. m < Span
    BY <1>3, <1>8, <1>10, SpanIs
  <2>. QED BY <1>8, <2>1, SpanIs, AheadStep
<1>16. a \in Places(xhc, w, m) /\ xhc.cmd.buf[a].trb = c
  <2>1. 1 \in 1..Len(xhc.queued) /\ Step(a, 0, Span) = a
    BY <1>3, <1>10, <1>15, SpanIs DEF Step
  <2>2. Step(a, 1 - 1, Span) \in Places(xhc, w, m) /\ xhc.cmd.buf[Step(a, 1 - 1, Span)].trb = xhc.queued[1]
    BY <1>3, <1>6, <2>1, QueuedAt
  <2>. QED BY <1>10, <2>1, <2>2
<1>17. /\ \A i \in Done(posted) : i \in 1..Len(posted) /\ posted'[i] = posted[i] /\ i \in Done(posted')
       /\ \A i \in Done(posted') : i \in Done(posted) \/ i = Len(posted) + 1
       /\ Len(posted) + 1 \in Done(posted') /\ posted'[Len(posted) + 1] = e /\ Len(posted) \in Nat
  BY <1>4, <1>5, DoneAppend
<1>18. Trail(posted', w, m + 1)
  <2>1. \A i \in Done(posted) : /\ posted[i].at \in 0..(Span - 1)
                                /\ Ahead(posted[i].at, w, Span) \in 0..(Span - 1)
                                /\ Ahead(posted[i].at, w, Span) < m
    <3>1. \A x \in 0..(Span - 1) : Ahead(x, w, Span) \in 0..(Span - 1)
      BY SpanIs, AheadIs
    <3>. QED BY <1>8, <3>1 DEF Trail
  <2>2. ASSUME NEW i \in Done(posted')
        PROVE  posted'[i].at \in 0..(Span - 1) /\ Ahead(posted'[i].at, w, Span) < m + 1
    <3>1. CASE i \in Done(posted)
      BY <1>17, <2>1, <3>1
    <3>2. CASE i = Len(posted) + 1
      BY <1>4, <1>15, <1>17, <3>2
    <3>. QED BY <1>17, <3>1, <3>2
  <2>3. ASSUME NEW i \in Done(posted'), NEW j \in Done(posted'), i < j
        PROVE  Ahead(posted'[i].at, w, Span) < Ahead(posted'[j].at, w, Span)
    <3>1. i \in Done(posted)
      BY <1>17, <2>3
    <3>2. CASE j \in Done(posted)
      BY <1>8, <1>17, <2>3, <3>1, <3>2 DEF Trail
    <3>3. CASE j = Len(posted) + 1
      BY <1>4, <1>15, <1>17, <2>1, <3>1, <3>3
    <3>. QED BY <1>17, <3>2, <3>3
  <2>4. ASSUME NEW x \in 0..((m + 1) - 1)
        PROVE  \E i \in Done(posted') : Ahead(posted'[i].at, w, Span) = x
    <3>1. CASE x = m
      BY <1>4, <1>15, <1>17, <3>1
    <3>2. CASE x # m
      <4>1. x \in 0..(m - 1)
        BY <3>2
      <4>2. PICK i \in Done(posted) : Ahead(posted[i].at, w, Span) = x
        BY <1>8, <4>1 DEF Trail
      <4>. QED BY <1>17, <4>2
    <3>. QED BY <3>1, <3>2
  <2>. QED BY <2>2, <2>3, <2>4 DEF Trail
(* Only the device context of an AddressDevice command is written, and it  *)
(* was empty before.                                                       *)
<1>19. \A i \in SlotId :
         /\ xhc'.dev[i].alloc = xhc.dev[i].alloc /\ xhc'.dev[i].init = xhc.dev[i].init
         /\ \/ xhc'.dev[i].ctxPort = xhc.dev[i].ctxPort
            \/ /\ c.type = "AddressDevice" /\ i = c.slot /\ i # 0
               /\ xhc.dev[i].ctxPort = 0 /\ xhc'.dev[i].ctxPort # 0
  <2>1. CASE xhc'.dev = xhc.dev
    BY <2>1
  <2>2. CASE c.type = "AddressDevice" /\ c.slot \in slots /\ \E p : Assigned(xhc, xhc', c.slot, p)
    <3>1. PICK p : Assigned(xhc, xhc', c.slot, p)
      BY <2>2
    <3>2. PICK k \in SlotId : k = c.slot
      BY <3>1 DEF Assigned
    <3>3. /\ xhc.dev[k] \in Device /\ p # 0 /\ p \in 0..MaxPorts
          /\ xhc'.dev = [xhc.dev EXCEPT ![k] = [xhc.dev[k] EXCEPT !.ctxPort = p]]
      <4>1. p \in Port
        BY <3>1 DEF Assigned
      <4>2. p # 0 /\ p \in 0..MaxPorts
        BY <4>1, Sizes DEF Port
      <4>. QED BY <3>1, <3>2, <4>2 DEF Assigned
    <3>4. k # 0
      BY <2>2, <3>2 DEF IInv, Around
    <3>5. xhc.dev[k].ctxPort = 0
      <4>1. 1 \in 1..Len(xhc.queued)
        BY <1>3, <1>10
      <4>. QED BY <1>8, <1>10, <2>2, <3>2, <3>4, <4>1 DEF SlotsOK
    <3>6. xhc'.dev[k] = [xhc.dev[k] EXCEPT !.ctxPort = p]
          /\ \A i \in SlotId : i # k => xhc'.dev[i] = xhc.dev[i]
      BY <1>6, <3>3 DEF XState
    <3>7. xhc'.dev[k].alloc = xhc.dev[k].alloc /\ xhc'.dev[k].init = xhc.dev[k].init
          /\ xhc'.dev[k].ctxPort = p
      <4>1. PICK d \in Device : d = xhc.dev[k]
        BY <3>3
      <4>2. PICK after : after = [d EXCEPT !.ctxPort = p]
        OBVIOUS
      <4>3. after.alloc = d.alloc /\ after.init = d.init
        BY ONLY <4>1, <4>2 DEF Device
      <4>4. after.ctxPort = p
        BY ONLY <4>1, <4>2 DEF Device
      <4>5. xhc'.dev[k] = after
        BY <3>6, <4>1, <4>2
      <4>. QED BY <4>1, <4>3, <4>4, <4>5
    <3>. QED BY <2>2, <3>2, <3>3, <3>4, <3>5, <3>6, <3>7
  <2>. QED BY <1>2, <2>1, <2>2 DEF Executed
<1>20. Claims(xhc', Places(xhc, w, m))
  <2> SUFFICES ASSUME NEW i \in Places(xhc, w, m), NEW b, b = xhc.cmd.buf[i].trb
               PROVE  /\ Owner(xhc', b) = Owner(xhc, b)
                      /\ b.type = "ConfigureEndpoint" /\ xhc.dev[b.slot].alloc => xhc'.dev[b.slot].alloc
    BY <1>7, <1>8, ClaimsKept
  <2>1. b \in Command /\ Owner(xhc, b) \in Port
    BY <1>8 DEF Claims
  <2>2. b.slot \in SlotId
    BY <2>1 DEF Command
  <2>3. 0 \notin Port
    BY Sizes DEF Port
  <2>. QED BY <1>7, <1>19, <2>1, <2>2, <2>3 DEF Owner
<1>21. AnswersOK(xhc', posted', slots')
  <2> SUFFICES ASSUME NEW i \in Done(posted'), NEW b, b = xhc.cmd.buf[posted'[i].at].trb
               PROVE  /\ b.type = "EnableSlot" =>
                           \/ posted'[i].slot = 0
                           \/ posted'[i].slot \in slots' /\ ~xhc'.dev[posted'[i].slot].alloc
                      /\ b.type = "ConfigureEndpoint" => posted'[i].slot = b.slot
    BY <1>7 DEF AnswersOK
  <2>1. slots \subseteq slots' /\ slot \in SlotId
    BY <1>2 DEF Executed
  <2>2. CASE i \in Done(posted)
    <3>1. posted[i].slot \in SlotId /\ posted'[i] = posted[i]
      BY <1>5, <1>17, <2>2, DoneSlots
    <3>. QED BY <1>8, <1>19, <2>1, <2>2, <3>1 DEF AnswersOK
  <2>3. CASE i = Len(posted) + 1
    <3>1. posted'[i] = e /\ b = c
      BY <1>4, <1>16, <1>17, <2>3
    <3>2. c.type = "ConfigureEndpoint" => slot = c.slot
      BY <1>2 DEF Executed
    <3>3. c.type = "EnableSlot" => slot = 0 \/ (slot \in slots' /\ slot \notin slots)
      BY <1>2 DEF Executed
    <3>4. slot # 0 /\ slot \notin slots => ~ xhc'.dev[slot].alloc
      BY <1>8, <1>19, <2>1 DEF SlotsOK
    <3>. QED BY <1>4, <3>1, <3>2, <3>3, <3>4
  <2>. QED BY <1>17, <2>2, <2>3
<1>22. SlotsOK(xhc', slots')
  <2>1. slots \subseteq slots'
    BY <1>2 DEF Executed
  <2>2. \A i \in SlotId : xhc'.dev[i].alloc =>
          /\ i # 0 => i \in slots'
          /\ xhc'.dev[i].init # 0 => xhc'.dev[i].ctxPort # 0
    BY <1>8, <1>19, <2>1 DEF SlotsOK
  <2>3. ASSUME NEW j \in 1..(n - 1), xhc'.queued[j].type = "AddressDevice"
        PROVE  \/ xhc'.queued[j].slot = 0
               \/ xhc'.dev[xhc'.queued[j].slot].alloc /\ xhc'.dev[xhc'.queued[j].slot].ctxPort = 0
    <3>a. PICK l \in 1..n : l = j + 1
      BY <1>3
    <3>b. PICK b : b = xhc.queued[l]
      OBVIOUS
    <3>1. l = j + 1 /\ b = xhc.queued[l] /\ b = xhc'.queued[j]
      BY <1>11, <3>a, <3>b
    <3>2. b \in Command /\ b.slot \in SlotId
      <4>1. \A i \in 1..Len(xhc.queued) : xhc.queued[i] \in Command
        BY <1>6
      <4>2. b \in Command
        BY <1>3, <3>1, <4>1
      <4>. QED BY <4>2 DEF Command
    <3>3. b.slot = 0 \/ (xhc.dev[b.slot].alloc /\ xhc.dev[b.slot].ctxPort = 0)
      BY <1>3, <1>8, <2>3, <3>1 DEF SlotsOK
    <3>4. c.type # "AddressDevice"
      <4> SUFFICES ASSUME c.type = "AddressDevice" PROVE FALSE
        OBVIOUS
      <4>1. PICK i : /\ i \in Places(xhc, w, m) /\ xhc.cmd.buf[i].trb = b
                     /\ Ahead(i, a, Span) = l - 1
        <5>1. l \in 1..Len(xhc.queued)
          BY <1>3
        <5>2. PICK i : i = Step(a, l - 1, Span)
          OBVIOUS
        <5>3. /\ i \in Places(xhc, w, m) /\ xhc.cmd.buf[i].trb = xhc.queued[l]
              /\ Ahead(i, cmdAt.index, Span) = l - 1
          BY ONLY <1>3, <1>6, <5>1, <5>2, QueuedAt
        <5>. QED BY <1>3, <3>1, <5>3
      <4>2. Owner(xhc, b) = Owner(xhc, c)
        BY <2>3, <3>1 DEF Owner
      <4>3. i = a
        BY <1>8, <1>16, <4>1, <4>2 DEF Claims
      <4>4. Ahead(a, a, Span) = 0
        BY <1>15, SpanIs DEF Ahead
      <4>. QED BY <3>1, <4>1, <4>3, <4>4
    <3>. QED BY <1>19, <3>1, <3>2, <3>3, <3>4
  <2>. QED BY <1>11, <2>2, <2>3 DEF SlotsOK
<1>23. Orderly(xhc', f, posted', slots', w, m + 1)
  BY <1>8, <1>12, <1>13, <1>14, <1>18, <1>20, <1>21, <1>22 DEF Orderly
<1>. QED BY <1>5, <1>9, <1>23, OrderlyRInv

LEMMA NewRingHolds ==
  ASSUME NEW k \in Nat, k >= 1, NEW n \in Nat, k <= n
  PROVE  Holds(NewRing(n), NewConsumer, k, <<>>)
<1>1. PICK r : r = NewRing(n)
  OBVIOUS
<1>2. r.index = 0 /\ r.cycle = TRUE /\ NewConsumer.index = 0 /\ NewConsumer.cycle = TRUE
  BY <1>1 DEF NewRing, NewConsumer
<1>3. \A i \in 0..(k - 1) : r.buf[i].cycle = FALSE /\ i >= 0
  <2>1. r.buf = [i \in 0..n-1 |-> [trb |-> Blank, cycle |-> FALSE]]
    BY <1>1 DEF NewRing
  <2>2. \A i \in 0..(k - 1) : i \in 0..n-1 /\ i >= 0
    OBVIOUS
  <2>. QED BY <2>1, <2>2
<1>4. \A i \in 0..(k - 1) : ~ (Ahead(i, 0, k) < 0)
  BY DEF Ahead
<1>5. Len(<<>>) = 0 /\ Step(0, 0, k) = 0
  BY DEF Step
<1>6. Holds(r, NewConsumer, k, <<>>)
  <2>1. PICK c : c = NewConsumer
    OBVIOUS
  <2>2. c.index = 0 /\ c.cycle = TRUE
    BY <1>2, <2>1
  <2>3. c.index \in 0..(k - 1) /\ 0 <= k /\ 0 + 0 < k
    BY <2>2
  <2>4. \A i \in 0..(k - 1) :
          ~ (Ahead(i, c.index, k) < Len(<<>>)) /\ i >= c.index /\ r.buf[i].cycle = ~c.cycle
    BY <1>3, <1>4, <1>5, <2>2
  <2>5. Holds(r, c, k, <<>>)
    <3>1. Len(<<>>) <= k /\ r.index = Step(c.index, Len(<<>>), k) /\ r.cycle = c.cycle
      BY <1>2, <1>5, <2>2, <2>3
    <3>2. c.index + Len(<<>>) < k /\ ~ (c.index + Len(<<>>) >= k)
      BY <1>5, <2>2
    <3>. QED BY ONLY <2>3, <2>4, <3>1, <3>2 DEF Holds
  <2>. QED BY <2>1, <2>5
<1>. QED BY <1>1, <1>6

LEMMA InitRInv == Init => RInv
<1> SUFFICES ASSUME Init PROVE RInv
  OBVIOUS
<1>1. PICK plugged \in SUBSET Port, announced \in SUBSET Port :
        xhc = [phase |-> [p \in Port |-> "NotConnected"], addressing |-> 0,
               port |-> [p \in Port |-> [connected |-> p \in plugged, enabled |-> FALSE,
                                        csc |-> p \in plugged, prc |-> FALSE]],
               pending |-> announced, addr |-> [p \in Port |-> "none"],
               cmd |-> NewRing(CmdSize), queued |-> <<>>, dev |-> [i \in SlotId |-> NoDevice]]
  BY DEF Init
<1>2. /\ xhc.cmd = NewRing(CmdSize) /\ xhc.queued = <<>>
      /\ xhc.dev = [i \in SlotId |-> NoDevice]
  BY <1>1
<1>3. cmdAt = NewConsumer /\ evt = NewRing(EvtSize) /\ evtAt = NewConsumer /\ posted = <<>>
  BY DEF Init
<1>4. EventsOK
  <2>1. Holds(NewRing(EvtSize), NewConsumer, EvtSize, <<>>)
    BY Sizes, NewRingHolds
  <2>2. <<>> \in Seq(Event) /\ Len(<<>>) < EvtSize
    BY Sizes
  <2>. QED BY <1>3, <2>1, <2>2 DEF EventsOK
<1>5. Holds(xhc.cmd, cmdAt, Span, xhc.queued)
  <2>1. Span <= CmdSize /\ CmdSize \in Nat
    BY Sizes DEF Span
  <2>2. Holds(NewRing(CmdSize), NewConsumer, Span, <<>>)
    BY <2>1, SpanIs, NewRingHolds
  <2>. QED BY <1>2, <1>3, <2>2
<1>6. LinkOK(xhc.cmd, cmdAt) /\ cmdAt.index = 0
  <2>1. xhc.cmd.cycle = TRUE /\ cmdAt.cycle = TRUE /\ cmdAt.index = 0
    BY <1>2, <1>3 DEF NewRing, NewConsumer
  <2>2. ~ (xhc.cmd.cycle = ~cmdAt.cycle)
    BY <2>1
  <2>. QED BY <2>1, <2>2 DEF LinkOK
<1>7. Done(posted) = {} /\ Len(xhc.queued) = 0
  BY <1>2, <1>3 DEF Done
<1>8. Trail(posted, 0, 0) /\ AnswersOK(xhc, posted, slots)
  BY <1>7 DEF Trail, AnswersOK
<1>9. Places(xhc, 0, 0) = {}
  <2>1. \A i \in 0..(Span - 1) : ~ (Ahead(i, 0, Span) < 0)
    BY SpanIs DEF Ahead
  <2>. QED BY <1>7, <2>1 DEF Places, Live
<1>10. Claims(xhc, Places(xhc, 0, 0))
  BY <1>9 DEF Claims
<1>11. SlotsOK(xhc, slots)
  BY <1>2, <1>7 DEF SlotsOK, NoDevice
<1>12. 0 \in 0..(Span - 1) /\ 0 \in 0..Span /\ Step(0, 0, Span) = 0 /\ 0 + 0 <= Span
  BY SpanIs DEF Step
<1>13. Orderly(xhc, cmdAt, posted, slots, 0, 0)
  BY <1>5, <1>6, <1>7, <1>8, <1>10, <1>11, <1>12 DEF Orderly
<1>. QED BY <1>4, <1>12, <1>13 DEF RInv

LEMMA RInvStep == IInv /\ RInv /\ IInv' /\ [Next]_vars => RInv'
<1> SUFFICES ASSUME IInv, RInv, IInv', [Next]_vars PROVE RInv'
  OBVIOUS
<1>1. CASE UNCHANGED vars
  BY <1>1 DEF vars, RInv, EventsOK
<1>2. ASSUME OnlyDevices(xhc, xhc'), cmdAt' = cmdAt, slots' = slots,
             \/ evt' = evt /\ evtAt' = evtAt /\ posted' = posted
             \/ \E e \in Event : e.type # "CommandCompletion" /\ PostEvent(e)
      PROVE  RInv'
  BY <1>2, CalmStep DEF OnlyDevices
<1>3. ASSUME NEW p \in Port, PostPortEvent(p) PROVE RInv'
  BY <1>2, <1>3, PostPortEventIs
<1>4. ASSUME NEW p \in Port, Plug(p) PROVE RInv'
  BY <1>2, <1>4, PlugIs DEF Plug
<1>5. ASSUME NEW p \in Port, Unplug(p) PROVE RInv'
  <2>1. /\ xhc' \in XState /\ xhc'.phase = xhc.phase /\ xhc'.addressing = xhc.addressing
        /\ xhc'.cmd = xhc.cmd /\ xhc'.queued = xhc.queued /\ xhc'.dev = xhc.dev
    BY <1>5, UnplugIs
  <2>2. SamePorts(xhc, xhc') /\ OnlyStarted(xhc, xhc')
    BY <2>1 DEF SamePorts, OnlyStarted
  <2>3. cmdAt' = cmdAt /\ slots' = slots /\ evt' = evt /\ evtAt' = evtAt /\ posted' = posted
    BY <1>5 DEF Unplug
  <2>. QED BY ONLY IInv, RInv, IInv', <2>1, <2>2, <2>3, CalmStep
<1>6. ASSUME NEW slot \in SlotId, xhc.dev[slot].alloc, NEW d, NEW ok \in BOOLEAN,
             NEW request \in Request \cup {"Normal"}, Ended(slot, d, request, ok)
      PROVE  RInv'
  <2>1. OnlyDevices(xhc, xhc') /\ Transfer(slot, request, ok) \in Event
    BY <1>6, EndedIs
  <2>2. Transfer(slot, request, ok).type # "CommandCompletion"
    BY DEF Transfer
  <2>. QED BY <1>2, <1>6, <2>1, <2>2 DEF Ended
<1>7. ASSUME NEW slot \in SlotId, CompleteControl(slot) PROVE RInv'
  BY <1>6, <1>7, CompleteControlIs
<1>8. ASSUME NEW slot \in SlotId, CompleteInterrupt(slot) PROVE RInv'
  BY <1>6, <1>8, CompleteInterruptIs
<1>9. CASE Next
  BY <1>3, <1>4, <1>5, <1>7, <1>8, <1>9, InitializePortOrderly, ProcessEventOrderly,
     ExecuteCommandOrderly DEF Next
<1>. QED BY <1>1, <1>9

(* The rings are queues, for every size of the two rings that gives each   *)
(* port an entry of the command ring, over any number of rounds: the       *)
(* controller takes exactly the commands Ring::Push entered and the driver *)
(* exactly the events that were posted, in order, and a completion event   *)
(* still finds its command in the ring, with the port it is for in the     *)
(* phase that command belongs to.                                          *)
THEOREM RingsHold == Spec => []RingsAreQueues
<1>1. ASSUME IInv, RInv PROVE RingsAreQueues
  <2>1. PICK w \in 0..(Span - 1), m \in 0..Span : Orderly(xhc, cmdAt, posted, slots, w, m)
    BY <1>1 DEF RInv
  <2>2. xhc \in XState /\ xhc.queued \in Seq(Command) /\ cmdAt.cycle \in BOOLEAN
    BY <1>1 DEF IInv, Good, Around, XState
  <2>3. Shows(xhc.cmd, cmdAt, Span, xhc.queued)
    <3>1. Holds(xhc.cmd, cmdAt, Span, xhc.queued) /\ Bits(xhc.cmd, Span) /\ Span \in Nat
      BY <2>1, <2>2, CmdBits, SpanIs DEF Orderly
    <3>. QED BY <2>2, <3>1, HoldsShows
  <2>4. Shows(evt, evtAt, EvtSize, posted)
    <3>1. /\ posted \in Seq(Event) /\ Holds(evt, evtAt, EvtSize, posted) /\ Bits(evt, EvtSize)
          /\ EvtSize \in Nat /\ evtAt.cycle \in BOOLEAN
      BY <1>1, Sizes, EvtBits DEF RInv, EventsOK, IInv, Around
    <3>. QED BY <3>1, HoldsShows
  <2>5. ASSUME NEW i \in 1..Len(posted), posted[i].type = "CommandCompletion"
        PROVE  \E p \in Port : xhc.phase[p] =
                 CASE xhc.cmd.buf[posted[i].at].trb.type = "EnableSlot" -> "EnablingSlot"
                   [] xhc.cmd.buf[posted[i].at].trb.type = "AddressDevice" -> "AddressingDevice"
                   [] OTHER -> "ConfiguringEndpoints"
    <3>1. posted[i].at \in Places(xhc, w, m)
      BY <2>1, <2>2, <2>5, DoneInPlaces DEF Done
    <3>2. PICK b : b = xhc.cmd.buf[posted[i].at].trb
      OBVIOUS
    <3>3. Owner(xhc, b) \in Port /\ xhc.phase[Owner(xhc, b)] = PhaseOf(b)
      BY <2>1, <3>1, <3>2 DEF Orderly, Claims
    <3>4. PhaseOf(b) = CASE b.type = "EnableSlot" -> "EnablingSlot"
                         [] b.type = "AddressDevice" -> "AddressingDevice"
                         [] OTHER -> "ConfiguringEndpoints"
      BY DEF PhaseOf
    <3>. QED BY <3>2, <3>3, <3>4
  <2>. QED BY <2>3, <2>4, <2>5 DEF RingsAreQueues, Span
<1>. QED BY <1>1, InitIInv, IInvStep, InitRInv, RInvStep, PTL DEF Spec

-----------------------------------------------------------------------------
(* Reports.  An event that says that a report of the keyboard at a slot is *)
(* in its buffer, and how many of them the driver has not handled.         *)
IsReport(e, slot) == e.type = "Transfer" /\ e.slot = slot /\ e.request = "Normal" /\ e.ok
NoReport(q, slot) == \A i \in 1..Len(q) : ~ IsReport(q[i], slot)
OneReport(q, slot) ==
  \E i \in 1..Len(q) : /\ IsReport(q[i], slot)
                       /\ \A j \in 1..Len(q) : IsReport(q[j], slot) => j = i

(* A driver that runs has a read under way or a report to handle, one that *)
(* does not run yet has neither.                                           *)
ReadsOK(d, q, slot, keys) ==
  /\ d.hid # 2 => d.reads = 0 /\ NoReport(q, slot)
  /\ d.hid = 2 => \/ d.reads = 1 /\ NoReport(q, slot)
                  \/ d.reads = 0 /\ OneReport(q, slot)
  /\ NoReport(q, slot) => d.prev = d.buf
  /\ keys = d.prev

(* A driver is started once: its port is then configured for good.         *)
HidOK(s) ==
  \A slot \in SlotId : s.dev[slot].alloc /\ s.dev[slot].hid # 0 =>
    s.dev[slot].ctxPort # 0 /\ s.phase[s.dev[slot].ctxPort] = "Configured"

SentOK(s, q) == \A i \in 1..Len(q) : q[i].type = "Transfer" => s.dev[q[i].slot].alloc

SlotReports(s, q, down, slot) ==
  IF s.dev[slot].alloc THEN ReadsOK(s.dev[slot], q, slot, down[slot]) ELSE down[slot] = {}

Reporting(s, q, down) ==
  /\ down \in [SlotId -> SUBSET Keys] /\ HidOK(s) /\ SentOK(s, q)
  /\ \A slot \in SlotId : SlotReports(s, q, down, slot)

KInv == Reporting(xhc, posted, seen)

-----------------------------------------------------------------------------
(* The events of a slot when one is posted and when one is handled.        *)
LEMMA ReportPosted ==
  ASSUME NEW q \in Seq(Event), NEW e \in Event, NEW slot
  PROVE  /\ ~ IsReport(e, slot) /\ NoReport(q, slot) => NoReport(Append(q, e), slot)
         /\ ~ IsReport(e, slot) /\ NoReport(Append(q, e), slot) => NoReport(q, slot)
         /\ ~ IsReport(e, slot) /\ OneReport(q, slot) => OneReport(Append(q, e), slot)
         /\ IsReport(e, slot) /\ NoReport(q, slot) => OneReport(Append(q, e), slot)
<1> DEFINE n == Len(q)
           r == Append(q, e)
<1>1. n \in Nat /\ Len(r) = n + 1 /\ r[n + 1] = e /\ \A i \in 1..n : r[i] = q[i]
  OBVIOUS
<1>2. \A i \in 1..(n + 1) : i \in 1..n \/ i = n + 1
  BY <1>1
<1>3. \A i \in 1..n : i \in 1..(n + 1) /\ i # n + 1
  BY <1>1
<1>4. n + 1 \in 1..(n + 1)
  BY <1>1
<1> HIDE DEF n, r
<1>5. Len(q) = n
  BY DEF n
<1>6. ~ IsReport(e, slot) /\ NoReport(q, slot) => NoReport(r, slot)
  BY <1>1, <1>2, <1>5 DEF NoReport
<1>7. ~ IsReport(e, slot) /\ NoReport(r, slot) => NoReport(q, slot)
  BY <1>1, <1>3, <1>5 DEF NoReport
<1>8. ~ IsReport(e, slot) /\ OneReport(q, slot) => OneReport(r, slot)
  BY <1>1, <1>2, <1>3, <1>5 DEF OneReport
<1>9. IsReport(e, slot) /\ NoReport(q, slot) => OneReport(r, slot)
  BY <1>1, <1>2, <1>4, <1>5 DEF NoReport, OneReport
<1>. QED BY <1>6, <1>7, <1>8, <1>9 DEF r

LEMMA ReportTaken ==
  ASSUME NEW q \in Seq(Event), q # <<>>, NEW slot
  PROVE  /\ NoReport(q, slot) => NoReport(Tail(q), slot)
         /\ ~ IsReport(q[1], slot) /\ NoReport(Tail(q), slot) => NoReport(q, slot)
         /\ ~ IsReport(q[1], slot) /\ OneReport(q, slot) => OneReport(Tail(q), slot)
         /\ IsReport(q[1], slot) => ~ NoReport(q, slot)
         /\ IsReport(q[1], slot) /\ OneReport(q, slot) => NoReport(Tail(q), slot)
<1> DEFINE n == Len(q)
           r == Tail(q)
<1>1. n \in Nat /\ n >= 1 /\ Len(r) = n - 1 /\ \A i \in 1..(n - 1) : r[i] = q[i + 1]
  OBVIOUS
<1>2. \A i \in 1..(n - 1) : i + 1 \in 1..n /\ i + 1 # 1
  BY <1>1
<1>3. \A i \in 1..n : i = 1 \/ \E j \in 1..(n - 1) : i = j + 1
  <2>1. \A i \in 1..n : i # 1 => i - 1 \in 1..(n - 1) /\ i = (i - 1) + 1
    BY <1>1
  <2>. QED BY <2>1
<1>4. 1 \in 1..n
  BY <1>1
<1>5. \A i, j \in 1..(n - 1) : i + 1 = j + 1 => i = j
  BY <1>1
<1> HIDE DEF n, r
<1>6. Len(q) = n
  BY DEF n
<1>7. NoReport(q, slot) => NoReport(r, slot)
  BY <1>1, <1>2, <1>6 DEF NoReport
<1>8. ~ IsReport(q[1], slot) /\ NoReport(r, slot) => NoReport(q, slot)
  <2> SUFFICES ASSUME ~ IsReport(q[1], slot), NoReport(r, slot), NEW i \in 1..n
               PROVE  ~ IsReport(q[i], slot)
    BY <1>6 DEF NoReport
  <2>1. CASE i = 1
    BY <2>1
  <2>2. CASE i # 1
    <3>1. PICK j \in 1..(n - 1) : i = j + 1
      BY <1>3, <2>2
    <3>. QED BY <1>1, <3>1 DEF NoReport
  <2>. QED BY <2>1, <2>2
<1>9. ASSUME ~ IsReport(q[1], slot), OneReport(q, slot) PROVE OneReport(r, slot)
  <2>1. PICK i \in 1..n : IsReport(q[i], slot) /\ \A j \in 1..n : IsReport(q[j], slot) => j = i
    BY <1>6, <1>9 DEF OneReport
  <2>2. PICK j \in 1..(n - 1) : i = j + 1
    BY <1>3, <1>9, <2>1
  <2>3. IsReport(r[j], slot)
    BY <1>1, <2>1, <2>2
  <2>4. \A k \in 1..(n - 1) : IsReport(r[k], slot) => k = j
    BY <1>1, <1>2, <1>5, <2>1, <2>2
  <2>. QED BY <1>1, <2>3, <2>4 DEF OneReport
<1>10. IsReport(q[1], slot) => ~ NoReport(q, slot)
  BY <1>4, <1>6 DEF NoReport
<1>11. IsReport(q[1], slot) /\ OneReport(q, slot) => NoReport(r, slot)
  BY <1>1, <1>2, <1>4, <1>6 DEF NoReport, OneReport
<1>. QED BY <1>7, <1>8, <1>9, <1>10, <1>11 DEF r

(* A step of the driver that starts no read: phases of configured ports    *)
(* stay, devices keep what their drivers work on, and a new device has no  *)
(* driver.                                                                 *)
Keeps(s, t) ==
  /\ \A p \in Port : s.phase[p] = "Configured" => t.phase[p] = "Configured"
  /\ \A i \in SlotId :
       /\ s.dev[i].alloc =>
            /\ t.dev[i].alloc /\ t.dev[i].hid = s.dev[i].hid /\ t.dev[i].reads = s.dev[i].reads
            /\ t.dev[i].buf = s.dev[i].buf /\ t.dev[i].prev = s.dev[i].prev
            /\ s.dev[i].hid # 0 => t.dev[i].ctxPort = s.dev[i].ctxPort
       /\ ~ s.dev[i].alloc /\ t.dev[i].alloc =>
            t.dev[i].hid = 0 /\ t.dev[i].reads = 0 /\ t.dev[i].buf = {} /\ t.dev[i].prev = {}

LEMMA ContextPort ==
  ASSUME NEW s \in XState, NEW slot \in SlotId, s.dev[slot].alloc, s.dev[slot].ctxPort # 0
  PROVE  s.dev[slot].ctxPort \in Port
<1>1. s.dev[slot].ctxPort \in 0..MaxPorts
  BY DeviceOf DEF Device
<1>. QED BY <1>1, Sizes DEF Port

LEMMA HidKept ==
  ASSUME NEW s \in XState, NEW t \in XState, HidOK(s), Keeps(s, t)
  PROVE  HidOK(t)
<1> SUFFICES ASSUME NEW slot \in SlotId, t.dev[slot].alloc, t.dev[slot].hid # 0
             PROVE  /\ t.dev[slot].ctxPort # 0
                    /\ t.phase[t.dev[slot].ctxPort] = "Configured"
  BY DEF HidOK
<1>1. s.dev[slot].alloc /\ s.dev[slot].hid # 0 /\ t.dev[slot].ctxPort = s.dev[slot].ctxPort
  BY DEF Keeps
<1>2. s.dev[slot].ctxPort # 0 /\ s.phase[s.dev[slot].ctxPort] = "Configured"
  BY <1>1 DEF HidOK
<1>3. s.dev[slot].ctxPort \in Port
  BY <1>1, <1>2, ContextPort
<1>. QED BY <1>1, <1>2, <1>3 DEF Keeps

(* A slot without a device has no report to handle.                        *)
LEMMA NothingSent ==
  ASSUME NEW s, NEW q, NEW slot, SentOK(s, q), ~ s.dev[slot].alloc
  PROVE  NoReport(q, slot)
BY DEF SentOK, NoReport, IsReport

LEMMA KeepsReporting ==
  ASSUME NEW s \in XState, NEW t \in XState, NEW q \in Seq(Event), NEW down,
         Reporting(s, q, down), Keeps(s, t)
  PROVE  Reporting(t, q, down)
<1>1. HidOK(t)
  BY HidKept DEF Reporting
<1>2. SentOK(t, q)
  <2>1. \A i \in 1..Len(q) : q[i].type = "Transfer" => q[i].slot \in SlotId
    <3>1. \A i \in 1..Len(q) : q[i] \in Event
      OBVIOUS
    <3>. QED BY <3>1 DEF Event
  <2>. QED BY <2>1 DEF Reporting, SentOK, Keeps
<1>3. ASSUME NEW slot \in SlotId PROVE SlotReports(t, q, down, slot)
  <2>1. SlotReports(s, q, down, slot)
    BY DEF Reporting
  <2>2. CASE s.dev[slot].alloc
    BY <2>1, <2>2 DEF SlotReports, ReadsOK, Keeps
  <2>3. CASE ~ s.dev[slot].alloc /\ t.dev[slot].alloc
    <3>1. NoReport(q, slot)
      BY <2>3, NothingSent DEF Reporting
    <3>2. t.dev[slot].hid = 0 /\ t.dev[slot].reads = 0 /\ t.dev[slot].buf = {}
          /\ t.dev[slot].prev = {} /\ down[slot] = {}
      BY <2>1, <2>3 DEF SlotReports, Keeps
    <3>. QED BY <2>3, <3>1, <3>2 DEF SlotReports, ReadsOK
  <2>4. CASE ~ s.dev[slot].alloc /\ ~ t.dev[slot].alloc
    BY <2>1, <2>4 DEF SlotReports
  <2>. QED BY <2>2, <2>3, <2>4
<1>. QED BY <1>1, <1>2, <1>3 DEF Reporting

(* An event that is no report is posted.                                   *)
LEMMA PlainPosted ==
  ASSUME NEW s \in XState, NEW q \in Seq(Event), NEW down, Reporting(s, q, down),
         NEW e \in Event, \A slot : ~ IsReport(e, slot),
         e.type = "Transfer" => s.dev[e.slot].alloc
  PROVE  Reporting(s, Append(q, e), down)
<1>1. SentOK(s, Append(q, e))
  <2>1. /\ Len(Append(q, e)) = Len(q) + 1 /\ Len(q) \in Nat
        /\ \A i \in 1..(Len(q) + 1) : Append(q, e)[i] = IF i = Len(q) + 1 THEN e ELSE q[i]
    OBVIOUS
  <2>2. \A i \in 1..(Len(q) + 1) : i = Len(q) + 1 \/ i \in 1..Len(q)
    BY <2>1
  <2>. QED BY <2>1, <2>2 DEF SentOK, Reporting
<1>2. ASSUME NEW slot \in SlotId PROVE SlotReports(s, Append(q, e), down, slot)
  <2>1. SlotReports(s, q, down, slot) /\ ~ IsReport(e, slot)
    BY DEF Reporting
  <2>2. /\ NoReport(q, slot) <=> NoReport(Append(q, e), slot)
        /\ OneReport(q, slot) => OneReport(Append(q, e), slot)
    BY <2>1, ReportPosted
  <2>. QED BY <2>1, <2>2 DEF SlotReports, ReadsOK
<1>. QED BY <1>1, <1>2 DEF Reporting

(* An event that is no report is handled.                                  *)
LEMMA SentTail ==
  ASSUME NEW s, NEW q \in Seq(Event), q # <<>>, SentOK(s, q)
  PROVE  SentOK(s, Tail(q))
<1>1. /\ Len(Tail(q)) = Len(q) - 1 /\ Len(q) \in Nat
      /\ \A i \in 1..(Len(q) - 1) : Tail(q)[i] = q[i + 1]
  OBVIOUS
<1>2. \A i \in 1..(Len(q) - 1) : i + 1 \in 1..Len(q)
  BY <1>1
<1>. QED BY <1>1, <1>2 DEF SentOK

LEMMA PlainHandled ==
  ASSUME NEW s \in XState, NEW q \in Seq(Event), NEW down, Reporting(s, q, down),
         q # <<>>, \A slot : ~ IsReport(q[1], slot)
  PROVE  Reporting(s, Tail(q), down)
<1>1. SentOK(s, Tail(q))
  BY SentTail DEF Reporting
<1>2. ASSUME NEW slot \in SlotId PROVE SlotReports(s, Tail(q), down, slot)
  <2>1. SlotReports(s, q, down, slot) /\ ~ IsReport(q[1], slot)
    BY DEF Reporting
  <2>2. /\ NoReport(q, slot) <=> NoReport(Tail(q), slot)
        /\ OneReport(q, slot) => OneReport(Tail(q), slot)
    BY <2>1, ReportTaken
  <2>. QED BY <2>1, <2>2 DEF SlotReports, ReadsOK
<1>. QED BY <1>1, <1>2 DEF Reporting

-----------------------------------------------------------------------------
(* The handlers.                                                           *)
LEMMA SameDevKeeps ==
  ASSUME NEW s, NEW t, t.dev = s.dev,
         \A p \in Port : s.phase[p] = "Configured" => t.phase[p] = "Configured"
  PROVE  Keeps(s, t)
BY DEF Keeps

LEMMA PhaseKeeps ==
  ASSUME NEW s \in XState, NEW t, NEW p, NEW x, t.dev = s.dev,
         t.phase = [s.phase EXCEPT ![p] = x], s.phase[p] # "Configured" \/ x = "Configured"
  PROVE  Keeps(s, t)
<1>1. s.phase \in [Port -> Phase]
  BY DEF XState
<1>2. \A i \in Port : s.phase[i] = "Configured" => t.phase[i] = "Configured"
  BY <1>1
<1>. QED BY <1>2, SameDevKeeps

LEMMA PushedSame ==
  ASSUME NEW s \in XState, NEW c
  PROVE  PushCommand(s, c).dev = s.dev /\ PushCommand(s, c).phase = s.phase
BY DEF PushCommand, XState

LEMMA ResetPortKeeps ==
  ASSUME NEW s \in XState, NEW p \in Port, s.phase[p] \in {"NotConnected", "WaitingAddressed"}
  PROVE  Keeps(s, ResetPort(s, p))
<1>1. Keeps(s, s)
  BY SameDevKeeps
<1>2. CASE ~ s.port[p].connected
  BY <1>1, <1>2 DEF ResetPort
<1>3. CASE s.port[p].connected /\ s.addressing # 0
  <2>1. PICK t : t = ResetPort(s, p)
    OBVIOUS
  <2>2. t = [s EXCEPT !.phase = [s.phase EXCEPT ![p] = "WaitingAddressed"]]
    BY <1>3, <2>1 DEF ResetPort, XState
  <2>3. t.dev = s.dev /\ t.phase = [s.phase EXCEPT ![p] = "WaitingAddressed"]
    BY <2>2 DEF XState
  <2>4. Keeps(s, t)
    BY <2>3, PhaseKeeps
  <2>. QED BY <2>1, <2>4
<1>4. CASE s.port[p].connected /\ s.addressing = 0
  <2>1. PICK t : t = ResetPort(s, p)
    OBVIOUS
  <2>2. t.dev = s.dev /\ Begun(s, t, p)
    BY <1>4, <2>1, ResetPortIs
  <2>3. Keeps(s, t)
    BY <2>2, PhaseKeeps DEF Begun
  <2>. QED BY <2>1, <2>3
<1>. QED BY <1>2, <1>3, <1>4

LEMMA EnableSlotKeeps ==
  ASSUME NEW s, Good(s), NEW p \in Port, s.phase[p] = "ResettingPort"
  PROVE  Keeps(s, EnableSlot(s, p))
<1>1. s \in XState
  BY DEF Good
<1>2. CASE EnableSlot(s, p) = s
  BY <1>2, SameDevKeeps
<1>3. ASSUME NEW u, PhaseOnly(s, u, p, "EnablingSlot"),
             EnableSlot(s, p) = PushCommand(u, [type |-> "EnableSlot", slot |-> 0])
      PROVE  Keeps(s, EnableSlot(s, p))
  <2>1. PICK t : t = EnableSlot(s, p)
    OBVIOUS
  <2>2. t.dev = u.dev /\ t.phase = u.phase
    BY <1>3, <2>1, PushedSame DEF PhaseOnly
  <2>3. t.dev = s.dev /\ t.phase = [s.phase EXCEPT ![p] = "EnablingSlot"]
    BY <1>3, <2>2 DEF PhaseOnly
  <2>4. Keeps(s, t)
    BY <1>1, <2>3, PhaseKeeps
  <2>. QED BY <2>1, <2>4
<1>. QED BY <1>1, <1>2, <1>3, EnableSlotIs

LEMMA OnPortStatusChangeKeeps ==
  ASSUME NEW s, Good(s), NEW p \in Port
  PROVE  Keeps(s, OnPortStatusChange(s, p))
<1>1. s \in XState
  BY DEF Good
<1>2. Keeps(s, s)
  BY SameDevKeeps
<1>3. s.phase[p] = "NotConnected" => Keeps(s, ResetPort(s, p))
  BY <1>1, ResetPortKeeps
<1>4. s.phase[p] = "ResettingPort" => Keeps(s, EnableSlot(s, p))
  BY EnableSlotKeeps
<1>. QED BY <1>2, <1>3, <1>4, OnPortStatusChangeIs

LEMMA ConfigureEndpointsKeeps ==
  ASSUME NEW s \in XState, NEW slot \in SlotId, s.phase[s.dev[slot].ctxPort] = "InitializingDevice"
  PROVE  Keeps(s, ConfigureEndpoints(s, slot))
<1>1. CASE ConfigureEndpoints(s, slot) = s
  BY <1>1, SameDevKeeps
<1>2. ASSUME NEW u, PhaseOnly(s, u, s.dev[slot].ctxPort, "ConfiguringEndpoints"),
             ConfigureEndpoints(s, slot) =
               PushCommand(u, [type |-> "ConfigureEndpoint", slot |-> slot])
      PROVE  Keeps(s, ConfigureEndpoints(s, slot))
  <2>1. PICK t : t = ConfigureEndpoints(s, slot)
    OBVIOUS
  <2>2. t.dev = u.dev /\ t.phase = u.phase
    BY <1>2, <2>1, PushedSame DEF PhaseOnly
  <2>3. t.dev = s.dev /\ t.phase = [s.phase EXCEPT ![s.dev[slot].ctxPort] = "ConfiguringEndpoints"]
    BY <1>2, <2>2 DEF PhaseOnly
  <2>4. Keeps(s, t)
    BY <2>3, PhaseKeeps
  <2>. QED BY <2>1, <2>4
<1>. QED BY <1>1, <1>2, ConfigureEndpointsIs

LEMMA SameReadsKeeps ==
  ASSUME NEW s, NEW t, NEW slot, OnlyDevices(s, t), SameReads(s, t, slot)
  PROVE  Keeps(s, t)
<1>1. t.phase = s.phase /\ SamePorts(s, t)
  BY DEF OnlyDevices
<1>2. ASSUME NEW i \in SlotId
      PROVE  /\ t.dev[i].alloc = s.dev[i].alloc /\ t.dev[i].hid = s.dev[i].hid
             /\ t.dev[i].reads = s.dev[i].reads /\ t.dev[i].buf = s.dev[i].buf
             /\ t.dev[i].prev = s.dev[i].prev
             /\ s.dev[i].alloc => t.dev[i].ctxPort = s.dev[i].ctxPort
  BY <1>1 DEF SameReads, Reads, Others, SamePorts
<1>. QED BY <1>1, <1>2 DEF Keeps

(* An answer that starts the first read.                                   *)
LEMMA MayStartReporting ==
  ASSUME NEW s \in XState, NEW t, NEW slot \in SlotId, s.dev[slot].alloc, MayStart(s, t, slot),
         NEW q \in Seq(Event), NEW down, Reporting(s, q, down)
  PROVE  Reporting(t, q, down)
<1>1. OnlyDevices(s, t) /\ t \in XState /\ t.phase = s.phase /\ SamePorts(s, t)
  BY DEF MayStart, OnlyDevices
<1>2. CASE SameReads(s, t, slot)
  BY <1>1, <1>2, SameReadsKeeps, KeepsReporting
<1>3. CASE s.dev[slot].hid = 1 /\ Reads(s, t, slot, 2, s.dev[slot].reads + 1, s.dev[slot].prev)
  <2>1. \A i \in SlotId : /\ t.dev[i].alloc = s.dev[i].alloc
                          /\ s.dev[i].alloc => t.dev[i].ctxPort = s.dev[i].ctxPort
                          /\ i # slot => t.dev[i] = s.dev[i]
    BY <1>1, <1>3 DEF SamePorts, Reads, Others
  <2>2. HidOK(t)
    BY <1>1, <1>3, <2>1 DEF Reporting, HidOK
  <2>3. SentOK(t, q)
    <3>1. \A i \in 1..Len(q) : q[i].type = "Transfer" => q[i].slot \in SlotId
      <4>1. \A i \in 1..Len(q) : q[i] \in Event
        OBVIOUS
      <4>. QED BY <4>1 DEF Event
    <3>. QED BY <2>1, <3>1 DEF Reporting, SentOK
  <2>4. ASSUME NEW i \in SlotId PROVE SlotReports(t, q, down, i)
    <3>1. SlotReports(s, q, down, i)
      BY DEF Reporting
    <3>2. CASE i # slot
      BY <2>1, <3>1, <3>2 DEF SlotReports
    <3>3. CASE i = slot
      <4>1. s.dev[slot].reads = 0 /\ NoReport(q, slot) /\ s.dev[slot].prev = s.dev[slot].buf
            /\ down[slot] = s.dev[slot].prev
        BY <1>3, <3>1, <3>3 DEF SlotReports, ReadsOK
      <4>2. t.dev[slot].hid = 2 /\ t.dev[slot].reads = 1 /\ t.dev[slot].prev = s.dev[slot].prev
            /\ t.dev[slot].buf = s.dev[slot].buf /\ t.dev[slot].alloc
        BY <1>3, <2>1, <4>1 DEF Reads
      <4>. QED BY <3>3, <4>1, <4>2 DEF SlotReports, ReadsOK
    <3>. QED BY <3>2, <3>3
  <2>. QED BY <2>2, <2>3, <2>4 DEF Reporting
<1>. QED BY <1>2, <1>3 DEF MayStart

(* The calls of the observer tell exactly the new report.                  *)
LEMMA ReportSeen ==
  ASSUME NEW d
  PROVE  OnDataReceived(d, d.prev) = d.buf
BY DEF OnDataReceived

(* A report is handled.                                                    *)
LEMMA ReportHandled ==
  ASSUME NEW s \in XState, NEW t, NEW slot \in SlotId, NEW q \in Seq(Event), NEW down,
         Reporting(s, q, down), q # <<>>, IsReport(q[1], slot), s.dev[slot].alloc,
         OnlyDevices(s, t),
         Reads(s, t, slot, s.dev[slot].hid, s.dev[slot].reads + 1, s.dev[slot].buf)
  PROVE  Reporting(t, Tail(q), [down EXCEPT ![slot] = OnDataReceived(s.dev[slot], @)])
<1> DEFINE new == [down EXCEPT ![slot] = OnDataReceived(s.dev[slot], @)]
<1>1. t \in XState /\ t.phase = s.phase /\ SamePorts(s, t)
  BY DEF OnlyDevices
<1>2. \A i \in SlotId : /\ t.dev[i].alloc = s.dev[i].alloc
                        /\ s.dev[i].alloc => t.dev[i].ctxPort = s.dev[i].ctxPort
                        /\ t.dev[i].hid = s.dev[i].hid /\ (i # slot => t.dev[i] = s.dev[i])
  BY <1>1 DEF SamePorts, Reads, Others
<1>3. HidOK(t)
  BY <1>1, <1>2 DEF Reporting, HidOK
<1>4. Tail(q) \in Seq(Event) /\ SentOK(s, Tail(q))
  BY SentTail DEF Reporting
<1>5. PICK r \in Seq(Event) : r = Tail(q)
  BY <1>4
<1>6. SentOK(t, r)
  <2>1. \A i \in 1..Len(r) : r[i].type = "Transfer" => r[i].slot \in SlotId
    <3>1. \A i \in 1..Len(r) : r[i] \in Event
      OBVIOUS
    <3>. QED BY <3>1 DEF Event
  <2>. QED BY <1>2, <1>4, <1>5, <2>1 DEF SentOK
<1>7. /\ s.dev[slot].hid = 2 /\ s.dev[slot].reads = 0 /\ OneReport(q, slot)
      /\ down[slot] = s.dev[slot].prev
  <2>1. ReadsOK(s.dev[slot], q, slot, down[slot])
    BY DEF Reporting, SlotReports
  <2>2. ~ NoReport(q, slot)
    BY ReportTaken
  <2>. QED BY <2>1, <2>2 DEF ReadsOK
<1>8. NoReport(r, slot)
  BY <1>5, <1>7, ReportTaken
<1>9. OnDataReceived(s.dev[slot], down[slot]) = s.dev[slot].buf
  BY <1>7, ReportSeen
<1>10. s.dev[slot].buf \in SUBSET Keys
  BY DeviceOf DEF Device
<1>11. down \in [SlotId -> SUBSET Keys]
  BY DEF Reporting
<1>12. /\ new \in [SlotId -> SUBSET Keys] /\ new[slot] = s.dev[slot].buf
       /\ \A i \in SlotId : i # slot => new[i] = down[i]
  BY <1>9, <1>10, <1>11
<1> HIDE DEF new
<1>13. ASSUME NEW i \in SlotId PROVE SlotReports(t, r, new, i)
  <2>1. CASE i = slot
    <3>1. t.dev[slot].hid = 2 /\ t.dev[slot].reads = 1 /\ t.dev[slot].prev = s.dev[slot].buf
          /\ t.dev[slot].buf = s.dev[slot].buf /\ t.dev[slot].alloc
      BY <1>2, <1>7 DEF Reads
    <3>. QED BY <1>8, <1>12, <2>1, <3>1 DEF SlotReports, ReadsOK
  <2>2. CASE i # slot
    <3>1. SlotReports(s, q, down, i) /\ ~ IsReport(q[1], i)
      BY <2>2 DEF Reporting, IsReport
    <3>2. /\ NoReport(q, i) <=> NoReport(r, i)
          /\ OneReport(q, i) => OneReport(r, i)
      BY <1>5, <3>1, ReportTaken
    <3>3. t.dev[i] = s.dev[i] /\ new[i] = down[i]
      BY <1>2, <1>12, <2>2
    <3>. QED BY <3>1, <3>2, <3>3 DEF SlotReports, ReadsOK
  <2>. QED BY <2>1, <2>2
<1>14. Reporting(t, r, new)
  BY <1>3, <1>6, <1>12, <1>13 DEF Reporting
<1>. QED BY <1>5, <1>14 DEF new

(* OnEvent for a transfer.                                                 *)
LEMMA OnTransferReporting ==
  ASSUME NEW s, Good(s), NEW q \in Seq(Event), q # <<>>, NEW down, Reporting(s, q, down),
         NEW e, e = q[1], e \in Event, e.type = "Transfer", NEW new,
         e.ok /\ e.request = "Normal" =>
           new = [down EXCEPT ![e.slot] = OnDataReceived(s.dev[e.slot], @)],
         ~ (e.ok /\ e.request = "Normal") => new = down
  PROVE  Reporting(OnTransfer(s, e), Tail(q), new)
<1> DEFINE t == OnTransferEventReceived(s, e)
           u == ConfigureEndpoints(t, e.slot)
<1>1. s \in XState /\ e.slot \in SlotId /\ e.ok \in BOOLEAN /\ Tail(q) \in Seq(Event)
  BY DEF Good, Event
<1>2. s.dev[e.slot].alloc
  <2>1. 1 \in 1..Len(q)
    OBVIOUS
  <2>. QED BY <2>1 DEF Reporting, SentOK
<1>3. CASE ~ e.ok
  <2>1. \A slot : ~ IsReport(q[1], slot)
    BY <1>3 DEF IsReport
  <2>2. OnTransfer(s, e) = s
    BY <1>3 DEF OnTransfer
  <2>3. Reporting(s, Tail(q), down)
    BY <1>1, <2>1, PlainHandled
  <2>4. new = down
    BY <1>3
  <2>. QED BY <2>2, <2>3, <2>4
<1>4. CASE e.ok
  <2>1. OnTransfer(s, e) = t \/ (t.phase[t.dev[e.slot].ctxPort] = "InitializingDevice"
                                 /\ OnTransfer(s, e) = u)
    BY <1>2, <1>4 DEF OnTransfer
  <2>2. /\ OnlyDevices(s, t)
        /\ e.request = "Normal" => Reads(s, t, e.slot, s.dev[e.slot].hid, s.dev[e.slot].reads + 1,
                                         s.dev[e.slot].buf)
        /\ e.request # "Normal" => MayStart(s, t, e.slot)
    BY <1>1, <1>2, OnTransferEventReceivedIs
  <2> HIDE DEF t
  <2>3. Good(t) /\ t \in XState
    BY <2>2, OnlyDevicesGood DEF OnlyDevices
  <2>4. Reporting(t, Tail(q), new)
    <3>1. CASE e.request = "Normal"
      <4>1. IsReport(q[1], e.slot)
        BY <1>4, <3>1 DEF IsReport
      <4>. QED BY <1>1, <1>2, <1>4, <2>2, <3>1, <4>1, ReportHandled
    <3>2. CASE e.request # "Normal"
      <4>1. \A slot : ~ IsReport(q[1], slot)
        BY <3>2 DEF IsReport
      <4>2. Reporting(s, Tail(q), down)
        BY <1>1, <4>1, PlainHandled
      <4>3. new = down
        BY <3>2
      <4>. QED BY <1>1, <1>2, <2>2, <3>2, <4>2, <4>3, MayStartReporting
    <3>. QED BY <3>1, <3>2
  <2>5. ASSUME t.phase[t.dev[e.slot].ctxPort] = "InitializingDevice" PROVE Reporting(u, Tail(q), new)
    <3>1. Keeps(t, u)
      BY <1>1, <2>3, <2>5, ConfigureEndpointsKeeps
    <3>2. t.dev[e.slot].alloc
      BY <1>1, <1>2, <2>2 DEF OnlyDevices, SamePorts
    <3>3. u \in XState
      BY <1>1, <2>3, <2>5, <3>2, ConfigureEndpointsGood DEF Good
    <3>. QED BY <1>1, <2>3, <2>4, <3>1, <3>3, KeepsReporting
  <2>. QED BY <2>1, <2>4, <2>5
<1>. QED BY <1>1, <1>3, <1>4

(* OnEvent for a command.                                                  *)
LEMMA AddressDeviceKeeps ==
  ASSUME NEW s \in XState, NEW p \in Port, s.phase[p] # "Configured", NEW slot \in SlotId
  PROVE  Keeps(s, AddressDevice(s, p, slot))
<1>1. PICK u : /\ Prepared(s, u, p, slot)
               /\ AddressDevice(s, p, slot) =
                    PushCommand(u, [type |-> "AddressDevice", slot |-> slot])
  BY AddressDeviceIs
<1>2. PICK t : t = AddressDevice(s, p, slot)
  OBVIOUS
<1>3. t.dev = u.dev /\ t.phase = u.phase
  BY <1>1, <1>2, PushedSame DEF Prepared
<1>4. \A i \in Port : s.phase[i] = "Configured" => t.phase[i] = "Configured"
  <2>1. s.phase \in [Port -> Phase] /\ u.phase = [s.phase EXCEPT ![p] = "AddressingDevice"]
    BY <1>1 DEF XState, Prepared
  <2>. QED BY <1>3, <2>1
<1>5. ASSUME NEW i \in SlotId, s.dev[i].alloc
      PROVE  /\ t.dev[i].alloc /\ t.dev[i].hid = s.dev[i].hid /\ t.dev[i].reads = s.dev[i].reads
             /\ t.dev[i].buf = s.dev[i].buf /\ t.dev[i].prev = s.dev[i].prev
             /\ t.dev[i].ctxPort = s.dev[i].ctxPort
  <2>1. CASE i # slot
    <3>1. t.dev[i] = s.dev[i]
      BY <1>1, <1>3, <2>1 DEF Prepared
    <3>. QED BY <1>5, <3>1
  <2>2. CASE i = slot
    <3>1. t.dev[i] = [s.dev[i] EXCEPT !.inPort = p] /\ s.dev[i] \in Device /\ t.dev[i].alloc
      BY <1>1, <1>3, <1>5, <2>2, DeviceOf DEF Prepared
    <3>. QED BY <3>1 DEF Device
  <2>. QED BY <2>1, <2>2
<1>6. ASSUME NEW i \in SlotId, ~ s.dev[i].alloc, t.dev[i].alloc
      PROVE  t.dev[i].hid = 0 /\ t.dev[i].reads = 0 /\ t.dev[i].buf = {} /\ t.dev[i].prev = {}
  <2>1. i = slot
    BY <1>1, <1>3, <1>6 DEF Prepared
  <2>2. t.dev[i] = [NewDevice EXCEPT !.inPort = p]
    BY <1>1, <1>3, <1>6, <2>1 DEF Prepared
  <2>. QED BY <2>2 DEF NewDevice
<1>7. Keeps(s, t)
  BY <1>4, <1>5, <1>6 DEF Keeps
<1>. QED BY <1>2, <1>7

LEMMA InitializeDeviceReporting ==
  ASSUME NEW s \in XState, NEW slot \in SlotId, s.dev[slot].alloc, NEW p \in Port,
         p = s.dev[slot].ctxPort, s.phase[p] = "AddressingDevice",
         NEW q \in Seq(Event), NEW down, Reporting(s, q, down)
  PROVE  Reporting(InitializeDevice(ResetWaiting([s EXCEPT !.addressing = 0], p), p, slot), q, down)
<1>1. PICK t : t = InitializeDevice(ResetWaiting([s EXCEPT !.addressing = 0], p), p, slot)
  OBVIOUS
<1>2. PICK w, v : /\ NextTurn(s, w) /\ PhaseOnly(w, v, p, "InitializingDevice")
                  /\ OnlyDevices(v, t) /\ SameReads(v, t, slot)
  BY <1>1, InitializeDeviceIs
<1>3. w \in XState /\ v \in XState /\ t \in XState
  BY <1>2 DEF NextTurn, PhaseOnly, OnlyDevices
<1>4. Keeps(s, w) /\ w.phase[p] = "AddressingDevice"
  <2>1. w.dev = s.dev
    BY <1>2 DEF NextTurn
  <2>2. CASE w.phase = s.phase
    BY <2>1, <2>2, SameDevKeeps
  <2>3. CASE \E i \in Port : s.phase[i] = "WaitingAddressed" /\ Begun(s, w, i)
    <3>1. PICK i \in Port : s.phase[i] = "WaitingAddressed" /\ Begun(s, w, i)
      BY <2>3
    <3>2. w.phase = [s.phase EXCEPT ![i] = "ResettingPort"] /\ i # p
      BY <3>1 DEF Begun
    <3>3. s.phase \in [Port -> Phase]
      BY DEF XState
    <3>4. Keeps(s, w)
      BY <2>1, <3>1, <3>2, PhaseKeeps
    <3>. QED BY <3>2, <3>3, <3>4
  <2>. QED BY <1>2, <2>2, <2>3 DEF NextTurn
<1>5. Keeps(w, v)
  BY <1>2, <1>3, <1>4, PhaseKeeps DEF PhaseOnly
<1>6. Keeps(v, t)
  BY <1>2, SameReadsKeeps
<1>7. Reporting(w, q, down)
  BY <1>3, <1>4, KeepsReporting
<1>8. Reporting(v, q, down)
  BY <1>3, <1>5, <1>7, KeepsReporting
<1>9. Reporting(t, q, down)
  BY <1>3, <1>6, <1>8, KeepsReporting
<1>. QED BY <1>1, <1>9

(* A driver is started when its port leaves the phase before Configured.   *)
LEMMA CompleteConfigurationReporting ==
  ASSUME NEW s \in XState, NEW slot \in SlotId, s.dev[slot].alloc, NEW p \in Port,
         p = s.dev[slot].ctxPort, s.phase[p] = "ConfiguringEndpoints",
         NEW q \in Seq(Event), NEW down, Reporting(s, q, down)
  PROVE  Reporting(CompleteConfiguration(s, p, slot), q, down)
<1>1. PICK t : t = CompleteConfiguration(s, p, slot)
  OBVIOUS
<1>2. PICK o : /\ OnlyDevices(s, o) /\ Reads(s, o, slot, 1, s.dev[slot].reads, s.dev[slot].prev)
               /\ PhaseOnly(o, t, p, "Configured")
  BY <1>1, CompleteConfigurationIs
<1>3. t.dev = o.dev /\ t.phase = [s.phase EXCEPT ![p] = "Configured"] /\ t \in XState
  BY <1>2 DEF OnlyDevices, PhaseOnly
<1>4. \A i \in SlotId : /\ t.dev[i].alloc = s.dev[i].alloc
                        /\ s.dev[i].alloc => t.dev[i].ctxPort = s.dev[i].ctxPort
                        /\ i # slot => t.dev[i] = s.dev[i]
  BY <1>2, <1>3 DEF OnlyDevices, SamePorts, Reads, Others
<1>5. t.dev[slot].hid = 1 /\ t.dev[slot].reads = s.dev[slot].reads
      /\ t.dev[slot].prev = s.dev[slot].prev /\ t.dev[slot].buf = s.dev[slot].buf
  BY <1>2, <1>3 DEF Reads
<1>6. s.dev[slot].hid = 0
  BY DEF Reporting, HidOK
<1>7. \A i \in Port : t.phase[i] = IF i = p THEN "Configured" ELSE s.phase[i]
  BY <1>3 DEF XState
<1>8. HidOK(t)
  <2> SUFFICES ASSUME NEW i \in SlotId, t.dev[i].alloc, t.dev[i].hid # 0
               PROVE  t.dev[i].ctxPort # 0 /\ t.phase[t.dev[i].ctxPort] = "Configured"
    BY DEF HidOK
  <2>1. CASE i = slot
    <3>1. p # 0
      BY Sizes DEF Port
    <3>. QED BY <1>4, <1>7, <2>1, <3>1
  <2>2. CASE i # slot
    <3>1. t.dev[i] = s.dev[i]
      BY <1>4, <2>2
    <3>2. s.dev[i].ctxPort # 0 /\ s.phase[s.dev[i].ctxPort] = "Configured"
      BY <3>1 DEF Reporting, HidOK
    <3>3. s.dev[i].ctxPort \in Port
      BY <3>1, <3>2, ContextPort
    <3>. QED BY <1>7, <3>1, <3>2, <3>3
  <2>. QED BY <2>1, <2>2
<1>9. SentOK(t, q)
  <2>1. \A i \in 1..Len(q) : q[i].type = "Transfer" => q[i].slot \in SlotId
    <3>1. \A i \in 1..Len(q) : q[i] \in Event
      OBVIOUS
    <3>. QED BY <3>1 DEF Event
  <2>. QED BY <1>4, <2>1 DEF Reporting, SentOK
<1>10. ASSUME NEW i \in SlotId PROVE SlotReports(t, q, down, i)
  <2>1. SlotReports(s, q, down, i)
    BY DEF Reporting
  <2>2. CASE i # slot
    BY <1>4, <2>1, <2>2 DEF SlotReports
  <2>3. CASE i = slot
    <3>1. ReadsOK(s.dev[slot], q, slot, down[slot]) /\ t.dev[slot].alloc
      BY <1>4, <2>1, <2>3 DEF SlotReports
    <3>2. ReadsOK(t.dev[slot], q, slot, down[slot])
      BY <1>5, <1>6, <3>1 DEF ReadsOK
    <3>. QED BY <2>3, <3>1, <3>2 DEF SlotReports
  <2>. QED BY <2>2, <2>3
<1>11. Reporting(t, q, down)
  BY <1>8, <1>9, <1>10 DEF Reporting
<1>. QED BY <1>1, <1>11

LEMMA OnCommandCompletionReporting ==
  ASSUME NEW s, Good(s), NEW e, e.slot \in SlotId, NEW q \in Seq(Event), NEW down,
         Reporting(s, q, down)
  PROVE  Reporting(OnCommandCompletion(s, e), q, down)
<1> DEFINE p == s.dev[e.slot].ctxPort
<1>1. s \in XState
  BY DEF Good
<1>2. \/ OnCommandCompletion(s, e) = s
      \/ /\ s.addressing # 0 /\ s.phase[s.addressing] = "EnablingSlot"
         /\ OnCommandCompletion(s, e) = AddressDevice(s, s.addressing, e.slot)
      \/ /\ s.dev[e.slot].alloc /\ p # 0 /\ p = s.addressing /\ s.phase[p] = "AddressingDevice"
         /\ OnCommandCompletion(s, e) =
              InitializeDevice(ResetWaiting([s EXCEPT !.addressing = 0], p), p, e.slot)
      \/ /\ s.dev[e.slot].alloc /\ p # 0 /\ s.phase[p] = "ConfiguringEndpoints"
         /\ OnCommandCompletion(s, e) = CompleteConfiguration(s, p, e.slot)
  BY Zenon DEF OnCommandCompletion
<1>3. \A i \in 0..MaxPorts : i # 0 => i \in Port
  BY Sizes DEF Port
<1>4. s.addressing \in 0..MaxPorts
  BY <1>1 DEF XState
<1>5. s.dev[e.slot].alloc /\ p # 0 => p \in Port
  BY <1>1, ContextPort
<1>6. CASE /\ s.addressing # 0 /\ s.phase[s.addressing] = "EnablingSlot"
           /\ OnCommandCompletion(s, e) = AddressDevice(s, s.addressing, e.slot)
  <2>1. PICK t : t = AddressDevice(s, s.addressing, e.slot)
    OBVIOUS
  <2>2. Keeps(s, t) /\ t \in XState
    BY <1>1, <1>3, <1>4, <1>6, <2>1, AddressDeviceKeeps, AddressDeviceGood DEF Good
  <2>. QED BY <1>1, <1>6, <2>1, <2>2, KeepsReporting
<1>7. CASE /\ s.dev[e.slot].alloc /\ p # 0 /\ p = s.addressing /\ s.phase[p] = "AddressingDevice"
           /\ OnCommandCompletion(s, e) =
                InitializeDevice(ResetWaiting([s EXCEPT !.addressing = 0], p), p, e.slot)
  BY <1>1, <1>5, <1>7, InitializeDeviceReporting
<1>8. CASE /\ s.dev[e.slot].alloc /\ p # 0 /\ s.phase[p] = "ConfiguringEndpoints"
           /\ OnCommandCompletion(s, e) = CompleteConfiguration(s, p, e.slot)
  BY <1>1, <1>5, <1>8, CompleteConfigurationReporting
<1>. QED BY <1>2, <1>6, <1>7, <1>8

-----------------------------------------------------------------------------
(* The steps.                                                              *)
LEMMA ProcessEventReporting ==
  ASSUME IInv, RInv, KInv, IInv', ProcessEvent
  PROVE  KInv'
<1>1. /\ posted # <<>> /\ posted' = Tail(posted)
      /\ Front(evt, evtAt) = posted[1] /\ posted[1] \in Event
  BY EventTaken DEF RInv
<1>2. posted \in Seq(Event) /\ Tail(posted) \in Seq(Event)
  BY <1>1 DEF RInv, EventsOK
<1>3. PICK e \in Event : e = posted[1]
  BY <1>1
<1>4. /\ e.type = "Transfer" => e.slot \in SlotId
      /\ e.type = "CommandCompletion" => e.slot \in SlotId
      /\ e.type = "PortStatusChange" => e.port \in Port
  BY DEF Event
<1>5. \/ e.type = "Transfer" /\ xhc' = OnTransfer(xhc, e)
      \/ e.type = "PortStatusChange" /\ xhc' = OnPortStatusChange(xhc, e.port)
      \/ e.type = "CommandCompletion" /\ xhc' = OnCommandCompletion(xhc, e)
      \/ e.type # "Transfer" /\ xhc' = xhc
  BY Zenon, <1>1, <1>3 DEF ProcessEvent
<1>6. seen' = IF e.type = "Transfer" /\ e.ok /\ e.request = "Normal"
              THEN [seen EXCEPT ![e.slot] = OnDataReceived(xhc.dev[e.slot], @)]
              ELSE seen
  BY Zenon, <1>1, <1>3 DEF ProcessEvent
<1>7. Reporting(xhc, posted, seen) /\ Good(xhc) /\ xhc \in XState /\ xhc' \in XState
  BY DEF KInv, IInv, Good
<1>8. CASE e.type = "Transfer"
  <2>1. Reporting(OnTransfer(xhc, e), Tail(posted), seen')
    BY <1>1, <1>2, <1>3, <1>6, <1>7, <1>8, OnTransferReporting
  <2>2. xhc' = OnTransfer(xhc, e)
    BY <1>5, <1>8
  <2>. QED BY <1>1, <2>1, <2>2 DEF KInv
<1>9. CASE e.type # "Transfer"
  <2>1. \A slot : ~ IsReport(posted[1], slot)
    BY <1>3, <1>9 DEF IsReport
  <2>2. Reporting(xhc, Tail(posted), seen)
    BY <1>1, <1>2, <1>7, <2>1, PlainHandled
  <2>3. seen' = seen
    BY <1>6, <1>9
  <2>4. Reporting(xhc', Tail(posted), seen)
    <3>1. e.type = "PortStatusChange" => Keeps(xhc, OnPortStatusChange(xhc, e.port))
      BY <1>4, <1>7, OnPortStatusChangeKeeps
    <3>2. xhc' = OnPortStatusChange(xhc, e.port) /\ e.type = "PortStatusChange" =>
            Reporting(xhc', Tail(posted), seen)
      BY <1>2, <1>7, <2>2, <3>1, KeepsReporting
    <3>3. e.type = "CommandCompletion" =>
            Reporting(OnCommandCompletion(xhc, e), Tail(posted), seen)
      BY <1>2, <1>4, <1>7, <2>2, OnCommandCompletionReporting
    <3>. QED BY <1>5, <1>9, <2>2, <3>2, <3>3
  <2>. QED BY <1>1, <2>3, <2>4 DEF KInv
<1>. QED BY <1>8, <1>9

LEMMA ExecuteCommandReporting ==
  ASSUME IInv, RInv, KInv, IInv', ExecuteCommand
  PROVE  KInv'
<1>1. PICK w \in 0..(Span - 1), m \in Nat : Ready(xhc, cmdAt, posted, slots, w, m)
  BY RInvReady
<1>2. PICK c, slot : Executed(c, slot)
  BY ExecuteCommandIs
<1>3. PICK e \in Event : PostEvent(e) /\ e.type = "CommandCompletion"
  <2>1. cmdAt.index \in Nat /\ slot \in SlotId
    BY <1>2, Sizes DEF Executed
  <2>2. [type |-> "CommandCompletion", at |-> cmdAt.index, slot |-> slot] \in Event
    BY <2>1 DEF Event
  <2>. QED BY <1>2, <2>2 DEF Executed
<1>4. posted' = Append(posted, e) /\ posted \in Seq(Event) /\ seen' = seen
  BY <1>3, EventPosted DEF RInv, EventsOK, PostEvent
<1>5. /\ xhc \in XState /\ xhc' \in XState /\ Reporting(xhc, posted, seen)
      /\ cmdAt \in [index : 0..(CmdSize - 1), cycle : BOOLEAN] /\ xhc'.phase = xhc.phase
  BY <1>2 DEF IInv, Good, Around, KInv, Executed
<1>6. Keeps(xhc, xhc')
  <2>1. CASE xhc'.dev = xhc.dev
    BY <1>5, <2>1, SameDevKeeps
  <2>2. CASE c.type = "AddressDevice" /\ c.slot \in slots /\ \E p : Assigned(xhc, xhc', c.slot, p)
    <3>1. PICK p : Assigned(xhc, xhc', c.slot, p)
      BY <2>2
    <3>2. /\ Holds(xhc.cmd, cmdAt, Span, xhc.queued) /\ LinkOK(xhc.cmd, cmdAt)
          /\ SlotsOK(xhc, slots)
      BY <1>1 DEF Ready, Orderly
    <3>3. HasFront(xhc.cmd, cmdAt) /\ c = Front(xhc.cmd, cmdAt)
      BY <1>2 DEF ExecuteCommand, Executed
    <3>4. Len(xhc.queued) > 0 /\ c = xhc.queued[1]
      BY <1>5, <3>2, <3>3, ConsumeIs
    <3>5. 1 \in 1..Len(xhc.queued)
      <4>1. xhc.queued \in Seq(Command)
        BY <1>5 DEF XState
      <4>. QED BY <3>4, <4>1
    <3>6. c.slot # 0
      BY <2>2 DEF IInv, Around
    <3>7. xhc.dev[c.slot].alloc /\ xhc.dev[c.slot].ctxPort = 0
      BY <2>2, <3>2, <3>4, <3>5, <3>6 DEF SlotsOK
    <3>8. c.slot \in SlotId /\ xhc.dev[c.slot] \in Device
      BY <3>1 DEF Assigned
    <3>9. xhc.dev[c.slot].hid = 0
      BY <1>5, <3>7, <3>8 DEF Reporting, HidOK
    <3>10. PICK d : d = [xhc.dev[c.slot] EXCEPT !.ctxPort = p]
      OBVIOUS
    <3>11. /\ d.alloc = xhc.dev[c.slot].alloc /\ d.hid = xhc.dev[c.slot].hid
           /\ d.reads = xhc.dev[c.slot].reads
           /\ d.buf = xhc.dev[c.slot].buf /\ d.prev = xhc.dev[c.slot].prev
      BY <3>8, <3>10 DEF Device
    <3>12. xhc'.dev = [xhc.dev EXCEPT ![c.slot] = d] /\ xhc.dev \in [SlotId -> Device \cup {NoDevice}]
      BY <1>5, <3>1, <3>10 DEF Assigned, XState
    <3>13. \A i \in SlotId : xhc'.dev[i] = IF i = c.slot THEN d ELSE xhc.dev[i]
      BY <3>8, <3>12
    <3>14. ASSUME NEW i \in SlotId
           PROVE  /\ xhc'.dev[i].alloc = xhc.dev[i].alloc /\ xhc'.dev[i].hid = xhc.dev[i].hid
                  /\ xhc'.dev[i].reads = xhc.dev[i].reads /\ xhc'.dev[i].buf = xhc.dev[i].buf
                  /\ xhc'.dev[i].prev = xhc.dev[i].prev
                  /\ xhc.dev[i].hid # 0 => xhc'.dev[i].ctxPort = xhc.dev[i].ctxPort
      <4>1. CASE i = c.slot
        BY <3>9, <3>11, <3>13, <4>1
      <4>2. CASE i # c.slot
        BY <3>13, <4>2
      <4>. QED BY <4>1, <4>2
    <3>. QED BY <1>5, <3>14 DEF Keeps
  <2>. QED BY <1>2, <2>1, <2>2 DEF Executed
<1>7. Reporting(xhc', posted, seen)
  BY <1>4, <1>5, <1>6, KeepsReporting
<1>8. \A i : ~ IsReport(e, i)
  BY <1>3 DEF IsReport
<1>9. Reporting(xhc', Append(posted, e), seen)
  BY <1>3, <1>4, <1>5, <1>7, <1>8, PlainPosted
<1>. QED BY <1>4, <1>9 DEF KInv

LEMMA PostedReporting ==
  ASSUME IInv, RInv, KInv, IInv', Keeps(xhc, xhc'),
         \/ posted' = posted /\ seen' = seen
         \/ \E e \in Event : /\ PostEvent(e) /\ \A i : ~ IsReport(e, i)
                             /\ e.type = "Transfer" => xhc.dev[e.slot].alloc /\ e.slot \in SlotId
  PROVE  KInv'
<1>1. /\ xhc \in XState /\ xhc' \in XState /\ Reporting(xhc, posted, seen)
      /\ posted \in Seq(Event)
  BY DEF IInv, Good, KInv, RInv, EventsOK
<1>2. Reporting(xhc', posted, seen)
  BY <1>1, KeepsReporting
<1>3. CASE posted' = posted /\ seen' = seen
  BY <1>2, <1>3 DEF KInv
<1>4. ASSUME NEW e \in Event, PostEvent(e), \A i : ~ IsReport(e, i),
             e.type = "Transfer" => xhc.dev[e.slot].alloc /\ e.slot \in SlotId
      PROVE  KInv'
  <2>1. posted' = Append(posted, e) /\ seen' = seen
    BY <1>4 DEF PostEvent
  <2>2. e.type = "Transfer" => xhc'.dev[e.slot].alloc
    BY <1>4 DEF Keeps
  <2>3. Reporting(xhc', Append(posted, e), seen)
    BY <1>1, <1>2, <1>4, <2>2, PlainPosted
  <2>. QED BY <2>1, <2>3 DEF KInv
<1>. QED BY <1>3, <1>4

(* A transfer ends without a report.                                       *)
LEMMA EndedReporting ==
  ASSUME IInv, RInv, KInv, IInv', NEW slot \in SlotId, xhc.dev[slot].alloc, NEW d,
         NEW request \in Request \cup {"Normal"}, NEW ok \in BOOLEAN, Ended(slot, d, request, ok),
         d.reads = xhc.dev[slot].reads, d.buf = xhc.dev[slot].buf, ok => request # "Normal"
  PROVE  KInv'
<1>1. /\ OnlyDevices(xhc, xhc') /\ xhc'.dev[slot] = d
      /\ \A i \in SlotId : i # slot => xhc'.dev[i] = xhc.dev[i]
      /\ Transfer(slot, request, ok) \in Event
  BY EndedIs
<1>2. SameReads(xhc, xhc', slot)
  BY <1>1 DEF Ended, SameReads, Reads, Others
<1>3. Keeps(xhc, xhc')
  BY <1>1, <1>2, SameReadsKeeps
<1>4. /\ \A i : ~ IsReport(Transfer(slot, request, ok), i)
      /\ Transfer(slot, request, ok).slot = slot
  BY DEF IsReport, Transfer
<1>5. PostEvent(Transfer(slot, request, ok))
  BY DEF Ended
<1>. QED BY <1>1, <1>3, <1>4, <1>5, PostedReporting

(* The read under way ends with a report.                                  *)
LEMMA ReportReporting ==
  ASSUME IInv, RInv, KInv, IInv', NEW slot \in SlotId, xhc.dev[slot].alloc, NEW d,
         Ended(slot, d, "Normal", TRUE), xhc.dev[slot].reads > 0,
         d.reads = xhc.dev[slot].reads - 1
  PROVE  KInv'
<1>1. PICK e : e = Transfer(slot, "Normal", TRUE)
  OBVIOUS
<1>2. /\ OnlyDevices(xhc, xhc') /\ xhc'.dev[slot] = d
      /\ \A i \in SlotId : i # slot => xhc'.dev[i] = xhc.dev[i]
      /\ e \in Event
  BY <1>1, EndedIs
<1>3. /\ IsReport(e, slot) /\ (\A i : i # slot => ~ IsReport(e, i)) /\ e.slot = slot
  BY <1>1 DEF IsReport, Transfer
<1>4. posted' = Append(posted, e) /\ seen' = seen /\ posted \in Seq(Event)
  BY <1>1 DEF Ended, PostEvent, RInv, EventsOK
<1>5. /\ xhc \in XState /\ Reporting(xhc, posted, seen)
      /\ xhc'.phase = xhc.phase /\ SamePorts(xhc, xhc')
  BY <1>2 DEF IInv, Good, KInv, OnlyDevices
<1>6. d.hid = xhc.dev[slot].hid /\ d.prev = xhc.dev[slot].prev
  BY DEF Ended
<1>7. \A i \in SlotId : /\ xhc'.dev[i].alloc = xhc.dev[i].alloc
                        /\ xhc.dev[i].alloc => xhc'.dev[i].ctxPort = xhc.dev[i].ctxPort
                        /\ xhc'.dev[i].hid = xhc.dev[i].hid
  BY <1>2, <1>5, <1>6 DEF SamePorts
<1>8. HidOK(xhc')
  BY <1>5, <1>7 DEF Reporting, HidOK
<1>9. SentOK(xhc', Append(posted, e))
  <2>1. \A i \in 1..Len(posted) : posted[i].type = "Transfer" => posted[i].slot \in SlotId
    <3>1. \A i \in 1..Len(posted) : posted[i] \in Event
      BY <1>4
    <3>. QED BY <3>1 DEF Event
  <2>2. /\ Len(Append(posted, e)) = Len(posted) + 1 /\ Len(posted) \in Nat
        /\ \A i \in 1..(Len(posted) + 1) :
             Append(posted, e)[i] = IF i = Len(posted) + 1 THEN e ELSE posted[i]
    BY <1>4
  <2>3. \A i \in 1..(Len(posted) + 1) : i = Len(posted) + 1 \/ i \in 1..Len(posted)
    BY <2>2
  <2>. QED BY <1>3, <1>5, <1>7, <2>1, <2>2, <2>3 DEF SentOK, Reporting
<1>10. ASSUME NEW i \in SlotId PROVE SlotReports(xhc', Append(posted, e), seen, i)
  <2>1. SlotReports(xhc, posted, seen, i)
    BY <1>5 DEF Reporting
  <2>2. CASE i # slot
    <3>1. /\ NoReport(posted, i) <=> NoReport(Append(posted, e), i)
          /\ OneReport(posted, i) => OneReport(Append(posted, e), i)
      BY <1>2, <1>3, <1>4, <2>2, ReportPosted
    <3>2. xhc'.dev[i] = xhc.dev[i]
      BY <1>2, <2>2
    <3>. QED BY <2>1, <3>1, <3>2 DEF SlotReports, ReadsOK
  <2>3. CASE i = slot
    <3>1. ReadsOK(xhc.dev[slot], posted, slot, seen[slot])
      BY <2>1, <2>3 DEF SlotReports
    <3>2. xhc.dev[slot].hid = 2 /\ xhc.dev[slot].reads = 1 /\ NoReport(posted, slot)
          /\ seen[slot] = xhc.dev[slot].prev
      BY <3>1 DEF ReadsOK
    <3>3. OneReport(Append(posted, e), slot)
      BY <1>2, <1>3, <1>4, <3>2, ReportPosted
    <3>4. ~ NoReport(Append(posted, e), slot)
      BY <3>3 DEF OneReport, NoReport
    <3>5. d.reads = 0 /\ d.hid = 2 /\ d.prev = seen[slot]
      BY <1>6, <3>2
    <3>6. ReadsOK(d, Append(posted, e), slot, seen[slot])
      BY <3>3, <3>4, <3>5 DEF ReadsOK
    <3>7. xhc'.dev[slot].alloc
      BY <1>7
    <3>. QED BY <1>2, <2>3, <3>6, <3>7 DEF SlotReports
  <2>. QED BY <2>2, <2>3
<1>11. Reporting(xhc', Append(posted, e), seen)
  BY <1>5, <1>8, <1>9, <1>10 DEF Reporting
<1>. QED BY <1>4, <1>11 DEF KInv

LEMMA InitKInv == Init => KInv
<1> SUFFICES ASSUME Init PROVE KInv
  OBVIOUS
<1>1. xhc.dev = [i \in SlotId |-> NoDevice] /\ posted = <<>> /\ seen = [i \in SlotId |-> {}]
  BY DEF Init
<1>2. \A i \in SlotId : ~ xhc.dev[i].alloc /\ seen[i] = {}
  BY <1>1 DEF NoDevice
<1>3. HidOK(xhc) /\ \A i \in SlotId : SlotReports(xhc, posted, seen, i)
  BY <1>2 DEF HidOK, SlotReports
<1>4. SentOK(xhc, posted)
  BY <1>1 DEF SentOK
<1>5. seen \in [SlotId -> SUBSET Keys]
  BY <1>1
<1>. QED BY <1>3, <1>4, <1>5 DEF KInv, Reporting

LEMMA KInvStep == IInv /\ RInv /\ KInv /\ IInv' /\ [Next]_vars => KInv'
<1> SUFFICES ASSUME IInv, RInv, KInv, IInv', [Next]_vars PROVE KInv'
  OBVIOUS
<1>1. CASE UNCHANGED vars
  BY <1>1 DEF vars, KInv
<1>2. CASE InitializePort
  <2>1. boot \in Port
    BY <1>2, Sizes DEF IInv, Around, InitializePort, Port
  <2>2. xhc \in XState /\ posted' = posted /\ seen' = seen
    BY <1>2 DEF InitializePort, IInv, Good
  <2>3. Keeps(xhc, xhc')
    <3>1. Keeps(xhc, xhc)
      BY SameDevKeeps
    <3>2. xhc.phase[boot] = "NotConnected" => Keeps(xhc, ResetPort(xhc, boot))
      BY <2>1, <2>2, ResetPortKeeps
    <3>. QED BY <1>2, <3>1, <3>2 DEF InitializePort
  <2>. QED BY <2>2, <2>3, PostedReporting
<1>3. ASSUME NEW p \in Port, PostPortEvent(p) PROVE KInv'
  <2>1. /\ OnlyDevices(xhc, xhc') /\ xhc'.dev = xhc.dev
        /\ \E e \in Event : e.type = "PortStatusChange" /\ PostEvent(e)
    BY <1>3, PostPortEventIs
  <2>2. Keeps(xhc, xhc')
    BY <2>1, SameDevKeeps DEF OnlyDevices
  <2>. QED BY <2>1, <2>2, PostedReporting DEF IsReport
<1>4. ASSUME NEW p \in Port, Plug(p) \/ Unplug(p) PROVE KInv'
  <2>1. xhc'.dev = xhc.dev /\ xhc'.phase = xhc.phase
    BY <1>4, PlugIs, UnplugIs DEF OnlyDevices
  <2>2. posted' = posted /\ seen' = seen
    BY <1>4 DEF Plug, Unplug
  <2>3. Keeps(xhc, xhc')
    BY <2>1, SameDevKeeps
  <2>. QED BY <2>2, <2>3, PostedReporting
<1>5. ASSUME NEW slot \in SlotId, CompleteControl(slot) PROVE KInv'
  <2>1. /\ xhc.dev[slot].alloc
        /\ \E request \in Request, ok \in BOOLEAN : \E d :
             /\ Ended(slot, d, request, ok)
             /\ d.reads = xhc.dev[slot].reads /\ d.buf = xhc.dev[slot].buf
    BY <1>5, CompleteControlIs
  <2>2. \A request \in Request : request # "Normal"
    BY DEF Request
  <2>. QED BY <2>1, <2>2, EndedReporting
<1>6. ASSUME NEW slot \in SlotId, CompleteInterrupt(slot) PROVE KInv'
  <2>1. /\ xhc.dev[slot].alloc /\ xhc.dev[slot].reads > 0
        /\ \E d : \/ /\ Ended(slot, d, "Normal", FALSE)
                     /\ d.reads = xhc.dev[slot].reads /\ d.buf = xhc.dev[slot].buf
                  \/ /\ Ended(slot, d, "Normal", TRUE)
                     /\ d.reads = xhc.dev[slot].reads - 1
    BY <1>6, CompleteInterruptIs
  <2>. QED BY <2>1, EndedReporting, ReportReporting
<1>7. CASE Next
  BY <1>2, <1>3, <1>4, <1>5, <1>6, <1>7, ProcessEventReporting, ExecuteCommandReporting DEF Next
<1>. QED BY <1>1, <1>7

(* One report at a time, for every number of slots and keys and any number *)
(* of faults: a keyboard driver that runs has one read under way or one    *)
(* report to handle, never two, so no report is overwritten before         *)
(* HIDKeyboardDriver::OnDataReceived has seen it, and the observer's calls *)
(* add up to the last report handled.                                      *)
THEOREM NoReportLost == Spec => []OneReportAtATime
<1>1. ASSUME KInv, RInv, IInv PROVE OneReportAtATime
  <2> SUFFICES ASSUME NEW slot \in SlotId, xhc.dev[slot].alloc
               PROVE  LET d == xhc.dev[slot]
                          unread == {i \in 1..Len(posted) :
                                       /\ posted[i].type = "Transfer" /\ posted[i].slot = slot
                                       /\ posted[i].request = "Normal" /\ posted[i].ok}
                      IN  /\ d.reads + Cardinality(unread) = (IF d.hid = 2 THEN 1 ELSE 0)
                          /\ seen[slot] = d.prev
                          /\ unread = {} => d.prev = d.buf
    BY DEF OneReportAtATime
  <2> DEFINE d == xhc.dev[slot]
             unread == {i \in 1..Len(posted) :
                          /\ posted[i].type = "Transfer" /\ posted[i].slot = slot
                          /\ posted[i].request = "Normal" /\ posted[i].ok}
  <2>1. ReadsOK(d, posted, slot, seen[slot])
    BY <1>1 DEF KInv, Reporting, SlotReports
  <2>2. NoReport(posted, slot) <=> unread = {}
    BY DEF NoReport, IsReport
  <2>3. OneReport(posted, slot) => \E i : unread = {i}
    BY DEF OneReport, IsReport
  <2>4. d.hid # 2 => d.reads = 0 /\ unread = {}
    BY <2>1, <2>2 DEF ReadsOK
  <2>5. d.hid = 2 => \/ d.reads = 1 /\ unread = {}
                     \/ d.reads = 0 /\ \E i : unread = {i}
    BY <2>1, <2>2, <2>3 DEF ReadsOK
  <2>6. seen[slot] = d.prev /\ (unread = {} => d.prev = d.buf)
    BY <2>1, <2>2 DEF ReadsOK
  <2> HIDE DEF d, unread
  <2>7. unread = {} => Cardinality(unread) = 0
    BY FS_EmptySet
  <2>8. (\E i : unread = {i}) => Cardinality(unread) = 1
    BY FS_Singleton
  <2>9. d.reads + Cardinality(unread) = (IF d.hid = 2 THEN 1 ELSE 0)
    BY <2>4, <2>5, <2>7, <2>8
  <2>. QED BY <2>6, <2>9 DEF d, unread
<1>. QED BY <1>1, InitIInv, IInvStep, InitRInv, RInvStep, InitKInv, KInvStep, PTL DEF Spec

-----------------------------------------------------------------------------
(* No device is left behind.  What a port or a device waits for is on its  *)
(* way: the status change of a port, the answer to a request, the          *)
(* completion of a command.                                                *)
Told(s, q, p) ==
  p \in s.pending \/ \E i \in 1..Len(q) : q[i].type = "PortStatusChange" /\ q[i].port = p

IsAnswer(e, slot, r) == e.type = "Transfer" /\ e.slot = slot /\ e.request = r /\ e.ok
Asked(s, q, slot, r) ==
  \/ \E k \in 1..Len(s.dev[slot].ctl) : s.dev[slot].ctl[k] = r
  \/ \E i \in 1..Len(q) : IsAnswer(q[i], slot, r)

Issued(s, q, c) ==
  \/ \E j \in 1..Len(s.queued) : s.queued[j] = c
  \/ \E i \in Done(q) : s.cmd.buf[q[i].at].trb = c

(* As long as nothing was unplugged and no transfer failed a port gets to  *)
(* its next phase by what it waits for, by its turn or, before Initialize  *)
(* has come to it, by that.                                                *)
Behind == {"InitializingDevice", "ConfiguringEndpoints", "Configured"}

PortMoves(s, q, b, p) ==
  LET x == s.phase[p]
      r == s.port[p]
  IN  /\ x # "NotConnected" => r.connected
      /\ x \in {"NotConnected", "WaitingAddressed"} => ~ r.prc
      /\ ~ r.connected => ~ r.csc
      /\ x = "NotConnected" /\ r.connected => b <= p \/ Told(s, q, p)
      /\ x = "WaitingAddressed" => s.addressing # 0
      /\ x = "ResettingPort" => r.enabled /\ r.prc /\ Told(s, q, p)
      /\ x \in {"ResettingPort", "EnablingSlot"} => s.addr[p] = "default"
      /\ x \in Busy =>
           \E c \in Command : /\ Issued(s, q, c) /\ PhaseOf(c) = x
                              /\ c.type = "ConfigureEndpoint" =>
                                   s.dev[c.slot].alloc /\ s.dev[c.slot].ctxPort = p
      /\ x \in Behind => \E i \in SlotId : s.dev[i].alloc /\ s.dev[i].ctxPort = p

(* The request whose answer ends a phase of the start of a device.         *)
RequestOf(n) ==
  IF n = 1 THEN "GetDeviceDescriptor"
  ELSE IF n = 2 THEN "GetConfigurationDescriptor" ELSE "SetConfiguration"

SlotMoves(s, q, kd, i) ==
  LET d == s.dev[i]
      x == s.phase[d.ctxPort]
  IN  d.alloc =>
        /\ d.ctl # <<>> => d.ctxPort # 0
        /\ d.ctxPort # 0 =>
             /\ s.addr[d.ctxPort] = "own"
             /\ x = "InitializingDevice" =>
                  /\ d.init \in 1..3
                  /\ \/ Asked(s, q, i, RequestOf(d.init))
                     \/ d.init = 2 /\ kd[d.ctxPort] = "unsupported"
             /\ x \in {"ConfiguringEndpoints", "Configured"} => d.init = 4
             /\ x = "Configured" => d.hid = 2 \/ (d.hid = 1 /\ Asked(s, q, i, "SetProtocol"))

(* An AddressDevice command works on the device that answers to the        *)
(* default address, and succeeds.                                          *)
AddressOK(s, q) ==
  /\ \A j \in 1..Len(s.queued) : s.queued[j].type = "AddressDevice" =>
       /\ s.dev[s.queued[j].slot].alloc /\ s.dev[s.queued[j].slot].inPort = s.addressing
       /\ s.addressing # 0 /\ s.addr[s.addressing] = "default"
  /\ \A i \in Done(q) : s.cmd.buf[q[i].at].trb.type = "AddressDevice" =>
       /\ s.dev[q[i].slot].alloc /\ s.dev[q[i].slot].ctxPort = s.addressing
       /\ s.addressing # 0

OneDevice(s) ==
  \A i, j \in SlotId :
    s.dev[i].alloc /\ s.dev[j].alloc /\ s.dev[i].ctxPort = s.dev[j].ctxPort
    /\ s.dev[i].ctxPort # 0 => i = j

Moves(s, q, b, kd) ==
  /\ \A p \in Port : PortMoves(s, q, b, p)
  /\ \A i \in SlotId : SlotMoves(s, q, kd, i)
  /\ AddressOK(s, q) /\ OneDevice(s)

LInv ==
  /\ faults \in Nat
  /\ faults = 0 /\ ~ xhc.dev[0].alloc => Moves(xhc, posted, boot, kind)

-----------------------------------------------------------------------------
(* What is on its way stays so until it is handled.                        *)
LEMMA TailIs ==
  ASSUME NEW q \in Seq(Event), q # <<>>
  PROVE  \A i \in 1..Len(q) : i = 1 \/ \E j \in 1..Len(Tail(q)) : Tail(q)[j] = q[i]
<1> SUFFICES ASSUME NEW i \in 1..Len(q), i # 1
             PROVE  \E j \in 1..Len(Tail(q)) : Tail(q)[j] = q[i]
  OBVIOUS
<1>1. Len(q) \in Nat /\ Len(Tail(q)) = Len(q) - 1
  OBVIOUS
<1>2. i - 1 \in 1..Len(Tail(q))
  BY <1>1
<1>3. Tail(q)[i - 1] = q[i]
  <2>1. Tail(q)[i - 1] = q[(i - 1) + 1]
    BY <1>1, <1>2
  <2>. QED BY <1>1, <2>1
<1>. QED BY <1>2, <1>3

LEMMA TokensTaken ==
  ASSUME NEW s, NEW q \in Seq(Event), q # <<>>
  PROVE  /\ \A p : Told(s, q, p) =>
              \/ Told(s, Tail(q), p)
              \/ q[1].type = "PortStatusChange" /\ q[1].port = p
         /\ \A i, r : Asked(s, q, i, r) => Asked(s, Tail(q), i, r) \/ IsAnswer(q[1], i, r)
         /\ \A c : Issued(s, q, c) =>
              \/ Issued(s, Tail(q), c)
              \/ q[1].type = "CommandCompletion" /\ s.cmd.buf[q[1].at].trb = c
<1>1. \A i \in 1..Len(q) : i = 1 \/ \E j \in 1..Len(Tail(q)) : Tail(q)[j] = q[i]
  BY TailIs
<1>2. \A p : Told(s, q, p) =>
              \/ Told(s, Tail(q), p)
              \/ q[1].type = "PortStatusChange" /\ q[1].port = p
  <2> SUFFICES ASSUME NEW p, NEW i \in 1..Len(q), q[i].type = "PortStatusChange", q[i].port = p
               PROVE  \/ Told(s, Tail(q), p)
                      \/ q[1].type = "PortStatusChange" /\ q[1].port = p
    BY DEF Told
  <2>. QED BY <1>1 DEF Told
<1>3. \A i, r : Asked(s, q, i, r) => Asked(s, Tail(q), i, r) \/ IsAnswer(q[1], i, r)
  <2> SUFFICES ASSUME NEW i, NEW r, NEW k \in 1..Len(q), IsAnswer(q[k], i, r)
               PROVE  Asked(s, Tail(q), i, r) \/ IsAnswer(q[1], i, r)
    BY DEF Asked
  <2>. QED BY <1>1 DEF Asked
<1>4. \A c : Issued(s, q, c) =>
              \/ Issued(s, Tail(q), c)
              \/ q[1].type = "CommandCompletion" /\ s.cmd.buf[q[1].at].trb = c
  <2> SUFFICES ASSUME NEW c, NEW i \in Done(q), s.cmd.buf[q[i].at].trb = c
               PROVE  \/ Issued(s, Tail(q), c)
                      \/ q[1].type = "CommandCompletion" /\ s.cmd.buf[q[1].at].trb = c
    BY DEF Issued
  <2>1. i \in 1..Len(q) /\ q[i].type = "CommandCompletion"
    BY DEF Done
  <2>2. CASE i = 1
    BY <2>1, <2>2
  <2>3. CASE i # 1
    <3>1. PICK j \in 1..Len(Tail(q)) : Tail(q)[j] = q[i]
      BY <1>1, <2>1, <2>3
    <3>2. j \in Done(Tail(q))
      BY <2>1, <3>1 DEF Done
    <3>. QED BY <3>1, <3>2 DEF Issued
  <2>. QED BY <2>2, <2>3
<1>. QED BY <1>2, <1>3, <1>4

LEMMA TokensPosted ==
  ASSUME NEW s, NEW q \in Seq(Event), NEW e \in Event
  PROVE  /\ \A p : Told(s, q, p) => Told(s, Append(q, e), p)
         /\ \A i, r : Asked(s, q, i, r) => Asked(s, Append(q, e), i, r)
         /\ \A c : Issued(s, q, c) => Issued(s, Append(q, e), c)
         /\ \A p : e.type = "PortStatusChange" /\ e.port = p => Told(s, Append(q, e), p)
         /\ \A i, r : IsAnswer(e, i, r) => Asked(s, Append(q, e), i, r)
         /\ \A c : e.type = "CommandCompletion" /\ s.cmd.buf[e.at].trb = c =>
              Issued(s, Append(q, e), c)
<1>1. /\ \A i \in 1..Len(q) : i \in 1..Len(Append(q, e)) /\ Append(q, e)[i] = q[i]
      /\ Len(q) + 1 \in 1..Len(Append(q, e)) /\ Append(q, e)[Len(q) + 1] = e
  OBVIOUS
<1>2. PICK r, n : /\ r = Append(q, e) /\ n \in 1..Len(r) /\ r[n] = e
                  /\ \A i \in 1..Len(q) : i \in 1..Len(r) /\ r[i] = q[i]
  BY <1>1
<1>3. (\A i \in Done(q) : i \in Done(r) /\ r[i] = q[i])
      /\ (e.type = "CommandCompletion" => n \in Done(r))
  BY <1>2 DEF Done
<1>4. \A p : /\ Told(s, q, p) => Told(s, r, p)
             /\ e.type = "PortStatusChange" /\ e.port = p => Told(s, r, p)
  BY <1>2 DEF Told
<1>5. \A i, x : /\ Asked(s, q, i, x) => Asked(s, r, i, x)
                /\ IsAnswer(e, i, x) => Asked(s, r, i, x)
  BY <1>2 DEF Asked
<1>6. \A c : /\ Issued(s, q, c) => Issued(s, r, c)
             /\ e.type = "CommandCompletion" /\ s.cmd.buf[e.at].trb = c => Issued(s, r, c)
  BY <1>2, <1>3 DEF Issued
<1>. QED BY <1>2, <1>4, <1>5, <1>6

(* A port or a slot to which nothing happens.                              *)
DevicesStay(s, t) ==
  \A i \in SlotId : s.dev[i].alloc /\ s.dev[i].ctxPort # 0 =>
    t.dev[i].alloc /\ t.dev[i].ctxPort = s.dev[i].ctxPort

LEMMA PortStays ==
  ASSUME NEW s, NEW t, NEW q, NEW r, NEW b, NEW a, NEW p \in Port, PortMoves(s, q, b, p),
         t.phase[p] = s.phase[p], t.port[p] = s.port[p],
         s.phase[p] \in {"ResettingPort", "EnablingSlot"} => t.addr[p] = s.addr[p],
         s.phase[p] = "WaitingAddressed" => t.addressing # 0,
         s.phase[p] = "NotConnected" /\ s.port[p].connected /\ b <= p => a <= p,
         \/ Told(s, q, p) => Told(t, r, p)
         \/ s.phase[p] = "NotConnected" /\ ~ s.port[p].connected
         \/ s.phase[p] \notin {"NotConnected", "ResettingPort"},
         \A c \in Command : /\ Issued(s, q, c) /\ PhaseOf(c) = s.phase[p]
                            /\ c.type = "ConfigureEndpoint" => s.dev[c.slot].ctxPort = p
                            => Issued(t, r, c),
         DevicesStay(s, t)
  PROVE  PortMoves(t, r, a, p)
<1>1. p # 0
  BY Sizes DEF Port
<1>2. \A i \in SlotId : s.dev[i].alloc /\ s.dev[i].ctxPort = p =>
        t.dev[i].alloc /\ t.dev[i].ctxPort = p
  BY <1>1 DEF DevicesStay
<1>3. s.phase[p] \in Behind => \E i \in SlotId : t.dev[i].alloc /\ t.dev[i].ctxPort = p
  BY <1>2 DEF PortMoves
<1>4. ASSUME s.phase[p] \in Busy
      PROVE  \E c \in Command : /\ Issued(t, r, c) /\ PhaseOf(c) = s.phase[p]
                                /\ c.type = "ConfigureEndpoint" =>
                                     t.dev[c.slot].alloc /\ t.dev[c.slot].ctxPort = p
  <2>1. PICK c \in Command : /\ Issued(s, q, c) /\ PhaseOf(c) = s.phase[p]
                             /\ c.type = "ConfigureEndpoint" =>
                                  s.dev[c.slot].alloc /\ s.dev[c.slot].ctxPort = p
    BY <1>4 DEF PortMoves
  <2>2. c.slot \in SlotId
    BY DEF Command
  <2>3. Issued(t, r, c)
    BY <2>1
  <2>. QED BY <1>2, <2>1, <2>2, <2>3
<1>. QED BY <1>3, <1>4 DEF PortMoves

LEMMA SlotStays ==
  ASSUME NEW s, NEW t, NEW q, NEW r, NEW kd, NEW i, SlotMoves(s, q, kd, i),
         t.dev[i].alloc => /\ s.dev[i].alloc /\ t.dev[i].ctxPort = s.dev[i].ctxPort
                           /\ t.dev[i].init = s.dev[i].init /\ t.dev[i].hid = s.dev[i].hid
                           /\ t.dev[i].ctl # <<>> => s.dev[i].ctl # <<>>,
         s.dev[i].alloc /\ s.dev[i].ctxPort # 0 =>
           /\ t.phase[s.dev[i].ctxPort] = s.phase[s.dev[i].ctxPort]
           /\ t.addr[s.dev[i].ctxPort] = s.addr[s.dev[i].ctxPort]
           /\ \A x : Asked(s, q, i, x) => Asked(t, r, i, x)
  PROVE  SlotMoves(t, r, kd, i)
BY DEF SlotMoves

(* A command that is pushed takes no other one's place.                    *)
LEMMA PushPlace ==
  ASSUME NEW s \in XState, NEW c, NEW q, NEW sl, NEW w, NEW m, Orderly(s, c, q, sl, w, m),
         NEW p \in Port, Free(s, Places(s, w, m), p)
  PROVE  \A i \in Done(q) : q[i].at \in 0..(Span - 1) /\ q[i].at # s.cmd.index
<1> DEFINE n == Len(s.queued)
<1>1. n \in Nat
  BY DEF XState
<1>2. /\ w \in 0..(Span - 1) /\ m \in Nat /\ m + n <= Span /\ Claims(s, Live(w, m + n))
      /\ c.index = Step(w, m, Span) /\ s.cmd.index = Step(c.index, n, Span)
  BY DEF Orderly, Places, Holds
<1>3. m + n \in Nat /\ Free(s, Live(w, m + n), p)
  BY <1>1, <1>2 DEF Places
<1> HIDE DEF n
<1>4. m + n < Span
  BY <1>2, <1>3, NotFull
<1>5. s.cmd.index = Step(w, m + n, Span)
  BY <1>1, <1>2, <1>4, SpanIs, StepTwice
<1>6. s.cmd.index \notin Live(w, m + n)
  BY <1>2, <1>3, <1>4, <1>5, LiveNext
<1>7. \A i \in Done(q) : q[i].at \in Live(w, m + n)
  BY DoneInPlaces DEF Places, n
<1>. QED BY <1>6, <1>7 DEF Live

LEMMA Pushed ==
  ASSUME NEW s \in XState, NEW u \in XState, u.cmd = s.cmd, u.queued = s.queued,
         NEW x \in Command, NEW q,
         \A i \in Done(q) : q[i].at \in 0..(Span - 1) /\ q[i].at # s.cmd.index
  PROVE  LET t == PushCommand(u, x)
         IN  /\ t.phase = u.phase /\ t.addressing = u.addressing /\ t.addr = u.addr
             /\ t.port = u.port /\ t.pending = u.pending /\ t.dev = u.dev
             /\ t.queued = Append(s.queued, x)
             /\ Issued(t, q, x) /\ \A c : Issued(s, q, c) => Issued(t, q, c)
             /\ \A i \in Done(q) : t.cmd.buf[q[i].at].trb = s.cmd.buf[q[i].at].trb
<1>1. PICK t : t = PushCommand(u, x)
  OBVIOUS
<1>2. /\ t.phase = u.phase /\ t.addressing = u.addressing /\ t.addr = u.addr
      /\ t.port = u.port /\ t.pending = u.pending /\ t.dev = u.dev
      /\ t.queued = Append(s.queued, x) /\ t.cmd = Push(s.cmd, CmdSize, x)
  BY <1>1 DEF PushCommand, XState
<1>3. s.cmd \in CmdRing /\ s.queued \in Seq(Command)
  BY DEF XState
<1>4. \A i \in 0..(CmdSize - 2) :
        Push(s.cmd, CmdSize, x).buf[i] = IF i = s.cmd.index THEN [trb |-> x, cycle |-> s.cmd.cycle]
                                                           ELSE s.cmd.buf[i]
  BY ONLY <1>3, PushIs, x \in Command
<1>5. \A i \in Done(q) : t.cmd.buf[q[i].at] = s.cmd.buf[q[i].at]
  BY <1>2, <1>4, SpanIs
<1>6. /\ Len(s.queued) + 1 \in 1..Len(t.queued) /\ t.queued[Len(s.queued) + 1] = x
      /\ \A j \in 1..Len(s.queued) : j \in 1..Len(t.queued) /\ t.queued[j] = s.queued[j]
  BY <1>2, <1>3
<1>7. Issued(t, q, x)
  BY <1>6 DEF Issued
<1>8. \A c : Issued(s, q, c) => Issued(t, q, c)
  BY <1>5, <1>6 DEF Issued
<1>. QED BY <1>1, <1>2, <1>5, <1>7, <1>8

(* A pushed command that names no device keeps AddressOK.                  *)
LEMMA PushedAddress ==
  ASSUME NEW s \in XState, NEW t, NEW q, NEW x \in Command, x.type # "AddressDevice",
         AddressOK(s, q), t.queued = Append(s.queued, x) \/ t.queued = s.queued,
         t.addressing = s.addressing, t.addr = s.addr,
         \A i \in Done(q) : q[i].slot \in SlotId,
         \A i \in Done(q) : t.cmd.buf[q[i].at].trb = s.cmd.buf[q[i].at].trb,
         \A i \in SlotId : s.dev[i].alloc => /\ t.dev[i].alloc /\ t.dev[i].inPort = s.dev[i].inPort
                                             /\ t.dev[i].ctxPort = s.dev[i].ctxPort
  PROVE  AddressOK(t, q)
<1>1. s.queued \in Seq(Command)
  BY DEF XState
<1>2. \A j \in 1..Len(t.queued) : t.queued[j].type = "AddressDevice" =>
        \E k \in 1..Len(s.queued) : t.queued[j] = s.queued[k]
  <2>1. CASE t.queued = s.queued
    BY <2>1
  <2>2. CASE t.queued = Append(s.queued, x)
    BY <1>1, <2>2
  <2>. QED BY <2>1, <2>2
<1>3. \A k \in 1..Len(s.queued) : s.queued[k].slot \in SlotId
  <2>1. \A k \in 1..Len(s.queued) : s.queued[k] \in Command
    BY <1>1
  <2>. QED BY <2>1 DEF Command
<1>4. \A j \in 1..Len(t.queued) : t.queued[j].type = "AddressDevice" =>
       /\ t.dev[t.queued[j].slot].alloc /\ t.dev[t.queued[j].slot].inPort = t.addressing
       /\ t.addressing # 0 /\ t.addr[t.addressing] = "default"
  BY <1>2, <1>3, ZenonT(60) DEF AddressOK
<1>5. \A i \in Done(q) : t.cmd.buf[q[i].at].trb.type = "AddressDevice" =>
       /\ t.dev[q[i].slot].alloc /\ t.dev[q[i].slot].ctxPort = t.addressing
       /\ t.addressing # 0
  BY DEF AddressOK
<1>. QED BY <1>4, <1>5 DEF AddressOK

LEMMA AddressTail ==
  ASSUME NEW s, NEW q \in Seq(Event), q # <<>>, AddressOK(s, q)
  PROVE  AddressOK(s, Tail(q))
<1>1. \A i \in Done(Tail(q)) : i + 1 \in Done(q) /\ Tail(q)[i] = q[i + 1]
  BY DoneTail
<1>. QED BY <1>1 DEF AddressOK

LEMMA AddressPosted ==
  ASSUME NEW s, NEW q \in Seq(Event), NEW e \in Event, AddressOK(s, q),
         e.type = "CommandCompletion" => s.cmd.buf[e.at].trb.type # "AddressDevice"
  PROVE  AddressOK(s, Append(q, e))
<1>1. /\ \A i \in Done(Append(q, e)) : i \in Done(q) \/ i = Len(q) + 1
      /\ Append(q, e)[Len(q) + 1] = e
      /\ \A i \in Done(q) : Append(q, e)[i] = q[i]
      /\ Len(q) + 1 \in Done(Append(q, e)) <=> e.type = "CommandCompletion"
  BY DoneAppend
<1>. QED BY <1>1 DEF AddressOK

-----------------------------------------------------------------------------
LEMMA LInvMeans ==
  ASSUME IInv, LInv
  PROVE  NoDeviceLeftBehind
<1> SUFFICES ASSUME Quiet, faults = 0, ~ xhc.dev[0].alloc, NEW p \in Port,
                    xhc.port[p].connected, kind[p] # "unsupported"
             PROVE  \E slot \in SlotId : /\ xhc.dev[slot].alloc /\ xhc.dev[slot].ctxPort = p
                                         /\ xhc.dev[slot].hid = 2
  BY DEF NoDeviceLeftBehind
<1>1. xhc \in XState /\ InTurn(xhc) /\ boot \in Nat
  BY DEF IInv, Good, Around
<1>2. (\A i \in Port : PortMoves(xhc, posted, boot, i))
      /\ (\A i \in SlotId : SlotMoves(xhc, posted, kind, i))
  BY DEF LInv, Moves
<1>3. /\ boot > MaxPorts /\ xhc.pending = {} /\ posted = <<>> /\ xhc.queued = <<>>
      /\ \A slot \in SlotId : xhc.dev[slot].alloc => xhc.dev[slot].ctl = <<>>
  BY DEF Quiet
<1>4. \A i : ~ Told(xhc, posted, i)
  BY <1>3 DEF Told
<1>5. \A c : ~ Issued(xhc, posted, c)
  BY <1>3 DEF Issued, Done
<1>6. \A i \in SlotId : \A r : xhc.dev[i].alloc => ~ Asked(xhc, posted, i, r)
  BY <1>3 DEF Asked
<1>7. \A i \in Port : xhc.phase[i] \notin InSequence \cup Busy
  BY <1>2, <1>4, <1>5 DEF PortMoves, InSequence, Busy
<1>8. xhc.phase[p] \in Phase /\ xhc.addressing \in 0..MaxPorts
  BY <1>1 DEF XState
<1>9. xhc.phase[p] # "NotConnected"
  <2>1. ~ (boot <= p)
    BY <1>1, <1>3, Sizes DEF Port
  <2>. QED BY <1>2, <1>4, <2>1 DEF PortMoves
<1>10. xhc.phase[p] # "WaitingAddressed"
  <2> SUFFICES ASSUME xhc.phase[p] = "WaitingAddressed" PROVE FALSE
    OBVIOUS
  <2>1. xhc.addressing # 0
    BY <1>2 DEF PortMoves
  <2>2. xhc.addressing \in Port
    BY <1>8, <2>1, Sizes DEF Port
  <2>. QED BY <1>1, <1>7, <2>2 DEF InTurn
<1>11. xhc.phase[p] \in {"InitializingDevice", "Configured"}
  BY <1>7, <1>8, <1>9, <1>10 DEF Phase, InSequence, Busy
<1>12. PICK i \in SlotId : xhc.dev[i].alloc /\ xhc.dev[i].ctxPort = p
  BY <1>2, <1>11 DEF PortMoves, Behind
<1>13. p # 0
  BY Sizes DEF Port
<1>14. \A r : ~ Asked(xhc, posted, i, r)
  BY <1>6, <1>12
<1>15. SlotMoves(xhc, posted, kind, i)
  BY <1>2
<1>16. xhc.dev[i].hid = 2
  BY <1>11, <1>12, <1>13, <1>14, <1>15 DEF SlotMoves
<1>. QED BY <1>12, <1>16

LEMMA InitLInv == Init => LInv
<1> SUFFICES ASSUME Init PROVE LInv
  OBVIOUS
<1> USE DEF Init
<1>1. PICK plugged \in SUBSET Port, announced \in SUBSET Port :
        xhc = [phase |-> [p \in Port |-> "NotConnected"], addressing |-> 0,
               port |-> [p \in Port |-> [connected |-> p \in plugged, enabled |-> FALSE,
                                        csc |-> p \in plugged, prc |-> FALSE]],
               pending |-> announced, addr |-> [p \in Port |-> "none"],
               cmd |-> NewRing(CmdSize), queued |-> <<>>, dev |-> [i \in SlotId |-> NoDevice]]
  BY Zenon
<1>2. /\ \A p \in Port : /\ xhc.phase[p] = "NotConnected" /\ ~ xhc.port[p].prc
                         /\ xhc.port[p].csc = xhc.port[p].connected
      /\ \A i \in SlotId : ~ xhc.dev[i].alloc
      /\ xhc.queued = <<>>
  BY <1>1 DEF NoDevice
<1>3. boot = 1 /\ posted = <<>> /\ faults = 0
  OBVIOUS
<1> HIDE DEF Init
<1>4. \A p \in Port : 1 <= p
  BY Sizes DEF Port
<1>5. \A p \in Port : PortMoves(xhc, posted, boot, p)
  BY <1>2, <1>3, <1>4 DEF PortMoves, Busy, Behind
<1>6. \A i \in SlotId : SlotMoves(xhc, posted, kind, i)
  BY <1>2 DEF SlotMoves
<1>7. AddressOK(xhc, posted) /\ OneDevice(xhc)
  BY <1>2, <1>3 DEF AddressOK, OneDevice, Done
<1>. QED BY <1>3, <1>5, <1>6, <1>7 DEF LInv, Moves

-----------------------------------------------------------------------------
(* Ports, with their registers and the events they are to post.            *)
LEMMA ChangePort ==
  ASSUME NEW s \in XState, NEW p \in Port, NEW bit \in {"csc", "prc"}
  PROVE  LET t == Change(s, p, bit)
         IN  /\ t.pending = IF s.port[p].csc \/ s.port[p].prc THEN s.pending ELSE s.pending \cup {p}
             /\ t.port[p].connected = s.port[p].connected /\ t.port[p].enabled = s.port[p].enabled
             /\ bit = "csc" => t.port[p].prc = s.port[p].prc
             /\ bit = "prc" => t.port[p].prc = TRUE
             /\ \A i \in Port : i # p => t.port[i] = s.port[i]
<1> DEFINE pend == IF s.port[p].csc \/ s.port[p].prc THEN s.pending ELSE s.pending \cup {p}
<1>1. PICK t : t = Change(s, p, bit)
  OBVIOUS
<1>2. s.port \in [Port -> PortReg]
  BY DEF XState
<1>3. s.port[p] \in PortReg
  BY <1>2
<1>4. CASE bit = "csc"
  <2> DEFINE reg == [s.port EXCEPT ![p].csc = TRUE]
  <2>1. t = [s EXCEPT !.pending = pend, !.port[p].csc = TRUE]
    BY Zenon, <1>1, <1>4 DEF Change, pend
  <2>2. t.pending = pend /\ t.port = reg
    BY <2>1 DEF XState
  <2>3. /\ reg[p].connected = s.port[p].connected /\ reg[p].enabled = s.port[p].enabled
        /\ reg[p].csc = TRUE /\ reg[p].prc = s.port[p].prc
        /\ \A i \in Port : i # p => reg[i] = s.port[i]
    BY <1>2, <1>3 DEF PortReg
  <2> HIDE DEF reg
  <2>. QED BY <1>1, <1>3, <1>4, <2>2, <2>3 DEF pend, PortReg
<1>5. CASE bit = "prc"
  <2> DEFINE reg == [s.port EXCEPT ![p].prc = TRUE]
  <2>1. t = [s EXCEPT !.pending = pend, !.port[p].prc = TRUE]
    BY Zenon, <1>1, <1>5 DEF Change, pend
  <2>2. t.pending = pend /\ t.port = reg
    BY <2>1 DEF XState
  <2>3. /\ reg[p].connected = s.port[p].connected /\ reg[p].enabled = s.port[p].enabled
        /\ reg[p].prc = TRUE /\ reg[p].csc = s.port[p].csc
        /\ \A i \in Port : i # p => reg[i] = s.port[i]
    BY <1>2, <1>3 DEF PortReg
  <2> HIDE DEF reg
  <2>. QED BY <1>1, <1>3, <1>5, <2>2, <2>3 DEF pend, PortReg
<1>. QED BY <1>4, <1>5

(* A port that is reset is enabled, and its event is to be posted.         *)
Enabled(s, t, p) ==
  /\ t.port[p].connected = s.port[p].connected /\ t.port[p].enabled /\ t.port[p].prc
  /\ \A i \in Port : i # p => t.port[i] = s.port[i]
  /\ s.pending \subseteq t.pending /\ (~ s.port[p].prc => p \in t.pending)

LEMMA ResetPorts ==
  ASSUME NEW s \in XState, NEW p \in Port
  PROVE  Enabled(s, Reset(s, p), p)
<1> DEFINE cl == [s EXCEPT !.port[p].csc = FALSE]
           ch == Change(cl, p, "prc")
           reg == [s.port EXCEPT ![p].csc = FALSE]
<1>1. s.port \in [Port -> PortReg] /\ s.port[p] \in PortReg
  BY DEF XState
<1>2. reg \in [Port -> PortReg] /\ cl = [s EXCEPT !.port = reg]
  BY <1>1 DEF XState, PortReg
<1>3. cl \in XState /\ cl.port = reg /\ cl.pending = s.pending
  BY <1>2 DEF XState
<1>4. /\ reg[p].connected = s.port[p].connected /\ reg[p].enabled = s.port[p].enabled
      /\ reg[p].csc = FALSE /\ reg[p].prc = s.port[p].prc
      /\ \A i \in Port : i # p => reg[i] = s.port[i]
  BY <1>1 DEF PortReg
<1> HIDE DEF cl, reg
<1>5. ch \in XState
  BY <1>3, ChangeIs
<1>6. /\ ch.pending = IF cl.port[p].csc \/ cl.port[p].prc THEN cl.pending ELSE cl.pending \cup {p}
      /\ ch.port[p].connected = cl.port[p].connected
      /\ ch.port[p].prc = TRUE
      /\ \A i \in Port : i # p => ch.port[i] = cl.port[i]
  BY <1>3, ChangePort, ZenonT(60)
<1>7. Reset(s, p) = [ch EXCEPT !.port[p].enabled = TRUE, !.addr[p] = "default"]
  BY Zenon DEF Reset, ch, cl
<1> HIDE DEF ch
<1> DEFINE on == [ch.port EXCEPT ![p].enabled = TRUE]
<1>8. ch.port \in [Port -> PortReg] /\ ch.port[p] \in PortReg
  BY <1>5 DEF XState
<1>9. PICK t : t = Reset(s, p)
  OBVIOUS
<1>10. t.port = on /\ t.pending = ch.pending
  BY <1>5, <1>7, <1>9 DEF XState
<1>11. /\ on[p].connected = ch.port[p].connected /\ on[p].enabled = TRUE
       /\ on[p].prc = ch.port[p].prc /\ \A i \in Port : i # p => on[i] = ch.port[i]
  BY <1>8 DEF PortReg
<1> HIDE DEF on
<1>12. t.port[p].prc = TRUE /\ t.port[p].enabled = TRUE
  BY <1>6, <1>10, <1>11
<1>13. /\ t.port[p].connected = s.port[p].connected
       /\ \A i \in Port : i # p => t.port[i] = s.port[i]
  BY <1>3, <1>4, <1>6, <1>10, <1>11
<1>14. s.pending \subseteq t.pending /\ (~ s.port[p].prc => p \in t.pending)
  BY <1>3, <1>4, <1>6, <1>10
<1>. QED BY <1>9, <1>12, <1>13, <1>14 DEF Enabled

LEMMA ResetPortPorts ==
  ASSUME NEW s \in XState, NEW p \in Port, s.phase[p] \in {"NotConnected", "WaitingAddressed"},
         s.addressing = 0, s.port[p].connected
  PROVE  Enabled(s, ResetPort(s, p), p)
<1> DEFINE u == [s EXCEPT !.addressing = p, !.phase[p] = "ResettingPort"]
<1>1. u = [s EXCEPT !.addressing = p, !.phase = [s.phase EXCEPT ![p] = "ResettingPort"]]
  BY DEF XState
<1>2. [s.phase EXCEPT ![p] = "ResettingPort"] \in [Port -> Phase] /\ p \in 0..MaxPorts
  BY Sizes DEF XState, Phase, Port
<1>3. u \in XState /\ u.port = s.port /\ u.pending = s.pending
  BY <1>1, <1>2 DEF XState
<1>4. ResetPort(s, p) = Reset(u, p)
  BY DEF ResetPort
<1> HIDE DEF u
<1>5. Enabled(u, Reset(u, p), p)
  BY <1>3, ResetPorts
<1>. QED BY <1>3, <1>4, <1>5 DEF Enabled

(* What a port that waits does for another one.                            *)
LEMMA WaitingIs ==
  ASSUME NEW s \in XState, NEW p \in Port, s.port[p].connected, s.addressing # 0
  PROVE  LET t == ResetPort(s, p)
         IN  /\ t.phase = [s.phase EXCEPT ![p] = "WaitingAddressed"]
             /\ t.addressing = s.addressing /\ t.addr = s.addr /\ t.port = s.port
             /\ t.pending = s.pending /\ t.cmd = s.cmd /\ t.queued = s.queued /\ t.dev = s.dev
BY DEF ResetPort, XState

LEMMA EnableSlotPorts ==
  ASSUME NEW s \in XState, NEW p \in Port, s.port[p].enabled, s.port[p].prc
  PROVE  \E u : /\ PhaseOnly(s, u, p, "EnablingSlot")
               /\ EnableSlot(s, p) = PushCommand(u, [type |-> "EnableSlot", slot |-> 0])
               /\ u.pending = s.pending /\ u.port[p].connected = s.port[p].connected
               /\ \A i \in Port : i # p => u.port[i] = s.port[i]
<1> DEFINE reg == [s.port EXCEPT ![p].prc = FALSE]
           ph == [s.phase EXCEPT ![p] = "EnablingSlot"]
           u == [s EXCEPT !.port[p].prc = FALSE, !.phase[p] = "EnablingSlot"]
<1>1. s.port \in [Port -> PortReg] /\ s.port[p] \in PortReg
  BY DEF XState
<1>2. /\ reg[p].connected = s.port[p].connected
      /\ \A i \in Port : i # p => reg[i] = s.port[i]
  BY <1>1 DEF PortReg
<1>3. reg \in [Port -> PortReg]
  BY <1>1 DEF PortReg
<1>4. ph \in [Port -> Phase]
  BY DEF XState, Phase
<1>5. u = [s EXCEPT !.port = reg, !.phase = ph]
  BY DEF XState
<1>6. EnableSlot(s, p) = PushCommand(u, [type |-> "EnableSlot", slot |-> 0])
  BY DEF EnableSlot
<1> HIDE DEF u, reg, ph
<1>7. u \in XState /\ u.port = reg /\ u.phase = ph /\ u.pending = s.pending
      /\ u.addressing = s.addressing /\ u.addr = s.addr /\ u.dev = s.dev
      /\ u.cmd = s.cmd /\ u.queued = s.queued
  BY <1>3, <1>4, <1>5 DEF XState
<1>8. PhaseOnly(s, u, p, "EnablingSlot")
  BY <1>7 DEF PhaseOnly, ph
<1>. QED BY <1>2, <1>6, <1>7, <1>8

(* A step of one port to which no device belongs.                          *)
LEMMA OnePort ==
  ASSUME NEW s \in XState, NEW t, NEW q, NEW r, NEW b, NEW a, NEW kd, Moves(s, q, b, kd),
         ContextsOK(s), NEW x \in Port, s.phase[x] \notin Addressed, t.dev = s.dev,
         \A p \in Port : p # x =>
           /\ t.phase[p] = s.phase[p] /\ t.port[p] = s.port[p] /\ t.addr[p] = s.addr[p]
           /\ s.phase[p] = "NotConnected" /\ s.port[p].connected /\ b <= p => a <= p
           /\ Told(s, q, p) => Told(t, r, p),
         s.addressing # 0 => t.addressing # 0,
         \A c \in Command : Issued(s, q, c) => Issued(t, r, c),
         \A i, y : Asked(s, q, i, y) => Asked(t, r, i, y),
         PortMoves(t, r, a, x), AddressOK(t, r)
  PROVE  Moves(t, r, a, kd)
<1>1. \A p \in Port : p # x => PortMoves(t, r, a, p)
  <2> SUFFICES ASSUME NEW p \in Port, p # x PROVE PortMoves(t, r, a, p)
    OBVIOUS
  <2>1. PortMoves(s, q, b, p) /\ DevicesStay(s, t)
    BY DEF Moves, DevicesStay
  <2>2. s.phase[p] = "WaitingAddressed" => t.addressing # 0
    BY <2>1 DEF PortMoves
  <2>. QED BY <2>1, <2>2, PortStays
<1>2. \A i \in SlotId : SlotMoves(t, r, kd, i)
  <2> SUFFICES ASSUME NEW i \in SlotId PROVE SlotMoves(t, r, kd, i)
    OBVIOUS
  <2>1. SlotMoves(s, q, kd, i)
    BY DEF Moves
  <2>2. s.dev[i].alloc /\ s.dev[i].ctxPort # 0 => s.dev[i].ctxPort \in Port /\ s.dev[i].ctxPort # x
    BY ContextPort DEF ContextsOK
  <2>. QED BY <2>1, <2>2, SlotStays
<1>3. OneDevice(t)
  BY DEF Moves, OneDevice
<1>. QED BY <1>1, <1>2, <1>3 DEF Moves

(* From the state s the queue r tells all that q tells, but for the status *)
(* of the port x.                                                          *)
Tells(s, q, r, x) ==
  /\ \A p \in Port : p # x /\ Told(s, q, p) => Told(s, r, p)
  /\ \A i, y : Asked(s, q, i, y) => Asked(s, r, i, y)
  /\ \A c : Issued(s, q, c) => Issued(s, r, c)

LEMMA TellsAs ==
  ASSUME NEW s, NEW t, NEW q, NEW r, NEW x, Tells(s, q, r, x), s.pending \subseteq t.pending,
         t.dev = s.dev, t.cmd = s.cmd, t.queued = s.queued
  PROVE  /\ \A p \in Port : p # x /\ Told(s, q, p) => Told(t, r, p)
         /\ \A i, y : Asked(s, q, i, y) => Asked(t, r, i, y)
         /\ \A c : Issued(s, q, c) => Issued(t, r, c)
<1>1. \A p \in Port : Told(s, r, p) => Told(t, r, p)
  BY DEF Told
<1>2. \A i, y : Asked(s, r, i, y) => Asked(t, r, i, y)
  BY DEF Asked
<1>3. \A c : Issued(s, r, c) => Issued(t, r, c)
  BY DEF Issued
<1>. QED BY <1>1, <1>2, <1>3 DEF Tells

LEMMA ResetPortMoves ==
  ASSUME NEW s, Good(s), NEW q, NEW r, NEW b, NEW a, NEW kd, Moves(s, q, b, kd),
         NEW x \in Port, s.phase[x] = "NotConnected", Tells(s, q, r, x), AddressOK(s, r),
         \A p \in Port : p # x /\ b <= p => a <= p
  PROVE  Moves(ResetPort(s, x), r, a, kd)
<1>1. s \in XState /\ InTurn(s) /\ ContextsOK(s) /\ s.phase[x] \notin Addressed /\ x # 0
  BY Sizes DEF Good, Addressed, Port
<1>2. PortMoves(s, q, b, x)
  BY DEF Moves
<1>3. PICK t : t = ResetPort(s, x)
  OBVIOUS
<1>4. s.phase \in [Port -> Phase] /\ s.addr \in [Port -> {"none", "default", "own"}]
  BY <1>1 DEF XState
<1>5. CASE ~ s.port[x].connected
  <2>1. t = s
    BY <1>3, <1>5 DEF ResetPort
  <2>2. PortMoves(t, r, a, x)
    BY <1>2, <1>5, <2>1 DEF PortMoves, Busy, Behind
  <2>. QED BY <1>1, <1>3, <2>1, <2>2, OnePort DEF Tells
<1>6. CASE s.port[x].connected /\ s.addressing # 0
  <2>1. /\ t.phase = [s.phase EXCEPT ![x] = "WaitingAddressed"]
        /\ t.addressing = s.addressing /\ t.addr = s.addr /\ t.port = s.port
        /\ t.pending = s.pending /\ t.cmd = s.cmd /\ t.queued = s.queued /\ t.dev = s.dev
    BY <1>1, <1>3, <1>6, WaitingIs
  <2>2. t.phase[x] = "WaitingAddressed" /\ \A p \in Port : p # x => t.phase[p] = s.phase[p]
    BY <1>4, <2>1
  <2>3. PortMoves(t, r, a, x)
    BY <1>2, <1>6, <2>1, <2>2 DEF PortMoves, Busy, Behind
  <2>4. AddressOK(t, r)
    BY <2>1 DEF AddressOK
  <2>5. /\ \A p \in Port : p # x /\ Told(s, q, p) => Told(t, r, p)
        /\ \A i, y : Asked(s, q, i, y) => Asked(t, r, i, y)
        /\ \A c : Issued(s, q, c) => Issued(t, r, c)
    BY <2>1, TellsAs
  <2>6. \A p \in Port : p # x =>
           /\ t.phase[p] = s.phase[p] /\ t.port[p] = s.port[p] /\ t.addr[p] = s.addr[p]
           /\ s.phase[p] = "NotConnected" /\ s.port[p].connected /\ b <= p => a <= p
           /\ Told(s, q, p) => Told(t, r, p)
    BY <2>1, <2>2, <2>5
  <2>7. t.dev = s.dev /\ t.addressing = s.addressing
    BY <2>1
  <2>. QED BY <1>1, <1>3, <2>3, <2>4, <2>5, <2>6, <2>7, OnePort
<1>7. CASE s.port[x].connected /\ s.addressing = 0
  <2>1. /\ t.cmd = s.cmd /\ t.queued = s.queued /\ t.dev = s.dev /\ Begun(s, t, x)
        /\ Enabled(s, t, x)
    BY <1>1, <1>3, <1>7, ResetPortIs, ResetPortPorts
  <2>2. /\ t.phase[x] = "ResettingPort" /\ t.addr[x] = "default" /\ t.addressing = x
        /\ \A p \in Port : p # x => t.phase[p] = s.phase[p] /\ t.addr[p] = s.addr[p]
    BY <1>4, <2>1 DEF Begun
  <2>3. /\ t.port[x].connected /\ t.port[x].enabled /\ t.port[x].prc /\ x \in t.pending
        /\ s.pending \subseteq t.pending /\ \A p \in Port : p # x => t.port[p] = s.port[p]
    BY <1>2, <1>7, <2>1 DEF Enabled, PortMoves
  <2>4. Told(t, r, x)
    BY <2>3 DEF Told
  <2>5. PortMoves(t, r, a, x)
    BY <2>2, <2>3, <2>4 DEF PortMoves, Busy, Behind
  <2>6. AddressOK(t, r)
    BY <1>7, <2>1 DEF AddressOK
  <2>7. /\ \A p \in Port : p # x /\ Told(s, q, p) => Told(t, r, p)
        /\ \A i, y : Asked(s, q, i, y) => Asked(t, r, i, y)
        /\ \A c : Issued(s, q, c) => Issued(t, r, c)
    BY <2>1, <2>3, TellsAs
  <2>. QED BY <1>1, <1>3, <2>1, <2>2, <2>3, <2>5, <2>6, <2>7, OnePort
<1>. QED BY <1>5, <1>6, <1>7

LEMMA EnableSlotMoves ==
  ASSUME NEW s, NEW c, NEW q, NEW sl, NEW w, NEW m, NEW r, Ready(s, c, r, sl, w, m),
         NEW b, NEW kd, Moves(s, q, b, kd), NEW x \in Port, s.phase[x] = "ResettingPort",
         Tells(s, q, r, x), AddressOK(s, r)
  PROVE  Moves(EnableSlot(s, x), r, b, kd)
<1> DEFINE new == [type |-> "EnableSlot", slot |-> 0]
<1>1. /\ s \in XState /\ InTurn(s) /\ ContextsOK(s) /\ s.phase[x] \notin Addressed
      /\ s.phase[x] \notin Busy /\ Orderly(s, c, r, sl, w, m)
      /\ \A i \in Done(r) : r[i].slot \in SlotId
  BY DEF Ready, Good, Addressed, Busy
<1>2. new \in Command /\ new.type = "EnableSlot"
  BY Sizes DEF Command, SlotId
<1> HIDE DEF new
<1>3. PortMoves(s, q, b, x)
  BY DEF Moves
<1>4. s.port[x].connected /\ s.port[x].enabled /\ s.port[x].prc /\ s.addr[x] = "default"
  BY <1>3 DEF PortMoves
<1>5. PICK u : /\ PhaseOnly(s, u, x, "EnablingSlot")
              /\ EnableSlot(s, x) = PushCommand(u, new)
              /\ u.pending = s.pending /\ u.port[x].connected = s.port[x].connected
              /\ \A i \in Port : i # x => u.port[i] = s.port[i]
  BY <1>1, <1>4, EnableSlotPorts DEF new
<1>6. /\ u \in XState /\ u.phase = [s.phase EXCEPT ![x] = "EnablingSlot"]
      /\ u.addressing = s.addressing /\ u.addr = s.addr /\ u.dev = s.dev
      /\ u.cmd = s.cmd /\ u.queued = s.queued
  BY <1>5 DEF PhaseOnly
<1>7. Free(s, Places(s, w, m), x)
  BY <1>1, IdleFree DEF Orderly
<1>8. \A i \in Done(r) : r[i].at \in 0..(Span - 1) /\ r[i].at # s.cmd.index
  BY <1>1, <1>7, PushPlace
<1>9. PICK t : t = EnableSlot(s, x)
  OBVIOUS
<1>10. /\ t.phase = u.phase /\ t.addressing = u.addressing /\ t.addr = u.addr
       /\ t.port = u.port /\ t.pending = u.pending /\ t.dev = u.dev
       /\ t.queued = Append(s.queued, new)
       /\ Issued(t, r, new) /\ \A y : Issued(s, r, y) => Issued(t, r, y)
       /\ \A i \in Done(r) : t.cmd.buf[r[i].at].trb = s.cmd.buf[r[i].at].trb
  BY <1>1, <1>2, <1>5, <1>6, <1>8, <1>9, Pushed
<1>11. t.phase[x] = "EnablingSlot" /\ \A p \in Port : p # x => t.phase[p] = s.phase[p]
  BY <1>1, <1>6, <1>10 DEF XState
<1>12. PortMoves(t, r, b, x)
  <2>1. PhaseOf(new) = "EnablingSlot" /\ new.type # "ConfigureEndpoint"
    BY <1>2 DEF PhaseOf
  <2>2. t.port[x].connected /\ t.addr[x] = "default"
    BY <1>4, <1>5, <1>6, <1>10
  <2>. QED BY <1>2, <1>10, <1>11, <2>1, <2>2 DEF PortMoves, Busy, Behind
<1>13. AddressOK(t, r)
  BY <1>1, <1>2, <1>6, <1>10, PushedAddress
<1>14. /\ \A p \in Port : p # x /\ Told(s, q, p) => Told(t, r, p)
       /\ \A i, y : Asked(s, q, i, y) => Asked(t, r, i, y)
       /\ \A y : Issued(s, q, y) => Issued(t, r, y)
  <2>1. \A p : Told(s, r, p) => Told(t, r, p)
    BY <1>5, <1>10 DEF Told
  <2>2. \A i, y : Asked(s, r, i, y) => Asked(t, r, i, y)
    BY <1>6, <1>10 DEF Asked
  <2>. QED BY <1>10, <2>1, <2>2 DEF Tells
<1>15. \A p \in Port : p # x =>
          /\ t.phase[p] = s.phase[p] /\ t.port[p] = s.port[p] /\ t.addr[p] = s.addr[p]
          /\ s.phase[p] = "NotConnected" /\ s.port[p].connected /\ b <= p => b <= p
          /\ Told(s, q, p) => Told(t, r, p)
  BY <1>5, <1>6, <1>10, <1>11, <1>14
<1>16. t.dev = s.dev /\ t.addressing = s.addressing
  BY <1>6, <1>10
<1>. QED BY <1>1, <1>9, <1>12, <1>13, <1>14, <1>15, <1>16, OnePort

LEMMA StatusChangeMoves ==
  ASSUME NEW s, NEW c, NEW q \in Seq(Event), q # <<>>, NEW sl, NEW w, NEW m,
         Ready(s, c, Tail(q), sl, w, m), NEW b, NEW kd, Moves(s, q, b, kd),
         q[1].type = "PortStatusChange", q[1].port \in Port, \A p \in Port : ~ (b <= p)
  PROVE  Moves(OnPortStatusChange(s, q[1].port), Tail(q), b, kd)
<1>1. PICK x \in Port : x = q[1].port
  OBVIOUS
<1>2. PICK r : r = Tail(q)
  OBVIOUS
<1>3. Tells(s, q, r, x)
  BY <1>1, <1>2, TokensTaken DEF Tells, IsAnswer
<1>4. AddressOK(s, r)
  BY <1>2, AddressTail DEF Moves
<1>5. Good(s) /\ s \in XState
  BY DEF Ready, Good
<1>6. CASE s.phase[x] = "NotConnected"
  <2>1. Moves(ResetPort(s, x), r, b, kd)
    BY <1>3, <1>4, <1>5, <1>6, ResetPortMoves
  <2>. QED BY <1>1, <1>2, <1>6, <2>1 DEF OnPortStatusChange
<1>7. CASE s.phase[x] = "ResettingPort"
  <2>1. Moves(EnableSlot(s, x), r, b, kd)
    BY <1>2, <1>3, <1>4, <1>7, EnableSlotMoves
  <2>. QED BY <1>1, <1>2, <1>7, <2>1 DEF OnPortStatusChange
<1>8. CASE s.phase[x] \notin {"NotConnected", "ResettingPort"}
  <2>1. OnPortStatusChange(s, x) = s
    BY <1>8 DEF OnPortStatusChange
  <2>2. \A p \in Port : PortMoves(s, r, b, p)
    <3> SUFFICES ASSUME NEW p \in Port PROVE PortMoves(s, r, b, p)
      OBVIOUS
    <3>1. PortMoves(s, q, b, p) /\ DevicesStay(s, s)
      BY DEF Moves, DevicesStay
    <3>2. s.phase[p] = "WaitingAddressed" => s.addressing # 0
      BY <3>1 DEF PortMoves
    <3>3. (Told(s, q, p) => Told(s, r, p)) \/ s.phase[p] \notin {"NotConnected", "ResettingPort"}
      BY <1>3, <1>8 DEF Tells
    <3>4. \A y \in Command : Issued(s, q, y) => Issued(s, r, y)
      BY <1>3 DEF Tells
    <3>. QED BY <3>1, <3>2, <3>3, <3>4, PortStays
  <2>3. \A i \in SlotId : SlotMoves(s, r, kd, i)
    BY <1>3, SlotStays DEF Tells, Moves
  <2>4. Moves(s, r, b, kd)
    BY <1>4, <2>2, <2>3 DEF Moves
  <2>. QED BY <1>1, <1>2, <2>1, <2>4
<1>. QED BY <1>6, <1>7, <1>8

-----------------------------------------------------------------------------
(* Devices.  One device changes, and of what counts here to init, hid and  *)
(* ctl only.                                                               *)
Alters(s, t, slot, init, hid, ctl) ==
  /\ t \in XState /\ t.phase = s.phase /\ t.addressing = s.addressing /\ t.port = s.port
  /\ t.pending = s.pending /\ t.addr = s.addr /\ t.cmd = s.cmd /\ t.queued = s.queued
  /\ Others(s, t, slot) /\ t.dev[slot].alloc
  /\ t.dev[slot].inPort = s.dev[slot].inPort /\ t.dev[slot].ctxPort = s.dev[slot].ctxPort
  /\ t.dev[slot].init = init /\ t.dev[slot].hid = hid /\ t.dev[slot].ctl = ctl

LEMMA AltersOf ==
  ASSUME NEW s \in XState, NEW slot \in SlotId, NEW d \in Device,
         d.inPort = s.dev[slot].inPort, d.ctxPort = s.dev[slot].ctxPort,
         NEW t, t = [s EXCEPT !.dev = [s.dev EXCEPT ![slot] = d]]
  PROVE  Alters(s, t, slot, d.init, d.hid, d.ctl)
<1>1. s.dev \in [SlotId -> Device \cup {NoDevice}]
  BY DEF XState
<1>2. [s.dev EXCEPT ![slot] = d] \in [SlotId -> Device \cup {NoDevice}]
  BY <1>1
<1>3. /\ t \in XState /\ t.phase = s.phase /\ t.addressing = s.addressing /\ t.port = s.port
      /\ t.pending = s.pending /\ t.addr = s.addr /\ t.cmd = s.cmd /\ t.queued = s.queued
      /\ t.dev = [s.dev EXCEPT ![slot] = d]
  BY <1>2 DEF XState
<1>4. t.dev[slot] = d /\ Others(s, t, slot)
  BY <1>1, <1>3 DEF Others
<1>5. d.alloc
  BY DEF Device
<1>. QED BY <1>3, <1>4, <1>5 DEF Alters

LEMMA AltersNot ==
  ASSUME NEW s \in XState, NEW slot, s.dev[slot].alloc
  PROVE  Alters(s, s, slot, s.dev[slot].init, s.dev[slot].hid, s.dev[slot].ctl)
BY DEF Alters, Others

LEMMA AltersTwice ==
  ASSUME NEW s, NEW t, NEW u, NEW slot, NEW i, NEW h, NEW c, Alters(s, t, slot, i, h, c),
         NEW j, NEW g, NEW b, Alters(t, u, slot, j, g, b)
  PROVE  Alters(s, u, slot, j, g, b)
BY DEF Alters, Others

LEMMA SettersAlter ==
  ASSUME NEW s \in XState, NEW slot \in SlotId, s.dev[slot].alloc
  PROVE  LET d == s.dev[slot]
         IN  /\ \A r \in Request :
                  Alters(s, Control(s, slot, r), slot, d.init, d.hid, Append(d.ctl, r))
             /\ Alters(s, InterruptIn(s, slot), slot, d.init, d.hid, d.ctl)
             /\ \A n \in 0..4 : Alters(s, [s EXCEPT !.dev[slot].init = n], slot, n, d.hid, d.ctl)
             /\ \A n \in 0..2 : Alters(s, [s EXCEPT !.dev[slot].hid = n], slot, d.init, n, d.ctl)
             /\ Alters(s, [s EXCEPT !.dev[slot].prev = d.buf], slot, d.init, d.hid, d.ctl)
<1> DEFINE d == s.dev[slot]
<1>1. d \in Device
  BY DeviceOf
<1>2. ASSUME NEW r \in Request
      PROVE  Alters(s, Control(s, slot, r), slot, d.init, d.hid, Append(d.ctl, r))
  <2>1. d.ctl \in Seq(Request)
    BY <1>1 DEF Device
  <2>2. PICK c \in Seq(Request) : c = Append(d.ctl, r)
    <3>1. Append(d.ctl, r) \in Seq(Request)
      BY <2>1
    <3>. QED BY <3>1
  <2>3. PICK f : f = [d EXCEPT !.ctl = c]
    OBVIOUS
  <2>4. f \in Device /\ f.inPort = d.inPort /\ f.ctxPort = d.ctxPort /\ f.init = d.init
        /\ f.hid = d.hid /\ f.ctl = c
    BY <1>1, <2>3 DEF Device
  <2>5. Control(s, slot, r) = [s EXCEPT !.dev = [s.dev EXCEPT ![slot] = f]]
    BY <2>2, <2>3 DEF Control, XState
  <2>6. Alters(s, Control(s, slot, r), slot, f.init, f.hid, f.ctl)
    BY <2>4, <2>5, AltersOf
  <2>. QED BY <2>2, <2>4, <2>6
<1>3. Alters(s, InterruptIn(s, slot), slot, d.init, d.hid, d.ctl)
  <2>0. PICK n \in Nat : n = d.reads + 1
    <3>1. d.reads \in Nat
      BY <1>1 DEF Device
    <3>. QED BY <3>1
  <2>1. PICK f : f = [d EXCEPT !.reads = n]
    OBVIOUS
  <2>2. f \in Device /\ f.inPort = d.inPort /\ f.ctxPort = d.ctxPort /\ f.init = d.init
        /\ f.hid = d.hid /\ f.ctl = d.ctl
    BY <1>1, <2>1 DEF Device
  <2>3. InterruptIn(s, slot) = [s EXCEPT !.dev = [s.dev EXCEPT ![slot] = f]]
    BY <2>0, <2>1 DEF InterruptIn, XState
  <2>4. Alters(s, InterruptIn(s, slot), slot, f.init, f.hid, f.ctl)
    BY <2>2, <2>3, AltersOf
  <2>. QED BY <2>2, <2>4
<1>4. ASSUME NEW n \in 0..4
      PROVE  Alters(s, [s EXCEPT !.dev[slot].init = n], slot, n, d.hid, d.ctl)
  <2>1. PICK f : f = [d EXCEPT !.init = n]
    OBVIOUS
  <2>2. f \in Device /\ f.inPort = d.inPort /\ f.ctxPort = d.ctxPort /\ f.init = n
        /\ f.hid = d.hid /\ f.ctl = d.ctl
    BY <1>1, <2>1 DEF Device
  <2>3. PICK t : t = [s EXCEPT !.dev[slot].init = n]
    OBVIOUS
  <2>4. t = [s EXCEPT !.dev = [s.dev EXCEPT ![slot] = f]]
    BY <2>1, <2>3 DEF XState
  <2>5. Alters(s, t, slot, f.init, f.hid, f.ctl)
    BY <2>2, <2>4, AltersOf
  <2>. QED BY <2>2, <2>3, <2>5
<1>5. ASSUME NEW n \in 0..2
      PROVE  Alters(s, [s EXCEPT !.dev[slot].hid = n], slot, d.init, n, d.ctl)
  <2>1. PICK f : f = [d EXCEPT !.hid = n]
    OBVIOUS
  <2>2. f \in Device /\ f.inPort = d.inPort /\ f.ctxPort = d.ctxPort /\ f.init = d.init
        /\ f.hid = n /\ f.ctl = d.ctl
    BY <1>1, <2>1 DEF Device
  <2>3. PICK t : t = [s EXCEPT !.dev[slot].hid = n]
    OBVIOUS
  <2>4. t = [s EXCEPT !.dev = [s.dev EXCEPT ![slot] = f]]
    BY <2>1, <2>3 DEF XState
  <2>5. Alters(s, t, slot, f.init, f.hid, f.ctl)
    BY <2>2, <2>4, AltersOf
  <2>. QED BY <2>2, <2>3, <2>5
<1>6. Alters(s, [s EXCEPT !.dev[slot].prev = d.buf], slot, d.init, d.hid, d.ctl)
  <2>1. PICK f : f = [d EXCEPT !.prev = d.buf]
    OBVIOUS
  <2>2. f \in Device /\ f.inPort = d.inPort /\ f.ctxPort = d.ctxPort /\ f.init = d.init
        /\ f.hid = d.hid /\ f.ctl = d.ctl
    BY <1>1, <2>1 DEF Device
  <2>3. PICK t : t = [s EXCEPT !.dev[slot].prev = d.buf]
    OBVIOUS
  <2>4. t = [s EXCEPT !.dev = [s.dev EXCEPT ![slot] = f]]
    BY <2>1, <2>3 DEF XState
  <2>5. Alters(s, t, slot, f.init, f.hid, f.ctl)
    BY <2>2, <2>4, AltersOf
  <2>. QED BY <2>2, <2>3, <2>5
<1>. QED BY <1>2, <1>3, <1>4, <1>5, <1>6

(* The answer to a request moves the start of the device on; any other one *)
(* leaves it where it is.                                                  *)
Answers(s, t, slot, request) ==
  LET d == s.dev[slot]
  IN  \/ /\ Alters(s, t, slot, d.init, d.hid, d.ctl)
         /\ d.init \in 1..3 => \/ request # RequestOf(d.init)
                               \/ d.init = 2 /\ kind[d.ctxPort] = "unsupported"
         /\ d.init = 4 => d.hid # 1 \/ request # "SetProtocol"
      \/ /\ d.init \in {1, 2}
         /\ Alters(s, t, slot, d.init + 1, d.hid, Append(d.ctl, RequestOf(d.init + 1)))
      \/ d.init = 3 /\ Alters(s, t, slot, 4, d.hid, d.ctl)
      \/ d.init = 4 /\ d.hid = 1 /\ Alters(s, t, slot, 4, 2, d.ctl)

LEMMA StartedOn ==
  ASSUME NEW s \in XState, NEW slot \in SlotId, s.dev[slot].alloc, NEW n \in 0..4, NEW r \in Request
  PROVE  Alters(s, Control([s EXCEPT !.dev[slot].init = n], slot, r), slot,
                n, s.dev[slot].hid, Append(s.dev[slot].ctl, r))
<1>1. PICK u : u = [s EXCEPT !.dev[slot].init = n]
  OBVIOUS
<1>2. Alters(s, u, slot, n, s.dev[slot].hid, s.dev[slot].ctl)
  BY <1>1, SettersAlter
<1>3. /\ u \in XState /\ u.dev[slot].alloc /\ u.dev[slot].init = n
      /\ u.dev[slot].hid = s.dev[slot].hid /\ u.dev[slot].ctl = s.dev[slot].ctl
  BY <1>2 DEF Alters
<1>4. Alters(u, Control(u, slot, r), slot, u.dev[slot].init, u.dev[slot].hid,
             Append(u.dev[slot].ctl, r))
  BY <1>3, SettersAlter
<1>5. Alters(s, Control(u, slot, r), slot, n, s.dev[slot].hid, Append(s.dev[slot].ctl, r))
  BY <1>2, <1>3, <1>4, AltersTwice
<1>. QED BY <1>1, <1>5

LEMMA ControlAnswers ==
  ASSUME NEW s \in XState, NEW slot \in SlotId, s.dev[slot].alloc, NEW request
  PROVE  Answers(s, OnControlCompleted(s, slot, request), slot, request)
<1>1. PICK d : d = s.dev[slot]
  OBVIOUS
<1>2. d \in Device /\ d.init \in 0..4 /\ d.hid \in 0..2
  BY <1>1, DeviceOf DEF Device
<1>3. PICK t : t = OnControlCompleted(s, slot, request)
  OBVIOUS
<1>4. Alters(s, s, slot, d.init, d.hid, d.ctl)
  BY <1>1, AltersNot
<1>5. CASE d.init = 1 /\ request = "GetDeviceDescriptor"
  <2>1. t = Control([s EXCEPT !.dev[slot].init = 2], slot, "GetConfigurationDescriptor")
    BY <1>1, <1>3, <1>5 DEF OnControlCompleted
  <2>2. "GetConfigurationDescriptor" \in Request /\ 2 \in 0..4
    BY DEF Request
  <2>3. Alters(s, t, slot, 2, d.hid, Append(d.ctl, "GetConfigurationDescriptor"))
    BY <1>1, <2>1, <2>2, StartedOn
  <2>4. RequestOf(d.init + 1) = "GetConfigurationDescriptor" /\ d.init + 1 = 2
    BY <1>5 DEF RequestOf
  <2>. QED BY <1>1, <1>3, <1>5, <2>3, <2>4 DEF Answers
<1>6. CASE d.init = 2 /\ request = "GetConfigurationDescriptor"
  <2>1. t = IF kind[d.ctxPort] = "unsupported" THEN s
            ELSE Control([s EXCEPT !.dev[slot].init = 3], slot, "SetConfiguration")
    BY <1>1, <1>3, <1>6 DEF OnControlCompleted
  <2>2. "SetConfiguration" \in Request /\ 3 \in 0..4
    BY DEF Request
  <2>3. RequestOf(d.init + 1) = "SetConfiguration" /\ d.init + 1 = 3
    BY <1>6 DEF RequestOf
  <2>4. CASE kind[d.ctxPort] = "unsupported"
    BY <1>1, <1>3, <1>4, <1>6, <2>1, <2>4 DEF Answers
  <2>5. CASE kind[d.ctxPort] # "unsupported"
    <3>1. Alters(s, t, slot, 3, d.hid, Append(d.ctl, "SetConfiguration"))
      BY <1>1, <2>1, <2>2, <2>5, StartedOn
    <3>. QED BY <1>1, <1>3, <1>6, <2>3, <3>1 DEF Answers
  <2>. QED BY <2>4, <2>5
<1>7. CASE d.init = 3 /\ request = "SetConfiguration"
  <2>1. t = [s EXCEPT !.dev[slot].init = 4]
    BY <1>1, <1>3, <1>7 DEF OnControlCompleted
  <2>2. 4 \in 0..4
    OBVIOUS
  <2>3. Alters(s, t, slot, 4, d.hid, d.ctl)
    BY <1>1, <2>1, <2>2, SettersAlter
  <2>. QED BY <1>1, <1>3, <1>7, <2>3 DEF Answers
<1>8. CASE d.init = 4 /\ request = "SetProtocol" /\ d.hid = 1
  <2>1. PICK u : u = [s EXCEPT !.dev[slot].hid = 2]
    OBVIOUS
  <2>2. t = InterruptIn(u, slot)
    BY <1>1, <1>3, <1>8, <2>1 DEF OnControlCompleted, OnSetProtocol
  <2>3. 2 \in 0..2
    OBVIOUS
  <2>4. Alters(s, u, slot, d.init, 2, d.ctl)
    BY <1>1, <2>1, <2>3, SettersAlter
  <2>5. /\ u \in XState /\ u.dev[slot].alloc /\ u.dev[slot].init = d.init
        /\ u.dev[slot].hid = 2 /\ u.dev[slot].ctl = d.ctl
    BY <2>4 DEF Alters
  <2>6. Alters(u, t, slot, u.dev[slot].init, u.dev[slot].hid, u.dev[slot].ctl)
    BY <2>2, <2>5, SettersAlter
  <2>7. Alters(s, t, slot, 4, 2, d.ctl)
    BY <1>8, <2>4, <2>5, <2>6, AltersTwice
  <2>. QED BY <1>1, <1>3, <1>8, <2>7 DEF Answers
<1>9. CASE /\ ~ (d.init = 1 /\ request = "GetDeviceDescriptor")
           /\ ~ (d.init = 2 /\ request = "GetConfigurationDescriptor")
           /\ ~ (d.init = 3 /\ request = "SetConfiguration")
           /\ ~ (d.init = 4 /\ request = "SetProtocol" /\ d.hid = 1)
  <2>1. t = s
    BY <1>1, <1>3, <1>9 DEF OnControlCompleted, OnSetProtocol
  <2>2. d.init \in 1..3 => request # RequestOf(d.init)
    BY <1>9 DEF RequestOf
  <2>. QED BY <1>1, <1>3, <1>4, <1>9, <2>1, <2>2 DEF Answers
<1>. QED BY <1>5, <1>6, <1>7, <1>8, <1>9

LEMMA TransferAnswers ==
  ASSUME NEW s \in XState, NEW e, e.slot \in SlotId, s.dev[e.slot].alloc
  PROVE  Answers(s, OnTransferEventReceived(s, e), e.slot, e.request)
<1>1. PICK slot, d : slot \in SlotId /\ slot = e.slot /\ d = s.dev[slot]
  OBVIOUS
<1>2. CASE e.request # "Normal"
  <2>1. OnTransferEventReceived(s, e) = OnControlCompleted(s, slot, e.request)
    BY <1>1, <1>2 DEF OnTransferEventReceived
  <2>. QED BY <1>1, <2>1, ControlAnswers
<1>3. CASE e.request = "Normal"
  <2>1. PICK u : u = [s EXCEPT !.dev[slot].prev = s.dev[slot].buf]
    OBVIOUS
  <2>2. OnTransferEventReceived(s, e) = InterruptIn(u, slot)
    BY <1>1, <1>3, <2>1 DEF OnTransferEventReceived, OnInterruptCompleted
  <2>3. Alters(s, u, slot, d.init, d.hid, d.ctl)
    BY <1>1, <2>1, SettersAlter
  <2>4. /\ u \in XState /\ u.dev[slot].alloc /\ u.dev[slot].init = d.init
        /\ u.dev[slot].hid = d.hid /\ u.dev[slot].ctl = d.ctl
    BY <2>3 DEF Alters
  <2>5. Alters(u, InterruptIn(u, slot), slot, u.dev[slot].init, u.dev[slot].hid, u.dev[slot].ctl)
    BY <1>1, <2>4, SettersAlter
  <2>6. Alters(s, InterruptIn(u, slot), slot, d.init, d.hid, d.ctl)
    BY <2>3, <2>4, <2>5, AltersTwice
  <2>7. d.init \in 1..3 => "Normal" # RequestOf(d.init)
    BY DEF RequestOf
  <2>. QED BY <1>1, <1>3, <2>2, <2>6, <2>7 DEF Answers
<1>. QED BY <1>2, <1>3

(* A step from s and the events q to t and r that concerns one device and  *)
(* the ports of the set X: what is beside them stays on its way.           *)
Beside(s, q, t, r, slot, X) ==
  /\ Others(s, t, slot) /\ DevicesStay(s, t)
  /\ \A i \in SlotId : i # slot /\ s.dev[i].alloc /\ s.dev[i].ctxPort # 0 =>
       s.dev[i].ctxPort \notin X
  /\ \A p \in Port : p \notin X =>
       /\ t.phase[p] = s.phase[p] /\ t.port[p] = s.port[p] /\ t.addr[p] = s.addr[p]
       /\ Told(s, q, p) => Told(t, r, p)
       /\ s.phase[p] = "WaitingAddressed" => t.addressing # 0
       /\ \A c \in Command : /\ Issued(s, q, c) /\ PhaseOf(c) = s.phase[p]
                             /\ c.type = "ConfigureEndpoint" => s.dev[c.slot].ctxPort = p
                             => Issued(t, r, c)
  /\ \A i \in SlotId : \A y : i # slot /\ Asked(s, q, i, y) => Asked(t, r, i, y)

LEMMA OthersMove ==
  ASSUME NEW s \in XState, NEW t, NEW q, NEW r, NEW b, NEW kd, Moves(s, q, b, kd),
         NEW slot \in SlotId, NEW X, Beside(s, q, t, r, slot, X),
         \A p \in Port : p \in X => PortMoves(t, r, b, p),
         SlotMoves(t, r, kd, slot), AddressOK(t, r), OneDevice(t)
  PROVE  Moves(t, r, b, kd)
<1>1. \A p \in Port : p \notin X => PortMoves(t, r, b, p)
  <2> SUFFICES ASSUME NEW p \in Port, p \notin X PROVE PortMoves(t, r, b, p)
    OBVIOUS
  <2>1. PortMoves(s, q, b, p)
    BY DEF Moves
  <2>2. /\ t.phase[p] = s.phase[p] /\ t.port[p] = s.port[p] /\ t.addr[p] = s.addr[p]
        /\ Told(s, q, p) => Told(t, r, p)
        /\ s.phase[p] = "WaitingAddressed" => t.addressing # 0
        /\ \A c \in Command : /\ Issued(s, q, c) /\ PhaseOf(c) = s.phase[p]
                              /\ c.type = "ConfigureEndpoint" => s.dev[c.slot].ctxPort = p
                              => Issued(t, r, c)
    BY DEF Beside
  <2>3. DevicesStay(s, t)
    BY DEF Beside
  <2>. QED BY <2>1, <2>2, <2>3, PortStays
<1>2. \A i \in SlotId : i # slot => SlotMoves(t, r, kd, i)
  <2> SUFFICES ASSUME NEW i \in SlotId, i # slot PROVE SlotMoves(t, r, kd, i)
    OBVIOUS
  <2>1. SlotMoves(s, q, kd, i)
    BY DEF Moves
  <2>2. t.dev[i] = s.dev[i]
    BY DEF Beside, Others
  <2>3. s.dev[i].alloc /\ s.dev[i].ctxPort # 0 => s.dev[i].ctxPort \in Port /\ s.dev[i].ctxPort \notin X
    BY ContextPort DEF Beside
  <2>4. s.dev[i].alloc /\ s.dev[i].ctxPort # 0 =>
           /\ t.phase[s.dev[i].ctxPort] = s.phase[s.dev[i].ctxPort]
           /\ t.addr[s.dev[i].ctxPort] = s.addr[s.dev[i].ctxPort]
    BY <2>3 DEF Beside
  <2>5. \A y : Asked(s, q, i, y) => Asked(t, r, i, y)
    BY DEF Beside
  <2>. QED BY <2>1, <2>2, <2>4, <2>5, SlotStays
<1>. QED BY <1>1, <1>2 DEF Moves

(* What is asked for stays asked for when a device changes.                *)
LEMMA AltersAsked ==
  ASSUME NEW s \in XState, NEW t, NEW slot \in SlotId, s.dev[slot].alloc, NEW i, NEW h, NEW c, NEW r,
         NEW y \in Request, c = s.dev[slot].ctl \/ c = Append(s.dev[slot].ctl, y),
         Alters(s, t, slot, i, h, c)
  PROVE  /\ \A x : Asked(s, r, slot, x) => Asked(t, r, slot, x)
         /\ \A j \in SlotId : \A x : j # slot /\ Asked(s, r, j, x) => Asked(t, r, j, x)
<1>1. PICK z \in Seq(Request) : z = s.dev[slot].ctl
  <2>1. s.dev[slot].ctl \in Seq(Request)
    BY DeviceOf DEF Device
  <2>. QED BY <2>1
<1>2. \A k \in 1..Len(z) : k \in 1..Len(c) /\ c[k] = z[k]
  <2>1. \A k \in 1..Len(z) : k \in 1..Len(Append(z, y)) /\ Append(z, y)[k] = z[k]
    OBVIOUS
  <2>2. c = z \/ c = Append(z, y)
    BY <1>1
  <2>. QED BY <2>1, <2>2
<1>3. t.dev[slot].ctl = c /\ \A j \in SlotId : j # slot => t.dev[j] = s.dev[j]
  BY DEF Alters, Others
<1>4. \A x : Asked(s, r, slot, x) => Asked(t, r, slot, x)
  BY <1>1, <1>2, <1>3 DEF Asked
<1>5. \A j \in SlotId : \A x : j # slot /\ Asked(s, r, j, x) => Asked(t, r, j, x)
  BY <1>3 DEF Asked
<1>. QED BY <1>4, <1>5

LEMMA AnswersAlter ==
  ASSUME NEW s \in XState, NEW t, NEW slot \in SlotId, s.dev[slot].alloc, NEW request,
         Answers(s, t, slot, request)
  PROVE  \E i, h, c : \E y \in Request :
           /\ Alters(s, t, slot, i, h, c)
           /\ c = s.dev[slot].ctl \/ (c = Append(s.dev[slot].ctl, y) /\ s.dev[slot].init # 0)
<1>1. PICK d : d = s.dev[slot]
  OBVIOUS
<1>2. \A n : RequestOf(n) \in Request
  BY DEF RequestOf, Request
<1>3. CASE Alters(s, t, slot, d.init, d.hid, d.ctl)
  BY <1>1, <1>2, <1>3
<1>4. CASE /\ d.init \in {1, 2}
           /\ Alters(s, t, slot, d.init + 1, d.hid, Append(d.ctl, RequestOf(d.init + 1)))
  <2>0. PICK n : n = d.init + 1
    OBVIOUS
  <2>1. PICK y \in Request : y = RequestOf(n)
    BY <1>2
  <2>3. PICK c : c = Append(d.ctl, y)
    OBVIOUS
  <2>2. Alters(s, t, slot, n, d.hid, c) /\ d.init # 0
    BY <1>4, <2>0, <2>1, <2>3
  <2>. QED BY <1>1, <2>2, <2>3
<1>5. CASE Alters(s, t, slot, 4, d.hid, d.ctl) \/ Alters(s, t, slot, 4, 2, d.ctl)
  BY <1>1, <1>2, <1>5
<1>. QED BY <1>1, <1>3, <1>4, <1>5 DEF Answers

LEMMA LastAsked ==
  ASSUME NEW t, NEW slot, NEW c \in Seq(Request), NEW y \in Request, NEW r,
         t.dev[slot].ctl = Append(c, y)
  PROVE  Asked(t, r, slot, y)
<1>1. Len(c) + 1 \in 1..Len(Append(c, y)) /\ Append(c, y)[Len(c) + 1] = y
  OBVIOUS
<1>. QED BY <1>1 DEF Asked

LEMMA AnsweredSlot ==
  ASSUME NEW s \in XState, NEW t, NEW slot \in SlotId, s.dev[slot].alloc, NEW request,
         Answers(s, t, slot, request), NEW q, NEW r, SlotMoves(s, q, kind, slot),
         s.dev[slot].init # 0 => s.dev[slot].ctxPort # 0,
         \A y : Asked(s, q, slot, y) => Asked(s, r, slot, y) \/ y = request,
         ~ (t.dev[slot].init = 4 /\ t.phase[t.dev[slot].ctxPort] = "InitializingDevice")
  PROVE  SlotMoves(t, r, kind, slot)
<1>1. PICK d : d = s.dev[slot]
  OBVIOUS
<1>2. d \in Device /\ d.init \in 0..4 /\ d.hid \in 0..2
  BY <1>1, DeviceOf DEF Device
<1>0. PICK i, h, c : \E z \in Request :
           /\ Alters(s, t, slot, i, h, c)
           /\ c = d.ctl \/ (c = Append(d.ctl, z) /\ d.init # 0)
  BY <1>1, AnswersAlter
<1>3. PICK z \in Request :
           /\ Alters(s, t, slot, i, h, c)
           /\ c = d.ctl \/ (c = Append(d.ctl, z) /\ d.init # 0)
  BY <1>0
<1>4. /\ t.dev[slot].alloc /\ t.dev[slot].ctxPort = d.ctxPort /\ t.phase = s.phase
      /\ t.addr = s.addr /\ t.dev[slot].ctl = c
      /\ \A y : Asked(s, r, slot, y) => Asked(t, r, slot, y)
      /\ t.dev[slot].ctl # <<>> => d.ctl # <<>> \/ d.init # 0
  <2>1. \A y : Asked(s, r, slot, y) => Asked(t, r, slot, y)
    BY <1>1, <1>3, AltersAsked
  <2>. QED BY <1>1, <1>3, <2>1 DEF Alters
<1>5. PICK x : x = s.phase[d.ctxPort]
  OBVIOUS
<1>6. /\ d.ctl # <<>> => d.ctxPort # 0
      /\ d.ctxPort # 0 =>
             /\ s.addr[d.ctxPort] = "own"
             /\ x = "InitializingDevice" =>
                  /\ d.init \in 1..3
                  /\ \/ Asked(s, q, slot, RequestOf(d.init))
                     \/ d.init = 2 /\ kind[d.ctxPort] = "unsupported"
             /\ x \in {"ConfiguringEndpoints", "Configured"} => d.init = 4
             /\ x = "Configured" => d.hid = 2 \/ (d.hid = 1 /\ Asked(s, q, slot, "SetProtocol"))
  BY <1>1, <1>5 DEF SlotMoves
<1>7. t.dev[slot].ctl # <<>> => d.ctxPort # 0
  BY <1>1, <1>4, <1>6
<1>8. CASE /\ Alters(s, t, slot, d.init, d.hid, d.ctl)
           /\ d.init \in 1..3 => \/ request # RequestOf(d.init)
                                 \/ d.init = 2 /\ kind[d.ctxPort] = "unsupported"
           /\ d.init = 4 => d.hid # 1 \/ request # "SetProtocol"
  <2>1. t.dev[slot].init = d.init /\ t.dev[slot].hid = d.hid
    BY <1>8 DEF Alters
  <2>2. d.ctxPort # 0 /\ x = "InitializingDevice" =>
          Asked(t, r, slot, RequestOf(d.init)) \/ (d.init = 2 /\ kind[d.ctxPort] = "unsupported")
    BY <1>4, <1>6, <1>8
  <2>3. d.ctxPort # 0 /\ x = "Configured" =>
          d.hid = 2 \/ (d.hid = 1 /\ Asked(t, r, slot, "SetProtocol"))
    BY <1>4, <1>6, <1>8
  <2>. QED BY <1>4, <1>5, <1>6, <1>7, <2>1, <2>2, <2>3 DEF SlotMoves
<1>9. CASE /\ d.init \in {1, 2}
           /\ Alters(s, t, slot, d.init + 1, d.hid, Append(d.ctl, RequestOf(d.init + 1)))
  <2>1. PICK n : n = d.init + 1
    OBVIOUS
  <2>2. t.dev[slot].init = n /\ n \in 1..3 /\ d.init # 4
    BY <1>9, <2>1 DEF Alters
  <2>3. RequestOf(n) \in Request
    BY DEF RequestOf, Request
  <2>4. Asked(t, r, slot, RequestOf(n))
    <3>1. t.dev[slot].ctl = Append(d.ctl, RequestOf(n))
      BY <1>9, <2>1 DEF Alters
    <3>2. d.ctl \in Seq(Request)
      BY <1>2 DEF Device
    <3>. QED BY <2>3, <3>1, <3>2, LastAsked
  <2>5. d.ctxPort # 0 => x \notin {"ConfiguringEndpoints", "Configured"}
    BY <1>6, <2>2
  <2>. QED BY <1>4, <1>5, <1>6, <1>7, <2>2, <2>4, <2>5 DEF SlotMoves
<1>10. CASE d.init = 3 /\ Alters(s, t, slot, 4, d.hid, d.ctl)
  <2>1. t.dev[slot].init = 4 /\ x # "InitializingDevice"
    BY <1>4, <1>5, <1>10 DEF Alters
  <2>2. d.ctxPort # 0 => x \notin {"ConfiguringEndpoints", "Configured"}
    BY <1>6, <1>10
  <2>. QED BY <1>4, <1>5, <1>6, <1>7, <2>1, <2>2 DEF SlotMoves
<1>11. CASE d.init = 4 /\ d.hid = 1 /\ Alters(s, t, slot, 4, 2, d.ctl)
  <2>1. t.dev[slot].init = 4 /\ t.dev[slot].hid = 2 /\ x # "InitializingDevice"
    BY <1>4, <1>5, <1>11 DEF Alters
  <2>. QED BY <1>4, <1>5, <1>6, <1>7, <2>1 DEF SlotMoves
<1>12. \/ /\ Alters(s, t, slot, d.init, d.hid, d.ctl)
          /\ d.init \in 1..3 => \/ request # RequestOf(d.init)
                                \/ d.init = 2 /\ kind[d.ctxPort] = "unsupported"
          /\ d.init = 4 => d.hid # 1 \/ request # "SetProtocol"
       \/ /\ d.init \in {1, 2}
          /\ Alters(s, t, slot, d.init + 1, d.hid, Append(d.ctl, RequestOf(d.init + 1)))
       \/ d.init = 3 /\ Alters(s, t, slot, 4, d.hid, d.ctl)
       \/ d.init = 4 /\ d.hid = 1 /\ Alters(s, t, slot, 4, 2, d.ctl)
  BY <1>1 DEF Answers
<1>. QED BY <1>8, <1>9, <1>10, <1>11, <1>12

LEMMA ConfigurePorts ==
  ASSUME NEW s \in XState, NEW slot \in SlotId, s.dev[slot].ctxPort \in Port,
         s.port[s.dev[slot].ctxPort].connected
  PROVE  \E u : /\ PhaseOnly(s, u, s.dev[slot].ctxPort, "ConfiguringEndpoints")
               /\ ConfigureEndpoints(s, slot) =
                    PushCommand(u, [type |-> "ConfigureEndpoint", slot |-> slot])
               /\ u.port = s.port /\ u.pending = s.pending
<1>1. PICK x \in Port : x = s.dev[slot].ctxPort
  OBVIOUS
<1> DEFINE u == [s EXCEPT !.phase[x] = "ConfiguringEndpoints"]
           ph == [s.phase EXCEPT ![x] = "ConfiguringEndpoints"]
<1>2. ConfigureEndpoints(s, slot) = PushCommand(u, [type |-> "ConfigureEndpoint", slot |-> slot])
  BY <1>1 DEF ConfigureEndpoints
<1>3. ph \in [Port -> Phase] /\ u = [s EXCEPT !.phase = ph]
  BY DEF XState, Phase
<1> HIDE DEF u, ph
<1>4. /\ u \in XState /\ u.phase = ph /\ u.addressing = s.addressing /\ u.addr = s.addr
      /\ u.dev = s.dev /\ u.cmd = s.cmd /\ u.queued = s.queued /\ u.port = s.port
      /\ u.pending = s.pending
  BY <1>3 DEF XState
<1>5. PhaseOnly(s, u, x, "ConfiguringEndpoints")
  BY <1>4 DEF PhaseOnly, ph
<1>. QED BY <1>1, <1>2, <1>4, <1>5

(* No device is addressed or changes its port.                             *)
LEMMA AddressCalm ==
  ASSUME NEW s, NEW t, NEW r, AddressOK(s, r), t.queued = s.queued, t.cmd = s.cmd,
         t.addressing = s.addressing, t.addr = s.addr, s.queued \in Seq(Command),
         \A i \in Done(r) : r[i].slot \in SlotId,
         \A i \in SlotId : s.dev[i].alloc => /\ t.dev[i].alloc /\ t.dev[i].inPort = s.dev[i].inPort
                                             /\ t.dev[i].ctxPort = s.dev[i].ctxPort
  PROVE  AddressOK(t, r)
<1>1. \A j \in 1..Len(s.queued) : s.queued[j].slot \in SlotId
  <2>1. \A j \in 1..Len(s.queued) : s.queued[j] \in Command
    OBVIOUS
  <2>. QED BY <2>1 DEF Command
<1>. QED BY <1>1 DEF AddressOK

LEMMA OneDeviceCalm ==
  ASSUME NEW s, NEW t, OneDevice(s), NEW slot \in SlotId, Others(s, t, slot),
         s.dev[slot].alloc, t.dev[slot].ctxPort = s.dev[slot].ctxPort
  PROVE  OneDevice(t)
<1>1. \A i \in SlotId : t.dev[i].alloc => s.dev[i].alloc /\ t.dev[i].ctxPort = s.dev[i].ctxPort
  BY DEF Others
<1>. QED BY <1>1 DEF OneDevice

(* The start of a device goes on where its answer leaves it.               *)
LEMMA AnswerMoves ==
  ASSUME NEW s, NEW q, NEW r, NEW b, Good(s), Moves(s, q, b, kind), AddressOK(s, r),
         \A i \in Done(r) : r[i].slot \in SlotId,
         NEW slot \in SlotId, s.dev[slot].alloc, NEW request,
         NEW t, Answers(s, t, slot, request),
         s.dev[slot].init # 0 => s.dev[slot].ctxPort # 0,
         \A p : Told(s, q, p) => Told(s, r, p),
         \A c : Issued(s, q, c) => Issued(s, r, c),
         \A i, y : Asked(s, q, i, y) => Asked(s, r, i, y) \/ (i = slot /\ y = request),
         ~ (t.dev[slot].init = 4 /\ t.phase[t.dev[slot].ctxPort] = "InitializingDevice")
  PROVE  Moves(t, r, b, kind)
<1>1. s \in XState /\ s.queued \in Seq(Command)
  BY DEF Good, XState
<1>2. PICK j, h, c : \E z \in Request :
        Alters(s, t, slot, j, h, c) /\ (c = s.dev[slot].ctl \/ c = Append(s.dev[slot].ctl, z))
  BY <1>1, AnswersAlter, ZenonT(60)
<1>3. PICK z \in Request :
        Alters(s, t, slot, j, h, c) /\ (c = s.dev[slot].ctl \/ c = Append(s.dev[slot].ctl, z))
  BY <1>2
<1>4. \A i \in SlotId : \A y : i # slot /\ Asked(s, r, i, y) => Asked(t, r, i, y)
  BY <1>1, <1>3, AltersAsked
<1>5. /\ t.phase = s.phase /\ t.addressing = s.addressing /\ t.port = s.port
      /\ t.pending = s.pending /\ t.addr = s.addr /\ t.cmd = s.cmd /\ t.queued = s.queued
      /\ Others(s, t, slot) /\ t.dev[slot].alloc
      /\ t.dev[slot].inPort = s.dev[slot].inPort /\ t.dev[slot].ctxPort = s.dev[slot].ctxPort
  BY <1>3 DEF Alters
<1>6. \A i \in SlotId : s.dev[i].alloc => /\ t.dev[i].alloc /\ t.dev[i].inPort = s.dev[i].inPort
                                          /\ t.dev[i].ctxPort = s.dev[i].ctxPort
  BY <1>5 DEF Others
<1>7. DevicesStay(s, t)
  BY <1>6 DEF DevicesStay
<1>8. AddressOK(t, r)
  BY <1>1, <1>5, <1>6, AddressCalm
<1>9. OneDevice(t)
  BY <1>5, OneDeviceCalm DEF Moves
<1>10. SlotMoves(t, r, kind, slot)
  <2>1. SlotMoves(s, q, kind, slot)
    BY DEF Moves
  <2>2. \A y : Asked(s, q, slot, y) => Asked(s, r, slot, y) \/ y = request
    OBVIOUS
  <2>. QED BY <1>1, <2>1, <2>2, AnsweredSlot
<1>11. \A p : Told(s, q, p) => Told(t, r, p)
  BY <1>5 DEF Told
<1>12. \A x : Issued(s, q, x) => Issued(t, r, x)
  BY <1>5 DEF Issued
<1>13. \A p \in Port : s.phase[p] = "WaitingAddressed" => t.addressing # 0
  BY <1>5 DEF Moves, PortMoves
<1>14. \A i \in SlotId : \A y : i # slot /\ Asked(s, q, i, y) => Asked(t, r, i, y)
  BY <1>4
<1>15. Beside(s, q, t, r, slot, {})
  BY <1>5, <1>7, <1>11, <1>12, <1>13, <1>14 DEF Beside
<1>. QED BY <1>1, <1>8, <1>9, <1>10, <1>15, OthersMove, SMTT(60)

(* The last answer leads to the configuration of the endpoints.            *)
LEMMA ConfigureMoves ==
  ASSUME NEW s, NEW c, NEW q, NEW r, NEW sl, NEW w, NEW m, Ready(s, c, r, sl, w, m),
         NEW b, Moves(s, q, b, kind), AddressOK(s, r),
         NEW slot \in SlotId, s.dev[slot].alloc, NEW request,
         NEW u, Answers(s, u, slot, request), OnlyDevices(s, u), u.dev[slot].init = 4,
         s.dev[slot].ctxPort \in Port, s.phase[s.dev[slot].ctxPort] = "InitializingDevice",
         \A p : Told(s, q, p) => Told(s, r, p),
         \A y : Issued(s, q, y) => Issued(s, r, y),
         \A i, y : Asked(s, q, i, y) => Asked(s, r, i, y) \/ (i = slot /\ y = request)
  PROVE  Moves(ConfigureEndpoints(u, slot), r, b, kind)
<1> DEFINE new == [type |-> "ConfigureEndpoint", slot |-> slot]
<1>1. PICK x \in Port : x = s.dev[slot].ctxPort
  OBVIOUS
<1>2. /\ s \in XState /\ s.queued \in Seq(Command) /\ Orderly(s, c, r, sl, w, m)
      /\ \A i \in Done(r) : r[i].slot \in SlotId
  BY DEF Ready, Good, XState
<1>3. PICK j, h, ct : \E z \in Request :
        Alters(s, u, slot, j, h, ct) /\ (ct = s.dev[slot].ctl \/ ct = Append(s.dev[slot].ctl, z))
  BY <1>2, AnswersAlter, ZenonT(60)
<1>4. PICK z \in Request :
        Alters(s, u, slot, j, h, ct) /\ (ct = s.dev[slot].ctl \/ ct = Append(s.dev[slot].ctl, z))
  BY <1>3
<1>5. \A i \in SlotId : \A y : i # slot /\ Asked(s, r, i, y) => Asked(u, r, i, y)
  BY <1>2, <1>4, AltersAsked
<1>6. /\ u \in XState /\ u.phase = s.phase /\ u.addressing = s.addressing /\ u.port = s.port
      /\ u.pending = s.pending /\ u.addr = s.addr /\ u.cmd = s.cmd /\ u.queued = s.queued
      /\ Others(s, u, slot) /\ u.dev[slot].alloc
      /\ u.dev[slot].inPort = s.dev[slot].inPort /\ u.dev[slot].ctxPort = x
  BY <1>1, <1>4 DEF Alters
<1>7. new \in Command /\ new.type = "ConfigureEndpoint" /\ new.slot = slot
  BY DEF Command
<1> HIDE DEF new
<1>8. PortMoves(s, q, b, x) /\ SlotMoves(s, q, kind, slot) /\ OneDevice(s)
  BY DEF Moves
<1>9. s.port[x].connected /\ s.addr[x] = "own" /\ x # 0
  BY <1>1, <1>8, Sizes DEF PortMoves, SlotMoves, Port
<1>10. PICK v : /\ PhaseOnly(u, v, x, "ConfiguringEndpoints")
               /\ ConfigureEndpoints(u, slot) = PushCommand(v, new)
               /\ v.port = u.port /\ v.pending = u.pending
  BY <1>6, <1>9, ConfigurePorts DEF new
<1>11. /\ v \in XState /\ v.phase = [s.phase EXCEPT ![x] = "ConfiguringEndpoints"]
       /\ v.addressing = s.addressing /\ v.addr = s.addr /\ v.dev = u.dev
       /\ v.cmd = s.cmd /\ v.queued = s.queued
  BY <1>6, <1>10 DEF PhaseOnly
<1>12. \A i \in Done(r) : r[i].at \in 0..(Span - 1) /\ r[i].at # s.cmd.index
  <2>1. s.phase[x] \notin Busy
    BY <1>1 DEF Busy
  <2>2. Free(s, Places(s, w, m), x)
    BY <1>2, <2>1, IdleFree DEF Orderly
  <2>. QED BY <1>2, <2>2, PushPlace
<1>13. PICK t : t = ConfigureEndpoints(u, slot)
  OBVIOUS
<1>14. /\ t.phase = v.phase /\ t.addressing = s.addressing /\ t.addr = s.addr
       /\ t.port = s.port /\ t.pending = s.pending /\ t.dev = u.dev
       /\ t.queued = Append(s.queued, new)
       /\ Issued(t, r, new) /\ \A y : Issued(s, r, y) => Issued(t, r, y)
       /\ \A i \in Done(r) : t.cmd.buf[r[i].at].trb = s.cmd.buf[r[i].at].trb
  <2>1. /\ t.phase = v.phase /\ t.addressing = v.addressing /\ t.addr = v.addr
        /\ t.port = v.port /\ t.pending = v.pending /\ t.dev = v.dev
        /\ t.queued = Append(s.queued, new)
        /\ Issued(t, r, new) /\ \A y : Issued(s, r, y) => Issued(t, r, y)
        /\ \A i \in Done(r) : t.cmd.buf[r[i].at].trb = s.cmd.buf[r[i].at].trb
    BY <1>2, <1>7, <1>10, <1>11, <1>12, <1>13, Pushed
  <2>. QED BY <1>6, <1>10, <1>11, <2>1
<1>15. t.phase[x] = "ConfiguringEndpoints" /\ \A p \in Port : p # x => t.phase[p] = s.phase[p]
  BY <1>2, <1>11, <1>14 DEF XState
<1>16. \A i \in SlotId : s.dev[i].alloc => /\ t.dev[i].alloc /\ t.dev[i].inPort = s.dev[i].inPort
                                           /\ t.dev[i].ctxPort = s.dev[i].ctxPort
  BY <1>1, <1>6, <1>14 DEF Others
<1>17. t.dev[slot].alloc /\ t.dev[slot].ctxPort = x /\ t.dev[slot].init = 4 /\ Others(s, t, slot)
  BY <1>6, <1>14 DEF Others
<1>18. AddressOK(t, r)
  BY <1>2, <1>7, <1>14, <1>16, PushedAddress
<1>19. OneDevice(t)
  BY <1>1, <1>8, <1>17, OneDeviceCalm
<1>20. PortMoves(t, r, b, x)
  <2>1. PhaseOf(new) = "ConfiguringEndpoints"
    BY <1>7 DEF PhaseOf
  <2>. QED BY <1>7, <1>9, <1>14, <1>15, <1>17, <2>1 DEF PortMoves, Busy, Behind
<1>21. SlotMoves(t, r, kind, slot)
  BY <1>9, <1>14, <1>15, <1>17 DEF SlotMoves
<1>22. Beside(s, q, t, r, slot, {x})
  <2>1. DevicesStay(s, t)
    BY <1>16 DEF DevicesStay
  <2>2. \A i \in SlotId : i # slot /\ s.dev[i].alloc /\ s.dev[i].ctxPort # 0 =>
          s.dev[i].ctxPort # x
    BY <1>1, <1>8 DEF OneDevice
  <2>3. \A p \in Port : Told(s, q, p) => Told(t, r, p)
    BY <1>14 DEF Told
  <2>4. \A p \in Port : s.phase[p] = "WaitingAddressed" => t.addressing # 0
    BY <1>14 DEF Moves, PortMoves
  <2>5. \A i \in SlotId : \A y : i # slot /\ Asked(s, q, i, y) => Asked(t, r, i, y)
    BY <1>5, <1>14 DEF Asked
  <2>6. \A y : Issued(s, q, y) => Issued(t, r, y)
    BY <1>14
  <2>. QED BY <1>14, <1>15, <1>17, <2>1, <2>2, <2>3, <2>4, <2>5, <2>6 DEF Beside
<1>. QED BY <1>2, <1>13, <1>18, <1>19, <1>20, <1>21, <1>22, OthersMove, SMTT(60)

LEMMA TransferMoves ==
  ASSUME NEW s, NEW c, NEW q \in Seq(Event), q # <<>>, NEW sl, NEW w, NEW m,
         Ready(s, c, Tail(q), sl, w, m), NEW b, Moves(s, q, b, kind),
         q[1].type = "Transfer", q[1].slot \in SlotId
  PROVE  Moves(OnTransfer(s, q[1]), Tail(q), b, kind)
<1>1. PICK e : e = q[1]
  OBVIOUS
<1>2. PICK r : r = Tail(q)
  OBVIOUS
<1>3. PICK slot \in SlotId : slot = e.slot
  BY <1>1
<1>4. PICK request : request = e.request
  OBVIOUS
<1>5. /\ \A p : Told(s, q, p) => Told(s, r, p)
      /\ \A i, y : Asked(s, q, i, y) => Asked(s, r, i, y) \/ IsAnswer(e, i, y)
      /\ \A y : Issued(s, q, y) => Issued(s, r, y)
  BY <1>1, <1>2, TokensTaken
<1>6. AddressOK(s, r)
  BY <1>2, AddressTail DEF Moves
<1>7. /\ Good(s) /\ s \in XState /\ s.queued \in Seq(Command)
      /\ Ready(s, c, r, sl, w, m) /\ \A i \in Done(r) : r[i].slot \in SlotId
  BY <1>2 DEF Ready, Good, XState
<1>8. CASE ~ s.dev[slot].alloc \/ ~ e.ok
  <2>1. OnTransfer(s, e) = s
    BY <1>3, <1>8 DEF OnTransfer
  <2>2. \A i \in SlotId : \A y : s.dev[i].alloc /\ Asked(s, q, i, y) => Asked(s, r, i, y)
    BY <1>3, <1>5, <1>8 DEF IsAnswer
  <2>3. \A i \in SlotId : SlotMoves(s, r, kind, i)
    <3> SUFFICES ASSUME NEW i \in SlotId PROVE SlotMoves(s, r, kind, i)
      OBVIOUS
    <3>1. SlotMoves(s, q, kind, i)
      BY DEF Moves
    <3>. QED BY <2>2, <3>1, SlotStays
  <2>4. \A p \in Port : PortMoves(s, r, b, p)
    <3> SUFFICES ASSUME NEW p \in Port PROVE PortMoves(s, r, b, p)
      OBVIOUS
    <3>1. PortMoves(s, q, b, p) /\ DevicesStay(s, s)
      BY DEF Moves, DevicesStay
    <3>2. s.phase[p] = "WaitingAddressed" => s.addressing # 0
      BY <3>1 DEF PortMoves
    <3>. QED BY <1>5, <3>1, <3>2, PortStays
  <2>. QED BY <1>1, <1>2, <1>6, <2>1, <2>3, <2>4 DEF Moves
<1>9. CASE s.dev[slot].alloc /\ e.ok
  <2>1. PICK u : u = OnTransferEventReceived(s, e)
    OBVIOUS
  <2>2. Answers(s, u, slot, request) /\ OnlyDevices(s, u)
    BY <1>3, <1>4, <1>7, <1>9, <2>1, TransferAnswers, OnTransferEventReceivedIs
  <2>3. \A i, y : Asked(s, q, i, y) => Asked(s, r, i, y) \/ (i = slot /\ y = request)
    BY <1>3, <1>4, <1>5 DEF IsAnswer
  <2>4. s.dev[slot].init # 0 => s.dev[slot].ctxPort # 0
    BY <1>7, <1>9 DEF Ready, Orderly, SlotsOK
  <2>5. u.phase = s.phase /\ u.dev[slot].ctxPort = s.dev[slot].ctxPort
    BY <1>9, <2>2 DEF OnlyDevices, SamePorts
  <2>6. CASE ~ (u.dev[slot].init = 4 /\ u.phase[u.dev[slot].ctxPort] = "InitializingDevice")
    <3>1. OnTransfer(s, e) = u
      BY <1>3, <1>9, <2>1, <2>6 DEF OnTransfer
    <3>2. Moves(u, r, b, kind)
      BY <1>5, <1>6, <1>7, <1>9, <2>2, <2>3, <2>4, <2>6, AnswerMoves
    <3>. QED BY <1>1, <1>2, <3>1, <3>2
  <2>7. CASE u.dev[slot].init = 4 /\ u.phase[u.dev[slot].ctxPort] = "InitializingDevice"
    <3>1. OnTransfer(s, e) = ConfigureEndpoints(u, slot)
      BY <1>3, <1>9, <2>1, <2>7 DEF OnTransfer
    <3>2. s.dev[slot].init # 0
      BY <2>2, <2>7 DEF Answers, Alters
    <3>3. s.dev[slot].ctxPort \in Port
      BY <1>7, <1>9, <2>4, <3>2, ContextPort
    <3>4. Moves(ConfigureEndpoints(u, slot), r, b, kind)
      BY <1>5, <1>6, <1>7, <1>9, <2>2, <2>3, <2>5, <2>7, <3>3, ConfigureMoves
    <3>. QED BY <1>1, <1>2, <3>1, <3>4
  <2>. QED BY <2>6, <2>7
<1>. QED BY <1>8, <1>9

-----------------------------------------------------------------------------
(* Commands.  The queue r tells all that q tells, but for the command the  *)
(* port x waits for.                                                       *)
Kept(s, q, r, x) ==
  /\ \A p : Told(s, q, p) => Told(s, r, p)
  /\ \A i, y : Asked(s, q, i, y) => Asked(s, r, i, y)
  /\ \A p \in Port : p # x =>
       \A c \in Command : /\ Issued(s, q, c) /\ PhaseOf(c) = s.phase[p]
                          /\ c.type = "ConfigureEndpoint" => s.dev[c.slot].ctxPort = p
                          => Issued(s, r, c)

LEMMA CompletionKept ==
  ASSUME NEW s, InTurn(s), NEW q \in Seq(Event), q # <<>>, q[1].type = "CommandCompletion",
         NEW v, NEW L, NEW sl, Answered(s, q[1], v, L, sl)
  PROVE  Kept(s, q, Tail(q), Owner(s, s.cmd.buf[v].trb))
<1>1. PICK x : x = s.cmd.buf[v].trb
  OBVIOUS
<1>2. /\ q[1].at = v /\ x \in Command /\ Owner(s, x) \in Port
      /\ s.phase[Owner(s, x)] = PhaseOf(x)
  BY <1>1 DEF Answered
<1>3. PICK r : r = Tail(q)
  OBVIOUS
<1>4. /\ \A p : Told(s, q, p) => Told(s, r, p)
      /\ \A i, y : Asked(s, q, i, y) => Asked(s, r, i, y)
      /\ \A c : Issued(s, q, c) => Issued(s, r, c) \/ c = x
  BY <1>1, <1>2, <1>3, TokensTaken DEF IsAnswer
<1>5. ASSUME NEW p \in Port, PhaseOf(x) = s.phase[p],
             x.type = "ConfigureEndpoint" => s.dev[x.slot].ctxPort = p
      PROVE  p = Owner(s, x)
  <2>1. CASE x.type = "ConfigureEndpoint"
    BY <1>5, <2>1 DEF Owner
  <2>2. CASE x.type # "ConfigureEndpoint"
    <3>1. PhaseOf(x) \in InSequence
      BY <1>2, <2>2 DEF PhaseOf, InSequence, Command
    <3>2. p = s.addressing
      BY <1>5, <3>1 DEF InTurn
    <3>. QED BY <2>2, <3>2 DEF Owner
  <2>. QED BY <2>1, <2>2
<1>6. ASSUME NEW p \in Port, p # Owner(s, x), NEW c \in Command, Issued(s, q, c),
             PhaseOf(c) = s.phase[p], c.type = "ConfigureEndpoint" => s.dev[c.slot].ctxPort = p
      PROVE  Issued(s, r, c)
  <2>1. c # x
    BY <1>5, <1>6
  <2>. QED BY <1>4, <1>6, <2>1
<1>. QED BY <1>1, <1>3, <1>4, <1>6 DEF Kept

LEMMA AddressDeviceMoves ==
  ASSUME NEW s, NEW c, NEW q, NEW r, NEW sl, NEW w, NEW m, Ready(s, c, r, sl, w, m),
         NEW b, NEW kd, Moves(s, q, b, kd), AddressOK(s, r),
         NEW x \in Port, x = s.addressing, s.phase[x] = "EnablingSlot",
         Free(s, Places(s, w, m), x), Kept(s, q, r, x),
         NEW slot \in SlotId, ~ s.dev[slot].alloc
  PROVE  Moves(AddressDevice(s, x, slot), r, b, kd)
<1> DEFINE new == [type |-> "AddressDevice", slot |-> slot]
<1>1. /\ s \in XState /\ s.queued \in Seq(Command) /\ Orderly(s, c, r, sl, w, m)
      /\ ContextsOK(s) /\ \A i \in Done(r) : r[i].slot \in SlotId
  BY DEF Ready, Good, XState
<1>2. new \in Command /\ new.type = "AddressDevice" /\ new.slot = slot
  BY DEF Command
<1>3. PICK u : Prepared(s, u, x, slot) /\ AddressDevice(s, x, slot) = PushCommand(u, new)
  BY <1>1, AddressDeviceIs
<1> HIDE DEF new
<1>4. /\ u \in XState /\ u.phase = [s.phase EXCEPT ![x] = "AddressingDevice"]
      /\ u.addressing = s.addressing /\ u.addr = s.addr /\ u.cmd = s.cmd /\ u.queued = s.queued
      /\ u.port = s.port /\ u.pending = s.pending
      /\ u.dev[slot].alloc /\ u.dev[slot].inPort = x
      /\ u.dev[slot].ctxPort = 0 /\ u.dev[slot].ctl = <<>> /\ Others(s, u, slot)
  BY <1>3 DEF Prepared, NewDevice, Others
<1>5. \A i \in Done(r) : r[i].at \in 0..(Span - 1) /\ r[i].at # s.cmd.index
  BY <1>1, PushPlace
<1>6. PICK t : t = AddressDevice(s, x, slot)
  OBVIOUS
<1>7. /\ t.phase = u.phase /\ t.addressing = s.addressing /\ t.addr = s.addr
      /\ t.port = s.port /\ t.pending = s.pending /\ t.dev = u.dev
      /\ t.queued = Append(s.queued, new)
      /\ Issued(t, r, new) /\ \A y : Issued(s, r, y) => Issued(t, r, y)
      /\ \A i \in Done(r) : t.cmd.buf[r[i].at].trb = s.cmd.buf[r[i].at].trb
  <2>1. /\ t.phase = u.phase /\ t.addressing = u.addressing /\ t.addr = u.addr
        /\ t.port = u.port /\ t.pending = u.pending /\ t.dev = u.dev
        /\ t.queued = Append(s.queued, new)
        /\ Issued(t, r, new) /\ \A y : Issued(s, r, y) => Issued(t, r, y)
        /\ \A i \in Done(r) : t.cmd.buf[r[i].at].trb = s.cmd.buf[r[i].at].trb
    BY <1>1, <1>2, <1>3, <1>4, <1>5, <1>6, Pushed
  <2>. QED BY <1>4, <2>1
<1>8. t.phase[x] = "AddressingDevice" /\ \A p \in Port : p # x => t.phase[p] = s.phase[p]
  BY <1>1, <1>4, <1>7 DEF XState
<1>9. PortMoves(s, q, b, x) /\ OneDevice(s) /\ x # 0
  BY Sizes DEF Moves, Port
<1>10. s.port[x].connected /\ s.addr[x] = "default"
  BY <1>9 DEF PortMoves
<1>11. \A i \in SlotId : s.dev[i].alloc => i # slot /\ t.dev[i] = s.dev[i]
  BY <1>4, <1>7 DEF Others
<1>12. AddressOK(t, r)
  <2>1. \A j \in 1..Len(s.queued) : s.queued[j].slot \in SlotId
    <3>1. \A j \in 1..Len(s.queued) : s.queued[j] \in Command
      BY <1>1
    <3>. QED BY <3>1 DEF Command
  <2>2. \A j \in 1..Len(t.queued) : t.queued[j] = new \/ \E k \in 1..Len(s.queued) : t.queued[j] = s.queued[k]
    BY <1>1, <1>2, <1>7
  <2>3. \A k \in 1..Len(s.queued) : s.queued[k].type = "AddressDevice" =>
          /\ t.dev[s.queued[k].slot].alloc /\ t.dev[s.queued[k].slot].inPort = t.addressing
          /\ t.addressing # 0 /\ t.addr[t.addressing] = "default"
    BY <1>7, <1>11, <2>1 DEF AddressOK
  <2>4. /\ t.dev[new.slot].alloc /\ t.dev[new.slot].inPort = t.addressing
        /\ t.addressing # 0 /\ t.addr[t.addressing] = "default"
    BY <1>2, <1>4, <1>7, <1>9, <1>10
  <2>5. \A j \in 1..Len(t.queued) : t.queued[j].type = "AddressDevice" =>
          /\ t.dev[t.queued[j].slot].alloc /\ t.dev[t.queued[j].slot].inPort = t.addressing
          /\ t.addressing # 0 /\ t.addr[t.addressing] = "default"
    BY <2>2, <2>3, <2>4
  <2>6. \A i \in Done(r) : t.cmd.buf[r[i].at].trb.type = "AddressDevice" =>
          t.dev[r[i].slot].alloc /\ t.dev[r[i].slot].ctxPort = t.addressing /\ t.addressing # 0
    BY <1>1, <1>7, <1>11 DEF AddressOK
  <2>. QED BY <2>5, <2>6 DEF AddressOK
<1>13. OneDevice(t)
  <2>1. \A i \in SlotId : t.dev[i].alloc /\ t.dev[i].ctxPort # 0 =>
          s.dev[i].alloc /\ t.dev[i].ctxPort = s.dev[i].ctxPort
    BY <1>4, <1>7 DEF Others
  <2>. QED BY <1>9, <2>1 DEF OneDevice
<1>14. PortMoves(t, r, b, x)
  <2>1. PhaseOf(new) = "AddressingDevice"
    BY <1>2 DEF PhaseOf
  <2>. QED BY <1>2, <1>7, <1>8, <1>10, <2>1 DEF PortMoves, Busy, Behind
<1>15. SlotMoves(t, r, kd, slot)
  BY <1>4, <1>7 DEF SlotMoves
<1>16. Beside(s, q, t, r, slot, {x})
  <2>1. DevicesStay(s, t) /\ Others(s, t, slot)
    BY <1>4, <1>7, <1>11 DEF DevicesStay, Others
  <2>2. \A i \in SlotId : i # slot /\ s.dev[i].alloc /\ s.dev[i].ctxPort # 0 =>
          s.dev[i].ctxPort # x
    BY <1>1 DEF ContextsOK, Addressed
  <2>3. \A p \in Port : Told(s, q, p) => Told(t, r, p)
    <3>1. \A p : Told(s, r, p) => Told(t, r, p)
      BY <1>7 DEF Told
    <3>. QED BY <3>1 DEF Kept
  <2>4. \A p \in Port : s.phase[p] = "WaitingAddressed" => t.addressing # 0
    BY <1>7, <1>9
  <2>5. \A i \in SlotId : \A y : i # slot /\ Asked(s, q, i, y) => Asked(t, r, i, y)
    <3>1. \A i \in SlotId : \A y : i # slot /\ Asked(s, r, i, y) => Asked(t, r, i, y)
      BY <2>1 DEF Asked, Others
    <3>. QED BY <3>1 DEF Kept
  <2>6. \A p \in Port : p # x =>
          \A y \in Command : /\ Issued(s, q, y) /\ PhaseOf(y) = s.phase[p]
                             /\ y.type = "ConfigureEndpoint" => s.dev[y.slot].ctxPort = p
                             => Issued(t, r, y)
    BY <1>7 DEF Kept
  <2>. QED BY <1>7, <1>8, <2>1, <2>2, <2>3, <2>4, <2>5, <2>6 DEF Beside
<1>. QED BY <1>1, <1>6, <1>12, <1>13, <1>14, <1>15, <1>16, OthersMove, SMTT(60)

LEMMA ConfiguredIs ==
  ASSUME NEW s \in XState, NEW slot \in SlotId, s.dev[slot].alloc, NEW p \in Port
  PROVE  \E o, z : /\ z \in Seq(Request)
                   /\ Alters(s, o, slot, s.dev[slot].init, 1, Append(z, "SetProtocol"))
                   /\ PhaseOnly(o, CompleteConfiguration(s, p, slot), p, "Configured")
                   /\ CompleteConfiguration(s, p, slot).port = s.port
                   /\ CompleteConfiguration(s, p, slot).pending = s.pending
<1>1. PICK d : d = s.dev[slot]
  OBVIOUS
<1>2. PICK g : g \in Seq(Request) /\ g = d.ctl
  BY <1>1, DeviceOf DEF Device
<1>3. PICK h : h = [s EXCEPT !.dev[slot].hid = 1]
  OBVIOUS
<1>4. PICK one : one = Control(h, slot, "SetProtocol")
  OBVIOUS
<1>5. PICK o : o = OnEndpointsConfigured(s, slot)
  OBVIOUS
<1>6. PICK y \in Request : y = "SetProtocol"
  BY DEF Request
<1>7. o = one \/ o = Control(one, slot, "SetProtocol")
  BY Zenon, <1>3, <1>4, <1>5 DEF OnEndpointsConfigured
<1>8. Alters(s, h, slot, d.init, 1, g)
  <2>1. 1 \in 0..2
    OBVIOUS
  <2>. QED BY <1>1, <1>2, <1>3, <2>1, SettersAlter
<1>9. /\ h \in XState /\ h.dev[slot].alloc /\ h.dev[slot].init = d.init
      /\ h.dev[slot].hid = 1 /\ h.dev[slot].ctl = g
  BY <1>8 DEF Alters
<1>10. PICK g1 : g1 \in Seq(Request) /\ g1 = Append(g, y)
  <2>1. Append(g, y) \in Seq(Request)
    BY <1>2
  <2>. QED BY <2>1
<1>11. Alters(h, one, slot, d.init, 1, g1)
  BY <1>4, <1>6, <1>9, <1>10, SettersAlter
<1>12. Alters(s, one, slot, d.init, 1, g1)
  BY <1>8, <1>11, AltersTwice
<1>13. /\ one \in XState /\ one.dev[slot].alloc /\ one.dev[slot].init = d.init
       /\ one.dev[slot].hid = 1 /\ one.dev[slot].ctl = g1
  BY <1>12 DEF Alters
<1>14. Alters(one, Control(one, slot, "SetProtocol"), slot, d.init, 1, Append(g1, y))
  BY <1>6, <1>13, SettersAlter
<1>15. Alters(s, Control(one, slot, "SetProtocol"), slot, d.init, 1, Append(g1, y))
  BY <1>12, <1>14, AltersTwice
<1>16. \E z : z \in Seq(Request) /\ Alters(s, o, slot, d.init, 1, Append(z, "SetProtocol"))
  BY <1>2, <1>6, <1>7, <1>10, <1>12, <1>15
<1>17. PICK z : z \in Seq(Request) /\ Alters(s, o, slot, d.init, 1, Append(z, "SetProtocol"))
  BY <1>16
<1>18. PICK t : t = CompleteConfiguration(s, p, slot)
  OBVIOUS
<1>19. t = [o EXCEPT !.phase[p] = "Configured"]
  BY <1>5, <1>18 DEF CompleteConfiguration
<1>20. o \in XState /\ o.port = s.port /\ o.pending = s.pending
  BY <1>17 DEF Alters
<1>21. [o.phase EXCEPT ![p] = "Configured"] \in [Port -> Phase]
  BY <1>20 DEF XState, Phase
<1>22. PhaseOnly(o, t, p, "Configured") /\ t.port = s.port /\ t.pending = s.pending
  BY <1>19, <1>20, <1>21 DEF XState, PhaseOnly
<1>. QED BY <1>1, <1>17, <1>18, <1>22

LEMMA ConfiguredMoves ==
  ASSUME NEW s \in XState, NEW q, NEW r, NEW b, NEW kd, Moves(s, q, b, kd), AddressOK(s, r),
         \A i \in Done(r) : r[i].slot \in SlotId,
         NEW x \in Port, NEW slot \in SlotId, s.dev[slot].alloc, x = s.dev[slot].ctxPort,
         s.phase[x] = "ConfiguringEndpoints", Kept(s, q, r, x)
  PROVE  Moves(CompleteConfiguration(s, x, slot), r, b, kd)
<1>1. PICK t : t = CompleteConfiguration(s, x, slot)
  OBVIOUS
<1>2. PICK o, z : /\ z \in Seq(Request)
                  /\ Alters(s, o, slot, s.dev[slot].init, 1, Append(z, "SetProtocol"))
                  /\ PhaseOnly(o, t, x, "Configured") /\ t.port = s.port /\ t.pending = s.pending
  BY <1>1, ConfiguredIs
<1>3. /\ t.phase = [s.phase EXCEPT ![x] = "Configured"] /\ t.addressing = s.addressing
      /\ t.addr = s.addr /\ t.cmd = s.cmd /\ t.queued = s.queued /\ Others(s, t, slot)
      /\ t.dev[slot].alloc /\ t.dev[slot].inPort = s.dev[slot].inPort
      /\ t.dev[slot].ctxPort = x /\ t.dev[slot].init = s.dev[slot].init
      /\ t.dev[slot].hid = 1 /\ t.dev[slot].ctl = Append(z, "SetProtocol")
  BY <1>2 DEF Alters, PhaseOnly, Others
<1>4. t.phase[x] = "Configured" /\ \A p \in Port : p # x => t.phase[p] = s.phase[p]
  BY <1>3 DEF XState
<1>5. /\ PortMoves(s, q, b, x) /\ OneDevice(s) /\ x # 0 /\ SlotMoves(s, q, kd, slot)
      /\ s.queued \in Seq(Command)
  BY Sizes DEF Moves, Port, XState
<1>6. s.port[x].connected /\ s.addr[x] = "own" /\ s.dev[slot].init = 4
  BY <1>5 DEF PortMoves, SlotMoves
<1>7. \A i \in SlotId : s.dev[i].alloc => /\ t.dev[i].alloc /\ t.dev[i].inPort = s.dev[i].inPort
                                          /\ t.dev[i].ctxPort = s.dev[i].ctxPort
  BY <1>3 DEF Others
<1>8. AddressOK(t, r)
  BY <1>3, <1>5, <1>7, AddressCalm
<1>9. OneDevice(t)
  BY <1>3, <1>5, OneDeviceCalm
<1>10. PortMoves(t, r, b, x)
  BY <1>2, <1>3, <1>4, <1>6 DEF PortMoves, Busy, Behind
<1>11. SlotMoves(t, r, kd, slot)
  <2>1. "SetProtocol" \in Request
    BY DEF Request
  <2>2. Asked(t, r, slot, "SetProtocol")
    BY <1>2, <1>3, <2>1, LastAsked
  <2>. QED BY <1>3, <1>4, <1>5, <1>6, <2>2 DEF SlotMoves
<1>12. Beside(s, q, t, r, slot, {x})
  <2>1. DevicesStay(s, t)
    BY <1>7 DEF DevicesStay
  <2>2. \A i \in SlotId : i # slot /\ s.dev[i].alloc /\ s.dev[i].ctxPort # 0 =>
          s.dev[i].ctxPort # x
    BY <1>5 DEF OneDevice
  <2>3. \A p \in Port : Told(s, q, p) => Told(t, r, p)
    <3>1. \A p : Told(s, r, p) => Told(t, r, p)
      BY <1>2 DEF Told
    <3>. QED BY <3>1 DEF Kept
  <2>4. \A p \in Port : s.phase[p] = "WaitingAddressed" => t.addressing # 0
    BY <1>3 DEF Moves, PortMoves
  <2>5. \A i \in SlotId : \A y : i # slot /\ Asked(s, q, i, y) => Asked(t, r, i, y)
    <3>1. \A i \in SlotId : \A y : i # slot /\ Asked(s, r, i, y) => Asked(t, r, i, y)
      BY <1>3 DEF Asked, Others
    <3>. QED BY <3>1 DEF Kept
  <2>6. \A y : Issued(s, r, y) => Issued(t, r, y)
    BY <1>3 DEF Issued
  <2>7. \A p \in Port : p # x =>
          \A y \in Command : /\ Issued(s, q, y) /\ PhaseOf(y) = s.phase[p]
                             /\ y.type = "ConfigureEndpoint" => s.dev[y.slot].ctxPort = p
                             => Issued(t, r, y)
    BY <2>6 DEF Kept
  <2>. QED BY <1>2, <1>3, <1>4, <2>1, <2>2, <2>3, <2>4, <2>5, <2>7 DEF Beside
<1>. QED BY <1>1, <1>8, <1>9, <1>10, <1>11, <1>12, OthersMove, SMTT(60)

(* A port is idle when its device has its address: the next one that waits *)
(* is reset.                                                               *)
LEMMA NextReset ==
  ASSUME NEW s \in XState, NEW q, NEW b, NEW kd, Moves(s, q, b, kd), NEW x
  PROVE  LET t == ResetWaiting([s EXCEPT !.addressing = 0], x)
         IN  /\ t \in XState /\ t.cmd = s.cmd /\ t.queued = s.queued /\ t.dev = s.dev
             /\ \/ /\ t.phase = s.phase /\ t.addressing = 0 /\ t.addr = s.addr /\ t.port = s.port
                   /\ t.pending = s.pending /\ \A i \in Port : s.phase[i] # "WaitingAddressed"
                \/ \E i \in Port : /\ s.phase[i] = "WaitingAddressed"
                                   /\ Begun(s, t, i) /\ Enabled(s, t, i)
<1>1. PICK z : z = [s EXCEPT !.addressing = 0]
  OBVIOUS
<1>2. /\ z \in XState /\ z.addressing = 0 /\ z.phase = s.phase /\ z.addr = s.addr
      /\ z.cmd = s.cmd /\ z.queued = s.queued /\ z.dev = s.dev /\ z.port = s.port
      /\ z.pending = s.pending
  <2>1. 0 \in 0..MaxPorts
    BY Sizes
  <2>. QED BY <1>1, <2>1 DEF XState
<1>3. PICK t : t = ResetWaiting(z, x)
  OBVIOUS
<1>4. CASE t = z /\ \A i \in Port : z.phase[i] # "WaitingAddressed"
  BY <1>1, <1>2, <1>3, <1>4
<1>5. ASSUME NEW i \in Port, z.phase[i] = "WaitingAddressed", t = ResetPort(z, i)
      PROVE  /\ t \in XState /\ t.cmd = s.cmd /\ t.queued = s.queued /\ t.dev = s.dev
             /\ s.phase[i] = "WaitingAddressed" /\ Begun(s, t, i) /\ Enabled(s, t, i)
  <2>1. z.port[i].connected
    BY <1>2, <1>5 DEF Moves, PortMoves
  <2>2. /\ t \in XState /\ t.cmd = z.cmd /\ t.queued = z.queued /\ t.dev = z.dev
        /\ Begun(z, t, i) /\ Enabled(z, t, i)
    BY <1>2, <1>5, <2>1, ResetPortIs, ResetPortPorts
  <2>. QED BY <1>2, <1>5, <2>2 DEF Begun, Enabled
<1>. QED BY <1>1, <1>2, <1>3, <1>4, <1>5, FirstWaiting, ZenonT(60)

LEMMA InitializedIs ==
  ASSUME NEW w \in XState, NEW slot \in SlotId, w.dev[slot].alloc, NEW p \in Port
  PROVE  \E v : /\ PhaseOnly(w, v, p, "InitializingDevice") /\ v.port = w.port /\ v.pending = w.pending
               /\ Alters(v, InitializeDevice(w, p, slot), slot, 1, w.dev[slot].hid,
                         Append(w.dev[slot].ctl, "GetDeviceDescriptor"))
<1>1. PICK v : v = [w EXCEPT !.phase[p] = "InitializingDevice"]
  OBVIOUS
<1>2. [w.phase EXCEPT ![p] = "InitializingDevice"] \in [Port -> Phase]
  BY DEF XState, Phase
<1>3. PhaseOnly(w, v, p, "InitializingDevice") /\ v.port = w.port /\ v.pending = w.pending
  BY <1>1, <1>2 DEF XState, PhaseOnly
<1>4. v \in XState /\ v.dev = w.dev
  BY <1>3 DEF PhaseOnly
<1>5. [w EXCEPT !.phase[p] = "InitializingDevice", !.dev[slot].init = 1]
        = [v EXCEPT !.dev[slot].init = 1]
  BY <1>1 DEF XState
<1>6. InitializeDevice(w, p, slot) = Control([v EXCEPT !.dev[slot].init = 1], slot, "GetDeviceDescriptor")
  BY <1>5 DEF InitializeDevice
<1>7. "GetDeviceDescriptor" \in Request /\ 1 \in 0..4
  BY DEF Request
<1>8. Alters(v, InitializeDevice(w, p, slot), slot, 1, w.dev[slot].hid,
             Append(w.dev[slot].ctl, "GetDeviceDescriptor"))
  BY <1>4, <1>6, <1>7, StartedOn
<1>. QED BY <1>3, <1>8

LEMMA NoneAddressed ==
  ASSUME NEW s \in XState, NEW c, NEW r, NEW sl, NEW w, NEW m, Orderly(s, c, r, sl, w, m),
         Free(s, Places(s, w, m), s.addressing), NEW t, t.queued = s.queued, t.cmd = s.cmd
  PROVE  AddressOK(t, r)
<1>1. \A i \in Places(s, w, m) : s.cmd.buf[i].trb.type # "AddressDevice"
  BY DEF Free, Owner
<1>2. \A j \in 1..Len(s.queued) : s.queued[j].type # "AddressDevice"
  <2> SUFFICES ASSUME NEW j \in 1..Len(s.queued) PROVE s.queued[j].type # "AddressDevice"
    OBVIOUS
  <2>1. PICK i : i \in Places(s, w, m) /\ s.cmd.buf[i].trb = s.queued[j]
    BY QueuedAt
  <2>. QED BY <1>1, <2>1
<1>3. \A i \in Done(r) : s.cmd.buf[r[i].at].trb.type # "AddressDevice"
  BY <1>1, DoneInPlaces
<1>. QED BY <1>2, <1>3 DEF AddressOK

LEMMA InitializeMoves ==
  ASSUME NEW s, NEW c, NEW q, NEW r, NEW sl, NEW w, NEW m, Ready(s, c, r, sl, w, m),
         NEW b, NEW kd, Moves(s, q, b, kd), NEW x \in Port, x = s.addressing,
         s.phase[x] = "AddressingDevice", Free(s, Places(s, w, m), x), Kept(s, q, r, x),
         NEW slot \in SlotId, s.dev[slot].alloc, x = s.dev[slot].ctxPort
  PROVE  Moves(InitializeDevice(ResetWaiting([s EXCEPT !.addressing = 0], x), x, slot), r, b, kd)
<1>1. s \in XState /\ Orderly(s, c, r, sl, w, m) /\ ContextsOK(s)
  BY DEF Ready, Good
<1>2. PICK n : n = ResetWaiting([s EXCEPT !.addressing = 0], x)
  OBVIOUS
<1>3. /\ n \in XState /\ n.cmd = s.cmd /\ n.queued = s.queued /\ n.dev = s.dev
      /\ \/ /\ n.phase = s.phase /\ n.addressing = 0 /\ n.addr = s.addr /\ n.port = s.port
            /\ n.pending = s.pending /\ \A i \in Port : s.phase[i] # "WaitingAddressed"
         \/ \E i \in Port : /\ s.phase[i] = "WaitingAddressed"
                            /\ Begun(s, n, i) /\ Enabled(s, n, i)
  BY <1>1, <1>2, NextReset
<1>4. PICK t : t = InitializeDevice(n, x, slot)
  OBVIOUS
<1>5. PICK v : /\ PhaseOnly(n, v, x, "InitializingDevice") /\ v.port = n.port /\ v.pending = n.pending
              /\ Alters(v, t, slot, 1, s.dev[slot].hid, Append(s.dev[slot].ctl, "GetDeviceDescriptor"))
  BY <1>3, <1>4, InitializedIs
<1>6. /\ t.phase = [n.phase EXCEPT ![x] = "InitializingDevice"] /\ t.addressing = n.addressing
      /\ t.addr = n.addr /\ t.cmd = s.cmd /\ t.queued = s.queued /\ Others(s, t, slot)
      /\ t.port = n.port /\ t.pending = n.pending
      /\ t.dev[slot].alloc /\ t.dev[slot].ctxPort = x /\ t.dev[slot].init = 1
      /\ t.dev[slot].ctl = Append(s.dev[slot].ctl, "GetDeviceDescriptor")
  BY <1>3, <1>5 DEF Alters, PhaseOnly, Others
<1>7. t.phase[x] = "InitializingDevice" /\ \A p \in Port : p # x => t.phase[p] = n.phase[p]
  BY <1>3, <1>6 DEF XState
<1>8. PortMoves(s, q, b, x) /\ OneDevice(s) /\ x # 0 /\ SlotMoves(s, q, kd, slot)
  BY Sizes DEF Moves, Port
<1>9. s.port[x].connected /\ s.addr[x] = "own"
  BY <1>8 DEF PortMoves, SlotMoves
<1>10. AddressOK(t, r)
  BY <1>1, <1>6, NoneAddressed
<1>11. OneDevice(t)
  BY <1>6, <1>8, OneDeviceCalm
<1>12. Asked(t, r, slot, "GetDeviceDescriptor")
  <2>1. "GetDeviceDescriptor" \in Request
    BY DEF Request
  <2>2. s.dev[slot].ctl \in Seq(Request)
    BY <1>1, DeviceOf DEF Device
  <2>. QED BY <1>6, <2>1, <2>2, LastAsked
<1>13. ASSUME t.addr[x] = "own" PROVE SlotMoves(t, r, kd, slot)
  <2>1. RequestOf(1) = "GetDeviceDescriptor" /\ 1 \in 1..3
    BY DEF RequestOf
  <2>. QED BY <1>6, <1>7, <1>8, <1>12, <1>13, <2>1 DEF SlotMoves
<1>14. ASSUME t.port[x].connected PROVE PortMoves(t, r, b, x)
  BY <1>6, <1>7, <1>14 DEF PortMoves, Busy, Behind
<1>15. \A i \in SlotId : i # slot /\ s.dev[i].alloc /\ s.dev[i].ctxPort # 0 => s.dev[i].ctxPort # x
  BY <1>8 DEF OneDevice
<1>16. DevicesStay(s, t)
  BY <1>6 DEF DevicesStay, Others
<1>17. /\ \A i \in SlotId : \A y : i # slot /\ Asked(s, q, i, y) => Asked(t, r, i, y)
       /\ s.pending \subseteq t.pending => \A p \in Port : Told(s, q, p) => Told(t, r, p)
       /\ \A p \in Port : p # x =>
            \A y \in Command : /\ Issued(s, q, y) /\ PhaseOf(y) = s.phase[p]
                               /\ y.type = "ConfigureEndpoint" => s.dev[y.slot].ctxPort = p
                               => Issued(t, r, y)
  <2>1. \A i \in SlotId : \A y : i # slot /\ Asked(s, r, i, y) => Asked(t, r, i, y)
    BY <1>6 DEF Asked, Others
  <2>2. s.pending \subseteq t.pending => \A p \in Port : Told(s, r, p) => Told(t, r, p)
    BY DEF Told
  <2>3. \A y : Issued(s, r, y) => Issued(t, r, y)
    BY <1>6 DEF Issued
  <2>. QED BY <2>1, <2>2, <2>3 DEF Kept
<1>18. CASE /\ n.phase = s.phase /\ n.addressing = 0 /\ n.addr = s.addr /\ n.port = s.port
            /\ n.pending = s.pending /\ \A i \in Port : s.phase[i] # "WaitingAddressed"
  <2>1. t.addr = s.addr /\ t.port = s.port /\ s.pending \subseteq t.pending
    BY <1>6, <1>18
  <2>2. SlotMoves(t, r, kd, slot) /\ PortMoves(t, r, b, x)
    BY <1>9, <1>13, <1>14, <2>1
  <2>3. Beside(s, q, t, r, slot, {x})
    BY <1>6, <1>7, <1>15, <1>16, <1>17, <1>18, <2>1 DEF Beside
  <2>4. Moves(t, r, b, kd)
    BY <1>1, <1>10, <1>11, <2>2, <2>3, OthersMove, SMTT(60)
  <2>. QED BY <1>2, <1>4, <2>4
<1>19. ASSUME NEW i \in Port, s.phase[i] = "WaitingAddressed", Begun(s, n, i), Enabled(s, n, i)
       PROVE  Moves(t, r, b, kd)
  <2>1. i # x /\ PortMoves(s, q, b, i) /\ i # 0
    BY <1>19, Sizes DEF Moves, Port
  <2>2. /\ n.phase[i] = "ResettingPort" /\ n.addr[i] = "default" /\ n.addressing = i
        /\ \A p \in Port : p # i => n.phase[p] = s.phase[p] /\ n.addr[p] = s.addr[p]
    BY <1>1, <1>19 DEF Begun, XState
  <2>3. /\ n.port[i].connected /\ n.port[i].enabled /\ n.port[i].prc /\ i \in n.pending
        /\ s.pending \subseteq n.pending /\ \A p \in Port : p # i => n.port[p] = s.port[p]
    BY <1>19, <2>1 DEF Enabled, PortMoves
  <2>4. SlotMoves(t, r, kd, slot) /\ PortMoves(t, r, b, x)
    BY <1>6, <1>9, <1>13, <1>14, <2>1, <2>2, <2>3
  <2>5. PortMoves(t, r, b, i)
    <3>1. Told(t, r, i)
      BY <1>6, <2>3 DEF Told
    <3>. QED BY <1>6, <1>7, <2>1, <2>2, <2>3, <3>1 DEF PortMoves, Busy, Behind
  <2>6. \A j \in SlotId : s.dev[j].alloc /\ s.dev[j].ctxPort # 0 => s.dev[j].ctxPort # i
    BY <1>1, <1>19 DEF ContextsOK, Addressed
  <2>7. /\ \A p \in Port : p \notin {x, i} =>
             t.phase[p] = s.phase[p] /\ t.port[p] = s.port[p] /\ t.addr[p] = s.addr[p]
        /\ t.addressing # 0 /\ s.pending \subseteq t.pending
    BY <1>6, <1>7, <2>1, <2>2, <2>3
  <2>8. Beside(s, q, t, r, slot, {x, i})
    BY <1>6, <1>15, <1>16, <1>17, <2>6, <2>7 DEF Beside
  <2>. QED BY <1>1, <1>10, <1>11, <2>4, <2>5, <2>8, OthersMove, SMTT(60)
<1>. QED BY <1>2, <1>3, <1>4, <1>18, <1>19

LEMMA CompletionMoves ==
  ASSUME NEW s, NEW c, NEW q \in Seq(Event), q # <<>>, NEW sl, NEW w, NEW m,
         Ready(s, c, Tail(q), sl, w, m), NEW b, NEW kd, Moves(s, q, b, kd),
         q[1].type = "CommandCompletion", q[1].slot \in SlotId,
         NEW v, Answered(s, q[1], v, Places(s, w, m), sl),
         s.cmd.buf[v].trb.type = "ConfigureEndpoint" => s.dev[q[1].slot].alloc,
         ~ OnCommandCompletion(s, q[1]).dev[0].alloc
  PROVE  Moves(OnCommandCompletion(s, q[1]), Tail(q), b, kd)
<1>1. PICK e, r, x : e = q[1] /\ r = Tail(q) /\ x = s.cmd.buf[v].trb
  OBVIOUS
<1>2. /\ s \in XState /\ InTurn(s) /\ Ready(s, c, r, sl, w, m)
      /\ \A i \in Done(r) : r[i].slot \in SlotId
  BY <1>1 DEF Ready, Good
<1>3. /\ e.at = v /\ x \in Command /\ Owner(s, x) \in Port
      /\ s.phase[Owner(s, x)] = PhaseOf(x) /\ Free(s, Places(s, w, m), Owner(s, x))
      /\ x.type = "EnableSlot" => e.slot = 0 \/ ~ s.dev[e.slot].alloc
      /\ x.type = "ConfigureEndpoint" => e.slot = x.slot
  BY <1>1 DEF Answered
<1>4. PICK p \in Port : p = Owner(s, x)
  BY <1>3
<1>5. Kept(s, q, r, p)
  BY <1>1, <1>2, <1>4, CompletionKept
<1>6. AddressOK(s, r)
  BY <1>1, AddressTail DEF Moves
<1>7. p # 0
  BY Sizes DEF Port
<1>8. CASE x.type = "EnableSlot"
  <2>1. p = s.addressing /\ s.phase[p] = "EnablingSlot"
    BY <1>3, <1>4, <1>8 DEF Owner, PhaseOf
  <2>2. OnCommandCompletion(s, e) = AddressDevice(s, p, e.slot)
    BY <1>1, <1>3, <1>7, <1>8, <2>1 DEF OnCommandCompletion
  <2>3. ~ s.dev[e.slot].alloc
    <3>1. CASE e.slot = 0
      <4>1. PICK u : /\ Prepared(s, u, p, e.slot)
                    /\ OnCommandCompletion(s, e) = PushCommand(u, [type |-> "AddressDevice", slot |-> e.slot])
        BY <1>1, <1>2, <2>2, AddressDeviceIs
      <4>2. u \in XState /\ u.dev[0].alloc
        BY <3>1, <4>1 DEF Prepared
      <4>3. OnCommandCompletion(s, e).dev = u.dev
        BY <4>1, <4>2, PushedSame
      <4>. QED BY <1>1, <4>2, <4>3
    <3>. QED BY <1>3, <1>8, <3>1
  <2>4. Moves(AddressDevice(s, p, e.slot), r, b, kd)
    BY <1>1, <1>2, <1>3, <1>4, <1>5, <1>6, <2>1, <2>3, AddressDeviceMoves, ZenonT(60)
  <2>. QED BY <1>1, <2>2, <2>4
<1>9. CASE x.type = "AddressDevice"
  <2>1. p = s.addressing /\ s.phase[p] = "AddressingDevice"
    BY <1>3, <1>4, <1>9 DEF Owner, PhaseOf
  <2>2. s.dev[e.slot].alloc /\ s.dev[e.slot].ctxPort = p
    <3>1. 1 \in Done(q)
      BY DoneTail
    <3>. QED BY <1>1, <1>3, <1>9, <2>1, <3>1 DEF Moves, AddressOK
  <2>3. OnCommandCompletion(s, e) =
          InitializeDevice(ResetWaiting([s EXCEPT !.addressing = 0], p), p, e.slot)
    BY <1>1, <1>3, <1>7, <1>9, <2>1, <2>2 DEF OnCommandCompletion
  <2>4. Moves(InitializeDevice(ResetWaiting([s EXCEPT !.addressing = 0], p), p, e.slot), r, b, kd)
    BY <1>1, <1>2, <1>3, <1>4, <1>5, <2>1, <2>2, InitializeMoves, SMTT(60)
  <2>. QED BY <1>1, <2>3, <2>4
<1>10. CASE x.type = "ConfigureEndpoint"
  <2>1. s.dev[e.slot].alloc /\ s.dev[e.slot].ctxPort = p /\ s.phase[p] = "ConfiguringEndpoints"
    BY <1>1, <1>3, <1>4, <1>10 DEF Owner, PhaseOf
  <2>2. OnCommandCompletion(s, e) = CompleteConfiguration(s, p, e.slot)
    BY <1>1, <1>3, <1>7, <1>10, <2>1 DEF OnCommandCompletion
  <2>3. Moves(CompleteConfiguration(s, p, e.slot), r, b, kd)
    BY <1>1, <1>2, <1>5, <1>6, <2>1, ConfiguredMoves, ZenonT(60)
  <2>. QED BY <1>1, <2>2, <2>3
<1>. QED BY <1>3, <1>8, <1>9, <1>10 DEF Command

-----------------------------------------------------------------------------
(* A device is never taken from its slot again.                            *)
LEMMA TransferAllocs ==
  ASSUME NEW s, Good(s), NEW e, e.slot \in SlotId, NEW i \in SlotId, s.dev[i].alloc
  PROVE  OnTransfer(s, e).dev[i].alloc
<1>1. PICK t : t = OnTransferEventReceived(s, e)
  OBVIOUS
<1>2. \/ OnTransfer(s, e) = s
      \/ s.dev[e.slot].alloc /\ OnTransfer(s, e) = t
      \/ /\ s.dev[e.slot].alloc /\ t.phase[t.dev[e.slot].ctxPort] = "InitializingDevice"
         /\ OnTransfer(s, e) = ConfigureEndpoints(t, e.slot)
  BY Zenon, <1>1 DEF OnTransfer
<1>3. s \in XState
  BY DEF Good
<1>4. ASSUME s.dev[e.slot].alloc PROVE t \in XState /\ t.dev[i].alloc
  <2>1. OnlyDevices(s, t)
    BY <1>1, <1>3, <1>4, OnTransferEventReceivedIs
  <2>. QED BY <2>1 DEF OnlyDevices, SamePorts
<1>5. ASSUME s.dev[e.slot].alloc, t.phase[t.dev[e.slot].ctxPort] = "InitializingDevice"
      PROVE  ConfigureEndpoints(t, e.slot).dev[i].alloc
  <2>1. Keeps(t, ConfigureEndpoints(t, e.slot))
    BY <1>4, <1>5, ConfigureEndpointsKeeps
  <2>. QED BY <1>4, <1>5, <2>1 DEF Keeps
<1>. QED BY <1>2, <1>4, <1>5

LEMMA CompletionAllocs ==
  ASSUME NEW s, Good(s), NEW e, e.slot \in SlotId, NEW i \in SlotId, s.dev[i].alloc
  PROVE  OnCommandCompletion(s, e).dev[i].alloc
<1> DEFINE p == s.dev[e.slot].ctxPort
<1>1. s \in XState
  BY DEF Good
<1>2. \/ OnCommandCompletion(s, e) = s
      \/ /\ s.addressing # 0 /\ s.phase[s.addressing] = "EnablingSlot"
         /\ OnCommandCompletion(s, e) = AddressDevice(s, s.addressing, e.slot)
      \/ /\ s.dev[e.slot].alloc /\ p # 0 /\ p = s.addressing /\ s.phase[p] = "AddressingDevice"
         /\ OnCommandCompletion(s, e) =
              InitializeDevice(ResetWaiting([s EXCEPT !.addressing = 0], p), p, e.slot)
      \/ /\ s.dev[e.slot].alloc /\ p # 0 /\ s.phase[p] = "ConfiguringEndpoints"
         /\ OnCommandCompletion(s, e) = CompleteConfiguration(s, p, e.slot)
  BY Zenon DEF OnCommandCompletion
<1>3. s.addressing # 0 => s.addressing \in Port
  <2>1. s.addressing \in 0..MaxPorts
    BY <1>1 DEF XState
  <2>. QED BY <2>1, Sizes DEF Port
<1>4. s.dev[e.slot].alloc /\ p # 0 => p \in Port
  BY <1>1, ContextPort
<1>5. CASE /\ s.addressing # 0 /\ s.phase[s.addressing] = "EnablingSlot"
           /\ OnCommandCompletion(s, e) = AddressDevice(s, s.addressing, e.slot)
  <2>1. Keeps(s, AddressDevice(s, s.addressing, e.slot))
    BY <1>1, <1>3, <1>5, AddressDeviceKeeps
  <2>. QED BY <1>5, <2>1 DEF Keeps
<1>6. CASE /\ s.dev[e.slot].alloc /\ p # 0 /\ p = s.addressing /\ s.phase[p] = "AddressingDevice"
           /\ OnCommandCompletion(s, e) =
                InitializeDevice(ResetWaiting([s EXCEPT !.addressing = 0], p), p, e.slot)
  <2>1. PICK t : t = OnCommandCompletion(s, e)
    OBVIOUS
  <2>2. PICK w, v : /\ NextTurn(s, w) /\ PhaseOnly(w, v, p, "InitializingDevice")
                    /\ OnlyDevices(v, t)
    BY <1>1, <1>4, <1>6, <2>1, InitializeDeviceIs
  <2>3. v.dev = s.dev
    BY <2>2 DEF NextTurn, PhaseOnly
  <2>. QED BY <2>1, <2>2, <2>3 DEF OnlyDevices, SamePorts
<1>7. CASE /\ s.dev[e.slot].alloc /\ p # 0 /\ s.phase[p] = "ConfiguringEndpoints"
           /\ OnCommandCompletion(s, e) = CompleteConfiguration(s, p, e.slot)
  <2>1. PICK t : t = OnCommandCompletion(s, e)
    OBVIOUS
  <2>2. PICK o, z : /\ Alters(s, o, e.slot, s.dev[e.slot].init, 1, Append(z, "SetProtocol"))
                    /\ PhaseOnly(o, t, p, "Configured")
    BY <1>1, <1>4, <1>7, <2>1, ConfiguredIs
  <2>3. t.dev = o.dev
    BY <2>2 DEF PhaseOnly
  <2>4. o.dev[i].alloc
    BY <2>2 DEF Alters, Others
  <2>. QED BY <2>1, <2>3, <2>4
<1>. QED BY <1>2, <1>5, <1>6, <1>7

(* What LInv says of a step.                                               *)
Calm == faults = 0 /\ ~ xhc.dev[0].alloc

LEMMA ZeroSlot == 0 \in SlotId
BY Sizes DEF SlotId

LEMMA InitializePortMoves ==
  ASSUME IInv, LInv, InitializePort, Calm'
  PROVE  Moves(xhc', posted', boot', kind')
<1>1. boot \in Port /\ boot \in Nat
  BY Sizes DEF IInv, Around, InitializePort, Port
<1>2. /\ Good(xhc) /\ xhc \in XState /\ posted' = posted /\ kind' = kind /\ faults' = faults
      /\ boot' = boot + 1
  BY DEF IInv, Good, InitializePort
<1>3. \A p \in Port : p # boot /\ boot <= p => boot' <= p
  BY <1>1, <1>2 DEF Port
<1>4. ~ xhc.dev[0].alloc
  <2>1. xhc.phase[boot] = "NotConnected" => Keeps(xhc, ResetPort(xhc, boot))
    BY <1>1, <1>2, ResetPortKeeps
  <2>. QED BY <2>1, ZeroSlot DEF InitializePort, Calm, Keeps
<1>5. Moves(xhc, posted, boot, kind)
  BY <1>2, <1>4 DEF LInv, Calm
<1>6. CASE xhc.phase[boot] = "NotConnected"
  <2>1. Tells(xhc, posted, posted, boot) /\ AddressOK(xhc, posted)
    BY <1>5 DEF Tells, Moves
  <2>2. PICK a : a = boot'
    OBVIOUS
  <2>3. Moves(ResetPort(xhc, boot), posted, a, kind)
    BY <1>1, <1>2, <1>3, <1>5, <1>6, <2>1, <2>2, ResetPortMoves
  <2>. QED BY <1>2, <1>6, <2>2, <2>3 DEF InitializePort
<1>7. CASE xhc.phase[boot] # "NotConnected"
  <2>1. xhc' = xhc
    BY <1>7 DEF InitializePort
  <2>2. PICK a : a = boot'
    OBVIOUS
  <2>3. ASSUME NEW p \in Port PROVE PortMoves(xhc, posted, a, p)
    <3>1. PortMoves(xhc, posted, boot, p)
      BY <1>5 DEF Moves
    <3>2. p = boot => xhc.phase[p] # "NotConnected"
      BY <1>7
    <3>. QED BY <1>3, <2>2, <3>1, <3>2 DEF PortMoves
  <2>4. Moves(xhc, posted, a, kind)
    BY <1>5, <2>3 DEF Moves
  <2>. QED BY <1>2, <2>1, <2>2, <2>4
<1>. QED BY <1>6, <1>7

LEMMA ProcessEventMoves ==
  ASSUME IInv, RInv, LInv, ProcessEvent, Calm'
  PROVE  Moves(xhc', posted', boot', kind')
<1>1. PICK w \in 0..(Span - 1), m \in Nat : Ready(xhc, cmdAt, posted, slots, w, m)
  BY RInvReady
<1>2. /\ posted # <<>> /\ posted' = Tail(posted)
      /\ Front(evt, evtAt) = posted[1] /\ posted[1] \in Event
  BY EventTaken DEF RInv
<1>3. posted \in Seq(Event) /\ Tail(posted) \in Seq(Event)
  BY <1>2 DEF RInv, EventsOK
<1>4. PICK e \in Event : e = posted[1]
  BY <1>2
<1>5. /\ e.type = "Transfer" => e.slot \in SlotId
      /\ e.type = "CommandCompletion" => e.slot \in SlotId
      /\ e.type = "PortStatusChange" => e.port \in Port
      /\ e.type \in {"Transfer", "CommandCompletion", "PortStatusChange"}
  BY DEF Event
<1>6. /\ e.type = "Transfer" => xhc' = OnTransfer(xhc, e)
      /\ e.type = "PortStatusChange" => xhc' = OnPortStatusChange(xhc, e.port)
      /\ e.type = "CommandCompletion" => xhc' = OnCommandCompletion(xhc, e)
  BY <1>2, <1>4 DEF ProcessEvent
<1>7. \A i \in Done(Tail(posted)) : Tail(posted)[i].slot \in SlotId
  BY <1>3, DoneSlots
<1>8. boot' = boot /\ kind' = kind /\ faults' = faults /\ \A p \in Port : ~ (boot <= p)
  BY Sizes DEF ProcessEvent, IInv, Around, Port
<1>9. Good(xhc) /\ xhc \in XState
  BY DEF IInv, Good
<1>10. ~ xhc.dev[0].alloc
  <2>1. e.type = "PortStatusChange" => Keeps(xhc, OnPortStatusChange(xhc, e.port))
    BY <1>5, <1>9, OnPortStatusChangeKeeps
  <2>2. e.type = "PortStatusChange" /\ xhc.dev[0].alloc => xhc'.dev[0].alloc
    BY <1>6, <2>1, ZeroSlot DEF Keeps
  <2>. QED BY <1>5, <1>6, <1>9, <2>2, ZeroSlot, TransferAllocs, CompletionAllocs DEF Calm
<1>11. Moves(xhc, posted, boot, kind)
  BY <1>8, <1>10 DEF LInv, Calm
<1>12. CASE e.type # "CommandCompletion"
  <2>1. Orderly(xhc, cmdAt, Tail(posted), slots, w, m)
    BY <1>1, <1>2, <1>3, <1>4, <1>12, OtherTaken DEF Ready
  <2>2. Ready(xhc, cmdAt, Tail(posted), slots, w, m)
    BY <1>1, <1>7, <2>1 DEF Ready
  <2>3. CASE e.type = "Transfer"
    <3>1. Moves(OnTransfer(xhc, posted[1]), Tail(posted), boot, kind)
      BY <1>2, <1>3, <1>4, <1>5, <1>11, <2>2, <2>3, TransferMoves, SMTT(60)
    <3>. QED BY <1>2, <1>4, <1>6, <1>8, <2>3, <3>1
  <2>4. CASE e.type = "PortStatusChange"
    <3>1. Moves(OnPortStatusChange(xhc, posted[1].port), Tail(posted), boot, kind)
      BY <1>2, <1>3, <1>4, <1>5, <1>8, <1>11, <2>2, <2>4, StatusChangeMoves, SMTT(60)
    <3>. QED BY <1>2, <1>4, <1>6, <1>8, <2>4, <3>1
  <2>. QED BY <1>5, <1>12, <2>3, <2>4
<1>13. CASE e.type = "CommandCompletion"
  <2>1. PICK v, k : v = Step(w, 1, Span) /\ k = m - 1
    OBVIOUS
  <2>2. /\ Orderly(xhc, cmdAt, Tail(posted), slots, v, k)
        /\ Answered(xhc, e, w, Places(xhc, v, k), slots)
    BY <1>1, <1>2, <1>3, <1>4, <1>13, <2>1, CompletionTaken DEF Ready, Good
  <2>3. Ready(xhc, cmdAt, Tail(posted), slots, v, k)
    BY <1>1, <1>7, <2>2 DEF Ready
  <2>4. xhc.cmd.buf[w].trb.type = "ConfigureEndpoint" => xhc.dev[e.slot].alloc
    <3>1. 1 \in Done(posted)
      BY <1>2, <1>3, <1>4, <1>13, DoneTail
    <3>2. posted[1].at \in Places(xhc, w, m)
      BY <1>1, <1>9, <3>1, DoneInPlaces DEF Ready
    <3>3. e.at = w /\ (xhc.cmd.buf[w].trb.type = "ConfigureEndpoint" => e.slot = xhc.cmd.buf[w].trb.slot)
      BY <2>2 DEF Answered
    <3>. QED BY <1>1, <1>4, <3>2, <3>3 DEF Ready, Orderly, Claims
  <2>5. ~ OnCommandCompletion(xhc, posted[1]).dev[0].alloc
    BY <1>4, <1>6, <1>13 DEF Calm
  <2>6. Moves(OnCommandCompletion(xhc, posted[1]), Tail(posted), boot, kind)
    BY <1>2, <1>3, <1>4, <1>5, <1>11, <1>13, <2>2, <2>3, <2>4, <2>5, CompletionMoves, ZenonT(60)
  <2>. QED BY <1>2, <1>4, <1>6, <1>8, <1>13, <2>6
<1>. QED BY <1>12, <1>13

(* A step that leaves ports and phases alone and loses nothing on its way. *)
SameStart(d, e) ==
  /\ e.inPort = d.inPort /\ e.ctxPort = d.ctxPort /\ e.init = d.init /\ e.hid = d.hid
  /\ e.ctl # <<>> => d.ctl # <<>>

SameTokens(s, t, q, r) ==
  /\ \A p \in Port : Told(s, q, p) => Told(t, r, p)
  /\ \A i \in SlotId : \A y : Asked(s, q, i, y) => Asked(t, r, i, y)
  /\ \A c \in Command : Issued(s, q, c) => Issued(t, r, c)

LEMMA CalmMoves ==
  ASSUME NEW s, NEW t, NEW q, NEW r, NEW b, NEW kd, Moves(s, q, b, kd), SameTokens(s, t, q, r),
         t.phase = s.phase, t.port = s.port, t.addr = s.addr, t.addressing = s.addressing,
         \A i \in SlotId : /\ t.dev[i].alloc <=> s.dev[i].alloc
                           /\ s.dev[i].alloc => SameStart(s.dev[i], t.dev[i]),
         AddressOK(t, r)
  PROVE  Moves(t, r, b, kd)
<1>1. DevicesStay(s, t)
  BY DEF DevicesStay, SameStart
<1>2. ASSUME NEW p \in Port PROVE PortMoves(t, r, b, p)
  <2>1. PortMoves(s, q, b, p)
    BY DEF Moves
  <2>2. Told(s, q, p) => Told(t, r, p)
    BY DEF SameTokens
  <2>3. \A c \in Command : Issued(s, q, c) => Issued(t, r, c)
    BY DEF SameTokens
  <2>4. s.phase[p] = "WaitingAddressed" => t.addressing # 0
    BY <2>1 DEF PortMoves
  <2>. QED BY <1>1, <2>1, <2>2, <2>3, <2>4, PortStays
<1>3. ASSUME NEW i \in SlotId PROVE SlotMoves(t, r, kd, i)
  <2>1. SlotMoves(s, q, kd, i)
    BY DEF Moves
  <2>2. \A y : Asked(s, q, i, y) => Asked(t, r, i, y)
    BY DEF SameTokens
  <2>. QED BY <2>1, <2>2, SlotStays DEF SameStart
<1>4. OneDevice(t)
  BY DEF Moves, OneDevice, SameStart
<1>. QED BY <1>2, <1>3, <1>4 DEF Moves

LEMMA PostPortEventMoves ==
  ASSUME IInv, RInv, LInv, NEW p \in Port, PostPortEvent(p), Calm'
  PROVE  Moves(xhc', posted', boot', kind')
<1> DEFINE e == [type |-> "PortStatusChange", port |-> p]
<1>1. e \in Event /\ e.type = "PortStatusChange" /\ e.port = p
  BY DEF Event
<1>2. PostEvent(e) /\ faults' = faults
  BY DEF PostPortEvent
<1> HIDE DEF e
<1>3. posted \in Seq(Event) /\ posted' = Append(posted, e) /\ boot' = boot /\ kind' = kind
  BY <1>1, <1>2, EventPosted DEF RInv, EventsOK, PostEvent
<1>4. PICK t : t = xhc'
  OBVIOUS
<1>5. xhc \in XState /\ t = [xhc EXCEPT !.pending = @ \ {p}]
  BY <1>4 DEF IInv, Good, PostPortEvent
<1>6. /\ t.cmd = xhc.cmd /\ t.phase = xhc.phase /\ t.port = xhc.port /\ t.queued = xhc.queued
      /\ t.addressing = xhc.addressing /\ t.addr = xhc.addr /\ t.dev = xhc.dev
      /\ t.pending = xhc.pending \ {p}
  BY <1>5 DEF XState
<1>7. Moves(xhc, posted, boot, kind)
  BY <1>2, <1>4, <1>6 DEF LInv, Calm
<1>8. AddressOK(xhc, Append(posted, e))
  BY <1>1, <1>3, <1>7, AddressPosted DEF Moves
<1>9. AddressOK(t, Append(posted, e))
  BY <1>6, <1>8 DEF AddressOK
<1>10. SameTokens(xhc, t, posted, Append(posted, e))
  <2>1. PICK r : r = Append(posted, e)
    OBVIOUS
  <2>2. /\ \A x : Told(xhc, posted, x) => Told(xhc, r, x)
        /\ \A i, y : Asked(xhc, posted, i, y) => Asked(xhc, r, i, y)
        /\ \A c : Issued(xhc, posted, c) => Issued(xhc, r, c)
        /\ Told(t, r, p)
    BY <1>1, <1>3, <2>1, TokensPosted
  <2>3. \A x \in Port : Told(xhc, r, x) => Told(t, r, x)
    BY <1>6, <2>2 DEF Told
  <2>4. /\ \A i, y : Asked(xhc, r, i, y) => Asked(t, r, i, y)
        /\ \A c : Issued(xhc, r, c) => Issued(t, r, c)
    BY <1>6 DEF Asked, Issued
  <2>. QED BY <2>1, <2>2, <2>3, <2>4 DEF SameTokens
<1>11. Moves(t, Append(posted, e), boot, kind)
  BY <1>6, <1>7, <1>9, <1>10, CalmMoves DEF SameStart
<1>. QED BY <1>3, <1>4, <1>11

LEMMA PlugMoves ==
  ASSUME IInv, LInv, NEW p \in Port, Plug(p), Calm'
  PROVE  Moves(xhc', posted', boot', kind')
<1> DEFINE u == [xhc EXCEPT !.port[p].connected = TRUE]
<1>1. /\ xhc \in XState /\ xhc' = Change(u, p, "csc") /\ ~ xhc.port[p].connected
      /\ posted' = posted /\ boot' = boot /\ kind' = kind /\ faults' = faults /\ ContextsOK(xhc)
  BY DEF IInv, Good, Plug
<1>2. xhc.port \in [Port -> PortReg]
  BY <1>1 DEF XState
<1>3. PICK reg : reg = [xhc.port EXCEPT ![p].connected = TRUE]
  OBVIOUS
<1>4. reg \in [Port -> PortReg]
  BY <1>2, <1>3 DEF PortReg
<1>5. reg[p].connected /\ reg[p].csc = xhc.port[p].csc /\ reg[p].prc = xhc.port[p].prc
      /\ \A i \in Port : i # p => reg[i] = xhc.port[i]
  BY <1>2, <1>3 DEF PortReg
<1>6. u = [xhc EXCEPT !.port = reg]
  BY <1>1, <1>3 DEF XState
<1>7. /\ u \in XState /\ u.phase = xhc.phase /\ u.addressing = xhc.addressing
      /\ u.addr = xhc.addr /\ u.cmd = xhc.cmd /\ u.queued = xhc.queued /\ u.dev = xhc.dev
      /\ u.pending = xhc.pending /\ u.port = reg
  BY <1>1, <1>4, <1>6 DEF XState
<1> HIDE DEF u
<1>8. PICK t : t = xhc'
  OBVIOUS
<1>9. /\ t.phase = xhc.phase /\ t.addressing = xhc.addressing /\ t.addr = xhc.addr
      /\ t.cmd = xhc.cmd /\ t.queued = xhc.queued /\ t.dev = xhc.dev
  BY <1>1, <1>7, <1>8, ChangeIs
<1>10. /\ t.pending = IF u.port[p].csc \/ u.port[p].prc THEN u.pending ELSE u.pending \cup {p}
       /\ t.port[p].connected = u.port[p].connected /\ t.port[p].prc = u.port[p].prc
       /\ \A i \in Port : i # p => t.port[i] = u.port[i]
  <2> DEFINE ch == Change(u, p, "csc")
  <2>1. u \in XState
    BY <1>7
  <2>2. ch.pending = IF u.port[p].csc \/ u.port[p].prc THEN u.pending ELSE u.pending \cup {p}
    BY <2>1, ChangePort
  <2>3. ch.port[p].connected = u.port[p].connected /\ ch.port[p].prc = u.port[p].prc
    BY <2>1, ChangePort
  <2>4. \A i \in Port : i # p => ch.port[i] = u.port[i]
    BY <2>1, ChangePort
  <2> HIDE DEF ch
  <2>5. t = ch
    BY <1>1, <1>8 DEF ch
  <2>. QED BY <2>2, <2>3, <2>4, <2>5
<1>11. Moves(xhc, posted, boot, kind)
  BY <1>1, <1>8, <1>9 DEF LInv, Calm
<1>12. xhc.phase[p] = "NotConnected" /\ ~ xhc.port[p].csc /\ ~ xhc.port[p].prc
  BY <1>1, <1>11 DEF Moves, PortMoves
<1>13. /\ t.port[p].connected /\ ~ t.port[p].prc /\ t.pending = xhc.pending \cup {p}
       /\ \A i \in Port : i # p => t.port[i] = xhc.port[i]
  BY <1>5, <1>7, <1>10, <1>12
<1>14. PortMoves(t, posted, boot, p)
  <2>1. Told(t, posted, p)
    BY <1>13 DEF Told
  <2>. QED BY <1>9, <1>12, <1>13, <2>1 DEF PortMoves, Busy, Behind
<1>15. /\ \A i \in Port : Told(xhc, posted, i) => Told(t, posted, i)
       /\ \A i, y : Asked(xhc, posted, i, y) => Asked(t, posted, i, y)
       /\ \A c \in Command : Issued(xhc, posted, c) => Issued(t, posted, c)
  BY <1>9, <1>13 DEF Told, Asked, Issued
<1>16. AddressOK(t, posted)
  BY <1>9, <1>11 DEF Moves, AddressOK
<1>17. xhc.phase[p] \notin Addressed
  BY <1>12 DEF Addressed
<1>18. Moves(t, posted, boot, kind)
  BY <1>1, <1>9, <1>11, <1>13, <1>14, <1>15, <1>16, <1>17, OnePort
<1>. QED BY <1>1, <1>8, <1>18

(* A transfer of a device that is there fails by chance only.              *)
LEMMA FailFaults ==
  ASSUME NEW slot, NEW ep, NEW request, Fail(slot, ep, request), Reachable(slot), faults \in Nat
  PROVE  faults' # 0
<1>1. faults' = faults + 1
  BY DEF Fail
<1>. QED BY <1>1

(* A transfer ends well: what the driver waits for is now an event.        *)
LEMMA EndedMoves ==
  ASSUME IInv, RInv, NEW slot \in SlotId, xhc.dev[slot].alloc, NEW d \in Device,
         NEW request \in Request \cup {"Normal"}, Moves(xhc, posted, boot, kind),
         SameStart(xhc.dev[slot], d), xhc' = [xhc EXCEPT !.dev = [xhc.dev EXCEPT ![slot] = d]],
         PostEvent(Transfer(slot, request, TRUE)),
         \A k \in 1..Len(xhc.dev[slot].ctl) :
           \/ xhc.dev[slot].ctl[k] = request
           \/ \E j \in 1..Len(d.ctl) : d.ctl[j] = xhc.dev[slot].ctl[k]
  PROVE  Moves(xhc', posted', boot', kind')
<1>1. PICK e : e = Transfer(slot, request, TRUE)
  OBVIOUS
<1>2. e \in Event /\ e.type = "Transfer" /\ IsAnswer(e, slot, request)
  BY <1>1 DEF Event, Transfer, IsAnswer
<1>3. posted \in Seq(Event) /\ posted' = Append(posted, e) /\ boot' = boot /\ kind' = kind
  BY <1>1, <1>2, EventPosted DEF RInv, EventsOK, PostEvent
<1>4. PICK t, r : t = xhc' /\ r = Append(posted, e)
  OBVIOUS
<1>5. xhc \in XState
  BY DEF IInv, Good
<1>6. Alters(xhc, t, slot, d.init, d.hid, d.ctl) /\ t.dev[slot] = d
  <2>1. t = [xhc EXCEPT !.dev = [xhc.dev EXCEPT ![slot] = d]]
    BY <1>4
  <2>2. Alters(xhc, t, slot, d.init, d.hid, d.ctl)
    BY <1>5, <2>1, AltersOf DEF SameStart
  <2>3. t.dev = [xhc.dev EXCEPT ![slot] = d] /\ xhc.dev \in [SlotId -> Device \cup {NoDevice}]
    BY <1>5, <2>1 DEF XState
  <2>. QED BY <2>2, <2>3
<1>7. /\ t.cmd = xhc.cmd /\ t.phase = xhc.phase /\ t.port = xhc.port /\ t.queued = xhc.queued
      /\ t.addressing = xhc.addressing /\ t.addr = xhc.addr /\ t.pending = xhc.pending
      /\ Others(xhc, t, slot) /\ t.dev[slot].alloc
  BY <1>6 DEF Alters
<1>8. \A i \in SlotId : /\ t.dev[i].alloc <=> xhc.dev[i].alloc
                        /\ xhc.dev[i].alloc => SameStart(xhc.dev[i], t.dev[i])
  BY <1>6, <1>7 DEF Others, SameStart
<1>9. AddressOK(t, r)
  <2>1. AddressOK(xhc, r)
    BY <1>2, <1>3, <1>4, AddressPosted DEF Moves
  <2>2. r \in Seq(Event)
    BY <1>2, <1>3, <1>4
  <2>3. \A i \in Done(r) : r[i].slot \in SlotId
    BY <2>2, DoneSlots
  <2>4. xhc.queued \in Seq(Command)
    BY <1>5 DEF XState
  <2>5. \A i \in SlotId : xhc.dev[i].alloc =>
          /\ t.dev[i].alloc /\ t.dev[i].inPort = xhc.dev[i].inPort
          /\ t.dev[i].ctxPort = xhc.dev[i].ctxPort
    BY <1>8 DEF SameStart
  <2>. QED BY <1>7, <2>1, <2>3, <2>4, <2>5, AddressCalm
<1>10. SameTokens(xhc, t, posted, r)
  <2>1. /\ \A x : Told(xhc, posted, x) => Told(xhc, r, x)
        /\ \A c : Issued(xhc, posted, c) => Issued(xhc, r, c)
        /\ Asked(t, r, slot, request)
    BY <1>2, <1>3, <1>4, TokensPosted
  <2>2. /\ \A x : Told(xhc, r, x) => Told(t, r, x)
        /\ \A c : Issued(xhc, r, c) => Issued(t, r, c)
    BY <1>7 DEF Told, Issued
  <2>3. ASSUME NEW i \in SlotId, NEW y, Asked(xhc, posted, i, y) PROVE Asked(t, r, i, y)
    <3>1. ASSUME NEW k \in 1..Len(xhc.dev[i].ctl), xhc.dev[i].ctl[k] = y PROVE Asked(t, r, i, y)
      <4>1. CASE i = slot
        BY <1>6, <2>1, <3>1, <4>1 DEF Asked
      <4>2. CASE i # slot
        BY <1>7, <3>1, <4>2 DEF Asked, Others
      <4>. QED BY <4>1, <4>2
    <3>2. ASSUME NEW k \in 1..Len(posted), IsAnswer(posted[k], i, y) PROVE Asked(t, r, i, y)
      <4>1. k \in 1..Len(r) /\ r[k] = posted[k]
        BY <1>2, <1>3, <1>4
      <4>. QED BY <3>2, <4>1 DEF Asked
    <3>. QED BY <2>3, <3>1, <3>2 DEF Asked
  <2>. QED BY <2>1, <2>2, <2>3 DEF SameTokens
<1>11. Moves(t, r, boot, kind)
  BY <1>7, <1>8, <1>9, <1>10, CalmMoves
<1>. QED BY <1>3, <1>4, <1>11

LEMMA EndedCalm ==
  ASSUME IInv, LInv, NEW slot \in SlotId, CompleteControl(slot) \/ CompleteInterrupt(slot), Calm'
  PROVE  Moves(xhc, posted, boot, kind)
<1>1. xhc.dev[slot].alloc /\ \E request \in Request \cup {"Normal"}, ok \in BOOLEAN : \E d :
                                Ended(slot, d, request, ok)
  <2>1. CASE CompleteControl(slot)
    BY <2>1, CompleteControlIs
  <2>2. CASE CompleteInterrupt(slot)
    <3>1. "Normal" \in Request \cup {"Normal"} /\ TRUE \in BOOLEAN /\ FALSE \in BOOLEAN
      OBVIOUS
    <3>. QED BY <2>2, <3>1, CompleteInterruptIs
  <2>. QED BY <2>1, <2>2
<1>2. SamePorts(xhc, xhc')
  <2>1. PICK request \in Request \cup {"Normal"}, ok \in BOOLEAN : \E d :
          Ended(slot, d, request, ok)
    BY <1>1
  <2>2. PICK d : Ended(slot, d, request, ok)
    BY <2>1
  <2>. QED BY <1>1, <2>2, EndedIs DEF OnlyDevices
<1>3. ~ xhc.dev[0].alloc
  BY <1>2, ZeroSlot DEF SamePorts, Calm
<1>4. faults \in Nat /\ (faults' = faults \/ faults' = faults + 1)
  BY DEF LInv, CompleteControl, CompleteInterrupt, Fail
<1>5. faults = 0
  BY <1>4 DEF Calm
<1>. QED BY <1>3, <1>5 DEF LInv

LEMMA CompleteControlMoves ==
  ASSUME IInv, RInv, LInv, NEW slot \in SlotId, CompleteControl(slot), Calm'
  PROVE  Moves(xhc', posted', boot', kind')
<1>1. Moves(xhc, posted, boot, kind)
  BY EndedCalm
<1>2. xhc \in XState /\ xhc.dev[slot].alloc /\ xhc.dev[slot].ctl # <<>>
  BY DEF IInv, Good, CompleteControl
<1>3. Reachable(slot)
  BY <1>1, <1>2 DEF Moves, SlotMoves, Reachable
<1>4. xhc.dev[slot] \in Device /\ xhc.dev[slot].ctl \in Seq(Request)
  BY <1>2, DeviceOf DEF Device
<1> DEFINE request == Head(xhc.dev[slot].ctl)
<1>5. request \in Request
  BY <1>2, <1>4
<1>6. ~ Fail(slot, "control", request)
  BY <1>3, FailFaults DEF Calm, LInv
<1>7. xhc' = [xhc EXCEPT !.dev[slot].ctl = Tail(@)] /\ PostEvent(Transfer(slot, request, TRUE))
  <2>1. ~ Fail(slot, "control", Head(xhc.dev[slot].ctl))
    BY <1>6
  <2>2. /\ xhc' = [xhc EXCEPT !.dev[slot].ctl = Tail(@)]
        /\ PostEvent(Transfer(slot, Head(xhc.dev[slot].ctl), TRUE))
    BY Zenon, <2>1 DEF CompleteControl
  <2>. QED BY <2>2
<1>8. PICK rest \in Seq(Request) : rest = Tail(xhc.dev[slot].ctl)
  <2>1. Tail(xhc.dev[slot].ctl) \in Seq(Request)
    BY <1>2, <1>4
  <2>. QED BY <2>1
<1> HIDE DEF request
<1> DEFINE d == [xhc.dev[slot] EXCEPT !.ctl = rest]
<1>9. /\ d \in Device /\ d.inPort = xhc.dev[slot].inPort /\ d.ctxPort = xhc.dev[slot].ctxPort
      /\ d.init = xhc.dev[slot].init /\ d.hid = xhc.dev[slot].hid /\ d.ctl = rest
  BY <1>4 DEF Device
<1>10. xhc' = [xhc EXCEPT !.dev = [xhc.dev EXCEPT ![slot] = d]]
  BY <1>2, <1>7, <1>8 DEF XState
<1> HIDE DEF d
<1>11. ASSUME NEW k \in 1..Len(xhc.dev[slot].ctl)
       PROVE  \/ xhc.dev[slot].ctl[k] = request
              \/ \E j \in 1..Len(d.ctl) : d.ctl[j] = xhc.dev[slot].ctl[k]
  <2>1. PICK z \in Seq(Request) : z = xhc.dev[slot].ctl
    BY <1>4
  <2>2. CASE k = 1
    BY <1>2, <2>1, <2>2 DEF request
  <2>3. CASE k # 1
    <3>1. Len(z) \in Nat /\ Len(Tail(z)) = Len(z) - 1 /\ k \in 1..Len(z)
          /\ \A j \in 1..(Len(z) - 1) : Tail(z)[j] = z[j + 1]
      BY <1>2, <2>1
    <3>2. PICK j \in 1..(Len(z) - 1) : j = k - 1 /\ j + 1 = k
      BY <2>3, <3>1
    <3>3. j \in 1..Len(d.ctl) /\ d.ctl[j] = z[k]
      BY <1>8, <1>9, <2>1, <3>1, <3>2
    <3>. QED BY <2>1, <3>3
  <2>. QED BY <2>2, <2>3
<1>12. SameStart(xhc.dev[slot], d)
  BY <1>2, <1>9 DEF SameStart
<1>. QED BY <1>1, <1>2, <1>5, <1>7, <1>9, <1>10, <1>11, <1>12, EndedMoves, ZenonT(60)

LEMMA CompleteInterruptMoves ==
  ASSUME IInv, RInv, KInv, LInv, NEW slot \in SlotId, CompleteInterrupt(slot), Calm'
  PROVE  Moves(xhc', posted', boot', kind')
<1>1. Moves(xhc, posted, boot, kind)
  BY EndedCalm
<1>2. xhc \in XState /\ xhc.dev[slot].alloc /\ xhc.dev[slot].reads > 0
  BY DEF IInv, Good, CompleteInterrupt
<1>3. Reachable(slot)
  <2>1. ReadsOK(xhc.dev[slot], posted, slot, seen[slot]) /\ HidOK(xhc)
    BY <1>2 DEF KInv, Reporting, SlotReports
  <2>2. xhc.dev[slot].hid = 2
    BY <1>2, <2>1 DEF ReadsOK
  <2>3. xhc.dev[slot].ctxPort # 0
    BY <1>2, <2>1, <2>2 DEF HidOK
  <2>. QED BY <1>1, <1>2, <2>3 DEF Moves, SlotMoves, Reachable
<1>4. xhc.dev[slot] \in Device
  BY <1>2, DeviceOf
<1>5. ~ Fail(slot, "interrupt", "Normal")
  BY <1>3, FailFaults DEF Calm, LInv
<1>6. PICK report \in SUBSET Keys :
        xhc' = [xhc EXCEPT !.dev[slot].reads = @ - 1, !.dev[slot].buf = report]
  BY <1>5 DEF CompleteInterrupt
<1>7. PostEvent(Transfer(slot, "Normal", TRUE))
  BY <1>5 DEF CompleteInterrupt
<1>8. PICK n \in Nat : n = xhc.dev[slot].reads - 1
  <2>1. xhc.dev[slot].reads \in Nat
    BY <1>4 DEF Device
  <2>. QED BY <1>2, <2>1
<1> DEFINE d == [xhc.dev[slot] EXCEPT !.reads = n, !.buf = report]
<1>9. /\ d \in Device /\ d.inPort = xhc.dev[slot].inPort /\ d.ctxPort = xhc.dev[slot].ctxPort
      /\ d.init = xhc.dev[slot].init /\ d.hid = xhc.dev[slot].hid /\ d.ctl = xhc.dev[slot].ctl
  BY <1>4 DEF Device
<1>10. xhc' = [xhc EXCEPT !.dev = [xhc.dev EXCEPT ![slot] = d]]
  BY <1>2, <1>6, <1>8 DEF XState
<1> HIDE DEF d
<1>11. SameStart(xhc.dev[slot], d)
  BY <1>9 DEF SameStart
<1>12. "Normal" \in Request \cup {"Normal"}
  OBVIOUS
<1>. QED BY <1>1, <1>2, <1>7, <1>9, <1>10, <1>11, <1>12, EndedMoves, ZenonT(60)

(* The controller executes the first of the queued commands.               *)
LEMMA ExecutedFirst ==
  ASSUME IInv, NEW w, NEW m, Ready(xhc, cmdAt, posted, slots, w, m), ExecuteCommand,
         NEW c, NEW slot, Executed(c, slot)
  PROVE  /\ 1 \in 1..Len(xhc.queued) /\ c = xhc.queued[1] /\ xhc.cmd.buf[cmdAt.index].trb = c
         /\ xhc'.queued = Tail(xhc.queued)
         /\ \A j \in 1..Len(xhc.queued) :
              j = 1 \/ \E k \in 1..Len(Tail(xhc.queued)) : Tail(xhc.queued)[k] = xhc.queued[j]
         /\ \A k \in 1..Len(Tail(xhc.queued)) :
              \E j \in 1..Len(xhc.queued) : j # 1 /\ Tail(xhc.queued)[k] = xhc.queued[j]
<1>1. /\ xhc \in XState /\ cmdAt \in [index : 0..(CmdSize - 1), cycle : BOOLEAN]
      /\ Holds(xhc.cmd, cmdAt, Span, xhc.queued) /\ LinkOK(xhc.cmd, cmdAt)
  BY DEF IInv, Good, Around, Ready, Orderly
<1>2. HasFront(xhc.cmd, cmdAt) /\ c = Front(xhc.cmd, cmdAt)
  BY DEF ExecuteCommand, Executed
<1>3. Len(xhc.queued) > 0 /\ c = xhc.queued[1]
  BY <1>1, <1>2, ConsumeIs
<1>4. PICK z \in Seq(Command) : z = xhc.queued
  BY <1>1 DEF XState
<1>5. Len(z) \in Nat /\ Len(z) > 0 /\ z # <<>> /\ Len(Tail(z)) = Len(z) - 1
      /\ \A k \in 1..(Len(z) - 1) : Tail(z)[k] = z[k + 1]
  BY <1>3, <1>4
<1>6. ASSUME NEW j \in 1..Len(z), j # 1
      PROVE  \E k \in 1..Len(Tail(z)) : Tail(z)[k] = z[j]
  <2>1. PICK k \in 1..(Len(z) - 1) : k = j - 1 /\ k + 1 = j
    BY <1>5, <1>6
  <2>. QED BY <1>5, <2>1
<1>7. ASSUME NEW k \in 1..Len(Tail(z))
      PROVE  \E j \in 1..Len(z) : j # 1 /\ Tail(z)[k] = z[j]
  <2>1. PICK j \in 1..Len(z) : j = k + 1 /\ j # 1
    BY <1>5
  <2>2. Tail(z)[k] = z[k + 1]
    BY <1>5
  <2>. QED BY <2>1, <2>2
<1>8. xhc'.queued = Tail(xhc.queued)
  BY <1>4, <1>5 DEF Executed
<1>9. xhc.cmd.buf[cmdAt.index].trb = c
  BY <1>2 DEF Front
<1>10. 1 \in 1..Len(z)
  BY <1>5
<1>. QED BY <1>3, <1>4, <1>6, <1>7, <1>8, <1>9, <1>10

(* It changes no register, and gives an address to a device in the default *)
(* state when the slot is enabled.                                         *)
LEMMA ExecutedPorts ==
  ASSUME IInv, ExecuteCommand, NEW c, NEW slot, Executed(c, slot)
  PROVE  /\ xhc'.port = xhc.port /\ xhc'.pending = xhc.pending /\ faults' = faults
         /\ c.type = "AddressDevice" /\ c.slot \in slots /\ xhc.addr[xhc.dev[c.slot].inPort] = "default"
            => xhc'.addr = [xhc.addr EXCEPT ![xhc.dev[c.slot].inPort] = "own"]
<1> DEFINE done == [xhc EXCEPT !.queued = IF @ = <<>> THEN @ ELSE Tail(@)]
           p == xhc.dev[c.slot].inPort
<1>1. xhc \in XState /\ c = Front(xhc.cmd, cmdAt) /\ c.slot \in SlotId
  BY DEF IInv, Good, Executed, Command
<1>2. \/ c.type # "AddressDevice" /\ xhc' = done
      \/ /\ c.type = "AddressDevice"
         /\ xhc' = IF c.slot \in slots /\ xhc.addr[p] = "default"
                   THEN [done EXCEPT !.addr[p] = "own", !.dev[c.slot].ctxPort = p]
                   ELSE done
  <2>1. c.type = "EnableSlot" \/ c.type = "ConfigureEndpoint" => c.type # "AddressDevice"
    OBVIOUS
  <2>. QED BY Zenon, <1>1, <2>1 DEF ExecuteCommand
<1>3. PICK z : z = IF xhc.queued = <<>> THEN xhc.queued ELSE Tail(xhc.queued)
  OBVIOUS
<1>4. done = [xhc EXCEPT !.queued = z]
  BY <1>3
<1> HIDE DEF done, p
<1>5. /\ done.port = xhc.port /\ done.pending = xhc.pending /\ done.addr = xhc.addr
      /\ done.dev = xhc.dev
      /\ done \in [phase : {xhc.phase}, addressing : {xhc.addressing}, port : {xhc.port},
                   pending : {xhc.pending}, addr : {xhc.addr}, cmd : {xhc.cmd}, queued : {z},
                   dev : {xhc.dev}]
  BY <1>1, <1>4 DEF XState
<1>6. faults' = faults
  BY DEF ExecuteCommand
<1>7. CASE xhc' = done
  BY <1>2, <1>5, <1>6, <1>7, ZenonT(60) DEF p
<1>8. CASE xhc' = [done EXCEPT !.addr[p] = "own", !.dev[c.slot].ctxPort = p]
  BY <1>5, <1>6, <1>8 DEF p
<1>. QED BY <1>2, <1>7, <1>8

(* Only one device is given an address at a time.                          *)
LEMMA OneAddressed ==
  ASSUME NEW s \in XState, NEW c, NEW q, NEW sl, NEW w, NEW m, Orderly(s, c, q, sl, w, m),
         NEW i \in 1..Len(s.queued), s.queued[i].type = "AddressDevice",
         NEW j \in 1..Len(s.queued), s.queued[j].type = "AddressDevice"
  PROVE  i = j
<1>1. PICK a : a = Step(c.index, i - 1, Span)
  OBVIOUS
<1>2. a \in Places(s, w, m) /\ s.cmd.buf[a].trb = s.queued[i] /\ Ahead(a, c.index, Span) = i - 1
  BY <1>1, QueuedAt
<1>3. PICK b : b = Step(c.index, j - 1, Span)
  OBVIOUS
<1>4. b \in Places(s, w, m) /\ s.cmd.buf[b].trb = s.queued[j] /\ Ahead(b, c.index, Span) = j - 1
  BY <1>3, QueuedAt
<1>5. Owner(s, s.cmd.buf[a].trb) = Owner(s, s.cmd.buf[b].trb)
  BY <1>2, <1>4 DEF Owner
<1>6. a = b
  BY <1>2, <1>4, <1>5 DEF Orderly, Claims
<1>7. i - 1 = j - 1
  BY <1>2, <1>4, <1>6
<1>. QED BY <1>7

(* The completion of a command is on its way where the command was.        *)
LEMMA PlainExecuted ==
  ASSUME IInv, NEW w, NEW m, Ready(xhc, cmdAt, posted, slots, w, m), ExecuteCommand,
         NEW c, NEW slot, Executed(c, slot), posted \in Seq(Event),
         NEW e \in Event, e.type = "CommandCompletion", e.at = cmdAt.index,
         NEW t, t = xhc'
  PROVE  /\ \A p : Told(xhc, posted, p) => Told(t, Append(posted, e), p)
         /\ \A y \in Command : Issued(xhc, posted, y) => Issued(t, Append(posted, e), y)
<1>1. PICK r : r = Append(posted, e)
  OBVIOUS
<1>2. /\ 1 \in 1..Len(xhc.queued) /\ c = xhc.queued[1] /\ xhc.cmd.buf[cmdAt.index].trb = c
      /\ t.queued = Tail(xhc.queued) /\ t.cmd = xhc.cmd /\ t.pending = xhc.pending
      /\ \A j \in 1..Len(xhc.queued) :
           j = 1 \/ \E k \in 1..Len(Tail(xhc.queued)) : Tail(xhc.queued)[k] = xhc.queued[j]
  BY ExecutedFirst, ExecutedPorts DEF Executed
<1>3. /\ \A p : Told(xhc, posted, p) => Told(xhc, r, p)
      /\ \A y : Issued(xhc, posted, y) => Issued(xhc, r, y)
      /\ Issued(t, r, c)
  BY <1>1, <1>2, TokensPosted
<1>4. \A p : Told(xhc, r, p) => Told(t, r, p)
  BY <1>2 DEF Told
<1>5. ASSUME NEW y, Issued(xhc, r, y) PROVE Issued(t, r, y)
  <2>1. ASSUME NEW j \in 1..Len(xhc.queued), xhc.queued[j] = y PROVE Issued(t, r, y)
    <3>1. CASE j = 1
      BY <1>2, <1>3, <2>1, <3>1
    <3>2. CASE j # 1
      BY <1>2, <2>1, <3>2 DEF Issued
    <3>. QED BY <3>1, <3>2
  <2>2. ASSUME NEW i \in Done(r), xhc.cmd.buf[r[i].at].trb = y PROVE Issued(t, r, y)
    BY <1>2, <2>2 DEF Issued
  <2>. QED BY <1>5, <2>1, <2>2 DEF Issued
<1>. QED BY <1>1, <1>3, <1>4, <1>5

LEMMA ExecuteCommandMoves ==
  ASSUME IInv, RInv, LInv, ExecuteCommand, Calm'
  PROVE  Moves(xhc', posted', boot', kind')
<1>1. PICK w \in 0..(Span - 1), m \in Nat : Ready(xhc, cmdAt, posted, slots, w, m)
  BY RInvReady
<1>2. PICK c, slot : Executed(c, slot)
  BY ExecuteCommandIs
<1>3. PICK e \in Event : /\ PostEvent(e) /\ e.type = "CommandCompletion" /\ e.at = cmdAt.index
                         /\ e.slot = slot
  <2>1. cmdAt.index \in Nat /\ slot \in SlotId
    BY <1>2, Sizes DEF Executed
  <2>2. [type |-> "CommandCompletion", at |-> cmdAt.index, slot |-> slot] \in Event
    BY <2>1 DEF Event
  <2>. QED BY <1>2, <2>2 DEF Executed
<1>4. posted \in Seq(Event) /\ posted' = Append(posted, e) /\ boot' = boot /\ kind' = kind
  BY <1>3, EventPosted DEF RInv, EventsOK, PostEvent
<1>5. PICK t, r : t = xhc' /\ r = Append(posted, e)
  OBVIOUS
<1>6. /\ xhc \in XState /\ Orderly(xhc, cmdAt, posted, slots, w, m) /\ SlotsOK(xhc, slots)
      /\ Claims(xhc, Places(xhc, w, m))
  BY <1>1 DEF Ready, Good, Orderly
<1>7. /\ t.phase = xhc.phase /\ t.addressing = xhc.addressing /\ t.cmd = xhc.cmd
      /\ t.port = xhc.port /\ t.pending = xhc.pending /\ faults' = faults
      /\ c \in Command /\ c.slot \in SlotId
      /\ \/ t.dev = xhc.dev /\ t.addr = xhc.addr
         \/ c.type = "AddressDevice" /\ c.slot \in slots /\ \E p : Assigned(xhc, t, c.slot, p)
  BY <1>2, <1>5, ExecutedPorts DEF Executed, Command
<1>8. /\ 1 \in 1..Len(xhc.queued) /\ c = xhc.queued[1] /\ xhc.cmd.buf[cmdAt.index].trb = c
      /\ t.queued = Tail(xhc.queued)
      /\ \A k \in 1..Len(t.queued) : \E j \in 1..Len(xhc.queued) : j # 1 /\ t.queued[k] = xhc.queued[j]
  <2>1. /\ 1 \in 1..Len(xhc.queued) /\ c = xhc.queued[1] /\ xhc.cmd.buf[cmdAt.index].trb = c
        /\ xhc'.queued = Tail(xhc.queued)
    BY <1>1, <1>2, ExecutedFirst
  <2>2. \A k \in 1..Len(Tail(xhc.queued)) :
          \E j \in 1..Len(xhc.queued) : j # 1 /\ Tail(xhc.queued)[k] = xhc.queued[j]
    BY <1>1, <1>2, ExecutedFirst
  <2>. QED BY <1>5, <2>1, <2>2
<1>9. /\ \A p : Told(xhc, posted, p) => Told(t, r, p)
      /\ \A y \in Command : Issued(xhc, posted, y) => Issued(t, r, y)
  BY <1>1, <1>2, <1>3, <1>4, <1>5, PlainExecuted
<1>10. /\ \A i \in Done(posted) : i \in Done(r) /\ r[i] = posted[i]
       /\ \A i \in Done(r) : i \in Done(posted) \/ i = Len(posted) + 1
       /\ r[Len(posted) + 1] = e
  BY <1>4, <1>5, DoneAppend
<1>11. \A k \in 1..Len(posted) : k \in 1..Len(r) /\ r[k] = posted[k]
  BY <1>3, <1>4, <1>5
<1>12. CASE c.type # "AddressDevice"
  <2>1. t.dev = xhc.dev /\ t.addr = xhc.addr
    BY <1>7, <1>12
  <2>2. Moves(xhc, posted, boot, kind)
    BY <1>5, <1>7, <2>1 DEF LInv, Calm
  <2>3. AddressOK(xhc, posted)
    BY <2>2 DEF Moves
  <2>4. AddressOK(t, r)
    <3>1. \A k \in 1..Len(t.queued) : t.queued[k].type = "AddressDevice" =>
            /\ t.dev[t.queued[k].slot].alloc /\ t.dev[t.queued[k].slot].inPort = t.addressing
            /\ t.addressing # 0 /\ t.addr[t.addressing] = "default"
      BY <1>7, <1>8, <2>1, <2>3 DEF AddressOK
    <3>2. \A i \in Done(r) : t.cmd.buf[r[i].at].trb.type = "AddressDevice" =>
            /\ t.dev[r[i].slot].alloc /\ t.dev[r[i].slot].ctxPort = t.addressing
            /\ t.addressing # 0
      BY <1>3, <1>7, <1>8, <1>10, <1>12, <2>1, <2>3 DEF AddressOK
    <3>. QED BY <3>1, <3>2 DEF AddressOK
  <2>5. \A i \in SlotId : \A y : Asked(xhc, posted, i, y) => Asked(t, r, i, y)
    BY <1>11, <2>1 DEF Asked
  <2>6. SameTokens(xhc, t, posted, r)
    BY <1>9, <2>5 DEF SameTokens
  <2>7. Moves(t, r, boot, kind)
    BY <1>7, <2>1, <2>2, <2>4, <2>6, CalmMoves DEF SameStart
  <2>. QED BY <1>4, <1>5, <2>7
<1>13. CASE c.type = "AddressDevice"
  <2>1. \A i \in SlotId : xhc.dev[i].alloc => t.dev[i].alloc
    <3>1. CASE t.dev = xhc.dev
      BY <3>1
    <3>2. ASSUME NEW p, Assigned(xhc, t, c.slot, p) PROVE \A i \in SlotId : xhc.dev[i].alloc => t.dev[i].alloc
      <4>1. [xhc.dev[c.slot] EXCEPT !.ctxPort = p].alloc = xhc.dev[c.slot].alloc
        BY <3>2 DEF Assigned, Device
      <4>2. xhc.dev \in [SlotId -> Device \cup {NoDevice}]
        BY <1>6 DEF XState
      <4>. QED BY <3>2, <4>1, <4>2 DEF Assigned
    <3>. QED BY <1>7, <3>1, <3>2
  <2>2. ~ xhc.dev[0].alloc
    BY <1>5, <2>1, ZeroSlot DEF Calm
  <2>3. Moves(xhc, posted, boot, kind)
    BY <1>7, <2>2 DEF LInv, Calm
  <2>4. PICK x : x = xhc.addressing
    OBVIOUS
  <2>5. xhc.dev[c.slot].alloc /\ xhc.dev[c.slot].inPort = x /\ x # 0 /\ xhc.addr[x] = "default"
    BY <1>8, <1>13, <2>3, <2>4 DEF Moves, AddressOK
  <2>6. c.slot # 0 /\ c.slot \in slots /\ xhc.dev[c.slot].ctxPort = 0
    BY <1>6, <1>7, <1>8, <1>13, <2>2, <2>5 DEF SlotsOK
  <2>7. x \in Port /\ xhc.phase[x] = "AddressingDevice"
    <3>1. PICK a : a = Step(cmdAt.index, 1 - 1, Span)
      OBVIOUS
    <3>2. a \in Places(xhc, w, m) /\ xhc.cmd.buf[a].trb = c
      BY <1>6, <1>8, <3>1, QueuedAt
    <3>3. Owner(xhc, c) = x /\ PhaseOf(c) = "AddressingDevice"
      BY <1>13, <2>4 DEF Owner, PhaseOf
    <3>. QED BY <1>6, <3>2, <3>3 DEF Claims
  <2>8. xhc.addr \in [Port -> {"none", "default", "own"}] /\ xhc.dev \in [SlotId -> Device \cup {NoDevice}]
    BY <1>6 DEF XState
  <2>9. t.addr = [xhc.addr EXCEPT ![x] = "own"]
    BY <1>2, <1>5, <1>13, <2>5, <2>6, ExecutedPorts
  <2>10. t.addr[x] = "own" /\ \A p \in Port : p # x => t.addr[p] = xhc.addr[p]
    BY <2>7, <2>8, <2>9
  <2>11. PICK p : Assigned(xhc, t, c.slot, p)
    <3>1. t.addr # xhc.addr
      BY <2>5, <2>10
    <3>. QED BY <1>7, <3>1
  <2>12. PICK d : d = [xhc.dev[c.slot] EXCEPT !.ctxPort = x]
    OBVIOUS
  <2>13. /\ d.alloc /\ d.inPort = xhc.dev[c.slot].inPort /\ d.ctxPort = x
         /\ d.init = xhc.dev[c.slot].init /\ d.hid = xhc.dev[c.slot].hid
         /\ d.ctl = xhc.dev[c.slot].ctl
    <3>1. xhc.dev[c.slot] \in Device
      BY <2>11 DEF Assigned
    <3>. QED BY <2>5, <2>12, <3>1 DEF Device
  <2>14. t.dev[c.slot] = d /\ Others(xhc, t, c.slot)
    <3>1. t.dev = [xhc.dev EXCEPT ![c.slot] = d]
      BY <2>5, <2>11, <2>12 DEF Assigned
    <3>. QED BY <1>7, <2>8, <3>1 DEF Others
  <2>15. \A i \in SlotId : xhc.dev[i].alloc /\ xhc.dev[i].ctxPort # 0 => xhc.dev[i].ctxPort # x
    BY <2>3, <2>5 DEF Moves, SlotMoves
  <2>16. AddressOK(t, r)
    <3>1. ASSUME NEW k \in 1..Len(t.queued) PROVE t.queued[k].type # "AddressDevice"
      <4>1. PICK j \in 1..Len(xhc.queued) : j # 1 /\ t.queued[k] = xhc.queued[j]
        BY <1>8
      <4>. QED BY <1>6, <1>8, <1>13, <4>1, OneAddressed
    <3>2. ASSUME NEW i \in Done(r), t.cmd.buf[r[i].at].trb.type = "AddressDevice"
          PROVE  /\ t.dev[r[i].slot].alloc /\ t.dev[r[i].slot].ctxPort = t.addressing
                 /\ t.addressing # 0
      <4>1. CASE i \in Done(posted)
        <5>1. posted[i].slot \in SlotId /\ r[i] = posted[i]
          BY <1>4, <1>10, <4>1, DoneSlots
        <5>2. xhc.dev[posted[i].slot].alloc /\ xhc.dev[posted[i].slot].ctxPort = x
          BY <1>7, <2>3, <2>4, <3>2, <4>1, <5>1 DEF Moves, AddressOK
        <5>. QED BY <2>5, <2>15, <5>1, <5>2
      <4>2. CASE r[i] = e
        <5>1. r[i].slot = c.slot
          BY <1>2, <1>3, <1>13, <4>2 DEF Executed
        <5>. QED BY <1>7, <2>4, <2>5, <2>13, <2>14, <5>1
      <4>. QED BY <1>10, <4>1, <4>2
    <3>. QED BY <3>1, <3>2 DEF AddressOK
  <2>17. OneDevice(t)
    <3>1. OneDevice(xhc)
      BY <2>3 DEF Moves
    <3>. QED BY <2>13, <2>14, <2>15, <3>1 DEF OneDevice, Others
  <2>18. \A i \in SlotId : \A y : Asked(xhc, posted, i, y) => Asked(t, r, i, y)
    <3>1. \A i \in SlotId : t.dev[i].ctl = xhc.dev[i].ctl
      BY <2>13, <2>14 DEF Others
    <3>. QED BY <1>11, <3>1 DEF Asked
  <2>19. DevicesStay(xhc, t)
    BY <2>6, <2>14 DEF DevicesStay, Others
  <2>20. ASSUME NEW i \in Port PROVE PortMoves(t, r, boot, i)
    <3>1. PortMoves(xhc, posted, boot, i)
      BY <2>3 DEF Moves
    <3>2. xhc.phase[i] \in {"ResettingPort", "EnablingSlot"} => t.addr[i] = xhc.addr[i]
      BY <2>7, <2>10
    <3>3. xhc.phase[i] = "WaitingAddressed" => t.addressing # 0
      BY <1>7, <2>4, <2>5
    <3>. QED BY <1>7, <1>9, <2>19, <3>1, <3>2, <3>3, PortStays
  <2>21. ASSUME NEW i \in SlotId PROVE SlotMoves(t, r, kind, i)
    <3>1. CASE i = c.slot
      BY <1>7, <2>5, <2>7, <2>10, <2>13, <2>14, <3>1 DEF SlotMoves
    <3>2. CASE i # c.slot
      <4>1. SlotMoves(xhc, posted, kind, i) /\ t.dev[i] = xhc.dev[i]
        BY <2>3, <2>14, <3>2 DEF Moves, Others
      <4>2. xhc.dev[i].alloc /\ xhc.dev[i].ctxPort # 0 =>
              t.addr[xhc.dev[i].ctxPort] = xhc.addr[xhc.dev[i].ctxPort]
        BY <1>6, <2>10, <2>15, ContextPort
      <4>3. \A y : Asked(xhc, posted, i, y) => Asked(t, r, i, y)
        BY <2>18
      <4>. QED BY <1>7, <4>1, <4>2, <4>3, SlotStays
    <3>. QED BY <3>1, <3>2
  <2>22. Moves(t, r, boot, kind)
    BY <2>16, <2>17, <2>20, <2>21 DEF Moves
  <2>. QED BY <1>4, <1>5, <2>22
<1>. QED BY <1>12, <1>13

LEMMA LInvStep == IInv /\ RInv /\ KInv /\ LInv /\ [Next]_vars => LInv'
<1> SUFFICES ASSUME IInv, RInv, KInv, LInv, [Next]_vars PROVE LInv'
  OBVIOUS
<1>1. faults \in Nat
  BY DEF LInv
<1>2. CASE UNCHANGED vars
  BY <1>2 DEF vars, LInv
<1>3. CASE Next
  <2>1. faults' = faults \/ faults' = faults + 1
    BY <1>3 DEF Next, InitializePort, ProcessEvent, ExecuteCommand, PostPortEvent, Plug, Unplug,
                CompleteControl, CompleteInterrupt, Fail
  <2>2. faults' \in Nat
    BY <1>1, <2>1
  <2>3. ASSUME Calm' PROVE Moves(xhc', posted', boot', kind')
    <3>1. ASSUME NEW p \in Port, Unplug(p) PROVE FALSE
      BY <1>1, <2>3, <3>1 DEF Unplug, Calm
    <3>. QED BY <1>3, <2>3, <3>1, InitializePortMoves, ProcessEventMoves, ExecuteCommandMoves,
                PostPortEventMoves, PlugMoves, CompleteControlMoves, CompleteInterruptMoves DEF Next
  <2>. QED BY <2>2, <2>3 DEF LInv, Calm
<1>. QED BY <1>2, <1>3

(* No device is left behind, for every number of ports and slots: while    *)
(* nothing was unplugged, no transfer failed and the slots sufficed, driver*)
(* and controller have nothing more to do only when every supported device *)
(* that is plugged in is configured and its driver reads reports.  Neither *)
(* the ports that wait while another is addressed (addressing_port) nor a  *)
(* device plugged in at any moment of that is forgotten.                   *)
THEOREM NoneLeftBehind == Spec => []NoDeviceLeftBehind
<1>1. IInv /\ LInv => NoDeviceLeftBehind
  BY LInvMeans
<1>. QED BY <1>1, InitIInv, IInvStep, InitRInv, RInvStep, InitKInv, KInvStep, InitLInv, LInvStep,
            PTL DEF Spec
=============================================================================
