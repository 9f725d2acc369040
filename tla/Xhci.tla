-------------------------------- MODULE Xhci --------------------------------
(***************************************************************************)
(* The driver of the xHCI USB host controller (kernel/usb): ports and      *)
(* slots (xhci/xhci.cpp, xhci/port.cpp, xhci/devmgr.cpp), the start of a   *)
(* device (device.cpp, xhci/device.cpp) and the keyboard (classdriver).    *)
(*                                                                         *)
(* The driver is one sequential program: Initialize goes through the ports *)
(* and then ProcessEvents, called from the main loop, handles one event    *)
(* after the other.  Around it the controller executes commands and        *)
(* transfers and posts events, and people plug and unplug devices, at any  *)
(* time.  An event handler is an operator on the record xhc, the state the *)
(* driver works on:                                                        *)
(*   phase       port_config_phase          addressing  addressing_port    *)
(*   port        the PORTSC register of each port                          *)
(*   cmd         the command ring, and queued, what it is to hold          *)
(*   dev         devices_, by slot; NoDevice where the pointer is null     *)
(*   addr        the USB address of the device on a port, as the device    *)
(*               sees it: "none", "default" (0, after a reset), "own"      *)
(*   pending     ports whose status change event is not posted yet         *)
(* A control transfer is known by its request; setup_stage_map_, which     *)
(* finds the request again from the address of the TRB, is left out.       *)
(***************************************************************************)
EXTENDS Ring, FiniteSets

CONSTANTS
  MaxPorts,   \* MaxPorts() of the controller
  MaxSlots,   \* kDeviceSize, 8 in the code
  CmdSize,    \* entries of the command ring, 32 in the code
  EvtSize,    \* entries of the event ring, 32 in the code
  Kinds,      \* what may be plugged into the ports
  Keys,       \* key codes
  MaxFaults   \* bound of the model: devices unplugged and transfers that fail

(* A port has at most one command that is not handled to its end, so this  *)
(* many entries are enough; 32 are, for the 8 slots there are.             *)
ASSUME XhciAssumption ==
  /\ MaxPorts \in Nat \ {0} /\ MaxSlots \in Nat \ {0} /\ MaxFaults \in Nat
  /\ CmdSize \in Nat /\ CmdSize - 1 >= MaxPorts
  /\ EvtSize \in Nat /\ EvtSize >= 2

Port == 1..MaxPorts
SlotId == 0..MaxSlots

(* What is on a port: a boot keyboard whose endpoints have one number or   *)
(* two, or a device without a class driver.                                *)
ASSUME KindsAssumption == Kinds \subseteq [Port -> {"keyboard", "keyboard2", "unsupported"}]

VARIABLES
  xhc,      \* the state above
  kind,     \* the kind of device that is or will be plugged into a port
  boot,     \* the next port of the loop in Initialize
  cmdAt,    \* the controller's place in the command ring
  evt,      \* the event ring, written by the controller
  evtAt,    \* the driver's dequeue pointer and cycle_bit_
  posted,   \* history: the events the driver has not handled
  slots,    \* the slots the controller has enabled, or does not have
  faults,   \* bound: unplugged devices and failed transfers so far
  seen      \* the keys down according to the observer's calls, by slot

vars == <<xhc, kind, boot, cmdAt, evt, evtAt, posted, slots, faults, seen>>

NoDevice == [alloc |-> FALSE]

(* A usb::xhci::Device with its HID driver.  inPort and ctxPort are        *)
(* root_hub_port_num of the input and of the device context, ctl the       *)
(* control transfers and reads the interrupt transfers on their rings,     *)
(* init and hid the two initialize_phase_, buf and prev the report         *)
(* buffers, halted the endpoints that failed.                              *)
NewDevice ==
  [alloc |-> TRUE, inPort |-> 0, ctxPort |-> 0, ctl |-> <<>>, reads |-> 0,
   init |-> 0, hid |-> 0, buf |-> {}, prev |-> {}, halted |-> {}]

-----------------------------------------------------------------------------
(* Ports.                                                                  *)

(* A change bit is set; a port posts an event when the first one is.       *)
Change(s, p, bit) ==
  [s EXCEPT !.pending = IF s.port[p].csc \/ s.port[p].prc THEN @ ELSE @ \cup {p},
            !.port[p][bit] = TRUE]

(* Port::Reset: the write clears CSC and starts the reset, the loop waits  *)
(* until it is over; the port is then enabled and the device answers to    *)
(* the default address.                                                    *)
Reset(s, p) ==
  LET cleared == [s EXCEPT !.port[p].csc = FALSE]
  IN  [Change(cleared, p, "prc") EXCEPT !.port[p].enabled = TRUE, !.addr[p] = "default"]

(* Mutant of ResetPort: it does not look at addressing_port.               *)
ResetPortAtOnce(s, p) ==
  IF ~s.port[p].connected \/ s.phase[p] \notin {"NotConnected", "WaitingAddressed"} THEN s
  ELSE Reset([s EXCEPT !.addressing = p, !.phase[p] = "ResettingPort"], p)

(* ResetPort: one port at a time; the others wait.                         *)
ResetPort(s, p) ==
  IF ~s.port[p].connected THEN s
  ELSE IF s.addressing # 0 THEN [s EXCEPT !.phase[p] = "WaitingAddressed"]
  ELSE IF s.phase[p] \notin {"NotConnected", "WaitingAddressed"} THEN s
  ELSE Reset([s EXCEPT !.addressing = p, !.phase[p] = "ResettingPort"], p)

PushCommand(s, c) ==
  [s EXCEPT !.cmd = Push(@, CmdSize, c), !.queued = Append(@, c)]

EnableSlot(s, p) ==
  IF s.port[p].enabled /\ s.port[p].prc
  THEN PushCommand([s EXCEPT !.port[p].prc = FALSE, !.phase[p] = "EnablingSlot"],
                   [type |-> "EnableSlot", slot |-> 0])
  ELSE s

(* OnEvent(PortStatusChangeEventTRB).                                      *)
OnPortStatusChange(s, p) ==
  CASE s.phase[p] = "NotConnected" -> ResetPort(s, p)
    [] s.phase[p] = "ResettingPort" -> EnableSlot(s, p)
    [] OTHER -> s

(* A device already there is used again: AddressDevice drops the error.    *)
AllocDevice(s, slot) == IF s.dev[slot].alloc THEN s ELSE [s EXCEPT !.dev[slot] = NewDevice]

(* AddressDevice with LoadDCBAA.                                           *)
AddressDevice(s, p, slot) ==
  PushCommand([AllocDevice(s, slot) EXCEPT !.dev[slot].inPort = p,
                                           !.phase[p] = "AddressingDevice"],
              [type |-> "AddressDevice", slot |-> slot])

-----------------------------------------------------------------------------
(* Devices.                                                                *)

Control(s, slot, request) == [s EXCEPT !.dev[slot].ctl = Append(@, request)]
InterruptIn(s, slot) == [s EXCEPT !.dev[slot].reads = @ + 1]

(* InitializeDevice with StartInitialize.                                  *)
InitializeDevice(s, p, slot) ==
  Control([s EXCEPT !.phase[p] = "InitializingDevice", !.dev[slot].init = 1],
          slot, "GetDeviceDescriptor")

(* ConfigureEndpoints: the speed of a port that lost its device is 0.      *)
ConfigureEndpoints(s, slot) ==
  LET p == s.dev[slot].ctxPort
  IN  IF ~s.port[p].connected THEN s
      ELSE PushCommand([s EXCEPT !.phase[p] = "ConfiguringEndpoints"],
                       [type |-> "ConfigureEndpoint", slot |-> slot])

(* Device::OnEndpointsConfigured: the class driver is entered in           *)
(* class_drivers_ once for each endpoint number, and asked to start, by    *)
(* HIDBaseDriver::OnEndpointsConfigured, once for each entry.              *)
OnEndpointsConfigured(s, slot) ==
  LET one == Control([s EXCEPT !.dev[slot].hid = 1], slot, "SetProtocol")
  IN  IF kind[s.dev[slot].ctxPort] = "keyboard2" THEN Control(one, slot, "SetProtocol") ELSE one

CompleteConfiguration(s, p, slot) ==
  [OnEndpointsConfigured(s, slot) EXCEPT !.phase[p] = "Configured"]

(* Mutant of OnSetProtocol: every answer starts a read.                    *)
OnSetProtocolAlways(s, slot) == InterruptIn([s EXCEPT !.dev[slot].hid = 2], slot)

(* HIDBaseDriver::OnControlCompleted, for the request that has a waiter.   *)
OnSetProtocol(s, slot) ==
  IF s.dev[slot].hid = 1
  THEN InterruptIn([s EXCEPT !.dev[slot].hid = 2], slot)
  ELSE s

(* Device::OnControlCompleted with InitializePhase1, 2 and 3.              *)
OnControlCompleted(s, slot, request) ==
  LET d == s.dev[slot]
  IN  CASE d.init = 4 /\ request = "SetProtocol" -> OnSetProtocol(s, slot)
        [] d.init = 1 /\ request = "GetDeviceDescriptor" ->
             Control([s EXCEPT !.dev[slot].init = 2], slot, "GetConfigurationDescriptor")
        [] d.init = 2 /\ request = "GetConfigurationDescriptor" ->
             IF kind[d.ctxPort] = "unsupported" THEN s
             ELSE Control([s EXCEPT !.dev[slot].init = 3], slot, "SetConfiguration")
        [] d.init = 3 /\ request = "SetConfiguration" -> [s EXCEPT !.dev[slot].init = 4]
        [] OTHER -> s

(* HIDBaseDriver::OnInterruptCompleted after OnDataReceived.               *)
OnInterruptCompleted(s, slot) ==
  InterruptIn([s EXCEPT !.dev[slot].prev = s.dev[slot].buf], slot)

(* HIDKeyboardDriver::OnDataReceived and the calls of the observer: the    *)
(* keys in one of the two reports only have changed.                       *)
OnDataReceived(d, down) ==
  LET changed == (d.prev \ d.buf) \cup (d.buf \ d.prev)
      pressed == changed \cap d.buf
  IN  (down \cup pressed) \ (changed \ pressed)

(* Device::OnTransferEventReceived, after its look at the completion code. *)
OnTransferEventReceived(s, e) ==
  IF e.request = "Normal" THEN OnInterruptCompleted(s, e.slot)
                          ELSE OnControlCompleted(s, e.slot, e.request)

(* OnEvent(TransferEventTRB); a transfer that failed ends it with an error.*)
OnTransfer(s, e) ==
  LET t == OnTransferEventReceived(s, e)
      p == t.dev[e.slot].ctxPort
  IN  IF ~s.dev[e.slot].alloc \/ ~e.ok THEN s
      ELSE IF t.dev[e.slot].init = 4 /\ t.phase[p] = "InitializingDevice"
           THEN ConfigureEndpoints(t, e.slot)
           ELSE t

(* Mutant of ResetWaiting: the next port is the one after the port served. *)
ResetWaitingAbove(s, p) ==
  IF \E i \in Port : i > p /\ s.phase[i] = "WaitingAddressed"
  THEN ResetPort(s, CHOOSE i \in Port : /\ i > p /\ s.phase[i] = "WaitingAddressed"
                                        /\ \A j \in p+1..i-1 : s.phase[j] # "WaitingAddressed")
  ELSE s

(* The loop over the waiting ports: the first one is tried, and only it.   *)
ResetWaiting(s, p) ==
  IF \E i \in Port : s.phase[i] = "WaitingAddressed"
  THEN ResetPort(s, CHOOSE i \in Port : /\ s.phase[i] = "WaitingAddressed"
                                        /\ \A j \in 1..i-1 : s.phase[j] # "WaitingAddressed")
  ELSE s

(* OnEvent(CommandCompletionEventTRB).  The kind of command is read from   *)
(* the ring, at the place the event names; the completion code is not      *)
(* looked at.                                                              *)
OnCommandCompletion(s, e) ==
  LET issuer == s.cmd.buf[e.at].trb.type
      p == s.dev[e.slot].ctxPort
  IN  CASE issuer = "EnableSlot" ->
             IF s.addressing # 0 /\ s.phase[s.addressing] = "EnablingSlot"
             THEN AddressDevice(s, s.addressing, e.slot)
             ELSE s
        [] issuer = "AddressDevice" ->
             IF s.dev[e.slot].alloc /\ p # 0 /\ p = s.addressing /\ s.phase[p] = "AddressingDevice"
             THEN InitializeDevice(ResetWaiting([s EXCEPT !.addressing = 0], p), p, e.slot)
             ELSE s
        [] issuer = "ConfigureEndpoint" ->
             IF s.dev[e.slot].alloc /\ p # 0 /\ s.phase[p] = "ConfiguringEndpoints"
             THEN CompleteConfiguration(s, p, e.slot)
             ELSE s
        [] OTHER -> s

-----------------------------------------------------------------------------
(* Before Initialize some devices are plugged in; the controller may have  *)
(* posted their events or not, and may have fewer slots than the driver    *)
(* asks for (max_device_slots is only logged).                             *)
Init ==
  \E plugged \in SUBSET Port : \E announced \in SUBSET plugged :
    /\ xhc = [phase |-> [p \in Port |-> "NotConnected"], addressing |-> 0,
              port |-> [p \in Port |-> [connected |-> p \in plugged, enabled |-> FALSE,
                                       csc |-> p \in plugged, prc |-> FALSE]],
              pending |-> announced, addr |-> [p \in Port |-> "none"],
              cmd |-> NewRing(CmdSize), queued |-> <<>>, dev |-> [i \in SlotId |-> NoDevice]]
    /\ kind \in Kinds
    /\ boot = 1 /\ cmdAt = NewConsumer
    /\ evt = NewRing(EvtSize) /\ evtAt = NewConsumer /\ posted = <<>>
    /\ slots \in {n+1..MaxSlots : n \in 1..MaxSlots}
    /\ faults = 0 /\ seen = [i \in SlotId |-> {}]

(* The loop of Initialize, with ConfigurePort.                             *)
InitializePort ==
  /\ boot <= MaxPorts
  /\ boot' = boot + 1
  /\ xhc' = IF xhc.phase[boot] = "NotConnected" THEN ResetPort(xhc, boot) ELSE xhc
  /\ UNCHANGED <<kind, cmdAt, evt, evtAt, posted, slots, faults, seen>>

(* ProcessEvent: the front of the event ring is handled and then popped.   *)
ProcessEvent ==
  /\ boot > MaxPorts
  /\ HasFront(evt, evtAt)
  /\ LET e == Front(evt, evtAt)
     IN  /\ xhc' = CASE e.type = "Transfer" -> OnTransfer(xhc, e)
                      [] e.type = "PortStatusChange" -> OnPortStatusChange(xhc, e.port)
                      [] e.type = "CommandCompletion" -> OnCommandCompletion(xhc, e)
                      [] OTHER -> xhc
         /\ seen' = IF e.type = "Transfer" /\ e.ok /\ e.request = "Normal"
                    THEN [seen EXCEPT ![e.slot] = OnDataReceived(xhc.dev[e.slot], @)]
                    ELSE seen
  /\ evtAt' = Pop(evtAt, EvtSize)
  /\ evt' = Forget(evt, evtAt)
  /\ posted' = IF posted = <<>> THEN posted ELSE Tail(posted)
  /\ UNCHANGED <<kind, boot, cmdAt, slots, faults>>

-----------------------------------------------------------------------------
(* The controller and the people around it.                                *)

PostEvent(e) ==
  /\ HasRoom(evt, EvtSize, evtAt)
  /\ evt' = Post(evt, EvtSize, e)
  /\ posted' = Append(posted, e)
  /\ UNCHANGED <<kind, boot, evtAt, seen>>

PostPortEvent(p) ==
  /\ p \in xhc.pending
  /\ xhc' = [xhc EXCEPT !.pending = @ \ {p}]
  /\ PostEvent([type |-> "PortStatusChange", port |-> p])
  /\ UNCHANGED <<cmdAt, slots, faults>>

(* The controller takes the next command.  It gives the first free slot,   *)
(* or 0 with an error code when there is none; it addresses the device     *)
(* that is in the default state behind the port of the input context and   *)
(* then writes the device context, or fails.                               *)
ExecuteCommand ==
  /\ HasFront(xhc.cmd, cmdAt)
  /\ cmdAt' = Consume(xhc.cmd, cmdAt)
  /\ LET c == Front(xhc.cmd, cmdAt)
         done == [xhc EXCEPT !.queued = IF @ = <<>> THEN @ ELSE Tail(@)]
         Completion(slot) == [type |-> "CommandCompletion", at |-> cmdAt.index, slot |-> slot]
     IN  \/ /\ c.type = "EnableSlot"
            /\ xhc' = done
            /\ \/ \E slot \in SlotId \ (slots \cup {0}) :
                    /\ 1..slot-1 \subseteq slots
                    /\ slots' = slots \cup {slot} /\ PostEvent(Completion(slot))
               \/ SlotId \ {0} \subseteq slots /\ UNCHANGED slots /\ PostEvent(Completion(0))
         \/ /\ c.type = "AddressDevice"
            /\ LET p == xhc.dev[c.slot].inPort
               IN  xhc' = IF c.slot \in slots /\ xhc.addr[p] = "default"
                          THEN [done EXCEPT !.addr[p] = "own", !.dev[c.slot].ctxPort = p]
                          ELSE done
            /\ UNCHANGED slots /\ PostEvent(Completion(c.slot))
         \/ /\ c.type = "ConfigureEndpoint"
            /\ xhc' = done
            /\ UNCHANGED slots /\ PostEvent(Completion(c.slot))
  /\ UNCHANGED faults

Reachable(slot) == xhc.dev[slot].ctxPort # 0 /\ xhc.addr[xhc.dev[slot].ctxPort] = "own"

Transfer(slot, request, ok) ==
  [type |-> "Transfer", slot |-> slot, request |-> request, ok |-> ok]

(* A transfer fails when the device is gone, and by chance; the endpoint   *)
(* then stops.                                                             *)
Fail(slot, ep, request) ==
  /\ Reachable(slot) => faults < MaxFaults
  /\ faults' = IF Reachable(slot) THEN faults + 1 ELSE faults
  /\ xhc' = [xhc EXCEPT !.dev[slot].halted = @ \cup {ep}]
  /\ PostEvent(Transfer(slot, request, FALSE))

CompleteControl(slot) ==
  /\ xhc.dev[slot].alloc /\ xhc.dev[slot].ctl # <<>> /\ "control" \notin xhc.dev[slot].halted
  /\ LET request == Head(xhc.dev[slot].ctl)
     IN  \/ /\ Reachable(slot)
            /\ xhc' = [xhc EXCEPT !.dev[slot].ctl = Tail(@)]
            /\ PostEvent(Transfer(slot, request, TRUE))
            /\ UNCHANGED faults
         \/ Fail(slot, "control", request)
  /\ UNCHANGED <<cmdAt, slots>>

(* The keyboard reports the keys that are down; the report is in buf_ when *)
(* the event is posted.                                                    *)
CompleteInterrupt(slot) ==
  /\ xhc.dev[slot].alloc /\ xhc.dev[slot].reads > 0 /\ "interrupt" \notin xhc.dev[slot].halted
  /\ \/ /\ Reachable(slot)
        /\ \E report \in SUBSET Keys :
             xhc' = [xhc EXCEPT !.dev[slot].reads = @ - 1, !.dev[slot].buf = report]
        /\ PostEvent(Transfer(slot, "Normal", TRUE))
        /\ UNCHANGED faults
     \/ Fail(slot, "interrupt", "Normal")
  /\ UNCHANGED <<cmdAt, slots>>

Plug(p) ==
  /\ ~xhc.port[p].connected
  /\ xhc' = Change([xhc EXCEPT !.port[p].connected = TRUE], p, "csc")
  /\ UNCHANGED <<kind, boot, cmdAt, evt, evtAt, posted, slots, faults, seen>>

Unplug(p) ==
  /\ xhc.port[p].connected /\ faults < MaxFaults
  /\ xhc' = Change([xhc EXCEPT !.port[p].connected = FALSE, !.port[p].enabled = FALSE,
                               !.addr[p] = "none"], p, "csc")
  /\ faults' = faults + 1
  /\ UNCHANGED <<kind, boot, cmdAt, evt, evtAt, posted, slots, seen>>

Next ==
  \/ InitializePort
  \/ ProcessEvent
  \/ ExecuteCommand
  \/ \E p \in Port : PostPortEvent(p) \/ Plug(p) \/ Unplug(p)
  \/ \E slot \in SlotId : CompleteControl(slot) \/ CompleteInterrupt(slot)

Spec == Init /\ [][Next]_vars

-----------------------------------------------------------------------------
(* From the reset of a port until the device has its own address no other  *)
(* port is reset, so that never two devices answer to the default address, *)
(* and addressing_port names the port of that sequence (the comments above *)
(* port_config_phase and addressing_port), whatever is plugged, unplugged  *)
(* or fails meanwhile.                                                     *)
OneAtDefaultAddress ==
  /\ \A p, q \in Port : xhc.addr[p] = "default" /\ xhc.addr[q] = "default" => p = q
  /\ {p \in Port : xhc.phase[p] \in {"ResettingPort", "EnablingSlot", "AddressingDevice"}}
       = {xhc.addressing} \ {0}

(* The rings are queues: with nothing but cycle bits and the link entry    *)
(* the controller takes exactly the commands ring.cpp pushed and the       *)
(* driver exactly the events the controller posted, in order, over any     *)
(* number of rounds; and the command a completion event points at is still *)
(* in the ring when the driver reads its type there.                       *)
RingsAreQueues ==
  /\ Shows(xhc.cmd, cmdAt, CmdSize - 1, xhc.queued)
  /\ Shows(evt, evtAt, EvtSize, posted)
  /\ \A i \in 1..Len(posted) : posted[i].type = "CommandCompletion" =>
       \E p \in Port : xhc.phase[p] =
         CASE xhc.cmd.buf[posted[i].at].trb.type = "EnableSlot" -> "EnablingSlot"
           [] xhc.cmd.buf[posted[i].at].trb.type = "AddressDevice" -> "AddressingDevice"
           [] OTHER -> "ConfiguringEndpoints"

(* A running keyboard has one read under way or one report to be handled,  *)
(* never two: a second read would overwrite buf_ before OnDataReceived has *)
(* seen it.  What the observer has been told is the last report handled.   *)
OneReportAtATime ==
  \A slot \in SlotId : xhc.dev[slot].alloc =>
    LET d == xhc.dev[slot]
        unread == {i \in 1..Len(posted) : /\ posted[i].type = "Transfer" /\ posted[i].slot = slot
                                          /\ posted[i].request = "Normal" /\ posted[i].ok}
    IN  /\ d.reads + Cardinality(unread) = (IF d.hid = 2 THEN 1 ELSE 0)
        /\ seen[slot] = d.prev
        /\ unread = {} => d.prev = d.buf

(* No device is left behind.  When driver and controller have nothing more *)
(* to do - no event, no command and no control transfer is on its way -    *)
(* and nothing was unplugged, no transfer failed and the slots sufficed,   *)
(* every supported device that is plugged in is configured and its driver  *)
(* reads reports, although the ports wait for each other while one is      *)
(* addressed and a port may be plugged at any moment of that.              *)
Quiet ==
  /\ boot > MaxPorts /\ xhc.pending = {} /\ posted = <<>> /\ xhc.queued = <<>>
  /\ \A slot \in SlotId : xhc.dev[slot].alloc => xhc.dev[slot].ctl = <<>>

NoDeviceLeftBehind ==
  Quiet /\ faults = 0 /\ ~xhc.dev[0].alloc =>
    \A p \in Port : xhc.port[p].connected /\ kind[p] # "unsupported" =>
      \E slot \in SlotId : /\ xhc.dev[slot].alloc /\ xhc.dev[slot].ctxPort = p
                           /\ xhc.dev[slot].hid = 2
=============================================================================
