--------------------------- MODULE XhciEnumeration ---------------------------
(***************************************************************************)
(* The xHCI driver of usb/xhci/xhci.cpp and usb/xhci/device.cpp, with the  *)
(* HID class driver of usb/classdriver/hid.cpp, against a controller and   *)
(* devices that behave as the xHCI and USB specifications say.             *)
(*                                                                         *)
(* The driver is one sequential consumer: ProcessEvents takes the event at *)
(* the front of the primary event ring and runs its whole handler (every   *)
(* register write, ring push and doorbell of it) in one step.  The         *)
(* controller runs concurrently: it executes commands from the command     *)
(* ring in order, executes transfers from each endpoint's transfer ring,   *)
(* latches port changes and posts one event per completion or change.  A   *)
(* user may plug a device into a free port at any time.  Both rings are    *)
(* the FIFO queues of TrbQueue; Ring and EventRing show the cycle-bit      *)
(* rings of ring.cpp implement them.                                       *)
(***************************************************************************)
EXTENDS Naturals, Sequences, FiniteSets

CONSTANTS MaxPorts,       \* HCSPARAMS1.max_ports
          MaxSlots,       \* kDeviceSize, written to CONFIG.max_device_slots_enabled
          Kinds,          \* the devices a user may plug: "Keyboard", "Mouse", "Other"
          Speeds,         \* PORTSC.port_speed values the attached devices use
          EvCap,          \* event ring entries the controller may fill
          TransferErrors  \* whether a transfer may complete with an error code

Ports == 1 .. MaxPorts
SlotIds == 0 .. MaxSlots      \* DeviceManager::_devices has MaxSlots + 1 entries
HidKinds == {"Keyboard", "Mouse"}
NoDevice == [none |-> TRUE]

\* ConfigPhase of usb/xhci/port.hpp
Phases == {"NotConnected", "WaitingAddressed", "ResettingPort", "EnablingSlot",
           "AddressingDevice", "InitializingDevice", "ConfiguringEndpoints",
           "Configured"}
\* The phases in which a port holds the controller-global addressing_port.
AddrPhases == {"ResettingPort", "EnablingSlot", "AddressingDevice"}

\* The control requests the driver issues (SetupData abstracted to its kind).
Requests == {"GetDescDevice", "GetDescConfig", "SetConfiguration", "SetProtocol"}

VARIABLES
  phase,            \* Port::_config_phase of every port
  addressing_port,  \* the file-level addressing_port of xhci.cpp, 0 = none
  connected,        \* PORTSC.current_connect_status (hardware)
  enabled,          \* PORTSC.port_enabled_disabled (hardware)
  prc,              \* PORTSC.port_reset_change (hardware)
  kind,             \* the device plugged into each port, "none" if free
  speed,            \* PORTSC.port_speed of each port
  pendingPSC,       \* ports with a change latched but not yet posted (hardware)
  cmdRing,          \* command TRBs pushed and not yet executed
  evRing,           \* events posted and not yet popped by ProcessEvent
  hwSlots,          \* device slots the controller has enabled (hardware)
  dev,              \* DeviceManager::_devices: slot -> Device state or NoDevice
  ctrlXfer,         \* control transfers queued on each slot's EP0 ring
  intrXfer          \* interrupt-in transfers queued on each slot's ring

vars == <<phase, addressing_port, connected, enabled, prc, kind, speed,
          pendingPSC, cmdRing, evRing, hwSlots, dev, ctrlXfer, intrXfer>>

\* A usb::xhci::Device.  inputPort is the root_hub_port_num software writes
\* into the Input Context; ctxPort the one the controller copies into the
\* Device Context when it executes Address Device (0 before).  setupMap is
\* _setup_stage_map, as pairs of the completing TRB and the request its
\* Setup Stage TRB holds; waiters the requests in _event_waiters.
DeviceRecs ==
  [inputPort : Ports, ctxPort : {0} \cup Ports, ep0mps : {8, 64, 512},
   initPhase : 0 .. 4, initialized : BOOLEAN, driver : {"none", "hid"},
   hidPhase : 0 .. 2, setupMap : SUBSET [trb : Nat, req : Requests],
   waiters : SUBSET Requests, ep0Next : Nat, intrRing : BOOLEAN]

Commands == [type : {"EnableSlot", "AddressDevice", "ConfigureEndpoint"},
             slot : SlotIds]
Events == [type : {"PSC"}, port : Ports]
     \cup [type : {"CCE"}, cmd : {"EnableSlot", "AddressDevice", "ConfigureEndpoint"},
           slot : SlotIds, ok : BOOLEAN]
     \cup [type : {"TE"}, slot : SlotIds, normal : BOOLEAN, trb : Nat,
           req : Requests \cup {"none"}, ok : BOOLEAN]
ControlTDs == [trb : Nat, req : Requests]

-----------------------------------------------------------------------------
(* The state after usb::xhci::Initialize (xhci.cpp 558-630): the ports      *)
(* connected at boot have their connect change latched, and the loop calls *)
(* ConfigurePort -> ResetPort on each in port order, so the first one      *)
(* takes addressing_port and is reset, and every later one is queued.      *)
Init ==
  \E boot \in SUBSET Ports :
    LET first == IF boot = {} THEN 0
                 ELSE CHOOSE p \in boot : \A q \in boot : p <= q
    IN
    /\ phase = [p \in Ports |-> IF p \notin boot THEN "NotConnected"
                                ELSE IF p = first THEN "ResettingPort"
                                ELSE "WaitingAddressed"]
    /\ addressing_port = first
    /\ connected = [p \in Ports |-> p \in boot]
    /\ enabled = [p \in Ports |-> p = first]
    /\ prc = [p \in Ports |-> p = first]
    /\ kind \in [Ports -> Kinds \cup {"none"}]
    /\ \A p \in Ports : (kind[p] = "none") <=> (p \notin boot)
    /\ speed \in [Ports -> Speeds]
    /\ pendingPSC = boot
    /\ cmdRing = << >>
    /\ evRing = << >>
    /\ hwSlots = {}
    /\ dev = [s \in SlotIds |-> NoDevice]
    /\ ctrlXfer = [s \in SlotIds |-> << >>]
    /\ intrXfer = [s \in SlotIds |-> 0]

-----------------------------------------------------------------------------
(***************************************************************************)
(* Driver helpers, as operators from the state they read to the state they *)
(* produce, so that one handler can call several of them in order.        *)
(***************************************************************************)

\* Mutant: ResetPort without the addressing_port test.
ResetPortNoToken(p, ph, tok) ==
  CASE ~connected[p] ->
         [phase |-> ph, tok |-> tok, reset |-> FALSE]
    [] ph[p] \notin {"NotConnected", "WaitingAddressed"} ->
         [phase |-> ph, tok |-> tok, reset |-> FALSE]
    [] OTHER ->
         [phase |-> [ph EXCEPT ![p] = "ResettingPort"], tok |-> p, reset |-> TRUE]

\* ResetPort (xhci.cpp 65-92) on the phases ph and the token tok: a port
\* that is not connected is left alone; while another port holds the token
\* the port is queued; otherwise a port that is NotConnected or queued takes
\* the token and Port::Reset resets it (reset = TRUE).
ResetPort(p, ph, tok) ==
  CASE ~connected[p] ->
         [phase |-> ph, tok |-> tok, reset |-> FALSE]
    [] tok /= 0 ->
         [phase |-> [ph EXCEPT ![p] = "WaitingAddressed"], tok |-> tok, reset |-> FALSE]
    [] ph[p] \notin {"NotConnected", "WaitingAddressed"} ->
         [phase |-> ph, tok |-> tok, reset |-> FALSE]
    [] OTHER ->
         [phase |-> [ph EXCEPT ![p] = "ResettingPort"], tok |-> p, reset |-> TRUE]

\* Port::Reset (port.cpp 285-298) spins until the controller clears
\* port_reset, and the controller then has the port enabled with
\* port_reset_change set and a Port Status Change latched.
AfterReset(reset, p) ==
  /\ enabled' = IF reset THEN [enabled EXCEPT ![p] = TRUE] ELSE enabled
  /\ prc' = IF reset THEN [prc EXCEPT ![p] = TRUE] ELSE prc
  /\ pendingPSC' = IF reset THEN pendingPSC \cup {p} ELSE pendingPSC

\* Mutant: maxPacketSize left 0 instead of starting at 8.
Ep0MaxPacketSizeNoDefault(sp) == CASE sp = 4 -> 64 [] sp = 3 -> 64 [] OTHER -> 0

\* AddressDevice's max packet size for EP0 (xhci.cpp 150-160).  The switch
\* has no break: speed 4 sets 512 and falls through to 64.
Ep0MaxPacketSize(sp) == CASE sp = 4 -> 64
                          [] sp = 3 -> 64
                          [] OTHER  -> 8

\* Device::ControlIn (device.cpp 122-164) on EP0: Setup, Data (IOC) and
\* Status TRBs are pushed, the Data TRB is mapped to its Setup TRB, an
\* issuer is recorded in _event_waiters first, and the doorbell is rung.
\* The result is the new device and the transfer the controller now has.
ControlIn(d, req, issuer) ==
  [dev |-> [d EXCEPT !.setupMap = @ \cup {[trb |-> d.ep0Next + 1, req |-> req]},
                     !.waiters = IF issuer THEN @ \cup {req} ELSE @,
                     !.ep0Next = @ + 3],
   td  |-> << [trb |-> d.ep0Next + 1, req |-> req] >>]

\* Mutant: ControlOut that never records the issuer in _event_waiters.
ControlOutNoWaiter(d, req, issuer) ==
  [dev |-> [d EXCEPT !.setupMap = @ \cup {[trb |-> d.ep0Next + 1, req |-> req]},
                     !.ep0Next = @ + 2],
   td  |-> << [trb |-> d.ep0Next + 1, req |-> req] >>]

\* Device::ControlOut (device.cpp 166-204): Setup and Status (IOC) TRBs,
\* the Status TRB mapped to the Setup TRB.
ControlOut(d, req, issuer) ==
  [dev |-> [d EXCEPT !.setupMap = @ \cup {[trb |-> d.ep0Next + 1, req |-> req]},
                     !.waiters = IF issuer THEN @ \cup {req} ELSE @,
                     !.ep0Next = @ + 2],
   td  |-> << [trb |-> d.ep0Next + 1, req |-> req] >>]

\* Device::InterruptIn (device.cpp 206-224): one Normal TRB on the
\* interrupt-in ring, or kTransferRingNotSet if the ring was never allocated.
InterruptIn(d) == IF d.intrRing THEN 1 ELSE 0

\* A handler's result: the new device, the control transfers it queued,
\* the interrupt-in transfers it queued, and whether it returned success.
Result(d, td, intr, ok) == [dev |-> d, td |-> td, intr |-> intr, ok |-> ok]
Failed(d) == Result(d, << >>, 0, FALSE)

\* Device::GetDescriptor (device.cpp 441-454): ControlIn, no issuer.
GetDescriptor(d, req) == ControlIn(d, req, FALSE)

\* Device::SetConfiguration (device.cpp 456-467): ControlOut, no issuer.
SetConfiguration(d) == ControlOut(d, "SetConfiguration", FALSE)

\* FindClassDriver (device.cpp 46-66): a keyboard or mouse interface
\* (class 3, subclass 1, protocol 1 or 2) gets a HID driver, anything else
\* none.
FindClassDriver(k) == IF k \in HidKinds THEN "hid" ELSE "none"

\* Device::InitializePhase2 (device.cpp 335-348): phase 2, then
\* GetDescriptor(Configuration).
InitializePhase2(d) ==
  LET c == GetDescriptor([d EXCEPT !.initPhase = 2], "GetDescConfig")
  IN  Result(c.dev, c.td, 0, TRUE)

\* Device::InitializePhase3 (device.cpp 350-428): phase 3; the interface
\* with a class driver gets its endpoints and SET_CONFIGURATION is sent;
\* with no class driver the device stays in phase 3 and success is returned.
InitializePhase3(d, k) ==
  LET d3 == [d EXCEPT !.initPhase = 3, !.driver = FindClassDriver(k)]
      c  == SetConfiguration(d3)
  IN  IF d3.driver = "none" THEN Result(d3, << >>, 0, TRUE)
      ELSE Result(c.dev, c.td, 0, TRUE)

\* Device::InitializePhase4 (device.cpp 430-439): phase 4, the endpoints go
\* to their class drivers (SetEndpoint) and the device is initialized.
InitializePhase4(d) ==
  Result([d EXCEPT !.initPhase = 4, !.initialized = TRUE], << >>, 0, TRUE)

\* HIDBaseDriver::OnControlCompleted (hid.cpp 37-46): in phase 1 (SET_PROTOCOL
\* sent) go to phase 2 and submit the first interrupt-in.
HidOnControlCompleted(d) ==
  IF d.hidPhase = 1
  THEN Result([d EXCEPT !.hidPhase = 2], << >>, InterruptIn(d), d.intrRing)
  ELSE Failed(d)

\* Device::OnControlCompleted (device.cpp 275-306): once initialized, the
\* completion goes to the waiter registered for its request (kNoWaiter
\* otherwise); before, the initialize phase and the request decide the next
\* phase, and any other combination is kInvalidPhase.  k is the kind of the
\* device, which decides what its configuration descriptor holds.
OnControlCompleted(d, req, k) ==
  CASE d.initialized ->
         IF req \in d.waiters THEN HidOnControlCompleted(d) ELSE Failed(d)
    [] d.initPhase = 1 /\ req = "GetDescDevice"    -> InitializePhase2(d)
    [] d.initPhase = 2 /\ req = "GetDescConfig"    -> InitializePhase3(d, k)
    [] d.initPhase = 3 /\ req = "SetConfiguration" -> InitializePhase4(d)
    [] OTHER -> Failed(d)

\* Device::StartInitialize (device.cpp 327-333): phase 1 and
\* GetDescriptor(Device) through ControlIn without an issuer.
StartInitialize(d) ==
  GetDescriptor([d EXCEPT !.initialized = FALSE, !.initPhase = 1], "GetDescDevice")

\* HIDBaseDriver::OnEndpointsConfigured (hid.cpp 22-35): phase 1 and
\* SET_PROTOCOL (boot protocol) through ControlOut with the driver as issuer.
HidOnEndpointsConfigured(d) == ControlOut([d EXCEPT !.hidPhase = 1], "SetProtocol", TRUE)

\* Device::OnEndpointsConfigured (device.cpp 316-325): every class driver
\* of the device is told; a device without one does nothing.
OnEndpointsConfigured(d) ==
  IF d.driver = "hid" THEN HidOnEndpointsConfigured(d) ELSE [dev |-> d, td |-> << >>]

-----------------------------------------------------------------------------
(***************************************************************************)
(* The event handlers of ProcessEvent (xhci.cpp 536-554).  Each one takes  *)
(* the front event e, runs the handler and pops the event; an error return *)
(* only drops the event (ProcessEvents logs it and goes on).               *)
(***************************************************************************)

PopEvent == evRing' = Tail(evRing)

\* OnPortStatusChangeEvent (xhci.cpp 282-296) for a port that is
\* NotConnected: ResetPort.
OnPortStatusChangeReset(e) ==
  LET p == e.port
      r == ResetPort(p, phase, addressing_port)
  IN  /\ phase[p] = "NotConnected"
      /\ phase' = r.phase
      /\ addressing_port' = r.tok
      /\ AfterReset(r.reset, p)
      /\ UNCHANGED <<connected, kind, speed, cmdRing, hwSlots, dev, ctrlXfer, intrXfer>>

\* OnPortStatusChangeEvent for a port in ResettingPort: EnableSlot
\* (xhci.cpp 94-111).  Once the port is enabled and its reset change is set,
\* the change is cleared, the port goes to EnablingSlot and an Enable Slot
\* command is pushed and doorbell 0 rung; otherwise nothing happens.
OnPortStatusChangeEnableSlot(e) ==
  LET p == e.port IN
  /\ phase[p] = "ResettingPort"
  /\ IF enabled[p] /\ prc[p]
     THEN /\ prc' = [prc EXCEPT ![p] = FALSE]
          /\ phase' = [phase EXCEPT ![p] = "EnablingSlot"]
          /\ cmdRing' = Append(cmdRing, [type |-> "EnableSlot", slot |-> 0])
     ELSE UNCHANGED <<prc, phase, cmdRing>>
  /\ UNCHANGED <<addressing_port, connected, enabled, kind, speed, pendingPSC,
                 hwSlots, dev, ctrlXfer, intrXfer>>

\* Any other phase: kInvalidPhase, the event is dropped.
OnPortStatusChangeInvalid(e) ==
  /\ phase[e.port] \notin {"NotConnected", "ResettingPort"}
  /\ UNCHANGED <<phase, addressing_port, connected, enabled, prc, kind, speed,
                 pendingPSC, cmdRing, hwSlots, dev, ctrlXfer, intrXfer>>

\* The phase of the port PortAt(addressing_port) returns.  With the token
\* free, PortAt(0) reads _ports[-1], the _interrupter pointer that precedes
\* the array in Controller, and takes the interrupter's ERSTBA word as the
\* phase: a 64-byte aligned address, never a ConfigPhase the code tests.
TokenPortPhase == IF addressing_port = 0 THEN "Unmapped" ELSE phase[addressing_port]

\* AddressDevice (xhci.cpp 113-185) for port p and slot s: AllocDevice
\* (devmgr.cpp 24-37) fails with kAlreadyAllocated on a used slot;
\* otherwise a Device is allocated, its Input Context names the port and its
\* speed, EP0 gets a ring, the DCBAA entry is loaded, the port goes to
\* AddressingDevice and an Address Device command is pushed.
AddressDevice(p, s) ==
  LET d == [inputPort |-> p, ctxPort |-> 0, ep0mps |-> Ep0MaxPacketSize(speed[p]),
            initPhase |-> 0, initialized |-> FALSE, driver |-> "none",
            hidPhase |-> 0, setupMap |-> {}, waiters |-> {}, ep0Next |-> 0,
            intrRing |-> FALSE]
  IN  IF dev[s] = NoDevice
      THEN /\ dev' = [dev EXCEPT ![s] = d]
           /\ phase' = [phase EXCEPT ![p] = "AddressingDevice"]
           /\ cmdRing' = Append(cmdRing, [type |-> "AddressDevice", slot |-> s])
      ELSE UNCHANGED <<dev, phase, cmdRing>>

\* OnCommandCompletionEvent for Enable Slot (xhci.cpp 221-233): the phase of
\* the token's port must be EnablingSlot, and AddressDevice runs for that
\* port and the slot the event carries; the completion code is not read.
OnEnableSlotCompleted(e) ==
  /\ e.cmd = "EnableSlot"
  /\ IF TokenPortPhase = "EnablingSlot"
     THEN AddressDevice(addressing_port, e.slot)
     ELSE UNCHANGED <<dev, phase, cmdRing>>
  /\ UNCHANGED <<addressing_port, connected, enabled, prc, kind, speed,
                 pendingPSC, hwSlots, ctrlXfer, intrXfer>>

\* InitializeDevice (xhci.cpp 187-200) on the phases ph: port p goes to
\* InitializingDevice and the device of slot s starts its bring-up.
InitializeDevice(p, s, ph) ==
  LET si == StartInitialize(dev[s]) IN
  /\ phase' = [ph EXCEPT ![p] = "InitializingDevice"]
  /\ dev' = [dev EXCEPT ![s] = si.dev]
  /\ ctrlXfer' = [ctrlXfer EXCEPT ![s] = @ \o si.td]

\* The port the AddressDevice completion promotes (xhci.cpp 248-257): the
\* loop runs i from 0 to MaxPorts - 1 over PortAt(i), so it sees PortAt(0)
\* (never WaitingAddressed, see TokenPortPhase) and ports 1 .. MaxPorts - 1,
\* and stops at the first queued one.  0 when there is none.
ScannedPorts == 1 .. MaxPorts - 1
PromotedPort ==
  LET waiting == {q \in ScannedPorts : phase[q] = "WaitingAddressed"}
  IN  IF waiting = {} THEN 0 ELSE CHOOSE q \in waiting : \A r \in waiting : q <= r

\* Mutant: the loop resets the queued port without clearing addressing_port.
PromoteNextKeepToken ==
  IF PromotedPort = 0 THEN [phase |-> phase, tok |-> addressing_port, reset |-> FALSE]
  ELSE ResetPort(PromotedPort, phase, addressing_port)

\* addressing_port = 0 and the loop (xhci.cpp 247-257): the first queued
\* port found goes through ResetPort with the token free.
PromoteNext ==
  IF PromotedPort = 0 THEN [phase |-> phase, tok |-> 0, reset |-> FALSE]
  ELSE ResetPort(PromotedPort, phase, 0)

\* Mutant: InitializeDevice called with addressing_port (the port just
\* promoted) instead of the port read from the Device Context.
OnAddressDeviceCompletedWrongPort(e) ==
  LET s  == e.slot
      d  == dev[s]
      p  == d.ctxPort
      r  == PromoteNext
  IN
  /\ e.cmd = "AddressDevice"
  /\ IF d /= NoDevice /\ p = addressing_port /\ TokenPortPhase = "AddressingDevice"
     THEN /\ addressing_port' = r.tok
          /\ AfterReset(r.reset, PromotedPort)
          /\ InitializeDevice(IF r.tok = 0 THEN p ELSE r.tok, s, r.phase)
     ELSE UNCHANGED <<addressing_port, enabled, prc, pendingPSC, phase, dev, ctrlXfer>>
  /\ UNCHANGED <<connected, kind, speed, cmdRing, hwSlots, intrXfer>>

\* OnCommandCompletionEvent for Address Device (xhci.cpp 234-259): the port
\* the controller wrote into the Device Context must be the token's port and
\* in AddressingDevice.  The token is released, the first queued port found
\* is reset through ResetPort (it takes the token again), and
\* InitializeDevice (187-200) moves this port to InitializingDevice and
\* starts the device's descriptor requests.
OnAddressDeviceCompleted(e) ==
  LET s  == e.slot
      d  == dev[s]
      p  == d.ctxPort
      q  == PromotedPort
      r  == PromoteNext
  IN
  /\ e.cmd = "AddressDevice"
  /\ IF d /= NoDevice /\ p = addressing_port /\ TokenPortPhase = "AddressingDevice"
     THEN /\ addressing_port' = r.tok
          /\ AfterReset(r.reset, q)
          /\ InitializeDevice(p, s, r.phase)
     ELSE UNCHANGED <<addressing_port, enabled, prc, pendingPSC, phase, dev, ctrlXfer>>
  /\ UNCHANGED <<connected, kind, speed, cmdRing, hwSlots, intrXfer>>

\* OnCommandCompletionEvent for Configure Endpoint (xhci.cpp 260-276): the
\* device's port must be in ConfiguringEndpoints; the class drivers are told
\* the endpoints are configured and the port is Configured.
OnConfigureEndpointCompleted(e) ==
  LET s  == e.slot
      d  == dev[s]
      oc == OnEndpointsConfigured(d)
  IN
  /\ e.cmd = "ConfigureEndpoint"
  /\ IF d /= NoDevice /\ d.ctxPort /= 0 /\ phase[d.ctxPort] = "ConfiguringEndpoints"
     THEN /\ dev' = [dev EXCEPT ![s] = oc.dev]
          /\ ctrlXfer' = [ctrlXfer EXCEPT ![s] = @ \o oc.td]
          /\ phase' = [phase EXCEPT ![d.ctxPort] = "Configured"]
     ELSE UNCHANGED <<dev, ctrlXfer, phase>>
  /\ UNCHANGED <<addressing_port, connected, enabled, prc, kind, speed,
                 pendingPSC, cmdRing, hwSlots, intrXfer>>

\* HIDBaseDriver::OnInterruptCompleted (hid.cpp 47-55): the report goes to
\* OnDataReceived (HidKeyboard), is copied to the previous buffer, and the
\* next interrupt-in is submitted.
HidOnInterruptCompleted(d) == Result(d, << >>, InterruptIn(d), d.intrRing)

\* Device::OnInterruptCompleted (device.cpp 308-314): the class driver of
\* the endpoint, kNoWaiter if there is none.
OnInterruptCompleted(d) ==
  IF d.driver = "hid" THEN HidOnInterruptCompleted(d) ELSE Failed(d)

\* Mutant: the Setup Stage is looked up but never erased.
OnTransferEventReceivedKeepEntry(d, e, k) ==
  LET entries == {m \in d.setupMap : m.trb = e.trb}
      m       == CHOOSE x \in entries : TRUE
  IN
  CASE ~e.ok         -> Failed(d)
    [] e.normal      -> OnInterruptCompleted(d)
    [] entries = {}  -> Failed(d)
    [] OTHER -> OnControlCompleted(d, m.req, k)

\* Device::OnTransferEventReceived (device.cpp 226-273) and
\* Device::OnInterruptCompleted (308-314) with
\* HIDBaseDriver::OnInterruptCompleted (hid.cpp 47-55): a completion code
\* other than Success or Short Packet is kTransferFailed; a Normal TRB goes to
\* the class driver, which takes the report and submits the next
\* interrupt-in; otherwise the Setup Stage is looked up and erased and
\* OnControlCompleted runs.  The result also says whether an error returned.
OnTransferEventReceived(d, e, k) ==
  LET entries == {m \in d.setupMap : m.trb = e.trb}
      m       == CHOOSE x \in entries : TRUE
      rest    == [d EXCEPT !.setupMap = @ \ {m}]
  IN
  CASE ~e.ok         -> Failed(d)
    [] e.normal      -> OnInterruptCompleted(d)
    [] entries = {}  -> Failed(d)
    [] OTHER -> OnControlCompleted(rest, m.req, k)

\* Mutant: ConfigureEndPoints whenever the device is initialized.
NeedsConfigureAnyPhase(o, p) == o.ok /\ o.dev.initialized /\ p /= 0

\* The test of OnTransferEvent (xhci.cpp 209-217): the handler succeeded,
\* the device is initialized and its port is still InitializingDevice.
NeedsConfigure(o, p) ==
  o.ok /\ o.dev.initialized /\ p /= 0 /\ phase[p] = "InitializingDevice"

\* ConfigureEndPoints (xhci.cpp 463-534) for the device d of slot s on port
\* p: a port speed outside 1 .. 5 is kUnknownXHCISpeedID; otherwise every
\* endpoint gets a transfer ring, the port goes to ConfiguringEndpoints and
\* a Configure Endpoint command is pushed.
ConfigureEndPoints(s, d, p) ==
  IF speed[p] \in 1 .. 5
  THEN /\ dev' = [dev EXCEPT ![s] = [d EXCEPT !.intrRing = TRUE]]
       /\ phase' = [phase EXCEPT ![p] = "ConfiguringEndpoints"]
       /\ cmdRing' = Append(cmdRing, [type |-> "ConfigureEndpoint", slot |-> s])
  ELSE /\ dev' = [dev EXCEPT ![s] = d]
       /\ UNCHANGED <<phase, cmdRing>>

\* OnTransferEvent (xhci.cpp 202-219): the device's handler runs; after a
\* successful one, a device that has just become initialized while its port
\* is in InitializingDevice gets ConfigureEndPoints.
OnTransferEvent(e) ==
  LET s  == e.slot
      d  == dev[s]
      p  == d.ctxPort
      o  == OnTransferEventReceived(d, e, kind[d.inputPort])
  IN
  /\ e.type = "TE"
  /\ IF d = NoDevice
     THEN UNCHANGED <<dev, ctrlXfer, intrXfer, phase, cmdRing>>
     ELSE /\ ctrlXfer' = [ctrlXfer EXCEPT ![s] = @ \o o.td]
          /\ intrXfer' = [intrXfer EXCEPT ![s] = @ + o.intr]
          /\ IF NeedsConfigure(o, p)
             THEN ConfigureEndPoints(s, o.dev, p)
             ELSE /\ dev' = [dev EXCEPT ![s] = o.dev]
                  /\ UNCHANGED <<phase, cmdRing>>
  /\ UNCHANGED <<addressing_port, connected, enabled, prc, kind, speed,
                 pendingPSC, hwSlots>>

\* ProcessEvent: dispatch on the type of the front event, then Pop.
ProcessEvent ==
  /\ evRing /= << >>
  /\ LET e == Head(evRing) IN
     \/ e.type = "PSC" /\ OnPortStatusChangeReset(e)
     \/ e.type = "PSC" /\ OnPortStatusChangeEnableSlot(e)
     \/ e.type = "PSC" /\ OnPortStatusChangeInvalid(e)
     \/ e.type = "CCE" /\ OnEnableSlotCompleted(e)
     \/ e.type = "CCE" /\ OnAddressDeviceCompleted(e)
     \/ e.type = "CCE" /\ OnConfigureEndpointCompleted(e)
     \/ OnTransferEvent(e)
  /\ PopEvent

-----------------------------------------------------------------------------
(***************************************************************************)
(* The controller and the devices (xHCI and USB 2.0 behaviour, not code of *)
(* this repository).                                                       *)
(***************************************************************************)

HasRoom == Len(evRing) < EvCap

\* A user plugs a device into a free port: the connect change is latched.
Connect(p) ==
  /\ ~connected[p]
  /\ connected' = [connected EXCEPT ![p] = TRUE]
  /\ \E k \in Kinds, sp \in Speeds :
       /\ kind' = [kind EXCEPT ![p] = k]
       /\ speed' = [speed EXCEPT ![p] = sp]
  /\ pendingPSC' = pendingPSC \cup {p}
  /\ UNCHANGED <<phase, addressing_port, enabled, prc, cmdRing, evRing, hwSlots,
                 dev, ctrlXfer, intrXfer>>

\* A latched port change becomes a Port Status Change Event.
PostPortStatusChange(p) ==
  /\ p \in pendingPSC
  /\ HasRoom
  /\ evRing' = Append(evRing, [type |-> "PSC", port |-> p])
  /\ pendingPSC' = pendingPSC \ {p}
  /\ UNCHANGED <<phase, addressing_port, connected, enabled, prc, kind, speed,
                 cmdRing, hwSlots, dev, ctrlXfer, intrXfer>>

\* The controller executes the oldest command.  Enable Slot picks a free
\* slot, or fails with slot 0 when all MaxSlots are in use; Address Device
\* copies the Input Context's port into the Device Context; a command for a
\* slot that is not enabled fails.
CompletionEvent(c, s, ok) == [type |-> "CCE", cmd |-> c, slot |-> s, ok |-> ok]

ExecuteCommand ==
  /\ cmdRing /= << >>
  /\ HasRoom
  /\ LET c == Head(cmdRing)
         free == (1 .. MaxSlots) \ hwSlots
     IN
     /\ cmdRing' = Tail(cmdRing)
     /\ CASE c.type = "EnableSlot" /\ free /= {} ->
               \E s \in free :
                 /\ hwSlots' = hwSlots \cup {s}
                 /\ evRing' = Append(evRing, CompletionEvent(c.type, s, TRUE))
                 /\ UNCHANGED dev
          [] c.type = "AddressDevice" /\ c.slot \in hwSlots ->
               /\ dev' = [dev EXCEPT ![c.slot].ctxPort = dev[c.slot].inputPort]
               /\ evRing' = Append(evRing, CompletionEvent(c.type, c.slot, TRUE))
               /\ UNCHANGED hwSlots
          [] c.type = "ConfigureEndpoint" /\ c.slot \in hwSlots ->
               /\ evRing' = Append(evRing, CompletionEvent(c.type, c.slot, TRUE))
               /\ UNCHANGED <<hwSlots, dev>>
          [] OTHER ->
               /\ evRing' = Append(evRing, CompletionEvent(c.type, c.slot, FALSE))
               /\ UNCHANGED <<hwSlots, dev>>
  /\ UNCHANGED <<phase, addressing_port, connected, enabled, prc, kind, speed,
                 pendingPSC, ctrlXfer, intrXfer>>

\* The device answers the oldest control transfer on its EP0 ring; the
\* Transfer Event points at the TRB with interrupt_on_completion.
CompleteControlTransfer(s) ==
  /\ ctrlXfer[s] /= << >>
  /\ s \in hwSlots
  /\ HasRoom
  /\ \E ok \in IF TransferErrors THEN BOOLEAN ELSE {TRUE} :
       evRing' = Append(evRing, [type |-> "TE", slot |-> s, normal |-> FALSE,
                                 trb |-> Head(ctrlXfer[s]).trb,
                                 req |-> Head(ctrlXfer[s]).req, ok |-> ok])
  /\ ctrlXfer' = [ctrlXfer EXCEPT ![s] = Tail(@)]
  /\ UNCHANGED <<phase, addressing_port, connected, enabled, prc, kind, speed,
                 pendingPSC, cmdRing, hwSlots, dev, intrXfer>>

\* A HID device answers an interrupt-in transfer when it has a report; it
\* may never have one, so this step is not fair.
CompleteInterruptTransfer(s) ==
  /\ intrXfer[s] > 0
  /\ HasRoom
  /\ \E ok \in IF TransferErrors THEN BOOLEAN ELSE {TRUE} :
       evRing' = Append(evRing, [type |-> "TE", slot |-> s, normal |-> TRUE,
                                 trb |-> 0, req |-> "none", ok |-> ok])
  /\ intrXfer' = [intrXfer EXCEPT ![s] = @ - 1]
  /\ UNCHANGED <<phase, addressing_port, connected, enabled, prc, kind, speed,
                 pendingPSC, cmdRing, hwSlots, dev, ctrlXfer>>

Controller ==
  \/ \E p \in Ports : Connect(p) \/ PostPortStatusChange(p)
  \/ ExecuteCommand
  \/ \E s \in SlotIds : CompleteControlTransfer(s) \/ CompleteInterruptTransfer(s)

Next == ProcessEvent \/ Controller

\* ProcessEvents runs whenever the xHC interrupt has posted its message and
\* drains the ring; the controller executes every command and every control
\* transfer it has been given and posts every latched change.  Plugging a
\* device and a report arriving are up to the user.
Fairness ==
  /\ WF_vars(ProcessEvent)
  /\ WF_vars(ExecuteCommand)
  /\ \A p \in Ports : WF_vars(PostPortStatusChange(p))
  /\ \A s \in SlotIds : WF_vars(CompleteControlTransfer(s))

Spec == Init /\ [][Next]_vars /\ Fairness

-----------------------------------------------------------------------------
(***************************************************************************)
(* Properties                                                              *)
(***************************************************************************)

TypeOK ==
  /\ phase \in [Ports -> Phases]
  /\ addressing_port \in {0} \cup Ports
  /\ connected \in [Ports -> BOOLEAN] /\ enabled \in [Ports -> BOOLEAN]
  /\ prc \in [Ports -> BOOLEAN]
  /\ kind \in [Ports -> Kinds \cup {"none"}] /\ speed \in [Ports -> Speeds]
  /\ pendingPSC \subseteq Ports
  /\ cmdRing \in Seq(Commands) /\ evRing \in Seq(Events)
  /\ hwSlots \subseteq 1 .. MaxSlots
  /\ dev \in [SlotIds -> DeviceRecs \cup {NoDevice}]
  /\ ctrlXfer \in [SlotIds -> Seq(ControlTDs)]
  /\ intrXfer \in [SlotIds -> Nat]

\* The addressing token of ResetPort / OnCommandCompletionEvent: a port is
\* in ResettingPort, EnablingSlot or AddressingDevice exactly when it holds
\* addressing_port, so at most one port is being addressed at a time.  The
\* Enable Slot completion does not say which port it is for; this is what
\* lets the driver attribute it to the token's port.
AddressingToken ==
  \A p \in Ports : (phase[p] \in AddrPhases) <=> (addressing_port = p)

\* Slot ownership across AddressDevice, the DCBAA and the Device Context:
\* every port past EnablingSlot has exactly one device, that device's Input
\* Context names it, and no device belongs to a port that has not got that
\* far.  Two devices for one port, or a device left for a port that never
\* got one, would mean an Enable Slot completion credited to the wrong port.
DevicePerPort ==
  \A p \in Ports :
    LET owned == {s \in SlotIds : dev[s] /= NoDevice /\ dev[s].inputPort = p}
    IN  IF phase[p] \in {"AddressingDevice", "InitializingDevice",
                         "ConfiguringEndpoints", "Configured"}
        THEN Cardinality(owned) = 1
        ELSE owned = {}

\* The TRBs of a slot's control transfers that have not been answered yet,
\* whether still on the ring or as a Transfer Event waiting in the event ring.
InFlightControl(s) ==
  {[trb |-> td.trb, req |-> td.req] : td \in {ctrlXfer[s][i] : i \in 1 .. Len(ctrlXfer[s])}}
  \cup {[trb |-> ev.trb, req |-> ev.req] :
          ev \in {evRing[i] : i \in {j \in 1 .. Len(evRing) :
                    evRing[j].type = "TE" /\ evRing[j].slot = s /\ ~evRing[j].normal}}}

\* _setup_stage_map correlation (device.cpp 160, 199, 242-256): the map holds
\* exactly one entry per control transfer still in flight, keyed by the TRB
\* its Transfer Event will point at, and that entry resolves to the request
\* the transfer was issued with.  An entry is erased when its completion is
\* handled, so none leaks and none resolves twice.
SetupStageCorrelation ==
  \A s \in SlotIds : dev[s] /= NoDevice => dev[s].setupMap = InFlightControl(s)

\* Interrupt-in transfers of a slot that are queued or completed but not yet
\* handled.
InFlightInterrupt(s) ==
  intrXfer[s] + Cardinality({i \in 1 .. Len(evRing) :
                  evRing[i].type = "TE" /\ evRing[i].slot = s /\ evRing[i].normal})

\* HID polling (hid.cpp 37-55): once SET_PROTOCOL has completed, a HID
\* driver always has exactly one interrupt-in transfer outstanding (each
\* completion resubmits one), and none before that.
HidPolling ==
  \A s \in SlotIds :
    dev[s] /= NoDevice =>
      InFlightInterrupt(s) = IF dev[s].hidPhase = 2 THEN 1 ELSE 0

\* The token is never held for ever: a port that starts being addressed
\* eventually hands addressing_port back.
TokenReleased ==
  \A p \in Ports : (addressing_port = p) ~> (addressing_port /= p)

\* A HID device whose address is set ends up configured and polled: once its
\* port reaches InitializingDevice, it eventually is Configured with the
\* class driver's interrupt-in transfer running.
HidDeviceStartsPolling ==
  \A p \in Ports :
    (phase[p] = "InitializingDevice" /\ kind[p] \in HidKinds)
      ~> (phase[p] = "Configured" /\
          \E s \in SlotIds : dev[s] /= NoDevice /\ dev[s].inputPort = p /\
                              dev[s].hidPhase = 2)

\* Every HID device plugged in is eventually configured (the spec's
\* connect -> ... -> Configured sequence for every port).
ConnectedHidConfigured ==
  \A p \in Ports : (kind[p] \in HidKinds) ~> (phase[p] = "Configured")

\* Slot 0 of the DCBAA holds the scratchpad buffer array (xhci.cpp 397):
\* no device is ever allocated there.
Slot0Reserved == dev[0] = NoDevice

\* The default control endpoint's max packet size follows the port speed as
\* the spec says: 512 for SuperSpeed, 64 for HighSpeed, 8 otherwise.
Ep0PacketSizeBySpeed ==
  \A s \in SlotIds :
    dev[s] /= NoDevice =>
      dev[s].ep0mps = CASE speed[dev[s].inputPort] = 4 -> 512
                        [] speed[dev[s].inputPort] = 3 -> 64
                        [] OTHER -> 8
=============================================================================
