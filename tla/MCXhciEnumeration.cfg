\* Two ports and two device slots: every device gets a slot.  Full-speed
\* and high-speed devices (PORTSC speed 1 and 3), no transfer errors.
CONSTANTS
  MaxPorts = 2
  MaxSlots = 2
  Kinds <- MCKinds
  Speeds = {1, 3}
  EvCap = 3
  TransferErrors = FALSE

SPECIFICATION Spec

\* When every device has been handled the driver idles in the main loop,
\* waiting for the next xHC interrupt: the system may stop.
CHECK_DEADLOCK FALSE

INVARIANT TypeOK AddressingToken DevicePerPort SetupStageCorrelation HidPolling
PROPERTY TokenReleased HidDeviceStartsPolling
