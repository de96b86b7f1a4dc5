\* Two ports, both of which may hold a keyboard: a device on the last port
\* that has to wait for addressing_port.
CONSTANTS
  MaxPorts = 2
  MaxSlots = 2
  Kinds <- MCKinds
  Speeds = {3}
  EvCap = 3
  TransferErrors = FALSE

SPECIFICATION Spec
CHECK_DEADLOCK FALSE
PROPERTY ConnectedHidConfigured
