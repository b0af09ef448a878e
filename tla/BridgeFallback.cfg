CONSTANTS
  d1 = d1
  d2 = d2
  Devices = {d1, d2}
  NoDevice = NoDevice
  StaleLimit = 1
  IdleLimit = 2
  StallLimit = 1
  MaxFaults = 0
SPECIFICATION Spec
PROPERTY FallbackServed
