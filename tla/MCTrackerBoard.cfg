SPECIFICATION Spec
CONSTANTS
  Uses = {"twin", "nrf", "flash", "accel", "i2c", "exti", "tim", "gnss", "ble"}
  Pin = {p1, p2}
  CsFlash = p1
  CsAccel = p2
  Attached <- MCAttached
  SpiByte <- MCSpiByte
  AddrLen = 1
  MaxBytes = 4
  MaxRx = 1
  Sensor = {72, 73}
  Address = {72, 73, 80}
  Nowhere = none
  Pointer = {0, 1}
  MaxTemps = 2
  MaxTx = 2
  Line = {5}
  Port = {"A", "B", "C"}
  Wired <- MCWired
  Period = {1, 3}
  Slice = 2
  Horizon = 8
  Until <- MCUntil
  Ttff <- MCTtff
  Poll = 2
  Interval = 2
  Timeout = 3
  Mode = {"cold", "warm"}
INVARIANTS
  TypeOK
  PinsShowRegisters
  Decoded
  RegisterReads
  LinesHear
  UpdatesKeepComing
  FixIsEarned
  Supervised
CHECK_DEADLOCK FALSE
