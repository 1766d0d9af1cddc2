SPECIFICATION Spec
CONSTANTS
  Rail = {"VUSB", "VBAT", "VIN", "VCC"}
  Load = {"mcu", "modem"}
  LoadRail <- MCLoadRail
  Amps = {0, 5}
  Gated = {"D1", "Q1"}
  Ldos = {"U1"}
  From <- MCFrom
  To <- MCTo
  Iq = 2
  Ioff = 1
  Battery = {"BT1"}
  BatteryRail <- MCBatteryRail
  MaxTime = 2
INVARIANTS
  TypeOK
  Kirchhoff
PROPERTIES
  MetersLoads
CHECK_DEADLOCK FALSE
