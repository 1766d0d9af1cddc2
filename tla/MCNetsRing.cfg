SPECIFICATION FairSpec
CONSTANTS
  Net <- MCNet
  Sources = {"GND0", "BT1"}
  Diodes = {"D1"}
  Switches = {"Q1"}
  Regulators = {"U1"}
  Leds = {"LED1"}
  Resistors = {"R1", "R2", "R3"}
  Buttons = {"SW1"}
  Gpios = {"USB", "CE", "PA0", "PA1"}
  Pin <- MCRingPin
  GpioDrives <- MCGpioDrives
  StartOrder <- MCStartOrder
  Listeners <- MCListeners
  MaxStimuli = 3
INVARIANTS
  NoPhantomLevel
CHECK_DEADLOCK FALSE
