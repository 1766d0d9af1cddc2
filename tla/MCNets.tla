------------------------------- MODULE MCNets -------------------------------
(***************************************************************************)
(* A board with the parts of the asset tracker's power path: USB through a *)
(* diode or battery through a P-MOS switch into a regulator, whose output  *)
(* pulls up a signal with a button and, behind a series resistor, an LED.  *)
(* Voltages are in tenths of a volt.                                       *)
(***************************************************************************)
EXTENDS Nets, SequencesExt

MCNet == {"GND", "VBAT", "VUSB", "VIN", "VCC", "EN", "SIG", "LEDA"}

MCPin ==
  [GND0 |-> [net |-> "GND", volts |-> 0],
   BT1  |-> [net |-> "VBAT", volts |-> 37],
   D1   |-> [a |-> "VUSB", out |-> "VIN", vf |-> 3],
   Q1   |-> [g |-> "VUSB", d |-> "VBAT", out |-> "VIN"],
   U1   |-> [vin |-> "VIN", en |-> "EN", out |-> "VCC", volts |-> 33],
   R1   |-> [a |-> "VCC", b |-> "SIG"],
   R2   |-> [a |-> "SIG", b |-> "LEDA"],
   R3   |-> [a |-> "VUSB", b |-> "GND"],
   LED1 |-> [a |-> "LEDA", k |-> "GND"],
   SW1  |-> [sig |-> "SIG", other |-> "GND"],
   USB  |-> [net |-> "VUSB"],
   CE   |-> [net |-> "EN"],
   PA0  |-> [net |-> "SIG"],
   PA1  |-> [net |-> "LEDA"]]

MCStartOrder == <<"GND0", "BT1", "D1", "Q1", "U1", "R1", "R2", "R3", "LED1", "SW1">>

MCListeners ==
  [n \in MCNet |-> SelectSeq(MCStartOrder, LAMBDA p : n \in Reads(p))]

MCGpioDrives ==
  [USB |-> {DriveHigh(50), DriveHigh(20), Released},
   CE  |-> {DriveLow, Released},
   PA0 |-> {DriveHigh(30), DriveLow, Released},
   PA1 |-> {DriveHigh(33), DriveLow, Released}]

(* A second resistor in parallel with the pull-up: a cycle. *)
MCRingPin == [MCPin EXCEPT !.R2 = [a |-> "VCC", b |-> "SIG"]]

ASSUME CycleAssumption == Forest <=> Pin = MCPin
=============================================================================
