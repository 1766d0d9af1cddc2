---------------------------- MODULE MCPowerEngine ----------------------------
(***************************************************************************)
(* A USB diode and a battery switch feed VIN, from which an LDO makes VCC. *)
(***************************************************************************)
EXTENDS PowerEngine

MCLoadRail == [mcu |-> "VCC", modem |-> "VIN"]
MCFrom == [D1 |-> "VUSB", Q1 |-> "VBAT", U1 |-> "VIN"]
MCTo == [D1 |-> "VIN", Q1 |-> "VIN", U1 |-> "VCC"]

MCBatteryRail == [BT1 |-> "VBAT"]
=============================================================================
