---------------------------- MODULE TrackerBoard ----------------------------
(***************************************************************************)
(* A board whose MCU talks to its parts: pins and SPI devices, an I2C bus, *)
(* pin interrupts and a timer, a receiver and a radio.  Firmware acts in   *)
(* slices; the kernel's events, among them what changed nets announce,     *)
(* come between them.  Uses names the part of the board that is exercised. *)
(***************************************************************************)
EXTENDS SpiBoard, I2cBoard, PinInterrupts, Wireless

CONSTANTS
  Uses,  (* the parts to look at *)
  Until  (* bound: [use -> when to stop the clock of the slices] *)

ASSUME BoardAssumption ==
  Until \in [Uses -> 0 .. Horizon] /\ DOMAIN SpiByte \cap {"twin", "nrf"} = {}

VARIABLES
  uses,    (* what this run exercises *)
  slicing  (* the emulator runs *)

pinIdle == UNCHANGED pinVars
spiIdle == UNCHANGED <<gpioVars, spiVars>>
i2cIdle == UNCHANGED i2cVars
wirelessIdle == UNCHANGED wirelessVars
vars == <<gpioVars, spiVars, i2cVars, pinVars, wirelessVars, uses, slicing>>

Init ==
  /\ GpioInit /\ SpiInit /\ I2cInit /\ PinInit /\ WirelessInit
  /\ uses \in Uses /\ slicing = FALSE
  /\ uses \in {"gnss", "ble"} \/ (supply /\ enable /\ gnss.mode = "cold")

(* Events that no announcement of this instant still goes before. *)
Begin == StartSlice /\ ~slicing /\ edges = {} /\ slicing' = TRUE
End == slicing /\ slicing' = FALSE /\ (EndSlice \/ (uses \in {"exti", "tim"} /\ Wfi))

Ports ==
  \E pins \in SUBSET Pin :
    \/ uses = "twin" /\ (TwinWrite(pins) \/ \E p \in Pin, h \in BOOLEAN : GpioWrite(p, h))
    \/ uses = "nrf" /\ NrfWrite(pins)
Spi ==
  \/ \E pins \in SUBSET Pin : SelectPins(pins)
  \/ \E b \in SpiByte[uses] : SpiWrite(b)
  \/ SpiRead
I2c ==
  \/ I2cStart
  \/ I2cStop
  \/ \E a \in Address, reading \in BOOLEAN : I2cAddress(a, reading)
  \/ \E b \in Pointer : I2cData(b)
  \/ I2cReadSr2
  \/ I2cReadDr
Exti ==
  \/ \E ls \in SUBSET Line : WriteImr(ls) \/ WriteSwier(ls) \/ WritePr(ls)
  \/ \E rising, falling \in SUBSET Line : WriteTriggers(rising, falling)
  \/ \E l \in Line, p \in Port : WriteExticr(l, p)
Tim ==
  \/ \E on \in BOOLEAN : WriteCr1(on) \/ WriteDier(on)
  \/ ClearUif
  \/ \E p \in Period : WritePeriod(p)

(* What the instructions of a slice do. *)
Firmware ==
  /\ slicing /\ UNCHANGED <<slicing, uses, wirelessVars>>
  /\ \/ Ports /\ UNCHANGED spiVars /\ i2cIdle /\ pinIdle
     \/ uses \in DOMAIN SpiByte /\ Spi /\ i2cIdle /\ pinIdle
     \/ uses = "i2c" /\ I2c /\ spiIdle /\ pinIdle
     \/ uses = "exti" /\ Exti /\ spiIdle /\ i2cIdle
     \/ uses = "tim" /\ Tim /\ spiIdle /\ i2cIdle
     \/ uses \in {"exti", "tim"} /\ (\E i \in irqs : Take(i)) /\ spiIdle /\ i2cIdle

(* The kernel's other events, and stimuli. *)
Events ==
  /\ ~slicing /\ UNCHANGED <<slicing, uses>>
  /\ \/ (\E d \in Device : Tell(d)) /\ i2cIdle /\ pinIdle /\ wirelessIdle
     \/ uses = "i2c" /\ Warm /\ spiIdle /\ pinIdle /\ wirelessIdle
     \/ uses = "exti" /\ ((\E p \in Wired : Flip(p)) \/ \E p \in told : Edge(p))
        /\ spiIdle /\ i2cIdle /\ wirelessIdle
     \/ (Alarm \/ (edges = {} /\ now < Until[uses] /\ Elapse))
        /\ spiIdle /\ i2cIdle /\ wirelessIdle
     \/ /\ \/ uses = "gnss" /\ ((\E good \in BOOLEAN : Tick(good)) \/ SetSupply \/ SetEnable)
           \/ uses = "ble" /\ (CentralConnect \/ SetSupply \/ (\E lost \in BOOLEAN : ConnEvent(lost))
                               \/ Tick(FALSE))
           \/ uses \in {"gnss", "ble"} /\ WirelessElapse
        /\ spiIdle /\ i2cIdle /\ pinIdle

Slices ==
  /\ Begin \/ End
  /\ uses \notin {"gnss", "ble"}
  /\ spiIdle /\ i2cIdle /\ wirelessIdle /\ UNCHANGED uses

Next == Firmware \/ Events \/ Slices
Spec == Init /\ [][Next]_vars
-----------------------------------------------------------------------------
TypeOK ==
  /\ dir \subseteq Pin /\ odr \subseteq Pin /\ drives \in [Pin -> {"z", "0", "1"}]
  /\ SpiTypeOK /\ I2cTypeOK /\ PinTypeOK /\ WirelessTypeOK
  /\ uses \in Uses /\ slicing \in BOOLEAN
=============================================================================
