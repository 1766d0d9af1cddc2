------------------------------ MODULE GpioPins ------------------------------
(***************************************************************************)
(* The three GPIO ports of the MCU models: the words of the twin profile   *)
(* (components/mcu.py), the STM32's port (cpu/periph.py) and the nRF52's   *)
(* (cpu/profiles/nrf52.py).  Each keeps a word of output latches and one   *)
(* of directions, here sets of pins, and tells only those nets whose bits  *)
(* a write has changed.                                                    *)
(***************************************************************************)
EXTENDS FiniteSets

CONSTANT Pin

VARIABLES
  dir,    (* the pins that are outputs: gpio_dir, MODER = 1, DIR *)
  odr,    (* the output latches that are 1: gpio_out, odr, out *)
  drives  (* [pin -> what the MCU contributes to its net], "z" if nothing *)

gpioVars == <<dir, odr, drives>>

(* Seeded fault, used only by the mutation runs of PROJECT.json. *)
OnlyOutputs(changed, d, o) ==
  [p \in Pin |-> IF p \notin changed \cap d THEN drives[p] ELSE IF p \in o THEN "1" ELSE "0"]

Changed(old, new) == (old \ new) \cup (new \ old)

(* _drive_bit, _apply and the loop of _update. *)
Applied(changed, d, o) ==
  [p \in Pin |-> IF p \notin changed THEN drives[p]
                 ELSE IF p \notin d THEN "z" ELSE IF p \in o THEN "1" ELSE "0"]

GpioInit == dir = {} /\ odr = {} /\ drives = [p \in Pin |-> "z"]

(* gpio_out and gpio_dir, ODR and MODER, _update. *)
WriteOut(o) ==
  odr' = o /\ dir' = dir /\ drives' = Applied(Changed(odr, o), dir, o)
WriteDir(d) ==
  dir' = d /\ odr' = odr /\ drives' = Applied(Changed(dir, d), d, odr)

(* _twin_write: GPIO_OUT, GPIO_DIR, GPIO_SET, GPIO_CLR. *)
TwinWrite(pins) ==
  \/ WriteOut(pins)
  \/ WriteDir(pins)
  \/ WriteOut(odr \cup pins)
  \/ WriteOut(odr \ pins)

(* gpio_write of behavioural firmware makes the pin an output and drives   *)
(* it, changed or not.                                                     *)
GpioWrite(p, high) ==
  /\ odr' = IF high THEN odr \cup {p} ELSE odr \ {p}
  /\ dir' = dir \cup {p}
  /\ drives' = Applied({p}, dir', odr')

(* MODER, ODR, BSRR.  A register is found by its word, so that a halfword  *)
(* store to the upper half of BSRR sets the pins it would reset.           *)
Stm32Write(pins) ==
  \/ WriteDir(pins)
  \/ WriteOut(pins)
  \/ \E reset \in SUBSET Pin : WriteOut((odr \cup pins) \ reset)

(* OUT, OUTSET, OUTCLR, DIR, DIRSET, DIRCLR; PIN_CNF does the last two to  *)
(* a pin of its own.                                                       *)
NrfWrite(pins) ==
  \/ WriteOut(pins)
  \/ WriteOut(odr \cup pins)
  \/ WriteOut(odr \ pins)
  \/ WriteDir(pins)
  \/ WriteDir(dir \cup pins)
  \/ WriteDir(dir \ pins)

(* Every net sees of the MCU what its registers say, through any sequence  *)
(* of whole-word, set, clear, mode and API writes: an output its latch, an *)
(* input, an alternate function or an analog pin nothing.  Only changed    *)
(* bits are applied, so one missed change would stay wrong for good.       *)
PinsShowRegisters ==
  \A p \in Pin : drives[p] = IF p \notin dir THEN "z" ELSE IF p \in odr THEN "1" ELSE "0"
=============================================================================
