------------------------------ MODULE I2cBoard ------------------------------
(***************************************************************************)
(* An I2C bus (comm/i2c.py) with temperature sensors                       *)
(* (components/sensors.py) and the STM32's master (cpu/periph.py) as       *)
(* firmware drives it: START, address, data, STOP, flags.                  *)
(***************************************************************************)
EXTENDS Integers, Sequences, SequencesExt

CONSTANTS
  Sensor,    (* addresses at which a sensor is attached *)
  Address,   (* addresses that firmware tries *)
  Nowhere,   (* addr is None *)
  Pointer,   (* bytes that firmware writes: register pointers *)
  MaxTemps,  (* bound: changes of the measured temperature *)
  MaxTx      (* bound: bytes of one write *)

ASSUME I2cAssumption ==
  Sensor \subseteq Address /\ Nowhere \notin Address /\ Pointer \subseteq 0 .. 255 /\ MaxTemps \in Nat /\ MaxTx \in Nat

VARIABLES
  i2c,      (* I2cStm32: [sr1 (a set of flags), addr, reading, tx, rx] *)
  pointer,  (* [sensor -> its _pointer] *)
  temp,     (* the measured temperature, as a count of its changes *)
  asked,    (* history: [sensor -> the register of its last whole write] *)
  reply     (* history: of the current read, what it is to get and got *)

i2cVars == <<i2c, pointer, temp, asked, reply>>
Flag == {"SB", "ADDR", "BTF", "RXNE", "TXE", "AF"}
NoReply == [due |-> <<>>, got |-> <<>>]

(* TempSensorI2C.i2c_read(4): two bytes of register 0, which are of one    *)
(* measurement, or four zeros.                                             *)
Answer(p, t) == IF p = 0 THEN <<<<"hi", t>>, <<"lo", t>>>> ELSE <<0, 0, 0, 0>>
-----------------------------------------------------------------------------
(* Seeded fault, used only by the mutation runs of PROJECT.json. *)
StartKeepsTx == [i2c EXCEPT !.sr1 = {"SB"}, !.rx = <<>>, !.addr = Nowhere]
-----------------------------------------------------------------------------
I2cInit ==
  /\ i2c = [sr1 |-> {}, addr |-> Nowhere, reading |-> FALSE, tx |-> <<>>, rx |-> <<>>]
  /\ pointer = [d \in Sensor |-> 0] /\ temp = 0
  /\ asked = pointer /\ reply = NoReply

(* CR1 with START: whatever was not committed by STOP is gone.             *)
AfterStart == [i2c EXCEPT !.sr1 = {"SB"}, !.tx = <<>>, !.rx = <<>>, !.addr = Nowhere]
I2cStart ==
  /\ i2c' = AfterStart
  /\ reply' = NoReply
  /\ UNCHANGED <<pointer, temp, asked>>

(* CR1 with STOP: I2CBus.write, and the sensor's pointer.                  *)
I2cStop ==
  LET d == i2c.addr
      commits == d # Nowhere /\ ~i2c.reading
  IN  /\ pointer' = IF commits /\ i2c.tx # <<>> THEN [pointer EXCEPT ![d] = i2c.tx[1]] ELSE pointer
      /\ i2c' = [i2c EXCEPT !.addr = Nowhere]
      /\ asked' = IF commits /\ reply.got # <<>> THEN [asked EXCEPT ![d] = reply.got[1]] ELSE asked
      /\ reply' = IF commits THEN NoReply ELSE reply
      /\ UNCHANGED temp

(* DR in the address phase.  A read fetches four bytes at once.            *)
I2cAddress(a, reading) ==
  LET answer == Answer(pointer[a], temp)
  IN  /\ "SB" \in i2c.sr1
      /\ IF a \notin Sensor
         THEN /\ i2c' = [i2c EXCEPT !.sr1 = (@ \ {"SB"}) \cup {"AF"}, !.addr = Nowhere,
                                    !.reading = reading]
              /\ UNCHANGED reply
         ELSE /\ i2c' = [i2c EXCEPT
                   !.sr1 = (@ \ {"SB"}) \cup {"ADDR", IF reading THEN "RXNE" ELSE "TXE"},
                   !.addr = a, !.reading = reading,
                   !.rx = IF reading THEN answer ELSE @]
              /\ reply' = IF reading THEN [NoReply EXCEPT !.due = Answer(asked[a], temp)] ELSE NoReply
      /\ UNCHANGED <<pointer, temp, asked>>

(* DR otherwise.  The history notes what this write says, for its STOP.    *)
I2cData(b) ==
  /\ "SB" \notin i2c.sr1 /\ Len(i2c.tx) < MaxTx
  /\ IF i2c.addr # Nowhere /\ ~i2c.reading
     THEN /\ i2c' = [i2c EXCEPT !.tx = Append(@, b), !.sr1 = @ \cup {"TXE", "BTF"}]
          /\ reply' = [reply EXCEPT !.got = Append(@, b)]
     ELSE UNCHANGED <<i2c, reply>>
  /\ UNCHANGED <<pointer, temp, asked>>

(* SR2. *)
I2cReadSr2 ==
  /\ i2c' = [i2c EXCEPT !.sr1 = @ \ {"ADDR"}]
  /\ UNCHANGED <<pointer, temp, asked, reply>>

(* DR; firmware waits for RXNE. *)
I2cReadDr ==
  /\ "RXNE" \in i2c.sr1
  /\ i2c' = [i2c EXCEPT !.rx = Tail(@), !.sr1 = IF Len(i2c.rx) = 1 THEN @ \ {"RXNE"} ELSE @]
  /\ reply' = [reply EXCEPT !.got = Append(@, i2c.rx[1])]
  /\ UNCHANGED <<pointer, temp, asked>>

(* The environment: set_temperature, set_ambient, a thermal node. *)
Warm ==
  /\ temp < MaxTemps /\ temp' = temp + 1
  /\ UNCHANGED <<i2c, pointer, asked, reply>>

I2cTypeOK ==
  /\ i2c.sr1 \subseteq Flag /\ i2c.addr \in Sensor \cup {Nowhere} /\ i2c.reading \in BOOLEAN
  /\ i2c.tx \in Seq(Pointer) /\ Len(i2c.rx) <= 4
  /\ pointer \in [Sensor -> Pointer \cup {0}] /\ asked \in [Sensor -> Pointer \cup {0}]

(* A read gets the register that the last whole write to that sensor has   *)
(* pointed at, not one that a START has cut off or that another sensor was *)
(* pointed at, and all its bytes from the measurement of its address       *)
(* phase, however late firmware takes them and whatever the temperature is *)
(* by then.                                                                *)
RegisterReads ==
  /\ pointer = asked
  /\ i2c.reading => IsPrefix(reply.got, reply.due)
=============================================================================
