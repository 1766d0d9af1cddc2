------------------------------ MODULE SpiBoard ------------------------------
(***************************************************************************)
(* An SPI bus (comm/spi.py) with a NOR flash and an accelerometer          *)
(* (components/sensors.py), driven by SpiStm32 (cpu/periph.py) and by GPIO *)
(* pins as chip selects.  A byte goes at once to the first attached device *)
(* whose select net is low; the edge of that net reaches spi_select as an  *)
(* event of the kernel, when the slice that made it is over.               *)
(***************************************************************************)
EXTENDS GpioPins, Integers, Sequences, SequencesExt, FiniteSetsExt

CONSTANTS
  CsFlash, CsAccel,  (* their select pins *)
  Attached,          (* devices in the order of attach() *)
  SpiByte,           (* [what the firmware is busy with -> bytes it sends] *)
  AddrLen,           (* bytes of a flash address: 3 in the code *)
  MaxBytes,          (* bound: bytes sent in a run *)
  MaxRx              (* bound: replies that firmware leaves unread *)

Byte == 0 .. 255
ASSUME SpiAssumption ==
  /\ CsFlash \in Pin /\ CsAccel \in Pin /\ \A u \in DOMAIN SpiByte : SpiByte[u] \subseteq Byte
  /\ Attached \in {<<"flash", "accel">>, <<"accel", "flash">>} /\ AddrLen \in Nat /\ MaxBytes \in Nat /\ MaxRx \in Nat

Device == {"flash", "accel"}
Cs(d) == IF d = "flash" THEN CsFlash ELSE CsAccel
Low(d) == drives[Cs(d)] = "0"
PageProgram == 2  Read == 3  Status == 5  Wren == 6  Jedec == 159
Nil == 256   (* _cmd or _addr is None *)

VARIABLES
  flash,   (* SpiFlash: [cmd, buf, wren, mem], mem with what was programmed *)
  accel,   (* AccelSpi: [addr, read, auto, regs] *)
  edges,   (* devices whose select net changed and which are not told yet *)
  rx,      (* SpiStm32.rx: replies that firmware has not read *)
  bytes,   (* bytes sent so far *)
  sent,    (* history: [device -> the bytes sent since its select fell, *)
           (* while it is low] *)
  clean,   (* history: devices to which none was sent before they were told *)
           (* of that, nor while another was selected as well *)
  want     (* history: [wren, mem] that the flash's transactions ask for, *)
           (* as long as all are clean (ok) *)

spiVars == <<flash, accel, edges, rx, bytes, sent, clean, want>>

Put(f, a, b) == [x \in DOMAIN f \cup {a} |-> IF x = a THEN b ELSE f[x]]
At(f, a, other) == IF a \in DOMAIN f THEN f[a] ELSE other
AddrOf(buf) == FoldLeft(LAMBDA a, b : 256 * a + b, 0, SubSeq(buf, 1, AddrLen))
-----------------------------------------------------------------------------
(* Seeded faults, used only by the mutation runs of PROJECT.json. *)
NoWrap(a, b) ==
  IF a.addr = Nil THEN [a EXCEPT !.read = b >= 128, !.auto = (b \div 64) % 2 = 1, !.addr = b % 64]
  ELSE [a EXCEPT !.addr = IF a.auto THEN @ + 1 ELSE @]
ForgetCommand(f, asserted) == IF asserted THEN [f EXCEPT !.cmd = Nil] ELSE f
-----------------------------------------------------------------------------
(* SpiFlash.spi_select and spi_transfer.  Nothing takes wren back.         *)
FlashTold(f, asserted) == IF asserted THEN [f EXCEPT !.cmd = Nil, !.buf = <<>>] ELSE f

FlashNext(f, b) ==
  LET buf == Append(f.buf, b)
  IN  IF f.cmd = Nil THEN [f EXCEPT !.cmd = b, !.wren = @ \/ b = Wren]
      ELSE [f EXCEPT !.buf = buf,
                     !.mem = IF f.cmd = PageProgram /\ Len(buf) > AddrLen /\ f.wren
                             THEN Put(@, AddrOf(buf) + Len(buf) - AddrLen - 1, b) ELSE @]

FlashReply(f, b) ==
  LET buf == Append(f.buf, b)
  IN  CASE f.cmd = Jedec /\ Len(buf) <= 3 -> <<200, 64, 21>>[Len(buf)]
        [] f.cmd = Status -> 0
        [] f.cmd = Read /\ Len(buf) > AddrLen ->
             At(f.mem, AddrOf(buf) + Len(buf) - AddrLen - 1, 255)
        [] OTHER -> 255

(* AccelSpi.spi_select and spi_transfer. *)
AccelTold(a, asserted) == IF asserted THEN [a EXCEPT !.addr = Nil] ELSE a

AccelNext(a, b) ==
  IF a.addr = Nil
  THEN [a EXCEPT !.read = b >= 128, !.auto = (b \div 64) % 2 = 1, !.addr = b % 64]
  ELSE [a EXCEPT !.addr = IF a.auto THEN (@ + 1) % 64 ELSE @,
                 !.regs = IF a.read THEN @ ELSE Put(@, a.addr, b)]

AccelReply(a) == IF a.addr # Nil /\ a.read THEN At(a.regs, a.addr, 0) ELSE 255

(* SpiBus.transfer: the first attached device whose select is low.         *)
Selected ==
  LET low == {i \in DOMAIN Attached : Low(Attached[i])}
  IN  IF low = {} THEN "none" ELSE Attached[Min(low)]

FlashStart == [cmd |-> Nil, buf |-> <<>>, wren |-> FALSE, mem |-> <<>>]
AccelStart ==
  [addr |-> Nil, read |-> FALSE, auto |-> FALSE,
   regs |-> [r \in {15} \cup 40 .. 45 |-> IF r = 15 THEN 51 ELSE IF r = 45 THEN 64 ELSE 0]]

SpiInit ==
  /\ flash = FlashStart /\ accel = AccelStart
  /\ edges = {} /\ rx = <<>> /\ bytes = 0
  /\ sent = [d \in Device |-> <<>>] /\ clean = {}
  /\ want = [wren |-> FALSE, mem |-> <<>>, ok |-> TRUE]

(* A write to the port: nets that changed will tell their devices.         *)
SelectPins(pins) ==
  /\ Stm32Write(pins)
  /\ LET fell == {d \in Device : drives'[Cs(d)] = "0" /\ ~Low(d)}
         low == {d \in Device : drives'[Cs(d)] = "0"}
     IN  /\ sent' = [d \in Device |-> IF d \in low \ fell THEN sent[d] ELSE <<>>]
         /\ clean' = (clean \cup fell) \cap low
  /\ edges' = edges \cup {d \in Device : drives'[Cs(d)] # drives[Cs(d)]}
  /\ UNCHANGED <<flash, accel, rx, bytes, want>>

Wanted(s) ==
  LET data == Tail(s)
  IN  [wren |-> want.wren \/ s = <<Wren>>,
       mem |-> IF s[1] = PageProgram /\ Len(data) > AddrLen /\ want.wren
               THEN Put(want.mem, AddrOf(data) + Len(data) - AddrLen - 1, Last(s)) ELSE want.mem,
       ok |-> want.ok /\ "flash" \in clean']

(* SpiStm32.write: DR. *)
SpiWrite(b) ==
  LET low == {d \in Device : Low(d)}
  IN  /\ bytes < MaxBytes /\ bytes' = bytes + 1 /\ Len(rx) < MaxRx
      /\ rx' = Append(rx, CASE Selected = "flash" -> FlashReply(flash, b)
                            [] Selected = "accel" -> AccelReply(accel)
                            [] OTHER -> 255)
      /\ flash' = IF Selected = "flash" THEN FlashNext(flash, b) ELSE flash
      /\ accel' = IF Selected = "accel" THEN AccelNext(accel, b) ELSE accel
      /\ sent' = [d \in Device |-> IF d \in low THEN Append(sent[d], b) ELSE sent[d]]
      /\ clean' = clean \ (IF Cardinality(low) > 1 THEN low ELSE low \cap edges)
      /\ want' = IF "flash" \in low THEN Wanted(sent'["flash"]) ELSE want
      /\ UNCHANGED <<edges, gpioVars>>

(* SpiStm32.read: DR. *)
SpiRead ==
  /\ rx # <<>> /\ rx' = Tail(rx)
  /\ UNCHANGED <<flash, accel, edges, bytes, sent, clean, want, gpioVars>>

(* Net._notify, for the listener that attach() put on the select net.      *)
Tell(d) ==
  /\ d \in edges /\ edges' = edges \ {d}
  /\ flash' = IF d = "flash" THEN FlashTold(flash, Low(d)) ELSE flash
  /\ accel' = IF d = "accel" THEN AccelTold(accel, Low(d)) ELSE accel
  /\ UNCHANGED <<rx, bytes, sent, clean, want, gpioVars>>

SpiTypeOK ==
  /\ flash.cmd \in Byte \cup {Nil} /\ flash.buf \in Seq(Byte) /\ flash.wren \in BOOLEAN
  /\ accel.addr \in 0 .. 63 \cup {Nil} /\ DOMAIN accel.regs \subseteq 0 .. 63
  /\ edges \subseteq Device /\ clean \subseteq Device /\ rx \in Seq(Byte)
-----------------------------------------------------------------------------
(* What a device makes of the bytes of one transaction.                    *)
Decodes(d) ==
  LET s == sent[d]
  IN  IF d = "flash"
      THEN /\ flash.cmd = (IF s = <<>> THEN Nil ELSE s[1])
           /\ flash.buf = (IF s = <<>> THEN <<>> ELSE Tail(s))
      ELSE /\ (accel.addr = Nil) <=> (s = <<>>)
           /\ s # <<>> => /\ accel.addr = (s[1] + (IF accel.auto THEN Len(s) - 1 ELSE 0)) % 64
                          /\ accel.read = (s[1] >= 128) /\ accel.auto = (s[1] % 128 >= 64)

(* A transaction whose select had reached the device before its first byte *)
(* is decoded as its bytes say and by nothing that was sent before it, to  *)
(* this device, to the other one or to none; and the flash holds exactly   *)
(* what such transactions have programmed into it since the first WREN.    *)
(* Bytes sent in the slice that lowered the select are excepted: they      *)
(* continue the old transaction, and the select wipes them afterwards.     *)
Decoded ==
  /\ \A d \in clean \ edges : Low(d) => Decodes(d)
  /\ want.ok => flash.wren = want.wren /\ flash.mem = want.mem
=============================================================================
