---------------------------- MODULE SerialPorts ----------------------------
(***************************************************************************)
(* Serial lines (twin/comm/uart.py) with the receivers an MCU puts behind  *)
(* them: the STM32 USART and its FIFO (twin/cpu/periph.py), the nRF52      *)
(* UARTE, which writes to the RAM of its firmware (profiles/nrf52.py), and *)
(* the plain FIFO of other ports (twin/components/mcu.py).  Each MCU runs  *)
(* a driver with an interrupt handler.  Time is kept as ticks to go.       *)
(***************************************************************************)
EXTENDS Integers, SequencesExt

CONSTANTS
  Usart, Uarte, Polled,   (* the ports, by what is behind them *)
  Net, NoNet,
  TxNet, RxNet,           (* [Port -> net, or NoNet] *)
  ByteTime,               (* [Port -> ticks of ten bits at its baud rate] *)
  Byte, NoByte,
  Buffer, NoBuffer, MaxCnt, (* buffers in RAM, and the size of each *)
  Event,                  (* the UARTE events that the drivers look at *)
  MaxBytes,               (* bound: bytes that the ports ever send *)
  MaxSetups               (* bound: writes to configuration registers *)

Port == Usart \cup Uarte \cup Polled
Driven == Usart \cup Uarte

ASSUME SerialAssumption ==
  /\ Usart \cap Uarte = {} /\ Driven \cap Polled = {}
  /\ TxNet \in [Port -> Net \cup {NoNet}] /\ RxNet \in [Port -> Net \cup {NoNet}]
  /\ NoNet \notin Net /\ NoByte \notin Byte /\ NoBuffer \notin Buffer
  /\ ByteTime \in [Port -> Nat \ {0}]
  /\ MaxCnt \in Nat \ {0} /\ MaxBytes \in Nat /\ MaxSetups \in Nat
  /\ Event \subseteq {"RXDRDY", "ENDRX", "TXDRDY", "ENDTX"}

VARIABLES
  wire,      (* Uart: the deliveries that the kernel holds, as scheduled *)
  busy,      (* Uart._tx_busy_until, as ticks from now *)
  fifo,      (* rx_fifo; "told" marks bytes that pended the interrupt *)
  rxneie,    (* CR1.RXNEIE *)
  dma,       (* the UARTE's registers *)
  ram,       (* [Uarte -> [Buffer -> its bytes]] *)
  pending,   (* ports whose interrupt is pending in their MCU's NVIC *)
  phase,     (* where the handler is: idle, serving or about to return *)
  heard,     (* history: the last byte delivered from a port *)
  told,      (* history: events that raised the interrupt, not yet cleared *)
  run,       (* history: the UARTE's reception since STARTRX *)
  sent,      (* bound: bytes sent so far *)
  setups     (* bound: configuration writes so far *)

line == <<wire, busy, heard, sent>>
receivers == <<fifo, rxneie, dma, ram, told, run>>
firmware == <<pending, phase, setups>>
vars == <<line, receivers, firmware>>
-----------------------------------------------------------------------------
(* Seeded faults, used only by the mutation runs of PROJECT.json. *)
FromNow(p, i) == i * ByteTime[p]
Behind(n) == n - 1
KeepCount(d) == [d EXCEPT !.armed = TRUE]
FirstOnly(q) == rxneie[q] /\ fifo[q] = <<>>
-----------------------------------------------------------------------------
(* Uart.send: ten bits a byte, after what the port is still sending.  *)
Left(n) == IF n > 0 THEN n - 1 ELSE 0
DueAt(p, i) == busy[p] + i * ByteTime[p]

Send(p, data) ==
  IF TxNet[p] = NoNet THEN UNCHANGED line
  ELSE /\ sent + Len(data) <= MaxBytes
       /\ wire' = [wire EXCEPT ![p] =
            @ \o [i \in 1 .. Len(data) |-> [byte |-> data[i], due |-> DueAt(p, i)]]]
       /\ busy' = [busy EXCEPT ![p] = DueAt(p, Len(data))]
       /\ sent' = sent + Len(data)
       /\ UNCHANGED heard

(* The kernel's next delivery of a port: of those due, the first scheduled. *)
IsNext(p, i) ==
  /\ i \in DOMAIN wire[p] /\ wire[p][i].due = 0
  /\ \A j \in 1 .. i - 1 : wire[p][j].due > 0

Listening(p) == {q \in Port \ {p} : RxNet[q] = TxNet[p]}
-----------------------------------------------------------------------------
(* UarteNrf._event on a register file d: latch it; it is raised if enabled. *)
Latch(d, es) == [d EXCEPT !.events = @ \cup (es \cap Event)]
Raises(d, es) == d.inten \cap es

(* UarteNrf.on_rx: the events of one byte, and the registers afterwards. *)
Stores(d) == d.armed /\ d.count < d.max
CountAfter(d) == IF Stores(d) THEN d.count + 1 ELSE d.count
Ends(d) == d.armed /\ CountAfter(d) >= d.max
RxEvents(d) ==
  (IF Stores(d) THEN {"RXDRDY"} ELSE {}) \cup (IF Ends(d) THEN {"ENDRX"} ELSE {})
Finish(d) == [d EXCEPT !.armed = FALSE, !.amount = d.count]
Received(d) ==
  LET c == [d EXCEPT !.count = CountAfter(d)]
  IN  Latch(IF Ends(d) THEN Finish(c) ELSE c, RxEvents(d))

(* UsartStm32.on_rx pends the interrupt, if it is enabled, for every byte. *)
RxPends(q) == rxneie[q]
Pends(q) == IF q \in Usart THEN RxPends(q) ELSE Raises(dma[q], RxEvents(dma[q])) # {}

(* STARTRX. *)
Arm(d) == [d EXCEPT !.armed = TRUE, !.count = 0]
-----------------------------------------------------------------------------
Init ==
  /\ wire = [p \in Port |-> <<>>] /\ busy = [p \in Port |-> 0]
  /\ heard = [p \in Port |-> NoByte] /\ sent = 0 /\ setups = 0
  /\ fifo = [q \in Usart \cup Polled |-> <<>>] /\ rxneie = [q \in Usart |-> FALSE]
  /\ dma = [q \in Uarte |-> [ptr |-> NoBuffer, max |-> 0, armed |-> FALSE,
                             count |-> 0, amount |-> 0, events |-> {}, inten |-> {}]]
  /\ ram = [q \in Uarte |-> [b \in Buffer |-> [i \in 1 .. MaxCnt |-> NoByte]]]
  /\ run = [q \in Uarte |-> [buf |-> NoBuffer, max |-> 0, bytes |-> <<>>, same |-> FALSE]]
  /\ told = [q \in Uarte |-> {}]
  /\ pending = {} /\ phase = [q \in Driven |-> "idle"]

(* Uart._deliver: every other port that listens on the net gets the byte. *)
Deliver(p) == \E i \in DOMAIN wire[p] :
  LET b  == wire[p][i].byte
      qs == Listening(p)
  IN  /\ IsNext(p, i)
      /\ wire' = [wire EXCEPT ![p] = RemoveAt(@, i)]
      /\ heard' = [heard EXCEPT ![p] = b]
      /\ fifo' = [q \in Usart \cup Polled |->
           IF q \notin qs THEN fifo[q]
           ELSE Append(fifo[q], [byte |-> b, told |-> q \in Usart /\ rxneie[q]])]
      /\ ram' = [q \in Uarte |->
           IF q \in qs /\ Stores(dma[q])
           THEN [ram[q] EXCEPT ![dma[q].ptr][dma[q].count + 1] = b] ELSE ram[q]]
      /\ dma' = [q \in Uarte |-> IF q \in qs THEN Received(dma[q]) ELSE dma[q]]
      /\ told' = [q \in Uarte |-> IF q \in qs
           THEN told[q] \cup Raises(dma[q], RxEvents(dma[q])) ELSE told[q]]
      /\ run' = [q \in Uarte |-> IF q \in qs /\ dma[q].armed
           THEN [run[q] EXCEPT !.bytes = Append(@, b)] ELSE run[q]]
      /\ pending' = pending \cup {q \in qs \cap Driven : Pends(q)}
      /\ UNCHANGED <<busy, sent, rxneie, phase, setups>>

(* Nothing that is due waits for the clock to move on. *)
Elapse ==
  /\ \A p \in Port : \A i \in DOMAIN wire[p] : wire[p][i].due > 0
  /\ wire' = [p \in Port |-> [i \in DOMAIN wire[p] |-> [wire[p][i] EXCEPT !.due = @ - 1]]]
  /\ busy' = [p \in Port |-> Left(busy[p])]
  /\ UNCHANGED <<heard, sent, receivers, firmware>>
-----------------------------------------------------------------------------
(* Firmware: the data registers of USART and plain FIFO.  *)
WriteDr(p, b) == Send(p, <<b>>) /\ UNCHANGED <<receivers, firmware>>

ReadDr(q) ==
  /\ fifo[q] # <<>>
  /\ fifo' = [fifo EXCEPT ![q] = Tail(@)]
  /\ UNCHANGED <<line, rxneie, dma, ram, told, run, firmware>>

Setup == setups < MaxSetups /\ setups' = setups + 1

WriteCr1(q) ==
  /\ Setup
  /\ rxneie' = [rxneie EXCEPT ![q] = ~@]
  /\ UNCHANGED <<line, fifo, dma, ram, told, run, pending, phase>>

(* Firmware: the UARTE's registers.  Its tasks may latch events at once.  *)
Events(q, d, es) ==
  /\ dma' = [dma EXCEPT ![q] = Latch(d, es)]
  /\ told' = [told EXCEPT ![q] = @ \cup Raises(d, es)]
  /\ pending' = IF Raises(d, es) = {} THEN pending ELSE pending \cup {q}
  /\ UNCHANGED <<fifo, rxneie, ram, phase>>

StartTx(q) == \E data \in SeqOf(Byte, MaxCnt) :
  /\ Send(q, data)
  /\ Events(q, dma[q], {"TXDRDY", "ENDTX"})
  /\ UNCHANGED <<run, setups>>

StartRx(q) ==
  /\ dma[q].ptr # NoBuffer
  /\ Events(q, Arm(dma[q]), {})
  /\ run' = [run EXCEPT ![q] =
       [buf |-> dma[q].ptr, max |-> dma[q].max, bytes |-> <<>>, same |-> TRUE]]
  /\ UNCHANGED <<line, setups>>

StopRx(q) ==
  /\ dma[q].armed
  /\ Events(q, Finish(dma[q]), {"ENDRX"})
  /\ UNCHANGED <<run, line, setups>>

(* PTR and MAXCNT are read afresh for each byte, not latched by STARTRX.  *)
WriteRxd(q) == \E b \in Buffer, n \in 0 .. MaxCnt :
  /\ Setup
  /\ b = dma[q].ptr \/ n = dma[q].max
  /\ Events(q, [dma[q] EXCEPT !.ptr = b, !.max = n], {})
  /\ run' = [run EXCEPT ![q].same = @ /\ ~dma[q].armed]
  /\ UNCHANGED line

WriteInten(q) == \E e \in Event :
  /\ Setup
  /\ dma' = [dma EXCEPT ![q].inten = IF e \in @ THEN @ \ {e} ELSE @ \cup {e}]
  /\ told' = [told EXCEPT ![q] = @ \ {e}]
  /\ UNCHANGED <<line, fifo, rxneie, ram, run, pending, phase>>

ClearEvent(q) == \E e \in dma[q].events :
  /\ dma' = [dma EXCEPT ![q].events = @ \ {e}]
  /\ told' = [told EXCEPT ![q] = @ \ {e}]
  /\ UNCHANGED <<line, fifo, rxneie, ram, run, firmware>>
-----------------------------------------------------------------------------
(* The handler reads or clears all there is; between its last look at the  *)
(* status and its return, a slice may end and bytes arrive.                *)
NothingLeft(q) ==
  IF q \in Usart THEN fifo[q] = <<>> ELSE dma[q].events \cap dma[q].inten = {}

TakeIrq(q) ==
  /\ q \in pending /\ phase[q] = "idle"
  /\ pending' = pending \ {q}
  /\ phase' = [phase EXCEPT ![q] = "serving"]
  /\ UNCHANGED <<line, receivers, setups>>

LastLook(q) ==
  /\ phase[q] = "serving" /\ NothingLeft(q)
  /\ phase' = [phase EXCEPT ![q] = "leaving"]
  /\ UNCHANGED <<line, receivers, pending, setups>>

HandlerReturn(q) ==
  /\ phase[q] = "leaving"
  /\ phase' = [phase EXCEPT ![q] = "idle"]
  /\ UNCHANGED <<line, receivers, pending, setups>>

Next ==
  \/ \E p \in Port : Deliver(p)
  \/ Elapse
  \/ \E p \in Usart \cup Polled : ReadDr(p) \/ \E b \in Byte : WriteDr(p, b)
  \/ \E q \in Usart : WriteCr1(q)
  \/ \E q \in Uarte : StartTx(q) \/ StartRx(q) \/ StopRx(q) \/ WriteRxd(q)
  \/ \E q \in Uarte : WriteInten(q) \/ ClearEvent(q)
  \/ \E q \in Driven : TakeIrq(q) \/ LastLook(q) \/ HandlerReturn(q)

Spec == Init /\ [][Next]_vars
-----------------------------------------------------------------------------
BytesOf(s) == [i \in DOMAIN s |-> s[i].byte]

TypeOK ==
  /\ \A p \in Port : \A i \in DOMAIN wire[p] : wire[p][i] \in [byte : Byte, due : Nat]
  /\ busy \in [Port -> Nat] /\ sent \in Nat /\ setups \in Nat
  /\ heard \in [Port -> Byte \cup {NoByte}]
  /\ \A q \in Usart \cup Polled :
       \A i \in DOMAIN fifo[q] : fifo[q][i] \in [byte : Byte, told : BOOLEAN]
  /\ rxneie \in [Usart -> BOOLEAN]
  /\ dma \in [Uarte -> [ptr : Buffer \cup {NoBuffer}, max : 0 .. MaxCnt, armed : BOOLEAN,
                        count : 0 .. MaxCnt, amount : 0 .. MaxCnt,
                        events : SUBSET Event, inten : SUBSET Event]]
  /\ ram \in [Uarte -> [Buffer -> [1 .. MaxCnt -> Byte \cup {NoByte}]]]
  /\ told \in [Uarte -> SUBSET Event]
  /\ pending \subseteq Driven /\ phase \in [Driven -> {"idle", "serving", "leaving"}]

(* Each transmitter is a shift register, however its sends fall: bytes of  *)
(* overlapping sends neither overtake each other nor overlap in time, and  *)
(* none is lost or doubled (Uart.send, uart.py lines 35-43).               *)
Lines == INSTANCE ByteLine WITH
  line <- [p \in Port |-> BytesOf(wire[p])],
  shift <- [p \in Port |-> IF wire[p] = <<>> THEN 0 ELSE wire[p][1].due]
ImplementsByteLine == Lines!LineSpec

(* What an interrupt was raised for is not left behind: as long as it is   *)
(* there, the interrupt is pending or the handler still has to look again. *)
(* The USART raises it once for all bytes that come before the handler     *)
(* runs, so this rests on a pend for each byte, in every phase, and on a   *)
(* handler that goes on until nothing is left (periph.py lines 161-164,    *)
(* nrf52.py lines 151-155).                                                *)
Raised(q) ==
  IF q \in Usart THEN \E i \in DOMAIN fifo[q] : fifo[q][i].told ELSE told[q] # {}
NothingForgotten ==
  \A q \in Driven : Raised(q) => q \in pending \/ phase[q] = "serving"

(* A reception fills the buffer of its STARTRX with the bytes that came    *)
(* since, in order, up to MAXCNT; AMOUNT counts them once it has ended;    *)
(* and until the next STARTRX nothing else is written there.  Only firmware *)
(* that rewrites PTR or MAXCNT during the reception gets something else.   *)
DmaFaithful == \A q \in Uarte : run[q].same =>
  LET n == IF Len(run[q].bytes) < run[q].max THEN Len(run[q].bytes) ELSE run[q].max
  IN  /\ dma[q].count = n
      /\ \A i \in 1 .. n : ram[q][run[q].buf][i] = run[q].bytes[i]
      /\ IF dma[q].armed THEN Len(run[q].bytes) < run[q].max \/ run[q].bytes = <<>>
         ELSE dma[q].amount = n

(* ENDRX is latched by the step that ends a reception and by no other.  *)
EndRxEnds == [][\A q \in Uarte :
  ("ENDRX" \in dma'[q].events \ dma[q].events) => dma[q].armed /\ ~dma'[q].armed]_vars
=============================================================================
