------------------------- MODULE TrackerBoardProofs -------------------------
(***************************************************************************)
(* The parts of TrackerBoard share a kernel and nothing else, so that each *)
(* has an invariant of its own that only its own steps can disturb.        *)
(***************************************************************************)
EXTENDS TrackerBoard, FiniteSetTheorems, WellFoundedInduction, SequenceTheorems, TLAPS

(* A set of naturals has a least element. *)
LEMMA MinFacts ==
  ASSUME NEW S \in SUBSET Nat, S # {}
  PROVE  Min(S) \in S /\ \A y \in S : Min(S) <= y
<1>. DEFINE R == OpToRel(<, Nat)
<1>1. IsWellFoundedOn(R, Nat)
  BY NatLessThanWellFounded
<1>2. \A x, y \in Nat : y < x => <<y, x>> \in R
  BY DEF OpToRel
<1>. HIDE DEF R
<1>3. PICK x \in S : \A y \in S : ~(<<y, x>> \in R)
  BY <1>1, WFMin
<1>4. ASSUME NEW y \in S PROVE x <= y
  <2>1. x \in Nat /\ y \in Nat /\ ~(<<y, x>> \in R)
    BY <1>3
  <2>2. ~(y < x)
    BY <1>2, <2>1
  <2>. QED
    BY <2>1, <2>2
<1>. QED
  BY <1>4 DEF Min

-----------------------------------------------------------------------------
(* What each part can do, whatever the others do. *)
PortStep ==
  \E pins \in SUBSET Pin :
    \/ TwinWrite(pins) \/ NrfWrite(pins) \/ Stm32Write(pins)
    \/ \E p \in Pin, high_ \in BOOLEAN : GpioWrite(p, high_)
I2cStep == I2c \/ Warm
WirelessStep ==
  \/ \E b \in BOOLEAN : Tick(b) \/ ConnEvent(b)
  \/ SetSupply \/ SetEnable \/ CentralConnect \/ WirelessElapse

GpioInv == dir \in SUBSET Pin /\ odr \in SUBSET Pin /\ drives \in [Pin -> {"z", "0", "1"}] /\ PinsShowRegisters

LEMMA Projected ==
  [Next]_vars => [PortStep]_gpioVars /\ [I2cStep]_i2cVars /\ [WirelessStep]_wirelessVars
<1>. SUFFICES ASSUME [Next]_vars
              PROVE  [PortStep]_gpioVars /\ [I2cStep]_i2cVars /\ [WirelessStep]_wirelessVars
  OBVIOUS
<1>1. CASE Firmware
  <2>1. ASSUME Ports PROVE PortStep
    BY <2>1 DEF Ports, PortStep
  <2>2. ASSUME Spi PROVE PortStep \/ UNCHANGED gpioVars
    BY <2>2 DEF Spi, SelectPins, SpiWrite, SpiRead, PortStep
  <2>. QED
    BY <1>1, <2>1, <2>2 DEF Firmware, spiIdle, i2cIdle, I2cStep
<1>2. CASE Events
  <2>1. ASSUME NEW d \in Device, Tell(d) PROVE UNCHANGED gpioVars
    BY <2>1 DEF Tell
  <2>. QED
    BY <1>2, <2>1 DEF Events, spiIdle, i2cIdle, wirelessIdle, I2cStep, WirelessStep
<1>3. CASE Slices
  BY <1>3 DEF Slices, spiIdle, i2cIdle, wirelessIdle
<1>4. CASE UNCHANGED vars
  BY <1>4 DEF vars, gpioVars, i2cVars, wirelessVars, gnssVars, bleVars
<1>. QED
  BY <1>1, <1>2, <1>3, <1>4 DEF Next
-----------------------------------------------------------------------------
LEMMA GpioStarts == Init => GpioInv
BY DEF Init, GpioInit, GpioInv, PinsShowRegisters

(* A write that applies what it has changed keeps the pins in step. *)
LEMMA AppliedShows ==
  ASSUME GpioInv, NEW o \in SUBSET Pin, NEW d \in SUBSET Pin, NEW c,
         Changed(odr, o) \cup Changed(dir, d) \subseteq c,
         odr' = o, dir' = d, drives' = Applied(c, d, o)
  PROVE  GpioInv'
BY DEF GpioInv, PinsShowRegisters, Applied, Changed

LEMMA GpioSteps == GpioInv /\ [PortStep]_gpioVars => GpioInv'
<1>. SUFFICES ASSUME GpioInv, [PortStep]_gpioVars PROVE GpioInv'
  OBVIOUS
<1>. USE DEF GpioInv
<1>1. ASSUME NEW o \in SUBSET Pin, WriteOut(o) PROVE GpioInv'
  BY <1>1, AppliedShows DEF WriteOut, Changed
<1>2. ASSUME NEW d \in SUBSET Pin, WriteDir(d) PROVE GpioInv'
  BY <1>2, AppliedShows DEF WriteDir, Changed
<1>3. ASSUME NEW p \in Pin, NEW high_ \in BOOLEAN, GpioWrite(p, high_) PROVE GpioInv'
  <2>. DEFINE o == IF high_ THEN odr \cup {p} ELSE odr \ {p}
  <2>1. o \in SUBSET Pin /\ dir \cup {p} \in SUBSET Pin
    OBVIOUS
  <2>2. Changed(odr, o) \cup Changed(dir, dir \cup {p}) \subseteq {p}
    BY DEF Changed
  <2>3. odr' = o /\ dir' = dir \cup {p} /\ drives' = Applied({p}, dir \cup {p}, o)
    BY <1>3 DEF GpioWrite
  <2>. QED
    BY <2>1, <2>2, <2>3, AppliedShows
<1>4. ASSUME NEW pins \in SUBSET Pin, TwinWrite(pins) \/ NrfWrite(pins) \/ Stm32Write(pins)
      PROVE  GpioInv'
  <2>1. (\E o \in SUBSET Pin : WriteOut(o)) \/ (\E d \in SUBSET Pin : WriteDir(d))
    BY <1>4 DEF TwinWrite, NrfWrite, Stm32Write
  <2>. QED
    BY <2>1, <1>1, <1>2
<1>5. CASE UNCHANGED gpioVars
  BY <1>5 DEF gpioVars, PinsShowRegisters
<1>. QED
  BY <1>3, <1>4, <1>5 DEF PortStep

(* Every net sees what the registers of its pin say, for any pins and any  *)
(* sequence of writes to any of the three ports.                           *)
THEOREM PinsFollowRegisters == Spec => []PinsShowRegisters
<1>1. GpioInv => PinsShowRegisters
  BY DEF GpioInv
<1>2. GpioInv /\ [Next]_vars => GpioInv'
  BY Projected, GpioSteps
<1>. QED
  BY <1>1, <1>2, GpioStarts, PTL DEF Spec
-----------------------------------------------------------------------------
(* What a sensor answers with. *)
Word == {0} \cup ({"hi", "lo"} \X Nat)
Data == Word \cup Pointer

(* A START has been sent and nothing since; a write has noted what firmware *)
(* sent; a read has yet to hand over what it has not.                       *)
I2cInv ==
  /\ i2c \in [sr1 : SUBSET Flag, addr : Sensor \cup {Nowhere}, reading : BOOLEAN,
              tx : Seq(Pointer), rx : Seq(Word)]
  /\ pointer \in [Sensor -> Pointer \cup {0}] /\ pointer = asked
  /\ temp \in Nat /\ reply \in [due : Seq(Word), got : Seq(Data)]
  /\ "SB" \in i2c.sr1 => /\ i2c.sr1 = {"SB"} /\ i2c.tx = <<>> /\ i2c.rx = <<>>
                         /\ i2c.addr = Nowhere /\ reply = NoReply
  /\ i2c.addr # Nowhere /\ ~i2c.reading => i2c.tx = reply.got
  /\ i2c.reading => reply.due = reply.got \o i2c.rx
  /\ "RXNE" \in i2c.sr1 => i2c.reading /\ i2c.rx # <<>>
  /\ Len(i2c.rx) <= 4

LEMMA I2cStarts == Init => I2cInv
BY I2cAssumption DEF Init, I2cInit, I2cInv, NoReply

LEMMA AnswerFacts ==
  ASSUME NEW p, NEW t \in Nat
  PROVE  Answer(p, t) \in Seq(Word) /\ Answer(p, t) # <<>> /\ Len(Answer(p, t)) <= 4
<1>1. <<"hi", t>> \in Word /\ <<"lo", t>> \in Word /\ 0 \in Word
  BY DEF Word
<1>2. CASE p = 0
  <2>. DEFINE h == <<"hi", t>>
              l == <<"lo", t>>
  <2>1. Answer(p, t) = <<h, l>> /\ h \in Word /\ l \in Word
    BY <1>1, <1>2 DEF Answer
  <2>. HIDE DEF h, l
  <2>. QED
    BY <2>1
<1>3. CASE p # 0
  BY <1>1, <1>3 DEF Answer
<1>. QED
  BY <1>2, <1>3

LEMMA NoReplyFacts ==
  /\ NoReply \in [due : Seq(Word), got : Seq(Data)] /\ NoReply.due = <<>> /\ NoReply.got = <<>>
  /\ NoReply.due = NoReply.got \o <<>>
BY DEF NoReply

LEMMA I2cSteps == I2cInv /\ [I2cStep]_i2cVars => I2cInv'
<1>. SUFFICES ASSUME I2cInv, [I2cStep]_i2cVars PROVE I2cInv'
  OBVIOUS
<1>. USE DEF I2cInv
<1>1. CASE I2cStart
  <2>1. /\ i2c' \in [sr1 : SUBSET Flag, addr : Sensor \cup {Nowhere}, reading : BOOLEAN,
                     tx : Seq(Pointer), rx : Seq(Word)]
        /\ i2c'.sr1 = {"SB"} /\ i2c'.tx = <<>> /\ i2c'.rx = <<>> /\ i2c'.addr = Nowhere
        /\ reply' = NoReply /\ UNCHANGED <<pointer, temp, asked>>
    <3>1. <<>> \in Seq(Pointer) /\ <<>> \in Seq(Word) /\ {"SB"} \in SUBSET Flag
      BY DEF Flag
    <3>. QED
      BY <1>1, <3>1 DEF I2cStart, AfterStart
  <2>. QED
    BY <2>1, NoReplyFacts
<1>2. CASE I2cStop
  <2>. DEFINE d == i2c.addr
              commits == d # Nowhere /\ ~i2c.reading
  <2>1. i2c' = [i2c EXCEPT !.addr = Nowhere] /\ temp' = temp
        /\ reply' = IF commits THEN NoReply ELSE reply
    BY <1>2 DEF I2cStop
  <2>2. pointer' = asked' /\ pointer' \in [Sensor -> Pointer \cup {0}]
    <3>1. CASE commits
      <4>1. i2c.tx = reply.got /\ (i2c.tx # <<>> => i2c.tx[1] \in Pointer)
        BY <3>1
      <4>2. i2c.tx # <<>> => /\ pointer' = [pointer EXCEPT ![d] = i2c.tx[1]]
                             /\ asked' = [asked EXCEPT ![d] = i2c.tx[1]]
        BY <1>2, <3>1, <4>1 DEF I2cStop
      <4>3. i2c.tx = <<>> => pointer' = pointer /\ asked' = asked
        BY <1>2, <3>1, <4>1 DEF I2cStop
      <4>. QED
        BY <4>1, <4>2, <4>3
    <3>2. CASE ~commits
      BY <1>2, <3>2 DEF I2cStop
    <3>. QED
      BY <3>1, <3>2
  <2>3. /\ i2c' \in [sr1 : SUBSET Flag, addr : Sensor \cup {Nowhere}, reading : BOOLEAN,
                     tx : Seq(Pointer), rx : Seq(Word)]
        /\ i2c'.sr1 = i2c.sr1 /\ i2c'.tx = i2c.tx /\ i2c'.rx = i2c.rx /\ i2c'.addr = Nowhere
        /\ i2c'.reading = i2c.reading
    BY <2>1
  <2>4. commits => ~i2c.reading
    OBVIOUS
  <2>. HIDE DEF commits
  <2>. QED
    BY <2>1, <2>2, <2>3, <2>4, NoReplyFacts
<1>3. ASSUME NEW a \in Address, NEW reading \in BOOLEAN, I2cAddress(a, reading) PROVE I2cInv'
  <2>1. /\ i2c.sr1 = {"SB"} /\ i2c.tx = <<>> /\ i2c.rx = <<>> /\ reply = NoReply
        /\ UNCHANGED <<pointer, temp, asked>>
    BY <1>3 DEF I2cAddress
  <2>2. CASE a \notin Sensor
    <3>1. /\ i2c' \in [sr1 : SUBSET Flag, addr : Sensor \cup {Nowhere}, reading : BOOLEAN,
                       tx : Seq(Pointer), rx : Seq(Word)]
          /\ i2c'.sr1 = {"AF"} /\ i2c'.tx = <<>> /\ i2c'.rx = <<>> /\ i2c'.addr = Nowhere
          /\ reply' = NoReply
      <4>1. {"AF"} \in SUBSET Flag /\ (i2c.sr1 \ {"SB"}) \cup {"AF"} = {"AF"}
        BY <2>1 DEF Flag
      <4>2. i2c' = [i2c EXCEPT !.sr1 = {"AF"}, !.addr = Nowhere, !.reading = reading] /\ reply' = reply
        BY <1>3, <2>2, <4>1 DEF I2cAddress
      <4>. QED
        BY <2>1, <4>1, <4>2
    <3>. QED
      BY <2>1, <3>1, NoReplyFacts
  <2>3. CASE a \in Sensor
    <3>. DEFINE w == Answer(pointer[a], temp)
    <3>1. w \in Seq(Word) /\ w # <<>> /\ Len(w) <= 4
      BY AnswerFacts
    <3>2. reply' = IF reading THEN [NoReply EXCEPT !.due = w] ELSE NoReply
      BY <1>3, <2>3 DEF I2cAddress
    <3>3. i2c' = [i2c EXCEPT !.sr1 = (@ \ {"SB"}) \cup {"ADDR", IF reading THEN "RXNE" ELSE "TXE"},
                             !.addr = a, !.reading = reading, !.rx = IF reading THEN w ELSE @]
      BY <1>3, <2>3 DEF I2cAddress
    <3>. HIDE DEF w
    <3>4. i2c'.sr1 = {"ADDR", IF reading THEN "RXNE" ELSE "TXE"} /\ i2c'.addr = a
          /\ i2c'.reading = reading /\ i2c'.tx = <<>> /\ i2c'.rx = (IF reading THEN w ELSE <<>>)
          /\ i2c' \in [sr1 : SUBSET Flag, addr : Sensor \cup {Nowhere}, reading : BOOLEAN,
                       tx : Seq(Pointer), rx : Seq(Word)]
      BY <2>1, <2>3, <3>1, <3>3 DEF Flag
    <3>5. reply' \in [due : Seq(Word), got : Seq(Data)] /\ reply'.got = <<>>
          /\ (reading => reply'.due = w)
      BY <3>1, <3>2, NoReplyFacts
    <3>6. reading => reply'.due = reply'.got \o i2c'.rx
      BY <3>1, <3>4, <3>5
    <3>. QED
      BY <2>1, <3>1, <3>4, <3>5, <3>6
  <2>. QED
    BY <2>2, <2>3
<1>4. ASSUME NEW b \in Pointer, I2cData(b) PROVE I2cInv'
  <2>1. CASE i2c.addr # Nowhere /\ ~i2c.reading
    <3>1. /\ i2c' = [i2c EXCEPT !.tx = Append(@, b), !.sr1 = @ \cup {"TXE", "BTF"}]
          /\ reply' = [reply EXCEPT !.got = Append(@, b)]
          /\ "SB" \notin i2c.sr1 /\ UNCHANGED <<pointer, temp, asked>>
      BY <1>4, <2>1 DEF I2cData
    <3>2. Append(i2c.tx, b) \in Seq(Pointer) /\ Append(reply.got, b) \in Seq(Data)
      BY DEF Data
    <3>3. /\ i2c' \in [sr1 : SUBSET Flag, addr : Sensor \cup {Nowhere}, reading : BOOLEAN,
                       tx : Seq(Pointer), rx : Seq(Word)]
          /\ reply' \in [due : Seq(Word), got : Seq(Data)]
          /\ i2c'.sr1 = i2c.sr1 \cup {"TXE", "BTF"} /\ i2c'.tx = Append(i2c.tx, b)
          /\ reply'.got = Append(reply.got, b)
          /\ i2c'.rx = i2c.rx /\ i2c'.addr = i2c.addr /\ i2c'.reading = i2c.reading
      BY <3>1, <3>2 DEF Flag
    <3>. QED
      BY <2>1, <3>1, <3>3
  <2>2. CASE ~(i2c.addr # Nowhere /\ ~i2c.reading)
    BY <1>4, <2>2 DEF I2cData
  <2>. QED
    BY <2>1, <2>2
<1>5. CASE I2cReadSr2
  BY <1>5 DEF I2cReadSr2
<1>6. CASE I2cReadDr
  <2>1. /\ i2c.reading /\ i2c.rx # <<>> /\ "SB" \notin i2c.sr1
        /\ i2c' = [i2c EXCEPT !.rx = Tail(@), !.sr1 = IF Len(i2c.rx) = 1 THEN @ \ {"RXNE"} ELSE @]
        /\ reply' = [reply EXCEPT !.got = Append(@, i2c.rx[1])] /\ UNCHANGED <<pointer, temp, asked>>
    BY <1>6 DEF I2cReadDr, Flag
  <2>2. i2c.rx[1] \in Word /\ Tail(i2c.rx) \in Seq(Word) /\ Len(Tail(i2c.rx)) = Len(i2c.rx) - 1
    BY <2>1
  <2>3. reply.got \o i2c.rx = Append(reply.got, i2c.rx[1]) \o Tail(i2c.rx)
    BY <2>1, <2>2 DEF Data
  <2>4. Append(reply.got, i2c.rx[1]) \in Seq(Data)
    BY <2>2 DEF Data
  <2>5. i2c'.rx = Tail(i2c.rx) /\ i2c'.reading /\ i2c'.tx = i2c.tx /\ i2c'.addr = i2c.addr
        /\ i2c'.sr1 = (IF Len(i2c.rx) = 1 THEN i2c.sr1 \ {"RXNE"} ELSE i2c.sr1)
        /\ reply'.due = reply.due /\ reply'.got = Append(reply.got, i2c.rx[1])
    BY <2>1
  <2>6. "RXNE" \in i2c'.sr1 => i2c'.rx # <<>>
    <3>1. CASE Len(i2c.rx) = 1
      BY <2>5, <3>1
    <3>2. CASE Len(i2c.rx) # 1
      <4>1. i2c.rx \in Seq(Word) /\ Len(i2c.rx) \in Nat
        OBVIOUS
      <4>2. Len(i2c.rx) # 0
        BY <2>1, <4>1, EmptySeq
      <4>3. Len(i2c'.rx) = Len(i2c.rx) - 1
        BY <2>2, <2>5
      <4>4. Len(i2c'.rx) # 0
        BY <3>2, <4>1, <4>2, <4>3
      <4>. QED
        BY <4>4, EmptySeq
    <3>. QED
      BY <3>1, <3>2
  <2>7. i2c' \in [sr1 : SUBSET Flag, addr : Sensor \cup {Nowhere}, reading : BOOLEAN,
                  tx : Seq(Pointer), rx : Seq(Word)]
        /\ reply' \in [due : Seq(Word), got : Seq(Data)]
    BY <2>1, <2>2, <2>4
  <2>8. "SB" \notin i2c'.sr1 /\ Len(i2c'.rx) <= 4
    BY <2>1, <2>2, <2>5
  <2>. QED
    BY <2>1, <2>3, <2>5, <2>6, <2>7, <2>8
<1>7. CASE Warm
  BY <1>7 DEF Warm
<1>8. CASE UNCHANGED i2cVars
  BY <1>8 DEF i2cVars
<1>. QED
  BY <1>1, <1>2, <1>3, <1>4, <1>5, <1>6, <1>7, <1>8 DEF I2cStep, I2c

(* What was put together starts with its first part. *)
LEMMA ConcatPrefix ==
  ASSUME NEW S, NEW u \in Seq(S), NEW v \in Seq(S)
  PROVE  IsPrefix(u, u \o v)
<1>1. Len(u \o v) = Len(u) + Len(v) /\ Len(u) \in Nat /\ Len(v) \in Nat /\ u \o v \in Seq(S)
  OBVIOUS
<1>2. SubSeq(u, 1, Len(u)) = SubSeq(u \o v, 1, Len(u))
  BY <1>1
<1>. QED
  BY <1>1, <1>2 DEF IsPrefix

(* A read gets the register that its sensor's last whole write named, of   *)
(* one measurement, for any sensors, writes, restarts and temperatures.    *)
THEOREM ReadsGetTheirRegister == Spec => []RegisterReads
<1>1. I2cInv => RegisterReads
  <2>1. ASSUME I2cInv, i2c.reading PROVE IsPrefix(reply.got, reply.due)
    <3>1. reply.due = reply.got \o i2c.rx /\ reply.got \in Seq(Data) /\ i2c.rx \in Seq(Data)
      BY <2>1 DEF I2cInv, Data
    <3>. QED
      BY <3>1, ConcatPrefix
  <2>. QED
    BY <2>1 DEF I2cInv, RegisterReads
<1>2. I2cInv /\ [Next]_vars => I2cInv'
  BY Projected, I2cSteps
<1>. QED
  BY <1>1, <1>2, I2cStarts, PTL DEF Spec
-----------------------------------------------------------------------------
LEMMA MinOfTwo ==
  ASSUME NEW a \in Nat, NEW b \in Nat
  PROVE  Min({a, b}) = IF a <= b THEN a ELSE b
<1>1. {a, b} \in SUBSET Nat /\ {a, b} # {}
  OBVIOUS
<1>. QED
  BY <1>1, MinFacts

(* No start mode needs more polls than are counted. *)
LEMMA LockCapFacts == LockCap \in Nat /\ \A m \in DOMAIN Ttff : Ttff[m] <= LockCap
<1>. DEFINE T == {Ttff[m] : m \in DOMAIN Ttff}
<1>1. T = {Ttff["cold"], Ttff["warm"], Ttff["hot"]}
      /\ Ttff["cold"] \in Nat /\ Ttff["warm"] \in Nat /\ Ttff["hot"] \in Nat
  BY WirelessAssumption
<1>. HIDE DEF T
<1>2. \E x \in T : \A y \in T : x >= y
  BY <1>1
<1>3. Max(T) \in T /\ \A y \in T : Max(T) >= y
  BY <1>2 DEF Max
<1>4. LockCap = Max(T)
  BY DEF LockCap, T
<1>5. \A m \in DOMAIN Ttff : Ttff[m] \in T
  BY DEF T
<1>. QED
  BY <1>1, <1>3, <1>4, <1>5

LEMMA CappedFacts ==
  ASSUME NEW n \in Nat
  PROVE  Capped(n) \in 0 .. LockCap /\ \A m \in DOMAIN Ttff : Capped(n) >= Ttff[m] <=> n >= Ttff[m]
<1>1. Capped(n) = IF n <= LockCap THEN n ELSE LockCap
  BY MinOfTwo, LockCapFacts DEF Capped
<1>2. \A m \in DOMAIN Ttff : Ttff[m] \in Nat
  BY WirelessAssumption
<1>. QED
  BY <1>1, <1>2, LockCapFacts

(* The receiver's count is the history's; while it has no fix, so is its   *)
(* mode.                                                                   *)
GnssInv ==
  /\ gnss \in [state : {"off", "acquiring", "tracking"}, fix : BOOLEAN, lock : 0 .. LockCap,
               mode : Mode \cup {"hot"}, load : {"none", "acq", "track"}]
  /\ polls \in [good : 0 .. LockCap, mode : Mode \cup {"hot"}]
  /\ gnss.lock = polls.good
  /\ ~gnss.fix => gnss.mode = polls.mode
  /\ gnss.state = "off" => ~gnss.fix /\ gnss.lock = 0
  /\ FixIsEarned

LEMMA GnssStarts == Init => GnssInv
<1>. SUFFICES ASSUME Init PROVE GnssInv
  OBVIOUS
<1>1. PICK m \in Mode : gnss = GnssStart(m) /\ polls = [good |-> 0, mode |-> m]
  BY DEF Init, WirelessInit
<1>2. Ttff[m] \in Nat \ {0}
  BY WirelessAssumption
<1>. QED
  BY <1>1, <1>2, LockCapFacts DEF GnssStart, GnssInv, FixIsEarned

LEMMA GnssTick == GnssInv /\ (\E good \in BOOLEAN : Tick(good)) => GnssInv'
<1>. SUFFICES ASSUME GnssInv, NEW good \in BOOLEAN, Tick(good) PROVE GnssInv'
  OBVIOUS
<1>. USE DEF GnssInv, FixIsEarned
<1>1. /\ gnss.mode \in DOMAIN Ttff /\ polls.mode \in DOMAIN Ttff
      /\ \A m \in DOMAIN Ttff : Ttff[m] \in Nat \ {0}
      /\ "hot" \in Mode \cup {"hot"}
  BY WirelessAssumption
<1>2. CASE ~(supply /\ enable)
  <2>1. gnss' = (IF gnss.state # "off" THEN Off ELSE gnss) /\ polls' = [good |-> 0, mode |-> gnss'.mode]
    BY <1>2 DEF Tick
  <2>2. /\ gnss'.mode = gnss.mode /\ gnss'.lock = 0 /\ ~gnss'.fix /\ gnss'.state = "off"
        /\ gnss'.load = "none" /\ gnss' \in [state : {"off", "acquiring", "tracking"},
             fix : BOOLEAN, lock : 0 .. LockCap, mode : Mode \cup {"hot"}, load : {"none", "acq", "track"}]
    <3>1. CASE gnss.state = "off"
      BY <2>1, <3>1
    <3>2. CASE gnss.state # "off"
      <4>1. gnss' = [gnss EXCEPT !.state = "off", !.fix = FALSE, !.lock = 0, !.load = "none"]
        BY <2>1, <3>2 DEF Off
      <4>2. gnss' = [state |-> "off", fix |-> FALSE, lock |-> 0, mode |-> gnss.mode, load |-> "none"]
        BY <4>1
      <4>. QED
        BY <4>2, LockCapFacts
    <3>. QED
      BY <3>1, <3>2
  <2>. QED
    BY <1>1, <2>1, <2>2, LockCapFacts
<1>3. CASE supply /\ enable
  <2>. DEFINE lock == IF good THEN Capped(gnss.lock + 1) ELSE 0
              kept == gnss.fix /\ good
              fix == kept \/ lock >= Ttff[gnss.mode]
  <2>1. gnss' = [state |-> IF fix THEN "tracking" ELSE "acquiring", fix |-> fix, lock |-> lock,
                 mode |-> IF fix /\ ~kept THEN "hot" ELSE gnss.mode,
                 load |-> IF fix THEN "track" ELSE "acq"]
    BY <1>3 DEF Tick, On
  <2>2. polls' = IF good THEN [good |-> Capped(gnss.lock + 1), mode |-> polls.mode]
                 ELSE [good |-> 0, mode |-> gnss'.mode]
    BY <1>3 DEF Tick
  <2>3. lock \in 0 .. LockCap
    BY CappedFacts, LockCapFacts
  <2>4. fix \in BOOLEAN
    OBVIOUS
  <2>5. CASE good
    <3>1. fix <=> Capped(gnss.lock + 1) >= Ttff[polls.mode]
      <4>1. CASE gnss.fix
        <5>1. gnss.lock + 1 >= Ttff[polls.mode]
          BY <1>1, <4>1
        <5>. QED
          BY <1>1, <2>5, <4>1, <5>1, CappedFacts
      <4>2. CASE ~gnss.fix
        BY <2>5, <4>2
      <4>. QED
        BY <4>1, <4>2
    <3>2. lock = Capped(gnss.lock + 1)
      BY <2>5
    <3>3. ~fix => gnss'.mode = polls.mode
      BY <2>1, <2>5
    <3>. HIDE DEF fix, lock
    <3>. QED
      BY <1>1, <2>1, <2>2, <2>3, <2>4, <2>5, <3>1, <3>2, <3>3
  <2>6. CASE ~good
    <3>1. ~fix /\ lock = 0
      BY <1>1, <2>6
    <3>. QED
      <4>1. gnss' = [state |-> "acquiring", fix |-> FALSE, lock |-> 0, mode |-> gnss.mode,
                     load |-> "acq"]
        BY <2>1, <3>1
      <4>2. polls' = [good |-> 0, mode |-> gnss.mode]
        BY <2>2, <2>6, <4>1
      <4>. QED
        BY <1>1, <4>1, <4>2, LockCapFacts
  <2>. QED
    BY <2>5, <2>6
<1>. QED
  BY <1>2, <1>3

LEMMA GnssSteps == GnssInv /\ [WirelessStep]_wirelessVars => GnssInv'
<1>. SUFFICES ASSUME GnssInv, [WirelessStep]_wirelessVars PROVE GnssInv'
  OBVIOUS
<1>1. CASE \E good \in BOOLEAN : Tick(good)
  BY <1>1, GnssTick
<1>2. ASSUME UNCHANGED <<gnss, polls>> PROVE GnssInv'
  BY <1>2 DEF GnssInv, FixIsEarned
<1>3. CASE (\E lost \in BOOLEAN : ConnEvent(lost)) \/ SetSupply \/ SetEnable \/ CentralConnect \/ WirelessElapse
  BY <1>2, <1>3 DEF ConnEvent, SetSupply, SetEnable, CentralConnect, WirelessElapse, gnssVars
<1>4. CASE UNCHANGED wirelessVars
  BY <1>2, <1>4 DEF wirelessVars, gnssVars
<1>. QED
  BY <1>1, <1>3, <1>4 DEF WirelessStep

(* The receiver tracks exactly when it has earned it, for any times to     *)
(* first fix, supplies, enables and skies.                                 *)
THEOREM TrackingIsEarned == Spec => []FixIsEarned
<1>1. GnssInv => FixIsEarned
  BY DEF GnssInv
<1>2. GnssInv /\ [Next]_vars => GnssInv'
  BY Projected, GnssSteps
<1>. QED
  BY <1>1, <1>2, GnssStarts, PTL DEF Spec
-----------------------------------------------------------------------------
(* A connection has one event ahead, and has been silent since the last    *)
(* that was answered: for the intervals it counts as missed and for what   *)
(* has passed of the present one.                                          *)
BleInv ==
  /\ ble \in [state : {"advertising", "connected"}, connected : BOOLEAN, missed : Nat,
              load : {"adv", "conn"}]
  /\ link \in [starved : BOOLEAN, silent : Nat, shortest : Nat]
  /\ events \in Seq(0 .. Interval)
  /\ ble.connected <=> ble.state = "connected"
  /\ ~ble.connected \/ link.starved => events = <<>>
  /\ ble.connected /\ ~link.starved =>
       /\ Len(events) = 1 /\ ble.missed < Timeout
       /\ link.silent = ble.missed + Interval - events[1]
  /\ link.shortest >= Timeout

(* A history with one field replaced. *)
LEMMA StarvedFacts ==
  ASSUME NEW l \in [starved : BOOLEAN, silent : Nat, shortest : Nat],
         NEW m, m = [l EXCEPT !.starved = TRUE]
  PROVE  m = [starved |-> TRUE, silent |-> l.silent, shortest |-> l.shortest]
OBVIOUS
LEMMA SilentFacts ==
  ASSUME NEW l \in [starved : BOOLEAN, silent : Nat, shortest : Nat], NEW n \in Nat,
         NEW m, m = [l EXCEPT !.silent = n]
  PROVE  m = [starved |-> l.starved, silent |-> n, shortest |-> l.shortest]
OBVIOUS

LEMMA BleStarts == Init => BleInv
BY WirelessAssumption DEF Init, WirelessInit, BleStart, BleInv, SilentCap

(* One connection event in the queue, and none after it. *)
LEMMA OneEvent ==
  ASSUME NEW S, NEW e \in Seq(S), Len(e) = 1
  PROVE  Tail(e) = <<>> /\ e # <<>> /\ e[1] \in S
<1>1. e # <<>> /\ e[1] \in S
  OBVIOUS
<1>2. Tail(e) \in Seq(S) /\ Len(Tail(e)) = 0
  BY <1>1, HeadTailProperties
<1>. QED
  BY <1>1, <1>2, EmptySeq

LEMMA NextEventOnly ==
  ASSUME NEW S, NEW x \in S
  PROVE  /\ Append(<<>>, x) = <<x>> /\ <<x>> \in Seq(S)
         /\ Len(<<x>>) = 1 /\ <<x>>[1] = x /\ <<x>> # <<>>
OBVIOUS

LEMMA BleFacts ==
  /\ Timeout \in Nat \ {0} /\ Interval \in Nat \ {0} /\ SilentCap = Timeout + Interval
  /\ Interval \in 0 .. Interval /\ 0 \in 0 .. SilentCap
BY WirelessAssumption DEF SilentCap

LEMMA ConnEventSteps ==
  ASSUME BleInv, NEW lost \in BOOLEAN, ConnEvent(lost)
  PROVE  BleInv'
<1>. USE DEF BleInv
<1>1. /\ events # <<>> /\ events[1] = 0 /\ ble.connected /\ ~link.starved /\ Len(events) = 1
      /\ Tail(events) = <<>> /\ Append(Tail(events), Interval) = <<Interval>>
  <2>1. events # <<>> /\ events[1] = 0
    BY DEF ConnEvent
  <2>2. ble.connected /\ ~link.starved /\ Len(events) = 1
    BY <2>1
  <2>3. Tail(events) = <<>>
    BY <2>2, OneEvent
  <2>. QED
    BY <2>1, <2>2, <2>3, BleFacts, NextEventOnly
<1>2. link.silent = ble.missed + Interval
  BY <1>1, BleFacts
<1>3. CASE ~supply
  <2>1. events' = <<>> /\ ble' = ble /\ link' = [link EXCEPT !.starved = TRUE]
    BY <1>1, <1>3 DEF ConnEvent
  <2>2. link'.starved /\ link'.shortest = link.shortest /\ events' \in Seq(0 .. Interval)
        /\ link' \in [starved : BOOLEAN, silent : Nat, shortest : Nat]
    <3>1. link' = [starved |-> TRUE, silent |-> link.silent, shortest |-> link.shortest]
      BY <2>1, StarvedFacts
    <3>2. link'.starved /\ link'.shortest = link.shortest
      BY <3>1
    <3>3. link' \in [starved : BOOLEAN, silent : Nat, shortest : Nat]
      BY <3>1
    <3>4. events' \in Seq(0 .. Interval)
      BY <2>1
    <3>. QED
      BY <3>2, <3>3, <3>4
  <2>. QED
    BY <2>1, <2>2
<1>4. CASE supply /\ lost /\ Missed(lost) >= Timeout
  <2>1. Missed(lost) = link.silent
    BY <1>2, <1>4 DEF Missed
  <2>2. /\ ble' = [state |-> "advertising", connected |-> FALSE, missed |-> link.silent, load |-> "adv"]
        /\ events' = <<>> /\ link' = [link EXCEPT !.shortest = Min({link.shortest, link.silent})]
    BY <1>1, <1>4, <2>1 DEF ConnEvent, BleStart
  <2>3. Min({link.shortest, link.silent}) \in Nat /\ Min({link.shortest, link.silent}) >= Timeout
    <3>1. link.shortest \in Nat /\ link.silent \in Nat /\ link.silent >= Timeout
      BY <1>4, <2>1, BleFacts
    <3>2. Min({link.shortest, link.silent}) \in {link.shortest, link.silent}
      BY <3>1, MinOfTwo
    <3>. QED
      BY <3>1, <3>2
  <2>4. /\ link'.shortest = Min({link.shortest, link.silent})
        /\ link' \in [starved : BOOLEAN, silent : Nat, shortest : Nat]
    BY <2>2, <2>3
  <2>5. /\ ~ble'.connected /\ ble'.state = "advertising" /\ events' \in Seq(0 .. Interval)
        /\ ble' \in [state : {"advertising", "connected"}, connected : BOOLEAN, missed : Nat,
                     load : {"adv", "conn"}]
    BY <2>2
  <2>. QED
    BY <2>2, <2>3, <2>4, <2>5
<1>5. CASE supply /\ ~(lost /\ Missed(lost) >= Timeout)
  <2>1. /\ ble' = [ble EXCEPT !.missed = Missed(lost)] /\ events' = <<Interval>>
        /\ link' = [link EXCEPT !.silent = IF lost THEN @ ELSE 0]
    BY <1>1, <1>5 DEF ConnEvent
  <2>2. /\ Missed(lost) \in Nat /\ Missed(lost) < Timeout
        /\ (IF lost THEN link.silent ELSE 0) = Missed(lost)
    BY <1>2, <1>5, BleFacts DEF Missed
  <2>3. /\ ble'.missed = Missed(lost) /\ ble'.connected = ble.connected /\ ble'.state = ble.state
        /\ ble' \in [state : {"advertising", "connected"}, connected : BOOLEAN, missed : Nat,
                     load : {"adv", "conn"}]
    BY <2>1, <2>2
  <2>4. /\ link'.silent = Missed(lost) /\ link'.starved = link.starved /\ link'.shortest = link.shortest
        /\ link' \in [starved : BOOLEAN, silent : Nat, shortest : Nat]
    BY <2>1, <2>2, BleFacts
  <2>5. events' \in Seq(0 .. Interval) /\ Len(events') = 1 /\ events'[1] = Interval
    BY <2>1, BleFacts, NextEventOnly
  <2>. QED
    BY <1>1, <2>2, <2>3, <2>4, <2>5, BleFacts
<1>. QED
  BY <1>3, <1>4, <1>5

LEMMA BleSteps == BleInv /\ [WirelessStep]_wirelessVars => BleInv'
<1>. SUFFICES ASSUME BleInv, [WirelessStep]_wirelessVars PROVE BleInv'
  OBVIOUS
<1>1. CASE \E lost \in BOOLEAN : ConnEvent(lost)
  BY <1>1, ConnEventSteps
<1>. USE DEF BleInv
<1>2. CASE CentralConnect
  <2>1. CASE ble.state = "advertising" /\ supply
    <3>1. events = <<>> /\ ~ble.connected
      BY <2>1
    <3>2. /\ ble' = [state |-> "connected", connected |-> TRUE, missed |-> 0, load |-> "conn"]
          /\ events' = <<Interval>> /\ link' = [link EXCEPT !.starved = FALSE, !.silent = 0]
      BY <1>2, <2>1, <3>1, BleFacts, NextEventOnly DEF CentralConnect
    <3>3. events' \in Seq(0 .. Interval) /\ Len(events') = 1 /\ events'[1] = Interval
      BY <3>2, BleFacts, NextEventOnly
    <3>4. /\ link'.silent = 0 /\ ~link'.starved /\ link'.shortest = link.shortest
          /\ link' \in [starved : BOOLEAN, silent : Nat, shortest : Nat]
      BY <3>2, BleFacts
    <3>. QED
      BY <3>2, <3>3, <3>4, BleFacts
  <2>2. CASE ~(ble.state = "advertising" /\ supply)
    BY <1>2, <2>2 DEF CentralConnect, bleVars
  <2>. QED
    BY <2>1, <2>2
<1>3. CASE WirelessElapse
  <2>1. /\ \A i \in DOMAIN events : events[i] > 0
        /\ events' = [i \in DOMAIN events |-> events[i] - 1]
        /\ link' = [link EXCEPT !.silent = Min({@ + 1, SilentCap})] /\ ble' = ble
    BY <1>3 DEF WirelessElapse
  <2>3. Min({link.silent + 1, SilentCap}) = IF link.silent + 1 <= SilentCap THEN link.silent + 1 ELSE SilentCap
    <3>1. link.silent + 1 \in Nat /\ SilentCap \in Nat
      BY BleFacts
    <3>. QED
      BY <3>1, MinOfTwo
  <2>4. DOMAIN events = 1 .. Len(events) /\ Len(events) \in Nat
    OBVIOUS
  <2>5. \A i \in DOMAIN events : events[i] - 1 \in 0 .. Interval
    BY <2>1, <2>4, BleFacts
  <2>6. events' \in Seq(0 .. Interval) /\ Len(events') = Len(events)
    BY <2>1, <2>4, <2>5
  <2>7. events = <<>> => events' = <<>>
    BY <2>6, EmptySeq
  <2>8. Len(events) = 1 => events'[1] = events[1] - 1 /\ events[1] \in 1 .. Interval
    <3>1. ASSUME Len(events) = 1 PROVE 1 \in DOMAIN events /\ events[1] \in 0 .. Interval
      <4>1. events \in Seq(0 .. Interval)
        OBVIOUS
      <4>2. 1 \in DOMAIN events
        BY <2>4, <3>1
      <4>. QED
        BY <3>1, <4>1, <4>2, OneEvent
    <3>. QED
      BY <2>1, <3>1, BleFacts
  <2>9. /\ link'.starved = link.starved /\ link'.shortest = link.shortest
        /\ link'.silent = (IF link.silent + 1 <= SilentCap THEN link.silent + 1 ELSE SilentCap)
        /\ link' \in [starved : BOOLEAN, silent : Nat, shortest : Nat]
    <3>1. (IF link.silent + 1 <= SilentCap THEN link.silent + 1 ELSE SilentCap) \in Nat
      BY BleFacts
    <3>. QED
      BY <2>1, <2>3, <3>1, SilentFacts
  <2>10. CASE ble.connected /\ ~link.starved
    <3>1. Len(events') = 1 /\ events'[1] = events[1] - 1 /\ events[1] \in 1 .. Interval
      BY <2>6, <2>8, <2>10
    <3>2. link.silent + 1 <= SilentCap /\ link.silent = ble.missed + Interval - events[1]
      BY <2>10, <3>1, BleFacts
    <3>3. link'.silent = ble.missed + Interval - events'[1]
      BY <2>9, <3>1, <3>2, BleFacts
    <3>. QED
      BY <2>1, <2>6, <2>9, <2>10, <3>1, <3>3
  <2>11. CASE ~ble.connected \/ link.starved
    BY <2>1, <2>6, <2>7, <2>9, <2>11
  <2>. QED
    BY <2>10, <2>11
<1>4. CASE (\E good \in BOOLEAN : Tick(good)) \/ SetSupply \/ SetEnable
  BY <1>4 DEF Tick, SetSupply, SetEnable, bleVars
<1>5. CASE UNCHANGED wirelessVars
  BY <1>5 DEF wirelessVars, bleVars
<1>. QED
  BY <1>1, <1>2, <1>3, <1>4, <1>5 DEF WirelessStep

(* A connection ends by a whole timeout of silence and by nothing else,    *)
(* and one chain of events watches over it, for any interval and timeout   *)
(* and any reconnections and cuts of the supply.                           *)
THEOREM ConnectionsAreSupervised == Spec => []Supervised
<1>1. ASSUME BleInv PROVE Supervised
  <2>1. Interval \in Nat /\ Len(<<>>) = 0
    BY WirelessAssumption
  <2>2. CASE ble.connected /\ ~link.starved
    <3>1. events # <<>> /\ events[1] \in 0 .. Interval
      <4>1. events \in Seq(0 .. Interval) /\ Len(events) = 1
        BY <1>1, <2>2 DEF BleInv
      <4>. QED
        BY <4>1, OneEvent
    <3>2. link.silent < Timeout + Interval
      BY <1>1, <2>2, <3>1, BleFacts DEF BleInv
    <3>3. Len(events) = 1 /\ ble.connected /\ ble.state = "connected" /\ link.shortest >= Timeout
      BY <1>1, <2>2 DEF BleInv
    <3>. QED
      BY <3>1, <3>2, <3>3 DEF Supervised
  <2>3. CASE ~ble.connected \/ link.starved
    BY <1>1, <2>1, <2>3 DEF BleInv, Supervised
  <2>. QED
    BY <2>2, <2>3
<1>2. BleInv /\ [Next]_vars => BleInv'
  BY Projected, BleSteps
<1>. QED
  BY <1>1, <1>2, BleStarts, PTL DEF Spec
-----------------------------------------------------------------------------
(* What the pins and the timer see of a step. *)
PinEvent ==
  \/ \E p \in Wired : Flip(p)
  \/ \E p \in told : Edge(p)
  \/ Alarm \/ Elapse
PinFirmware == Exti \/ Tim \/ \E i \in irqs : Take(i)
PinStep ==
  \/ slicing /\ slicing' = slicing /\ PinFirmware
  \/ ~slicing /\ slicing' = slicing /\ PinEvent
  \/ ~slicing /\ slicing' = TRUE /\ StartSlice
  \/ slicing /\ slicing' = FALSE /\ (EndSlice \/ Wfi)

LEMMA PinProjected == [Next]_vars => [PinStep]_<<pinVars, slicing>>
<1>. SUFFICES ASSUME [Next]_vars PROVE [PinStep]_<<pinVars, slicing>>
  OBVIOUS
<1>1. CASE Firmware
  BY <1>1 DEF Firmware, pinIdle, PinStep, PinFirmware
<1>2. CASE Events
  BY <1>2 DEF Events, pinIdle, PinStep, PinEvent
<1>3. CASE Slices
  BY <1>3 DEF Slices, Begin, End, PinStep
<1>4. CASE UNCHANGED vars
  BY <1>4 DEF vars
<1>. QED
  BY <1>1, <1>2, <1>3, <1>4 DEF Next

(* A bound line hears a pin with a net, the selected one unless EXTICR was *)
(* written since, and knows its level unless an announcement is under way; *)
(* an unmasked line that is not bound selected a pin without a net.        *)
ExtiInv ==
  /\ told \subseteq Wired
  /\ exti \in [imr : SUBSET Line, rtsr : SUBSET Line, ftsr : SUBSET Line, pr : SUBSET Line,
               exticr : [Line -> Port]]
  /\ bound \in [Line -> Port \cup {Unbound}]
  /\ \A l \in Line :
       /\ bound[l] # Unbound => <<bound[l], l>> \in Wired
       /\ bound[l] # Unbound /\ l \notin rewired => bound[l] = exti.exticr[l]
       /\ bound[l] = Unbound /\ l \in exti.imr \ rewired => SelectedPin(l) \notin Wired
       /\ bound[l] # Unbound /\ <<bound[l], l>> \notin told
            => (l \in seen <=> <<bound[l], l>> \in high)

LEMMA ExtiStarts == Init => ExtiInv
<1>. SUFFICES ASSUME Init PROVE ExtiInv
  OBVIOUS
<1>1. (CHOOSE p \in Port : TRUE) \in Port
  BY PinAssumption
<1>. QED
  BY <1>1 DEF Init, PinInit, ExtiInv

LEMMA ExtiSteps == ExtiInv /\ [PinStep]_<<pinVars, slicing>> => ExtiInv'
<1>. SUFFICES ASSUME ExtiInv, [PinStep]_<<pinVars, slicing>> PROVE ExtiInv'
  OBVIOUS
<1>. USE DEF ExtiInv
<1>1. ASSUME NEW p \in Wired, Flip(p) PROVE ExtiInv'
  <2>1. /\ told' = told \cup {p} /\ UNCHANGED <<exti, bound, seen, rewired>>
        /\ high' = IF p \in high THEN high \ {p} ELSE high \cup {p}
    BY <1>1 DEF Flip
  <2>2. told' \subseteq Wired
    BY <2>1
  <2>3. \A q : q \notin told' => (q \in high' <=> q \in high) /\ q \notin told
    BY <2>1
  <2>. QED
    BY <2>1, <2>2, <2>3 DEF SelectedPin
<1>2. ASSUME NEW p \in told, Edge(p) PROVE ExtiInv'
  <2>. DEFINE ls == {l \in Line : l = p[2] /\ bound[l] = p[1]}
              fired == {l \in ls : Triggers(l, l \in seen, p \in high)}
  <2>1. /\ told' = told \ {p} /\ UNCHANGED <<high, bound, rewired>>
        /\ seen' = {l \in Line : IF l \in ls THEN p \in high ELSE l \in seen}
        /\ exti' = [exti EXCEPT !.pr = @ \cup fired]
    BY <1>2 DEF Edge, Saw
  <2>2. \A l \in Line : bound[l] # Unbound => (l \in ls <=> <<bound[l], l>> = p)
    BY PinAssumption
  <2>3. exti.pr \cup fired \in SUBSET Line
    OBVIOUS
  <2>. HIDE DEF ls, fired
  <2>4. /\ exti' \in [imr : SUBSET Line, rtsr : SUBSET Line, ftsr : SUBSET Line, pr : SUBSET Line,
                      exticr : [Line -> Port]]
        /\ exti'.imr = exti.imr /\ exti'.exticr = exti.exticr
    BY <2>1, <2>3
  <2>5. \A l \in Line : bound[l] # Unbound /\ <<bound[l], l>> \notin told'
          => (l \in seen' <=> <<bound[l], l>> \in high)
    <3>. SUFFICES ASSUME NEW l \in Line, bound[l] # Unbound, <<bound[l], l>> \notin told'
                  PROVE  l \in seen' <=> <<bound[l], l>> \in high
      OBVIOUS
    <3>1. CASE l \in ls
      BY <2>1, <2>2, <3>1
    <3>2. CASE l \notin ls
      BY <2>1, <2>2, <3>2
    <3>. QED
      BY <3>1, <3>2
  <2>. QED
    BY <2>1, <2>4, <2>5 DEF SelectedPin
<1>3. ASSUME NEW ls \in SUBSET Line, WriteImr(ls) PROVE ExtiInv'
  <2>. DEFINE free == {l \in ls : bound[l] = Unbound}
              news == {l \in free : SelectedPin(l) \in Wired}
  <2>1. /\ exti' = [exti EXCEPT !.imr = ls] /\ UNCHANGED <<high, told>>
        /\ rewired' = rewired \ free
        /\ bound' = [l \in Line |-> IF l \in news THEN exti.exticr[l] ELSE bound[l]]
        /\ seen' = (seen \ news) \cup {l \in news : <<exti.exticr[l], l>> \in high}
    BY <1>3 DEF WriteImr, SelectedPin
  <2>2. /\ exti' \in [imr : SUBSET Line, rtsr : SUBSET Line, ftsr : SUBSET Line, pr : SUBSET Line,
                      exticr : [Line -> Port]]
        /\ exti'.imr = ls /\ exti'.exticr = exti.exticr
    BY <2>1
  <2>3. \A l \in Line : exti.exticr[l] \in Port /\ exti.exticr[l] # Unbound
    BY PinAssumption
  <2>4. \A l \in Line : bound'[l] = IF l \in news THEN exti.exticr[l] ELSE bound[l]
    BY <2>1
  <2>5. bound' \in [Line -> Port \cup {Unbound}]
    BY <2>1, <2>3
  <2>6. ASSUME NEW l \in Line
        PROVE  /\ bound'[l] # Unbound => <<bound'[l], l>> \in Wired
               /\ bound'[l] # Unbound /\ l \notin rewired' => bound'[l] = exti.exticr[l]
               /\ bound'[l] = Unbound /\ l \in ls \ rewired' => <<exti.exticr[l], l>> \notin Wired
               /\ bound'[l] # Unbound /\ <<bound'[l], l>> \notin told
                    => (l \in seen' <=> <<bound'[l], l>> \in high)
    <3>1. CASE l \in news
      BY <2>1, <2>3, <2>4, <3>1 DEF SelectedPin
    <3>2. CASE l \notin news
      <4>1. bound'[l] = bound[l] /\ (l \in seen' <=> l \in seen)
        BY <2>1, <2>4, <3>2
      <4>2. bound[l] # Unbound => (l \in rewired' <=> l \in rewired)
        BY <2>1
      <4>3. bound[l] = Unbound /\ l \in ls => <<exti.exticr[l], l>> \notin Wired
        BY <3>2 DEF SelectedPin
      <4>. QED
        BY <2>1, <4>1, <4>2, <4>3
    <3>. QED
      BY <3>1, <3>2
  <2>. QED
    BY <2>1, <2>2, <2>5, <2>6 DEF SelectedPin
<1>4. ASSUME NEW l \in Line, NEW p \in Port, WriteExticr(l, p) PROVE ExtiInv'
  <2>1. /\ exti' = [exti EXCEPT !.exticr = [exti.exticr EXCEPT ![l] = p]]
        /\ UNCHANGED <<high, told, bound, seen>>
        /\ rewired' = IF bound[l] # Unbound \/ l \in exti.imr THEN rewired \cup {l} ELSE rewired
    BY <1>4 DEF WriteExticr
  <2>2. /\ exti' \in [imr : SUBSET Line, rtsr : SUBSET Line, ftsr : SUBSET Line, pr : SUBSET Line,
                      exticr : [Line -> Port]]
        /\ exti'.imr = exti.imr /\ exti'.exticr = [exti.exticr EXCEPT ![l] = p]
    BY <2>1
  <2>3. \A k \in Line : k \notin rewired' /\ (bound[k] # Unbound \/ k \in exti.imr)
                          => k # l /\ k \notin rewired /\ exti'.exticr[k] = exti.exticr[k]
    BY <2>1, <2>2
  <2>4. \A k \in Line : k \in exti'.imr <=> k \in exti.imr
    BY <2>2
  <2>. QED
    BY <2>1, <2>2, <2>3, <2>4 DEF SelectedPin
<1>5. ASSUME UNCHANGED <<high, told, bound, seen, rewired>>, exti'.imr = exti.imr,
             exti'.exticr = exti.exticr,
             exti' \in [imr : SUBSET Line, rtsr : SUBSET Line, ftsr : SUBSET Line,
                        pr : SUBSET Line, exticr : [Line -> Port]]
      PROVE  ExtiInv'
  BY <1>5 DEF SelectedPin
<1>6. ASSUME NEW rising \in SUBSET Line, NEW falling \in SUBSET Line, WriteTriggers(rising, falling)
      PROVE  ExtiInv'
  BY <1>5, <1>6 DEF WriteTriggers
<1>7. ASSUME NEW ls \in SUBSET Line, WriteSwier(ls) \/ WritePr(ls) PROVE ExtiInv'
  BY <1>5, <1>7 DEF WriteSwier, WritePr
<1>8. ASSUME UNCHANGED extiVars PROVE ExtiInv'
  BY <1>8 DEF extiVars, SelectedPin
<1>9. ASSUME PinFirmware PROVE ExtiInv'
  <2>1. CASE Exti
    BY <2>1, <1>3, <1>4, <1>6, <1>7 DEF Exti
  <2>2. ASSUME Tim PROVE UNCHANGED extiVars
    BY <2>2 DEF Tim, WriteCr1, WriteDier, ClearUif, WritePeriod
  <2>3. ASSUME NEW i \in irqs, Take(i) PROVE UNCHANGED extiVars
    BY <2>3 DEF Take
  <2>. QED
    BY <1>8, <1>9, <2>1, <2>2, <2>3 DEF PinFirmware
<1>10. ASSUME PinEvent PROVE ExtiInv'
  BY <1>1, <1>2, <1>8, <1>10 DEF PinEvent, Alarm, Elapse
<1>11. ASSUME StartSlice \/ EndSlice \/ Wfi PROVE ExtiInv'
  BY <1>8, <1>11 DEF StartSlice, EndSlice, Wfi
<1>12. CASE UNCHANGED <<pinVars, slicing>>
  BY <1>8, <1>12 DEF pinVars
<1>. QED
  BY <1>9, <1>10, <1>11, <1>12 DEF PinStep

(* An unmasked line hears the selected pin, or none if that has no net, up *)
(* to an EXTICR write that no IMR write has looked at or may look at, and  *)
(* no unmasking invents an edge or swallows one, for any lines, ports,     *)
(* wiring and order of configuration, edges and announcements.             *)
THEOREM LinesHearTheirPins == Spec => []LinesHear
<1>1. ExtiInv => LinesHear
  <2>. SUFFICES ASSUME ExtiInv, NEW l \in Line
                PROVE  /\ l \in exti.imr \ rewired =>
                            bound[l] = IF SelectedPin(l) \in Wired THEN exti.exticr[l] ELSE Unbound
                       /\ bound[l] # Unbound /\ <<bound[l], l>> \notin told
                            => (l \in seen <=> <<bound[l], l>> \in high)
    BY DEF LinesHear
  <2>. QED
    BY DEF ExtiInv, SelectedPin
<1>2. ExtiInv /\ [Next]_vars => ExtiInv'
  BY PinProjected, ExtiSteps
<1>. QED
  BY <1>1, <1>2, ExtiStarts, PTL DEF Spec
-----------------------------------------------------------------------------
LEMMA PeriodFacts ==
  /\ MaxPeriod \in Period /\ MaxPeriod \in Nat \ {0} /\ Period # {} /\ Period \subseteq Nat \ {0}
  /\ \A p \in Period : p <= MaxPeriod
  /\ Min(Period) \in Period /\ Slice \in Nat \ {0}
<1>1. \E x \in Period : \A y \in Period : x >= y
  BY PinAssumption
<1>2. MaxPeriod \in Period /\ \A p \in Period : MaxPeriod >= p
  BY <1>1 DEF MaxPeriod, Max
<1>3. Period \in SUBSET Nat /\ Period # {}
  BY PinAssumption
<1>. QED
  BY <1>2, <1>3, MinFacts, PinAssumption

LEMMA Times ==
  ASSUME NEW n \in Nat, NEW p \in Nat
  PROVE  /\ n * p \in Nat /\ (n + 1) * p = n * p + p /\ 0 * p = 0
         /\ \A q \in Nat : q <= p => n * q <= n * p
OBVIOUS

LEMMA Quotient ==
  ASSUME NEW a \in Nat, NEW p \in Nat \ {0}
  PROVE  a \div p \in Nat /\ (a \div p) * p <= a /\ a < (a \div p) * p + p
OBVIOUS

LEMMA Whole ==
  ASSUME NEW n \in Nat, NEW m \in Nat, NEW p \in Nat, n <= m
  PROVE  n * p <= m * p
OBVIOUS

LEMMA MaxOfTwo ==
  ASSUME NEW a \in Nat, NEW b \in Nat
  PROVE  Max({a, b}) = IF a >= b THEN a ELSE b
<1>1. \E x \in {a, b} : \A y \in {a, b} : x >= y
  OBVIOUS
<1>2. Max({a, b}) \in {a, b} /\ \A y \in {a, b} : Max({a, b}) >= y
  BY <1>1 DEF Max
<1>. QED
  BY <1>2

(* The timer is to interrupt, and what it has counted is of this period.   *)
Armed == tim.cen /\ tim.uie /\ ~last.longer

(* When the last update that it has counted was due. *)
Base == tim.t0 + tim.seen * tim.period

TimTypes ==
  /\ tim \in [cen : BOOLEAN, uie : BOOLEAN, uif : BOOLEAN, t0 : Nat, seen : Nat, period : Period]
  /\ last \in [at : Nat, longer : BOOLEAN]
  /\ mcu \in [asleep : BOOLEAN, due : Nat] /\ alarms \in SUBSET Nat
  /\ now \in Nat /\ tim.t0 <= now /\ last.at <= now

(* A look at the timer comes in time: in a slice it has just been; awake,  *)
(* at the next slice; asleep, at an alarm.                                 *)
Looked ==
  IF slicing THEN now - last.at < MaxPeriod
  ELSE IF ~mcu.asleep THEN mcu.due - last.at < MaxPeriod + Slice
  ELSE \E a \in alarms : now <= a /\ a - last.at < MaxPeriod + Slice

TimInv ==
  /\ TimTypes
  /\ tim.cen /\ ~last.longer => Base <= now
  /\ slicing \in BOOLEAN /\ (slicing => ~mcu.asleep /\ mcu.due = now)
  /\ ~mcu.asleep => now <= mcu.due
  /\ Armed => Base <= last.at /\ Looked

LEMMA TimStarts == Init => TimInv
<1>. SUFFICES ASSUME Init PROVE TimInv
  OBVIOUS
<1>1. /\ tim = [cen |-> FALSE, uie |-> FALSE, uif |-> FALSE, t0 |-> 0, seen |-> 0, period |-> Min(Period)]
      /\ last = [at |-> 0, longer |-> FALSE] /\ mcu = [asleep |-> FALSE, due |-> 0]
      /\ alarms = {} /\ now = 0 /\ slicing = FALSE
  BY DEF Init, PinInit
<1>2. TimTypes
  BY <1>1, PeriodFacts DEF TimTypes
<1>3. ~tim.cen /\ ~mcu.asleep /\ mcu.due = 0 /\ now = 0
  BY <1>1
<1>4. slicing \in BOOLEAN /\ ~slicing
  BY <1>1
<1>. QED
  BY <1>2, <1>3, <1>4 DEF TimInv, Armed

(* What the instructions of a slice do to the timer. *)
LEMMA TimFirmware ==
  ASSUME TimInv, slicing, slicing' = slicing, UNCHANGED <<mcu, alarms, now>>, Tim
  PROVE  TimInv'
<1>. USE DEF TimInv, TimTypes
<1>0. Base \in Nat /\ tim.seen * tim.period \in Nat
  <2>1. tim.period \in Nat
    BY PeriodFacts
  <2>. QED
    BY <2>1, Times DEF Base
<1>1. ASSUME NEW cen \in BOOLEAN, WriteCr1(cen) PROVE TimInv'
  <2>1. CASE cen /\ ~tim.cen
    <3>1. tim' = [tim EXCEPT !.cen = TRUE, !.t0 = now, !.seen = 0] /\ last' = [at |-> now, longer |-> FALSE]
      BY <1>1, <2>1 DEF WriteCr1
    <3>2. /\ tim'.t0 = now /\ tim'.seen = 0 /\ tim'.period = tim.period /\ last'.at = now
          /\ tim' \in [cen : BOOLEAN, uie : BOOLEAN, uif : BOOLEAN, t0 : Nat, seen : Nat, period : Period]
          /\ last' \in [at : Nat, longer : BOOLEAN]
      BY <3>1
    <3>3. Base' = now
      <4>1. tim.period \in Nat
        BY PeriodFacts
      <4>2. 0 * tim.period = 0
        BY <4>1, Times
      <4>3. Base' = now + 0 * tim.period
        BY <3>2 DEF Base
      <4>. QED
        BY <4>2, <4>3
    <3>. QED
      BY <3>2, <3>3, PeriodFacts DEF Looked
  <2>2. CASE ~(cen /\ ~tim.cen)
    <3>1. tim' = [tim EXCEPT !.cen = cen] /\ last' = last
      BY <1>1, <2>2 DEF WriteCr1
    <3>2. /\ tim'.t0 = tim.t0 /\ tim'.seen = tim.seen /\ tim'.period = tim.period /\ tim'.uie = tim.uie
          /\ tim'.cen = cen /\ (cen => tim.cen)
          /\ tim' \in [cen : BOOLEAN, uie : BOOLEAN, uif : BOOLEAN, t0 : Nat, seen : Nat, period : Period]
      BY <2>2, <3>1
    <3>. QED
      BY <3>1, <3>2 DEF Base, Looked, Armed
  <2>. QED
    BY <2>1, <2>2
<1>2. ASSUME NEW uie \in BOOLEAN, WriteDier(uie) PROVE TimInv'
  <2>1. /\ tim' = [tim EXCEPT !.uie = uie]
        /\ last' = IF uie /\ ~tim.uie THEN [last EXCEPT !.at = now] ELSE last
    BY <1>2 DEF WriteDier
  <2>2. /\ tim'.t0 = tim.t0 /\ tim'.seen = tim.seen /\ tim'.period = tim.period /\ tim'.cen = tim.cen
        /\ tim'.uie = uie
        /\ tim' \in [cen : BOOLEAN, uie : BOOLEAN, uif : BOOLEAN, t0 : Nat, seen : Nat, period : Period]
    BY <2>1
  <2>3. Base' = Base
    BY <2>2 DEF Base
  <2>4. CASE uie /\ ~tim.uie
    <3>1. last' = [at |-> now, longer |-> last.longer]
      BY <2>1, <2>4
    <3>. QED
      BY <2>2, <2>3, <3>1, PeriodFacts DEF Looked, Armed
  <2>5. CASE ~(uie /\ ~tim.uie)
    <3>1. last' = last
      BY <2>1, <2>5
    <3>. QED
      BY <2>2, <2>3, <2>5, <3>1 DEF Looked, Armed
  <2>. QED
    BY <2>4, <2>5
<1>3. CASE ClearUif
  <2>1. tim' = [tim EXCEPT !.uif = FALSE] /\ last' = last
    BY <1>3 DEF ClearUif
  <2>2. /\ tim'.t0 = tim.t0 /\ tim'.seen = tim.seen /\ tim'.period = tim.period /\ tim'.cen = tim.cen
        /\ tim'.uie = tim.uie
        /\ tim' \in [cen : BOOLEAN, uie : BOOLEAN, uif : BOOLEAN, t0 : Nat, seen : Nat, period : Period]
    BY <2>1
  <2>. QED
    BY <2>1, <2>2 DEF Base, Looked, Armed
<1>4. ASSUME NEW p \in Period, WritePeriod(p) PROVE TimInv'
  <2>1. /\ tim' = [tim EXCEPT !.period = p]
        /\ last' = IF tim.cen /\ p > tim.period THEN [last EXCEPT !.longer = TRUE] ELSE last
    BY <1>4 DEF WritePeriod
  <2>2. /\ tim'.t0 = tim.t0 /\ tim'.seen = tim.seen /\ tim'.period = p /\ tim'.cen = tim.cen
        /\ tim'.uie = tim.uie
        /\ tim' \in [cen : BOOLEAN, uie : BOOLEAN, uif : BOOLEAN, t0 : Nat, seen : Nat, period : Period]
    BY <2>1
  <2>3. CASE tim.cen /\ p > tim.period
    <3>1. last' = [at |-> last.at, longer |-> TRUE]
      BY <2>1, <2>3
    <3>. QED
      BY <2>2, <3>1 DEF Armed
  <2>4. CASE tim.cen /\ ~(p > tim.period)
    <3>1. last' = last
      BY <2>1, <2>4
    <3>2. p \in Nat /\ tim.period \in Nat /\ p <= tim.period
      <4>1. p \in Nat /\ tim.period \in Nat
        BY PeriodFacts
      <4>. QED
        BY <2>4, <4>1
    <3>3. tim.seen * p \in Nat /\ tim.seen * p <= tim.seen * tim.period
      BY <3>2, Times
    <3>4. Base' = tim.t0 + tim.seen * p
      BY <2>2 DEF Base
    <3>5. Base' \in Nat /\ Base' <= Base
      BY <1>0, <3>3, <3>4 DEF Base
    <3>. QED
      BY <1>0, <2>2, <3>1, <3>5 DEF Looked, Armed
  <2>5. CASE ~tim.cen
    BY <2>1, <2>2, <2>5 DEF Armed
  <2>. QED
    BY <2>3, <2>4, <2>5
<1>. QED
  BY <1>1, <1>2, <1>3, <1>4 DEF Tim

LEMMA BaseFacts ==
  ASSUME TimTypes
  PROVE  /\ tim.period \in Nat \ {0} /\ tim.period <= MaxPeriod
         /\ tim.seen * tim.period \in Nat /\ Base \in Nat /\ now - tim.t0 \in Nat
<1>1. tim.period \in Period /\ tim.seen \in Nat /\ tim.t0 \in Nat
  BY DEF TimTypes
<1>2. tim.period \in Nat \ {0} /\ tim.period <= MaxPeriod
  BY <1>1, PeriodFacts
<1>3. tim.seen * tim.period \in Nat
  BY <1>1, <1>2, Times
<1>4. now - tim.t0 \in Nat
  BY DEF TimTypes
<1>. QED
  BY <1>1, <1>2, <1>3, <1>4 DEF Base

(* What the events between slices do to it. *)
LEMMA TimEvents ==
  ASSUME TimInv, ~slicing, slicing' = slicing, UNCHANGED <<tim, last>>, PinEvent
  PROVE  TimInv'
<1>. USE DEF TimInv, TimTypes
<1>1. Base' = Base /\ (Armed' <=> Armed)
  BY DEF Base, Armed
<1>2. ASSUME UNCHANGED <<mcu, alarms, now>> PROVE TimInv'
  BY <1>1, <1>2 DEF Looked
<1>3. ASSUME mcu.asleep, mcu' = [asleep |-> FALSE, due |-> now], now' = now, alarms' \in SUBSET alarms
      PROVE  TimInv'
  <2>1. Armed => now - last.at < MaxPeriod + Slice
    <3>1. MaxPeriod + Slice \in Nat
      BY PeriodFacts
    <3>. QED
      BY <1>3, <3>1 DEF Looked
  <2>2. ~mcu'.asleep /\ mcu'.due = now /\ mcu' \in [asleep : BOOLEAN, due : Nat]
    BY <1>3
  <2>. QED
    BY <1>1, <1>3, <2>1, <2>2 DEF Looked
<1>4. ASSUME NEW p \in Wired, Flip(p) PROVE UNCHANGED <<mcu, alarms, now>>
  BY <1>4 DEF Flip, mcuVars
<1>5. ASSUME NEW p \in told, Edge(p) PROVE TimInv'
  BY <1>2, <1>3, <1>5 DEF Edge, Pend
<1>6. CASE Alarm
  <2>1. CASE mcu.asleep
    BY <1>3, <1>6, <2>1 DEF Alarm
  <2>2. CASE ~mcu.asleep
    <3>1. mcu' = mcu /\ now' = now /\ alarms' \in SUBSET alarms
      BY <1>6, <2>2 DEF Alarm
    <3>. QED
      BY <1>1, <2>2, <3>1 DEF Looked
  <2>. QED
    BY <2>1, <2>2
<1>7. CASE Elapse
  <2>1. now' = now + 1 /\ UNCHANGED <<mcu, alarms>> /\ now \notin alarms /\ (mcu.asleep \/ mcu.due > now)
    BY <1>7 DEF Elapse, Quiet
  <2>2. Armed => Looked'
    <3>1. ASSUME mcu.asleep, Armed PROVE Looked'
      <4>1. PICK a \in alarms : now <= a /\ a - last.at < MaxPeriod + Slice
        BY <3>1 DEF Looked
      <4>2. a \in Nat /\ now + 1 <= a
        BY <2>1, <4>1
      <4>. QED
        BY <2>1, <3>1, <4>1, <4>2 DEF Looked
    <3>2. ASSUME ~mcu.asleep, Armed PROVE Looked'
      BY <2>1, <3>2 DEF Looked
    <3>. QED
      BY <3>1, <3>2
  <2>3. tim.cen /\ ~last.longer => Base <= now'
    <3>1. Base \in Nat
      BY BaseFacts
    <3>. QED
      BY <2>1, <3>1
  <2>. QED
    BY <1>1, <2>1, <2>2, <2>3
<1>. QED
  BY <1>2, <1>4, <1>5, <1>6, <1>7 DEF PinEvent

(* A slice starts by looking at the timer. *)
LEMMA TimStartSlice ==
  ASSUME TimInv, ~slicing, slicing' = TRUE, StartSlice
  PROVE  TimInv'
<1>. USE DEF TimInv, TimTypes
<1>. DEFINE fires == tim.cen /\ Updates > tim.seen
            p == tim.period
            u == (now - tim.t0) \div tim.period
<1>1. /\ ~mcu.asleep /\ mcu.due = now /\ UNCHANGED <<mcu, alarms, now>>
      /\ tim' = IF fires THEN [tim EXCEPT !.seen = Updates, !.uif = TRUE] ELSE tim
      /\ last' = IF fires /\ tim.uie THEN [last EXCEPT !.at = now] ELSE last
  BY DEF StartSlice
<1>2. p \in Nat \ {0} /\ now - tim.t0 \in Nat /\ p <= MaxPeriod /\ MaxPeriod \in Nat \ {0}
  BY PeriodFacts, BaseFacts
<1>3. u \in Nat /\ u * p \in Nat /\ u * p <= now - tim.t0 /\ now - tim.t0 < u * p + p
  BY <1>2, Quotient, Times
<1>4. tim.seen * p \in Nat
  BY <1>2, Times
<1>5. Updates = u
  BY DEF Updates
<1>. HIDE DEF u
<1>6. CASE fires
  <2>1. tim' = [tim EXCEPT !.seen = u, !.uif = TRUE]
    BY <1>1, <1>5, <1>6
  <2>2. /\ tim'.t0 = tim.t0 /\ tim'.seen = u /\ tim'.period = p /\ tim'.cen = tim.cen /\ tim'.uie = tim.uie
        /\ tim' \in [cen : BOOLEAN, uie : BOOLEAN, uif : BOOLEAN, t0 : Nat, seen : Nat, period : Period]
    BY <1>3, <2>1
  <2>3. Base' = tim.t0 + u * p
    BY <2>2 DEF Base
  <2>4. Base' <= now
    BY <1>3, <2>3
  <2>5. CASE tim.uie
    <3>1. last' = [at |-> now, longer |-> last.longer]
      BY <1>1, <1>6, <2>5
    <3>2. now - last'.at < MaxPeriod
      BY <1>2, <3>1
    <3>. QED
      BY <1>1, <2>2, <2>4, <3>1, <3>2 DEF Looked
  <2>6. CASE ~tim.uie
    <3>1. last' = last
      BY <1>1, <2>6
    <3>. QED
      BY <1>1, <2>2, <2>4, <2>6, <3>1 DEF Armed
  <2>. QED
    BY <2>5, <2>6
<1>7. CASE ~fires
  <2>1. tim' = tim /\ last' = last
    BY <1>1, <1>7
  <2>2. Base' = Base /\ (Armed' <=> Armed)
    BY <2>1 DEF Base, Armed
  <2>3. ASSUME Armed PROVE now - last.at < MaxPeriod
    <3>1. u <= tim.seen
      BY <1>3, <1>5, <1>7, <2>3 DEF Armed
    <3>2. u * p <= tim.seen * p
      BY <1>2, <1>3, <3>1, Whole
    <3>3. now < Base + p
      BY <1>2, <1>3, <1>4, <3>2 DEF Base
    <3>4. Base \in Nat /\ Base <= last.at
      BY <1>4, <2>3 DEF Base
    <3>. HIDE DEF p
    <3>. QED
      BY <1>2, <3>3, <3>4
  <2>. QED
    BY <1>1, <2>1, <2>2, <2>3 DEF Looked
<1>. QED
  BY <1>6, <1>7

(* A slice ends, and has the next look at the timer arranged. *)
LEMMA TimEndSlice ==
  ASSUME TimInv, slicing, slicing' = FALSE, EndSlice \/ Wfi
  PROVE  TimInv'
<1>. USE DEF TimInv, TimTypes
<1>1. UNCHANGED <<tim, last, now>> /\ Slice \in Nat \ {0} /\ MaxPeriod \in Nat \ {0}
  BY PeriodFacts DEF EndSlice, Wfi, timVars
<1>2. Base' = Base /\ (Armed' <=> Armed)
  BY <1>1 DEF Base, Armed
<1>3. Armed => now - last.at < MaxPeriod
  BY DEF Looked
<1>4. ASSUME NEW due \in Nat, mcu' = [asleep |-> FALSE, due |-> due], now <= due, due <= now + Slice,
             alarms' = alarms
      PROVE  TimInv'
  <2>1. ~mcu'.asleep /\ mcu'.due = due /\ mcu' \in [asleep : BOOLEAN, due : Nat]
    BY <1>4
  <2>2. Armed => due - last.at < MaxPeriod + Slice
    BY <1>1, <1>3, <1>4
  <2>. QED
    BY <1>1, <1>2, <1>4, <2>1, <2>2 DEF Looked
<1>5. CASE EndSlice
  <2>1. mcu' = [asleep |-> FALSE, due |-> now + Slice] /\ alarms' = alarms /\ now + Slice \in Nat
    BY <1>1, <1>5 DEF EndSlice
  <2>. QED
    BY <1>1, <1>4, <2>1
<1>6. CASE Wfi /\ irqs # {}
  <2>1. mcu' = [asleep |-> FALSE, due |-> now] /\ alarms' = alarms
    BY <1>6 DEF Wfi
  <2>. QED
    BY <1>1, <1>4, <2>1
<1>7. CASE Wfi /\ irqs = {}
  <2>. DEFINE a == Max({NextEvent(tim), now})
  <2>1. /\ mcu' = [asleep |-> TRUE, due |-> Never]
        /\ alarms' = IF tim.cen /\ tim.uie THEN alarms \cup {a} ELSE alarms
    BY <1>7 DEF Wfi
  <2>2. mcu'.asleep /\ mcu' \in [asleep : BOOLEAN, due : Nat]
    BY <2>1, PinAssumption DEF Never
  <2>3. tim.period \in Nat /\ tim.period <= MaxPeriod /\ tim.seen * tim.period \in Nat
    BY PeriodFacts, Times
  <2>4. NextEvent(tim) = Base + tim.period /\ Base \in Nat
    BY <2>3, Times DEF NextEvent, Base
  <2>5. a = (IF NextEvent(tim) >= now THEN NextEvent(tim) ELSE now) /\ NextEvent(tim) \in Nat
    BY <2>3, <2>4, MaxOfTwo
  <2>. HIDE DEF a
  <2>6. a \in Nat /\ now <= a
    BY <2>5
  <2>7. Armed => a - last.at < MaxPeriod + Slice
    BY <1>1, <1>3, <2>3, <2>4, <2>5
  <2>8. Armed => Looked'
    BY <1>1, <1>2, <2>1, <2>2, <2>6, <2>7 DEF Looked, Armed
  <2>. QED
    BY <1>1, <1>2, <2>1, <2>2, <2>6, <2>8
<1>. QED
  BY <1>5, <1>6, <1>7

LEMMA TimSteps == TimInv /\ [PinStep]_<<pinVars, slicing>> => TimInv'
<1>. SUFFICES ASSUME TimInv, [PinStep]_<<pinVars, slicing>> PROVE TimInv'
  OBVIOUS
<1>1. ASSUME UNCHANGED <<tim, last, mcu, alarms, now, slicing>> PROVE TimInv'
  BY <1>1 DEF TimInv, TimTypes, Base, Armed, Looked
<1>2. CASE slicing /\ slicing' = slicing /\ PinFirmware
  <2>1. ~mcu.asleep
    BY <1>2 DEF TimInv
  <2>2. ASSUME Tim PROVE UNCHANGED <<mcu, alarms, now>>
    BY <2>2 DEF Tim, WriteCr1, WriteDier, ClearUif, WritePeriod, mcuVars
  <2>3. ASSUME Exti PROVE UNCHANGED <<tim, last, mcu, alarms, now>>
    BY <2>1, <2>3 DEF Exti, WriteImr, WriteSwier, WritePr, WriteTriggers, WriteExticr, Pend, mcuVars, timVars
  <2>4. ASSUME NEW i \in irqs, Take(i) PROVE UNCHANGED <<tim, last, mcu, alarms, now>>
    BY <2>4 DEF Take, timVars
  <2>. QED
    BY <1>1, <1>2, <2>2, <2>3, <2>4, TimFirmware DEF PinFirmware
<1>3. CASE ~slicing /\ slicing' = slicing /\ PinEvent
  <2>1. UNCHANGED <<tim, last>>
    BY <1>3 DEF PinEvent, Flip, Edge, Alarm, Elapse, timVars
  <2>. QED
    BY <1>3, <2>1, TimEvents
<1>4. CASE ~slicing /\ slicing' = TRUE /\ StartSlice
  BY <1>4, TimStartSlice
<1>5. CASE slicing /\ slicing' = FALSE /\ (EndSlice \/ Wfi)
  BY <1>5, TimEndSlice
<1>6. CASE UNCHANGED <<pinVars, slicing>>
  BY <1>1, <1>6 DEF pinVars, timVars, mcuVars
<1>. QED
  BY <1>2, <1>3, <1>4, <1>5, <1>6 DEF PinStep

(* The timer goes on interrupting, for any periods, slices and horizon,    *)
(* whatever firmware and pins do.                                          *)
THEOREM UpdatesNeverStop == Spec => []UpdatesKeepComing
<1>1. ASSUME TimInv PROVE UpdatesKeepComing
  <2>. SUFFICES ASSUME Armed PROVE now - last.at < MaxPeriod + Slice
    BY DEF UpdatesKeepComing, Armed
  <2>1. Looked /\ TimTypes /\ (slicing => ~mcu.asleep) /\ (~mcu.asleep => now <= mcu.due)
    BY <1>1 DEF TimInv
  <2>2. Slice \in Nat \ {0} /\ MaxPeriod \in Nat \ {0}
    BY PeriodFacts
  <2>. QED
    BY <2>1, <2>2 DEF Looked, TimTypes
<1>2. TimInv /\ [Next]_vars => TimInv'
  BY PinProjected, TimSteps
<1>. QED
  BY <1>1, <1>2, TimStarts, PTL DEF Spec
-----------------------------------------------------------------------------
SpiStep == Spi \/ \E d \in Device : Tell(d)

LEMMA SpiProjected ==
  [Next]_vars =>
    /\ uses' = uses
    /\ uses \in DOMAIN SpiByte => [SpiStep]_<<gpioVars, spiVars>>
    /\ uses \notin DOMAIN SpiByte => UNCHANGED spiVars \/ \E d \in Device : Tell(d)
<1>. SUFFICES ASSUME [Next]_vars
              PROVE  /\ uses' = uses
                     /\ uses \in DOMAIN SpiByte => [SpiStep]_<<gpioVars, spiVars>>
                     /\ uses \notin DOMAIN SpiByte => UNCHANGED spiVars \/ \E d \in Device : Tell(d)
  OBVIOUS
<1>1. CASE Firmware
  <2>1. uses \in DOMAIN SpiByte => ~Ports
    BY BoardAssumption DEF Ports
  <2>. QED
    BY <1>1, <2>1 DEF Firmware, spiIdle, SpiStep
<1>2. CASE Events
  BY <1>2 DEF Events, spiIdle, SpiStep
<1>3. CASE Slices
  BY <1>3 DEF Slices, spiIdle
<1>4. CASE UNCHANGED vars
  BY <1>4 DEF vars
<1>. QED
  BY <1>1, <1>2, <1>3, <1>4 DEF Next

(* The devices whose nets are low. *)
LowDevices == {d \in Device : Low(d)}

(* The bus serves a device that alone is low, and none that is not.        *)
LEMMA SelectedFacts ==
  /\ \A d \in Device : Selected = d => Low(d)
  /\ \A d \in Device : LowDevices = {d} => Selected = d
<1>. DEFINE low == {i \in DOMAIN Attached : Low(Attached[i])}
<1>1. /\ DOMAIN Attached = 1 .. 2 /\ Attached[1] \in Device /\ Attached[2] \in Device
      /\ Attached[1] # Attached[2]
  BY SpiAssumption DEF Device
<1>2. low \in SUBSET Nat
  BY <1>1
<1>3. Selected = IF low = {} THEN "none" ELSE Attached[Min(low)]
  BY DEF Selected
<1>4. low # {} => Min(low) \in low
  BY <1>2, MinFacts
<1>5. "none" \notin Device
  BY DEF Device
<1>6. \A d \in Device : d = Attached[1] \/ d = Attached[2]
  BY SpiAssumption DEF Device
<1>7. ASSUME NEW d \in Device, LowDevices = {d} PROVE Selected = d
  <2>1. \A i \in low : Attached[i] = d
    BY <1>1, <1>7 DEF LowDevices
  <2>2. low # {}
    BY <1>1, <1>6, <1>7 DEF LowDevices
  <2>. HIDE DEF low
  <2>. QED
    BY <1>3, <1>4, <2>1, <2>2
<1>8. ASSUME NEW d \in Device, Selected = d PROVE Low(d)
  BY <1>3, <1>4, <1>5, <1>8
<1>. QED
  BY <1>7, <1>8

LEMMA Alone ==
  ASSUME NEW D \in SUBSET Device
  PROVE  Cardinality(D) > 1 <=> D = Device
<1>1. D = {} \/ D = {"flash"} \/ D = {"accel"} \/ D = Device
  BY DEF Device
<1>2. Cardinality({}) = 0 /\ \A x : Cardinality({x}) = 1 /\ IsFiniteSet({x})
  BY FS_EmptySet, FS_Singleton
<1>3. Cardinality({"flash"} \cup {"accel"}) = 2
  <2>1. IsFiniteSet({"flash"}) /\ Cardinality({"flash"}) = 1 /\ "accel" \notin {"flash"}
    BY <1>2
  <2>2. Cardinality({"flash"} \cup {"accel"}) = Cardinality({"flash"}) + 1
    BY <2>1, FS_AddElement
  <2>. QED
    BY <2>1, <2>2
<1>4. Device = {"flash"} \cup {"accel"} /\ Device # {"flash"} /\ Device # {"accel"} /\ Device # {}
  BY DEF Device
<1>5. Cardinality(Device) = 2 /\ Cardinality({"flash"}) = 1 /\ Cardinality({"accel"}) = 1
  BY <1>2, <1>3, <1>4
<1>6. CASE D = Device
  BY <1>5, <1>6
<1>7. CASE D # Device
  BY <1>1, <1>2, <1>5, <1>7
<1>. QED
  BY <1>6, <1>7

Command == Byte \cup {Nil}
FlashType(f) ==
  /\ f = [cmd |-> f.cmd, buf |-> f.buf, wren |-> f.wren, mem |-> f.mem]
  /\ f.cmd \in Command /\ f.buf \in Seq(Byte) /\ f.wren \in BOOLEAN
AccelType(a) ==
  /\ a = [addr |-> a.addr, read |-> a.read, auto |-> a.auto, regs |-> a.regs]
  /\ a.addr \in 0 .. 63 \cup {Nil} /\ a.read \in BOOLEAN /\ a.auto \in BOOLEAN

(* What the flash holds is what its clean transactions asked for. *)
Kept == want.ok => flash.wren = want.wren /\ flash.mem = want.mem

(* A device of clean transactions is selected, has been sent nothing until *)
(* it is told so, and decodes what it has been sent since.                 *)
SpiInv ==
  /\ FlashType(flash) /\ AccelType(accel)
  /\ sent \in [Device -> Seq(Byte)] /\ clean \subseteq Device /\ edges \subseteq Device
  /\ want.ok \in BOOLEAN /\ want.wren \in BOOLEAN
  /\ Kept
  /\ uses \notin DOMAIN SpiByte => clean = {} /\ edges = {}
  /\ uses \in DOMAIN SpiByte =>
       \A d \in clean : /\ Low(d)
                        /\ d \in edges => sent[d] = <<>>
                        /\ d \notin edges => Decodes(d)

LEMMA SpiStarts == Init => SpiInv
<1>. SUFFICES ASSUME Init PROVE SpiInv
  OBVIOUS
<1>1. /\ flash = [cmd |-> Nil, buf |-> <<>>, wren |-> FALSE, mem |-> <<>>] /\ clean = {} /\ edges = {}
      /\ want = [wren |-> FALSE, mem |-> <<>>, ok |-> TRUE] /\ sent = [d \in Device |-> <<>>]
      /\ accel.addr = Nil /\ accel.read = FALSE /\ accel.auto = FALSE
      /\ accel = [addr |-> accel.addr, read |-> accel.read, auto |-> accel.auto, regs |-> accel.regs]
  BY DEF Init, SpiInit, FlashStart, AccelStart
<1>2. FlashType(flash)
  BY <1>1 DEF FlashType, Command
<1>3. AccelType(accel)
  BY <1>1 DEF AccelType
<1>4. want.ok \in BOOLEAN /\ want.wren \in BOOLEAN /\ Kept
  BY <1>1 DEF Kept
<1>. QED
  BY <1>1, <1>2, <1>3, <1>4 DEF SpiInv

LEMMA Sent ==
  ASSUME NEW t \in Seq(Byte), NEW b \in Byte
  PROVE  /\ Append(t, b) \in Seq(Byte) /\ Append(t, b) # <<>> /\ Last(Append(t, b)) = b
         /\ Len(Append(t, b)) = Len(t) + 1
         /\ t = <<>> => Append(t, b) = <<b>> /\ Tail(Append(t, b)) = <<>>
         /\ t # <<>> => /\ Append(t, b)[1] = t[1] /\ t[1] \in Byte /\ Len(t) \in Nat \ {0}
                        /\ Tail(Append(t, b)) = Append(Tail(t), b)
                        /\ Append(t, b) # <<Wren>>
<1>1. Append(t, b) \in Seq(Byte) /\ Len(Append(t, b)) = Len(t) + 1 /\ Append(t, b)[Len(t) + 1] = b
      /\ Len(t) \in Nat /\ \A i \in 1 .. Len(t) : Append(t, b)[i] = t[i]
  BY AppendProperties
<1>2. Append(t, b) # <<>> /\ Last(Append(t, b)) = b
  BY <1>1, EmptySeq DEF Last
<1>3. CASE t = <<>>
  BY <1>1, <1>2, <1>3
<1>4. CASE t # <<>>
  <2>1. Len(t) \in Nat \ {0}
    BY <1>1, <1>4, EmptySeq
  <2>2. t[1] \in Byte /\ Append(t, b)[1] = t[1]
    BY <1>1, <2>1
  <2>3. Len(Append(t, b)) # Len(<<Wren>>)
    BY <1>1, <2>1
  <2>4. Tail(Append(t, b)) = Append(Tail(t), b)
    BY <1>4, <2>1
  <2>. QED
    BY <1>1, <1>2, <1>4, <2>1, <2>2, <2>3, <2>4
<1>. QED
  BY <1>3, <1>4

(* The flash and the accelerometer, told of a select or sent a byte.       *)
LEMMA FlashNextFields ==
  ASSUME NEW f, FlashType(f), NEW b \in Byte
  PROVE  LET buf == Append(f.buf, b)
         IN  /\ f.cmd = Nil => FlashNext(f, b) = [cmd |-> b, buf |-> f.buf, wren |-> f.wren \/ b = Wren,
                                                  mem |-> f.mem]
             /\ f.cmd # Nil => FlashNext(f, b) =
                  [cmd |-> f.cmd, buf |-> buf, wren |-> f.wren,
                   mem |-> IF f.cmd = PageProgram /\ Len(buf) > AddrLen /\ f.wren
                           THEN Put(f.mem, AddrOf(buf) + Len(buf) - AddrLen - 1, b) ELSE f.mem]
             /\ FlashType(FlashNext(f, b))
<1>. DEFINE g == FlashNext(f, b)
            buf == Append(f.buf, b)
            m == IF f.cmd = PageProgram /\ Len(buf) > AddrLen /\ f.wren
                 THEN Put(f.mem, AddrOf(buf) + Len(buf) - AddrLen - 1, b) ELSE f.mem
            rec == [cmd |-> f.cmd, buf |-> f.buf, wren |-> f.wren, mem |-> f.mem]
<1>1. f = rec /\ f.cmd \in Command /\ f.buf \in Seq(Byte) /\ f.wren \in BOOLEAN
  BY DEF FlashType
<1>2. ASSUME f.cmd = Nil
      PROVE  g = [cmd |-> b, buf |-> f.buf, wren |-> f.wren \/ b = Wren, mem |-> f.mem] /\ FlashType(g)
  <2>1. g = [f EXCEPT !.cmd = b, !.wren = f.wren \/ b = Wren]
    BY <1>2 DEF FlashNext
  <2>2. g = [rec EXCEPT !.cmd = b, !.wren = f.wren \/ b = Wren]
    BY <1>1, <2>1
  <2>3. g = [cmd |-> b, buf |-> f.buf, wren |-> f.wren \/ b = Wren, mem |-> f.mem]
    BY <2>2
  <2>4. FlashType(g)
    BY <1>1, <2>3 DEF FlashType, Command
  <2>. QED
    BY <2>3, <2>4
<1>3. ASSUME f.cmd # Nil
      PROVE  g = [cmd |-> f.cmd, buf |-> buf, wren |-> f.wren, mem |-> m] /\ FlashType(g)
  <2>1. g = [f EXCEPT !.buf = buf, !.mem = m]
    BY <1>3 DEF FlashNext
  <2>2. buf \in Seq(Byte)
    BY <1>1
  <2>. HIDE DEF m, buf, g
  <2>3. g = [rec EXCEPT !.buf = buf, !.mem = m]
    BY <1>1, <2>1
  <2>4. g = [cmd |-> f.cmd, buf |-> buf, wren |-> f.wren, mem |-> m]
    BY <2>3
  <2>5. FlashType(g)
    BY <1>1, <2>2, <2>4 DEF FlashType
  <2>. QED
    BY <2>4, <2>5
<1>. HIDE DEF m, buf, g
<1>4. FlashType(g) /\ (f.cmd # Nil => g = [cmd |-> f.cmd, buf |-> buf, wren |-> f.wren, mem |-> m])
  BY <1>2, <1>3
<1>. QED
  BY <1>2, <1>4, Zenon DEF m, buf, g

LEMMA FlashToldFields ==
  ASSUME NEW f, FlashType(f), NEW asserted \in BOOLEAN
  PROVE  /\ FlashType(FlashTold(f, asserted)) /\ FlashTold(f, asserted).wren = f.wren
         /\ FlashTold(f, asserted).mem = f.mem
         /\ asserted => FlashTold(f, asserted).cmd = Nil /\ FlashTold(f, asserted).buf = <<>>
<1>. DEFINE rec == [cmd |-> f.cmd, buf |-> f.buf, wren |-> f.wren, mem |-> f.mem]
<1>1. f = rec /\ f.cmd \in Command /\ f.buf \in Seq(Byte) /\ f.wren \in BOOLEAN
  BY DEF FlashType
<1>2. CASE asserted
  <2>1. FlashTold(f, asserted) = [rec EXCEPT !.cmd = Nil, !.buf = <<>>]
    BY <1>1, <1>2 DEF FlashTold
  <2>2. FlashTold(f, asserted) = [cmd |-> Nil, buf |-> <<>>, wren |-> f.wren, mem |-> f.mem]
    BY <2>1
  <2>. QED
    BY <1>1, <2>2 DEF FlashType, Command
<1>3. CASE ~asserted
  BY <1>1, <1>3 DEF FlashTold, FlashType
<1>. QED
  BY <1>2, <1>3

LEMMA FlashDecode ==
  ASSUME NEW f, FlashType(f), NEW t \in Seq(Byte), NEW b \in Byte,
         f.cmd = (IF t = <<>> THEN Nil ELSE t[1]), f.buf = (IF t = <<>> THEN <<>> ELSE Tail(t))
  PROVE  LET g == FlashNext(f, b)
             s == Append(t, b)
             data == Tail(s)
         IN  /\ g.cmd = s[1] /\ g.buf = data
             /\ g.wren = (f.wren \/ s = <<Wren>>)
             /\ g.mem = IF s[1] = PageProgram /\ Len(data) > AddrLen /\ f.wren
                        THEN Put(f.mem, AddrOf(data) + Len(data) - AddrLen - 1, Last(s)) ELSE f.mem
<1>. DEFINE g == FlashNext(f, b)
            s == Append(t, b)
            data == Tail(s)
<1>1. AddrLen \in Nat /\ Nil \notin Byte /\ f.wren \in BOOLEAN
  BY SpiAssumption DEF Nil, Byte, FlashType
<1>2. CASE t = <<>>
  <2>1. s = <<b>> /\ data = <<>> /\ Last(s) = b
    BY <1>2, Sent
  <2>2. s[1] = b /\ (s = <<Wren>> <=> b = Wren) /\ Len(data) = 0
    BY <2>1
  <2>3. g = [cmd |-> b, buf |-> f.buf, wren |-> f.wren \/ b = Wren, mem |-> f.mem]
    BY <1>2, FlashNextFields
  <2>. HIDE DEF g, s, data
  <2>4. g.cmd = s[1] /\ g.buf = data /\ g.mem = f.mem
    BY <1>2, <2>1, <2>2, <2>3
  <2>5. g.wren = (f.wren \/ s = <<Wren>>)
    BY <2>2, <2>3
  <2>. QED
    BY <1>1, <2>2, <2>4, <2>5 DEF g, s, data
<1>3. CASE t # <<>>
  <2>1. s[1] = t[1] /\ f.cmd = t[1] /\ data = Append(f.buf, b) /\ Last(s) = b /\ s # <<Wren>>
    BY <1>3, Sent
  <2>2. f.cmd # Nil
    BY <1>1, <1>3, <2>1, Sent
  <2>3. g = [cmd |-> f.cmd, buf |-> data, wren |-> f.wren,
             mem |-> IF f.cmd = PageProgram /\ Len(data) > AddrLen /\ f.wren
                     THEN Put(f.mem, AddrOf(data) + Len(data) - AddrLen - 1, b) ELSE f.mem]
    BY <2>1, <2>2, FlashNextFields
  <2>. HIDE DEF g, s, data
  <2>4. g.mem = IF f.cmd = PageProgram /\ Len(data) > AddrLen /\ f.wren
                THEN Put(f.mem, AddrOf(data) + Len(data) - AddrLen - 1, b) ELSE f.mem
    BY <2>3
  <2>5. g.cmd = f.cmd /\ g.buf = data /\ g.wren = f.wren
    BY <2>3
  <2>6. g.wren = (f.wren \/ s = <<Wren>>)
    BY <1>1, <2>1, <2>5
  <2>. QED
    BY <2>1, <2>4, <2>5, <2>6 DEF g, s, data
<1>. QED
  BY <1>2, <1>3

LEMMA AccelFields ==
  ASSUME NEW a, AccelType(a), NEW b \in Byte
  PROVE  /\ AccelType(AccelNext(a, b)) /\ AccelNext(a, b).addr # Nil
         /\ a.addr = Nil => /\ AccelNext(a, b).addr = b % 64 /\ AccelNext(a, b).read = (b >= 128)
                            /\ AccelNext(a, b).auto = ((b \div 64) % 2 = 1)
         /\ a.addr # Nil => /\ AccelNext(a, b).addr = (IF a.auto THEN (a.addr + 1) % 64 ELSE a.addr)
                            /\ AccelNext(a, b).read = a.read /\ AccelNext(a, b).auto = a.auto
         /\ \A asserted \in BOOLEAN :
              /\ AccelType(AccelTold(a, asserted))
              /\ asserted => AccelTold(a, asserted).addr = Nil
<1>. DEFINE g == AccelNext(a, b)
            rec == [addr |-> a.addr, read |-> a.read, auto |-> a.auto, regs |-> a.regs]
<1>1. a = rec /\ a.addr \in 0 .. 63 \cup {Nil} /\ a.read \in BOOLEAN /\ a.auto \in BOOLEAN
  BY DEF AccelType
<1>2. b \in 0 .. 255 /\ b % 64 \in 0 .. 63 /\ Nil \notin 0 .. 63
  BY DEF Byte, Nil
<1>3. ASSUME a.addr = Nil
      PROVE  /\ g.addr = b % 64 /\ g.read = (b >= 128) /\ g.auto = ((b \div 64) % 2 = 1)
             /\ AccelType(g)
  <2>1. g = [rec EXCEPT !.read = b >= 128, !.auto = (b \div 64) % 2 = 1, !.addr = b % 64]
    BY <1>1, <1>3 DEF AccelNext
  <2>2. g = [addr |-> b % 64, read |-> b >= 128, auto |-> (b \div 64) % 2 = 1, regs |-> a.regs]
    BY <2>1
  <2>. QED
    BY <1>2, <2>2 DEF AccelType
<1>4. ASSUME a.addr # Nil
      PROVE  /\ g.addr = (IF a.auto THEN (a.addr + 1) % 64 ELSE a.addr)
             /\ g.read = a.read /\ g.auto = a.auto /\ g.addr \in 0 .. 63 /\ AccelType(g)
  <2>. DEFINE r == IF a.read THEN a.regs ELSE Put(a.regs, a.addr, b)
              n == IF a.auto THEN (a.addr + 1) % 64 ELSE a.addr
  <2>1. g = [a EXCEPT !.addr = n, !.regs = r]
    BY <1>4 DEF AccelNext
  <2>2. n \in 0 .. 63
    BY <1>1, <1>4
  <2>. HIDE DEF g, r, n
  <2>3. g = [rec EXCEPT !.addr = n, !.regs = r]
    BY <1>1, <2>1
  <2>4. g = [addr |-> n, read |-> a.read, auto |-> a.auto, regs |-> r]
    BY <2>3
  <2>5. AccelType(g) /\ g.addr = n /\ g.read = a.read /\ g.auto = a.auto
    BY <1>1, <2>2, <2>4 DEF AccelType
  <2>. QED
    BY <2>2, <2>5 DEF n
<1>5. ASSUME NEW asserted \in BOOLEAN
      PROVE  AccelType(AccelTold(a, asserted)) /\ (asserted => AccelTold(a, asserted).addr = Nil)
  <2>1. CASE asserted
    <3>1. AccelTold(a, asserted) = [rec EXCEPT !.addr = Nil]
      BY <1>1, <2>1 DEF AccelTold
    <3>2. AccelTold(a, asserted) = [addr |-> Nil, read |-> a.read, auto |-> a.auto, regs |-> a.regs]
      BY <3>1
    <3>. QED
      BY <1>1, <3>2 DEF AccelType
  <2>2. CASE ~asserted
    BY <1>1, <2>2 DEF AccelTold, AccelType
  <2>. QED
    BY <2>1, <2>2
<1>. HIDE DEF g
<1>6. AccelType(g) /\ g.addr # Nil
  BY <1>2, <1>3, <1>4
<1>. QED
  BY <1>3, <1>4, <1>5, <1>6, Zenon DEF g

LEMMA Wraps ==
  ASSUME NEW x \in Byte, NEW n \in Nat \ {0}
  PROVE  (((x + (n - 1)) % 64) + 1) % 64 = (x + n) % 64
<1>1. x + (n - 1) \in Nat /\ x + (n - 1) + 1 = x + n
  BY DEF Byte
<1>2. \A y \in Nat : ((y % 64) + 1) % 64 = (y + 1) % 64
  OBVIOUS
<1>. QED
  BY <1>1, <1>2

LEMMA AccelDecode ==
  ASSUME NEW a, AccelType(a), NEW t \in Seq(Byte), NEW b \in Byte, (a.addr = Nil) <=> (t = <<>>),
         t # <<>> => /\ a.addr = (t[1] + (IF a.auto THEN Len(t) - 1 ELSE 0)) % 64
                     /\ a.read = (t[1] >= 128) /\ a.auto = (t[1] % 128 >= 64)
  PROVE  LET g == AccelNext(a, b)
             s == Append(t, b)
         IN  /\ g.addr = (s[1] + (IF g.auto THEN Len(s) - 1 ELSE 0)) % 64
             /\ g.read = (s[1] >= 128) /\ g.auto = (s[1] % 128 >= 64)
<1>. DEFINE g == AccelNext(a, b)
            s == Append(t, b)
<1>1. CASE t = <<>>
  <2>1. s = <<b>> /\ Len(s) = 1 /\ s[1] = b
    BY <1>1, Sent
  <2>2. g.addr = b % 64 /\ g.read = (b >= 128) /\ g.auto = ((b \div 64) % 2 = 1)
    BY <1>1, AccelFields
  <2>3. ((b \div 64) % 2 = 1) = (b % 128 >= 64)
    BY DEF Byte
  <2>. HIDE DEF g, s
  <2>4. (s[1] + (IF g.auto THEN Len(s) - 1 ELSE 0)) = b
    BY <2>1 DEF Byte
  <2>. QED
    BY <2>1, <2>2, <2>3, <2>4 DEF g, s
<1>2. CASE t # <<>>
  <2>1. s[1] = t[1] /\ t[1] \in Byte /\ Len(s) = Len(t) + 1 /\ Len(t) \in Nat \ {0}
    BY <1>2, Sent
  <2>2. g.addr = (IF a.auto THEN (a.addr + 1) % 64 ELSE a.addr) /\ g.read = a.read /\ g.auto = a.auto
    BY <1>2, AccelFields
  <2>. HIDE DEF g, s
  <2>3. CASE a.auto
    <3>1. a.addr = (t[1] + (Len(t) - 1)) % 64
      BY <1>2, <2>3
    <3>2. (a.addr + 1) % 64 = (t[1] + Len(t)) % 64
      BY <2>1, <3>1, Wraps
    <3>3. s[1] + (IF g.auto THEN Len(s) - 1 ELSE 0) = t[1] + Len(t)
      BY <2>1, <2>2, <2>3 DEF Byte
    <3>4. g.addr = (a.addr + 1) % 64
      BY <2>2, <2>3
    <3>5. /\ g.addr = (s[1] + (IF g.auto THEN Len(s) - 1 ELSE 0)) % 64
          /\ g.read = (s[1] >= 128) /\ g.auto = (s[1] % 128 >= 64)
      BY <1>2, <2>1, <2>2, <3>2, <3>3, <3>4
    <3>. QED
      BY <3>5 DEF g, s
  <2>4. CASE ~a.auto
    BY <1>2, <2>1, <2>2, <2>4 DEF g, s
  <2>. QED
    BY <2>3, <2>4
<1>. QED
  BY <1>1, <1>2

(* A byte: what is clean was served alone, and goes on decoding. *)
LEMMA SpiWriteSteps ==
  ASSUME SpiInv, uses \in DOMAIN SpiByte, uses' = uses, NEW b \in Byte, SpiWrite(b)
  PROVE  SpiInv'
<1>. USE DEF SpiInv
<1>0. /\ flash' = (IF Selected = "flash" THEN FlashNext(flash, b) ELSE flash)
      /\ accel' = (IF Selected = "accel" THEN AccelNext(accel, b) ELSE accel)
      /\ sent' = [d \in Device |-> IF d \in LowDevices THEN Append(sent[d], b) ELSE sent[d]]
      /\ clean' = clean \ (IF Cardinality(LowDevices) > 1 THEN LowDevices ELSE LowDevices \cap edges)
      /\ want' = (IF "flash" \in LowDevices THEN Wanted(sent'["flash"]) ELSE want)
      /\ UNCHANGED <<edges, gpioVars>>
  BY DEF SpiWrite, LowDevices
<1>1. \A d \in Device : Low(d)' <=> Low(d)
  BY <1>0 DEF Low, gpioVars
<1>2. FlashType(flash') /\ AccelType(accel')
  BY <1>0, FlashNextFields, AccelFields
<1>3. sent' \in [Device -> Seq(Byte)] /\ clean' \subseteq clean
  BY <1>0
<1>4. ASSUME NEW d \in clean'
      PROVE  /\ d \in clean /\ d \notin edges /\ Low(d) /\ LowDevices = {d} /\ Selected = d
             /\ sent'[d] = Append(sent[d], b) /\ sent[d] \in Seq(Byte) /\ Decodes(d)
  <2>1. d \in clean /\ d \in Device /\ Low(d) /\ d \in LowDevices
    BY <1>3, <1>4 DEF LowDevices
  <2>2. ~(Cardinality(LowDevices) > 1)
    BY <1>0, <1>4, <2>1
  <2>3. d \notin edges
    BY <1>0, <1>4, <2>1, <2>2
  <2>4. LowDevices # Device /\ LowDevices \subseteq Device
    BY <2>2, Alone DEF LowDevices
  <2>5. LowDevices = {d}
    BY <2>1, <2>4 DEF Device
  <2>. QED
    BY <1>0, <2>1, <2>3, <2>5, SelectedFacts
<1>5. ASSUME NEW d \in clean' PROVE Decodes(d)'
  <2>. DEFINE t == sent[d]
  <2>1. t \in Seq(Byte) /\ sent'[d] = Append(t, b) /\ sent'[d] # <<>> /\ Selected = d
    BY <1>4, <1>5, Sent
  <2>2. CASE d = "flash"
    <3>1. /\ flash.cmd = (IF t = <<>> THEN Nil ELSE t[1]) /\ flash.buf = (IF t = <<>> THEN <<>> ELSE Tail(t))
      BY <1>4, <1>5, <2>2 DEF Decodes
    <3>2. flash' = FlashNext(flash, b)
      BY <1>0, <2>1, <2>2
    <3>3. flash'.cmd = Append(t, b)[1] /\ flash'.buf = Tail(Append(t, b))
      BY <2>1, <3>1, <3>2, FlashDecode
    <3>. QED
      BY <2>1, <2>2, <3>3 DEF Decodes
  <2>3. CASE d = "accel"
    <3>1. /\ (accel.addr = Nil) <=> (t = <<>>)
          /\ t # <<>> => /\ accel.addr = (t[1] + (IF accel.auto THEN Len(t) - 1 ELSE 0)) % 64
                         /\ accel.read = (t[1] >= 128) /\ accel.auto = (t[1] % 128 >= 64)
      BY <1>4, <1>5, <2>3 DEF Decodes
    <3>2. accel' = AccelNext(accel, b) /\ accel'.addr # Nil
      BY <1>0, <2>1, <2>3, AccelFields
    <3>. DEFINE u == Append(t, b)
    <3>3. /\ accel'.addr = (u[1] + (IF accel'.auto THEN Len(u) - 1 ELSE 0)) % 64
          /\ accel'.read = (u[1] >= 128) /\ accel'.auto = (u[1] % 128 >= 64)
      BY <2>1, <3>1, <3>2, AccelDecode
    <3>. QED
      BY <2>1, <2>3, <3>2, <3>3 DEF Decodes
  <2>4. d \in Device
    BY <1>4, <1>5
  <2>. QED
    BY <2>2, <2>3, <2>4 DEF Device
<1>6. want'.ok \in BOOLEAN /\ want'.wren \in BOOLEAN
  BY <1>0 DEF Wanted
<1>7. Kept'
  <2>1. CASE "flash" \notin LowDevices
    <3>1. Selected # "flash"
      BY <2>1, SelectedFacts DEF LowDevices, Device
    <3>. QED
      BY <1>0, <2>1, <3>1 DEF Kept
  <2>2. CASE "flash" \in LowDevices
    <3>. DEFINE t == sent["flash"]
                u == Append(t, b)
                data == Tail(u)
    <3>1. /\ want'.ok = (want.ok /\ "flash" \in clean')
          /\ want'.wren = (want.wren \/ sent'["flash"] = <<Wren>>)
          /\ want'.mem = LET v == sent'["flash"] IN
               IF v[1] = PageProgram /\ Len(Tail(v)) > AddrLen /\ want.wren
               THEN Put(want.mem, AddrOf(Tail(v)) + Len(Tail(v)) - AddrLen - 1, Last(v)) ELSE want.mem
      BY <1>0, <2>2 DEF Wanted
    <3>2. ASSUME want'.ok PROVE flash'.wren = want'.wren /\ flash'.mem = want'.mem
      <4>1. want.ok /\ "flash" \in clean' /\ flash.wren = want.wren /\ flash.mem = want.mem
        BY <3>1, <3>2 DEF Kept
      <4>2. /\ t \in Seq(Byte) /\ sent'["flash"] = u /\ flash' = FlashNext(flash, b)
            /\ flash.cmd = (IF t = <<>> THEN Nil ELSE t[1]) /\ flash.buf = (IF t = <<>> THEN <<>> ELSE Tail(t))
        BY <1>0, <1>4, <4>1 DEF Decodes
      <4>3. /\ flash'.wren = (flash.wren \/ u = <<Wren>>)
            /\ flash'.mem = IF u[1] = PageProgram /\ Len(data) > AddrLen /\ flash.wren
                            THEN Put(flash.mem, AddrOf(data) + Len(data) - AddrLen - 1, Last(u)) ELSE flash.mem
        BY <4>2, FlashDecode
      <4>. QED
        BY <3>1, <4>1, <4>2, <4>3
    <3>. QED
      BY <3>2 DEF Kept
  <2>. QED
    BY <2>1, <2>2
<1>. QED
  BY <1>0, <1>1, <1>2, <1>3, <1>4, <1>5, <1>6, <1>7

(* The select pins: what changes is not yet told. *)
LEMMA SelectSteps ==
  ASSUME SpiInv, uses \in DOMAIN SpiByte, uses' = uses, NEW pins \in SUBSET Pin, SelectPins(pins)
  PROVE  SpiInv'
<1>. USE DEF SpiInv
<1>. DEFINE fell == {d \in Device : drives'[Cs(d)] = "0" /\ ~Low(d)}
            low == {d \in Device : drives'[Cs(d)] = "0"}
<1>1. /\ sent' = [d \in Device |-> IF d \in low \ fell THEN sent[d] ELSE <<>>]
      /\ clean' = (clean \cup fell) \cap low
      /\ edges' = edges \cup {d \in Device : drives'[Cs(d)] # drives[Cs(d)]}
      /\ UNCHANGED <<flash, accel, want>>
  BY DEF SelectPins
<1>2. \A d \in Device : Low(d)' <=> d \in low
  BY DEF Low, Cs
<1>3. sent' \in [Device -> Seq(Byte)] /\ clean' \subseteq Device /\ edges' \subseteq Device
  BY <1>1
<1>4. ASSUME NEW d \in clean'
      PROVE  Low(d)' /\ (d \in edges' => sent'[d] = <<>>) /\ (d \notin edges' => Decodes(d)')
  <2>1. d \in Device /\ d \in low
    BY <1>1, <1>4
  <2>2. CASE d \in fell
    <3>1. d \in edges' /\ sent'[d] = <<>>
      BY <1>1, <2>1, <2>2 DEF Low
    <3>. QED
      BY <1>2, <2>1, <3>1
  <2>3. CASE d \notin fell
    <3>1. d \in clean /\ sent'[d] = sent[d]
      BY <1>1, <1>4, <2>1, <2>3
    <3>2. Low(d)
      BY <2>1, <2>3
    <3>3. d \in edges' => d \in edges
      BY <1>1, <2>1, <3>2 DEF Low
    <3>4. edges \subseteq edges' /\ (Decodes(d) => Decodes(d)')
      BY <1>1, <3>1 DEF Decodes
    <3>. QED
      BY <1>2, <2>1, <3>1, <3>3, <3>4
  <2>. QED
    BY <2>2, <2>3
<1>. QED
  BY <1>1, <1>3, <1>4 DEF Kept

(* The announcement, which starts a transaction. *)
LEMMA TellSteps ==
  ASSUME SpiInv, uses' = uses, NEW d \in Device, Tell(d)
  PROVE  SpiInv'
<1>. USE DEF SpiInv
<1>1. /\ d \in edges /\ edges' = edges \ {d}
      /\ flash' = (IF d = "flash" THEN FlashTold(flash, Low(d)) ELSE flash)
      /\ accel' = (IF d = "accel" THEN AccelTold(accel, Low(d)) ELSE accel)
      /\ UNCHANGED <<sent, clean, want, drives>>
  BY DEF Tell, gpioVars
<1>2. Low(d) \in BOOLEAN /\ \A x \in Device : Low(x)' <=> Low(x)
  BY <1>1 DEF Low
<1>3. /\ FlashType(flash') /\ AccelType(accel') /\ flash'.wren = flash.wren /\ flash'.mem = flash.mem
      /\ d = "flash" /\ Low(d) => flash'.cmd = Nil /\ flash'.buf = <<>>
      /\ d = "accel" /\ Low(d) => accel'.addr = Nil
  <2>1. 0 \in Byte
    BY DEF Byte
  <2>. QED
    BY <1>1, <1>2, <2>1, FlashToldFields, AccelFields
<1>4. uses \in DOMAIN SpiByte
  BY <1>1
<1>5. ASSUME NEW x \in clean'
      PROVE  Low(x)' /\ (x \in edges' => sent'[x] = <<>>) /\ (x \notin edges' => Decodes(x)')
  <2>1. x \in Device /\ x \in clean /\ Low(x) /\ Low(x)' /\ (x \in edges' => x \in edges)
    BY <1>1, <1>2, <1>4, <1>5
  <2>2. CASE x = d
    <3>1. sent'[x] = <<>>
      BY <1>1, <1>4, <2>1, <2>2
    <3>. QED
      BY <1>3, <2>1, <2>2, <3>1 DEF Decodes, Device
  <2>3. CASE x # d
    <3>1. x \notin edges' => Decodes(x)
      BY <1>1, <1>4, <2>1, <2>3
    <3>2. x = "flash" => flash' = flash
      BY <1>1, <2>3
    <3>3. x = "accel" => accel' = accel
      BY <1>1, <2>3
    <3>4. Decodes(x) => Decodes(x)'
      BY <1>1, <2>1, <3>2, <3>3 DEF Decodes, Device
    <3>. QED
      BY <1>1, <1>4, <2>1, <3>1, <3>4
  <2>. QED
    BY <2>2, <2>3
<1>6. Kept'
  BY <1>1, <1>3 DEF Kept
<1>. QED
  BY <1>1, <1>3, <1>4, <1>5, <1>6

LEMMA SpiSteps == SpiInv /\ [Next]_vars => SpiInv'
<1>. SUFFICES ASSUME SpiInv, [Next]_vars PROVE SpiInv'
  OBVIOUS
<1>1. uses' = uses
  BY SpiProjected
<1>2. ASSUME UNCHANGED spiVars, uses \in DOMAIN SpiByte => UNCHANGED gpioVars PROVE SpiInv'
  <2>1. UNCHANGED <<flash, accel, edges, sent, clean, want>>
    BY <1>2 DEF spiVars
  <2>2. uses \in DOMAIN SpiByte => drives' = drives
    BY <1>2 DEF gpioVars
  <2>. QED
    BY <1>1, <2>1, <2>2 DEF SpiInv, FlashType, AccelType, Kept, Decodes, Low
<1>3. CASE uses \notin DOMAIN SpiByte
  BY <1>1, <1>2, <1>3, SpiProjected, TellSteps
<1>4. CASE uses \in DOMAIN SpiByte
  <2>1. ASSUME Spi PROVE SpiInv'
    <3>1. SpiByte[uses] \subseteq Byte
      BY <1>4, SpiAssumption
    <3>2. ASSUME SpiRead PROVE SpiInv'
      <4>1. UNCHANGED <<flash, accel, edges, sent, clean, want, drives>>
        BY <3>2 DEF SpiRead, gpioVars
      <4>. QED
        BY <1>1, <4>1 DEF SpiInv, FlashType, AccelType, Kept, Decodes, Low
    <3>. QED
      BY <1>1, <1>4, <2>1, <3>1, <3>2, SelectSteps, SpiWriteSteps DEF Spi
  <2>. QED
    BY <1>1, <1>2, <1>4, <2>1, SpiProjected, TellSteps DEF SpiStep
<1>. QED
  BY <1>3, <1>4

(* A clean transaction is decoded as its bytes say, and the flash holds    *)
(* what clean transactions asked for, for any pins, bytes, address length  *)
(* and order of slices and announcements.                                  *)
THEOREM TransactionsAreDecoded == Spec => []Decoded
<1>1. ASSUME SpiInv PROVE Decoded
  <2>1. ASSUME NEW d \in clean \ edges PROVE Decodes(d)
    BY <1>1, <2>1 DEF SpiInv
  <2>. QED
    BY <1>1, <2>1 DEF SpiInv, Decoded, Kept
<1>. QED
  BY <1>1, SpiStarts, SpiSteps, PTL DEF Spec
-----------------------------------------------------------------------------
(* What TypeOK says beyond these invariants.  The memories of the devices  *)
(* hold bytes, so that replies are bytes.                                  *)
Holding(f) == \A x \in DOMAIN f : f[x] \in Byte
Memories ==
  /\ rx \in Seq(Byte) /\ Holding(flash.mem)
  /\ DOMAIN accel.regs \subseteq 0 .. 63 /\ Holding(accel.regs)

LEMMA PutHolds ==
  ASSUME NEW f, Holding(f), NEW a, NEW b \in Byte
  PROVE  Holding(Put(f, a, b)) /\ DOMAIN Put(f, a, b) = DOMAIN f \cup {a}
BY DEF Holding, Put

LEMMA Replies ==
  ASSUME Memories, SpiInv, NEW b \in Byte
  PROVE  FlashReply(flash, b) \in Byte /\ AccelReply(accel) \in Byte
<1>1. \A f, a, x : Holding(f) /\ x \in Byte => At(f, a, x) \in Byte
  BY DEF Holding, At
<1>2. 0 \in Byte /\ 255 \in Byte /\ \A i \in 1 .. 3 : <<200, 64, 21>>[i] \in Byte
  BY DEF Byte
<1>3. AccelReply(accel) \in Byte
  BY <1>1, <1>2 DEF Memories, AccelReply
<1>. DEFINE buf == Append(flash.buf, b)
            there == At(flash.mem, AddrOf(buf) + Len(buf) - AddrLen - 1, 255)
<1>4. Len(buf) \in Nat \ {0} /\ there \in Byte
  BY <1>1, <1>2 DEF Memories, SpiInv, FlashType
<1>. HIDE DEF there
<1>5. FlashReply(flash, b) \in Byte
  <2>1. FlashReply(flash, b) =
          CASE flash.cmd = Jedec /\ Len(buf) <= 3 -> <<200, 64, 21>>[Len(buf)]
            [] flash.cmd = Status -> 0
            [] flash.cmd = Read /\ Len(buf) > AddrLen -> there
            [] OTHER -> 255
    BY DEF FlashReply, there
  <2>. HIDE DEF buf
  <2>2. Jedec # Status /\ Jedec # Read /\ Status # Read
    BY DEF Jedec, Status, Read
  <2>3. CASE flash.cmd = Jedec /\ Len(buf) <= 3
    <3>1. Len(buf) \in 1 .. 3
      <4>1. \A n \in Nat \ {0} : n <= 3 => n \in 1 .. 3
        OBVIOUS
      <4>. QED
        BY <1>4, <2>3, <4>1
    <3>. QED
      BY <1>2, <2>1, <2>2, <2>3, <3>1
  <2>4. CASE flash.cmd = Status
    BY <1>2, <2>1, <2>2, <2>4
  <2>5. CASE flash.cmd = Read /\ Len(buf) > AddrLen
    BY <1>4, <2>1, <2>2, <2>5
  <2>6. CASE ~(flash.cmd = Jedec /\ Len(buf) <= 3) /\ flash.cmd # Status
             /\ ~(flash.cmd = Read /\ Len(buf) > AddrLen)
    BY <1>2, <2>1, <2>6
  <2>. QED
    BY <2>3, <2>4, <2>5, <2>6
<1>. QED
  BY <1>3, <1>5

LEMMA MemoryStarts == Init => Memories
<1>. SUFFICES ASSUME Init PROVE Memories
  OBVIOUS
<1>1. rx = <<>> /\ flash.mem = <<>> /\ accel.regs = AccelStart.regs
  BY DEF Init, SpiInit, FlashStart
<1>2. Holding(<<>>) /\ <<>> \in Seq(Byte)
  BY DEF Holding
<1>3. DOMAIN AccelStart.regs \subseteq 0 .. 63 /\ Holding(AccelStart.regs)
  BY DEF AccelStart, Holding, Byte
<1>. QED
  BY <1>1, <1>2, <1>3 DEF Memories

LEMMA MemorySteps == SpiInv /\ Memories /\ [Next]_vars => Memories'
<1>. SUFFICES ASSUME SpiInv, Memories, [Next]_vars PROVE Memories'
  OBVIOUS
<1>1. ASSUME UNCHANGED rx, flash'.mem = flash.mem, accel'.regs = accel.regs PROVE Memories'
  BY <1>1 DEF Memories
<1>2. ASSUME NEW b \in Byte, SpiWrite(b) PROVE Memories'
  <2>1. FlashReply(flash, b) \in Byte /\ AccelReply(accel) \in Byte
    BY Replies
  <2>0. 255 \in Byte /\ Holding(flash.mem) /\ Holding(accel.regs)
    BY DEF Byte, Memories
  <2>2. \E r \in Byte : rx' = Append(rx, r)
    <3>1. rx' = Append(rx, CASE Selected = "flash" -> FlashReply(flash, b)
                            [] Selected = "accel" -> AccelReply(accel)
                            [] OTHER -> 255)
      BY <1>2 DEF SpiWrite
    <3>2. CASE Selected = "flash"
      BY <2>1, <3>1, <3>2
    <3>3. CASE Selected = "accel"
      BY <2>1, <3>1, <3>3
    <3>4. CASE Selected \notin {"flash", "accel"}
      BY <2>0, <3>1, <3>4
    <3>. QED
      BY <3>2, <3>3, <3>4
  <2>3. rx' \in Seq(Byte)
    BY <2>2, AppendProperties DEF Memories
  <2>4. Holding(flash'.mem)
    <3>1. CASE flash' = flash
      BY <3>1 DEF Memories
    <3>2. CASE flash' = FlashNext(flash, b)
      <4>1. flash'.mem = flash.mem \/ \E a : flash'.mem = Put(flash.mem, a, b)
        BY <3>2, FlashNextFields DEF SpiInv
      <4>2. ASSUME NEW a PROVE Holding(Put(flash.mem, a, b))
        BY <2>0, PutHolds
      <4>. QED
        BY <2>0, <4>1, <4>2
    <3>. QED
      BY <1>2, <3>1, <3>2 DEF SpiWrite
  <2>5. DOMAIN accel'.regs \subseteq 0 .. 63 /\ Holding(accel'.regs)
    <3>1. CASE accel' = accel
      BY <3>1 DEF Memories
    <3>2. CASE accel' = AccelNext(accel, b)
      <4>. DEFINE rec == [addr |-> accel.addr, read |-> accel.read, auto |-> accel.auto,
                          regs |-> accel.regs]
                  r == IF accel.read THEN accel.regs ELSE Put(accel.regs, accel.addr, b)
      <4>1. accel = rec /\ accel.addr \in 0 .. 63 \cup {Nil}
        BY DEF SpiInv, AccelType
      <4>2. accel'.regs = IF accel.addr = Nil THEN accel.regs ELSE r
        <5>1. CASE accel.addr = Nil
          <6>1. accel' = [rec EXCEPT !.read = b >= 128, !.auto = (b \div 64) % 2 = 1, !.addr = b % 64]
            BY <3>2, <4>1, <5>1 DEF AccelNext
          <6>. QED
            BY <5>1, <6>1
        <5>2. CASE accel.addr # Nil
          <6>. DEFINE n == IF accel.auto THEN (accel.addr + 1) % 64 ELSE accel.addr
          <6>1. accel' = [accel EXCEPT !.addr = n, !.regs = r]
            BY <3>2, <5>2 DEF AccelNext
          <6>. HIDE DEF n, r
          <6>2. accel' = [rec EXCEPT !.addr = n, !.regs = r]
            BY <4>1, <6>1
          <6>. QED
            BY <5>2, <6>2
        <5>. QED
          BY <5>1, <5>2
      <4>3. ASSUME accel.addr # Nil
            PROVE  /\ DOMAIN Put(accel.regs, accel.addr, b) \subseteq 0 .. 63
                   /\ Holding(Put(accel.regs, accel.addr, b))
        <5>1. accel.addr \in 0 .. 63 /\ DOMAIN accel.regs \subseteq 0 .. 63
          BY <4>1, <4>3 DEF Memories
        <5>2. /\ DOMAIN Put(accel.regs, accel.addr, b) = DOMAIN accel.regs \cup {accel.addr}
              /\ Holding(Put(accel.regs, accel.addr, b))
          BY <2>0, PutHolds
        <5>. QED
          BY <5>1, <5>2
      <4>. QED
        BY <2>0, <4>2, <4>3 DEF Memories
    <3>. QED
      BY <1>2, <3>1, <3>2 DEF SpiWrite
  <2>. QED
    BY <2>3, <2>4, <2>5 DEF Memories
<1>3. ASSUME NEW d \in Device, Tell(d) PROVE Memories'
  <2>1. Low(d) \in BOOLEAN /\ rx' = rx
    BY <1>3 DEF Low, Tell
  <2>2. flash'.mem = flash.mem
    BY <1>3, <2>1, FlashToldFields DEF Tell, SpiInv
  <2>3. accel'.regs = accel.regs
    <3>. DEFINE rec == [addr |-> accel.addr, read |-> accel.read, auto |-> accel.auto,
                        regs |-> accel.regs]
    <3>1. accel = rec
      BY DEF SpiInv, AccelType
    <3>2. accel' = accel \/ accel' = [rec EXCEPT !.addr = Nil]
      BY <1>3, <3>1 DEF Tell, AccelTold
    <3>. QED
      BY <3>2
  <2>. QED
    BY <1>1, <2>1, <2>2, <2>3
<1>4. CASE SpiRead
  <2>1. rx' \in Seq(Byte) /\ UNCHANGED <<flash, accel>>
    BY <1>4, HeadTailProperties DEF SpiRead, Memories
  <2>. QED
    BY <2>1 DEF Memories
<1>5. CASE uses \in DOMAIN SpiByte
  <2>1. SpiByte[uses] \subseteq Byte
    BY <1>5, SpiAssumption
  <2>2. ASSUME NEW pins, SelectPins(pins) PROVE Memories'
    BY <1>1, <2>2 DEF SelectPins
  <2>3. CASE UNCHANGED spiVars
    BY <1>1, <2>3 DEF spiVars
  <2>. QED
    BY <1>2, <1>3, <1>4, <1>5, <2>1, <2>2, <2>3, SpiProjected DEF SpiStep, Spi, spiVars
<1>6. CASE uses \notin DOMAIN SpiByte
  BY <1>1, <1>3, <1>6, SpiProjected DEF spiVars
<1>. QED
  BY <1>5, <1>6
-----------------------------------------------------------------------------
(* A timer has not counted more updates than units have passed since it    *)
(* was started: its counter cannot leave the horizon.                      *)
Requests == {IrqOf(l) : l \in Line} \cup {TimIrq}
Counted ==
  /\ high \subseteq Wired /\ seen \subseteq Line /\ irqs \subseteq Requests
  /\ now <= Horizon /\ tim.seen <= now - tim.t0

LEMMA CountStarts == Init => Counted
<1>. SUFFICES ASSUME Init PROVE Counted
  OBVIOUS
<1>1. /\ tim = [cen |-> FALSE, uie |-> FALSE, uif |-> FALSE, t0 |-> 0, seen |-> 0, period |-> Min(Period)]
      /\ now = 0 /\ high = {} /\ seen = {} /\ irqs = {}
  BY DEF Init, PinInit
<1>2. tim.t0 = 0 /\ tim.seen = 0
  BY <1>1
<1>. QED
  BY <1>1, <1>2, PinAssumption DEF Counted

LEMMA Pended ==
  ASSUME Counted, NEW ls \in SUBSET Line, Pend(ls)
  PROVE  irqs' \subseteq Requests
BY DEF Counted, Pend, Requests

LEMMA CountSteps == ExtiInv /\ TimInv /\ Counted /\ [PinStep]_<<pinVars, slicing>> => Counted'
<1>. SUFFICES ASSUME ExtiInv, TimInv, Counted, [PinStep]_<<pinVars, slicing>> PROVE Counted'
  OBVIOUS
<1>0. /\ tim.seen \in Nat /\ tim.t0 \in Nat /\ now \in Nat /\ tim.t0 <= now /\ tim.period \in Nat \ {0}
      /\ tim = [cen |-> tim.cen, uie |-> tim.uie, uif |-> tim.uif, t0 |-> tim.t0,
                seen |-> tim.seen, period |-> tim.period]
  BY PeriodFacts DEF TimInv, TimTypes
<1>1. ASSUME UNCHANGED <<high, seen, tim, now>>, irqs' \subseteq Requests PROVE Counted'
  BY <1>1 DEF Counted
<1>2. ASSUME NEW p \in Wired, Flip(p) PROVE Counted'
  <2>1. high' \subseteq Wired /\ UNCHANGED <<seen, tim, now, irqs>>
    BY <1>2 DEF Flip, Counted, timVars, mcuVars
  <2>. QED
    BY <2>1 DEF Counted
<1>3. ASSUME NEW p \in told, Edge(p) PROVE Counted'
  <2>1. seen' \subseteq Line /\ UNCHANGED <<high, tim, now>> /\ \E ls \in SUBSET Line : Pend(ls)
    BY <1>3 DEF Edge, timVars
  <2>2. irqs' \subseteq Requests
    BY <2>1, Pended
  <2>. QED
    BY <2>1, <2>2 DEF Counted
<1>4. ASSUME NEW ls \in SUBSET Line, WriteImr(ls) PROVE Counted'
  <2>1. seen' \subseteq Line /\ UNCHANGED <<high, tim, now, irqs>>
    BY <1>4 DEF WriteImr, Counted, timVars, mcuVars
  <2>. QED
    BY <2>1 DEF Counted
<1>5. ASSUME NEW ls \in SUBSET Line, WriteSwier(ls) PROVE Counted'
  <2>1. UNCHANGED <<high, seen, tim, now>> /\ Pend(ls)
    BY <1>5 DEF WriteSwier, timVars
  <2>. QED
    BY <1>1, <2>1, Pended
<1>6. ASSUME UNCHANGED <<high, seen, now, irqs>>, tim'.seen \in {0, tim.seen},
             tim'.t0 = tim.t0 \/ (tim'.t0 = now /\ tim'.seen = 0)
      PROVE  Counted'
  BY <1>0, <1>6 DEF Counted
<1>7. CASE Exti
  <2>1. ASSUME NEW ls \in SUBSET Line, WritePr(ls) PROVE Counted'
    BY <1>1, <2>1 DEF WritePr, timVars, mcuVars, Counted
  <2>2. ASSUME NEW rising, NEW falling, WriteTriggers(rising, falling) PROVE Counted'
    BY <1>1, <2>2 DEF WriteTriggers, timVars, mcuVars, Counted
  <2>3. ASSUME NEW l, NEW p, WriteExticr(l, p) PROVE Counted'
    BY <1>1, <2>3 DEF WriteExticr, timVars, mcuVars, Counted
  <2>. QED
    BY <1>4, <1>5, <1>7, <2>1, <2>2, <2>3 DEF Exti
<1>8. CASE Tim
  <2>. DEFINE rec == [cen |-> tim.cen, uie |-> tim.uie, uif |-> tim.uif, t0 |-> tim.t0,
                      seen |-> tim.seen, period |-> tim.period]
  <2>0. UNCHANGED <<high, seen, now, irqs>>
    BY <1>8 DEF Tim, WriteCr1, WriteDier, ClearUif, WritePeriod, extiVars, mcuVars
  <2>1. ASSUME NEW on \in BOOLEAN, WriteCr1(on) PROVE Counted'
    <3>1. CASE on /\ ~tim.cen
      <4>1. tim' = [rec EXCEPT !.cen = TRUE, !.t0 = now, !.seen = 0]
        BY <1>0, <2>1, <3>1 DEF WriteCr1
      <4>2. tim'.t0 = now /\ tim'.seen = 0
        BY <4>1
      <4>. QED
        BY <1>6, <2>0, <4>2
    <3>2. CASE ~(on /\ ~tim.cen)
      <4>1. tim' = [rec EXCEPT !.cen = on]
        BY <1>0, <2>1, <3>2 DEF WriteCr1
      <4>2. tim'.t0 = tim.t0 /\ tim'.seen = tim.seen
        BY <4>1
      <4>. QED
        BY <1>6, <2>0, <4>2
    <3>. QED
      BY <3>1, <3>2
  <2>2. ASSUME NEW x, tim' = [tim EXCEPT !.uie = x] \/ tim' = [tim EXCEPT !.uif = x]
                      \/ tim' = [tim EXCEPT !.period = x]
        PROVE  Counted'
    <3>1. tim'.t0 = tim.t0 /\ tim'.seen = tim.seen
      BY <1>0, <2>2
    <3>. QED
      BY <1>6, <2>0, <3>1
  <2>. QED
    BY <1>8, <2>1, <2>2 DEF Tim, WriteDier, ClearUif, WritePeriod
<1>9. CASE \E i \in irqs : Take(i)
  BY <1>1, <1>9 DEF Take, extiVars, timVars, Counted
<1>10. CASE StartSlice
  <2>. DEFINE u == (now - tim.t0) \div tim.period
  <2>1. /\ UNCHANGED <<high, seen, now>>
        /\ irqs' \subseteq irqs \cup {TimIrq}
        /\ tim' = tim \/ tim' = [tim EXCEPT !.seen = Updates, !.uif = TRUE]
    BY <1>10 DEF StartSlice, extiVars
  <2>2. u \in Nat /\ u <= now - tim.t0
    <3>1. \A a \in Nat, p \in Nat \ {0} : a \div p \in Nat /\ a \div p <= a
      OBVIOUS
    <3>. QED
      BY <1>0, <3>1
  <2>3. Updates = u
    BY DEF Updates
  <2>. HIDE DEF u
  <2>4. tim'.t0 = tim.t0 /\ tim'.seen \in {u, tim.seen}
    BY <1>0, <2>1, <2>3
  <2>5. irqs' \subseteq Requests
    BY <2>1 DEF Counted, Requests
  <2>. QED
    BY <2>1, <2>2, <2>4, <2>5 DEF Counted
<1>11. CASE EndSlice \/ Wfi \/ Alarm
  BY <1>1, <1>11 DEF EndSlice, Wfi, Alarm, extiVars, timVars, Counted
<1>12. CASE Elapse
  <2>1. /\ now' = now + 1 /\ now < Horizon /\ UNCHANGED <<high, seen, tim, irqs>>
    BY <1>12 DEF Elapse, extiVars, timVars
  <2>. QED
    BY <1>0, <2>1, PinAssumption DEF Counted
<1>13. CASE UNCHANGED <<pinVars, slicing>>
  BY <1>1, <1>13 DEF pinVars, extiVars, timVars, mcuVars, Counted
<1>. QED
  BY <1>2, <1>3, <1>7, <1>8, <1>9, <1>10, <1>11, <1>12, <1>13 DEF PinStep, PinFirmware, PinEvent
-----------------------------------------------------------------------------
(* The receiver's tick is at most a second away, and a connection has      *)
(* missed less than a timeout and an interval.                             *)
Waits ==
  /\ supply \in BOOLEAN /\ enable \in BOOLEAN /\ wait \in 0 .. Poll
  /\ ble.missed <= Timeout + Interval - 1
  /\ link.silent <= SilentCap /\ link.shortest <= Timeout

LEMMA WaitStarts == Init => Waits
BY WirelessAssumption DEF Init, WirelessInit, BleStart, Waits, SilentCap

LEMMA WaitSteps == BleInv /\ Waits /\ [WirelessStep]_wirelessVars => Waits'
<1>. SUFFICES ASSUME BleInv, Waits, [WirelessStep]_wirelessVars PROVE Waits'
  OBVIOUS
<1>0. /\ ble = [state |-> ble.state, connected |-> ble.connected, missed |-> ble.missed, load |-> ble.load]
      /\ link = [starved |-> link.starved, silent |-> link.silent, shortest |-> link.shortest]
      /\ ble.missed \in Nat /\ link.silent \in Nat /\ link.shortest \in Nat
      /\ Timeout \in Nat \ {0} /\ Interval \in Nat \ {0} /\ SilentCap = Timeout + Interval
      /\ Poll \in Nat \ {0}
  BY BleFacts, WirelessAssumption DEF BleInv
<1>1. ASSUME UNCHANGED bleVars, supply' \in BOOLEAN, enable' \in BOOLEAN, wait' \in 0 .. Poll
      PROVE  Waits'
  BY <1>1 DEF Waits, bleVars
<1>2. CASE (\E good \in BOOLEAN : Tick(good)) \/ SetSupply \/ SetEnable
  <2>1. Poll \in 0 .. Poll
    BY <1>0
  <2>. QED
    BY <1>1, <1>2, <2>1 DEF Tick, SetSupply, SetEnable, gnssVars, Waits
<1>3. ASSUME UNCHANGED <<supply, enable, wait>>,
             ble'.missed <= Timeout + Interval - 1, link'.silent <= SilentCap, link'.shortest <= Timeout
      PROVE  Waits'
  BY <1>3 DEF Waits
<1>4. CASE CentralConnect
  <2>0. UNCHANGED <<supply, enable, wait>>
    BY <1>4 DEF CentralConnect, gnssVars
  <2>1. CASE ble.state = "advertising" /\ supply
    <3>. DEFINE rec == [starved |-> link.starved, silent |-> link.silent, shortest |-> link.shortest]
    <3>0. /\ ble' = [state |-> "connected", connected |-> TRUE, missed |-> 0, load |-> "conn"]
          /\ link' = [link EXCEPT !.starved = FALSE, !.silent = 0]
      BY <1>4, <2>1 DEF CentralConnect
    <3>1. ble'.missed = 0 /\ link' = [rec EXCEPT !.starved = FALSE, !.silent = 0]
      BY <1>0, <3>0
    <3>2. link'.silent = 0 /\ link'.shortest = link.shortest
      BY <3>1
    <3>. QED
      BY <1>0, <1>3, <2>0, <3>1, <3>2 DEF Waits
  <2>2. CASE ~(ble.state = "advertising" /\ supply)
    BY <1>1, <1>4, <2>0, <2>2 DEF CentralConnect, Waits
  <2>. QED
    BY <2>1, <2>2
<1>5. ASSUME NEW lost \in BOOLEAN, ConnEvent(lost) PROVE Waits'
  <2>. DEFINE rec == [starved |-> link.starved, silent |-> link.silent, shortest |-> link.shortest]
              brec == [state |-> ble.state, connected |-> ble.connected, missed |-> ble.missed,
                       load |-> ble.load]
  <2>0. UNCHANGED <<supply, enable, wait>> /\ events # <<>>
    BY <1>5 DEF ConnEvent, gnssVars
  <2>1. ble.missed < Timeout
    BY <2>0 DEF BleInv
  <2>2. Missed(lost) \in Nat /\ Missed(lost) <= Timeout + Interval - 1
    BY <1>0, <2>1 DEF Missed
  <2>3. CASE ~ble.connected \/ ~supply
    <3>1. ble' = ble /\ \E s : link' = [rec EXCEPT !.starved = s]
      BY <1>0, <1>5, <2>3 DEF ConnEvent
    <3>2. link'.silent = link.silent /\ link'.shortest = link.shortest
      BY <3>1
    <3>. QED
      BY <1>3, <2>0, <3>1, <3>2 DEF Waits
  <2>4. CASE ble.connected /\ supply /\ lost /\ Missed(lost) >= Timeout
    <3>. DEFINE m == Min({link.shortest, link.silent})
    <3>1. ble' = [BleStart EXCEPT !.missed = Missed(lost)] /\ link' = [rec EXCEPT !.shortest = m]
      BY <1>0, <1>5, <2>4 DEF ConnEvent
    <3>2. m <= Timeout
      BY <1>0, MinOfTwo DEF Waits
    <3>. HIDE DEF m
    <3>3. ble'.missed = Missed(lost) /\ link'.silent = link.silent /\ link'.shortest = m
      BY <3>1 DEF BleStart
    <3>. QED
      BY <1>3, <2>0, <2>2, <3>2, <3>3 DEF Waits
  <2>5. CASE ble.connected /\ supply /\ ~(lost /\ Missed(lost) >= Timeout)
    <3>1. ble' = [brec EXCEPT !.missed = Missed(lost)]
          /\ link' = [rec EXCEPT !.silent = IF lost THEN link.silent ELSE 0]
      BY <1>0, <1>5, <2>5 DEF ConnEvent
    <3>2. ble'.missed = Missed(lost) /\ link'.silent \in {0, link.silent} /\ link'.shortest = link.shortest
      BY <3>1
    <3>. QED
      BY <1>0, <1>3, <2>0, <2>2, <3>2 DEF Waits
  <2>. QED
    BY <2>3, <2>4, <2>5
<1>6. CASE WirelessElapse
  <2>. DEFINE rec == [starved |-> link.starved, silent |-> link.silent, shortest |-> link.shortest]
              m == Min({link.silent + 1, SilentCap})
  <2>1. /\ wait > 0 /\ wait' = wait - 1 /\ UNCHANGED <<supply, enable, ble>>
        /\ link' = [rec EXCEPT !.silent = m]
    BY <1>0, <1>6 DEF WirelessElapse
  <2>2. m <= SilentCap
    <3>1. link.silent + 1 \in Nat /\ SilentCap \in Nat
      BY <1>0
    <3>2. m = IF link.silent + 1 <= SilentCap THEN link.silent + 1 ELSE SilentCap
      BY <3>1, MinOfTwo
    <3>. HIDE DEF m
    <3>. QED
      BY <3>1, <3>2
  <2>. HIDE DEF m
  <2>3. link'.silent = m /\ link'.shortest = link.shortest
    BY <2>1
  <2>4. wait' \in 0 .. Poll
    BY <1>0, <2>1 DEF Waits
  <2>. QED
    BY <2>1, <2>2, <2>3, <2>4 DEF Waits
<1>7. CASE UNCHANGED wirelessVars
  BY <1>1, <1>7 DEF wirelessVars, gnssVars, Waits
<1>. QED
  BY <1>2, <1>4, <1>5, <1>6, <1>7 DEF WirelessStep
-----------------------------------------------------------------------------
(* The board stays well typed, for any parts, pins, bytes, lines, periods  *)
(* and times: no reply of a device is more than a byte, no register of the *)
(* accelerometer's is beyond its 64, a sensor's answer is at most the four *)
(* bytes that the bus fetches, and no counter of a timer or of a link      *)
(* leaves its range.                                                       *)
THEOREM BoardIsTyped == Spec => []TypeOK
<1>. DEFINE Inv == /\ GpioInv /\ I2cInv /\ GnssInv /\ BleInv /\ ExtiInv /\ TimInv /\ SpiInv
                   /\ Memories /\ Counted /\ Waits /\ uses \in Uses
<1>1. Init => Inv
  <2>1. Init => uses \in Uses
    BY DEF Init
  <2>. QED
    BY <2>1, GpioStarts, I2cStarts, GnssStarts, BleStarts, ExtiStarts, TimStarts, SpiStarts,
       MemoryStarts, CountStarts, WaitStarts
<1>2. Inv /\ [Next]_vars => Inv'
  <2>1. [Next]_vars => uses' = uses
    BY SpiProjected
  <2>2. Inv /\ [Next]_vars => GpioInv' /\ I2cInv' /\ GnssInv' /\ BleInv' /\ Waits'
    BY Projected, GpioSteps, I2cSteps, GnssSteps, BleSteps, WaitSteps
  <2>3. Inv /\ [Next]_vars => ExtiInv' /\ TimInv' /\ Counted'
    BY PinProjected, ExtiSteps, TimSteps, CountSteps
  <2>4. Inv /\ [Next]_vars => SpiInv' /\ Memories'
    BY SpiSteps, MemorySteps
  <2>. QED
    BY <2>1, <2>2, <2>3, <2>4
<1>3. ASSUME Inv PROVE TypeOK
  <2>. USE <1>3
  <2>1. dir \subseteq Pin /\ odr \subseteq Pin /\ drives \in [Pin -> {"z", "0", "1"}]
    BY DEF GpioInv
  <2>2. SpiTypeOK
    BY DEF SpiInv, Memories, FlashType, AccelType, Command, SpiTypeOK
  <2>3. I2cTypeOK
    BY DEF I2cInv, I2cTypeOK
  <2>4. PinTypeOK
    <3>1. tim.t0 \in 0 .. Horizon /\ tim.seen \in 0 .. Horizon /\ now \in 0 .. Horizon
      BY PinAssumption DEF TimInv, TimTypes, Counted
    <3>2. tim \in [cen : BOOLEAN, uie : BOOLEAN, uif : BOOLEAN, t0 : 0 .. Horizon,
                   seen : 0 .. Horizon, period : Period]
      BY <3>1 DEF TimInv, TimTypes
    <3>. QED
      BY <3>1, <3>2 DEF ExtiInv, Counted, Requests, PinTypeOK
  <2>5. WirelessTypeOK
    <3>1. ble.missed \in 0 .. Timeout + Interval - 1 /\ link.silent \in 0 .. SilentCap
          /\ link.shortest \in 0 .. Timeout
      BY BleFacts DEF BleInv, Waits
    <3>2. /\ ble \in [state : {"advertising", "connected"}, connected : BOOLEAN,
                      missed : 0 .. Timeout + Interval - 1, load : {"adv", "conn"}]
          /\ link \in [starved : BOOLEAN, silent : 0 .. SilentCap, shortest : 0 .. Timeout]
      BY <3>1 DEF BleInv
    <3>3. events \in Seq(0 .. Interval)
      BY DEF BleInv
    <3>. QED
      BY <3>2, <3>3 DEF GnssInv, Waits, WirelessTypeOK
  <2>6. uses \in Uses /\ slicing \in BOOLEAN
    BY DEF TimInv
  <2>. QED
    BY <2>1, <2>2, <2>3, <2>4, <2>5, <2>6 DEF TypeOK
<1>. QED
  BY <1>1, <1>2, <1>3, PTL DEF Spec
=============================================================================
