------------------------- MODULE SerialPortsProofs -------------------------
(* Theorems about SerialPorts, for any ports, baud rates and buffers. *)
EXTENDS SerialPorts, SequenceTheorems, TLAPS

Delivery == [byte : Byte, due : Nat]

(* The deliveries w of a port with byte time t whose line is busy for b:  *)
(* one byte time apart, the last when the line becomes free.              *)
Train(w, b, t) ==
  /\ w \in Seq(Delivery)
  /\ b \in Nat
  /\ w = <<>> => b = 0
  /\ w # <<>> => b = w[Len(w)].due
  /\ \A i \in 1 .. Len(w) - 1 : w[i + 1].due = w[i].due + t

LineInv ==
  /\ DOMAIN wire = Port /\ wire = [p \in Port |-> wire[p]]
  /\ DOMAIN busy = Port /\ busy = [p \in Port |-> busy[p]]
  /\ \A p \in Port : Train(wire[p], busy[p], ByteTime[p])

Coming(data, b, t) ==
  [i \in 1 .. Len(data) |-> [byte |-> data[i], due |-> b + i * t]]
-----------------------------------------------------------------------------
LEMMA SendTrain ==
  ASSUME NEW w, NEW b, NEW t \in Nat \ {0}, Train(w, b, t), NEW data \in Seq(Byte)
  PROVE  Train(w \o Coming(data, b, t), b + Len(data) * t, t)
<1> DEFINE e == Coming(data, b, t)
           x == w \o e
<1>1. /\ e \in Seq(Delivery) /\ Len(e) = Len(data)
      /\ \A i \in 1 .. Len(data) : e[i].due = b + i * t
  <2>1. Len(data) \in Nat /\ \A i \in 1 .. Len(data) : data[i] \in Byte
    OBVIOUS
  <2>2. \A i \in 1 .. Len(data) : b + i * t \in Nat
    <3> TAKE i \in 1 .. Len(data)
    <3>1. i \in Nat /\ t \in Nat /\ b \in Nat
      BY <2>1 DEF Train
    <3>2. i * t \in Nat
      BY <3>1
    <3> QED BY <3>1, <3>2
  <2>3. e \in [1 .. Len(data) -> Delivery]
    BY <2>1, <2>2 DEF Coming, Delivery
  <2> QED BY <2>1, <2>3 DEF Coming
<1>2. w \in Seq(Delivery) /\ b \in Nat
  BY DEF Train
<1> HIDE DEF e
<1>3. /\ x \in Seq(Delivery) /\ Len(x) = Len(w) + Len(data)
      /\ \A i \in 1 .. Len(w) : x[i] = w[i]
      /\ \A i \in 1 .. Len(data) : x[Len(w) + i] = e[i]
  BY <1>1, <1>2
<1>4. b + Len(data) * t \in Nat
  BY <1>2
<1>5. x = <<>> => b + Len(data) * t = 0
  <2>1. x = <<>> => Len(data) = 0 /\ w = <<>>
    BY <1>2, <1>3
  <2> QED BY <2>1 DEF Train
<1>6. x # <<>> => b + Len(data) * t = x[Len(x)].due
  <2>1. CASE Len(data) = 0
    <3>1. x # <<>> => w # <<>> /\ x[Len(x)] = w[Len(w)]
      BY <1>2, <1>3, <2>1
    <3> QED BY <2>1, <3>1, <1>2 DEF Train
  <2>2. CASE Len(data) # 0
    <3>1. x[Len(x)] = e[Len(data)]
      BY <1>2, <1>3, <2>2
    <3> QED BY <1>1, <2>2, <3>1
  <2> QED BY <2>1, <2>2
<1>7. ASSUME NEW i \in 1 .. Len(x) - 1
      PROVE  x[i + 1].due = x[i].due + t
  <2>1. CASE i + 1 <= Len(w)
    BY <1>2, <1>3, <2>1 DEF Train
  <2>2. CASE i = Len(w)
    <3>1. w # <<>> /\ x[i] = w[Len(w)] /\ x[i + 1] = e[1]
      BY <1>2, <1>3, <2>2
    <3> QED BY <1>1, <1>3, <2>2, <3>1, <1>2 DEF Train
  <2>3. CASE i > Len(w)
    <3> DEFINE j == i - Len(w)
    <3>1. j \in 1 .. Len(data) - 1 /\ i = Len(w) + j /\ i + 1 = Len(w) + (j + 1)
      BY <1>2, <1>3, <2>3
    <3> HIDE DEF j
    <3>2. x[i] = e[j] /\ x[i + 1] = e[j + 1]
      BY <1>2, <1>3, <3>1
    <3>3. e[j].due = b + j * t /\ e[j + 1].due = b + (j + 1) * t
      <4>1. j \in 1 .. Len(data) /\ j + 1 \in 1 .. Len(data)
        BY <3>1
      <4> QED BY <1>1, <4>1
    <3>4. (j + 1) * t = j * t + t /\ j * t \in Int
      <4>1. j \in Int /\ t \in Int
        BY <3>1
      <4> QED BY <4>1
    <3> QED BY <1>2, <3>2, <3>3, <3>4
  <2> QED BY <1>2, <1>3, <2>1, <2>2, <2>3
<1> QED BY <1>3, <1>4, <1>5, <1>6, <1>7 DEF Train, e

LEMMA DeliverTrain ==
  ASSUME NEW w, NEW b, NEW t \in Nat \ {0}, Train(w, b, t),
         NEW i \in DOMAIN w, w[i].due = 0
  PROVE  /\ w # <<>> /\ i = 1 /\ RemoveAt(w, i) = Tail(w)
         /\ Train(Tail(w), b, t)
         /\ Tail(w) # <<>> => Tail(w)[1].due = t
<1>1. w \in Seq(Delivery) /\ w # <<>> /\ b \in Nat
  BY DEF Train
<1>2. \A j \in 1 .. Len(w) : w[j].due \in Nat
  <2>1. \A j \in 1 .. Len(w) : w[j] \in Delivery
    BY <1>1
  <2> QED BY <2>1 DEF Delivery
<1>3. i = 1
  <2>1. ASSUME i # 1 PROVE FALSE
    <3>1. i - 1 \in 1 .. Len(w) - 1 /\ (i - 1) + 1 = i
      BY <1>1, <2>1
    <3>2. w[i].due = w[i - 1].due + t
      BY <3>1 DEF Train
    <3> QED BY <1>1, <1>2, <3>1, <3>2
  <2> QED BY <2>1
<1>4. RemoveAt(w, 1) = Tail(w)
  BY <1>1 DEF RemoveAt
<1>5. /\ Tail(w) \in Seq(Delivery) /\ Len(Tail(w)) = Len(w) - 1
      /\ \A j \in 1 .. Len(w) - 1 : Tail(w)[j] = w[j + 1]
  BY <1>1
<1>6. Tail(w) = <<>> => b = 0
  <2>1. Tail(w) = <<>> => Len(Tail(w)) = 0
    OBVIOUS
  <2>2. Tail(w) = <<>> => Len(w) = 1
    BY <1>1, <1>5, <2>1
  <2> QED BY <1>1, <1>3, <2>2 DEF Train
<1>7. Tail(w) # <<>> => b = Tail(w)[Len(Tail(w))].due
  BY <1>1, <1>5 DEF Train
<1>8. \A j \in 1 .. Len(Tail(w)) - 1 : Tail(w)[j + 1].due = Tail(w)[j].due + t
  BY <1>1, <1>5 DEF Train
<1>9. Tail(w) # <<>> => Tail(w)[1].due = t
  BY <1>1, <1>3, <1>5 DEF Train
<1> QED BY <1>1, <1>3, <1>4, <1>5, <1>6, <1>7, <1>8, <1>9 DEF Train

Sooner(w) == [i \in DOMAIN w |-> [w[i] EXCEPT !.due = @ - 1]]

LEMMA ElapseTrain ==
  ASSUME NEW w, NEW b, NEW t \in Nat \ {0}, Train(w, b, t),
         \A i \in DOMAIN w : w[i].due > 0
  PROVE  /\ Train(Sooner(w), Left(b), t)
         /\ BytesOf(Sooner(w)) = BytesOf(w)
         /\ Len(Sooner(w)) = Len(w)
         /\ \A i \in 1 .. Len(w) : Sooner(w)[i].due = w[i].due - 1
<1> DEFINE x == Sooner(w)
<1>1. w \in Seq(Delivery) /\ b \in Nat /\ DOMAIN w = 1 .. Len(w) /\ Len(w) \in Nat
  BY DEF Train
<1>2. \A i \in 1 .. Len(w) : /\ x[i].due = w[i].due - 1 /\ x[i].byte = w[i].byte
                             /\ x[i] \in Delivery /\ w[i].due \in Nat
  <2>1. ASSUME NEW i \in 1 .. Len(w)
        PROVE  w[i] \in Delivery /\ w[i].due > 0 /\ x[i] = [w[i] EXCEPT !.due = @ - 1]
    BY <1>1 DEF Sooner
  <2>2. ASSUME NEW d \in Delivery, d.due > 0
        PROVE  LET n == [d EXCEPT !.due = @ - 1]
               IN  n.due = d.due - 1 /\ n.byte = d.byte /\ n \in Delivery /\ d.due \in Nat
    BY <2>2 DEF Delivery
  <2> QED BY <2>1, <2>2
<1>3. x \in Seq(Delivery) /\ Len(x) = Len(w) /\ DOMAIN x = 1 .. Len(w)
  <2>1. x \in [1 .. Len(w) -> Delivery]
    BY <1>1, <1>2 DEF Sooner
  <2> QED BY <1>1, <2>1
<1> HIDE DEF x
<1>4. Left(b) \in Nat /\ (x = <<>> => Left(b) = 0)
  BY <1>1, <1>3 DEF Left, Train
<1>5. x # <<>> => Left(b) = x[Len(x)].due
  <2>1. x # <<>> => w # <<>> /\ Len(w) \in 1 .. Len(w)
    BY <1>1, <1>3
  <2> QED BY <1>1, <1>2, <1>3, <2>1 DEF Left, Train
<1>6. \A i \in 1 .. Len(x) - 1 : x[i + 1].due = x[i].due + t
  BY <1>1, <1>2, <1>3 DEF Train
<1>7. BytesOf(x) = BytesOf(w)
  BY <1>1, <1>2, <1>3 DEF BytesOf
<1> QED BY <1>2, <1>3, <1>4, <1>5, <1>6, <1>7 DEF Train, x
-----------------------------------------------------------------------------
(* What the abstract lines are, in these terms. *)
LineOf(p) == BytesOf(wire[p])
ShiftOf(p) == IF wire[p] = <<>> THEN 0 ELSE wire[p][1].due

LineKept == LineInv' /\ [Lines!LineNext]_(Lines!lineVars)

LEMMA QuietStep ==
  ASSUME LineInv, UNCHANGED line
  PROVE  LineKept
<1>1. UNCHANGED <<wire, busy, heard>>
  BY DEF line
<1>2. LineInv'
  BY <1>1 DEF LineInv
<1>3. UNCHANGED Lines!lineVars
  BY <1>1 DEF Lines!lineVars
<1> QED BY <1>2, <1>3 DEF LineKept

LEMMA Concatenated ==
  ASSUME NEW S, NEW u \in Seq(S), NEW v \in Seq(S)
  PROVE  /\ u \o v \in Seq(S) /\ Len(u \o v) = Len(u) + Len(v)
         /\ \A i \in 1 .. Len(u) : (u \o v)[i] = u[i]
         /\ \A i \in 1 .. Len(v) : (u \o v)[Len(u) + i] = v[i]
         /\ SubSeq(u \o v, Len(u) + 1, Len(u \o v)) = v
<1> DEFINE y == u \o v
           z == SubSeq(y, Len(u) + 1, Len(y))
<1>1. /\ y \in Seq(S) /\ Len(y) = Len(u) + Len(v)
      /\ \A i \in 1 .. Len(u) + Len(v) : y[i] = IF i <= Len(u) THEN u[i] ELSE v[i - Len(u)]
  BY ConcatProperties
<1>2. Len(u) \in Nat /\ Len(v) \in Nat
  OBVIOUS
<1> HIDE DEF y
<1>3. \A i \in 1 .. Len(u) : y[i] = u[i]
  BY <1>1, <1>2
<1>4. ASSUME NEW i \in 1 .. Len(v) PROVE y[Len(u) + i] = v[i]
  <2>1. Len(u) + i \in 1 .. Len(u) + Len(v) /\ ~(Len(u) + i <= Len(u)) /\ (Len(u) + i) - Len(u) = i
    BY <1>2
  <2> QED BY <1>1, <2>1
<1>5. \A i \in Len(u) + 1 .. Len(y) : y[i] \in S
  BY <1>1, <1>2
<1>6. /\ z \in Seq(S)
      /\ Len(z) = IF Len(u) + 1 <= Len(y) THEN Len(y) - (Len(u) + 1) + 1 ELSE 0
      /\ \A i \in 1 .. Len(y) - (Len(u) + 1) + 1 : z[i] = y[Len(u) + 1 + i - 1]
  BY <1>1, <1>2, <1>5, SubSeqProperties
<1> HIDE DEF z
<1>7. Len(z) = Len(v)
  BY <1>1, <1>2, <1>6
<1>8. ASSUME NEW i \in 1 .. Len(z) PROVE z[i] = v[i]
  <2>1. i \in 1 .. Len(y) - (Len(u) + 1) + 1 /\ Len(u) + 1 + i - 1 = Len(u) + i /\ i \in 1 .. Len(v)
    BY <1>1, <1>2, <1>7
  <2> QED BY <1>4, <1>6, <2>1
<1>9. z = v
  BY <1>6, <1>7, <1>8, SeqEqual
<1> QED BY <1>1, <1>3, <1>4, <1>9 DEF y, z

LEMMA BytesFacts ==
  ASSUME NEW w \in Seq(Delivery)
  PROVE  /\ BytesOf(w) \in Seq(Byte) /\ Len(BytesOf(w)) = Len(w)
         /\ \A i \in 1 .. Len(w) : BytesOf(w)[i] = w[i].byte
         /\ BytesOf(w) = <<>> <=> w = <<>>
<1>1. Len(w) \in Nat /\ DOMAIN w = 1 .. Len(w) /\ \A i \in 1 .. Len(w) : w[i].byte \in Byte
  <2>1. \A i \in 1 .. Len(w) : w[i] \in Delivery
    OBVIOUS
  <2> QED BY <2>1 DEF Delivery
<1>2. BytesOf(w) \in [1 .. Len(w) -> Byte]
  BY <1>1 DEF BytesOf
<1>3. BytesOf(w) \in Seq(Byte) /\ Len(BytesOf(w)) = Len(w)
  BY <1>1, <1>2
<1>4. \A i \in 1 .. Len(w) : BytesOf(w)[i] = w[i].byte
  BY <1>1 DEF BytesOf
<1> QED BY <1>3, <1>4

LEMMA BytesAppended ==
  ASSUME NEW w \in Seq(Delivery), NEW b, NEW t, NEW data \in Seq(Byte),
         Coming(data, b, t) \in Seq(Delivery)
  PROVE  LET x == w \o Coming(data, b, t)
         IN  /\ BytesOf(x) = BytesOf(w) \o data
             /\ SubSeq(BytesOf(x), Len(BytesOf(w)) + 1, Len(BytesOf(x))) = data
<1> DEFINE e == Coming(data, b, t)
           x == w \o e
<1>1. /\ e \in Seq(Delivery)
      /\ Len(e) = Len(data) /\ Len(data) \in Nat /\ Len(w) \in Nat
      /\ DOMAIN w = 1 .. Len(w)
      /\ \A i \in 1 .. Len(data) : e[i].byte = data[i]
  BY DEF Coming
<1> HIDE DEF e
<1>2. /\ x \in Seq(Delivery) /\ Len(x) = Len(w) + Len(data) /\ DOMAIN x = 1 .. Len(x)
      /\ \A i \in 1 .. Len(w) : x[i] = w[i]
      /\ \A i \in 1 .. Len(data) : x[Len(w) + i] = e[i]
  BY <1>1, Concatenated
<1>4. /\ BytesOf(w) \in Seq(Byte) /\ Len(BytesOf(w)) = Len(w)
      /\ \A i \in 1 .. Len(w) : BytesOf(w)[i] = w[i].byte
  BY BytesFacts
<1>5. /\ BytesOf(x) \in Seq(Byte) /\ Len(BytesOf(x)) = Len(x)
      /\ \A i \in 1 .. Len(x) : BytesOf(x)[i] = x[i].byte
  BY <1>2, BytesFacts
<1> HIDE DEF x
<1> DEFINE y == BytesOf(w) \o data
<1>6. /\ y \in Seq(Byte) /\ Len(y) = Len(x)
      /\ \A i \in 1 .. Len(w) : y[i] = w[i].byte
      /\ \A i \in 1 .. Len(data) : y[Len(w) + i] = data[i]
      /\ SubSeq(y, Len(w) + 1, Len(y)) = data
  <2> DEFINE u == BytesOf(w)
  <2>1. u \in Seq(Byte)
    BY <1>4
  <2> HIDE DEF u
  <2>2. /\ u \o data \in Seq(Byte) /\ Len(u \o data) = Len(u) + Len(data)
        /\ \A i \in 1 .. Len(u) : (u \o data)[i] = u[i]
        /\ \A i \in 1 .. Len(data) : (u \o data)[Len(u) + i] = data[i]
        /\ SubSeq(u \o data, Len(u) + 1, Len(u \o data)) = data
    BY <2>1, Concatenated
  <2>3. Len(u) = Len(w) /\ \A i \in 1 .. Len(w) : u[i] = w[i].byte
    BY <1>4 DEF u
  <2> QED BY <1>2, <2>2, <2>3 DEF u
<1>7. \A i \in 1 .. Len(x) : BytesOf(x)[i] = y[i]
  <2> TAKE i \in 1 .. Len(x)
  <2>1. CASE i \in 1 .. Len(w)
    BY <1>2, <1>5, <1>6, <2>1
  <2>2. CASE i \notin 1 .. Len(w)
    <3> DEFINE k == i - Len(w)
    <3>1. k \in 1 .. Len(data) /\ i = Len(w) + k
      BY <1>1, <1>2, <2>2
    <3> HIDE DEF k
    <3> QED BY <1>1, <1>2, <1>5, <1>6, <3>1
  <2> QED BY <2>1, <2>2
<1> HIDE DEF y
<1>8. BytesOf(x) = y
  BY <1>5, <1>6, <1>7, SeqEqual
<1> QED BY <1>4, <1>6, <1>8 DEF x, e, y

LEMMA SendStep ==
  ASSUME LineInv, NEW p \in Port, NEW data \in Seq(Byte), Send(p, data)
  PROVE  LineKept
<1>1. CASE TxNet[p] = NoNet
  BY <1>1, QuietStep DEF Send
<1>2. CASE TxNet[p] # NoNet
  <2> DEFINE w == wire[p]
             e == Coming(data, busy[p], ByteTime[p])
             b == busy[p] + Len(data) * ByteTime[p]
  <2>1. /\ wire' = [wire EXCEPT ![p] = w \o e]
        /\ busy' = [busy EXCEPT ![p] = b]
        /\ heard' = heard
    BY <1>2 DEF Send, DueAt, Coming
  <2>2. ByteTime[p] \in Nat \ {0} /\ Train(w, busy[p], ByteTime[p])
    BY SerialAssumption DEF LineInv
  <2>3. Train(w \o e, b, ByteTime[p])
    BY <2>2, SendTrain
  <2>4. w \in Seq(Delivery) /\ e \in Seq(Delivery)
    <3>1. Len(data) \in Nat /\ \A i \in 1 .. Len(data) : data[i] \in Byte
      OBVIOUS
    <3>2. ASSUME NEW i \in 1 .. Len(data)
          PROVE  [byte |-> data[i], due |-> busy[p] + i * ByteTime[p]] \in Delivery
      <4>1. i \in Nat /\ ByteTime[p] \in Nat /\ busy[p] \in Nat
        BY <2>2, <3>1 DEF Train
      <4>2. i * ByteTime[p] \in Nat
        BY <4>1
      <4> QED BY <3>1, <4>1, <4>2 DEF Delivery
    <3>3. e \in [1 .. Len(data) -> Delivery]
      BY <3>1, <3>2 DEF Coming
    <3> QED BY <2>2, <3>1, <3>3 DEF Train
  <2>5. /\ BytesOf(w \o e) = BytesOf(w) \o data
        /\ SubSeq(BytesOf(w \o e), Len(BytesOf(w)) + 1, Len(BytesOf(w \o e))) = data
    BY <2>4, BytesAppended
  <2> HIDE DEF b
  <2>6. LineInv'
    BY <2>1, <2>3 DEF LineInv
  <2>7. /\ wire'[p] = w \o e
        /\ \A q \in Port \ {p} : wire'[q] = wire[q]
    BY <2>1 DEF LineInv
  <2>8. CASE data = <<>>
    <3>1. w \o e = w
      <4>1. e = <<>>
        BY <2>8 DEF Coming
      <4> QED BY <2>4, <4>1, ConcatEmptySeq
    <3>2. wire' = wire
      BY <2>1, <3>1 DEF LineInv
    <3> QED BY <2>1, <2>6, <3>2 DEF LineKept, Lines!lineVars
  <2>9. CASE data # <<>>
    <3> DEFINE lines == [q \in Port |-> BytesOf(wire[q])]
    <3>1. lines' = [lines EXCEPT ![p] = BytesOf(w) \o data]
      BY <2>5, <2>7 DEF LineInv
    <3>2. Lines!Accepted(p) = data
      BY <2>5, <2>7 DEF Lines!Accepted
    <3>3. BytesOf(w) = <<>> <=> w = <<>>
      BY <2>4, BytesFacts
    <3>4. w = <<>> => ShiftOf(p)' = ByteTime[p]
      <4>1. ASSUME w = <<>> PROVE w \o e # <<>> /\ (w \o e)[1] = e[1]
        <5>1. w \o e = e /\ Len(e) = Len(data) /\ Len(data) > 0
          BY <2>4, <2>9, <4>1, ConcatEmptySeq DEF Coming
        <5> QED BY <5>1
      <4>2. e[1].due = busy[p] + ByteTime[p]
        <5>1. 1 \in 1 .. Len(data)
          BY <2>9
        <5>2. e[1].due = busy[p] + 1 * ByteTime[p]
          BY <5>1 DEF Coming
        <5> QED BY <2>2, <5>2
      <4>3. w = <<>> => busy[p] = 0
        BY <2>2 DEF Train
      <4> QED BY <2>2, <2>7, <4>1, <4>2, <4>3 DEF ShiftOf
    <3>5. w # <<>> => ShiftOf(p)' = ShiftOf(p)
      <4>1. w # <<>> => w \o e # <<>> /\ (w \o e)[1] = w[1]
        <5>1. w # <<>> => 1 \in 1 .. Len(w)
          BY <2>4
        <5>2. \A i \in 1 .. Len(w) : (w \o e)[i] = w[i]
          BY <2>4, Concatenated
        <5>3. w # <<>> => w \o e # <<>>
          BY <2>4, ConcatEqualIffEmpty
        <5> QED BY <5>1, <5>2, <5>3
      <4> QED BY <2>7, <4>1 DEF ShiftOf
    <3>6. \A q \in Port \ {p} : ShiftOf(q)' = ShiftOf(q)
      BY <2>7 DEF ShiftOf
    <3>7. [q \in Port |-> ShiftOf(q)]' =
            [[q \in Port |-> ShiftOf(q)] EXCEPT ![p] =
               IF Lines!Sending(p) THEN @ ELSE ByteTime[p]]
      BY <3>3, <3>4, <3>5, <3>6 DEF Lines!Sending
    <3>8. Lines!Accept(p, Lines!Accepted(p))
      <4> HIDE DEF lines
      <4>1. Lines!Accepted(p) # <<>>
        BY <2>9, <3>2
      <4>2. lines' = [lines EXCEPT ![p] = BytesOf(w) \o Lines!Accepted(p)]
        BY <3>1, <3>2
      <4> QED BY <2>1, <4>1, <4>2, <3>7 DEF Lines!Accept, ShiftOf, lines
    <3>9. Lines!LineNext
      BY <3>8 DEF Lines!LineNext
    <3> QED BY <2>6, <3>9 DEF LineKept
  <2> QED BY <2>8, <2>9
<1> QED BY <1>1, <1>2

LEMMA DeliverStep ==
  ASSUME LineInv, NEW p \in Port, Deliver(p)
  PROVE  LineKept
<1> DEFINE w == wire[p]
<1>1. PICK i \in DOMAIN w :
        /\ w[i].due = 0
        /\ wire' = [wire EXCEPT ![p] = RemoveAt(w, i)]
        /\ heard' = [heard EXCEPT ![p] = w[i].byte]
        /\ busy' = busy
  BY DEF Deliver, IsNext
<1>2. ByteTime[p] \in Nat \ {0} /\ Train(w, busy[p], ByteTime[p])
  BY SerialAssumption DEF LineInv
<1>3. /\ w # <<>> /\ i = 1 /\ RemoveAt(w, i) = Tail(w)
      /\ Train(Tail(w), busy[p], ByteTime[p])
      /\ Tail(w) # <<>> => Tail(w)[1].due = ByteTime[p]
  BY <1>1, <1>2, DeliverTrain
<1>4. wire' = [wire EXCEPT ![p] = Tail(w)]
  BY <1>1, <1>3
<1>5. LineInv'
  BY <1>1, <1>3, <1>4 DEF LineInv
<1>6. wire'[p] = Tail(w) /\ \A q \in Port \ {p} : wire'[q] = wire[q]
  BY <1>4 DEF LineInv
<1>7. w \in Seq(Delivery)
  BY <1>2 DEF Train
<1>8. /\ BytesOf(w) # <<>> /\ Head(BytesOf(w)) = w[1].byte
      /\ BytesOf(Tail(w)) = Tail(BytesOf(w))
      /\ BytesOf(Tail(w)) = <<>> <=> Tail(w) = <<>>
  <2>1. /\ Tail(w) \in Seq(Delivery) /\ Len(Tail(w)) = Len(w) - 1 /\ Len(w) \in Nat
        /\ \A j \in 1 .. Len(w) - 1 : Tail(w)[j] = w[j + 1]
    BY <1>3, <1>7
  <2>2. BytesOf(w) # <<>> /\ (BytesOf(Tail(w)) = <<>> <=> Tail(w) = <<>>)
    BY <1>3, <1>7, <2>1, BytesFacts
  <2>4. /\ BytesOf(w) \in Seq(Byte) /\ Len(BytesOf(w)) = Len(w)
        /\ \A j \in 1 .. Len(w) : BytesOf(w)[j] = w[j].byte
    BY <1>7, BytesFacts
  <2>5. /\ BytesOf(Tail(w)) \in Seq(Byte) /\ Len(BytesOf(Tail(w))) = Len(w) - 1
        /\ \A j \in 1 .. Len(w) - 1 : BytesOf(Tail(w))[j] = w[j + 1].byte
    <3> DEFINE v == Tail(w)
    <3>1. /\ v \in Seq(Delivery) /\ Len(v) = Len(w) - 1
          /\ \A j \in 1 .. Len(w) - 1 : v[j] = w[j + 1]
      BY <2>1
    <3> HIDE DEF v
    <3>2. /\ BytesOf(v) \in Seq(Byte) /\ Len(BytesOf(v)) = Len(v)
          /\ \A j \in 1 .. Len(v) : BytesOf(v)[j] = v[j].byte
      BY <3>1, BytesFacts
    <3> QED BY <3>1, <3>2 DEF v
  <2>6. Tail(BytesOf(w)) \in Seq(Byte) /\ Len(Tail(BytesOf(w))) = Len(w) - 1
        /\ \A j \in 1 .. Len(w) - 1 : Tail(BytesOf(w))[j] = w[j + 1].byte
    <3> DEFINE u == BytesOf(w)
    <3> HIDE DEF u
    <3>1. u \in Seq(Byte) /\ u # <<>> /\ Len(u) = Len(w)
      BY <2>2, <2>4 DEF u
    <3>2. Tail(u) \in Seq(Byte) /\ Len(Tail(u)) = Len(u) - 1
          /\ \A j \in 1 .. Len(u) - 1 : Tail(u)[j] = u[j + 1]
      BY <3>1
    <3>3. \A j \in 1 .. Len(w) - 1 : u[j + 1] = w[j + 1].byte
      <4> TAKE j \in 1 .. Len(w) - 1
      <4>1. j + 1 \in 1 .. Len(w)
        BY <2>1
      <4> QED BY <2>4, <4>1 DEF u
    <3> QED BY <3>1, <3>2, <3>3 DEF u
  <2>7. BytesOf(Tail(w)) = Tail(BytesOf(w))
    BY <2>5, <2>6, SeqEqual
  <2>8. Head(BytesOf(w)) = w[1].byte
    <3>1. 1 \in 1 .. Len(w)
      BY <1>3, <1>7
    <3> QED BY <2>4, <3>1
  <2> QED BY <2>2, <2>7, <2>8
<1> DEFINE lines == [q \in Port |-> BytesOf(wire[q])]
           shifts == [q \in Port |-> ShiftOf(q)]
<1>9. lines' = [lines EXCEPT ![p] = Tail(@)]
  BY <1>6, <1>8 DEF LineInv
<1>10. ShiftOf(p) = 0
  BY <1>1, <1>3 DEF ShiftOf
<1>11. ShiftOf(p)' = IF Tail(w) = <<>> THEN 0 ELSE ByteTime[p]
  BY <1>3, <1>6 DEF ShiftOf
<1>12. \A q \in Port \ {p} : ShiftOf(q)' = ShiftOf(q)
  BY <1>6 DEF ShiftOf
<1>13. shifts' = [shifts EXCEPT ![p] =
          IF Tail(lines[p]) = <<>> THEN 0 ELSE ByteTime[p]]
  BY <1>8, <1>11, <1>12
<1>14. lines[p] = BytesOf(w) /\ shifts[p] = 0
       /\ heard' = [heard EXCEPT ![p] = Head(lines[p])]
  BY <1>1, <1>3, <1>8, <1>10
<1>15. Lines!Emit(p)
  BY <1>8, <1>9, <1>13, <1>14 DEF Lines!Emit, Lines!Sending, ShiftOf
<1> QED BY <1>5, <1>15 DEF LineKept, Lines!LineNext

LEMMA ElapseStep ==
  ASSUME LineInv, Elapse
  PROVE  LineKept
<1>1. /\ wire' = [p \in Port |-> Sooner(wire[p])]
      /\ busy' = [p \in Port |-> Left(busy[p])]
      /\ heard' = heard
  BY DEF Elapse, line, Sooner
<1>2. ASSUME NEW p \in Port
      PROVE  /\ Train(Sooner(wire[p]), Left(busy[p]), ByteTime[p])
             /\ BytesOf(Sooner(wire[p])) = BytesOf(wire[p])
             /\ Len(Sooner(wire[p])) = Len(wire[p])
             /\ \A i \in 1 .. Len(wire[p]) : Sooner(wire[p])[i].due = wire[p][i].due - 1
             /\ \A i \in 1 .. Len(wire[p]) : wire[p][i].due \in Nat \ {0}
             /\ wire[p] \in Seq(Delivery)
  <2>1. Train(wire[p], busy[p], ByteTime[p]) /\ ByteTime[p] \in Nat \ {0}
    BY SerialAssumption DEF LineInv
  <2>2. \A i \in DOMAIN wire[p] : wire[p][i].due > 0
    BY DEF Elapse
  <2>3. wire[p] \in Seq(Delivery) /\ \A i \in 1 .. Len(wire[p]) : wire[p][i] \in Delivery
    BY <2>1 DEF Train
  <2>4. \A i \in 1 .. Len(wire[p]) : wire[p][i].due \in Nat \ {0}
    BY <2>2, <2>3 DEF Delivery
  <2> QED BY <2>1, <2>2, <2>3, <2>4, ElapseTrain
<1>3. LineInv'
  BY <1>1, <1>2 DEF LineInv
<1>4. ASSUME NEW p \in Port
      PROVE  /\ LineOf(p)' = LineOf(p)
             /\ LineOf(p) # <<>> <=> wire[p] # <<>>
             /\ wire[p] # <<>> => ShiftOf(p) > 0 /\ ShiftOf(p)' = ShiftOf(p) - 1
             /\ wire[p] = <<>> => ShiftOf(p)' = 0
  <2>1. wire'[p] = Sooner(wire[p])
    BY <1>1
  <2>2. LineOf(p)' = LineOf(p) /\ (LineOf(p) # <<>> <=> wire[p] # <<>>)
    BY <1>2, <2>1, BytesFacts DEF LineOf
  <2>3. Sooner(wire[p]) = <<>> <=> wire[p] = <<>>
    <3>1. Sooner(wire[p]) \in Seq(Delivery)
      BY <1>2 DEF Train
    <3> QED BY <1>2, <3>1
  <2>4. wire[p] # <<>> => 1 \in 1 .. Len(wire[p])
    BY <1>2
  <2> QED BY <1>2, <2>1, <2>2, <2>3, <2>4 DEF ShiftOf
<1>5. Lines!Elapse
  BY <1>1, <1>4 DEF Lines!Elapse, Lines!Sending, LineOf, ShiftOf
<1> QED BY <1>3, <1>5 DEF LineKept, Lines!LineNext

(* What firmware and handlers do never touches a line but by Send.  *)
LEMMA LineStep ==
  ASSUME LineInv, [Next]_vars
  PROVE  LineKept
<1>1. ASSUME NEW p \in Port, Deliver(p) PROVE LineKept
  BY <1>1, DeliverStep
<1>2. CASE Elapse
  BY <1>2, ElapseStep
<1>3. ASSUME NEW p \in Usart \cup Polled, NEW b \in Byte, WriteDr(p, b) PROVE LineKept
  <2>1. <<b>> \in Seq(Byte)
    OBVIOUS
  <2> QED BY <1>3, <2>1, SendStep DEF WriteDr, Port
<1>4. ASSUME NEW q \in Uarte, StartTx(q) PROVE LineKept
  <2>1. PICK data \in SeqOf(Byte, MaxCnt) : Send(q, data)
    BY <1>4 DEF StartTx
  <2>2. data \in Seq(Byte)
    BY SerialAssumption DEF SeqOf
  <2> QED BY <2>1, <2>2, SendStep DEF Port
<1>5. ASSUME NEW q, ReadDr(q) \/ WriteCr1(q) \/ StartRx(q) \/ StopRx(q) \/ WriteRxd(q)
                    \/ WriteInten(q) \/ ClearEvent(q)
                    \/ TakeIrq(q) \/ LastLook(q) \/ HandlerReturn(q)
      PROVE  LineKept
  BY <1>5, QuietStep DEF ReadDr, WriteCr1, StartRx, StopRx, WriteRxd, WriteInten,
     ClearEvent, TakeIrq, LastLook, HandlerReturn
<1>6. CASE UNCHANGED vars
  BY <1>6, QuietStep DEF vars
<1> QED BY <1>1, <1>2, <1>3, <1>4, <1>5, <1>6 DEF Next

(* A port is a shift register at its baud rate, whatever is sent when and  *)
(* for any number of ports: Uart.send neither loses, doubles, reorders nor  *)
(* overlaps bytes.                                                         *)
THEOREM LinesAreShiftRegisters == Spec => ImplementsByteLine
<1>1. Init => LineInv /\ Lines!LineInit
  <2> SUFFICES ASSUME Init PROVE LineInv /\ Lines!LineInit
    OBVIOUS
  <2>1. \A t : Train(<<>>, 0, t)
    BY DEF Train
  <2>2. BytesOf(<<>>) = <<>>
    BY DEF BytesOf
  <2>3. LineInv
    BY <2>1 DEF Init, LineInv
  <2>4. Lines!LineInit
    BY <2>2 DEF Init, Lines!LineInit
  <2> QED BY <2>3, <2>4
<1> QED BY <1>1, LineStep, PTL DEF Spec, LineKept, ImplementsByteLine, Lines!LineSpec
-----------------------------------------------------------------------------
(* The receivers. *)
Dma == [ptr : Buffer \cup {NoBuffer}, max : 0 .. MaxCnt, armed : BOOLEAN,
        count : 0 .. MaxCnt, amount : 0 .. MaxCnt,
        events : SUBSET Event, inten : SUBSET Event]
Ram == [Buffer -> [1 .. MaxCnt -> Byte \cup {NoByte}]]
Reception == [buf : Buffer \cup {NoBuffer}, max : 0 .. MaxCnt,
              bytes : Seq(Byte), same : BOOLEAN]

(* DmaFaithful of one UARTE, and what ties an open reception to registers. *)
Got(r) == IF Len(r.bytes) < r.max THEN Len(r.bytes) ELSE r.max
Faithful(d, m, r) ==
  /\ d.armed => d.ptr # NoBuffer
  /\ d.armed /\ r.same => d.ptr = r.buf /\ d.max = r.max
  /\ r.same =>
       /\ r.buf # NoBuffer
       /\ d.count = Got(r)
       /\ \A i \in 1 .. Got(r) : m[r.buf][i] = r.bytes[i]
       /\ d.armed => Len(r.bytes) < r.max \/ r.bytes = <<>>
       /\ ~d.armed => d.amount = Got(r)

Filled(d, m, b) == IF Stores(d) THEN [m EXCEPT ![d.ptr][d.count + 1] = b] ELSE m
Longer(d, r, b) == IF d.armed THEN [r EXCEPT !.bytes = Append(@, b)] ELSE r

LEMMA ReceiveFaithful ==
  ASSUME NEW d \in Dma, NEW m \in Ram, NEW r \in Reception, NEW b \in Byte,
         Faithful(d, m, r)
  PROVE  /\ Received(d) \in Dma /\ Filled(d, m, b) \in Ram
         /\ Longer(d, r, b) \in Reception
         /\ Faithful(Received(d), Filled(d, m, b), Longer(d, r, b))
         /\ Received(d).inten = d.inten /\ d.events \subseteq Received(d).events
         /\ Raises(d, RxEvents(d)) \subseteq Received(d).events \cap d.inten
<1> USE SerialAssumption
<1> DEFINE e == Received(d)
           n == Filled(d, m, b)
           s == Longer(d, r, b)
<1>1. /\ e \in Dma /\ e.ptr = d.ptr /\ e.max = d.max /\ e.inten = d.inten
      /\ e.events = d.events \cup (RxEvents(d) \cap Event)
      /\ e.count = CountAfter(d)
      /\ e.armed = (d.armed /\ ~Ends(d))
      /\ e.amount = IF Ends(d) THEN CountAfter(d) ELSE d.amount
  <2>1. CountAfter(d) \in 0 .. MaxCnt
    BY DEF CountAfter, Stores, Dma
  <2>2. CASE Ends(d)
    BY <2>1, <2>2 DEF Received, Latch, Finish, Dma
  <2>3. CASE ~Ends(d)
    BY <2>1, <2>3 DEF Received, Latch, Dma
  <2> QED BY <2>2, <2>3
<1>2. n \in Ram /\ (Stores(d) => d.ptr \in Buffer /\ d.count + 1 \in 1 .. MaxCnt)
  <2>1. CASE Stores(d)
    <3>1. d.ptr \in Buffer /\ d.count + 1 \in 1 .. MaxCnt
      BY <2>1 DEF Stores, Dma, Faithful
    <3> QED BY <2>1, <3>1 DEF Filled, Ram
  <2> QED BY <2>1 DEF Filled
<1>3. /\ s \in Reception /\ s.buf = r.buf /\ s.max = r.max /\ s.same = r.same
      /\ s.bytes = IF d.armed THEN Append(r.bytes, b) ELSE r.bytes
  <2>1. r.bytes \in Seq(Byte)
    BY DEF Reception
  <2>2. Append(r.bytes, b) \in Seq(Byte)
    BY <2>1
  <2> QED BY <2>2 DEF Longer, Reception
<1>4. CASE ~d.armed
  <2>1. e.armed = FALSE /\ e.count = d.count /\ e.amount = d.amount /\ n = m /\ s = r
    BY <1>1, <1>4 DEF Ends, CountAfter, Stores, Filled, Longer, Dma
  <2>2. Faithful(e, n, s)
    BY <1>4, <2>1 DEF Faithful
  <2>3. Raises(d, RxEvents(d)) \subseteq e.events \cap d.inten
    BY <1>1 DEF Raises, Dma
  <2> QED BY <1>1, <1>2, <1>3, <2>2, <2>3
<1>5. CASE d.armed
  <2>1. ~r.same => Faithful(e, n, s)
    BY <1>1, <1>3, <1>5 DEF Faithful
  <2>2. ASSUME r.same PROVE Faithful(e, n, s)
    <3> DEFINE k == Len(r.bytes)
    <3>1. /\ k \in Nat /\ r.bytes \in Seq(Byte) /\ r.max \in 0 .. MaxCnt
          /\ Len(s.bytes) = k + 1 /\ s.bytes # <<>>
          /\ s.bytes[k + 1] = b /\ \A i \in 1 .. k : s.bytes[i] = r.bytes[i]
      <4>1. r.bytes \in Seq(Byte) /\ r.max \in 0 .. MaxCnt /\ s.bytes = Append(r.bytes, b)
        BY <1>3, <1>5 DEF Reception
      <4> HIDE DEF s
      <4>2. /\ Append(r.bytes, b) # <<>> /\ Len(Append(r.bytes, b)) = Len(r.bytes) + 1
            /\ Append(r.bytes, b)[Len(r.bytes) + 1] = b
            /\ \A i \in 1 .. Len(r.bytes) : Append(r.bytes, b)[i] = r.bytes[i]
        BY <4>1, AppendProperties
      <4> QED BY <4>1, <4>2
    <3>2. /\ d.ptr = r.buf /\ d.max = r.max /\ d.count = Got(r)
          /\ r.buf # NoBuffer /\ r.buf \in Buffer
          /\ \A i \in 1 .. Got(r) : m[r.buf][i] = r.bytes[i]
          /\ k < r.max \/ k = 0
      BY <1>5, <2>2 DEF Faithful, Reception
    <3>3. CASE k < r.max
      <4>1. Got(r) = k /\ Got(s) = k + 1
        BY <1>3, <3>1, <3>3 DEF Got
      <4>2. Stores(d) /\ e.count = k + 1 /\ e.armed = (k + 1 < r.max)
        BY <1>1, <1>5, <3>1, <3>2, <3>3, <4>1 DEF Stores, CountAfter, Ends
      <4>3. n[r.buf] = [m[r.buf] EXCEPT ![k + 1] = b]
        BY <3>2, <4>1, <4>2 DEF Filled, Ram
      <4>4. \A i \in 1 .. k + 1 : n[r.buf][i] = s.bytes[i]
        <5>1. m[r.buf] \in [1 .. MaxCnt -> Byte \cup {NoByte}]
          BY <3>2 DEF Ram
        <5>2. k + 1 \in 1 .. MaxCnt
          BY <3>1, <3>3
        <5> QED BY <3>1, <3>2, <4>1, <4>3, <5>1, <5>2
      <4>5. ~e.armed => e.amount = k + 1
        BY <1>1, <1>5, <4>2
      <4> QED BY <1>1, <1>3, <3>1, <3>2, <4>1, <4>2, <4>4, <4>5 DEF Faithful
    <3>4. CASE ~(k < r.max)
      <4>1. r.max = 0 /\ Got(r) = 0 /\ Got(s) = 0
        BY <1>3, <3>1, <3>2, <3>4 DEF Got
      <4>2. ~Stores(d) /\ Ends(d) /\ CountAfter(d) = 0
        BY <1>5, <3>2, <4>1 DEF Stores, Ends, CountAfter
      <4>3. ~e.armed /\ e.count = 0 /\ e.amount = 0
        BY <1>1, <4>2
      <4>4. s.buf # NoBuffer /\ \A i \in 1 .. Got(s) : n[s.buf][i] = s.bytes[i]
        BY <1>3, <3>2, <4>1
      <4> HIDE DEF e, n, s
      <4> QED BY <4>1, <4>3, <4>4 DEF Faithful
    <3> QED BY <3>3, <3>4
  <2>3. Raises(d, RxEvents(d)) \subseteq e.events \cap d.inten
    BY <1>1 DEF Raises, Dma
  <2> QED BY <1>1, <1>2, <1>3, <2>1, <2>2, <2>3 DEF Reception
<1> QED BY <1>4, <1>5 DEF Dma

Fifo == Seq([byte : Byte, told : BOOLEAN])

(* The inductive invariant of the receivers: an interrupt is owed only for *)
(* an event that is latched and enabled, so the handler's last look finds  *)
(* it, and each reception is faithful.                                     *)
RxInv ==
  /\ fifo \in [Usart \cup Polled -> Fifo]
  /\ rxneie \in [Usart -> BOOLEAN]
  /\ dma \in [Uarte -> Dma] /\ ram \in [Uarte -> Ram] /\ run \in [Uarte -> Reception]
  /\ told \in [Uarte -> SUBSET Event]
  /\ pending \subseteq Driven /\ phase \in [Driven -> {"idle", "serving", "leaving"}]
  /\ \A q \in Uarte : told[q] \subseteq dma[q].events \cap dma[q].inten
  /\ \A q \in Uarte : Faithful(dma[q], ram[q], run[q])
  /\ NothingForgotten

LEMMA RxUntouched ==
  ASSUME RxInv, UNCHANGED <<receivers, pending, phase>>
  PROVE  RxInv'
BY DEF RxInv, receivers, NothingForgotten, Raised

(* A UARTE's registers change to d, with t owed and r received.  *)
LEMMA UarteStep ==
  ASSUME RxInv, NEW q \in Uarte, NEW d \in Dma, NEW r \in Reception, NEW t,
         t \subseteq d.events \cap d.inten,
         t = {} \/ t \subseteq told[q] \/ q \in pending',
         Faithful(d, ram[q], r),
         dma' = [dma EXCEPT ![q] = d],
         told' = [told EXCEPT ![q] = t],
         run' = [run EXCEPT ![q] = r],
         pending \subseteq pending', pending' \subseteq pending \cup {q},
         UNCHANGED <<fifo, rxneie, ram, phase>>
  PROVE  RxInv'
<1>1. /\ dma'[q] = d /\ told'[q] = t /\ run'[q] = r
      /\ \A p \in Uarte \ {q} : dma'[p] = dma[p] /\ told'[p] = told[p] /\ run'[p] = run[p]
  BY DEF RxInv
<1>2. t \subseteq Event
  BY DEF Dma
<1>3. /\ dma' \in [Uarte -> Dma] /\ run' \in [Uarte -> Reception]
      /\ told' \in [Uarte -> SUBSET Event] /\ pending' \subseteq Driven
  BY <1>2 DEF RxInv, Driven
<1>4. \A p \in Uarte : told'[p] \subseteq dma'[p].events \cap dma'[p].inten
  BY <1>1 DEF RxInv
<1>5. \A p \in Uarte : Faithful(dma'[p], ram[p], run'[p])
  BY <1>1 DEF RxInv
<1>6. NothingForgotten'
  <2> SUFFICES ASSUME NEW p \in Driven, Raised(p)'
               PROVE  p \in pending' \/ phase[p] = "serving"
    BY DEF NothingForgotten
  <2>1. CASE p \in Usart
    BY <2>1 DEF RxInv, NothingForgotten, Raised
  <2>2. CASE p \notin Usart /\ p # q
    BY <1>1, <2>2 DEF RxInv, NothingForgotten, Raised, Driven
  <2>3. CASE p \notin Usart /\ p = q
    BY <1>1, <2>3 DEF RxInv, NothingForgotten, Raised, Driven
  <2> QED BY <2>1, <2>2, <2>3
<1> QED BY <1>3, <1>4, <1>5, <1>6 DEF RxInv

(* Events: what is raised for an enabled event is owed and pended at once. *)
LEMMA EventsStep ==
  ASSUME RxInv, NEW q \in Uarte, NEW d \in Dma, NEW r \in Reception, NEW es,
         d.inten = dma[q].inten, dma[q].events \subseteq d.events,
         Faithful(Latch(d, es), ram[q], r),
         run' = [run EXCEPT ![q] = r], Events(q, d, es)
  PROVE  RxInv'
<1>1. /\ Latch(d, es) \in Dma
      /\ Latch(d, es).events = d.events \cup (es \cap Event)
      /\ Latch(d, es).inten = d.inten
  BY DEF Latch, Dma
<1> DEFINE t == told[q] \cup Raises(d, es)
<1>2. t \subseteq Latch(d, es).events \cap Latch(d, es).inten
  BY <1>1 DEF RxInv, Raises, Dma
<1>3. told' = [told EXCEPT ![q] = t]
  BY DEF Events
<1>4. t \subseteq told[q] \/ q \in pending'
  BY DEF Events
<1>5. pending \subseteq pending' /\ pending' \subseteq pending \cup {q}
  BY DEF Events
<1> QED BY <1>1, <1>2, <1>3, <1>4, <1>5, UarteStep DEF Events

LEMMA FirmwareStep ==
  ASSUME RxInv, NEW q \in Uarte,
         StartTx(q) \/ StartRx(q) \/ StopRx(q) \/ WriteRxd(q)
           \/ WriteInten(q) \/ ClearEvent(q)
  PROVE  RxInv'
<1> USE SerialAssumption
<1> DEFINE d == dma[q]
           r == run[q]
<1>1. d \in Dma /\ r \in Reception /\ Faithful(d, ram[q], r) /\ r = run[q]
      /\ told[q] \subseteq d.events \cap d.inten
  BY DEF RxInv
<1>2. CASE StartTx(q)
  <2> DEFINE es == {"TXDRDY", "ENDTX"}
  <2>1. Faithful(Latch(d, es), ram[q], r)
    BY <1>1 DEF Latch, Dma, Faithful
  <2>2. run' = [run EXCEPT ![q] = r] /\ Events(q, d, es)
    BY <1>2 DEF StartTx, RxInv
  <2> QED BY <1>1, <2>1, <2>2, EventsStep
<1>3. CASE StartRx(q)
  <2> DEFINE s == [buf |-> d.ptr, max |-> d.max, bytes |-> <<>>, same |-> TRUE]
  <2>1. d.ptr # NoBuffer /\ run' = [run EXCEPT ![q] = s] /\ Events(q, Arm(d), {})
    BY <1>3 DEF StartRx
  <2>2. Arm(d) \in Dma /\ Arm(d).inten = d.inten /\ d.events \subseteq Arm(d).events
    <3>1. 0 \in 0 .. MaxCnt
      OBVIOUS
    <3>2. [d EXCEPT !.armed = TRUE] \in Dma
      BY <1>1 DEF Dma
    <3> QED BY <1>1, <3>1, <3>2 DEF Arm, Dma
  <2>3. s \in Reception
    BY <1>1 DEF Dma, Reception
  <2>4. Got(s) = 0
    BY <1>1 DEF Got, Dma
  <2>5. Faithful(Latch(Arm(d), {}), ram[q], s)
    <3>1. /\ Latch(Arm(d), {}).ptr = d.ptr /\ Latch(Arm(d), {}).max = d.max
          /\ Latch(Arm(d), {}).armed = TRUE /\ Latch(Arm(d), {}).count = 0
      BY <1>1 DEF Latch, Arm, Dma
    <3>2. s.buf = d.ptr /\ s.max = d.max /\ s.bytes = <<>> /\ s.same
      OBVIOUS
    <3> HIDE DEF s
    <3>3. \A i \in 1 .. Got(s) : ram[q][s.buf][i] = s.bytes[i]
      BY <2>4
    <3> QED BY <2>1, <2>4, <3>1, <3>2, <3>3 DEF Faithful
  <2> QED BY <2>1, <2>2, <2>3, <2>5, EventsStep
<1>4. CASE StopRx(q)
  <2>1. d.armed /\ run' = [run EXCEPT ![q] = r] /\ Events(q, Finish(d), {"ENDRX"})
    BY <1>4 DEF StopRx, RxInv
  <2>2. Finish(d) \in Dma /\ Finish(d).inten = d.inten /\ d.events \subseteq Finish(d).events
    BY <1>1 DEF Finish, Dma
  <2>3. Faithful(Latch(Finish(d), {"ENDRX"}), ram[q], r)
    BY <1>1, <2>1 DEF Faithful, Latch, Finish, Dma
  <2> QED BY <1>1, <2>1, <2>2, <2>3, EventsStep
<1>5. CASE WriteRxd(q)
  <2>1. PICK b \in Buffer, n \in 0 .. MaxCnt :
          /\ Events(q, [d EXCEPT !.ptr = b, !.max = n], {})
          /\ run' = [run EXCEPT ![q].same = @ /\ ~d.armed]
    BY <1>5 DEF WriteRxd
  <2> DEFINE e == [d EXCEPT !.ptr = b, !.max = n]
             s == [r EXCEPT !.same = @ /\ ~d.armed]
  <2>2. e \in Dma /\ e.inten = d.inten /\ d.events \subseteq e.events
    BY <1>1 DEF Dma
  <2>3. s \in Reception /\ run' = [run EXCEPT ![q] = s]
    BY <1>1, <2>1 DEF Reception, Dma
  <2>4. Faithful(Latch(e, {}), ram[q], s)
    <3>1. /\ s.buf = r.buf /\ s.max = r.max /\ s.bytes = r.bytes
          /\ s.same = (r.same /\ ~d.armed) /\ Got(s) = Got(r)
      BY <1>1 DEF Reception, Got
    <3>2. /\ Latch(e, {}).ptr = b /\ Latch(e, {}).armed = d.armed
          /\ Latch(e, {}).count = d.count /\ Latch(e, {}).amount = d.amount
      BY <1>1 DEF Latch, Dma
    <3> QED BY <1>1, <3>1, <3>2 DEF Faithful
  <2> QED BY <2>1, <2>2, <2>3, <2>4, EventsStep
<1>6. CASE WriteInten(q)
  <2>1. PICK e \in Event :
          /\ dma' = [dma EXCEPT ![q].inten = IF e \in @ THEN @ \ {e} ELSE @ \cup {e}]
          /\ told' = [told EXCEPT ![q] = @ \ {e}]
          /\ UNCHANGED <<run, pending, fifo, rxneie, ram, phase>>
    BY <1>6 DEF WriteInten
  <2> DEFINE x == [d EXCEPT !.inten = IF e \in @ THEN @ \ {e} ELSE @ \cup {e}]
  <2>2. /\ x \in Dma /\ dma' = [dma EXCEPT ![q] = x]
    BY <1>1, <2>1 DEF Dma
  <2>3. Faithful(x, ram[q], r) /\ run' = [run EXCEPT ![q] = r]
    BY <1>1, <2>1 DEF Faithful, Dma, RxInv
  <2> DEFINE t == told[q] \ {e}
  <2>4. /\ told' = [told EXCEPT ![q] = t] /\ t \subseteq told[q]
        /\ t \subseteq x.events \cap x.inten
        /\ pending \subseteq pending' /\ pending' \subseteq pending \cup {q}
        /\ UNCHANGED <<fifo, rxneie, ram, phase>>
    BY <1>1, <2>1 DEF Dma
  <2>5. t = {} \/ t \subseteq told[q] \/ q \in pending'
    BY <2>4
  <2> HIDE DEF x, t, d, r
  <2> QED BY <1>1, <2>2, <2>3, <2>4, <2>5, UarteStep, Zenon
<1>7. CASE ClearEvent(q)
  <2>1. PICK e \in d.events :
          /\ dma' = [dma EXCEPT ![q].events = @ \ {e}]
          /\ told' = [told EXCEPT ![q] = @ \ {e}]
          /\ UNCHANGED <<run, pending, fifo, rxneie, ram, phase>>
    BY <1>7 DEF ClearEvent, firmware
  <2> DEFINE x == [d EXCEPT !.events = @ \ {e}]
  <2>2. /\ x \in Dma /\ dma' = [dma EXCEPT ![q] = x]
    BY <1>1, <2>1 DEF Dma
  <2>3. Faithful(x, ram[q], r) /\ run' = [run EXCEPT ![q] = r]
    BY <1>1, <2>1 DEF Faithful, Dma, RxInv
  <2> DEFINE t == told[q] \ {e}
  <2>4. /\ told' = [told EXCEPT ![q] = t] /\ t \subseteq told[q]
        /\ t \subseteq x.events \cap x.inten
        /\ pending \subseteq pending' /\ pending' \subseteq pending \cup {q}
        /\ UNCHANGED <<fifo, rxneie, ram, phase>>
    BY <1>1, <2>1 DEF Dma
  <2>5. t = {} \/ t \subseteq told[q] \/ q \in pending'
    BY <2>4
  <2> HIDE DEF x, t, d, r
  <2> QED BY <1>1, <2>2, <2>3, <2>4, <2>5, UarteStep, Zenon
<1> QED BY <1>2, <1>3, <1>4, <1>5, <1>6, <1>7

(* A byte arrives: it pends the interrupt of each driver it was raised for. *)
LEMMA ReceiveStep ==
  ASSUME RxInv, LineInv, NEW p \in Port, Deliver(p)
  PROVE  RxInv'
<1> DEFINE qs == Listening(p)
<1>1. PICK i \in DOMAIN wire[p] :
        LET b == wire[p][i].byte IN
        /\ fifo' = [q \in Usart \cup Polled |->
             IF q \notin qs THEN fifo[q]
             ELSE Append(fifo[q], [byte |-> b, told |-> q \in Usart /\ rxneie[q]])]
        /\ ram' = [q \in Uarte |->
             IF q \in qs /\ Stores(dma[q])
             THEN [ram[q] EXCEPT ![dma[q].ptr][dma[q].count + 1] = b] ELSE ram[q]]
        /\ dma' = [q \in Uarte |-> IF q \in qs THEN Received(dma[q]) ELSE dma[q]]
        /\ told' = [q \in Uarte |-> IF q \in qs
             THEN told[q] \cup Raises(dma[q], RxEvents(dma[q])) ELSE told[q]]
        /\ run' = [q \in Uarte |-> IF q \in qs /\ dma[q].armed
             THEN [run[q] EXCEPT !.bytes = Append(@, b)] ELSE run[q]]
        /\ pending' = pending \cup {q \in qs \cap Driven : Pends(q)}
        /\ rxneie' = rxneie /\ phase' = phase
  BY DEF Deliver
<1> DEFINE b == wire[p][i].byte
<1>2. b \in Byte
  <2>1. wire[p] \in Seq(Delivery)
    BY DEF LineInv, Train
  <2>2. wire[p][i] \in Delivery
    BY <1>1, <2>1
  <2> QED BY <2>2 DEF Delivery
<1> HIDE DEF qs, b
<1>3. ASSUME NEW q \in Uarte
      PROVE  /\ dma'[q] \in Dma /\ ram'[q] \in Ram /\ run'[q] \in Reception
             /\ told'[q] \in SUBSET Event
             /\ told'[q] \subseteq dma'[q].events \cap dma'[q].inten
             /\ Faithful(dma'[q], ram'[q], run'[q])
  <2>1. /\ dma[q] \in Dma /\ ram[q] \in Ram /\ run[q] \in Reception
        /\ told[q] \subseteq dma[q].events \cap dma[q].inten
        /\ Faithful(dma[q], ram[q], run[q])
    BY DEF RxInv
  <2>2. CASE q \in qs
    <3>1. /\ dma'[q] = Received(dma[q]) /\ ram'[q] = Filled(dma[q], ram[q], b)
          /\ run'[q] = Longer(dma[q], run[q], b)
          /\ told'[q] = told[q] \cup Raises(dma[q], RxEvents(dma[q]))
      BY <1>1, <2>2 DEF Filled, Longer, b
    <3>2. /\ Received(dma[q]) \in Dma /\ Filled(dma[q], ram[q], b) \in Ram
          /\ Longer(dma[q], run[q], b) \in Reception
          /\ Faithful(Received(dma[q]), Filled(dma[q], ram[q], b), Longer(dma[q], run[q], b))
          /\ Received(dma[q]).inten = dma[q].inten
          /\ dma[q].events \subseteq Received(dma[q]).events
          /\ Raises(dma[q], RxEvents(dma[q])) \subseteq Received(dma[q]).events \cap dma[q].inten
      BY <1>2, <2>1, ReceiveFaithful
    <3>3. Received(dma[q]).events \subseteq Event
      BY <3>2 DEF Dma
    <3> QED BY <2>1, <3>1, <3>2, <3>3
  <2>3. CASE q \notin qs
    <3>1. dma'[q] = dma[q] /\ ram'[q] = ram[q] /\ run'[q] = run[q] /\ told'[q] = told[q]
      BY <1>1, <2>3
    <3> QED BY <2>1, <3>1 DEF RxInv
  <2> QED BY <2>2, <2>3
<1>4. /\ dma' \in [Uarte -> Dma] /\ ram' \in [Uarte -> Ram]
      /\ run' \in [Uarte -> Reception] /\ told' \in [Uarte -> SUBSET Event]
  <2>1. /\ dma' = [q \in Uarte |-> dma'[q]] /\ ram' = [q \in Uarte |-> ram'[q]]
        /\ run' = [q \in Uarte |-> run'[q]] /\ told' = [q \in Uarte |-> told'[q]]
    BY <1>1
  <2> QED BY <1>3, <2>1
<1>5. ASSUME NEW q \in Usart \cup Polled
      PROVE  /\ fifo'[q] \in Fifo
             /\ fifo'[q] = fifo[q] \/ (q \in qs /\ q \in Usart => rxneie[q] \/
                  \A j \in DOMAIN fifo'[q] : fifo'[q][j].told =>
                    \E k \in DOMAIN fifo[q] : fifo[q][k].told)
  <2> DEFINE e == [byte |-> b, told |-> q \in Usart /\ rxneie[q]]
  <2>1. fifo[q] \in Fifo /\ e \in [byte : Byte, told : BOOLEAN]
    BY <1>2 DEF RxInv
  <2>2. fifo'[q] = IF q \notin qs THEN fifo[q] ELSE Append(fifo[q], e)
    BY <1>1 DEF b
  <2>3. e.told = (q \in Usart /\ rxneie[q])
    OBVIOUS
  <2> HIDE DEF e
  <2>4. Append(fifo[q], e) \in Fifo
    BY <2>1 DEF Fifo
  <2>5. ASSUME q \in Usart, ~rxneie[q], NEW j \in DOMAIN Append(fifo[q], e),
               Append(fifo[q], e)[j].told
        PROVE  \E k \in DOMAIN fifo[q] : fifo[q][k].told
    <3>1. /\ DOMAIN Append(fifo[q], e) = 1 .. Len(fifo[q]) + 1
          /\ DOMAIN fifo[q] = 1 .. Len(fifo[q]) /\ Len(fifo[q]) \in Nat
          /\ Append(fifo[q], e)[Len(fifo[q]) + 1] = e
          /\ \A k \in 1 .. Len(fifo[q]) : Append(fifo[q], e)[k] = fifo[q][k]
      BY <2>1, <2>4, AppendProperties DEF Fifo
    <3>2. j # Len(fifo[q]) + 1
      BY <2>3, <2>5, <3>1
    <3>3. j \in DOMAIN fifo[q]
      BY <3>1, <3>2
    <3> QED BY <2>5, <3>1, <3>3
  <2> QED BY <2>1, <2>2, <2>4, <2>5
<1>6. fifo' \in [Usart \cup Polled -> Fifo]
  <2>1. fifo' = [q \in Usart \cup Polled |-> fifo'[q]]
    BY <1>1
  <2> QED BY <1>5, <2>1
<1>7. pending' \subseteq Driven /\ pending \subseteq pending'
  BY <1>1 DEF RxInv
<1>8. NothingForgotten'
  <2> SUFFICES ASSUME NEW q \in Driven, Raised(q)'
               PROVE  q \in pending' \/ phase'[q] = "serving"
    BY DEF NothingForgotten
  <2>1. Raised(q) => q \in pending' \/ phase'[q] = "serving"
    BY <1>1, <1>7 DEF RxInv, NothingForgotten
  <2>2. CASE q \in Usart
    <3>1. ~Raised(q) => q \in qs /\ rxneie[q]
      BY <1>5, <2>2, <1>1 DEF Raised
    <3>2. q \in qs /\ rxneie[q] => q \in pending'
      BY <1>1, <2>2 DEF Pends, RxPends
    <3> QED BY <2>1, <3>1, <3>2
  <2>3. CASE q \notin Usart
    <3>1. q \in Uarte
      BY <2>3 DEF Driven
    <3>2. ~Raised(q) => q \in qs /\ Raises(dma[q], RxEvents(dma[q])) # {}
      BY <1>1, <2>3, <3>1 DEF Raised
    <3>3. q \in qs /\ Raises(dma[q], RxEvents(dma[q])) # {} => q \in pending'
      BY <1>1, <2>3 DEF Pends
    <3> QED BY <2>1, <3>2, <3>3
  <2> QED BY <2>2, <2>3
<1> QED BY <1>1, <1>3, <1>4, <1>6, <1>7, <1>8 DEF RxInv

(* Reading bytes leaves no new ones that the interrupt is owed for.  *)
LEMMA ReadStep ==
  ASSUME RxInv, NEW q \in Usart \cup Polled, ReadDr(q)
  PROVE  RxInv'
<1>1. /\ fifo[q] # <<>> /\ fifo' = [fifo EXCEPT ![q] = Tail(@)]
      /\ UNCHANGED <<rxneie, dma, ram, told, run, pending, phase>>
  BY DEF ReadDr, firmware
<1>2. fifo[q] \in Fifo
  BY DEF RxInv
<1>3. /\ Tail(fifo[q]) \in Fifo /\ DOMAIN Tail(fifo[q]) = 1 .. Len(fifo[q]) - 1
      /\ DOMAIN fifo[q] = 1 .. Len(fifo[q]) /\ Len(fifo[q]) \in Nat
      /\ \A j \in 1 .. Len(fifo[q]) - 1 : Tail(fifo[q])[j] = fifo[q][j + 1]
  BY <1>1, <1>2, HeadTailProperties DEF Fifo
<1>4. fifo' \in [Usart \cup Polled -> Fifo]
  BY <1>1, <1>3 DEF RxInv
<1>5. ASSUME NEW p \in Usart, NEW j \in DOMAIN fifo'[p], fifo'[p][j].told
      PROVE  \E k \in DOMAIN fifo[p] : fifo[p][k].told
  <2>1. CASE p = q
    <3>1. fifo'[p] = Tail(fifo[q])
      BY <1>1, <2>1 DEF RxInv
    <3>2. j + 1 \in DOMAIN fifo[q] /\ fifo[q][j + 1].told
      BY <1>3, <1>5, <3>1
    <3> QED BY <2>1, <3>2
  <2>2. CASE p # q
    BY <1>1, <1>5, <2>2 DEF RxInv
  <2> QED BY <2>1, <2>2
<1>6. NothingForgotten'
  BY <1>1, <1>5 DEF RxInv, NothingForgotten, Raised
<1> QED BY <1>1, <1>4, <1>6 DEF RxInv

(* CR1 only decides about later bytes.  *)
LEMMA EnableStep ==
  ASSUME RxInv, NEW q \in Usart, WriteCr1(q)
  PROVE  RxInv'
<1>1. /\ rxneie' = [rxneie EXCEPT ![q] = ~@]
      /\ UNCHANGED <<fifo, dma, ram, told, run, pending, phase>>
  BY DEF WriteCr1
<1>2. rxneie' \in [Usart -> BOOLEAN]
  BY <1>1 DEF RxInv
<1> QED BY <1>1, <1>2 DEF RxInv, NothingForgotten, Raised

(* The handler takes the interrupt before it looks, and stops looking only *)
(* when nothing that is enabled is left, hence nothing it is owed for.     *)
LEMMA HandlerStep ==
  ASSUME RxInv, NEW q \in Driven, TakeIrq(q) \/ LastLook(q) \/ HandlerReturn(q)
  PROVE  RxInv'
<1>1. UNCHANGED receivers
  BY DEF TakeIrq, LastLook, HandlerReturn
<1>2. \A p : Raised(p)' <=> Raised(p)
  BY <1>1 DEF receivers, Raised
<1>3. /\ pending' \subseteq pending /\ phase' \in [Driven -> {"idle", "serving", "leaving"}]
      /\ \A p \in Driven \ {q} : phase'[p] = phase[p] /\ (p \in pending => p \in pending')
  BY DEF TakeIrq, LastLook, HandlerReturn, RxInv
<1>4. Raised(q) => q \in pending' \/ phase'[q] = "serving"
  <2>1. CASE TakeIrq(q)
    BY <2>1 DEF TakeIrq, RxInv
  <2>2. CASE LastLook(q)
    <3>1. ~Raised(q)
      <4>1. CASE q \in Usart
        <5>1. DOMAIN fifo[q] = {}
          BY <2>2, <4>1 DEF LastLook, NothingLeft
        <5> QED BY <4>1, <5>1 DEF Raised
      <4>2. CASE q \notin Usart
        <5>1. q \in Uarte /\ dma[q].events \cap dma[q].inten = {}
          BY <2>2, <4>2 DEF LastLook, NothingLeft, Driven
        <5> QED BY <4>2, <5>1 DEF Raised, RxInv
      <4> QED BY <4>1, <4>2
    <3> QED BY <3>1
  <2>3. CASE HandlerReturn(q)
    BY <2>3 DEF HandlerReturn, RxInv, NothingForgotten
  <2> QED BY <2>1, <2>2, <2>3
<1>5. NothingForgotten'
  BY <1>2, <1>3, <1>4 DEF RxInv, NothingForgotten
<1> QED BY <1>1, <1>3, <1>5 DEF RxInv, receivers

LEMMA ReceiverInit == Init => RxInv
<1> SUFFICES ASSUME Init PROVE RxInv
  OBVIOUS
<1> USE SerialAssumption
<1>1. fifo \in [Usart \cup Polled -> Fifo] /\ rxneie \in [Usart -> BOOLEAN]
  BY DEF Init, Fifo
<1>2. dma \in [Uarte -> Dma] /\ told \in [Uarte -> SUBSET Event]
  BY DEF Init, Dma
<1>3. ram \in [Uarte -> Ram]
  BY DEF Init, Ram
<1>4. run \in [Uarte -> Reception]
  BY DEF Init, Reception
<1>5. \A q \in Uarte : Faithful(dma[q], ram[q], run[q])
  BY DEF Init, Faithful
<1>6. NothingForgotten /\ \A q \in Uarte : told[q] \subseteq dma[q].events \cap dma[q].inten
  BY DEF Init, NothingForgotten, Raised, Driven
<1>7. pending \subseteq Driven /\ phase \in [Driven -> {"idle", "serving", "leaving"}]
  BY DEF Init
<1> QED BY <1>1, <1>2, <1>3, <1>4, <1>5, <1>6, <1>7 DEF RxInv

LEMMA ReceiverStep ==
  ASSUME RxInv, LineInv, [Next]_vars
  PROVE  RxInv'
<1>1. ASSUME NEW p \in Port, Deliver(p) PROVE RxInv'
  BY <1>1, ReceiveStep
<1>2. CASE Elapse
  BY <1>2, RxUntouched DEF Elapse, firmware
<1>3. ASSUME NEW p \in Usart \cup Polled, NEW b \in Byte, WriteDr(p, b) PROVE RxInv'
  BY <1>3, RxUntouched DEF WriteDr, firmware
<1>4. ASSUME NEW p \in Usart \cup Polled, ReadDr(p) PROVE RxInv'
  BY <1>4, ReadStep
<1>5. ASSUME NEW q \in Usart, WriteCr1(q) PROVE RxInv'
  BY <1>5, EnableStep
<1>6. ASSUME NEW q \in Uarte,
             StartTx(q) \/ StartRx(q) \/ StopRx(q) \/ WriteRxd(q)
               \/ WriteInten(q) \/ ClearEvent(q)
      PROVE  RxInv'
  BY <1>6, FirmwareStep
<1>7. ASSUME NEW q \in Driven, TakeIrq(q) \/ LastLook(q) \/ HandlerReturn(q)
      PROVE  RxInv'
  BY <1>7, HandlerStep
<1>8. CASE UNCHANGED vars
  BY <1>8, RxUntouched DEF vars, firmware
<1> QED BY <1>1, <1>2, <1>3, <1>4, <1>5, <1>6, <1>7, <1>8 DEF Next

LEMMA Receivers == Spec => [](LineInv /\ RxInv)
<1>1. Init => LineInv
  <2>1. \A t : Train(<<>>, 0, t)
    BY DEF Train
  <2> QED BY <2>1 DEF Init, LineInv
<1>2. LineInv /\ RxInv /\ [Next]_vars => LineInv' /\ RxInv'
  BY LineStep, ReceiverStep DEF LineKept
<1> QED BY <1>1, <1>2, ReceiverInit, PTL DEF Spec

(* No interrupt is lost, whenever bytes arrive while the handler runs and  *)
(* whatever firmware enables, clears or starts meanwhile: the event it was *)
(* raised for is there only while it is pending or the handler still looks *)
(* (UsartStm32.on_rx, UarteNrf._event).                                    *)
THEOREM NothingIsForgotten == Spec => []NothingForgotten
<1>1. RxInv => NothingForgotten
  BY DEF RxInv
<1> QED BY <1>1, Receivers, PTL

(* EasyDMA puts into the buffer of STARTRX what arrived since, in order,   *)
(* and counts it right, for any sizes of buffers and any interleaving of   *)
(* bytes with the firmware's tasks (UarteNrf.on_rx and write).             *)
THEOREM ReceptionsFaithful == Spec => []DmaFaithful
<1>1. ASSUME RxInv PROVE DmaFaithful
  <2> SUFFICES ASSUME NEW q \in Uarte, run[q].same
               PROVE  /\ dma[q].count = Got(run[q])
                      /\ \A i \in 1 .. Got(run[q]) : ram[q][run[q].buf][i] = run[q].bytes[i]
                      /\ IF dma[q].armed
                         THEN Len(run[q].bytes) < run[q].max \/ run[q].bytes = <<>>
                         ELSE dma[q].amount = Got(run[q])
    BY DEF DmaFaithful, Got
  <2>1. Faithful(dma[q], ram[q], run[q])
    BY <1>1 DEF RxInv
  <2> QED BY <2>1 DEF Faithful
<1> QED BY <1>1, Receivers, PTL

(* Firmware that waits for ENDRX may use the buffer: the event comes with  *)
(* the end of a reception and at no other step (nrf52.py lines 171-174 and *)
(* 189-192), neither too early nor by another task.                        *)
THEOREM EndRxComesWithTheEnd == Spec => EndRxEnds
<1>1. ASSUME RxInv, [Next]_vars
      PROVE  \A q \in Uarte :
        ("ENDRX" \in dma'[q].events \ dma[q].events) => dma[q].armed /\ ~dma'[q].armed
  <2> SUFFICES ASSUME NEW q \in Uarte, "ENDRX" \in dma'[q].events \ dma[q].events
               PROVE  dma[q].armed /\ ~dma'[q].armed
    OBVIOUS
  <2>1. dma \in [Uarte -> Dma] /\ dma[q] \in Dma
    BY <1>1 DEF RxInv
  <2>2. ASSUME NEW p \in Port, Deliver(p) PROVE dma[q].armed /\ ~dma'[q].armed
    <3>1. dma'[q] = IF q \in Listening(p) THEN Received(dma[q]) ELSE dma[q]
      BY <2>2 DEF Deliver
    <3>2. q \in Listening(p)
      BY <3>1
    <3>3. CASE Ends(dma[q])
      <4>1. dma'[q].armed = FALSE
        BY <2>1, <3>1, <3>2, <3>3 DEF Received, Latch, Finish, Dma
      <4> QED BY <3>3, <4>1 DEF Ends
    <3>4. CASE ~Ends(dma[q])
      <4>1. dma'[q].events = dma[q].events \cup (RxEvents(dma[q]) \cap Event)
        BY <2>1, <3>1, <3>2, <3>4 DEF Received, Latch, Dma
      <4>2. "ENDRX" \notin RxEvents(dma[q])
        BY <3>4 DEF RxEvents
      <4> QED BY <4>1, <4>2
    <3> QED BY <3>3, <3>4
  <2>3. ASSUME NEW p \in Uarte, NEW d \in Dma, NEW es, Events(p, d, es),
               d.events = dma[p].events, "ENDRX" \notin es \/ (dma[p].armed /\ ~d.armed)
        PROVE  dma[q].armed /\ ~dma'[q].armed
    <3>1. q = p /\ dma'[q] = Latch(d, es)
      BY <2>1, <2>3 DEF Events
    <3>2. Latch(d, es).events = d.events \cup (es \cap Event) /\ Latch(d, es).armed = d.armed
      BY <2>3 DEF Latch, Dma
    <3> QED BY <2>3, <3>1, <3>2
  <2>4. ASSUME NEW p \in Uarte, StartTx(p) PROVE dma[q].armed /\ ~dma'[q].armed
    <3>1. Events(p, dma[p], {"TXDRDY", "ENDTX"}) /\ dma[p] \in Dma
      BY <2>1, <2>4 DEF StartTx
    <3> QED BY <2>3, <3>1
  <2>5. ASSUME NEW p \in Uarte, StartRx(p) PROVE dma[q].armed /\ ~dma'[q].armed
    <3>1. Events(p, Arm(dma[p]), {}) /\ dma[p] \in Dma
      BY <2>1, <2>5 DEF StartRx
    <3>2. /\ 0 \in 0 .. MaxCnt
          /\ [dma[p] EXCEPT !.armed = TRUE] \in Dma
      <4>1. 0 \in 0 .. MaxCnt
        BY SerialAssumption
      <4>2. [dma[p] EXCEPT !.armed = TRUE] \in Dma
        BY <3>1 DEF Dma
      <4> QED BY <4>1, <4>2
    <3>3. Arm(dma[p]) \in Dma /\ Arm(dma[p]).events = dma[p].events
      BY <3>1, <3>2 DEF Arm, Dma
    <3> QED BY <2>3, <3>1, <3>3
  <2>6. ASSUME NEW p \in Uarte, StopRx(p) PROVE dma[q].armed /\ ~dma'[q].armed
    <3>1. Events(p, Finish(dma[p]), {"ENDRX"}) /\ dma[p] \in Dma /\ dma[p].armed
      BY <2>1, <2>6 DEF StopRx
    <3>2. /\ Finish(dma[p]) \in Dma /\ Finish(dma[p]).events = dma[p].events
          /\ ~Finish(dma[p]).armed
      BY <3>1 DEF Finish, Dma
    <3> QED BY <2>3, <3>1, <3>2
  <2>7. ASSUME NEW p \in Uarte, WriteRxd(p) PROVE dma[q].armed /\ ~dma'[q].armed
    <3>1. PICK b \in Buffer, n \in 0 .. MaxCnt :
            Events(p, [dma[p] EXCEPT !.ptr = b, !.max = n], {})
      BY <2>7 DEF WriteRxd
    <3> DEFINE d == [dma[p] EXCEPT !.ptr = b, !.max = n]
    <3>2. d \in Dma /\ d.events = dma[p].events
      BY <2>1 DEF Dma
    <3> QED BY <2>3, <3>1, <3>2
  <2>8. ASSUME NEW p \in Uarte, WriteInten(p) \/ ClearEvent(p)
        PROVE  dma[q].armed /\ ~dma'[q].armed
    <3>1. dma'[q].events \subseteq dma[q].events
      BY <2>1, <2>8 DEF WriteInten, ClearEvent, Dma
    <3> QED BY <3>1
  <2>9. dma' = dma => FALSE
    OBVIOUS
  <2>10. CASE Elapse
    BY <2>9, <2>10 DEF Elapse, receivers
  <2>11. ASSUME NEW p \in Usart \cup Polled,
                ReadDr(p) \/ \E b \in Byte : WriteDr(p, b) PROVE FALSE
    BY <2>9, <2>11 DEF ReadDr, WriteDr, receivers
  <2>12. ASSUME NEW p \in Usart, WriteCr1(p) PROVE FALSE
    BY <2>9, <2>12 DEF WriteCr1
  <2>13. ASSUME NEW p \in Driven, TakeIrq(p) \/ LastLook(p) \/ HandlerReturn(p) PROVE FALSE
    BY <2>9, <2>13 DEF TakeIrq, LastLook, HandlerReturn, receivers
  <2>14. ~UNCHANGED vars
    BY <2>9 DEF vars, receivers
  <2> QED BY <1>1, <2>2, <2>4, <2>5, <2>6, <2>7, <2>8, <2>10, <2>11, <2>12, <2>13, <2>14
          DEF Next
<1> QED BY <1>1, Receivers, PTL DEF EndRxEnds, Spec

History ==
  /\ sent \in Nat /\ setups \in Nat
  /\ heard \in [Port -> Byte \cup {NoByte}]

LEMMA HistoryStep ==
  ASSUME History, LineInv, [Next]_vars
  PROVE  History'
<1>1. ASSUME NEW p \in Port, NEW data \in Seq(Byte), Send(p, data), setups' \in Nat
      PROVE  History'
  <2>1. Len(data) \in Nat
    OBVIOUS
  <2> QED BY <1>1, <2>1 DEF Send, History, line
<1>2. ASSUME NEW p \in Port, Deliver(p) PROVE History'
  <2>1. PICK i \in DOMAIN wire[p] :
          heard' = [heard EXCEPT ![p] = wire[p][i].byte] /\ UNCHANGED <<sent, setups>>
    BY <1>2 DEF Deliver
  <2>2. wire[p][i] \in Delivery
    <3>1. wire[p] \in Seq(Delivery)
      BY DEF LineInv, Train
    <3> QED BY <2>1, <3>1
  <2> QED BY <2>1, <2>2 DEF Delivery, History
<1>3. ASSUME NEW p \in Usart \cup Polled, NEW b \in Byte, WriteDr(p, b) PROVE History'
  <2>1. <<b>> \in Seq(Byte) /\ p \in Port /\ setups' \in Nat
    BY <1>3 DEF WriteDr, firmware, Port, History
  <2> QED BY <1>1, <1>3, <2>1 DEF WriteDr
<1>4. ASSUME NEW q \in Uarte, StartTx(q) PROVE History'
  <2>1. PICK data \in SeqOf(Byte, MaxCnt) : Send(q, data)
    BY <1>4 DEF StartTx
  <2>2. data \in Seq(Byte) /\ q \in Port /\ setups' \in Nat
    BY <1>4 DEF SeqOf, Port, StartTx, History
  <2> QED BY <1>1, <2>1, <2>2
<1>5. ASSUME NEW q, WriteCr1(q) \/ WriteRxd(q) \/ WriteInten(q) PROVE History'
  <2>1. setups' = setups + 1 /\ UNCHANGED line
    BY <1>5 DEF WriteCr1, WriteRxd, WriteInten, Setup
  <2> QED BY <2>1 DEF History, line
<1>6. ASSUME NEW q, StartRx(q) \/ StopRx(q) \/ ReadDr(q) \/ ClearEvent(q)
                    \/ TakeIrq(q) \/ LastLook(q) \/ HandlerReturn(q)
      PROVE  History'
  BY <1>6 DEF StartRx, StopRx, ReadDr, ClearEvent, TakeIrq, LastLook, HandlerReturn,
     firmware, History, line
<1>7. CASE Elapse \/ UNCHANGED vars
  BY <1>7 DEF Elapse, vars, firmware, History, line
<1> QED BY <1>2, <1>3, <1>4, <1>5, <1>6, <1>7 DEF Next

(* The ports' state keeps its types: no delivery is ever overdue, EasyDMA  *)
(* never counts beyond a buffer (Uart.send and UarteNrf.on_rx).            *)
THEOREM PortTypes == Spec => []TypeOK
<1>1. Init => History
  BY DEF Init, History
<1>2. ASSUME LineInv, RxInv, History PROVE TypeOK
  <2>1. ASSUME NEW p \in Port, NEW i \in DOMAIN wire[p]
        PROVE  wire[p][i] \in [byte : Byte, due : Nat] /\ busy[p] \in Nat
    <3>1. wire[p] \in Seq(Delivery) /\ busy[p] \in Nat
      BY <1>2 DEF LineInv, Train
    <3>2. wire[p][i] \in Delivery
      BY <2>1, <3>1
    <3> QED BY <3>1, <3>2 DEF Delivery
  <2>2. busy \in [Port -> Nat]
    BY <1>2 DEF LineInv, Train
  <2>3. ASSUME NEW q \in Usart \cup Polled, NEW i \in DOMAIN fifo[q]
        PROVE  fifo[q][i] \in [byte : Byte, told : BOOLEAN]
    <3> DEFINE Entry == [byte : Byte, told : BOOLEAN]
    <3>1. fifo[q] \in Seq(Entry)
      BY <1>2, <2>3 DEF RxInv, Fifo
    <3> HIDE DEF Entry
    <3>2. fifo[q][i] \in Entry
      BY <2>3, <3>1
    <3> QED BY <3>2 DEF Entry
  <2> QED BY <1>2, <2>1, <2>2, <2>3 DEF TypeOK, RxInv, History, Dma, Ram
<1> QED BY <1>1, <1>2, HistoryStep, Receivers, PTL DEF Spec
=============================================================================
