------------------------- MODULE ConnectorsProofs -------------------------
(***************************************************************************)
(* Proofs about the connectors of Connectors, however many connects,       *)
(* writes, requests and faults there are.                                  *)
(*                                                                         *)
(* PROFIBUS, for every set of peripherals, every width of a byte and every *)
(* size of an image: exchanges carry what the writes add up to, a good read*)
(* is what the peripheral last sent, a connect reports what it has seen,   *)
(* and nothing is sent once the connector is disconnected.                 *)
(*                                                                         *)
(* OPC UA, for every finite set of points: what is recorded of a session,  *)
(* what its end leaves behind, and what a read of any number of nodes in   *)
(* blocks of any size gives out.                                           *)
(*                                                                         *)
(* Modbus, for every batch of points, width of a register and place of a   *)
(* field: whose answer a sample is, and what a write changes.              *)
(*                                                                         *)
(* CANopen, for every batch and number of buses: what a read gives and the *)
(* order in which writes take effect.                                      *)
(*                                                                         *)
(* SNMP, for every number of restarts and replacements of agents: whose    *)
(* address and whose engine a device's traps come from.                    *)
(***************************************************************************)
EXTENDS Connectors, FiniteSetTheorems, TLAPS

Image == [0 .. ImageSize - 1 -> Byte]

\* An image of outputs, which a raw write may have grown.
Grown == UNION {[0 .. n - 1 -> Byte] : n \in {m \in Nat : m >= ImageSize}}

TypeOK ==
    /\ stage \in {"idle", "stopping", "waiting"}
    /\ goal \in {"", "connect", "disconnect"}
    /\ shared \in [on : BOOLEAN, inputs : [Peripheral -> Nat], outputs : [Peripheral -> Grown],
                   link : [Peripheral -> {"unknown", "connected", "fault"}]]
    /\ thread \in [at : {"none", "opening", "loop", "cycle"}, stop : BOOLEAN, cycles : Nat]
    /\ turn \in [exchange : SUBSET Peripheral, copy : SUBSET Peripheral]
    /\ pi \in [i : [Peripheral -> Nat], q : [Peripheral -> Image]]
    /\ ready \in {"none", "sent", "closed"}
    /\ station \in [Peripheral -> [on : BOOLEAN, in : Nat, out : Image]]
    /\ told \in [Peripheral -> Image]
    /\ unsent \subseteq Peripheral
    /\ latest \in [Peripheral -> Nat]
    /\ reported \in {"none", "connected", "disconnected"}

\* The shared outputs are what the writes add up to, whether or not the thread runs.
OutputsTold == \A d \in Peripheral : \A i \in 0 .. ImageSize - 1 : shared.outputs[d][i] = told[d][i]

\* The inputs of a peripheral were given out, in this cycle or in the one before.
GivenOut(d) ==
    \/ thread.at = "loop" /\ turn.exchange = Peripheral
    \/ thread.at = "cycle" /\ d \notin turn.copy

\* What the link of a peripheral says of the thread, and of the inputs given out.
Links ==
    /\ thread.at = "opening" => thread.cycles = 0
    /\ thread.at = "cycle" => thread.cycles > 0
    /\ \A d \in Peripheral :
          /\ pi.i[d] = latest[d]
          /\ shared.link[d] = "connected" =>
                /\ thread.cycles > 0 /\ (thread.at # "none" \/ thread.stop)
                /\ GivenOut(d) => shared.inputs[d] = pi.i[d]
          /\ thread.at = "cycle" /\ d \notin turn.copy => shared.link[d] = "connected"
          /\ ready = "sent" \/ reported = "connected" =>
                shared.link[d] \in {"connected", "fault"}

-----------------------------------------------------------------------------
(* Writes.                                                                 *)

\* The number of bytes of an image is its Cardinality.
LEMMA LengthOf ==
    ASSUME NEW n \in Nat, NEW image \in [0 .. n - 1 -> Byte]
    PROVE  Cardinality(DOMAIN image) = n
<1>1. DOMAIN image = 0 .. n - 1 /\ n - 1 \in Int
  OBVIOUS
<1>2. Cardinality(0 .. n - 1) = IF 0 > n - 1 THEN 0 ELSE n - 1 - 0 + 1
  BY <1>1, FS_Interval
<1> QED
  BY <1>1, <1>2

\* An empty byte is a byte.
LEMMA ZeroType == ASSUME Bits \in Nat PROVE Zero \in Byte
BY DEF Zero, Byte

\* What a write of k whole bytes makes of an image.
BytesResult(new, image, start, bytes, k) ==
    /\ new \in Grown
    /\ \A i \in 0 .. ImageSize - 1 :
          new[i] = IF i >= start /\ i < start + k THEN bytes[i - start] ELSE image[i]

\* That is what it does.
LEMMA BytesWritten ==
    ASSUME Bits \in Nat, NEW n \in Nat, NEW k \in Nat, NEW start \in Nat,
           NEW image \in [0 .. n - 1 -> Byte], NEW bytes \in [0 .. k - 1 -> Byte],
           n >= ImageSize, ImageSize \in Nat,
           NEW new, new = WriteBytesInto(image, start, bytes)
    PROVE  BytesResult(new, image, start, bytes, k)
<1> DEFINE m == IF start + k > n THEN start + k ELSE n
<1>1. Cardinality(DOMAIN image) = n /\ Cardinality(DOMAIN bytes) = k
  BY LengthOf
<1>2. new = [i \in 0 .. m - 1 |->
                IF i >= start /\ i < start + k THEN bytes[i - start]
                ELSE IF i < n THEN image[i] ELSE Zero]
  BY <1>1 DEF WriteBytesInto
<1>3. m \in Nat /\ m >= n /\ m >= ImageSize
  OBVIOUS
<1> HIDE DEF m
<1>4. ASSUME NEW i \in 0 .. m - 1
      PROVE  (IF i >= start /\ i < start + k THEN bytes[i - start]
              ELSE IF i < n THEN image[i] ELSE Zero) \in Byte
  <2>1. CASE i >= start /\ i < start + k
    <3>1. i - start \in 0 .. k - 1
      BY <1>3, <2>1
    <3> QED
      BY <2>1, <3>1
  <2>2. CASE ~(i >= start /\ i < start + k) /\ i < n
    <3>1. i \in 0 .. n - 1
      BY <1>3, <2>2
    <3> QED
      BY <2>2, <3>1
  <2>3. CASE ~(i >= start /\ i < start + k) /\ ~(i < n)
    BY <2>3, ZeroType
  <2> QED
    BY <2>1, <2>2, <2>3
<1>5. new \in [0 .. m - 1 -> Byte]
  BY <1>2, <1>4
<1>6. new \in Grown
  BY <1>3, <1>5 DEF Grown
<1>7. ASSUME NEW i \in 0 .. ImageSize - 1
      PROVE  new[i] = IF i >= start /\ i < start + k THEN bytes[i - start] ELSE image[i]
  <2>1. i \in 0 .. m - 1 /\ i < n
    BY <1>3
  <2> QED
    BY <1>2, <2>1
<1> QED
  BY <1>6, <1>7 DEF BytesResult

\* What a successful write of a point adds to what a peripheral was told.
Told(t, p, raw, bytes) ==
    [i \in 0 .. ImageSize - 1 |-> [b \in 0 .. Bits - 1 |->
        LET bitwise == ~raw /\ p.bit # None
        IN IF bitwise /\ i = p.start /\ b = p.bit.off THEN bytes[0][0]
           ELSE IF ~bitwise /\ i >= p.start /\ i - p.start \in DOMAIN bytes
                THEN bytes[i - p.start][b]
           ELSE t[i][b]]]

\* A write changes the outputs in the bits it addresses and in no other: raw bytes, the
\* bytes of a value and a single bit alike (encode_point, encode_field, write_bytes_into).
LEMMA EncodeTold ==
    ASSUME Bits \in Nat \ {0}, ImageSize \in Nat, NEW image \in Grown, NEW p \in Points,
           NEW raw \in BOOLEAN, NEW bytes \in Written, NEW t \in Image,
           \A i \in 0 .. ImageSize - 1 : image[i] = t[i],
           NEW new, new = EncodePoint(p, image, raw, bytes), new # Refused
    PROVE  /\ new \in Grown /\ Told(t, p, raw, bytes) \in Image
           /\ \A i \in 0 .. ImageSize - 1 : new[i] = Told(t, p, raw, bytes)[i]
<1>1. PICK k \in 1 .. 2, v \in 0 .. 1 :
          bytes = [i \in 0 .. k - 1 |-> [b \in 0 .. Bits - 1 |-> v]]
  BY DEF Written
<1>2. k \in Nat /\ k > 0 /\ bytes \in [0 .. k - 1 -> Byte]
  BY <1>1 DEF Byte
<1>3. PICK n \in Nat : n >= ImageSize /\ image \in [0 .. n - 1 -> Byte]
  BY DEF Grown
<1>4. p.start \in Nat /\ p.start <= ImageSize
  BY DEF Points, Forms
<1>5. p.bit = None \/ (p.bit.off \in 0 .. Bits - 1 /\ p.bit.cnt = 1)
  BY DEF Points, Forms
<1> HIDE DEF None
<1>6. \A i \in 0 .. ImageSize - 1 : t[i] \in Byte
  BY DEF Image
<1>7. 0 \in 0 .. k - 1 /\ 0 \in 0 .. Bits - 1 /\ bytes[0] \in Byte
  BY <1>2
<1>8. \A b \in 0 .. Bits - 1 : \A x \in Byte : x[b] \in 0 .. 1
  BY DEF Byte
<1>9. DOMAIN bytes = 0 .. k - 1
  BY <1>2
<1> DEFINE told2 == Told(t, p, raw, bytes)
           bitwise == ~raw /\ p.bit # None
<1>10. CASE ~bitwise
  <2>1. new = WriteBytesInto(image, p.start, bytes)
    <3>1. CASE raw
      BY <3>1 DEF EncodePoint
    <3>2. CASE ~raw
      <4>1. p.bit = None
        BY <1>10, <3>2
      <4>2. new \in {WriteBytesInto(image, p.start, bytes), Refused}
        BY <3>2, <4>1 DEF EncodePoint
      <4> QED
        BY <4>2
    <3> QED
      BY <3>1, <3>2
  <2>2. /\ new \in Grown
        /\ \A i \in 0 .. ImageSize - 1 :
              new[i] = IF i >= p.start /\ i < p.start + k THEN bytes[i - p.start] ELSE image[i]
    <3>1. BytesResult(new, image, p.start, bytes, k)
      BY <1>2, <1>3, <1>4, <2>1, BytesWritten
    <3> QED
      BY <3>1 DEF BytesResult
  <2>3. \A i \in 0 .. ImageSize - 1 :
           told2[i] = [b \in 0 .. Bits - 1 |->
              IF i >= p.start /\ i - p.start \in 0 .. k - 1 THEN bytes[i - p.start][b]
              ELSE t[i][b]]
    BY <1>9, <1>10 DEF Told
  <2>4. ASSUME NEW i \in 0 .. ImageSize - 1 PROVE told2[i] \in Byte /\ new[i] = told2[i]
    <3>1. CASE i >= p.start /\ i < p.start + k
      <4>1. i - p.start \in 0 .. k - 1
        BY <1>2, <1>4, <3>1
      <4>2. bytes[i - p.start] \in Byte
        BY <1>2, <4>1
      <4>3. told2[i] = [b \in 0 .. Bits - 1 |-> bytes[i - p.start][b]]
        BY <2>3, <3>1, <4>1
      <4>4. told2[i] = bytes[i - p.start]
        BY <4>2, <4>3 DEF Byte
      <4> QED
        BY <2>2, <3>1, <4>2, <4>4
    <3>2. CASE ~(i >= p.start /\ i < p.start + k)
      <4>1. ~(i >= p.start /\ i - p.start \in 0 .. k - 1)
        BY <1>2, <1>4, <3>2
      <4>2. told2[i] = [b \in 0 .. Bits - 1 |-> t[i][b]]
        BY <2>3, <4>1
      <4>3. told2[i] = t[i]
        BY <1>6, <4>2 DEF Byte
      <4> QED
        BY <1>6, <2>2, <3>2, <4>3
    <3> QED
      BY <3>1, <3>2
  <2>5. told2 \in Image
    BY <2>4 DEF Told, Image
  <2> QED
    BY <2>2, <2>4, <2>5
<1>11. CASE bitwise
  <2>0. ~raw /\ p.bit # None /\ p.bit.off \in 0 .. Bits - 1 /\ p.bit.cnt = 1
    BY <1>5, <1>11
  <2>1. Cardinality(DOMAIN image) = n
    BY <1>3, LengthOf
  <2>2. p.start < n /\ new = EncodeField(p, image, bytes[0])
    BY <2>0, <2>1 DEF EncodePoint
  <2>3. Mask(p) = {p.bit.off}
    BY <2>0 DEF Mask
  <2> DEFINE field == [b \in 0 .. Bits - 1 |->
                          IF b = p.bit.off THEN bytes[0][0] ELSE image[p.start][b]]
  <2>4. p.start \in 0 .. n - 1 /\ image[p.start] \in Byte
    BY <1>3, <1>4, <2>2
  <2>5. new = [image EXCEPT ![p.start] = field]
    <3>1. new = [image EXCEPT ![p.start] = [b \in 0 .. Bits - 1 |->
                    IF b \in Mask(p) THEN bytes[0][b - p.bit.off] ELSE @[b]]]
      BY <2>2 DEF EncodeField
    <3>2. \A b \in 0 .. Bits - 1 :
             (IF b \in Mask(p) THEN bytes[0][b - p.bit.off] ELSE image[p.start][b])
             = (IF b = p.bit.off THEN bytes[0][0] ELSE image[p.start][b])
      BY <2>0, <2>3
    <3> QED
      BY <3>1, <3>2
  <2>6. field \in Byte
    BY <1>7, <1>8, <2>4 DEF Byte
  <2> HIDE DEF field
  <2>7. new \in [0 .. n - 1 -> Byte]
    BY <1>3, <2>5, <2>6
  <2>8. \A i \in 0 .. ImageSize - 1 :
           told2[i] = [b \in 0 .. Bits - 1 |->
              IF i = p.start /\ b = p.bit.off THEN bytes[0][0] ELSE t[i][b]]
    BY <1>11 DEF Told
  <2>9. ASSUME NEW i \in 0 .. ImageSize - 1 PROVE told2[i] \in Byte /\ new[i] = told2[i]
    <3>0. i \in 0 .. n - 1 /\ image[i] = t[i]
      BY <1>3
    <3>1. CASE i = p.start
      <4>1. told2[i] = [b \in 0 .. Bits - 1 |->
                IF b = p.bit.off THEN bytes[0][0] ELSE image[p.start][b]]
        BY <2>8, <3>0, <3>1
      <4>2. told2[i] = field
        BY <4>1 DEF field
      <4>3. new[i] = field
        BY <1>3, <2>4, <2>5, <3>1
      <4> QED
        BY <2>6, <4>2, <4>3
    <3>2. CASE i # p.start
      <4>1. told2[i] = [b \in 0 .. Bits - 1 |-> t[i][b]]
        BY <2>8, <3>2
      <4>2. told2[i] = t[i]
        BY <1>6, <4>1 DEF Byte
      <4>3. new[i] = image[i]
        BY <1>3, <2>5, <3>0, <3>2
      <4> QED
        BY <1>6, <3>0, <4>2, <4>3
    <3> QED
      BY <3>1, <3>2
  <2>10. told2 \in Image
    BY <2>9 DEF Told, Image
  <2>11. new \in Grown
    BY <1>3, <2>7 DEF Grown
  <2> QED
    BY <2>9, <2>10, <2>11
<1> QED
  BY <1>10, <1>11

-----------------------------------------------------------------------------
(* Types.                                                                  *)

\* An image of empty bytes is an image, and one that has not grown.
LEMMA ZeroedType ==
    ASSUME Bits \in Nat \ {0}, ImageSize \in Nat
    PROVE  Zeroed \in Image /\ Zeroed \in Grown
<1>1. Zeroed \in Image
  BY ZeroType DEF Zeroed, Image
<1>2. Zeroed \in [0 .. ImageSize - 1 -> Byte] /\ ImageSize \in {m \in Nat : m >= ImageSize}
  BY <1>1 DEF Image
<1>3. Zeroed \in Grown
  BY <1>2 DEF Grown
<1> QED
  BY <1>1, <1>3

\* An image taken from grown outputs is an image.
LEMMA TakenType ==
    ASSUME ImageSize \in Nat, NEW o \in Grown
    PROVE  [i \in 0 .. ImageSize - 1 |-> o[i]] \in Image
<1>1. PICK n \in Nat : n >= ImageSize /\ o \in [0 .. n - 1 -> Byte]
  BY DEF Grown
<1>2. \A i \in 0 .. ImageSize - 1 : o[i] \in Byte
  BY <1>1
<1> QED
  BY <1>2 DEF Image

SharedType == [on : BOOLEAN, inputs : [Peripheral -> Nat], outputs : [Peripheral -> Grown],
               link : [Peripheral -> {"unknown", "connected", "fault"}]]

\* A write that was taken: the outputs of the peripheral and what it was told.
ExecuteResult(d) ==
    \E o \in Grown, t \in Image :
        /\ shared' = [shared EXCEPT !.outputs[d] = o]
        /\ told' = [told EXCEPT ![d] = t]
        /\ \A i \in 0 .. ImageSize - 1 : o[i] = t[i]
        /\ unsent' = unsent \union {d}
        /\ UNCHANGED <<stage, goal, thread, turn, pi, ready, station, latest, reported>>

\* That is what execute does.
LEMMA ExecuteDoes ==
    ASSUME Bits \in Nat \ {0}, ImageSize \in Nat, TypeOK, OutputsTold, NEW d \in Peripheral, Execute(d)
    PROVE  ExecuteResult(d)
<1>1. PICK p \in {x \in Points : x.write /\ x.typed}, raw \in BOOLEAN, bytes \in Written :
          LET image == EncodePoint(p, shared.outputs[d], raw, bytes)
          IN /\ image # Refused
             /\ shared' = [shared EXCEPT !.outputs[d] = image]
             /\ told' = [told EXCEPT ![d] = Told(told[d], p, raw, bytes)]
  BY DEF Execute, Told, TypeOK
<1> DEFINE o == EncodePoint(p, shared.outputs[d], raw, bytes)
           t == Told(told[d], p, raw, bytes)
<1>2. shared.outputs[d] \in Grown /\ told[d] \in Image
  BY DEF TypeOK
<1>3. \A i \in 0 .. ImageSize - 1 : shared.outputs[d][i] = told[d][i]
  BY DEF OutputsTold
<1>4. o # Refused /\ shared' = [shared EXCEPT !.outputs[d] = o] /\ told' = [told EXCEPT ![d] = t]
  BY <1>1
<1>5. o \in Grown /\ t \in Image /\ \A i \in 0 .. ImageSize - 1 : o[i] = t[i]
  BY <1>2, <1>3, <1>4, EncodeTold
<1>6. /\ unsent' = unsent \union {d}
      /\ UNCHANGED <<stage, goal, thread, turn, pi, ready, station, latest, reported>>
  BY DEF Execute
<1> HIDE DEF o, t
<1> QED
  BY <1>4, <1>5, <1>6 DEF ExecuteResult

Station == [on : BOOLEAN, in : Nat, out : Image]

\* A peripheral whose outputs are set, and one that the plant changes.
LEMMA StationOut ==
    ASSUME NEW f \in [Peripheral -> Station], NEW d \in Peripheral, NEW o \in Image
    PROVE  [f EXCEPT ![d].out = o] \in [Peripheral -> Station] /\ f[d].in \in Nat
<1>1. f[d] \in Station
  OBVIOUS
<1>2. [f[d] EXCEPT !.out = o] \in Station /\ f[d].in \in Nat
  BY <1>1 DEF Station
<1> QED
  BY <1>2

\* What the plant does leaves the outputs of a peripheral alone.
LEMMA StationPlant ==
    ASSUME NEW f \in [Peripheral -> Station], NEW d \in Peripheral, NEW on \in BOOLEAN, NEW in \in 0 .. 1
    PROVE  [f EXCEPT ![d].on = on, ![d].in = in] \in [Peripheral -> Station]
<1>0. \A x \in 0 .. 1 : x \in Nat
  BY SMT
<1> DEFINE g == [f EXCEPT ![d].on = on]
<1>1. f[d] \in Station
  OBVIOUS
<1>2. [f[d] EXCEPT !.on = on] \in Station
  BY <1>1 DEF Station
<1>3. g \in [Peripheral -> Station] /\ g[d] \in Station
  BY <1>2
<1> HIDE DEF g
<1>4. [g[d] EXCEPT !.in = in] \in Station
  BY <1>0, <1>3 DEF Station
<1>5. [g EXCEPT ![d].in = in] \in [Peripheral -> Station]
  BY <1>3, <1>4
<1> QED
  BY <1>5 DEF g

\* Every step keeps the types.
LEMMA TypeStep ==
    ASSUME Bits \in Nat \ {0}, ImageSize \in Nat, TypeOK, OutputsTold, [Next]_vars
    PROVE  TypeOK'
<1> USE DEF TypeOK
<1>1. ASSUME NEW what \in {"connect", "disconnect"}, Begin(what) PROVE TypeOK'
  BY <1>1 DEF Begin
<1>2. CASE Disconnect
  BY <1>2 DEF Disconnect
<1>3. CASE Spawn
  <2>1. All(0) \in [Peripheral -> Nat] /\ All("unknown") \in [Peripheral -> {"unknown", "connected", "fault"}]
    BY DEF All
  <2>2. All(Zeroed) \in [Peripheral -> Grown] /\ All(Zeroed) \in [Peripheral -> Image]
    BY ZeroedType DEF All
  <2>3. shared' \in SharedType /\ pi' \in [i : [Peripheral -> Nat], q : [Peripheral -> Image]]
    BY <1>3, <2>1, <2>2 DEF Spawn, SharedType
  <2>4. told' \in [Peripheral -> Image] /\ latest' \in [Peripheral -> Nat]
    BY <1>3, <2>1, <2>2 DEF Spawn
  <2>5. /\ thread' \in [at : {"none", "opening", "loop", "cycle"}, stop : BOOLEAN, cycles : Nat]
        /\ turn' \in [exchange : SUBSET Peripheral, copy : SUBSET Peripheral]
    BY <1>3 DEF Spawn
  <2>6. stage' = "waiting" /\ reported' = "none" /\ ready' = "none" /\ unsent' = {}
          /\ UNCHANGED <<goal, station>>
    BY <1>3 DEF Spawn
  <2> QED
    BY <2>3, <2>4, <2>5, <2>6 DEF SharedType
<1>4. ASSUME NEW status \in {"connected", "disconnected"}, Answer(status) PROVE TypeOK'
  BY <1>4 DEF Answer
<1>5. ASSUME NEW d \in Peripheral, Execute(d) PROVE TypeOK'
  <2>1. PICK o \in Grown, t \in Image :
          /\ shared' = [shared EXCEPT !.outputs[d] = o]
          /\ told' = [told EXCEPT ![d] = t]
          /\ unsent' = unsent \union {d}
          /\ UNCHANGED <<stage, goal, thread, turn, pi, ready, station, latest, reported>>
    <3>1. ExecuteResult(d)
      BY <1>5, ExecuteDoes
    <3> QED
      BY <3>1 DEF ExecuteResult
  <2>2. shared' \in SharedType /\ told' \in [Peripheral -> Image]
    BY <2>1 DEF SharedType
  <2> QED
    BY <2>1, <2>2 DEF SharedType
<1>6. CASE Online
  BY <1>6 DEF Online
<1>7. CASE Panic
  BY <1>7 DEF Panic, Faulted, All
<1>8. ASSUME NEW d \in Peripheral, Exchange(d) PROVE TypeOK'
  <2>0. station \in [Peripheral -> Station] /\ pi.q[d] \in Image
    BY DEF Station
  <2>1. [station EXCEPT ![d].out = pi.q[d]] \in [Peripheral -> Station] /\ station[d].in \in Nat
    BY <2>0, StationOut
  <2>2. station' \in [Peripheral -> Station]
    BY <1>8, <2>1 DEF Exchange
  <2>3. pi' \in [i : [Peripheral -> Nat], q : [Peripheral -> Image]] /\ latest' \in [Peripheral -> Nat]
    BY <1>8, <2>1 DEF Exchange
  <2>4. turn' \in [exchange : SUBSET Peripheral, copy : SUBSET Peripheral]
    BY <1>8 DEF Exchange
  <2>5. UNCHANGED <<stage, goal, shared, thread, ready, told, unsent, reported>>
    BY <1>8 DEF Exchange
  <2> QED
    BY <2>2, <2>3, <2>4, <2>5 DEF Station
<1>9. ASSUME NEW d \in Peripheral, Lost(d) PROVE TypeOK'
  BY <1>9 DEF Lost
<1>10. ASSUME NEW d \in Peripheral, Copy(d) PROVE TypeOK'
  <2>1. Taken(d) \in Image
    BY TakenType DEF Taken
  <2>2. shared' \in SharedType
    BY <1>10 DEF Copy, Copied, SharedType
  <2>3. pi' \in [i : [Peripheral -> Nat], q : [Peripheral -> Image]]
    BY <1>10, <2>1 DEF Copy
  <2>4. /\ turn' \in [exchange : SUBSET Peripheral, copy : SUBSET Peripheral] /\ unsent' \subseteq Peripheral
        /\ UNCHANGED <<stage, goal, thread, ready, station, told, latest, reported>>
    BY <1>10 DEF Copy
  <2> QED
    BY <2>2, <2>3, <2>4 DEF SharedType
<1>11. ASSUME NEW d \in Peripheral, Plant(d) PROVE TypeOK'
  <2>0. station \in [Peripheral -> Station]
    BY DEF Station
  <2>1. PICK on \in BOOLEAN, in \in 0 .. 1 :
            station' = [station EXCEPT ![d].on = on, ![d].in = in]
    BY <1>11 DEF Plant
  <2>2. station' \in [Peripheral -> Station]
    BY <2>0, <2>1, StationPlant
  <2>3. UNCHANGED <<stage, goal, shared, thread, turn, pi, ready, told, unsent, latest, reported>>
    BY <1>11 DEF Plant
  <2> QED
    BY <2>2, <2>3 DEF Station
<1>12. CASE CycleCompletes
  BY <1>12 DEF CycleCompletes
<1>13. CASE Signal
  BY <1>13 DEF Signal
<1>14. CASE Ends
  BY <1>14 DEF Ends
<1>15. CASE StreamBreaks \/ BackoffOver
  BY <1>15 DEF StreamBreaks, BackoffOver
<1>16. CASE UNCHANGED vars
  BY <1>16 DEF vars
<1> QED
  BY <1>1, <1>2, <1>3, <1>4, <1>5, <1>6, <1>7, <1>8, <1>9, <1>10, <1>11, <1>12, <1>13, <1>14,
     <1>15, <1>16 DEF Next

-----------------------------------------------------------------------------
(* Writes reach the peripherals.                                           *)

\* A write changes the shared outputs and what was told alike, and so does a new connection.
LEMMA OutputsStep ==
    ASSUME Bits \in Nat \ {0}, ImageSize \in Nat, TypeOK, OutputsTold, [Next]_vars
    PROVE  OutputsTold'
<1>1. CASE Spawn
  <2>1. \A d \in Peripheral : shared'.outputs[d] = Zeroed /\ told'[d] = Zeroed
    BY <1>1 DEF Spawn, All
  <2> QED
    BY <2>1 DEF OutputsTold
<1>2. ASSUME NEW d \in Peripheral, Execute(d) PROVE OutputsTold'
  <2>1. PICK o \in Grown, t \in Image :
          /\ shared' = [shared EXCEPT !.outputs[d] = o]
          /\ told' = [told EXCEPT ![d] = t]
          /\ \A i \in 0 .. ImageSize - 1 : o[i] = t[i]
    <3>1. ExecuteResult(d)
      BY <1>2, ExecuteDoes
    <3> QED
      BY <3>1 DEF ExecuteResult
  <2>2. \A e \in Peripheral : shared'.outputs[e] = IF e = d THEN o ELSE shared.outputs[e]
    BY <2>1 DEF TypeOK
  <2>3. \A e \in Peripheral : told'[e] = IF e = d THEN t ELSE told[e]
    BY <2>1 DEF TypeOK
  <2> QED
    BY <2>1, <2>2, <2>3 DEF OutputsTold
<1>3. ASSUME shared'.outputs = shared.outputs, told' = told PROVE OutputsTold'
  BY <1>3 DEF OutputsTold
<1>4. ASSUME NEW d \in Peripheral, Copy(d) PROVE shared'.outputs = shared.outputs /\ told' = told
  BY <1>4 DEF Copy, TypeOK
<1>5. CASE Disconnect \/ Panic
  <2>1. shared'.outputs = shared.outputs /\ told' = told
    BY <1>5 DEF Disconnect, Panic, TypeOK
  <2> QED
    BY <1>3, <2>1
<1>6. CASE \E what \in {"connect", "disconnect"} : Begin(what)
  BY <1>3, <1>6 DEF Begin
<1>7. CASE \E status \in {"connected", "disconnected"} : Answer(status)
  BY <1>3, <1>7 DEF Answer
<1>8. CASE \E d \in Peripheral : Exchange(d) \/ Lost(d) \/ Plant(d)
  BY <1>3, <1>8 DEF Exchange, Lost, Plant
<1>9. CASE Online \/ CycleCompletes \/ Signal \/ Ends \/ StreamBreaks \/ BackoffOver \/ UNCHANGED vars
  BY <1>3, <1>9 DEF Online, CycleCompletes, Signal, Ends, StreamBreaks, BackoffOver, vars
<1> QED
  BY <1>1, <1>2, <1>3, <1>4, <1>5, <1>6, <1>7, <1>8, <1>9 DEF Next

\* What the thread takes over is what was told.
LEMMA WritesStep ==
    ASSUME Bits \in Nat \ {0}, ImageSize \in Nat, TypeOK, OutputsTold, WritesReach, [Next]_vars
    PROVE  WritesReach'
<1>1. CASE Spawn
  <2>1. \A d \in Peripheral : pi'.q[d] = Zeroed /\ told'[d] = Zeroed
    BY <1>1 DEF Spawn, All
  <2> QED
    BY <2>1 DEF WritesReach
<1>2. ASSUME NEW d \in Peripheral, Execute(d) PROVE WritesReach'
  <2>1. PICK t \in Image :
          told' = [told EXCEPT ![d] = t] /\ unsent' = unsent \union {d} /\ UNCHANGED <<thread, pi>>
    <3>1. ExecuteResult(d)
      BY <1>2, ExecuteDoes
    <3> QED
      BY <3>1 DEF ExecuteResult
  <2>2. \A e \in Peripheral : e # d => told'[e] = told[e]
    BY <2>1 DEF TypeOK
  <2> QED
    BY <2>1, <2>2 DEF WritesReach
<1>3. ASSUME NEW d \in Peripheral, Copy(d) PROVE WritesReach'
  <2>1. Taken(d) = told[d]
    <3>1. told[d] \in [0 .. ImageSize - 1 -> Byte]
      BY DEF TypeOK, Image
    <3>2. \A i \in 0 .. ImageSize - 1 : shared.outputs[d][i] = told[d][i]
      BY DEF OutputsTold
    <3> QED
      BY <3>1, <3>2 DEF Taken
  <2>2. \A e \in Peripheral : pi'.q[e] = IF e = d THEN told[d] ELSE pi.q[e]
    BY <1>3, <2>1 DEF Copy, TypeOK
  <2>3. unsent' = unsent \ {d} /\ UNCHANGED <<thread, told>>
    BY <1>3 DEF Copy
  <2> QED
    BY <2>2, <2>3 DEF WritesReach
<1>4. ASSUME pi'.q = pi.q, told' = told, unsent' = unsent, thread'.at = "none" \/ thread.at # "none"
      PROVE  WritesReach'
  BY <1>4 DEF WritesReach
<1>5. ASSUME NEW d \in Peripheral, Exchange(d) PROVE WritesReach'
  <2>1. pi'.q = pi.q /\ told' = told /\ unsent' = unsent /\ thread' = thread
    BY <1>5 DEF Exchange, TypeOK
  <2> QED
    BY <1>4, <2>1
<1>6. CASE \E what \in {"connect", "disconnect"} : Begin(what)
  <2>1. pi' = pi /\ told' = told /\ unsent' = unsent /\ thread'.at = thread.at
    BY <1>6 DEF Begin, TypeOK
  <2> QED
    BY <1>4, <2>1
<1>7. CASE \E status \in {"connected", "disconnected"} : Answer(status)
  BY <1>4, <1>7 DEF Answer
<1>8. CASE \E d \in Peripheral : Lost(d) \/ Plant(d)
  BY <1>4, <1>8 DEF Lost, Plant
<1>9. CASE Online \/ Panic \/ CycleCompletes \/ Signal \/ Ends
  <2>1. pi' = pi /\ told' = told /\ unsent' = unsent /\ thread.at # "none"
    BY <1>9 DEF Online, Panic, CycleCompletes, Signal, Ends
  <2> QED
    BY <1>4, <2>1
<1>10. CASE Disconnect \/ StreamBreaks \/ BackoffOver \/ UNCHANGED vars
  <2>1. pi' = pi /\ told' = told /\ unsent' = unsent /\ thread' = thread
    BY <1>10 DEF Disconnect, StreamBreaks, BackoffOver, vars
  <2> QED
    BY <1>4, <2>1
<1> QED
  BY <1>1, <1>2, <1>3, <1>5, <1>6, <1>7, <1>8, <1>9, <1>10 DEF Next

\* The connection is given up after the thread has ended, and only a connection starts one.
LEMMA StoppedStep ==
    ASSUME Bits \in Nat \ {0}, ImageSize \in Nat, TypeOK, OutputsTold, Stopped, [Next]_vars
    PROVE  Stopped'
<1>1. CASE Spawn
  BY <1>1 DEF Spawn, Stopped
<1>2. ASSUME shared'.on = shared.on, thread'.at = "none" \/ thread.at # "none" PROVE Stopped'
  BY <1>2 DEF Stopped
<1>3. CASE Disconnect
  BY <1>3 DEF Disconnect, Joined, Stopped
<1>4. ASSUME NEW d \in Peripheral, Execute(d) PROVE Stopped'
  <2>1. shared'.on = shared.on /\ thread' = thread
    <3>1. ExecuteResult(d)
      BY <1>4, ExecuteDoes
    <3> QED
      BY <3>1 DEF ExecuteResult, TypeOK
  <2> QED
    BY <1>2, <2>1
<1>5. ASSUME NEW d \in Peripheral, Copy(d) PROVE Stopped'
  <2>1. shared'.on = shared.on /\ thread' = thread
    BY <1>5 DEF Copy, TypeOK
  <2> QED
    BY <1>2, <2>1
<1>6. CASE \E what \in {"connect", "disconnect"} : Begin(what)
  <2>1. shared' = shared /\ thread'.at = thread.at
    BY <1>6 DEF Begin, TypeOK
  <2> QED
    BY <1>2, <2>1
<1>7. CASE Panic
  <2>1. shared'.on = shared.on /\ thread'.at = "none"
    BY <1>7 DEF Panic, TypeOK
  <2> QED
    BY <1>2, <2>1
<1>8. CASE \E d \in Peripheral : Exchange(d) \/ Lost(d) \/ Plant(d)
  BY <1>2, <1>8 DEF Exchange, Lost, Plant
<1>9. CASE Online \/ CycleCompletes \/ Signal \/ Ends
  <2>1. shared' = shared /\ thread.at # "none"
    BY <1>9 DEF Online, CycleCompletes, Signal, Ends
  <2> QED
    BY <1>2, <2>1
<1>10. CASE StreamBreaks \/ BackoffOver \/ UNCHANGED vars
  BY <1>2, <1>10 DEF StreamBreaks, BackoffOver, vars
<1>11. CASE \E status \in {"connected", "disconnected"} : Answer(status)
  BY <1>2, <1>11 DEF Answer
<1> QED
  BY <1>1, <1>3, <1>4, <1>5, <1>6, <1>7, <1>8, <1>9, <1>10, <1>11 DEF Next

-----------------------------------------------------------------------------
(* Reads.                                                                  *)

\* A link is connected by the cycle that gives the inputs out, and by no other step.
LEMMA LinksStep ==
    ASSUME Bits \in Nat \ {0}, ImageSize \in Nat, TypeOK, OutputsTold, Links, [Next]_vars
    PROVE  Links'
<1> DEFINE Told1(e) ==
             shared'.link[e] = "connected" =>
                /\ thread'.cycles > 0 /\ (thread'.at # "none" \/ thread'.stop)
                /\ GivenOut(e)' => shared'.inputs[e] = pi'.i[e]
           Told2(e) == thread'.at = "cycle" /\ e \notin turn'.copy => shared'.link[e] = "connected"
           Told3(e) == ready' = "sent" \/ reported' = "connected" =>
                          shared'.link[e] \in {"connected", "fault"}
           Told0 == /\ thread'.at = "opening" => thread'.cycles = 0
                    /\ thread'.at = "cycle" => thread'.cycles > 0
<1>0. ASSUME Told0, \A e \in Peripheral : pi'.i[e] = latest'[e] /\ Told1(e) /\ Told2(e) /\ Told3(e)
      PROVE  Links'
  BY <1>0 DEF Links
<1> HIDE DEF Told0, Told1, Told2, Told3
<1>1. CASE Spawn
  <2>1. \A e \in Peripheral : pi'.i[e] = 0 /\ latest'[e] = 0 /\ shared'.link[e] = "unknown"
    BY <1>1 DEF Spawn, All
  <2>2. thread'.at = "opening" /\ thread'.cycles = 0 /\ ready' = "none" /\ reported' = "none"
    BY <1>1 DEF Spawn
  <2> QED
    BY <1>0, <2>1, <2>2 DEF Told0, Told1, Told2, Told3
<1>2. ASSUME shared'.link = shared.link, shared'.inputs = shared.inputs, pi'.i = pi.i,
             latest' = latest, thread' = thread, turn' = turn, ready' = ready,
             reported' = reported \/ reported' # "connected" \/ ready = "sent"
      PROVE  Links'
  <2>1. \A e \in Peripheral : GivenOut(e)' = GivenOut(e)
    BY <1>2 DEF GivenOut
  <2> QED
    BY <1>0, <1>2, <2>1 DEF Told0, Told1, Told2, Told3, Links
<1>3. ASSUME NEW d \in Peripheral, Execute(d) PROVE Links'
  <2>1. /\ shared'.link = shared.link /\ shared'.inputs = shared.inputs
        /\ UNCHANGED <<pi, latest, thread, turn, ready, reported>>
    <3>1. ExecuteResult(d)
      BY <1>3, ExecuteDoes
    <3> QED
      BY <3>1 DEF ExecuteResult, TypeOK
  <2> QED
    BY <1>2, <2>1
<1>4. CASE Disconnect
  <2>1. /\ shared'.link = shared.link /\ shared'.inputs = shared.inputs /\ reported' = "none"
        /\ UNCHANGED <<pi, latest, thread, turn, ready>>
    BY <1>4 DEF Disconnect, TypeOK
  <2> QED
    BY <1>2, <2>1
<1>5. CASE \E status \in {"connected", "disconnected"} : Answer(status)
  BY <1>2, <1>5 DEF Answer
<1>6. CASE (\E d \in Peripheral : Plant(d)) \/ StreamBreaks \/ BackoffOver \/ UNCHANGED vars
  BY <1>2, <1>6 DEF Plant, StreamBreaks, BackoffOver, vars
<1>7. CASE \E what \in {"connect", "disconnect"} : Begin(what)
  <2>1. /\ thread'.at = thread.at /\ thread'.cycles = thread.cycles /\ thread'.stop
        /\ UNCHANGED <<shared, turn, pi, ready, latest, reported>>
    BY <1>7 DEF Begin, TypeOK
  <2>2. \A e \in Peripheral : GivenOut(e)' = GivenOut(e)
    BY <2>1 DEF GivenOut
  <2> QED
    BY <1>0, <2>1, <2>2 DEF Told0, Told1, Told2, Told3, Links
<1>8. CASE Online
  <2>1. /\ thread.at = "opening" /\ thread'.at = "loop" /\ thread'.cycles = thread.cycles
        /\ UNCHANGED <<shared, turn, pi, ready, latest, reported>>
    BY <1>8 DEF Online, TypeOK
  <2>2. \A e \in Peripheral : shared.link[e] # "connected"
    <3>1. thread.cycles = 0
      BY <2>1 DEF Links
    <3> QED
      BY <3>1 DEF Links
  <2> QED
    BY <1>0, <2>1, <2>2 DEF Told0, Told1, Told2, Told3, Links
<1>9. CASE Panic
  <2>1. thread'.at = "none" /\ UNCHANGED <<pi, latest>>
    BY <1>9 DEF Panic, TypeOK
  <2>2. \A e \in Peripheral : shared'.link[e] = "fault"
    BY <1>9 DEF Panic, Faulted, All, TypeOK
  <2> QED
    BY <1>0, <2>1, <2>2 DEF Told0, Told1, Told2, Told3, Links
<1>10. ASSUME NEW d \in Peripheral, Exchange(d) PROVE Links'
  <2>1. /\ thread.at = "loop" /\ d \notin turn'.exchange
        /\ UNCHANGED <<shared, thread, ready, reported>>
    BY <1>10 DEF Exchange, TypeOK
  <2>2. \A e \in Peripheral : ~GivenOut(e)'
    BY <2>1 DEF GivenOut
  <2>3. \A e \in Peripheral : pi'.i[e] = (IF e = d THEN station[d].in ELSE pi.i[e])
    BY <1>10 DEF Exchange, TypeOK
  <2>4. \A e \in Peripheral : latest'[e] = (IF e = d THEN station[d].in ELSE latest[e])
    BY <1>10 DEF Exchange, TypeOK
  <2> QED
    BY <1>0, <2>1, <2>2, <2>3, <2>4 DEF Told0, Told1, Told2, Told3, Links
<1>11. ASSUME NEW d \in Peripheral, Lost(d) PROVE Links'
  <2>1. /\ thread.at = "loop" /\ d \notin turn'.exchange
        /\ UNCHANGED <<shared, thread, ready, pi, latest, reported>>
    BY <1>11 DEF Lost, TypeOK
  <2>2. \A e \in Peripheral : ~GivenOut(e)'
    BY <2>1 DEF GivenOut
  <2> QED
    BY <1>0, <2>1, <2>2 DEF Told0, Told1, Told2, Told3, Links
<1>12. CASE CycleCompletes
  <2>1. /\ thread.at = "loop" /\ thread'.at = "cycle" /\ thread'.cycles = 1 /\ turn'.copy = Peripheral
        /\ UNCHANGED <<shared, pi, ready, latest, reported>>
    BY <1>12 DEF CycleCompletes, TypeOK
  <2>2. \A e \in Peripheral : ~GivenOut(e)'
    BY <2>1 DEF GivenOut
  <2> QED
    BY <1>0, <2>1, <2>2 DEF Told0, Told1, Told2, Told3, Links
<1>13. ASSUME NEW d \in Peripheral, Copy(d) PROVE Links'
  <2>1. /\ thread.at = "cycle" /\ turn'.copy = turn.copy \ {d}
        /\ pi'.i = pi.i /\ UNCHANGED <<thread, ready, latest, reported>>
    BY <1>13 DEF Copy, TypeOK
  <2>2. \A e \in Peripheral : shared'.link[e] = IF e = d THEN "connected" ELSE shared.link[e]
    BY <1>13 DEF Copy, TypeOK
  <2>3. \A e \in Peripheral : shared'.inputs[e] = IF e = d THEN pi.i[d] ELSE shared.inputs[e]
    BY <1>13 DEF Copy, Copied, TypeOK
  <2>4. \A e \in Peripheral : e # d /\ GivenOut(e)' => GivenOut(e)
    BY <2>1 DEF GivenOut
  <2> QED
    BY <1>0, <2>1, <2>2, <2>3, <2>4 DEF Told0, Told1, Told2, Told3, Links
<1>14. CASE Signal
  <2>1. /\ thread.at = "cycle" /\ turn.copy = {} /\ thread'.at = "loop"
        /\ thread'.cycles = thread.cycles /\ UNCHANGED <<shared, pi, latest, reported>>
    BY <1>14 DEF Signal, TypeOK
  <2>2. \A e \in Peripheral : GivenOut(e) /\ shared.link[e] = "connected"
    BY <2>1 DEF GivenOut, Links
  <2> QED
    BY <1>0, <2>1, <2>2 DEF Told0, Told1, Told2, Told3, Links
<1>15. CASE Ends
  <2>1. /\ thread.stop /\ thread'.at = "none" /\ thread'.stop /\ thread'.cycles = thread.cycles
        /\ ready' = "sent" => ready = "sent"
        /\ UNCHANGED <<shared, pi, latest, reported>>
    BY <1>15 DEF Ends, TypeOK
  <2>2. \A e \in Peripheral : ~GivenOut(e)'
    BY <2>1 DEF GivenOut
  <2> QED
    BY <1>0, <2>1, <2>2 DEF Told0, Told1, Told2, Told3, Links
<1> QED
  BY <1>1, <1>3, <1>4, <1>5, <1>6, <1>7, <1>8, <1>9, <1>10, <1>11, <1>12, <1>13, <1>14, <1>15
     DEF Next

IInv == TypeOK /\ OutputsTold /\ WritesReach /\ Links /\ Stopped

\* A good read of a point was decoded from the shared inputs of a connected peripheral.
LEMMA GoodRead ==
    ASSUME NEW d \in Peripheral, NEW p \in Points, ReadPoint(d, p).good
    PROVE  shared.link[d] = "connected" /\ ReadPoint(d, p).from = shared.inputs[d]
<1>1. ReadPoint(d, p) # Bad
  BY DEF Bad
<1>2. shared.link[d] = "connected" /\ ReadPoint(d, p) = DecodePoint(p, shared.inputs[d])
  BY <1>1 DEF ReadPoint
<1>3. DecodePoint(p, shared.inputs[d]) = Good(shared.inputs[d])
  BY <1>1, <1>2 DEF DecodePoint
<1> QED
  BY <1>2, <1>3 DEF Good

\* Before the first connect nothing is connected and nothing runs.
LEMMA InitInv == ASSUME Bits \in Nat \ {0}, ImageSize \in Nat, Init PROVE IInv
<1>1. Zeroed \in Image /\ Zeroed \in Grown
  BY ZeroedType
<1>2. /\ All(0) \in [Peripheral -> Nat] /\ All(Zeroed) \in [Peripheral -> Grown]
      /\ All(Zeroed) \in [Peripheral -> Image]
      /\ All("unknown") \in [Peripheral -> {"unknown", "connected", "fault"}]
  BY <1>1 DEF All
<1>3. All([on |-> TRUE, in |-> 1, out |-> Zeroed]) \in [Peripheral -> [on : BOOLEAN, in : Nat, out : Image]]
  BY <1>1 DEF All
<1>4. TypeOK
  <2>1. shared \in SharedType /\ pi \in [i : [Peripheral -> Nat], q : [Peripheral -> Image]]
    BY <1>2 DEF Init, SharedType
  <2> QED
    BY <1>2, <1>3, <2>1 DEF Init, TypeOK, SharedType
<1>5. OutputsTold
  BY DEF Init, OutputsTold
<1>6. WritesReach /\ Stopped
  BY DEF Init, WritesReach, Stopped
<1>7. Links
  <2>1. \A d \in Peripheral : shared.link[d] = "unknown" /\ pi.i[d] = 0 /\ latest[d] = 0
    BY DEF Init, All
  <2>2. thread.at = "none" /\ thread.cycles = 0 /\ ready = "none" /\ reported = "none"
    BY DEF Init
  <2> QED
    BY <2>1, <2>2 DEF Links
<1> QED
  BY <1>4, <1>5, <1>6, <1>7 DEF IInv

\* The invariant says all that is claimed.
LEMMA Enough == ASSUME IInv PROVE ProfibusSound
<1>1. ReadsCurrent
  <2> SUFFICES ASSUME NEW d \in Peripheral, NEW p \in {x \in Points : x.input}, ReadPoint(d, p).good
               PROVE  /\ thread.cycles > 0 /\ (thread.at # "none" \/ thread.stop)
                      /\ thread.at = "loop" /\ turn.exchange = Peripheral =>
                            ReadPoint(d, p).from = latest[d]
    BY DEF ReadsCurrent
  <2>1. p \in Points
    OBVIOUS
  <2>2. shared.link[d] = "connected" /\ ReadPoint(d, p).from = shared.inputs[d]
    BY <2>1, GoodRead
  <2> QED
    BY <2>2 DEF IInv, Links, GivenOut
<1>2. ReportTrue
  BY DEF IInv, Links, ReportTrue
<1> QED
  BY <1>1, <1>2 DEF IInv, ProfibusSound

\* Whatever the peripherals, the width of a byte and the size of the images, and however often the
\* connector is connected, written to and disconnected while the stream breaks and the thread fails:
\* an exchange carries what the writes of the connection add up to, no bit more (execute,
\* encode_point, bus_loop); a good read gives what the peripheral last sent and is had only between
\* the first cycle and the end of the thread (read_point, bus_loop); a connect that reports its
\* peripherals connected has seen a whole cycle (connect); and no thread outlives the connection.
THEOREM BusSound == Spec => []ProfibusSound
<1>1. Init => IInv
  BY InitInv, ImageAssumption
<1>2. IInv /\ [Next]_vars => IInv'
  BY TypeStep, OutputsStep, WritesStep, StoppedStep, LinksStep, ImageAssumption DEF IInv
<1>3. IInv => ProfibusSound
  BY Enough
<1> QED
  BY <1>1, <1>2, <1>3, PTL DEF Spec

-----------------------------------------------------------------------------
(* OPC UA: the session.                                                    *)

\* The provers take the Cardinality of an instance for an operator of its own: it is the same.
LEMMA UaCardinality == ASSUME NEW S PROVE O!Cardinality(S) = Cardinality(S)
BY DEF O!Cardinality, Cardinality

\* The same in a read.
LEMMA ReadCardinality == ASSUME NEW S PROVE R!Cardinality(S) = Cardinality(S)
BY DEF R!Cardinality, Cardinality

\* The same in Modbus.
LEMMA MbCardinality == ASSUME NEW S PROVE MB!Cardinality(S) = Cardinality(S)
BY DEF MB!Cardinality, Cardinality

OpcUaTypeOK ==
    /\ call \in {"none", "connect", "setup", "close", "items"}
    /\ then \in BOOLEAN /\ handle \in BOOLEAN
    /\ health \in [connected : BOOLEAN, reason : BOOLEAN, security : BOOLEAN, silent : BOOLEAN]
    /\ trans \in [UaPoint -> 0 .. 3]
    /\ push \in [armed : BOOLEAN, expected : Nat, points : SUBSET UaPoint, waiting : SUBSET UaPoint]
    /\ forwarders \in Int
    /\ loop \in {"none", "dial", "active", "lost", "ended"}
    /\ event \in {"none", "connected", "lost", "refused", "ended"}
    /\ live \in SUBSET UaPoint
    /\ server \in [net : {"up", "down", "silent"}, listed : SUBSET UaPoint, numbering : {0, 1},
                   held : Nat]
    /\ ua_faults \in Nat

\* A call has the session in hand, or `sessions' has it, or there is none.
Owned ==
    /\ call = "items" => handle
    /\ call \in {"connect", "setup", "close"} => ~handle
    /\ call = "setup" \/ call = "close" \/ handle => loop \in {"active", "lost", "ended"}
    /\ call = "none" /\ ~handle => loop = "none"
    /\ call = "connect" => loop # "none"

\* The event that is not recorded yet is about the loop as it is, and what was recorded last was.
UaRecorded ==
    /\ event = "connected" => loop = "active"
    /\ event = "lost" => loop \in {"lost", "dial"}
    /\ event = "refused" => loop = "dial"
    /\ event = "ended" => loop = "ended"
    /\ event = "none" /\ loop \in {"lost", "ended"} => ~health.connected /\ health.reason
    /\ event = "none" /\ loop = "active" => health.connected

\* Sessions of the server, against the faults that may have left them there.
SessionsLeft ==
    /\ O!NoSessionsLeft
    /\ loop = "active" /\ ~O!Answers => server.held <= ua_faults
    /\ loop = "active" /\ server.held = 0 => ua_faults > 0
    /\ loop \in {"lost", "ended"} => ua_faults > 0
    /\ loop = "active" /\ event = "connected" /\ (handle \/ call = "close") => server.held <= ua_faults
    /\ loop # "none" /\ (health.security \/ event = "refused") =>
          server.held < ua_faults + IF loop = "active" /\ O!Answers THEN 1 ELSE 0

\* What is watched is of the subscription and does not wait for the retry task.
Watched ==
    /\ push.armed => push.points = UaPoint
    /\ live \intersect push.waiting = {}

UaNumbered == \A p \in UaPoint : trans[p] \in {server.numbering, O!NotYet, O!Failed}

OpcUaInv == OpcUaTypeOK /\ Owned /\ UaRecorded /\ SessionsLeft /\ Watched /\ O!OneForwarder

\* Every step keeps the types.
LEMMA OpcUaTypeStep == ASSUME OpcUaTypeOK, [O!Next]_O!vars PROVE OpcUaTypeOK'
<1> USE PointAssumption DEF OpcUaTypeOK, O!Fresh, O!NotYet, O!Failed, O!NoPush
<1>1. CASE O!BeginConnect BY <1>1 DEF O!BeginConnect
<1>2. CASE O!Activated BY <1>2 DEF O!Activated
<1>3. CASE O!ConnectFails BY <1>3 DEF O!ConnectFails
<1>4. ASSUME NEW S \in SUBSET UaPoint PROVE O!Translate(S) \in [UaPoint -> 0 .. 3]
  BY DEF O!Translate
<1>5. CASE O!Install BY <1>4, <1>5 DEF O!Install
<1>6. CASE O!CloseSession BY <1>6 DEF O!CloseSession, O!Hold
<1>7. CASE O!BeginSubscribe BY <1>7 DEF O!BeginSubscribe
<1>8. CASE O!CreateItems
  <2>1. O!Untranslated \in SUBSET UaPoint BY DEF O!Untranslated
  <2>2. live' \in SUBSET UaPoint BY <1>8, <2>1 DEF O!CreateItems
  <2>3. O!Cardinality(live') \in Nat
    BY <2>2, FS_Subset, FS_CardinalityType, UaCardinality
  <2>4. push' \in [armed : BOOLEAN, expected : Nat, points : SUBSET UaPoint, waiting : SUBSET UaPoint]
    BY <1>8, <2>1, <2>3 DEF O!CreateItems
  <2>5. forwarders' \in Int BY <1>8 DEF O!CreateItems
  <2> QED BY <1>8, <2>2, <2>4, <2>5 DEF O!CreateItems
<1>9. CASE O!CreateFails BY <1>9 DEF O!CreateFails
<1>10. CASE O!ReadPoints
  <2>1. O!Untranslated \in SUBSET UaPoint BY DEF O!Untranslated
  <2> QED BY <1>4, <1>10, <2>1 DEF O!ReadPoints
<1>11. CASE O!BeginClose
  <2>1. forwarders' \in Int BY <1>11 DEF O!BeginClose
  <2>2. push' = O!NoPush /\ then' \in BOOLEAN /\ trans' \in [UaPoint -> 0 .. 3]
    BY <1>11 DEF O!BeginClose
  <2>3. call' = "close" /\ handle' = FALSE /\ UNCHANGED <<health, loop, event, live, server, ua_faults>>
    BY <1>11 DEF O!BeginClose
  <2> QED BY <2>1, <2>2, <2>3
<1>12. CASE O!Cancel BY <1>12 DEF O!Cancel
<1>13. CASE O!RetryRun
  <2>1. trans' \in [UaPoint -> 0 .. 3]
    <3>1. O!Untranslated \in SUBSET UaPoint BY DEF O!Untranslated
    <3> QED BY <1>4, <1>13, <3>1 DEF O!RetryRun
  <2>2. PICK able \in SUBSET push.waiting : live' = live \union able /\ push' = [push EXCEPT !.waiting = @ \ able]
    BY <1>13 DEF O!RetryRun
  <2> QED BY <1>13, <2>1, <2>2 DEF O!RetryRun
<1>14. CASE O!LibraryConnects BY <1>14 DEF O!LibraryConnects, O!Hold
<1>15. CASE O!LibraryLoses BY <1>15 DEF O!LibraryLoses
<1>16. CASE O!LibraryRefused BY <1>16 DEF O!LibraryRefused
<1>17. CASE O!LibraryReconnects BY <1>17 DEF O!LibraryReconnects, O!Hold
<1>18. CASE O!LibraryGivesUp BY <1>18 DEF O!LibraryGivesUp
<1>19. CASE O!Record
  <2>1. health' \in [connected : BOOLEAN, reason : BOOLEAN, security : BOOLEAN, silent : BOOLEAN]
    <3>1. CASE event = "connected" BY <1>19, <3>1 DEF O!Record
    <3>2. CASE event = "refused" BY <1>19, <3>2 DEF O!Record
    <3>3. CASE event \notin {"connected", "refused"} BY <1>19, <3>3 DEF O!Record
    <3> QED BY <3>1, <3>2, <3>3
  <2> QED BY <1>19, <2>1 DEF O!Record
<1>20. CASE O!Publishes
  <2>1. CASE O!Answers BY <1>20, <2>1 DEF O!Publishes
  <2>2. CASE ~O!Answers BY <1>20, <2>2 DEF O!Publishes
  <2> QED BY <2>1, <2>2
<1>21. CASE O!ServerFault
  <2>0. ua_faults' = ua_faults + 1 /\ UNCHANGED <<call, then, handle, health, trans, push, forwarders, loop, event, live>>
    BY <1>21, Zenon DEF O!ServerFault
  <2>1. ASSUME NEW n \in {"down", "silent"}, server' = [server EXCEPT !.net = n]
        PROVE  OpcUaTypeOK'
    BY <2>0, <2>1
  <2>2. ASSUME NEW k \in IF Renumbers THEN {0, 1} ELSE {server.numbering},
               server' = [server EXCEPT !.net = "down", !.held = 0, !.numbering = k]
        PROVE  OpcUaTypeOK'
    <3>1. k \in {0, 1} OBVIOUS
    <3>2. server' \in [net : {"up", "down", "silent"}, listed : SUBSET UaPoint, numbering : {0, 1}, held : Nat]
      BY <2>2, <3>1
    <3> QED BY <2>0, <3>2
  <2> QED BY <1>21, <2>1, <2>2 DEF O!ServerFault
<1>22. CASE O!ServerBack BY <1>22 DEF O!ServerBack
<1>23. ASSUME NEW p \in UaPoint, O!AddNamespace(p) PROVE OpcUaTypeOK' BY <1>23 DEF O!AddNamespace
<1>24. CASE UNCHANGED O!vars BY <1>24 DEF O!vars
<1> QED
  BY <1>1, <1>2, <1>3, <1>5, <1>6, <1>7, <1>8, <1>9, <1>10, <1>11, <1>12, <1>13, <1>14, <1>15, <1>16,
     <1>17, <1>18, <1>19, <1>20, <1>21, <1>22, <1>23, <1>24 DEF O!Next, O!Calls, O!Library

\* Every step keeps the session in one hand.
LEMMA OwnedStep == ASSUME OpcUaTypeOK, Owned, [O!Next]_O!vars PROVE Owned'
<1> USE DEF OpcUaTypeOK, Owned
<1>1. CASE O!BeginConnect BY <1>1 DEF O!BeginConnect
<1>2. CASE O!Activated BY <1>2 DEF O!Activated
<1>3. CASE O!ConnectFails BY <1>3 DEF O!ConnectFails
<1>5. CASE O!Install BY <1>5 DEF O!Install
<1>6. CASE O!CloseSession BY <1>6 DEF O!CloseSession, O!Hold
<1>7. CASE O!BeginSubscribe BY <1>7 DEF O!BeginSubscribe
<1>8. CASE O!CreateItems BY <1>8 DEF O!CreateItems
<1>9. CASE O!CreateFails BY <1>9 DEF O!CreateFails
<1>10. CASE O!ReadPoints BY <1>10 DEF O!ReadPoints
<1>11. CASE O!BeginClose BY <1>11 DEF O!BeginClose
<1>12. CASE O!Cancel BY <1>12 DEF O!Cancel
<1>13. CASE O!RetryRun BY <1>13 DEF O!RetryRun
<1>14. CASE O!LibraryConnects BY <1>14 DEF O!LibraryConnects
<1>15. CASE O!LibraryLoses BY <1>15 DEF O!LibraryLoses
<1>16. CASE O!LibraryRefused BY <1>16 DEF O!LibraryRefused
<1>17. CASE O!LibraryReconnects BY <1>17 DEF O!LibraryReconnects
<1>18. CASE O!LibraryGivesUp BY <1>18 DEF O!LibraryGivesUp
<1>19. CASE O!Record BY <1>19 DEF O!Record
<1>20. CASE O!Publishes BY <1>20 DEF O!Publishes
<1>21. CASE O!ServerFault BY <1>21 DEF O!ServerFault
<1>22. CASE O!ServerBack BY <1>22 DEF O!ServerBack
<1>23. ASSUME NEW p \in UaPoint, O!AddNamespace(p) PROVE Owned' BY <1>23 DEF O!AddNamespace
<1>24. CASE UNCHANGED O!vars BY <1>24 DEF O!vars
<1> QED
  BY <1>1, <1>2, <1>3, <1>5, <1>6, <1>7, <1>8, <1>9, <1>10, <1>11, <1>12, <1>13, <1>14, <1>15, <1>16,
     <1>17, <1>18, <1>19, <1>20, <1>21, <1>22, <1>23, <1>24 DEF O!Next, O!Calls, O!Library

\* What is recorded follows what the library has seen.
LEMMA UaRecordedStep == ASSUME OpcUaTypeOK, Owned, UaRecorded, [O!Next]_O!vars PROVE UaRecorded'
<1> USE DEF OpcUaTypeOK, Owned, UaRecorded, O!Fresh
<1>1. CASE O!BeginConnect BY <1>1 DEF O!BeginConnect
<1>2. CASE O!Activated BY <1>2 DEF O!Activated
<1>3. CASE O!ConnectFails BY <1>3 DEF O!ConnectFails
<1>5. CASE O!Install BY <1>5 DEF O!Install
<1>6. CASE O!CloseSession BY <1>6 DEF O!CloseSession, O!Hold
<1>7. CASE O!BeginSubscribe BY <1>7 DEF O!BeginSubscribe
<1>8. CASE O!CreateItems BY <1>8 DEF O!CreateItems
<1>9. CASE O!CreateFails BY <1>9 DEF O!CreateFails
<1>10. CASE O!ReadPoints BY <1>10 DEF O!ReadPoints
<1>11. CASE O!BeginClose BY <1>11 DEF O!BeginClose
<1>12. CASE O!Cancel BY <1>12 DEF O!Cancel
<1>13. CASE O!RetryRun BY <1>13 DEF O!RetryRun
<1>14. CASE O!LibraryConnects BY <1>14 DEF O!LibraryConnects, O!Hold
<1>15. CASE O!LibraryLoses BY <1>15 DEF O!LibraryLoses
<1>16. CASE O!LibraryRefused BY <1>16 DEF O!LibraryRefused
<1>17. CASE O!LibraryReconnects BY <1>17 DEF O!LibraryReconnects, O!Hold
<1>18. CASE O!LibraryGivesUp BY <1>18 DEF O!LibraryGivesUp
<1>19. CASE O!Record BY <1>19 DEF O!Record
<1>20. CASE O!Publishes BY <1>20 DEF O!Publishes
<1>21. CASE O!ServerFault BY <1>21 DEF O!ServerFault
<1>22. CASE O!ServerBack BY <1>22 DEF O!ServerBack
<1>23. ASSUME NEW p \in UaPoint, O!AddNamespace(p) PROVE UaRecorded' BY <1>23 DEF O!AddNamespace
<1>24. CASE UNCHANGED O!vars BY <1>24 DEF O!vars
<1> QED
  BY <1>1, <1>2, <1>3, <1>5, <1>6, <1>7, <1>8, <1>9, <1>10, <1>11, <1>12, <1>13, <1>14, <1>15, <1>16,
     <1>17, <1>18, <1>19, <1>20, <1>21, <1>22, <1>23, <1>24 DEF O!Next, O!Calls, O!Library

\* Sessions are left behind by faults only: a close gives back the one it has.
LEMMA SessionsLeftStep ==
    ASSUME OpcUaTypeOK, Owned, UaRecorded, SessionsLeft, [O!Next]_O!vars
    PROVE  SessionsLeft'
<1> USE DEF OpcUaTypeOK, Owned, UaRecorded, SessionsLeft, O!NoSessionsLeft, O!Answers, O!Fresh
<1>1. CASE O!BeginConnect BY <1>1 DEF O!BeginConnect
<1>2. CASE O!Activated BY <1>2 DEF O!Activated
<1>3. CASE O!ConnectFails BY <1>3 DEF O!ConnectFails
<1>5. CASE O!Install BY <1>5 DEF O!Install
<1>6. CASE O!CloseSession BY <1>6 DEF O!CloseSession, O!Hold
<1>7. CASE O!BeginSubscribe BY <1>7 DEF O!BeginSubscribe
<1>8. CASE O!CreateItems BY <1>8 DEF O!CreateItems
<1>9. CASE O!CreateFails BY <1>9 DEF O!CreateFails
<1>10. CASE O!ReadPoints BY <1>10 DEF O!ReadPoints
<1>11. CASE O!BeginClose BY <1>11 DEF O!BeginClose
<1>12. CASE O!Cancel BY <1>12 DEF O!Cancel
<1>13. CASE O!RetryRun BY <1>13 DEF O!RetryRun
<1>14. CASE O!LibraryConnects BY <1>14 DEF O!LibraryConnects, O!Hold
<1>15. CASE O!LibraryLoses
  <2>1. event = "none" /\ event' = "lost"
        /\ UNCHANGED <<call, then, handle, health, trans, push, forwarders, live, server, ua_faults>>
    BY <1>15 DEF O!LibraryLoses
  <2>2. CASE loop = "active" /\ server.net = "down" /\ loop' = "lost"
    <3>1. server.held <= ua_faults BY <2>2
    <3>2. ua_faults > 0 BY <2>2, <3>1
    <3> QED BY <2>1, <2>2, <3>1, <3>2
  <2>3. CASE loop = "active" /\ server.held = 0 /\ loop' = "lost"
    BY <2>1, <2>3
  <2>4. CASE loop = "dial" /\ loop' = "dial"
    BY <2>1, <2>4
  <2> QED BY <1>15, <2>2, <2>3, <2>4 DEF O!LibraryLoses
<1>16. CASE O!LibraryRefused BY <1>16 DEF O!LibraryRefused
<1>17. CASE O!LibraryReconnects BY <1>17 DEF O!LibraryReconnects, O!Hold
<1>18. CASE O!LibraryGivesUp BY <1>18 DEF O!LibraryGivesUp
<1>19. CASE O!Record BY <1>19 DEF O!Record
<1>20. CASE O!Publishes BY <1>20 DEF O!Publishes
<1>21. CASE O!ServerFault
  <2>1. /\ O!Answers /\ ua_faults' = ua_faults + 1
        /\ UNCHANGED <<call, then, handle, health, trans, push, forwarders, loop, event, live>>
    BY <1>21, Zenon DEF O!ServerFault
  <2>2. server'.held = server.held \/ server'.held = 0
    BY <1>21 DEF O!ServerFault
  <2> QED BY <2>1, <2>2
<1>22. CASE O!ServerBack BY <1>22 DEF O!ServerBack
<1>23. ASSUME NEW p \in UaPoint, O!AddNamespace(p) PROVE SessionsLeft' BY <1>23 DEF O!AddNamespace
<1>24. CASE UNCHANGED O!vars BY <1>24 DEF O!vars
<1> QED
  BY <1>1, <1>2, <1>3, <1>5, <1>6, <1>7, <1>8, <1>9, <1>10, <1>11, <1>12, <1>13, <1>14, <1>15, <1>16,
     <1>17, <1>18, <1>19, <1>20, <1>21, <1>22, <1>23, <1>24 DEF O!Next, O!Calls, O!Library

\* A subscription is made and given up as a whole, with its one forwarder.
LEMMA WatchedStep ==
    ASSUME OpcUaTypeOK, Watched, O!OneForwarder, [O!Next]_O!vars
    PROVE  Watched' /\ O!OneForwarder'
<1> USE DEF OpcUaTypeOK, Watched, O!OneForwarder, O!NoPush
<1>1. CASE O!BeginConnect BY <1>1 DEF O!BeginConnect
<1>2. CASE O!Activated BY <1>2 DEF O!Activated
<1>3. CASE O!ConnectFails BY <1>3 DEF O!ConnectFails
<1>5. CASE O!Install BY <1>5 DEF O!Install
<1>6. CASE O!CloseSession BY <1>6 DEF O!CloseSession, O!Hold
<1>7. CASE O!BeginSubscribe BY <1>7 DEF O!BeginSubscribe
<1>8. CASE O!CreateItems BY <1>8 DEF O!CreateItems
<1>9. CASE O!CreateFails BY <1>9 DEF O!CreateFails
<1>10. CASE O!ReadPoints BY <1>10 DEF O!ReadPoints
<1>11. CASE O!BeginClose BY <1>11 DEF O!BeginClose
<1>12. CASE O!Cancel BY <1>12 DEF O!Cancel
<1>13. CASE O!RetryRun BY <1>13 DEF O!RetryRun
<1>14. CASE O!LibraryConnects BY <1>14 DEF O!LibraryConnects, O!Hold
<1>15. CASE O!LibraryLoses BY <1>15 DEF O!LibraryLoses
<1>16. CASE O!LibraryRefused BY <1>16 DEF O!LibraryRefused
<1>17. CASE O!LibraryReconnects BY <1>17 DEF O!LibraryReconnects, O!Hold
<1>18. CASE O!LibraryGivesUp BY <1>18 DEF O!LibraryGivesUp
<1>19. CASE O!Record BY <1>19 DEF O!Record
<1>20. CASE O!Publishes BY <1>20 DEF O!Publishes
<1>21. CASE O!ServerFault BY <1>21 DEF O!ServerFault
<1>22. CASE O!ServerBack BY <1>22 DEF O!ServerBack
<1>23. ASSUME NEW p \in UaPoint, O!AddNamespace(p) PROVE Watched' /\ O!OneForwarder' BY <1>23 DEF O!AddNamespace
<1>24. CASE UNCHANGED O!vars BY <1>24 DEF O!vars
<1> QED
  BY <1>1, <1>2, <1>3, <1>5, <1>6, <1>7, <1>8, <1>9, <1>10, <1>11, <1>12, <1>13, <1>14, <1>15, <1>16,
     <1>17, <1>18, <1>19, <1>20, <1>21, <1>22, <1>23, <1>24 DEF O!Next, O!Calls, O!Library

\* Where no server numbers its namespaces anew, translations stay those of the server.
LEMMA UaNumberedStep ==
    ASSUME ~Renumbers, OpcUaTypeOK, UaNumbered, [O!Next]_O!vars
    PROVE  UaNumbered'
<1> USE DEF OpcUaTypeOK, UaNumbered, O!NotYet, O!Failed
<1>1. CASE O!BeginConnect BY <1>1 DEF O!BeginConnect
<1>2. CASE O!Activated BY <1>2 DEF O!Activated
<1>3. CASE O!ConnectFails BY <1>3 DEF O!ConnectFails
<1>4. ASSUME NEW S \in SUBSET UaPoint, NEW p \in UaPoint
      PROVE  O!Translate(S)[p] \in {server.numbering, O!NotYet, O!Failed}
  BY DEF O!Translate
<1>5. CASE O!Install BY <1>4, <1>5 DEF O!Install
<1>6. CASE O!CloseSession BY <1>6 DEF O!CloseSession, O!Hold
<1>7. CASE O!BeginSubscribe BY <1>7 DEF O!BeginSubscribe
<1>8. CASE O!CreateItems BY <1>8 DEF O!CreateItems
<1>9. CASE O!CreateFails BY <1>9 DEF O!CreateFails
<1>10. CASE O!ReadPoints
  <2>1. O!Untranslated \in SUBSET UaPoint BY DEF O!Untranslated
  <2> QED BY <1>4, <1>10, <2>1 DEF O!ReadPoints
<1>11. CASE O!BeginClose BY <1>11 DEF O!BeginClose
<1>12. CASE O!Cancel BY <1>12 DEF O!Cancel
<1>13. CASE O!RetryRun
  <2>1. O!Untranslated \in SUBSET UaPoint /\ trans' = O!Translate(O!Untranslated) /\ server' = server
    BY <1>13 DEF O!RetryRun, O!Untranslated
  <2> QED BY <1>4, <2>1
<1>14. CASE O!LibraryConnects BY <1>14 DEF O!LibraryConnects, O!Hold
<1>15. CASE O!LibraryLoses BY <1>15 DEF O!LibraryLoses
<1>16. CASE O!LibraryRefused BY <1>16 DEF O!LibraryRefused
<1>17. CASE O!LibraryReconnects BY <1>17 DEF O!LibraryReconnects, O!Hold
<1>18. CASE O!LibraryGivesUp BY <1>18 DEF O!LibraryGivesUp
<1>19. CASE O!Record BY <1>19 DEF O!Record
<1>20. CASE O!Publishes BY <1>20 DEF O!Publishes
<1>21. CASE O!ServerFault BY <1>21 DEF O!ServerFault
<1>22. CASE O!ServerBack BY <1>22 DEF O!ServerBack
<1>23. ASSUME NEW p \in UaPoint, O!AddNamespace(p) PROVE UaNumbered' BY <1>23 DEF O!AddNamespace
<1>24. CASE UNCHANGED O!vars BY <1>24 DEF O!vars
<1> QED
  BY <1>1, <1>2, <1>3, <1>5, <1>6, <1>7, <1>8, <1>9, <1>10, <1>11, <1>12, <1>13, <1>14, <1>15, <1>16,
     <1>17, <1>18, <1>19, <1>20, <1>21, <1>22, <1>23, <1>24 DEF O!Next, O!Calls, O!Library

\* The beginning has no session.
LEMMA OpcUaInit == ASSUME O!Init PROVE OpcUaInv /\ UaNumbered
<1>1. OpcUaTypeOK
  <2>1. trans \in [UaPoint -> 0 .. 3] /\ live \in SUBSET UaPoint
    BY DEF O!Init, O!NotYet
  <2>2. server \in [net : {"up", "down", "silent"}, listed : SUBSET UaPoint, numbering : {0, 1},
                    held : Nat]
    BY DEF O!Init
  <2>3. push \in [armed : BOOLEAN, expected : Nat, points : SUBSET UaPoint, waiting : SUBSET UaPoint]
    BY DEF O!Init, O!NoPush
  <2>4. health \in [connected : BOOLEAN, reason : BOOLEAN, security : BOOLEAN, silent : BOOLEAN]
    BY DEF O!Init, O!Fresh
  <2>5. then \in BOOLEAN /\ handle \in BOOLEAN
    BY DEF O!Init
  <2>6. call = "none" /\ forwarders = 0 /\ loop = "none" /\ event = "none" /\ ua_faults = 0
    BY DEF O!Init
  <2> QED
    BY <2>1, <2>2, <2>3, <2>4, <2>5, <2>6 DEF OpcUaTypeOK
<1>2. Owned /\ UaRecorded /\ SessionsLeft
  BY DEF O!Init, Owned, UaRecorded, SessionsLeft, O!NoSessionsLeft, O!Answers
<1>3. Watched /\ O!OneForwarder /\ UaNumbered
  BY DEF O!Init, Watched, O!OneForwarder, O!NoPush, O!NotYet, O!Failed, UaNumbered
<1> QED
  BY <1>1, <1>2, <1>3 DEF OpcUaInv

\* As many items as points that do not wait: they are the same.
LEMMA AllWatched == ASSUME OpcUaTypeOK, Watched PROVE O!PushNoticed
<1> SUFFICES ASSUME push.armed, O!CheckOk, push.expected = O!Cardinality(push.points \ push.waiting)
             PROVE  push.points \subseteq live \union push.waiting
  BY DEF O!PushNoticed
<1>1. live \subseteq push.points \ push.waiting
  BY DEF OpcUaTypeOK, Watched
<1>2. IsFiniteSet(push.points \ push.waiting) /\ IsFiniteSet(live)
  BY <1>1, FS_Subset, PointAssumption DEF OpcUaTypeOK
<1>3. Cardinality(live) >= Cardinality(push.points \ push.waiting)
  BY UaCardinality DEF O!CheckOk
<1>4. live = push.points \ push.waiting
  BY <1>1, <1>2, <1>3, FS_Subset, FS_CardinalityType
<1> QED
  BY <1>4

\* OPC UA sessions: their health, what a close leaves behind, subscriptions and translations.
LEMMA OpcUaSessions ==
    ASSUME ~Renumbers
    PROVE  O!Spec => [](O!HealthCurrent /\ O!NoSessionsLeft /\ O!OneForwarder /\ O!PushNoticed /\ O!TranslationCurrent)
<1>1. O!Init => OpcUaInv /\ UaNumbered
  BY OpcUaInit
<1>2. OpcUaInv /\ UaNumbered /\ [O!Next]_O!vars => OpcUaInv' /\ UaNumbered'
  BY OpcUaTypeStep, OwnedStep, UaRecordedStep, SessionsLeftStep, WatchedStep, UaNumberedStep DEF OpcUaInv
<1>3. OpcUaInv /\ UaNumbered => O!HealthCurrent /\ O!NoSessionsLeft /\ O!OneForwarder /\ O!PushNoticed /\ O!TranslationCurrent
  <2> SUFFICES ASSUME OpcUaInv, UaNumbered
               PROVE  O!HealthCurrent /\ O!NoSessionsLeft /\ O!OneForwarder /\ O!PushNoticed /\ O!TranslationCurrent
    OBVIOUS
  <2>1. O!HealthCurrent
    BY DEF OpcUaInv, OpcUaTypeOK, Owned, UaRecorded, O!HealthCurrent
  <2>2. O!PushNoticed
    BY AllWatched DEF OpcUaInv
  <2> QED
    BY <2>1, <2>2 DEF OpcUaInv, SessionsLeft, O!TranslationCurrent, UaNumbered
<1> QED
  BY <1>1, <1>2, <1>3, PTL DEF O!Spec

-----------------------------------------------------------------------------
(* OPC UA: a read.                                                         *)

BlockType == [start : Nat, tries : Nat]

ReadTypeOK ==
    /\ blocks \in Seq(BlockType) /\ running \in SUBSET BlockType
    /\ result \in [R!Node -> {"none", "value", "error"}]
    /\ lost \in BOOLEAN /\ any_ok \in BOOLEAN
    /\ answer \in {"none", "samples", "link lost"}

InFlight(n) == \E b \in running : n \in R!Of(b)
ToSend(n) == \E i \in DOMAIN blocks : n \in R!Of(blocks[i])

\* A node is in one block, which is to be sent or in flight, as long as it has no outcome.
OneBlock(n) ==
    /\ \A b, c \in running : n \in R!Of(b) /\ n \in R!Of(c) => b = c
    /\ \A i, j \in DOMAIN blocks : n \in R!Of(blocks[i]) /\ n \in R!Of(blocks[j]) => i = j
    /\ ~(InFlight(n) /\ ToSend(n))
    /\ result[n] = "none" <=> InFlight(n) \/ ToSend(n)

ReadInv ==
    /\ ReadTypeOK
    /\ lost \/ \A n \in R!Node : OneBlock(n)
    /\ answer # "none" => running = {}
    /\ R!ReadAnswers

\* The block of a node, for any size of block.
LEMMA BlockOf ==
    ASSUME NEW m \in Nat, NEW k \in Nat \ {0}
    PROVE  m \div k \in Nat /\ (m \div k) * k <= m /\ m < (m \div k + 1) * k
OBVIOUS

\* A node is in one block only.
LEMMA BlockUnique ==
    ASSUME NEW k \in Nat \ {0}, NEW i \in Nat, NEW j \in Nat, NEW n \in Nat,
           i * k < n, n <= (i + 1) * k, j * k < n, n <= (j + 1) * k
    PROVE  i = j
<1>1. ASSUME NEW a \in Nat, NEW b \in Nat, a < b PROVE (a + 1) * k <= b * k
  BY <1>1
<1> QED
  BY <1>1

\* The block a node is in, and the last block.
LEMMA BlockThere ==
    ASSUME NEW k \in Nat \ {0}, NEW n \in Nat \ {0}, NEW m \in Nat, n <= m
    PROVE  \E i \in 1 .. (m + k - 1) \div k : (i - 1) * k < n /\ n <= i * k
<1> DEFINE i == (n - 1) \div k + 1
<1>1. (n - 1) \div k \in Nat /\ ((n - 1) \div k) * k <= n - 1 /\ n - 1 < ((n - 1) \div k + 1) * k
  BY BlockOf
<1>2. i \in Nat \ {0} /\ (i - 1) * k <= n - 1 /\ n - 1 < i * k
  BY <1>1
<1> HIDE DEF i
<1>3. (i - 1) * k < n /\ n <= i * k
  <2>1. i * k \in Nat /\ (i - 1) * k \in Nat
    BY <1>2
  <2> QED
    BY <1>2, <2>1
<1>4. i <= (m + k - 1) \div k
  <2> DEFINE q == (m + k - 1) \div k
  <2>1. q \in Nat /\ m + k - 1 < (q + 1) * k
    BY BlockOf
  <2> HIDE DEF q
  <2>2. (q + 1) * k = q * k + k /\ q * k \in Nat
    BY <2>1
  <2>3. m <= q * k
    BY <2>1, <2>2
  <2>4. (i - 1) * k < q * k
    BY <1>3, <2>3, <1>2, <2>2
  <2>5. i - 1 < q
    <3> SUFFICES ASSUME q <= i - 1 PROVE FALSE
      BY <1>2, <2>1
    <3>1. q * k <= (i - 1) * k
      BY <1>2, <2>1
    <3> QED
      BY <2>4, <3>1, <1>2, <2>2
  <2> QED
    BY <2>1, <2>5, <1>2 DEF q
<1>5. (m + k - 1) \div k \in Nat
  BY BlockOf
<1>6. i \in 1 .. (m + k - 1) \div k
  BY <1>2, <1>4, <1>5
<1> QED
  BY <1>3, <1>6

\* A sequence with one more element in front.
LEMMA Prepended ==
    ASSUME NEW S, NEW x \in S, NEW s \in Seq(S)
    PROVE  /\ <<x>> \o s \in Seq(S)
           /\ Len(<<x>> \o s) = Len(s) + 1
           /\ DOMAIN (<<x>> \o s) = 1 .. Len(s) + 1
           /\ (<<x>> \o s)[1] = x
           /\ \A i \in 1 .. Len(s) : (<<x>> \o s)[i + 1] = s[i]
<1>1. <<x>> \in Seq(S) /\ Len(<<x>>) = 1 /\ <<x>>[1] = x
  OBVIOUS
<1>2. Len(s) \in Nat
  OBVIOUS
<1> QED
  BY <1>1, <1>2

\* A block has a node at least, whatever the server says.
LEMMA BlockSizeType == R!Block \in Nat \ {0}
BY ReadAssumption DEF R!Block

\* In the beginning every node is in one block to be sent.
LEMMA ReadInit == ASSUME R!Init PROVE ReadInv
<1> USE BlockSizeType, ReadAssumption
<1> DEFINE N == (Nodes + R!Block - 1) \div R!Block
<1>1. N \in Nat
  BY BlockOf
<1>2. blocks = [i \in 1 .. N |-> [start |-> (i - 1) * R!Block, tries |-> 0]]
  BY DEF R!Init
<1> HIDE DEF N
<1>3. blocks \in Seq(BlockType)
  <2>1. \A i \in 1 .. N : (i - 1) * R!Block \in Nat
    BY <1>1
  <2> QED
    BY <1>1, <1>2, <2>1 DEF BlockType
<1>4. ReadTypeOK
  BY <1>3 DEF R!Init, ReadTypeOK
<1>5. DOMAIN blocks = 1 .. N /\ \A i \in 1 .. N : blocks[i].start = (i - 1) * R!Block
  BY <1>2
<1>6. \A n \in R!Node, i \in 1 .. N : n \in R!Of(blocks[i]) <=> (i - 1) * R!Block < n /\ n <= i * R!Block
  <2> SUFFICES ASSUME NEW n \in R!Node, NEW i \in 1 .. N
               PROVE  n \in R!Of(blocks[i]) <=> (i - 1) * R!Block < n /\ n <= i * R!Block
    OBVIOUS
  <2>1. i * R!Block = (i - 1) * R!Block + R!Block /\ (i - 1) * R!Block \in Nat
    BY <1>1
  <2> QED
    BY <1>5, <2>1 DEF R!Of, R!Node
<1>7. ASSUME NEW n \in R!Node PROVE OneBlock(n)
  <2>1. n \in Nat \ {0} /\ n <= Nodes
    BY DEF R!Node
  <2>2. ToSend(n)
    BY <1>5, <1>6, <2>1, BlockThere DEF ToSend, N
  <2>3. ~InFlight(n) /\ result[n] = "none"
    BY DEF R!Init, InFlight
  <2>4. ASSUME NEW i \in 1 .. N, NEW j \in 1 .. N, n \in R!Of(blocks[i]), n \in R!Of(blocks[j])
        PROVE  i = j
    <3>1. (i - 1) * R!Block < n /\ n <= i * R!Block /\ (j - 1) * R!Block < n /\ n <= j * R!Block
      BY <1>6, <2>4
    <3>2. i - 1 \in Nat /\ j - 1 \in Nat /\ (i - 1) + 1 = i /\ (j - 1) + 1 = j
      BY <1>1
    <3>3. i - 1 = j - 1
      BY <2>1, <3>1, <3>2, BlockUnique
    <3> QED
      BY <1>1, <3>3
  <2> QED
    BY <1>5, <2>2, <2>3, <2>4 DEF OneBlock, R!Init
<1> QED
  BY <1>4, <1>7 DEF ReadInv, R!ReadAnswers, R!Init

\* A block that is sent again is a block.
LEMMA TriesMore ==
    ASSUME NEW b \in BlockType
    PROVE  [start |-> b.start, tries |-> b.tries + 1] \in BlockType
BY DEF BlockType

\* Every step keeps the types.
LEMMA ReadTypeStep == ASSUME ReadTypeOK, [R!Next]_R!vars PROVE ReadTypeOK'
<1> USE DEF ReadTypeOK
<1>1. CASE R!Send
  BY <1>1 DEF R!Send
<1>2. CASE R!Finish
  BY <1>2 DEF R!Finish
<1>3. ASSUME NEW b \in running, R!Values(b) PROVE ReadTypeOK'
  BY <1>3 DEF R!Values
<1>4. ASSUME NEW b \in running, R!SendAgain(b) PROVE ReadTypeOK'
  <2>1. /\ running' = running \ {b} /\ UNCHANGED <<result, lost, any_ok, answer>>
        /\ blocks' = <<[start |-> b.start, tries |-> b.tries + 1]>> \o blocks
    BY <1>4 DEF R!SendAgain
  <2>a. b \in BlockType
    OBVIOUS
  <2>2. [start |-> b.start, tries |-> b.tries + 1] \in BlockType
    BY <2>a, TriesMore
  <2>3. blocks' \in Seq(BlockType)
    BY <2>1, <2>2, Prepended
  <2> QED
    BY <2>1, <2>3
<1>5. ASSUME NEW b \in running, R!Loses(b) PROVE ReadTypeOK'
  BY <1>5 DEF R!Loses
<1>6. ASSUME NEW b \in running, R!Refused(b) PROVE ReadTypeOK'
  BY <1>6 DEF R!Refused
<1>7. CASE UNCHANGED R!vars
  BY <1>7 DEF R!vars
<1> QED
  BY <1>1, <1>2, <1>3, <1>4, <1>5, <1>6, <1>7 DEF R!Next, R!Outcome

\* A block moves from those to be sent to those in flight and back, or has an outcome for each node.
LEMMA ReadStep == ASSUME ReadInv, [R!Next]_R!vars PROVE ReadInv'
<1>0. ReadTypeOK /\ ReadTypeOK'
  BY ReadTypeStep DEF ReadInv
<1>a. /\ lost \/ \A n \in R!Node : OneBlock(n)
      /\ answer # "none" => running = {}
      /\ R!ReadAnswers
  BY DEF ReadInv
<1>b. blocks \in Seq(BlockType) /\ running \in SUBSET BlockType
  BY <1>0 DEF ReadTypeOK
<1>1. CASE R!Send
  <2>1. /\ ~lost /\ ~lost' /\ answer = "none" /\ answer' = "none" /\ sent' = sent /\ result' = result
        /\ blocks # << >> /\ running' = running \union {Head(blocks)} /\ blocks' = Tail(blocks)
        /\ any_ok' = any_ok
    BY <1>1 DEF R!Send
  <2>2. ASSUME NEW n \in R!Node PROVE OneBlock(n)'
    <3>1. OneBlock(n)
      BY <1>a, <2>1
    <3>2. /\ DOMAIN blocks = 1 .. Len(blocks) /\ Len(blocks) \in Nat \ {0}
          /\ DOMAIN blocks' = 1 .. Len(blocks) - 1
          /\ \A i \in 1 .. Len(blocks) - 1 : blocks'[i] = blocks[i + 1]
          /\ Head(blocks) = blocks[1]
      BY <1>b, <2>1
    <3> DEFINE h == Head(blocks)
    <3>3. ASSUME NEW i \in DOMAIN blocks' PROVE i + 1 \in DOMAIN blocks /\ i + 1 # 1 /\ blocks'[i] = blocks[i + 1]
      BY <3>2
    <3>4. ASSUME NEW i \in DOMAIN blocks, i # 1 PROVE i - 1 \in DOMAIN blocks' /\ blocks'[i - 1] = blocks[i]
      <4>1. i - 1 \in 1 .. Len(blocks) - 1 /\ i - 1 + 1 = i
        BY <3>2, <3>4
      <4> QED
        BY <3>2, <4>1
    <3>5. 1 \in DOMAIN blocks /\ h = blocks[1]
      BY <3>2
    <3>6. ToSend(n)' \/ n \in R!Of(h) <=> ToSend(n)
      BY <3>3, <3>4, <3>5 DEF ToSend
    <3>7. InFlight(n)' <=> InFlight(n) \/ n \in R!Of(h)
      BY <2>1 DEF InFlight
    <3>8. \A c, d \in running' : n \in R!Of(c) /\ n \in R!Of(d) => c = d
      BY <2>1, <3>1, <3>5 DEF OneBlock, InFlight, ToSend
    <3>9. ASSUME NEW i \in DOMAIN blocks', NEW j \in DOMAIN blocks', n \in R!Of(blocks'[i]), n \in R!Of(blocks'[j])
          PROVE  i = j
      <4>1. i + 1 = j + 1
        BY <3>1, <3>3, <3>9 DEF OneBlock
      <4> QED
        BY <3>2, <4>1
    <3>10. ~(n \in R!Of(h) /\ ToSend(n)')
      <4> SUFFICES ASSUME n \in R!Of(h), NEW i \in DOMAIN blocks', n \in R!Of(blocks'[i]) PROVE FALSE
        BY DEF ToSend
      <4>1. i + 1 \in DOMAIN blocks /\ i + 1 # 1 /\ n \in R!Of(blocks[i + 1])
        BY <3>3
      <4> QED
        BY <3>1, <3>5, <4>1 DEF OneBlock
    <3> HIDE DEF h
    <3> QED
      BY <2>1, <3>1, <3>6, <3>7, <3>8, <3>9, <3>10 DEF OneBlock
  <2> QED
    BY <1>0, <1>a, <2>1, <2>2 DEF ReadInv, R!ReadAnswers
<1>2. CASE R!Finish
  <2>1. /\ running = {} /\ running' = {} /\ (lost \/ blocks = << >>) /\ UNCHANGED <<blocks, lost, any_ok, sent>>
        /\ answer' = IF lost /\ any_ok THEN "link lost" ELSE "samples"
        /\ result' = IF lost /\ ~any_ok
                      THEN [n \in R!Node |-> IF result[n] = "none" THEN "error" ELSE result[n]]
                      ELSE result
    BY <1>2 DEF R!Finish
  <2>2. CASE lost
    BY <1>0, <1>a, <2>1, <2>2 DEF ReadInv, R!ReadAnswers
  <2>3. CASE ~lost
    <3>1. blocks = << >> /\ result' = result /\ ~lost' /\ answer' = "samples" /\ sent' = 0
      BY <1>a, <2>1, <2>3 DEF R!ReadAnswers
    <3>2. \A n \in R!Node : OneBlock(n) /\ ~InFlight(n) /\ ~ToSend(n)
      BY <1>a, <2>1, <2>3, <3>1 DEF InFlight, ToSend
    <3>3. \A n \in R!Node : result[n] # "none"
      BY <3>2 DEF OneBlock
    <3>4. \A n \in R!Node : OneBlock(n)'
      BY <2>1, <3>1, <3>2 DEF OneBlock, InFlight, ToSend
    <3> QED
      BY <1>0, <1>a, <2>1, <3>1, <3>3, <3>4 DEF ReadInv, R!ReadAnswers
  <2> QED
    BY <2>2, <2>3
<1>3. ASSUME NEW b \in running, R!Values(b) PROVE ReadInv'
  <2>1. /\ running' = running \ {b} /\ UNCHANGED <<blocks, lost, sent, answer>> /\ any_ok' = TRUE
        /\ \A n \in R!Node : n \notin R!Of(b) => result'[n] = result[n]
        /\ \A n \in R!Node : n \in R!Of(b) => result'[n] # "none"
    BY <1>3 DEF R!Values
  <2>2. ASSUME NEW n \in R!Node, OneBlock(n) PROVE OneBlock(n)'
    BY <2>1, <2>2 DEF OneBlock, InFlight, ToSend
  <2> QED
    BY <1>0, <1>a, <2>1, <2>2 DEF ReadInv, R!ReadAnswers
<1>4. ASSUME NEW b \in running, R!SendAgain(b) PROVE ReadInv'
  <2>1. /\ ~lost /\ running' = running \ {b} /\ UNCHANGED <<result, lost, any_ok, sent, answer>>
        /\ blocks' = <<[start |-> b.start, tries |-> b.tries + 1]>> \o blocks
    BY <1>4 DEF R!SendAgain
  <2>2. ASSUME NEW n \in R!Node PROVE OneBlock(n)'
    <3>1. OneBlock(n)
      BY <1>a, <2>1
    <3>z. b \in BlockType
      BY <1>b
    <3>a. blocks \in Seq(BlockType) /\ [start |-> b.start, tries |-> b.tries + 1] \in BlockType
      BY <1>b, <3>z, TriesMore
    <3>b. DOMAIN blocks = 1 .. Len(blocks) /\ Len(blocks) \in Nat
      BY <3>a
    <3>c. /\ DOMAIN blocks' = 1 .. Len(blocks) + 1
          /\ \A i \in 1 .. Len(blocks) : blocks'[i + 1] = blocks[i]
          /\ blocks'[1] = [start |-> b.start, tries |-> b.tries + 1]
      BY <2>1, <3>a, Prepended
    <3>2. /\ DOMAIN blocks = 1 .. Len(blocks) /\ Len(blocks) \in Nat
          /\ DOMAIN blocks' = 1 .. Len(blocks) + 1
          /\ \A i \in 1 .. Len(blocks) : blocks'[i + 1] = blocks[i]
          /\ blocks'[1] = [start |-> b.start, tries |-> b.tries + 1]
      BY <3>b, <3>c
    <3>3. n \in R!Of(blocks'[1]) <=> n \in R!Of(b)
      BY <3>2, <3>z DEF R!Of, BlockType
    <3>4. ASSUME NEW i \in DOMAIN blocks', n \in R!Of(blocks'[i])
          PROVE  \/ i = 1 /\ n \in R!Of(b)
                 \/ i - 1 \in DOMAIN blocks /\ n \in R!Of(blocks[i - 1])
      BY <3>2, <3>3, <3>4
    <3>5. ASSUME NEW i \in DOMAIN blocks, n \in R!Of(blocks[i])
          PROVE  i + 1 \in DOMAIN blocks' /\ n \in R!Of(blocks'[i + 1])
      BY <3>2, <3>5
    <3>6. 1 \in DOMAIN blocks'
      BY <3>2
    <3>7. ToSend(n)' <=> ToSend(n) \/ n \in R!Of(b)
      BY <3>3, <3>4, <3>5, <3>6 DEF ToSend
    <3>8. \A c, d \in running' : n \in R!Of(c) /\ n \in R!Of(d) => c = d
      BY <2>1, <3>1 DEF OneBlock
    <3>9. InFlight(n) <=> InFlight(n)' \/ n \in R!Of(b)
      BY <2>1 DEF InFlight
    <3>10. ~(InFlight(n)' /\ n \in R!Of(b))
      BY <2>1, <3>1 DEF OneBlock, InFlight
    <3>11. ASSUME NEW i \in DOMAIN blocks', NEW j \in DOMAIN blocks', n \in R!Of(blocks'[i]), n \in R!Of(blocks'[j])
           PROVE  i = j
      <4>1. n \in R!Of(b) => ~ToSend(n)
        BY <3>1 DEF OneBlock, InFlight
      <4>2. CASE n \in R!Of(b)
        BY <3>4, <3>11, <4>1, <4>2 DEF ToSend
      <4>3. CASE n \notin R!Of(b)
        <5>1. i - 1 \in DOMAIN blocks /\ n \in R!Of(blocks[i - 1]) /\ j - 1 \in DOMAIN blocks /\ n \in R!Of(blocks[j - 1])
          BY <3>4, <3>11, <4>3
        <5>2. i - 1 = j - 1
          BY <3>1, <5>1 DEF OneBlock
        <5> QED
          BY <3>2, <5>2
      <4> QED
        BY <4>2, <4>3
    <3> QED
      BY <2>1, <3>1, <3>7, <3>8, <3>9, <3>10, <3>11 DEF OneBlock
  <2> QED
    BY <1>0, <1>a, <2>1, <2>2 DEF ReadInv, R!ReadAnswers
<1>5. ASSUME NEW b \in running, R!Loses(b) PROVE ReadInv'
  BY <1>0, <1>a, <1>5 DEF R!Loses, ReadInv, R!ReadAnswers
<1>6. ASSUME NEW b \in running, R!Refused(b) PROVE ReadInv'
  <2>1. /\ running' = running \ {b} /\ UNCHANGED <<blocks, lost, any_ok, sent, answer>>
        /\ \A n \in R!Node : n \notin R!Of(b) => result'[n] = result[n]
        /\ \A n \in R!Node : n \in R!Of(b) => result'[n] # "none"
    BY <1>6 DEF R!Refused
  <2>2. ASSUME NEW n \in R!Node, OneBlock(n) PROVE OneBlock(n)'
    BY <2>1, <2>2 DEF OneBlock, InFlight, ToSend
  <2> QED
    BY <1>0, <1>a, <2>1, <2>2 DEF ReadInv, R!ReadAnswers
<1>7. CASE UNCHANGED R!vars
  BY <1>0, <1>a, <1>7 DEF R!vars, ReadInv, R!ReadAnswers, OneBlock, InFlight, ToSend
<1> QED
  BY <1>1, <1>2, <1>3, <1>4, <1>5, <1>6, <1>7 DEF R!Next, R!Outcome

\* Counted in blocks, a node is in exactly one place.
LEMMA ReadKept == ASSUME ReadInv PROVE R!BlocksKept
<1> SUFFICES ASSUME ~lost, NEW n \in R!Node
             PROVE  Cardinality({b \in running : n \in R!Of(b)})
                    + Cardinality({i \in DOMAIN blocks : n \in R!Of(blocks[i])})
                    + (IF result[n] = "none" THEN 0 ELSE 1) = 1
  BY ReadCardinality DEF R!BlocksKept
<1>1. OneBlock(n)
  BY DEF ReadInv
<1> DEFINE A == {b \in running : n \in R!Of(b)}
           B == {i \in DOMAIN blocks : n \in R!Of(blocks[i])}
<1>2. Cardinality(A) = IF InFlight(n) THEN 1 ELSE 0
  <2>1. CASE InFlight(n)
    <3>1. PICK b \in running : n \in R!Of(b)
      BY <2>1 DEF InFlight
    <3>2. A = {b}
      BY <1>1, <3>1 DEF OneBlock
    <3> QED
      BY <2>1, <3>2, FS_Singleton
  <2>2. CASE ~InFlight(n)
    BY <2>2, FS_EmptySet DEF InFlight
  <2> QED
    BY <2>1, <2>2
<1>3. Cardinality(B) = IF ToSend(n) THEN 1 ELSE 0
  <2>1. CASE ToSend(n)
    <3>1. PICK i \in DOMAIN blocks : n \in R!Of(blocks[i])
      BY <2>1 DEF ToSend
    <3>2. B = {i}
      BY <1>1, <3>1 DEF OneBlock
    <3> QED
      BY <2>1, <3>2, FS_Singleton
  <2>2. CASE ~ToSend(n)
    BY <2>2, FS_EmptySet DEF ToSend
  <2> QED
    BY <2>1, <2>2
<1> HIDE DEF A, B
<1>4. Cardinality(A) + Cardinality(B) + (IF result[n] = "none" THEN 0 ELSE 1) = 1
  BY <1>1, <1>2, <1>3 DEF OneBlock
<1> QED
  BY <1>4 DEF A, B

\* An OPC UA read answers for every node, each of which is in one block until then.
LEMMA OpcUaReads == R!Spec => [](R!ReadAnswers /\ R!BlocksKept)
<1>1. R!Init => ReadInv
  BY ReadInit
<1>2. ReadInv /\ [R!Next]_R!vars => ReadInv'
  BY ReadStep
<1>3. ReadInv => R!ReadAnswers /\ R!BlocksKept
  BY ReadKept DEF ReadInv
<1> QED
  BY <1>1, <1>2, <1>3, PTL DEF R!Spec

\* OPC UA, where no server numbers its namespaces anew: the recorded health of a session is never
\* better than the session, a close leaves neither a forwarder nor a session of the server behind, a
\* check of a subscription that passes finds every point watched, node ids are those translated for
\* the session, and a polling read answers for every point and sends nothing over a lost link.
THEOREM OpcUaHolds ==
    ASSUME ~Renumbers
    PROVE  O!Spec /\ R!Spec => []OpcUaSound
<1>1. /\ O!HealthCurrent /\ O!NoSessionsLeft /\ O!OneForwarder /\ O!PushNoticed /\ O!TranslationCurrent
      /\ R!ReadAnswers /\ R!BlocksKept
      => OpcUaSound
  BY DEF OpcUaSound
<1> QED
  BY <1>1, OpcUaSessions, OpcUaReads, PTL

-----------------------------------------------------------------------------
(* Modbus.                                                                 *)

Conn == 1 .. MaxOpened
Sample == {"not_connected", "unknown", "skipped", "good", "anothers", "error", "timeout"}
Whats == {"read_coil", "read_holding", "write", "write_coil", "write_field"}
RequestType == [id : Nat, what : Whats, value : Nat]
AnswerType == [id : Nat, value : Nat]
ReadingType == [at : {"idle", "lock", "next", "wait", "done"}, on : 0 .. MaxOpened,
                samples : Seq(Sample), dead : BOOLEAN, waits : Nat]
CommandType == [at : {"idle", "connect", "lock", "look", "looking", "write", "writing"},
                on : 0 .. MaxOpened, verb : {"none", "write", "write_coil", "write_field"},
                value : Nat, waits : Nat]

ModbusTypeOK ==
    /\ transport \in {"none", "tcp", "rtu"}
    /\ opened \in 0 .. MaxOpened /\ current \in {0, opened}
    /\ held \in [Conn -> {"nobody", "reader", "command"}]
    /\ asked \in [Conn -> Seq(RequestType)] /\ answers \in [Conn -> Seq(AnswerType)]
    /\ reading \in ReadingType /\ command \in CommandType
    /\ holding \in Nat /\ coil \in Nat /\ requests \in Nat /\ faults \in Nat
    /\ slipped \in SUBSET (1 .. opened)

\* Who uses a connection holds its lock; the connector's own operations use the last connection.
Locked ==
    /\ reading.at \in {"lock", "next", "wait"} => reading.on \in 1 .. opened
    /\ reading.at \in {"next", "wait"} => held[reading.on] = "reader"
    /\ command.at \in {"lock", "look", "looking", "write", "writing"} =>
          command.on = opened /\ opened > 0 /\ command.verb # "none"
    /\ command.at \in {"look", "looking", "write", "writing"} => held[command.on] = "command"
    /\ command.at = "connect" => opened < MaxOpened
    /\ transport = "none" => opened = 0 /\ command.at = "idle"

\* Requests are numbered, and what is waited for is one of them.
Counted ==
    /\ \A c \in Conn :
        /\ \A i \in 1 .. Len(asked[c]) : asked[c][i].id \in 1 .. requests
        /\ \A i \in 1 .. Len(answers[c]) : answers[c][i].id \in 1 .. requests
    /\ reading.waits <= requests /\ command.waits <= requests
    /\ reading.waits # 0 <=> reading.at = "wait"
    /\ command.waits # 0 => command.at \in {"looking", "write", "writing"}

ReadersOn(c, id) == reading.at = "wait" /\ reading.on = c /\ reading.waits = id
CommandsOn(c, id) == command.at \in {"looking", "writing"} /\ command.on = c /\ command.waits = id

\* On a connection no request of which was given up is at most the request its user waits for.
CleanLines == \A c \in Conn : c \notin slipped =>
    /\ Len(asked[c]) + Len(answers[c]) <= 1
    /\ \A i \in 1 .. Len(asked[c]) :
          \/ ReadersOn(c, asked[c][i].id) /\ asked[c][i].what \in {"read_coil", "read_holding"}
          \/ CommandsOn(c, asked[c][i].id)
    /\ \A i \in 1 .. Len(answers[c]) :
          ReadersOn(c, answers[c][i].id) \/ CommandsOn(c, answers[c][i].id)

\* No request was given up, or on the last connection only, where answers are told apart.
OneSlip == slipped = {} \/ (transport = "tcp" /\ slipped = {opened})

\* The older connections carry no writes.
OldLines == \A c \in Conn : c # opened =>
    \A i \in 1 .. Len(asked[c]) : asked[c][i].what \in {"read_coil", "read_holding"}

\* A write of a field is the next request to be served, and fits the register.
WriteFirst == \A i \in 1 .. Len(asked[opened]) : asked[opened][i].what = "write_field" =>
    i = 1 /\ MB!Outside(asked[opened][i].value) = MB!Outside(holding)

\* What is read before the field is written is what the register holds until it is written.
LookedAt == command.at = "looking" =>
    /\ \A i \in 1 .. Len(asked[opened]) : asked[opened][i].id = command.waits =>
          i = Len(asked[opened]) /\ asked[opened][i].what = "read_holding"
    /\ \A i \in 1 .. Len(answers[opened]) : answers[opened][i].id = command.waits =>
          Len(asked[opened]) = 0 /\ answers[opened][i].value = holding
ToWrite == command.at = "write" /\ command.verb = "write_field" =>
    Len(asked[opened]) = 0 /\ MB!Outside(command.value) = MB!Outside(holding)

Fielded == OneSlip => OldLines /\ (opened > 0 => WriteFirst /\ LookedAt /\ ToWrite)

\* The samples of a read: after a timeout nothing more is asked for.
Sampling ==
    /\ Len(reading.samples) <= Len(Batch)
    /\ reading.at = "wait" => ~reading.dead /\ Len(reading.samples) < Len(Batch)
    /\ reading.at = "done" => Len(reading.samples) = Len(Batch)
    /\ \A i \in 1 .. Len(reading.samples) : reading.samples[i] = "timeout" =>
          /\ reading.dead
          /\ \A j \in 1 .. Len(reading.samples) : i < j => reading.samples[j] \in {"skipped", "unknown"}
    /\ \A i \in 1 .. Len(reading.samples) : reading.samples[i] = "anothers" =>
          transport = "rtu" /\ reading.on \in slipped

ModbusInv ==
    /\ ModbusTypeOK /\ Locked /\ Counted /\ CleanLines /\ Fielded /\ Sampling /\ ~harmed

\* Dividing twice: what is left over at the first division does not count at the second.
LEMMA DivideOnce ==
    ASSUME NEW k \in Nat \ {0}, NEW q \in Nat, NEW r \in Nat, r < k
    PROVE  (k * q + r) \div k = q /\ (k * q + r) % k = r
<1> DEFINE n == k * q + r
           d == n \div k
           m == n % k
<1>1. n \in Nat
  OBVIOUS
<1> HIDE DEF n
<1>2. d \in Nat /\ m \in Nat /\ m < k /\ n = k * d + m
  BY <1>1
<1> HIDE DEF d, m
<1>3. k * d + m = k * q + r
  BY <1>2 DEF n
<1>4. ~(d < q)
  <2> SUFFICES ASSUME d < q PROVE FALSE
    OBVIOUS
  <2>1. k * (d + 1) <= k * q
    BY <1>2
  <2>2. k * (d + 1) = k * d + k
    BY <1>2
  <2> QED
    BY <1>2, <1>3, <2>1, <2>2
<1>5. ~(q < d)
  <2> SUFFICES ASSUME q < d PROVE FALSE
    OBVIOUS
  <2>1. k * (q + 1) <= k * d
    BY <1>2
  <2>2. k * (q + 1) = k * q + k
    OBVIOUS
  <2> QED
    BY <1>2, <1>3, <2>1, <2>2
<1> QED
  BY <1>2, <1>3, <1>4, <1>5 DEF n, d, m

\* Merging a field into a register: the bits outside of it are those of the register.
LEMMA MergedNat ==
    ASSUME NEW r \in Nat, NEW v \in Nat
    PROVE  MB!Merged(r, v) \in Nat /\ (MB!Fits(v) => MB!Outside(MB!Merged(r, v)) = MB!Outside(r))
<1> DEFINE A == 2 ^ Start
           B == 2 ^ Count
           q == r \div A
           lo == r % A
           hi == q \div B
           f == q % B
<1>1. A \in Nat \ {0} /\ B \in Nat \ {0}
  BY PowerAssumption
<1> HIDE DEF A, B
<1>2. q \in Nat /\ lo \in Nat /\ lo < A /\ r = A * q + lo
  BY <1>1
<1> HIDE DEF q, lo
<1>3. hi \in Nat /\ f \in Nat /\ f < B /\ q = B * hi + f
  BY <1>1, <1>2
<1> HIDE DEF hi, f
<1>4. MB!Merged(r, v) = r - f * A + v * A /\ MB!Outside(r) = <<lo, hi>> /\ (MB!Fits(v) <=> v < B)
  BY DEF MB!Merged, MB!Field, MB!Outside, MB!Fits, A, B, q, lo, hi, f
<1> DEFINE p == B * hi + v
<1>5. p \in Nat
  BY <1>1, <1>3
<1>6. A * q = A * (B * hi) + A * f /\ A * p = A * (B * hi) + A * v
  BY <1>1, <1>2, <1>3
<1>7. r - f * A + v * A = A * p + lo
  BY <1>1, <1>2, <1>3, <1>6
<1>8. A * p + lo \in Nat
  BY <1>1, <1>2, <1>5
<1>9. (A * p + lo) \div A = p /\ (A * p + lo) % A = lo
  BY <1>1, <1>2, <1>5, DivideOnce
<1>10. ASSUME v < B PROVE p \div B = hi
  BY <1>1, <1>3, <1>10, DivideOnce
<1> QED
  BY <1>4, <1>7, <1>8, <1>9, <1>10 DEF MB!Outside, A, B

\* The last connection is one of the connections.
LEMMA OpenedNat == ASSUME ModbusTypeOK
                   PROVE  /\ MaxOpened \in Nat /\ opened \in Nat /\ opened <= MaxOpened
                          /\ current \in 0 .. MaxOpened /\ (current # 0 => current = opened)
                          /\ slipped \subseteq 1 .. opened
<1>1. MaxOpened \in Nat
  BY ModbusAssumption
<1>2. opened \in 0 .. MaxOpened /\ current \in {0, opened} /\ slipped \in SUBSET (1 .. opened)
  BY Zenon DEF ModbusTypeOK
<1>3. opened \in Nat /\ opened <= MaxOpened
  BY <1>1, <1>2
<1> QED
  BY <1>1, <1>2, <1>3

\* The connection of a read is one, and its lock is the reader's.
LEMMA ReaderOn ==
    ASSUME ModbusTypeOK, Locked, reading.at \in {"lock", "next", "wait"}
    PROVE  reading.on \in Conn /\ (reading.at # "lock" => held[reading.on] = "reader")
<1>1. reading.on \in 1 .. opened /\ (reading.at # "lock" => held[reading.on] = "reader")
  BY DEF Locked
<1>2. MaxOpened \in Nat /\ opened \in Nat /\ opened <= MaxOpened
  BY OpenedNat
<1>3. reading.on \in 1 .. MaxOpened
  BY <1>1, <1>2
<1> QED
  BY <1>1, <1>3 DEF Conn

\* The connection of a write is the last one, and its lock is the writer's.
LEMMA CommandOn ==
    ASSUME ModbusTypeOK, Locked, command.at \in {"lock", "look", "looking", "write", "writing"}
    PROVE  /\ command.on \in Conn /\ command.on = opened /\ opened > 0
           /\ command.at # "lock" => held[command.on] = "command"
<1>1. command.on = opened /\ opened > 0 /\ (command.at # "lock" => held[command.on] = "command")
  BY DEF Locked
<1>2. MaxOpened \in Nat /\ opened \in Nat /\ opened <= MaxOpened
  BY OpenedNat
<1>3. opened \in 1 .. MaxOpened
  BY <1>1, <1>2
<1> QED
  BY <1>1, <1>3 DEF Conn

\* A sequence of the same sample.
LEMMA Filled ==
    ASSUME NEW n \in Nat, NEW S, NEW x \in S
    PROVE  [i \in 1 .. n |-> x] \in Seq(S) /\ Len([i \in 1 .. n |-> x]) = n
OBVIOUS

\* A sequence with one more.
LEMMA Appending ==
    ASSUME NEW S, NEW s \in Seq(S), NEW x \in S
    PROVE  /\ Append(s, x) \in Seq(S) /\ Len(s) \in Nat /\ Len(Append(s, x)) = Len(s) + 1
           /\ \A i \in 1 .. Len(s) : Append(s, x)[i] = s[i]
           /\ Append(s, x)[Len(s) + 1] = x
OBVIOUS

\* A sequence without its first.
LEMMA TakingFirst ==
    ASSUME NEW S, NEW s \in Seq(S), s # << >>
    PROVE  /\ Tail(s) \in Seq(S) /\ Len(s) \in Nat \ {0} /\ Len(Tail(s)) = Len(s) - 1
           /\ \A i \in 1 .. Len(s) - 1 : Tail(s)[i] = s[i + 1]
           /\ Head(s) = s[1] /\ s[1] \in S
OBVIOUS

\* A request is the last of those not served on its connection.
LEMMA Asks ==
    ASSUME ModbusTypeOK, NEW on \in Conn, NEW what \in Whats, NEW value \in Nat, MB!Ask(on, what, value)
    PROVE  /\ requests' = requests + 1 /\ answers' = answers /\ asked' \in [Conn -> Seq(RequestType)]
           /\ \A c \in Conn : c # on => asked'[c] = asked[c]
           /\ Len(asked[on]) \in Nat /\ Len(asked'[on]) = Len(asked[on]) + 1
           /\ \A i \in 1 .. Len(asked[on]) : asked'[on][i] = asked[on][i]
           /\ asked'[on][Len(asked[on]) + 1] = [id |-> requests + 1, what |-> what, value |-> value]
<1> DEFINE x == [id |-> requests + 1, what |-> what, value |-> value]
<1>0. asked \in [Conn -> Seq(RequestType)] /\ requests \in Nat
  BY DEF ModbusTypeOK
<1>1. x \in RequestType /\ asked[on] \in Seq(RequestType) /\ asked \in [Conn -> Seq(RequestType)]
  <2>1. requests + 1 \in Nat
    BY <1>0
  <2>2. x \in RequestType
    BY <2>1 DEF RequestType
  <2> QED
    BY <1>0, <2>2
<1>2. requests' = requests + 1 /\ answers' = answers /\ asked' = [asked EXCEPT ![on] = Append(asked[on], x)]
  BY DEF MB!Ask
<1> HIDE DEF x
<1>3. Append(asked[on], x) \in Seq(RequestType)
  BY <1>1, Appending
<1>4. asked' \in [Conn -> Seq(RequestType)] /\ asked'[on] = Append(asked[on], x) /\ \A c \in Conn : c # on => asked'[c] = asked[c]
  BY <1>1, <1>2, <1>3
<1>5. /\ Len(asked[on]) \in Nat /\ Len(asked'[on]) = Len(asked[on]) + 1
      /\ \A i \in 1 .. Len(asked[on]) : asked'[on][i] = asked[on][i]
      /\ asked'[on][Len(asked[on]) + 1] = x
  BY <1>1, <1>4, Appending
<1> QED
  BY <1>2, <1>4, <1>5 DEF x

\* Taking an answer takes the first on the connection.
LEMMA Takes ==
    ASSUME ModbusTypeOK, NEW on \in Conn, answers[on] # << >>, MB!TakeAnswer(on)
    PROVE  /\ asked' = asked /\ answers' \in [Conn -> Seq(AnswerType)]
           /\ \A c \in Conn : c # on => answers'[c] = answers[c]
           /\ Len(answers[on]) \in Nat \ {0} /\ Len(answers'[on]) = Len(answers[on]) - 1
           /\ \A i \in 1 .. Len(answers[on]) - 1 : answers'[on][i] = answers[on][i + 1]
           /\ Head(answers[on]) = answers[on][1] /\ answers[on][1] \in AnswerType
<1>1. answers[on] \in Seq(AnswerType) /\ answers \in [Conn -> Seq(AnswerType)]
  BY DEF ModbusTypeOK
<1>2. asked' = asked /\ answers' = [answers EXCEPT ![on] = Tail(answers[on])]
  BY DEF MB!TakeAnswer
<1>3. Tail(answers[on]) \in Seq(AnswerType)
  BY <1>1, TakingFirst
<1>4. /\ answers' \in [Conn -> Seq(AnswerType)] /\ answers'[on] = Tail(answers[on])
      /\ \A c \in Conn : c # on => answers'[c] = answers[c]
  BY <1>1, <1>2, <1>3
<1>5. /\ Len(answers[on]) \in Nat \ {0} /\ Len(answers'[on]) = Len(answers[on]) - 1
      /\ \A i \in 1 .. Len(answers[on]) - 1 : answers'[on][i] = answers[on][i + 1]
      /\ Head(answers[on]) = answers[on][1] /\ answers[on][1] \in AnswerType
  BY <1>1, <1>4, TakingFirst
<1> QED
  BY <1>2, <1>4, <1>5

\* Requests and answers can be counted.
LEMMA LenNat ==
    ASSUME ModbusTypeOK, NEW c \in Conn
    PROVE  Len(asked[c]) \in Nat /\ Len(answers[c]) \in Nat
<1>1. asked[c] \in Seq(RequestType) /\ answers[c] \in Seq(AnswerType)
  BY DEF ModbusTypeOK
<1> QED
  BY <1>1

\* A connection nobody waits on, and no request of which was given up, is quiet.
LEMMA Quiet ==
    ASSUME ModbusTypeOK, CleanLines, NEW c \in Conn, c \notin slipped,
           ~(reading.at = "wait" /\ reading.on = c),
           ~(command.at \in {"looking", "writing"} /\ command.on = c)
    PROVE  Len(asked[c]) = 0 /\ Len(answers[c]) = 0
<1>1. Len(asked[c]) \in Nat /\ Len(answers[c]) \in Nat
  BY LenNat
<1>2. ~(1 \in 1 .. Len(asked[c])) /\ ~(1 \in 1 .. Len(answers[c]))
  BY DEF CleanLines, ReadersOn, CommandsOn
<1> QED
  BY <1>1, <1>2

\* The reader and a command do not use the same connection.
LEMMA Apart ==
    ASSUME ModbusTypeOK, Locked, reading.at \in {"next", "wait"}, command.at \in {"look", "looking", "write", "writing"}
    PROVE  reading.on # command.on
BY DEF Locked

\* What a step does to the read in progress.
LEMMA SampleKept ==
    ASSUME ModbusTypeOK, NEW x \in Sample
    PROVE  /\ MB!Sampled(x) \in ReadingType /\ MB!Sampled(x).at = "next" /\ MB!Sampled(x).waits = 0
           /\ MB!Sampled(x).on = reading.on /\ MB!Sampled(x).dead = reading.dead
           /\ MB!Sampled(x).samples = Append(reading.samples, x)
           /\ MB!TimedOut(x) \in ReadingType /\ MB!TimedOut(x).at = "next" /\ MB!TimedOut(x).waits = 0
           /\ MB!TimedOut(x).on = reading.on /\ MB!TimedOut(x).dead = TRUE
           /\ MB!TimedOut(x).samples = Append(reading.samples, x)
<1>1. reading \in ReadingType
  BY DEF ModbusTypeOK
<1>2. Append(reading.samples, x) \in Seq(Sample)
  BY <1>1, Appending DEF ReadingType
<1> QED
  BY <1>1, <1>2 DEF MB!Sampled, MB!TimedOut, ReadingType

\* A step that sends and takes nothing: only who waits for what, and what was given up, matters.
LEMMA SameLines ==
    ASSUME ModbusTypeOK, CleanLines, UNCHANGED <<asked, answers>>, slipped \subseteq slipped',
           \A c \in Conn, id \in Nat : c \notin slipped' =>
              /\ ReadersOn(c, id) => ReadersOn(c, id)'
              /\ CommandsOn(c, id) => CommandsOn(c, id)'
    PROVE  CleanLines'
<1> SUFFICES ASSUME NEW c \in Conn, c \notin slipped'
             PROVE  (/\ Len(asked[c]) + Len(answers[c]) <= 1
                     /\ \A i \in 1 .. Len(asked[c]) :
                           \/ ReadersOn(c, asked[c][i].id) /\ asked[c][i].what \in {"read_coil", "read_holding"}
                           \/ CommandsOn(c, asked[c][i].id)
                     /\ \A i \in 1 .. Len(answers[c]) :
                           ReadersOn(c, answers[c][i].id) \/ CommandsOn(c, answers[c][i].id))'
  BY DEF CleanLines
<1>1. asked[c] \in Seq(RequestType) /\ answers[c] \in Seq(AnswerType)
  BY DEF ModbusTypeOK
<1>2. /\ \A i \in 1 .. Len(asked[c]) : asked[c][i].id \in Nat
      /\ \A i \in 1 .. Len(answers[c]) : answers[c][i].id \in Nat
  <2>1. \A i \in 1 .. Len(asked[c]) : asked[c][i] \in RequestType
    BY <1>1
  <2>2. \A i \in 1 .. Len(answers[c]) : answers[c][i] \in AnswerType
    BY <1>1
  <2> QED
    BY <2>1, <2>2 DEF RequestType, AnswerType
<1> QED
  BY <1>2 DEF CleanLines

\* configure comes before any connection.
LEMMA ConfigureDeviceStep ==
    ASSUME ModbusInv, NEW t \in {"tcp", "rtu"}, MB!ConfigureDevice(t) PROVE ModbusInv'
<1>1. /\ transport = "none" /\ transport' = t
      /\ UNCHANGED <<current, opened, held, asked, answers, reading, command, holding, coil, requests, faults, slipped, harmed>>
  BY DEF MB!ConfigureDevice
<1>2. ModbusTypeOK' /\ Locked' /\ Counted' /\ ~harmed'
  BY <1>1 DEF ModbusInv, ModbusTypeOK, Locked, Counted
<1>3. CleanLines'
  BY <1>1, SameLines DEF ModbusInv, ReadersOn, CommandsOn
<1>4. slipped = {}
  <2>1. opened = 0 /\ slipped \subseteq 1 .. opened
    BY <1>1, OpenedNat DEF ModbusInv, Locked
  <2> QED
    BY <2>1
<1>5. Fielded'
  BY <1>1, <1>4 DEF ModbusInv, Fielded, OneSlip, OldLines, WriteFirst, LookedAt, ToWrite
<1>6. Sampling'
  BY <1>1, <1>4 DEF ModbusInv, Sampling
<1> QED
  BY <1>2, <1>3, <1>5, <1>6 DEF ModbusInv

\* What the reader does to its own state alone.
LEMMA StartReadStep == ASSUME ModbusInv, MB!StartRead PROVE ModbusInv'
<1>1. /\ reading.at = "idle" /\ transport # "none"
      /\ UNCHANGED <<transport, current, opened, held, asked, answers, command, holding, coil, requests, faults, slipped, harmed>>
  BY DEF MB!StartRead
<1>2. ModbusTypeOK /\ Locked /\ Counted /\ CleanLines /\ Fielded /\ Sampling /\ ~harmed
  BY DEF ModbusInv
<1> DEFINE f == [i \in DOMAIN Batch |-> "not_connected"]
<1>3. f \in Seq(Sample) /\ Len(f) = Len(Batch) /\ Len(Batch) \in Nat /\ \A i \in 1 .. Len(f) : f[i] = "not_connected"
  <2>1. Batch \in Seq({"holding", "coil", "unknown"})
    BY ModbusAssumption
  <2>2. DOMAIN Batch = 1 .. Len(Batch) /\ Len(Batch) \in Nat
    BY <2>1
  <2> DEFINE n == Len(Batch)
             e == [i \in 1 .. n |-> "not_connected"]
  <2>3. e \in Seq(Sample) /\ Len(e) = n /\ \A i \in 1 .. n : e[i] = "not_connected"
    <3> HIDE DEF n
    <3>1. n \in Nat
      BY <2>2 DEF n
    <3>2. "not_connected" \in Sample
      BY DEF Sample
    <3> QED
      BY <3>1, <3>2, Filled
  <2> QED
    BY <2>2, <2>3
<1>4. /\ reading' \in ReadingType /\ reading'.waits = 0
      /\ \/ reading'.at = "done" /\ reading'.samples = f
         \/ reading'.at = "lock" /\ current # 0 /\ reading'.on = current /\ reading'.samples = << >>
  <2>1. CASE current = 0
    <3>1. reading' = [at |-> "done", on |-> 0, samples |-> f, dead |-> FALSE, waits |-> 0]
      BY <2>1 DEF MB!StartRead, MB!NoRead
    <3>2. 0 \in 0 .. MaxOpened
      BY <1>2, OpenedNat
    <3> HIDE DEF f
    <3> QED
      BY <1>3, <3>1, <3>2 DEF ReadingType
  <2>2. CASE current # 0
    <3>1. reading' = [at |-> "lock", on |-> current, samples |-> << >>, dead |-> FALSE, waits |-> 0]
      BY <2>2 DEF MB!StartRead, MB!NoRead
    <3>2. current \in 0 .. MaxOpened
      BY <1>2, OpenedNat
    <3> QED
      BY <2>2, <3>1, <3>2 DEF ReadingType
  <2> QED
    BY <2>1, <2>2
<1> HIDE DEF f
<1>5. ModbusTypeOK' /\ Locked' /\ Counted'
  <2>1. ModbusTypeOK'
    BY <1>1, <1>2, <1>4 DEF ModbusTypeOK
  <2>2. Locked'
    <3>1. current # 0 => current \in 1 .. opened
      <4>1. MaxOpened \in Nat /\ opened \in Nat /\ (current # 0 => current = opened)
        BY <1>2, OpenedNat
      <4> QED
        BY <4>1
    <3> QED
      BY <1>1, <1>2, <1>4, <3>1 DEF Locked
  <2>3. Counted'
    BY <1>1, <1>2, <1>4, ModbusTypeOK DEF Counted, ModbusTypeOK
  <2> QED
    BY <2>1, <2>2, <2>3
<1>6. CleanLines'
  BY <1>1, <1>2, SameLines DEF ReadersOn, CommandsOn
<1>7. Fielded'
  BY <1>1, <1>2 DEF Fielded, OneSlip, OldLines, WriteFirst, LookedAt, ToWrite
<1>8. Sampling'
  <2>1. CASE reading'.samples = << >> /\ reading'.at = "lock"
    <3>1. Len(Batch) \in Nat /\ Len(<< >>) = 0
      BY <1>3
    <3> QED
      BY <2>1, <3>1 DEF Sampling
  <2>2. CASE reading'.samples = f /\ reading'.at = "done"
    <3>1. \A i \in 1 .. Len(reading'.samples) : reading'.samples[i] = "not_connected"
      BY <1>3, <2>2
    <3>2. Len(reading'.samples) = Len(Batch) /\ Len(Batch) \in Nat
      BY <1>3, <2>2
    <3>3. \A i \in 1 .. Len(reading'.samples) : reading'.samples[i] # "timeout" /\ reading'.samples[i] # "anothers"
      BY <3>1
    <3>4. reading'.at # "wait" /\ Len(reading'.samples) <= Len(Batch)
      BY <2>2, <3>2
    <3> QED
      BY <3>2, <3>3, <3>4 DEF Sampling
  <2> QED
    BY <1>4, <2>1, <2>2
<1> QED
  BY <1>1, <1>2, <1>5, <1>6, <1>7, <1>8 DEF ModbusInv

\* A read takes a lock nobody holds.
LEMMA LockForReadStep == ASSUME ModbusInv, MB!LockForRead PROVE ModbusInv'
<1>2. ModbusTypeOK /\ Locked /\ Counted /\ CleanLines /\ Fielded /\ Sampling /\ ~harmed
  BY DEF ModbusInv
<1>1. /\ reading.at = "lock" /\ held[reading.on] = "nobody" /\ held' = [held EXCEPT ![reading.on] = "reader"]
      /\ UNCHANGED <<transport, current, opened, asked, answers, command, holding, coil, requests, faults, slipped, harmed>>
  BY DEF MB!LockForRead, MB!Free, MB!Nobody
<1>a. reading' = [reading EXCEPT !.at = "next"]
  BY DEF MB!LockForRead
<1>3. /\ reading' \in ReadingType /\ reading'.at = "next" /\ reading'.on = reading.on
      /\ reading'.samples = reading.samples /\ reading'.dead = reading.dead /\ reading'.waits = reading.waits
  BY <1>a, <1>2 DEF ModbusTypeOK, ReadingType
<1>4. reading.on \in Conn
  BY <1>1, <1>2, ReaderOn
<1>5. ModbusTypeOK'
  BY <1>1, <1>2, <1>3 DEF ModbusTypeOK
<1>6. Locked'
  <2>1. held'[reading.on] = "reader" /\ \A c \in Conn : c # reading.on => held'[c] = held[c]
    BY <1>1, <1>2, <1>4 DEF ModbusTypeOK
  <2>2. command.at \in {"look", "looking", "write", "writing"} => command.on \in Conn /\ command.on # reading.on
    BY <1>1, <1>2, <1>4, CommandOn
  <2> QED
    BY <1>1, <1>2, <1>3, <2>1, <2>2 DEF Locked
<1>7. Counted' /\ Sampling'
  <2>1. Counted'
    BY <1>1, <1>2, <1>3 DEF Counted
  <2>2. Sampling'
    BY <1>1, <1>2, <1>3 DEF Sampling
  <2> QED
    BY <2>1, <2>2
<1>8. CleanLines'
  BY <1>1, <1>2, SameLines DEF ReadersOn, CommandsOn
<1>9. Fielded'
  BY <1>1, <1>2 DEF Fielded, OneSlip, OldLines, WriteFirst, LookedAt, ToWrite
<1> QED
  BY <1>1, <1>2, <1>5, <1>6, <1>7, <1>8, <1>9 DEF ModbusInv

\* A read that is done gives its lock back, with nothing of it left on the line.
LEMMA ReadEndsStep == ASSUME ModbusInv, MB!ReadEnds PROVE ModbusInv'
<1>2. ModbusTypeOK /\ Locked /\ Counted /\ CleanLines /\ Fielded /\ Sampling /\ ~harmed
  BY DEF ModbusInv
<1>1. /\ reading.at = "next" /\ Len(reading.samples) = Len(Batch) /\ held' = [held EXCEPT ![reading.on] = "nobody"]
      /\ UNCHANGED <<transport, current, opened, asked, answers, command, holding, coil, requests, faults, slipped, harmed>>
  BY DEF MB!ReadEnds, MB!Nobody
<1>a. reading' = [reading EXCEPT !.at = "done"]
  BY DEF MB!ReadEnds
<1>3. /\ reading' \in ReadingType /\ reading'.at = "done" /\ reading'.on = reading.on
      /\ reading'.samples = reading.samples /\ reading'.dead = reading.dead /\ reading'.waits = reading.waits
  BY <1>a, <1>2 DEF ModbusTypeOK, ReadingType
<1>4. reading.on \in Conn /\ held[reading.on] = "reader"
  BY <1>1, <1>2, ReaderOn
<1>5. ModbusTypeOK'
  BY <1>1, <1>2, <1>3 DEF ModbusTypeOK
<1>6. Locked'
  <2>1. held'[reading.on] = "nobody" /\ \A c \in Conn : c # reading.on => held'[c] = held[c]
    BY <1>1, <1>2, <1>4 DEF ModbusTypeOK
  <2>2. command.at \in {"look", "looking", "write", "writing"} => command.on \in Conn /\ command.on # reading.on
    BY <1>1, <1>2, <1>4, CommandOn
  <2> QED
    BY <1>1, <1>2, <1>3, <2>1, <2>2 DEF Locked
<1>7. Counted' /\ Sampling'
  <2>1. Counted'
    BY <1>1, <1>2, <1>3 DEF Counted
  <2>2. Sampling'
    BY <1>1, <1>2, <1>3 DEF Sampling
  <2> QED
    BY <2>1, <2>2
<1>8. CleanLines'
  BY <1>1, <1>2, SameLines DEF ReadersOn, CommandsOn
<1>9. Fielded'
  BY <1>1, <1>2 DEF Fielded, OneSlip, OldLines, WriteFirst, LookedAt, ToWrite
<1> QED
  BY <1>1, <1>2, <1>5, <1>6, <1>7, <1>8, <1>9 DEF ModbusInv

\* The samples are handed over.
LEMMA DeliveredStep == ASSUME ModbusInv, MB!Delivered PROVE ModbusInv'
<1>2. ModbusTypeOK /\ Locked /\ Counted /\ CleanLines /\ Fielded /\ Sampling /\ ~harmed
  BY DEF ModbusInv
<1>1. /\ reading.at = "done" /\ reading' = [at |-> "idle", on |-> 0, samples |-> << >>, dead |-> FALSE, waits |-> 0]
      /\ UNCHANGED <<transport, current, opened, held, asked, answers, command, holding, coil, requests, faults, slipped, harmed>>
  BY DEF MB!Delivered, MB!NoRead
<1>3. reading' \in ReadingType /\ reading'.at = "idle" /\ reading'.samples = << >> /\ reading'.waits = 0
  BY <1>1, ModbusAssumption DEF ReadingType
<1>5. ModbusTypeOK' /\ Locked' /\ Counted'
  BY <1>1, <1>2, <1>3 DEF ModbusTypeOK, Locked, Counted
<1>7. Sampling'
  <2>1. Len(Batch) \in Nat /\ Len(<< >>) = 0
    BY ModbusAssumption
  <2> QED
    BY <1>3, <2>1 DEF Sampling
<1>8. CleanLines'
  BY <1>1, <1>2, SameLines DEF ReadersOn, CommandsOn
<1>9. Fielded'
  BY <1>1, <1>2 DEF Fielded, OneSlip, OldLines, WriteFirst, LookedAt, ToWrite
<1> QED
  BY <1>1, <1>2, <1>5, <1>7, <1>8, <1>9 DEF ModbusInv

\* A sample more.
LEMMA SampledOnce ==
    ASSUME ModbusTypeOK, Sampling, Len(reading.samples) < Len(Batch), NEW x \in Sample,
           reading'.samples = Append(reading.samples, x), reading'.at = "next", reading'.on = reading.on,
           transport' = transport, slipped \subseteq slipped',
           reading'.dead <=> (reading.dead \/ x = "timeout"),
           reading.dead => x \in {"skipped", "unknown"},
           x = "anothers" => transport = "rtu" /\ reading.on \in slipped
    PROVE  Sampling'
<1> DEFINE s == reading.samples
           t == reading'.samples
<1>1. s \in Seq(Sample)
  BY DEF ModbusTypeOK, ReadingType
<1>2. /\ Len(s) \in Nat /\ Len(t) = Len(s) + 1 /\ t[Len(s) + 1] = x
      /\ \A i \in 1 .. Len(s) : t[i] = s[i]
  BY <1>1, Appending
<1>3. Len(Batch) \in Nat
  BY ModbusAssumption
<1>4. \A i \in 1 .. Len(t) : i \in 1 .. Len(s) \/ i = Len(s) + 1
  BY <1>2
<1>5. /\ \A i \in 1 .. Len(s) : s[i] = "timeout" =>
          reading.dead /\ \A j \in 1 .. Len(s) : i < j => s[j] \in {"skipped", "unknown"}
      /\ \A i \in 1 .. Len(s) : s[i] = "anothers" => transport = "rtu" /\ reading.on \in slipped
      /\ Len(s) < Len(Batch)
  BY DEF Sampling
<1> HIDE DEF s, t
<1>6. Len(t) <= Len(Batch)
  BY <1>2, <1>3, <1>5
<1>7. ASSUME NEW i \in 1 .. Len(t), t[i] = "timeout"
      PROVE  reading'.dead /\ \A j \in 1 .. Len(t) : i < j => t[j] \in {"skipped", "unknown"}
  <2>1. CASE i = Len(s) + 1
    <3>1. \A j \in 1 .. Len(t) : ~(i < j)
      BY <1>2, <2>1
    <3> QED
      BY <1>2, <1>7, <2>1, <3>1
  <2>2. CASE i \in 1 .. Len(s)
    <3>1. reading.dead /\ \A j \in 1 .. Len(s) : i < j => s[j] \in {"skipped", "unknown"}
      BY <1>2, <1>5, <1>7, <2>2
    <3> QED
      BY <1>2, <1>4, <3>1
  <2> QED
    BY <1>4, <2>1, <2>2
<1>8. ASSUME NEW i \in 1 .. Len(t), t[i] = "anothers"
      PROVE  transport' = "rtu" /\ reading'.on \in slipped'
  BY <1>2, <1>4, <1>5, <1>8
<1> QED
  BY <1>6, <1>7, <1>8 DEF Sampling, t

\* The next point: its request is the only one on the line, unless one was given up there.
LEMMA ReadOneStep == ASSUME ModbusInv, MB!ReadOne PROVE ModbusInv'
<1>2. ModbusTypeOK /\ Locked /\ Counted /\ CleanLines /\ Fielded /\ Sampling /\ ~harmed
  BY DEF ModbusInv
<1>1. /\ reading.at = "next" /\ Len(reading.samples) < Len(Batch)
      /\ UNCHANGED <<transport, current, opened, held, command, holding, coil, faults, slipped, harmed>>
  BY DEF MB!ReadOne
<1>3. reading.on \in Conn /\ held[reading.on] = "reader" /\ reading.on \in 1 .. opened
  BY <1>1, <1>2, ReaderOn DEF Locked
<1> DEFINE point == Batch[Len(reading.samples) + 1]
<1>4. CASE point = "unknown" \/ reading.dead
  <2> DEFINE x == IF point = "unknown" THEN "unknown" ELSE "skipped"
  <2>1. reading' = MB!Sampled(x) /\ UNCHANGED <<requests, asked, answers>>
    BY <1>4 DEF MB!ReadOne
  <2>2. x \in Sample /\ x \in {"skipped", "unknown"}
    BY DEF Sample
  <2> HIDE DEF x
  <2>3. /\ reading' \in ReadingType /\ reading'.at = "next" /\ reading'.waits = 0 /\ reading'.on = reading.on
        /\ reading'.dead = reading.dead /\ reading'.samples = Append(reading.samples, x)
    BY <1>2, <2>1, <2>2, SampleKept
  <2>4. ModbusTypeOK'
    BY <1>1, <1>2, <2>1, <2>3 DEF ModbusTypeOK
  <2>5. Locked'
    BY <1>1, <1>2, <2>3 DEF Locked
  <2>6. Counted'
    BY <1>1, <1>2, <2>1, <2>3 DEF Counted, ModbusTypeOK
  <2>7. CleanLines'
    BY <1>1, <1>2, <2>1, SameLines DEF ReadersOn, CommandsOn
  <2>8. Fielded'
    BY <1>1, <1>2, <2>1 DEF Fielded, OneSlip, OldLines, WriteFirst, LookedAt, ToWrite
  <2>9. Sampling'
    <3>0. x # "timeout" /\ x # "anothers"
      BY <2>2
    <3>1. reading'.dead <=> (reading.dead \/ x = "timeout")
      BY <2>3, <3>0
    <3> QED
      BY <1>1, <1>2, <2>2, <2>3, <3>0, <3>1, SampledOnce
  <2> QED
    BY <1>1, <1>2, <2>4, <2>5, <2>6, <2>7, <2>8, <2>9 DEF ModbusInv
<1>5. CASE ~(point = "unknown" \/ reading.dead)
  <2> DEFINE what == IF point = "coil" THEN "read_coil" ELSE "read_holding"
             on == reading.on
             n == Len(asked[on])
  <2>1. MB!Ask(on, what, 0)
    BY <1>5 DEF MB!ReadOne
  <2>g. reading' = [reading EXCEPT !.at = "wait", !.waits = requests + 1]
    BY <1>5 DEF MB!ReadOne
  <2>2. what \in {"read_coil", "read_holding"} /\ what \in Whats
    BY DEF Whats
  <2> HIDE DEF what, on
  <2>a. on \in Conn /\ on = reading.on
    BY <1>3 DEF on
  <2>0. 0 \in Nat /\ ModbusTypeOK /\ reading \in ReadingType
    BY <1>2 DEF ModbusTypeOK
  <2>3. /\ requests' = requests + 1 /\ answers' = answers /\ asked' \in [Conn -> Seq(RequestType)]
        /\ \A c \in Conn : c # on => asked'[c] = asked[c]
        /\ n \in Nat /\ Len(asked'[on]) = n + 1
        /\ \A i \in 1 .. n : asked'[on][i] = asked[on][i]
        /\ asked'[on][n + 1] = [id |-> requests + 1, what |-> what, value |-> 0]
    BY <2>0, <2>a, <2>1, <2>2, Asks, Zenon
  <2>b. \A i \in 1 .. Len(asked'[on]) : i \in 1 .. n \/ i = n + 1
    BY <2>3
  <2>c. asked'[on][n + 1].id = requests + 1 /\ asked'[on][n + 1].what = what
    BY <2>3
  <2>d. requests \in Nat
    BY <1>2 DEF ModbusTypeOK
  <2> HIDE DEF n
  <2>4. /\ reading' \in ReadingType /\ reading'.at = "wait" /\ reading'.waits = requests + 1
        /\ reading'.on = reading.on /\ reading'.dead = reading.dead /\ reading'.samples = reading.samples
    <3> DEFINE k == requests + 1
    <3>1. k \in Nat
      BY <2>d
    <3>2. reading' = [reading EXCEPT !.at = "wait", !.waits = k]
      BY <2>g
    <3> HIDE DEF k
    <3>3. /\ reading' \in ReadingType /\ reading'.at = "wait" /\ reading'.waits = k
          /\ reading'.on = reading.on /\ reading'.dead = reading.dead /\ reading'.samples = reading.samples
      BY <2>0, <3>1, <3>2 DEF ReadingType
    <3> QED
      BY <3>3 DEF k
  <2>5. ModbusTypeOK'
    <3>1. requests' \in Nat /\ reading' \in ReadingType /\ asked' \in [Conn -> Seq(RequestType)] /\ answers' = answers
      BY <2>3, <2>4, <2>d
    <3> QED
      BY <1>1, <2>0, <3>1 DEF ModbusTypeOK
  <2>6. Locked'
    BY <1>1, <1>2, <2>4 DEF Locked
  <2>7. Counted'
    <3>1. \A c \in Conn : \A i \in 1 .. Len(asked'[c]) : asked'[c][i].id \in 1 .. requests'
      <4> TAKE c \in Conn
      <4> TAKE i \in 1 .. Len(asked'[c])
      <4>1. CASE c # on
        BY <1>2, <2>3, <2>d, <4>1 DEF Counted
      <4>2. CASE c = on /\ i \in 1 .. n
        BY <1>2, <2>3, <2>d, <4>2 DEF Counted, n
      <4>3. CASE c = on /\ i = n + 1
        BY <2>3, <2>c, <2>d, <4>3
      <4> QED
        BY <2>b, <4>1, <4>2, <4>3
    <3>2. \A c \in Conn : \A i \in 1 .. Len(answers'[c]) : answers'[c][i].id \in 1 .. requests'
      BY <1>2, <2>3, <2>d DEF Counted
    <3>3. /\ reading'.waits <= requests' /\ command'.waits <= requests'
          /\ reading'.waits # 0 <=> reading'.at = "wait"
          /\ command'.waits # 0 => command'.at \in {"looking", "write", "writing"}
      <4>1. command.waits \in Nat /\ command' = command
        BY <1>1, <1>2 DEF ModbusTypeOK, CommandType
      <4> QED
        BY <1>2, <2>3, <2>4, <2>d, <4>1 DEF Counted
    <3> QED
      BY <3>1, <3>2, <3>3 DEF Counted
  <2>e. ~(command.at \in {"look", "looking", "write", "writing"} /\ command.on = on)
    BY <1>1, <1>2, <2>a, Apart
  <2>f. on \notin slipped => Len(asked[on]) = 0 /\ Len(answers[on]) = 0
    BY <1>1, <1>2, <2>a, <2>e, Quiet
  <2>8. CleanLines'
    <3> SUFFICES ASSUME NEW c \in Conn, c \notin slipped
                 PROVE  (/\ Len(asked[c]) + Len(answers[c]) <= 1
                         /\ \A i \in 1 .. Len(asked[c]) :
                               \/ ReadersOn(c, asked[c][i].id) /\ asked[c][i].what \in {"read_coil", "read_holding"}
                               \/ CommandsOn(c, asked[c][i].id)
                         /\ \A i \in 1 .. Len(answers[c]) :
                               ReadersOn(c, answers[c][i].id) \/ CommandsOn(c, answers[c][i].id))'
      BY <1>1 DEF CleanLines
    <3>1. CASE c # on
      <4>1. asked'[c] = asked[c] /\ answers'[c] = answers[c] /\ command' = command
        BY <1>1, <2>3, <3>1
      <4>2. \A id : ~ReadersOn(c, id)
        BY <1>1 DEF ReadersOn
      <4>3. /\ Len(asked[c]) + Len(answers[c]) <= 1
            /\ \A i \in 1 .. Len(asked[c]) : CommandsOn(c, asked[c][i].id)
            /\ \A i \in 1 .. Len(answers[c]) : CommandsOn(c, answers[c][i].id)
        BY <1>2, <4>2 DEF CleanLines
      <4> QED
        BY <4>1, <4>3 DEF CommandsOn
    <3>2. CASE c = on
      <4>1. n = 0 /\ Len(answers[on]) = 0
        BY <2>f, <3>2 DEF n
      <4>2. Len(asked'[on]) = 1 /\ Len(answers'[on]) = 0 /\ \A i \in 1 .. 1 : i = n + 1
        BY <2>3, <4>1
      <4>3. \A i \in 1 .. Len(asked'[c]) : /\ asked'[c][i].id = requests + 1
                                           /\ asked'[c][i].what \in {"read_coil", "read_holding"}
        BY <2>2, <2>c, <3>2, <4>2
      <4>4. reading'.at = "wait" /\ reading'.on = c /\ reading'.waits = requests + 1
        BY <2>a, <2>4, <3>2
      <4>5. Len(asked'[c]) + Len(answers'[c]) <= 1 /\ \A i \in 1 .. Len(answers'[c]) : FALSE
        BY <3>2, <4>2
      <4> QED
        BY <4>3, <4>4, <4>5 DEF ReadersOn
    <3> QED
      BY <3>1, <3>2
  <2>9. Fielded'
    <3> SUFFICES ASSUME OneSlip PROVE (OldLines /\ (opened > 0 => WriteFirst /\ LookedAt /\ ToWrite))'
      BY <1>1 DEF Fielded, OneSlip
    <3>1. OldLines /\ opened > 0 /\ WriteFirst /\ LookedAt /\ ToWrite
      BY <1>2, <1>3, OpenedNat DEF Fielded
    <3>2. OldLines'
      <4> SUFFICES ASSUME NEW c \in Conn, c # opened, NEW i \in 1 .. Len(asked'[c])
                   PROVE  asked'[c][i].what \in {"read_coil", "read_holding"}
        BY <1>1 DEF OldLines
      <4>1. CASE c # on
        BY <2>3, <3>1, <4>1 DEF OldLines
      <4>2. CASE c = on
        BY <2>2, <2>3, <2>b, <2>c, <3>1, <4>2 DEF OldLines, n
      <4> QED
        BY <4>1, <4>2
    <3>3. CASE on = opened
      <4>1. WriteFirst'
        <5> SUFFICES ASSUME NEW i \in 1 .. Len(asked'[on]), asked'[on][i].what = "write_field"
                     PROVE  i = 1 /\ MB!Outside(asked'[on][i].value) = MB!Outside(holding)
          BY <1>1, <3>3 DEF WriteFirst
        <5>1. i \in 1 .. n /\ asked'[on][i] = asked[on][i]
          BY <2>2, <2>b, <2>c, <2>3
        <5> QED
          BY <3>1, <3>3, <5>1 DEF WriteFirst, n
      <4>2. command.at \notin {"looking", "write"}
        BY <1>2, <2>e, <3>3, CommandOn
      <4> QED
        BY <1>1, <3>2, <4>1, <4>2 DEF LookedAt, ToWrite
    <3>4. CASE on # opened
      <4>1. asked'[opened] = asked[opened]
        <5>1. opened \in Conn
          BY <1>2, <3>1, OpenedNat DEF Conn
        <5> QED
          BY <2>3, <3>4, <5>1
      <4> QED
        BY <1>1, <2>3, <3>1, <3>2, <4>1 DEF WriteFirst, LookedAt, ToWrite
    <3> QED
      BY <3>3, <3>4
  <2>10. Sampling'
    BY <1>1, <1>2, <1>5, <2>4 DEF Sampling
  <2> QED
    BY <1>1, <1>2, <2>5, <2>6, <2>7, <2>8, <2>9, <2>10 DEF ModbusInv
<1> QED
  BY <1>4, <1>5

\* An answer: over TCP it is for the request waited for, or is passed over.
LEMMA ReadAnsweredStep == ASSUME ModbusInv, MB!ReadAnswered PROVE ModbusInv'
<1>2. ModbusTypeOK /\ Locked /\ Counted /\ CleanLines /\ Fielded /\ Sampling /\ ~harmed
  BY DEF ModbusInv
<1> DEFINE on == reading.on
<1>1. /\ reading.at = "wait" /\ answers[on] # << >> /\ MB!TakeAnswer(on)
      /\ UNCHANGED <<transport, current, opened, held, command, holding, coil, requests, faults, slipped, harmed>>
  BY DEF MB!ReadAnswered
<1>3. on \in Conn /\ held[on] = "reader" /\ on \in 1 .. opened
  BY <1>1, <1>2, ReaderOn DEF Locked
<1>4. /\ asked' = asked /\ answers' \in [Conn -> Seq(AnswerType)]
      /\ \A c \in Conn : c # on => answers'[c] = answers[c]
      /\ Len(answers[on]) \in Nat \ {0} /\ Len(answers'[on]) = Len(answers[on]) - 1
      /\ \A i \in 1 .. Len(answers[on]) - 1 : answers'[on][i] = answers[on][i + 1]
      /\ Head(answers[on]) = answers[on][1] /\ answers[on][1] \in AnswerType
  BY <1>1, <1>2, <1>3, Takes, Zenon
<1>5. PICK x \in {"error", "good", "anothers"} :
         /\ reading' = MB!Sampled(x)
         /\ x = "anothers" => transport = "rtu" /\ answers[on][1].id # reading.waits
  <2>1. CASE reading' = MB!Sampled("error")
    BY <2>1
  <2>2. CASE /\ MB!Accepted(reading.waits, answers[on][1])
             /\ reading' = MB!Sampled(IF answers[on][1].id = reading.waits THEN "good" ELSE "anothers")
    BY <2>2 DEF MB!Accepted
  <2> QED
    BY <1>4, <2>1, <2>2 DEF MB!ReadAnswered
<1>6. x \in Sample
  BY DEF Sample
<1>7. /\ reading' \in ReadingType /\ reading'.at = "next" /\ reading'.waits = 0 /\ reading'.on = on
      /\ reading'.dead = reading.dead /\ reading'.samples = Append(reading.samples, x)
  BY <1>2, <1>5, <1>6, SampleKept
<1>8. ~(command.at \in {"look", "looking", "write", "writing"} /\ command.on = on)
  BY <1>1, <1>2, Apart
<1> HIDE DEF on
<1>a. on = reading.on
  BY DEF on
<1>9. ModbusTypeOK'
  BY <1>1, <1>2, <1>4, <1>7 DEF ModbusTypeOK
<1>10. Locked'
  BY <1>1, <1>2, <1>7, <1>a DEF Locked
<1>11. Counted'
  <2>1. \A c \in Conn : \A i \in 1 .. Len(answers'[c]) : answers'[c][i].id \in 1 .. requests
    <3> TAKE c \in Conn
    <3>1. CASE c # on
      BY <1>2, <1>4, <3>1 DEF Counted
    <3>2. CASE c = on
      <4>1. \A i \in 1 .. Len(answers'[c]) : i + 1 \in 1 .. Len(answers[on]) /\ answers'[c][i] = answers[on][i + 1]
        <5> DEFINE a == Len(answers[on])
                   b == Len(answers'[on])
        <5>1. a \in Nat \ {0} /\ b = a - 1 /\ \A i \in 1 .. a - 1 : answers'[on][i] = answers[on][i + 1]
          BY <1>4
        <5> HIDE DEF a, b
        <5>2. \A i \in 1 .. b : i + 1 \in 1 .. a /\ answers'[on][i] = answers[on][i + 1]
          BY <5>1
        <5> QED
          BY <3>2, <5>2 DEF a, b
      <4> QED
        BY <1>2, <1>3, <4>1 DEF Counted
    <3> QED
      BY <3>1, <3>2
  <2>2. requests \in Nat
    BY <1>2 DEF ModbusTypeOK
  <2> QED
    <3>1. requests' = requests /\ asked' = asked /\ command' = command /\ 0 <= requests
      BY <1>1, <1>4, <2>2
    <3> QED
      BY <1>2, <1>7, <2>1, <3>1 DEF Counted
<1>12. CleanLines'
  <2> SUFFICES ASSUME TRUE PROVE CleanLines'
    OBVIOUS
  <2>1. QED
    <3> SUFFICES ASSUME NEW c \in Conn, c \notin slipped'
                 PROVE  (/\ Len(asked[c]) + Len(answers[c]) <= 1
                         /\ \A i \in 1 .. Len(asked[c]) :
                               \/ ReadersOn(c, asked[c][i].id) /\ asked[c][i].what \in {"read_coil", "read_holding"}
                               \/ CommandsOn(c, asked[c][i].id)
                         /\ \A i \in 1 .. Len(answers[c]) :
                               ReadersOn(c, answers[c][i].id) \/ CommandsOn(c, answers[c][i].id))'
      BY DEF CleanLines
    <3>1. CASE c # on
      <4>1. asked'[c] = asked[c] /\ answers'[c] = answers[c] /\ command' = command /\ c \notin slipped
        BY <1>1, <1>4, <3>1
      <4>2. \A id : ~ReadersOn(c, id)
        BY <1>a, <3>1 DEF ReadersOn
      <4>3. /\ Len(asked[c]) + Len(answers[c]) <= 1
            /\ \A i \in 1 .. Len(asked[c]) : CommandsOn(c, asked[c][i].id)
            /\ \A i \in 1 .. Len(answers[c]) : CommandsOn(c, answers[c][i].id)
        BY <1>2, <4>1, <4>2 DEF CleanLines
      <4> QED
        BY <4>1, <4>3 DEF CommandsOn
    <3>2. CASE c = on
      <4>1. Len(asked[c]) + Len(answers[c]) <= 1 /\ Len(asked[c]) \in Nat
        BY <1>1, <1>2, LenNat DEF CleanLines
      <4>2. Len(asked'[c]) = 0 /\ Len(answers'[c]) = 0
        <5>1. Len(answers[c]) \in Nat \ {0} /\ Len(answers'[c]) = Len(answers[c]) - 1 /\ asked'[c] = asked[c]
          BY <1>4, <3>2
        <5> DEFINE a == Len(asked[c])
                   b == Len(answers[c])
        <5>2. a \in Nat /\ b \in Nat \ {0} /\ a + b <= 1
          BY <4>1, <5>1
        <5> HIDE DEF a, b
        <5>3. a = 0 /\ b - 1 = 0
          BY <5>2
        <5> QED
          BY <5>1, <5>3 DEF a, b
      <4> QED
        BY <4>2
    <3> QED
      BY <3>1, <3>2
<1>13. Fielded'
  <2> SUFFICES ASSUME OneSlip PROVE (OldLines /\ (opened > 0 => WriteFirst /\ LookedAt /\ ToWrite))'
    BY <1>1 DEF Fielded, OneSlip
  <2>1. OldLines /\ opened > 0 /\ WriteFirst /\ LookedAt /\ ToWrite
    BY <1>2, <1>3, OpenedNat DEF Fielded
  <2>2. (OldLines /\ WriteFirst /\ ToWrite)'
    BY <1>1, <1>4, <2>1 DEF OldLines, WriteFirst, ToWrite
  <2>3. LookedAt'
    <3>1. CASE command.at = "looking"
      <4>1. on # opened /\ opened \in Conn
        BY <1>2, <1>8, <3>1, CommandOn
      <4>2. answers'[opened] = answers[opened]
        BY <1>4, <4>1
      <4> QED
        BY <1>1, <1>4, <2>1, <4>2 DEF LookedAt
    <3>2. CASE command.at # "looking"
      BY <1>1, <3>2 DEF LookedAt
    <3> QED
      BY <3>1, <3>2
  <2> QED
    BY <2>2, <2>3
<1>14. Sampling'
  <2>1. x = "anothers" => on \in slipped
    <3> SUFFICES ASSUME x = "anothers", on \notin slipped PROVE FALSE
      OBVIOUS
    <3>1. 1 \in 1 .. Len(answers[on])
      BY <1>4
    <3>2. ReadersOn(on, answers[on][1].id) \/ CommandsOn(on, answers[on][1].id)
      BY <1>2, <1>3, <3>1 DEF CleanLines
    <3> QED
      BY <1>5, <1>8, <3>2 DEF ReadersOn, CommandsOn
  <2>2. x # "timeout" /\ (reading'.dead <=> (reading.dead \/ x = "timeout"))
    BY <1>7
  <2>3. ~reading.dead /\ Len(reading.samples) < Len(Batch)
    BY <1>1, <1>2 DEF Sampling
  <2> QED
    BY <1>1, <1>2, <1>5, <1>6, <1>7, <1>a, <2>1, <2>2, <2>3, SampledOnce
<1> QED
  BY <1>1, <1>2, <1>9, <1>10, <1>11, <1>12, <1>13, <1>14 DEF ModbusInv

\* A timeout gives a request up; nothing more is asked for in this read.
LEMMA ReadTimesOutStep == ASSUME ModbusInv, MB!ReadTimesOut PROVE ModbusInv'
<1>2. ModbusTypeOK /\ Locked /\ Counted /\ CleanLines /\ Fielded /\ Sampling /\ ~harmed
  BY DEF ModbusInv
<1> DEFINE on == reading.on
<1>1. /\ reading.at = "wait" /\ slipped' = slipped \union {on}
      /\ UNCHANGED <<transport, current, opened, held, asked, answers, command, holding, coil, requests, faults, harmed>>
  BY DEF MB!ReadTimesOut
<1>3. on \in Conn /\ held[on] = "reader" /\ on \in 1 .. opened
  BY <1>1, <1>2, ReaderOn DEF Locked
<1>4. "timeout" \in Sample
  BY DEF Sample
<1>5. reading' = MB!TimedOut("timeout")
  BY DEF MB!ReadTimesOut
<1>7. /\ reading' \in ReadingType /\ reading'.at = "next" /\ reading'.waits = 0 /\ reading'.on = on
      /\ reading'.dead = TRUE /\ reading'.samples = Append(reading.samples, "timeout")
  BY <1>2, <1>4, <1>5, SampleKept
<1> HIDE DEF on
<1>a. on = reading.on
  BY DEF on
<1>9. ModbusTypeOK'
  BY <1>1, <1>2, <1>3, <1>7 DEF ModbusTypeOK
<1>10. Locked'
  BY <1>1, <1>2, <1>7, <1>a DEF Locked
<1>11. Counted'
  <2>2. requests \in Nat
    BY <1>2 DEF ModbusTypeOK
  <2> QED
    BY <1>1, <1>2, <1>7, <2>2 DEF Counted
<1>12. CleanLines'
  <2>1. \A c \in Conn, id \in Nat : c \notin slipped' => ~ReadersOn(c, id) /\ (CommandsOn(c, id) => CommandsOn(c, id)')
    BY <1>1, <1>a DEF ReadersOn, CommandsOn
  <2> QED
    BY <1>1, <1>2, <2>1, SameLines
<1>13. Fielded'
  <2>1. OneSlip' => OneSlip
    BY <1>1, <1>3 DEF OneSlip
  <2> QED
    BY <1>1, <1>2, <2>1 DEF Fielded, OldLines, WriteFirst, LookedAt, ToWrite
<1>14. Sampling'
  <2>3. ~reading.dead /\ Len(reading.samples) < Len(Batch) /\ "timeout" # "anothers"
    BY <1>1, <1>2 DEF Sampling
  <2>4. reading'.dead <=> (reading.dead \/ "timeout" = "timeout")
    BY <1>7
  <2> QED
    BY <1>1, <1>2, <1>4, <1>7, <1>a, <2>3, <2>4, SampledOnce
<1> QED
  BY <1>1, <1>2, <1>9, <1>10, <1>11, <1>12, <1>13, <1>14 DEF ModbusInv

\* connect begins with no operation of the connector under way.
LEMMA BeginConnectStep ==
    ASSUME ModbusInv, NEW verb \in {"connect", "reconnect"}, MB!BeginConnect(verb)
    PROVE  ModbusInv'
<1>2. ModbusTypeOK /\ Locked /\ Counted /\ CleanLines /\ Fielded /\ Sampling /\ ~harmed
  BY DEF ModbusInv
<1>1. /\ command.at = "idle" /\ transport # "none" /\ opened < MaxOpened /\ current' \in {0, current}
      /\ UNCHANGED <<transport, opened, held, asked, answers, reading, holding, coil, requests, faults, slipped, harmed>>
  BY DEF MB!BeginConnect, MB!Idle
<1>3. command' \in CommandType /\ command'.at = "connect" /\ command'.waits = 0
  <2>1. command' = [at |-> "connect", on |-> 0, verb |-> "none", value |-> 0, waits |-> 0]
    BY DEF MB!BeginConnect, MB!Idle
  <2>2. 0 \in 0 .. MaxOpened
    BY <1>2, OpenedNat
  <2> QED
    BY <2>1, <2>2 DEF CommandType
<1>5. ModbusTypeOK'
  BY <1>1, <1>2, <1>3, OpenedNat DEF ModbusTypeOK
<1>6. Locked'
  BY <1>1, <1>2, <1>3 DEF Locked
<1>7. Counted'
  <2>1. requests \in Nat
    BY <1>2 DEF ModbusTypeOK
  <2> QED
    BY <1>1, <1>2, <1>3, <2>1 DEF Counted
<1>8. CleanLines'
  <2>1. \A c \in Conn, id \in Nat : (ReadersOn(c, id) => ReadersOn(c, id)') /\ ~CommandsOn(c, id)
    BY <1>1, <1>3 DEF ReadersOn, CommandsOn
  <2> QED
    BY <1>1, <1>2, <2>1, SameLines
<1>9. Fielded'
  BY <1>1, <1>2, <1>3 DEF Fielded, OneSlip, OldLines, WriteFirst, LookedAt, ToWrite
<1>10. Sampling'
  BY <1>1, <1>2 DEF Sampling
<1> QED
  BY <1>1, <1>2, <1>5, <1>6, <1>7, <1>8, <1>9, <1>10 DEF ModbusInv

\* disconnect forgets the connection, whose reader may still be at work.
LEMMA DisconnectStep == ASSUME ModbusInv, MB!Disconnect PROVE ModbusInv'
<1>2. ModbusTypeOK /\ Locked /\ Counted /\ CleanLines /\ Fielded /\ Sampling /\ ~harmed
  BY DEF ModbusInv
<1>1. /\ command.at = "idle" /\ current' = 0
      /\ UNCHANGED <<transport, opened, held, asked, answers, reading, command, holding, coil, requests, faults, slipped, harmed>>
  BY DEF MB!Disconnect, MB!Idle
<1>3. command' = command
  BY <1>1
<1>5. ModbusTypeOK'
  BY <1>1, <1>2, <1>3, OpenedNat DEF ModbusTypeOK
<1>6. Locked'
  BY <1>1, <1>2 DEF Locked
<1>7. Counted'
  <2>1. requests \in Nat
    BY <1>2 DEF ModbusTypeOK
  <2> QED
    BY <1>1, <1>2, <1>3, <2>1 DEF Counted
<1>8. CleanLines'
  <2>1. \A c \in Conn, id \in Nat : (ReadersOn(c, id) => ReadersOn(c, id)') /\ ~CommandsOn(c, id)
    BY <1>1, <1>3 DEF ReadersOn, CommandsOn
  <2> QED
    BY <1>1, <1>2, <2>1, SameLines
<1>9. Fielded'
  BY <1>1, <1>2, <1>3 DEF Fielded, OneSlip, OldLines, WriteFirst, LookedAt, ToWrite
<1>10. Sampling'
  BY <1>1, <1>2 DEF Sampling
<1> QED
  BY <1>1, <1>2, <1>5, <1>6, <1>7, <1>8, <1>9, <1>10 DEF ModbusInv

\* A write begins on the last connection.
LEMMA ExecuteStep ==
    ASSUME ModbusInv, NEW verb \in {"write", "write_coil", "write_field"}, NEW value \in Nat, MB!Execute(verb, value)
    PROVE  ModbusInv'
<1>2. ModbusTypeOK /\ Locked /\ Counted /\ CleanLines /\ Fielded /\ Sampling /\ ~harmed
  BY DEF ModbusInv
<1>1. /\ command.at = "idle" /\ current # 0
      /\ UNCHANGED <<transport, current, opened, held, asked, answers, reading, holding, coil, requests, faults, slipped, harmed>>
  BY DEF MB!Execute, MB!Idle
<1>4. current = opened /\ opened > 0 /\ current \in 0 .. MaxOpened
  <2>1. MaxOpened \in Nat /\ opened \in Nat /\ (current # 0 => current = opened) /\ current \in 0 .. MaxOpened
    BY <1>2, OpenedNat
  <2>2. current # 0
    BY <1>1
  <2>3. current = opened
    BY <2>1, <2>2
  <2>4. opened \in Nat /\ opened # 0
    BY <2>1, <2>2, <2>3
  <2>5. opened > 0
    BY <2>4
  <2> QED
    BY <2>1, <2>3, <2>5
<1>3. command' \in CommandType /\ command'.at = "lock" /\ command'.on = current /\ command'.waits = 0 /\ command'.verb # "none"
  <2>1. command' = [at |-> "lock", on |-> current, verb |-> verb, value |-> value, waits |-> 0]
    BY DEF MB!Execute
  <2> QED
    BY <1>4, <2>1 DEF CommandType
<1>5. ModbusTypeOK'
  BY <1>1, <1>2, <1>3, OpenedNat DEF ModbusTypeOK
<1>6. Locked'
  BY <1>1, <1>2, <1>3, <1>4 DEF Locked
<1>7. Counted'
  <2>1. requests \in Nat
    BY <1>2 DEF ModbusTypeOK
  <2> QED
    BY <1>1, <1>2, <1>3, <2>1 DEF Counted
<1>8. CleanLines'
  <2>1. \A c \in Conn, id \in Nat : (ReadersOn(c, id) => ReadersOn(c, id)') /\ ~CommandsOn(c, id)
    BY <1>1, <1>3 DEF ReadersOn, CommandsOn
  <2> QED
    BY <1>1, <1>2, <2>1, SameLines
<1>9. Fielded'
  BY <1>1, <1>2, <1>3 DEF Fielded, OneSlip, OldLines, WriteFirst, LookedAt, ToWrite
<1>10. Sampling'
  BY <1>1, <1>2 DEF Sampling
<1> QED
  BY <1>1, <1>2, <1>5, <1>6, <1>7, <1>8, <1>9, <1>10 DEF ModbusInv

\* A new connection is clean, and its lock is free.
LEMMA BuildContextStep == ASSUME ModbusInv, MB!BuildContext PROVE ModbusInv'
<1>2. ModbusTypeOK /\ Locked /\ Counted /\ CleanLines /\ Fielded /\ Sampling /\ ~harmed
  BY DEF ModbusInv
<1>1. /\ command.at = "connect" /\ command' = [at |-> "idle", on |-> 0, verb |-> "none", value |-> 0, waits |-> 0]
      /\ UNCHANGED <<transport, held, asked, answers, reading, holding, coil, requests, slipped, harmed>>
      /\ \/ current' = opened + 1 /\ opened' = opened + 1 /\ UNCHANGED faults
         \/ faults' = faults + 1 /\ UNCHANGED <<current, opened>>
  BY DEF MB!BuildContext, MB!Idle
<1>2a. MaxOpened \in Nat /\ opened \in Nat /\ opened <= MaxOpened /\ slipped \subseteq 1 .. opened /\ opened < MaxOpened
  BY <1>1, <1>2, OpenedNat DEF Locked
<1>3. command' \in CommandType /\ command'.at = "idle" /\ command'.waits = 0
  <2>2. 0 \in 0 .. MaxOpened
    BY <1>2, OpenedNat
  <2> QED
    BY <1>1, <2>2 DEF CommandType
<1>4. /\ opened' \in 0 .. MaxOpened /\ current' \in {0, opened'} /\ opened <= opened' /\ opened' \in Nat
      /\ slipped' \in SUBSET (1 .. opened') /\ faults' \in Nat
  <2>1. current \in {0, opened} /\ faults \in Nat
    BY <1>2 DEF ModbusTypeOK
  <2>2. slipped' = slipped
    BY <1>1
  <2>3. CASE current' = opened + 1 /\ opened' = opened + 1 /\ faults' = faults
    BY <1>2a, <2>1, <2>2, <2>3
  <2>4. CASE faults' = faults + 1 /\ current' = current /\ opened' = opened
    BY <1>2a, <2>1, <2>2, <2>4
  <2> QED
    BY <1>1, <2>3, <2>4
<1>5. ModbusTypeOK'
  BY <1>1, <1>2, <1>3, <1>4 DEF ModbusTypeOK
<1>6. Locked'
  <2>1. \A c \in 1 .. opened : c \in 1 .. opened'
    BY <1>2a, <1>4
  <2>2. transport # "none"
    BY <1>1, <1>2 DEF Locked
  <2> QED
    BY <1>1, <1>2, <1>3, <2>1, <2>2 DEF Locked
<1>7. Counted'
  <2>1. requests \in Nat
    BY <1>2 DEF ModbusTypeOK
  <2> QED
    BY <1>1, <1>2, <1>3, <2>1 DEF Counted
<1>8. CleanLines'
  <2>1. \A c \in Conn, id \in Nat : (ReadersOn(c, id) => ReadersOn(c, id)') /\ ~CommandsOn(c, id)
    BY <1>1, <1>3 DEF ReadersOn, CommandsOn
  <2> QED
    BY <1>1, <1>2, <2>1, SameLines
<1>9. Fielded'
  <2>1. CASE UNCHANGED opened
    BY <1>1, <1>2, <1>3, <2>1 DEF Fielded, OneSlip, OldLines, WriteFirst, LookedAt, ToWrite
  <2>2. CASE opened' = opened + 1
    <3> SUFFICES ASSUME OneSlip' PROVE (OldLines /\ (opened > 0 => WriteFirst /\ LookedAt /\ ToWrite))'
      BY DEF Fielded
    <3>1. slipped = {}
      <4>1. opened' \notin slipped
        BY <1>2a, <2>2
      <4> QED
        BY <1>1, <4>1 DEF OneSlip
    <3>2. \A c \in Conn : \A i \in 1 .. Len(asked[c]) : asked[c][i].what \in {"read_coil", "read_holding"}
      BY <1>1, <1>2, <3>1 DEF CleanLines, CommandsOn
    <3>3. opened' \in Conn
      BY <1>2a, <2>2 DEF Conn
    <3>4. WriteFirst'
      BY <1>1, <3>2, <3>3 DEF WriteFirst
    <3> QED
      BY <1>1, <1>3, <3>2, <3>4 DEF OldLines, LookedAt, ToWrite
  <2> QED
    BY <1>1, <2>1, <2>2
<1>10. Sampling'
  BY <1>1, <1>2 DEF Sampling
<1> QED
  BY <1>1, <1>2, <1>5, <1>6, <1>7, <1>8, <1>9, <1>10 DEF ModbusInv

\* A write takes a lock nobody holds.
LEMMA LockForWriteStep == ASSUME ModbusInv, MB!LockForWrite PROVE ModbusInv'
<1>2. ModbusTypeOK /\ Locked /\ Counted /\ CleanLines /\ Fielded /\ Sampling /\ ~harmed
  BY DEF ModbusInv
<1> DEFINE on == command.on
           next == IF command.verb = "write_field" THEN "look" ELSE "write"
<1>1. /\ command.at = "lock" /\ held[on] = "nobody" /\ held' = [held EXCEPT ![on] = "command"]
      /\ UNCHANGED <<transport, current, opened, asked, answers, reading, holding, coil, requests, faults, slipped, harmed>>
  BY DEF MB!LockForWrite, MB!Free, MB!Nobody
<1>a. command' = [command EXCEPT !.at = next]
  BY DEF MB!LockForWrite
<1>b. command \in CommandType
  BY <1>2 DEF ModbusTypeOK
<1>c. next \in {"look", "write"} /\ (next = "write" => command.verb # "write_field")
  OBVIOUS
<1> HIDE DEF next
<1>3. /\ command' \in CommandType /\ command'.at = next /\ command'.on = on
      /\ command'.verb = command.verb /\ command'.value = command.value /\ command'.waits = command.waits
  BY <1>a, <1>b, <1>c DEF CommandType
<1>4. on \in Conn /\ on = opened /\ opened > 0
  BY <1>1, <1>2, CommandOn
<1> HIDE DEF on
<1>5. ModbusTypeOK'
  BY <1>1, <1>2, <1>3 DEF ModbusTypeOK
<1>6. Locked'
  <2>1. held'[on] = "command" /\ \A c \in Conn : c # on => held'[c] = held[c]
    BY <1>1, <1>2, <1>4 DEF ModbusTypeOK
  <2>2. reading.at \in {"next", "wait"} => reading.on \in Conn /\ reading.on # on
    BY <1>1, <1>2, ReaderOn
  <2> QED
    BY <1>1, <1>2, <1>3, <1>4, <1>c, <2>1, <2>2 DEF Locked
<1>7. Counted'
  <2>1. command.waits = 0
    BY <1>1, <1>2 DEF Counted
  <2>2. requests \in Nat
    BY <1>2 DEF ModbusTypeOK
  <2> QED
    BY <1>1, <1>2, <1>3, <2>1, <2>2 DEF Counted
<1>8. CleanLines'
  <2>1. \A c \in Conn, id \in Nat : (ReadersOn(c, id) => ReadersOn(c, id)') /\ ~CommandsOn(c, id)
    BY <1>1, <1>3 DEF ReadersOn, CommandsOn
  <2> QED
    BY <1>1, <1>2, <2>1, SameLines
<1>9. Fielded'
  <2>1. ~(command'.at = "looking") /\ ~(command'.at = "write" /\ command'.verb = "write_field")
    BY <1>3, <1>c
  <2> QED
    BY <1>1, <1>2, <2>1 DEF Fielded, OneSlip, OldLines, WriteFirst, LookedAt, ToWrite
<1>10. Sampling'
  BY <1>1, <1>2 DEF Sampling
<1> QED
  BY <1>1, <1>2, <1>5, <1>6, <1>7, <1>8, <1>9, <1>10 DEF ModbusInv

\* A timeout of a write gives its request up.
LEMMA WriteTimesOutStep == ASSUME ModbusInv, MB!WriteTimesOut PROVE ModbusInv'
<1>2. ModbusTypeOK /\ Locked /\ Counted /\ CleanLines /\ Fielded /\ Sampling /\ ~harmed
  BY DEF ModbusInv
<1> DEFINE on == command.on
<1>1. /\ command.at \in {"look", "looking", "write", "writing"} /\ held' = [held EXCEPT ![on] = "nobody"]
      /\ slipped' = slipped \union {on}
      /\ UNCHANGED <<transport, current, opened, asked, answers, reading, holding, coil, requests, faults, harmed>>
  BY DEF MB!WriteTimesOut, MB!Unlocked, MB!Nobody
<1>3. command' \in CommandType /\ command'.at = "idle" /\ command'.waits = 0
  <2>1. command' = [at |-> "idle", on |-> 0, verb |-> "none", value |-> 0, waits |-> 0]
    BY DEF MB!WriteTimesOut, MB!Idle
  <2>2. 0 \in 0 .. MaxOpened
    BY <1>2, OpenedNat
  <2> QED
    BY <2>1, <2>2 DEF CommandType
<1>4. on \in Conn /\ on = opened /\ opened > 0 /\ held[on] = "command" /\ on \in 1 .. opened
  <2>1. on \in Conn /\ on = opened /\ opened > 0 /\ held[on] = "command"
    BY <1>1, <1>2, CommandOn
  <2>2. opened \in Nat
    BY <1>2, OpenedNat
  <2> QED
    BY <2>1, <2>2
<1> HIDE DEF on
<1>a. on = command.on
  BY DEF on
<1>5. ModbusTypeOK'
  BY <1>1, <1>2, <1>3, <1>4 DEF ModbusTypeOK
<1>6. Locked'
  <2>1. held'[on] = "nobody" /\ \A c \in Conn : c # on => held'[c] = held[c]
    BY <1>1, <1>2, <1>4 DEF ModbusTypeOK
  <2>2. reading.at \in {"next", "wait"} => reading.on \in Conn /\ reading.on # on
    BY <1>4, <1>2, ReaderOn
  <2>3. transport # "none"
    BY <1>1, <1>2 DEF Locked
  <2> QED
    BY <1>1, <1>2, <1>3, <2>1, <2>2, <2>3 DEF Locked
<1>7. Counted'
  <2>2. requests \in Nat
    BY <1>2 DEF ModbusTypeOK
  <2> QED
    <3>0. 0 <= requests
      BY <2>2
    <3>1. requests' = requests /\ asked' = asked /\ answers' = answers /\ reading' = reading /\ 0 <= requests
      BY <1>1, <3>0
    <3> QED
      BY <1>2, <1>3, <3>1 DEF Counted
<1>8. CleanLines'
  <2>1. \A c \in Conn, id \in Nat : c \notin slipped' => (ReadersOn(c, id) => ReadersOn(c, id)') /\ ~CommandsOn(c, id)
    BY <1>1, <1>a DEF ReadersOn, CommandsOn
  <2> QED
    BY <1>1, <1>2, <2>1, SameLines
<1>9. Fielded'
  <2>1. OneSlip' => OneSlip
    BY <1>1, <1>4 DEF OneSlip
  <2> QED
    BY <1>1, <1>2, <1>3, <2>1 DEF Fielded, OldLines, WriteFirst, LookedAt, ToWrite
<1>10. Sampling'
  BY <1>1, <1>2 DEF Sampling
<1> QED
  BY <1>1, <1>2, <1>5, <1>6, <1>7, <1>8, <1>9, <1>10 DEF ModbusInv

\* The request of a write: a field is looked at before it is written, under one lock.
LEMMA WritePointStep == ASSUME ModbusInv, MB!WritePoint PROVE ModbusInv'
<1>2. ModbusTypeOK /\ Locked /\ Counted /\ CleanLines /\ Fielded /\ Sampling /\ ~harmed
  BY DEF ModbusInv
<1> DEFINE on == command.on
           look == command.at = "look"
           what == IF look THEN "read_holding" ELSE command.verb
           value == IF look THEN 0 ELSE command.value
           n == Len(asked[on])
           next == IF look THEN "looking" ELSE "writing"
           k == requests + 1
<1>1. /\ command.at \in {"look", "write"} /\ MB!Ask(on, what, value)
      /\ UNCHANGED <<transport, current, opened, held, reading, holding, coil, faults, slipped, harmed>>
  BY DEF MB!WritePoint
<1>a. command' = [command EXCEPT !.waits = k, !.at = next]
  BY DEF MB!WritePoint
<1>b. command \in CommandType /\ requests \in Nat /\ k \in Nat /\ k # 0
  <2>1. command \in CommandType /\ requests \in Nat
    BY <1>2 DEF ModbusTypeOK
  <2> QED
    BY <2>1
<1>c. next \in {"looking", "writing"} /\ (next = "looking" <=> look)
  OBVIOUS
<1>d. on \in Conn /\ on = opened /\ opened > 0 /\ held[on] = "command" /\ on = command.on
  BY <1>1, <1>2, CommandOn
<1>e. command.at = "write" => command.verb # "none"
  BY <1>1, <1>2 DEF Locked
<1>f. what \in Whats /\ value \in Nat
  <2>1. CASE look
    BY <2>1 DEF Whats
  <2>2. CASE ~look
    <3>1. command.verb \in {"none", "write", "write_coil", "write_field"} /\ command.value \in Nat
      BY <1>b DEF CommandType
    <3>2. command.verb # "none"
      BY <1>1, <1>e, <2>2
    <3> QED
      BY <2>2, <3>1, <3>2 DEF Whats
  <2> QED
    BY <2>1, <2>2
<1>g. look => what = "read_holding"
  OBVIOUS
<1>h. ~look => command.at = "write" /\ what = command.verb /\ value = command.value
  BY <1>1
<1> HIDE DEF what, value, next, on
<1>3. /\ requests' = requests + 1 /\ answers' = answers /\ asked' \in [Conn -> Seq(RequestType)]
      /\ \A c \in Conn : c # on => asked'[c] = asked[c]
      /\ n \in Nat /\ Len(asked'[on]) = n + 1
      /\ \A i \in 1 .. n : asked'[on][i] = asked[on][i]
      /\ asked'[on][n + 1] = [id |-> requests + 1, what |-> what, value |-> value]
  BY <1>1, <1>2, <1>d, <1>f, Asks, Zenon
<1>i. \A i \in 1 .. Len(asked'[on]) : i \in 1 .. n \/ i = n + 1
  BY <1>3
<1>j. asked'[on][n + 1].id = requests + 1 /\ asked'[on][n + 1].what = what /\ asked'[on][n + 1].value = value
  BY <1>3
<1> HIDE DEF n
<1>4. /\ command' \in CommandType /\ command'.at = next /\ command'.waits = requests + 1 /\ command'.on = on
      /\ command'.verb = command.verb /\ command'.value = command.value
  <2> HIDE DEF k
  <2>1. /\ command' \in CommandType /\ command'.at = next /\ command'.waits = k /\ command'.on = command.on
        /\ command'.verb = command.verb /\ command'.value = command.value
    BY <1>a, <1>b, <1>c DEF CommandType
  <2> QED
    BY <2>1, <1>d DEF k
<1>5. ModbusTypeOK'
  <2>1. requests' \in Nat /\ command' \in CommandType /\ asked' \in [Conn -> Seq(RequestType)] /\ answers' = answers
    BY <1>3, <1>4, <1>b
  <2> QED
    BY <1>1, <1>2, <2>1 DEF ModbusTypeOK
<1>6. Locked'
  BY <1>1, <1>2, <1>4, <1>c, <1>d DEF Locked
<1>7. Counted'
  <2>1. \A c \in Conn : \A i \in 1 .. Len(asked'[c]) : asked'[c][i].id \in 1 .. requests'
    <3> TAKE c \in Conn
    <3> TAKE i \in 1 .. Len(asked'[c])
    <3>1. CASE c # on
      BY <1>2, <1>3, <1>b, <3>1 DEF Counted
    <3>2. CASE c = on /\ i \in 1 .. n
      BY <1>2, <1>3, <1>b, <3>2 DEF Counted, n
    <3>3. CASE c = on /\ i = n + 1
      BY <1>3, <1>j, <1>b, <3>3
    <3> QED
      BY <1>i, <3>1, <3>2, <3>3
  <2>2. \A c \in Conn : \A i \in 1 .. Len(answers'[c]) : answers'[c][i].id \in 1 .. requests'
    <3>1. answers' = answers /\ \A c \in Conn : \A i \in 1 .. Len(answers[c]) : answers[c][i].id \in 1 .. requests
      BY <1>2, <1>3 DEF Counted
    <3>2. requests \in Nat /\ requests' = requests + 1
      BY <1>3, <1>b
    <3>3. 1 .. requests \subseteq 1 .. requests'
      BY <3>2
    <3> QED
      BY <3>1, <3>3
  <2>3. /\ reading'.waits <= requests' /\ command'.waits <= requests'
        /\ reading'.waits # 0 <=> reading'.at = "wait"
        /\ command'.waits # 0 => command'.at \in {"looking", "write", "writing"}
    <3>1. reading.waits \in Nat /\ reading' = reading
      BY <1>1, <1>2 DEF ModbusTypeOK, ReadingType
    <3> QED
      BY <1>2, <1>3, <1>4, <1>b, <1>c, <3>1 DEF Counted
  <2> QED
    BY <2>1, <2>2, <2>3 DEF Counted
<1>k. ~(reading.at = "wait" /\ reading.on = on)
  BY <1>1, <1>2, <1>d, Apart
<1>l. on \notin slipped => Len(asked[on]) = 0 /\ Len(answers[on]) = 0
  BY <1>1, <1>2, <1>d, <1>k, Quiet
<1>8. CleanLines'
  <2>1. QED
    <3> SUFFICES ASSUME NEW c \in Conn, c \notin slipped'
                 PROVE  (/\ Len(asked[c]) + Len(answers[c]) <= 1
                         /\ \A i \in 1 .. Len(asked[c]) :
                               \/ ReadersOn(c, asked[c][i].id) /\ asked[c][i].what \in {"read_coil", "read_holding"}
                               \/ CommandsOn(c, asked[c][i].id)
                         /\ \A i \in 1 .. Len(answers[c]) :
                               ReadersOn(c, answers[c][i].id) \/ CommandsOn(c, answers[c][i].id))'
      BY DEF CleanLines
    <3>1. CASE c # on
      <4>1. asked'[c] = asked[c] /\ answers'[c] = answers[c] /\ reading' = reading /\ c \notin slipped
        BY <1>1, <1>3, <3>1
      <4>2. \A id : ~CommandsOn(c, id)
        BY <1>1 DEF CommandsOn
      <4>3. /\ Len(asked[c]) + Len(answers[c]) <= 1
            /\ \A i \in 1 .. Len(asked[c]) : ReadersOn(c, asked[c][i].id) /\ asked[c][i].what \in {"read_coil", "read_holding"}
            /\ \A i \in 1 .. Len(answers[c]) : ReadersOn(c, answers[c][i].id)
        BY <1>2, <4>1, <4>2 DEF CleanLines
      <4> QED
        BY <4>1, <4>3 DEF ReadersOn
    <3>2. CASE c = on
      <4>1. n = 0 /\ Len(answers[on]) = 0
        BY <1>1, <1>l, <3>2 DEF n
      <4>2. Len(asked'[on]) = 1 /\ Len(answers'[on]) = 0 /\ \A i \in 1 .. 1 : i = n + 1
        BY <1>3, <4>1
      <4>3. \A i \in 1 .. Len(asked'[c]) : asked'[c][i].id = requests + 1
        BY <1>j, <3>2, <4>2
      <4>4. command'.at \in {"looking", "writing"} /\ command'.on = c /\ command'.waits = requests + 1
        BY <1>4, <1>c, <3>2
      <4>5. Len(asked'[c]) + Len(answers'[c]) <= 1 /\ \A i \in 1 .. Len(answers'[c]) : FALSE
        BY <3>2, <4>2
      <4> QED
        BY <4>3, <4>4, <4>5 DEF CommandsOn
    <3> QED
      BY <3>1, <3>2
<1>9. Fielded'
  <2> SUFFICES ASSUME OneSlip PROVE (OldLines /\ WriteFirst /\ LookedAt /\ ToWrite)'
    BY <1>1 DEF Fielded, OneSlip
  <2>1. OldLines /\ WriteFirst /\ LookedAt /\ ToWrite
    BY <1>2, <1>d DEF Fielded
  <2>2. OldLines'
    BY <1>1, <1>3, <1>d, <2>1 DEF OldLines
  <2>3. WriteFirst'
    <3> SUFFICES ASSUME NEW i \in 1 .. Len(asked'[on]), asked'[on][i].what = "write_field"
                 PROVE  i = 1 /\ MB!Outside(asked'[on][i].value) = MB!Outside(holding)
      BY <1>1, <1>d DEF WriteFirst
    <3>1. CASE i \in 1 .. n
      <4>1. asked'[on][i] = asked[on][i] /\ i \in 1 .. Len(asked[opened])
        BY <1>3, <1>d, <3>1 DEF n
      <4>2. asked[opened][i].what = "write_field"
        BY <1>d, <4>1
      <4> QED
        BY <1>d, <2>1, <4>1, <4>2 DEF WriteFirst
    <3>2. CASE i = n + 1
      <4>1. what = "write_field" /\ ~look
        BY <1>j, <1>g, <3>2
      <4>2. n = 0 /\ MB!Outside(command.value) = MB!Outside(holding)
        BY <1>d, <1>h, <2>1, <4>1 DEF ToWrite, n
      <4>3. i = 1
        BY <3>2, <4>2
      <4>4. asked'[on][i].value = command.value
        BY <1>h, <1>j, <3>2, <4>1
      <4> QED
        BY <4>2, <4>3, <4>4
    <3> QED
      BY <1>i, <3>1, <3>2
  <2>4. LookedAt'
    <3> SUFFICES ASSUME command'.at = "looking"
                 PROVE  /\ \A i \in 1 .. Len(asked'[on]) : asked'[on][i].id = command'.waits =>
                              i = Len(asked'[on]) /\ asked'[on][i].what = "read_holding"
                        /\ \A i \in 1 .. Len(answers'[on]) : answers'[on][i].id # command'.waits
      BY <1>1, <1>d DEF LookedAt
    <3>1. look
      BY <1>4, <1>c
    <3>2. \A i \in 1 .. n : asked[on][i].id # requests + 1
      <4>1. \A i \in 1 .. n : asked[on][i].id \in 1 .. requests
        BY <1>2, <1>d DEF Counted, n
      <4> QED
        BY <1>b, <4>1
    <3>3. \A i \in 1 .. Len(answers[on]) : answers[on][i].id # requests + 1
      <4>1. \A i \in 1 .. Len(answers[on]) : answers[on][i].id \in 1 .. requests
        BY <1>2, <1>d DEF Counted
      <4> QED
        BY <1>b, <4>1
    <3>4. \A i \in 1 .. Len(asked'[on]) : asked'[on][i].id = requests + 1 => i = n + 1
      BY <1>3, <1>i, <3>2
    <3> QED
      BY <1>3, <1>4, <1>g, <1>j, <3>1, <3>3, <3>4
  <2>5. ToWrite'
    BY <1>4, <1>c DEF ToWrite
  <2> QED
    BY <2>2, <2>3, <2>4, <2>5
<1>10. Sampling'
  BY <1>1, <1>2 DEF Sampling
<1> QED
  BY <1>1, <1>2, <1>5, <1>6, <1>7, <1>8, <1>9, <1>10 DEF ModbusInv

\* The answer to a look goes into the write; that to a write ends it.
LEMMA WriteAnsweredStep == ASSUME ModbusInv, MB!WriteAnswered PROVE ModbusInv'
<1>2. ModbusTypeOK /\ Locked /\ Counted /\ CleanLines /\ Fielded /\ Sampling /\ ~harmed
  BY DEF ModbusInv
<1> DEFINE on == command.on
           reply == answers[on][1]
<1>1. /\ command.at \in {"looking", "writing"} /\ answers[on] # << >> /\ MB!TakeAnswer(on)
      /\ UNCHANGED <<transport, current, opened, reading, holding, coil, requests, faults, slipped, harmed>>
  BY DEF MB!WriteAnswered
<1>3. on \in Conn /\ on = opened /\ opened > 0 /\ held[on] = "command" /\ on = command.on
  BY <1>1, <1>2, CommandOn
<1>4. /\ asked' = asked /\ answers' \in [Conn -> Seq(AnswerType)]
      /\ \A c \in Conn : c # on => answers'[c] = answers[c]
      /\ Len(answers[on]) \in Nat \ {0} /\ Len(answers'[on]) = Len(answers[on]) - 1
      /\ \A i \in 1 .. Len(answers[on]) - 1 : answers'[on][i] = answers[on][i + 1]
      /\ Head(answers[on]) = reply /\ reply \in AnswerType
  BY <1>1, <1>2, <1>3, Takes, Zenon
<1>5. \/ /\ command.at = "looking" /\ MB!Accepted(command.waits, reply) /\ MB!Fits(command.value)
         /\ command' = [command EXCEPT !.at = "write", !.value = MB!Merged(reply.value, command.value)]
         /\ held' = held
      \/ command' = MB!Idle /\ held' = [held EXCEPT ![on] = "nobody"]
  BY <1>4 DEF MB!WriteAnswered, MB!Unlocked, MB!Nobody
<1>6. ~(reading.at \in {"next", "wait"} /\ reading.on = on)
  <2>1. command.at \in {"look", "looking", "write", "writing"}
    BY <1>1
  <2> QED
    BY <1>2, <1>3, <2>1, Apart
<1> HIDE DEF on, reply
<1>b. command \in CommandType /\ requests \in Nat /\ command.value \in Nat
  BY <1>2 DEF ModbusTypeOK, CommandType
<1>c. reply.value \in Nat
  BY <1>4 DEF AnswerType
<1>7. /\ command' \in CommandType
      /\ \/ command'.at = "idle" /\ command'.waits = 0 /\ held' = [held EXCEPT ![on] = "nobody"]
         \/ /\ command.at = "looking" /\ MB!Accepted(command.waits, reply) /\ MB!Fits(command.value) /\ held' = held
            /\ command'.at = "write" /\ command'.waits = command.waits /\ command'.on = on
            /\ command'.verb = command.verb /\ command'.value = MB!Merged(reply.value, command.value)
  <2>1. CASE command' = MB!Idle /\ held' = [held EXCEPT ![on] = "nobody"]
    <3>1. 0 \in 0 .. MaxOpened
      BY <1>2, OpenedNat
    <3>2. command' = [at |-> "idle", on |-> 0, verb |-> "none", value |-> 0, waits |-> 0]
      BY <2>1 DEF MB!Idle
    <3>3. command' \in CommandType /\ command'.at = "idle" /\ command'.waits = 0
      BY <3>1, <3>2 DEF CommandType
    <3> QED
      BY <2>1, <3>3
  <2>2. CASE /\ command.at = "looking" /\ MB!Accepted(command.waits, reply) /\ MB!Fits(command.value)
             /\ command' = [command EXCEPT !.at = "write", !.value = MB!Merged(reply.value, command.value)]
             /\ held' = held
    <3> DEFINE v == MB!Merged(reply.value, command.value)
    <3>1. v \in Nat
      BY <1>b, <1>c, MergedNat
    <3>2. command' = [command EXCEPT !.at = "write", !.value = v]
      BY <2>2
    <3> HIDE DEF v
    <3>3. /\ command' \in CommandType /\ command'.at = "write" /\ command'.waits = command.waits /\ command'.on = on
          /\ command'.verb = command.verb /\ command'.value = v
      BY <1>3, <1>b, <3>1, <3>2 DEF CommandType
    <3> QED
      BY <2>2, <3>3 DEF v
  <2> QED
    BY <1>5, <2>1, <2>2
<1>8. ModbusTypeOK'
  <2>1. held' \in [Conn -> {"nobody", "reader", "command"}]
    BY <1>2, <1>7 DEF ModbusTypeOK
  <2> QED
    BY <1>1, <1>2, <1>4, <1>7, <2>1 DEF ModbusTypeOK
<1>9. Locked'
  <2>1. CASE command'.at = "idle" /\ held' = [held EXCEPT ![on] = "nobody"]
    <3>1. \A c \in Conn : c # on => held'[c] = held[c]
      BY <1>2, <2>1 DEF ModbusTypeOK
    <3>2. reading.at \in {"next", "wait"} => reading.on \in Conn /\ reading.on # on
      BY <1>2, <1>6, ReaderOn
    <3> QED
      BY <1>1, <1>2, <2>1, <3>1, <3>2 DEF Locked
  <2>2. CASE held' = held /\ command'.at = "write" /\ command'.on = on /\ command'.verb = command.verb
    BY <1>1, <1>2, <1>3, <2>2 DEF Locked
  <2> QED
    BY <1>7, <2>1, <2>2
<1>10. Counted'
  <2>1. \A c \in Conn : \A i \in 1 .. Len(answers'[c]) : answers'[c][i].id \in 1 .. requests
    <3> TAKE c \in Conn
    <3>1. CASE c # on
      BY <1>2, <1>4, <3>1 DEF Counted
    <3>2. CASE c = on
      <4>1. \A i \in 1 .. Len(answers'[c]) : i + 1 \in 1 .. Len(answers[on]) /\ answers'[c][i] = answers[on][i + 1]
        <5> DEFINE a == Len(answers[on])
                   b == Len(answers'[on])
        <5>1. a \in Nat \ {0} /\ b = a - 1 /\ \A i \in 1 .. a - 1 : answers'[on][i] = answers[on][i + 1]
          BY <1>4
        <5> HIDE DEF a, b
        <5>2. \A i \in 1 .. b : i + 1 \in 1 .. a /\ answers'[on][i] = answers[on][i + 1]
          BY <5>1
        <5> QED
          BY <3>2, <5>2 DEF a, b
      <4> QED
        BY <1>2, <1>3, <4>1 DEF Counted
    <3> QED
      BY <3>1, <3>2
  <2>2. requests' = requests /\ asked' = asked /\ reading' = reading /\ 0 <= requests
    BY <1>1, <1>4, <1>b
  <2>3. command'.waits <= requests /\ (command'.waits # 0 => command'.at \in {"looking", "write", "writing"})
    BY <1>2, <1>7, <2>2 DEF Counted
  <2> QED
    BY <1>2, <2>1, <2>2, <2>3 DEF Counted
<1>11. CleanLines'
  <2>1. QED
    <3> SUFFICES ASSUME NEW c \in Conn, c \notin slipped'
                 PROVE  (/\ Len(asked[c]) + Len(answers[c]) <= 1
                         /\ \A i \in 1 .. Len(asked[c]) :
                               \/ ReadersOn(c, asked[c][i].id) /\ asked[c][i].what \in {"read_coil", "read_holding"}
                               \/ CommandsOn(c, asked[c][i].id)
                         /\ \A i \in 1 .. Len(answers[c]) :
                               ReadersOn(c, answers[c][i].id) \/ CommandsOn(c, answers[c][i].id))'
      BY DEF CleanLines
    <3>1. CASE c # on
      <4>1. asked'[c] = asked[c] /\ answers'[c] = answers[c] /\ reading' = reading /\ c \notin slipped
        BY <1>1, <1>4, <3>1
      <4>2. \A id : ~CommandsOn(c, id)
        BY <1>3, <3>1 DEF CommandsOn
      <4>3. /\ Len(asked[c]) + Len(answers[c]) <= 1
            /\ \A i \in 1 .. Len(asked[c]) : ReadersOn(c, asked[c][i].id) /\ asked[c][i].what \in {"read_coil", "read_holding"}
            /\ \A i \in 1 .. Len(answers[c]) : ReadersOn(c, answers[c][i].id)
        BY <1>2, <4>1, <4>2 DEF CleanLines
      <4> QED
        BY <4>1, <4>3 DEF ReadersOn
    <3>2. CASE c = on
      <4>1. Len(asked[c]) + Len(answers[c]) <= 1 /\ Len(asked[c]) \in Nat
        BY <1>1, <1>2, LenNat DEF CleanLines
      <4>2. Len(asked'[c]) = 0 /\ Len(answers'[c]) = 0
        <5>1. Len(answers[c]) \in Nat \ {0} /\ Len(answers'[c]) = Len(answers[c]) - 1 /\ asked'[c] = asked[c]
          BY <1>4, <3>2
        <5> DEFINE a == Len(asked[c])
                   b == Len(answers[c])
        <5>2. a \in Nat /\ b \in Nat \ {0} /\ a + b <= 1
          BY <4>1, <5>1
        <5> HIDE DEF a, b
        <5>3. a = 0 /\ b - 1 = 0
          BY <5>2
        <5> QED
          BY <5>1, <5>3 DEF a, b
      <4> QED
        BY <4>2
    <3> QED
      BY <3>1, <3>2
<1>12. Fielded'
  <2> SUFFICES ASSUME OneSlip PROVE (OldLines /\ WriteFirst /\ LookedAt /\ ToWrite)'
    BY <1>1 DEF Fielded, OneSlip
  <2>1. OldLines /\ WriteFirst /\ LookedAt /\ ToWrite
    BY <1>2, <1>3 DEF Fielded
  <2>2. (OldLines /\ WriteFirst)'
    BY <1>1, <1>4, <2>1 DEF OldLines, WriteFirst
  <2>3. LookedAt'
    BY <1>7 DEF LookedAt
  <2>4. ToWrite'
    <3> SUFFICES ASSUME command'.at = "write"
                 PROVE  Len(asked[on]) = 0 /\ MB!Outside(command'.value) = MB!Outside(holding)
      BY <1>1, <1>3, <1>4 DEF ToWrite
    <3>1. /\ command.at = "looking" /\ MB!Accepted(command.waits, reply) /\ MB!Fits(command.value)
          /\ command'.value = MB!Merged(reply.value, command.value)
      BY <1>7
    <3>2. 1 \in 1 .. Len(answers[on]) /\ reply = answers[on][1]
      BY <1>4 DEF reply
    <3>3. reply.id = command.waits
      <4>1. CASE transport = "tcp"
        BY <3>1, <4>1 DEF MB!Accepted
      <4>2. CASE slipped = {}
        <5>1. ReadersOn(on, reply.id) \/ CommandsOn(on, reply.id)
          BY <1>2, <1>3, <3>2, <4>2 DEF CleanLines
        <5> QED
          BY <1>6, <5>1 DEF ReadersOn, CommandsOn
      <4> QED
        BY <4>1, <4>2 DEF OneSlip
    <3>4. Len(asked[on]) = 0 /\ reply.value = holding
      BY <1>3, <2>1, <3>1, <3>2, <3>3 DEF LookedAt
    <3>5. MB!Outside(MB!Merged(reply.value, command.value)) = MB!Outside(reply.value)
      BY <1>b, <1>c, <3>1, MergedNat
    <3> QED
      BY <3>1, <3>4, <3>5
  <2> QED
    BY <2>2, <2>3, <2>4
<1>13. Sampling'
  BY <1>1, <1>2 DEF Sampling
<1> QED
  BY <1>1, <1>2, <1>8, <1>9, <1>10, <1>11, <1>12, <1>13 DEF ModbusInv

\* The device serves the first request: a field that is written is merged into what it still holds.
LEMMA ServeStep == ASSUME ModbusInv, NEW c \in Conn, MB!Serve(c) PROVE ModbusInv'
<1>2. ModbusTypeOK /\ Locked /\ Counted /\ CleanLines /\ Fielded /\ Sampling /\ ~harmed
  BY DEF ModbusInv
<1> DEFINE request == asked[c][1]
           value == IF request.what = "read_coil" THEN coil ELSE holding
<1>a. asked[c] # << >> /\ asked \in [Conn -> Seq(RequestType)] /\ answers \in [Conn -> Seq(AnswerType)] /\ asked[c] \in Seq(RequestType)
      /\ answers[c] \in Seq(AnswerType)
  BY <1>2 DEF ModbusTypeOK, MB!Serve
<1>b. /\ Tail(asked[c]) \in Seq(RequestType) /\ Len(asked[c]) \in Nat \ {0} /\ Len(Tail(asked[c])) = Len(asked[c]) - 1
      /\ \A i \in 1 .. Len(asked[c]) - 1 : Tail(asked[c])[i] = asked[c][i + 1]
      /\ Head(asked[c]) = request /\ request \in RequestType
  BY <1>a, TakingFirst
<1>c. /\ asked' = [asked EXCEPT ![c] = Tail(asked[c])]
      /\ UNCHANGED <<transport, current, opened, held, reading, command, requests, slipped>>
  BY DEF MB!Serve
<1>d. /\ holding' = IF request.what \in {"write", "write_field"} THEN request.value ELSE holding
      /\ coil' = IF request.what = "write_coil" THEN request.value ELSE coil
  BY <1>b DEF MB!Serve
<1>e. harmed' = \/ harmed
                \/ /\ request.what = "write_field" /\ MB!Outside(request.value) # MB!Outside(holding)
                   /\ slipped = {} \/ (transport = "tcp" /\ slipped = {opened} /\ c = opened)
  BY <1>b DEF MB!Serve
<1>f. \/ answers' = [answers EXCEPT ![c] = Append(answers[c], [id |-> request.id, value |-> value])] /\ faults' = faults
      \/ answers' = answers /\ faults' = faults + 1
  BY <1>b DEF MB!Serve
<1>g. request.id \in Nat /\ request.value \in Nat /\ request.what \in Whats
  BY <1>b DEF RequestType
<1>h. holding \in Nat /\ coil \in Nat /\ faults \in Nat /\ requests \in Nat
  BY <1>2 DEF ModbusTypeOK
<1>i. value \in Nat
  BY <1>h
<1> HIDE DEF request, value
<1> DEFINE n == Len(asked[c])
           m == Len(answers[c])
<1>3. /\ asked' \in [Conn -> Seq(RequestType)] /\ \A d \in Conn : d # c => asked'[d] = asked[d]
      /\ n \in Nat \ {0} /\ Len(asked'[c]) = n - 1 /\ \A i \in 1 .. n - 1 : asked'[c][i] = asked[c][i + 1]
  <2>1. /\ asked' \in [Conn -> Seq(RequestType)] /\ (\A d \in Conn : d # c => asked'[d] = asked[d])
        /\ asked'[c] = Tail(asked[c])
    BY <1>a, <1>b, <1>c
  <2> QED
    BY <1>b, <2>1
<1>4. /\ answers' \in [Conn -> Seq(AnswerType)] /\ \A d \in Conn : d # c => answers'[d] = answers[d]
      /\ m \in Nat /\ \A i \in 1 .. m : answers'[c][i] = answers[c][i]
      /\ \/ Len(answers'[c]) = m
         \/ Len(answers'[c]) = m + 1 /\ answers'[c][m + 1].id = request.id /\ answers'[c][m + 1].value = value
  <2> DEFINE x == [id |-> request.id, value |-> value]
  <2>1. x \in AnswerType /\ x.id = request.id /\ x.value = value
    BY <1>g, <1>i DEF AnswerType
  <2> HIDE DEF x
  <2>2. /\ Append(answers[c], x) \in Seq(AnswerType) /\ m \in Nat /\ Len(Append(answers[c], x)) = m + 1
        /\ \A i \in 1 .. m : Append(answers[c], x)[i] = answers[c][i]
        /\ Append(answers[c], x)[m + 1] = x
    BY <1>a, <2>1, Appending
  <2>3. CASE answers' = answers
    BY <1>a, <2>2, <2>3
  <2>4. CASE answers' = [answers EXCEPT ![c] = Append(answers[c], x)]
    <3>1. /\ answers' \in [Conn -> Seq(AnswerType)] /\ (\A d \in Conn : d # c => answers'[d] = answers[d])
          /\ answers'[c] = Append(answers[c], x)
      BY <1>a, <2>2, <2>4
    <3> QED
      BY <2>1, <2>2, <3>1
  <2> QED
    BY <1>f, <2>3, <2>4 DEF x
<1>5. request = asked[c][1] /\ 1 \in 1 .. n
  BY <1>3 DEF request
<1>6. \A i \in 1 .. Len(asked'[c]) : i + 1 \in 1 .. n /\ i + 1 # 1 /\ asked'[c][i] = asked[c][i + 1]
  BY <1>3
<1>7. \A i \in 1 .. Len(answers'[c]) : \/ i \in 1 .. m /\ answers'[c][i] = answers[c][i]
                                       \/ i = m + 1 /\ answers'[c][i].id = request.id /\ answers'[c][i].value = value
  <2>1. \A i \in 1 .. m : answers'[c][i] = answers[c][i]
    BY <1>4
  <2>2. m \in Nat
    BY <1>4
  <2>3. \/ Len(answers'[c]) = m
        \/ Len(answers'[c]) = m + 1 /\ answers'[c][m + 1].id = request.id /\ answers'[c][m + 1].value = value
    BY <1>4
  <2> HIDE DEF m
  <2> TAKE i \in 1 .. Len(answers'[c])
  <2>4. CASE Len(answers'[c]) = m
    <3>1. i \in 1 .. m
      BY <2>4
    <3>2. answers'[c][i] = answers[c][i]
      BY <2>1, <3>1
    <3> QED
      BY <3>1, <3>2
  <2>5. CASE Len(answers'[c]) = m + 1 /\ answers'[c][m + 1].id = request.id /\ answers'[c][m + 1].value = value
    <3>1. i \in 1 .. m \/ i = m + 1
      BY <2>2, <2>5
    <3>2. CASE i \in 1 .. m
      <4>1. answers'[c][i] = answers[c][i]
        BY <2>1, <3>2
      <4> QED
        BY <3>2, <4>1
    <3>3. CASE i = m + 1
      BY <2>5, <3>3
    <3> QED
      BY <3>1, <3>2, <3>3
  <2> QED
    BY <2>3, <2>4, <2>5
<1> HIDE DEF n, m
<1>8. ModbusTypeOK'
  <2>1. holding' \in Nat /\ coil' \in Nat
    BY <1>d, <1>g, <1>h
  <2>2. faults' \in Nat
    BY <1>f, <1>h
  <2> QED
    BY <1>2, <1>3, <1>4, <1>c, <2>1, <2>2 DEF ModbusTypeOK
<1>9. Locked' /\ Sampling'
  BY <1>2, <1>c DEF Locked, Sampling
<1>10. Counted'
  <2>1. request.id \in 1 .. requests
    BY <1>2, <1>5 DEF Counted, n
  <2>2. \A d \in Conn : \A i \in 1 .. Len(asked'[d]) : asked'[d][i].id \in 1 .. requests
    <3> TAKE d \in Conn
    <3>1. CASE d # c
      BY <1>2, <1>3, <3>1 DEF Counted
    <3>2. CASE d = c
      BY <1>2, <1>6, <3>2 DEF Counted, n
    <3> QED
      BY <3>1, <3>2
  <2>3. \A d \in Conn : \A i \in 1 .. Len(answers'[d]) : answers'[d][i].id \in 1 .. requests
    <3> TAKE d \in Conn
    <3>1. CASE d # c
      BY <1>2, <1>4, <3>1 DEF Counted
    <3>2. CASE d = c
      BY <1>2, <1>7, <2>1, <3>2 DEF Counted, m
    <3> QED
      BY <3>1, <3>2
  <2> QED
    BY <1>2, <1>c, <2>2, <2>3 DEF Counted
<1>11. CleanLines'
  <2>1. QED
    <3> SUFFICES ASSUME NEW d \in Conn, d \notin slipped'
                 PROVE  (/\ Len(asked[d]) + Len(answers[d]) <= 1
                         /\ \A i \in 1 .. Len(asked[d]) :
                               \/ ReadersOn(d, asked[d][i].id) /\ asked[d][i].what \in {"read_coil", "read_holding"}
                               \/ CommandsOn(d, asked[d][i].id)
                         /\ \A i \in 1 .. Len(answers[d]) :
                               ReadersOn(d, answers[d][i].id) \/ CommandsOn(d, answers[d][i].id))'
      BY DEF CleanLines
    <3>1. CASE d # c
      <4>1. /\ asked'[d] = asked[d] /\ answers'[d] = answers[d] /\ d \notin slipped
            /\ reading' = reading /\ command' = command
        BY <1>3, <1>4, <1>c, <3>1
      <4>2. /\ Len(asked[d]) + Len(answers[d]) <= 1
            /\ \A i \in 1 .. Len(asked[d]) :
                  \/ ReadersOn(d, asked[d][i].id) /\ asked[d][i].what \in {"read_coil", "read_holding"}
                  \/ CommandsOn(d, asked[d][i].id)
            /\ \A i \in 1 .. Len(answers[d]) :
                  ReadersOn(d, answers[d][i].id) \/ CommandsOn(d, answers[d][i].id)
        BY <1>2, <4>1 DEF CleanLines
      <4> QED
        BY <4>1, <4>2 DEF ReadersOn, CommandsOn
    <3>2. CASE d = c
      <4>1. /\ n + m <= 1
            /\ \A i \in 1 .. n : ReadersOn(c, asked[c][i].id) \/ CommandsOn(c, asked[c][i].id)
        BY <1>2, <1>c, <3>2 DEF CleanLines, n, m
      <4>2. n = 1 /\ m = 0
        BY <1>3, <1>4, <4>1
      <4>3. Len(asked'[c]) = 0 /\ Len(answers'[c]) \in {0, 1}
        BY <1>3, <1>4, <4>2
      <4>4. \A i \in 1 .. Len(answers'[c]) : answers'[c][i].id = request.id
        BY <1>7, <4>2
      <4>5. ReadersOn(c, request.id) \/ CommandsOn(c, request.id)
        BY <1>5, <4>1
      <4>6. reading' = reading /\ command' = command
        BY <1>c
      <4>7. \A i \in 1 .. Len(answers'[d]) :
               \/ reading'.at = "wait" /\ reading'.on = d /\ reading'.waits = answers'[d][i].id
               \/ command'.at \in {"looking", "writing"} /\ command'.on = d /\ command'.waits = answers'[d][i].id
        BY <3>2, <4>4, <4>5, <4>6 DEF ReadersOn, CommandsOn
      <4>8. Len(asked'[d]) + Len(answers'[d]) <= 1 /\ \A i \in 1 .. Len(asked'[d]) : FALSE
        <5> DEFINE a == Len(asked'[c])
                   b == Len(answers'[c])
        <5> HIDE DEF a, b
        <5>1. a = 0 /\ b \in {0, 1}
          BY <4>3 DEF a, b
        <5>2. a + b <= 1 /\ \A i \in 1 .. a : FALSE
          BY <5>1
        <5> QED
          BY <3>2, <5>2 DEF a, b
      <4> QED
        BY <4>7, <4>8 DEF ReadersOn, CommandsOn
    <3> QED
      BY <3>1, <3>2
<1>12. ASSUME OneSlip, opened > 0 PROVE OldLines /\ WriteFirst /\ LookedAt /\ ToWrite /\ opened \in Conn
  <2>1. opened \in Conn
    BY <1>2, <1>12, OpenedNat DEF Conn
  <2> QED
    BY <1>2, <1>12, <2>1 DEF Fielded
<1>13. ASSUME OneSlip, c # opened PROVE holding' = holding /\ request.what # "write_field"
  <2>1. request.what \in {"read_coil", "read_holding"}
    BY <1>2, <1>5, <1>13 DEF Fielded, OldLines, n
  <2> QED
    BY <1>d, <2>1
<1>14. Fielded'
  <2> SUFFICES ASSUME OneSlip PROVE OldLines' /\ (opened > 0 => (WriteFirst /\ LookedAt /\ ToWrite)')
    BY <1>c DEF Fielded, OneSlip
  <2>1. OldLines'
    <3> SUFFICES ASSUME NEW d \in Conn, d # opened, NEW i \in 1 .. Len(asked'[d])
                 PROVE  asked'[d][i].what \in {"read_coil", "read_holding"}
      BY <1>c DEF OldLines
    <3>1. CASE d # c
      BY <1>2, <1>3, <3>1 DEF Fielded, OldLines
    <3>2. CASE d = c
      BY <1>2, <1>6, <3>2 DEF Fielded, OldLines, n
    <3> QED
      BY <3>1, <3>2
  <2>2. ASSUME opened > 0 PROVE (WriteFirst /\ LookedAt /\ ToWrite)'
    <3>1. OldLines /\ WriteFirst /\ LookedAt /\ ToWrite /\ opened \in Conn
      BY <1>12, <2>2
    <3>2. CASE c # opened
      <4>1. asked'[opened] = asked[opened] /\ answers'[opened] = answers[opened] /\ holding' = holding
        BY <1>3, <1>4, <1>13, <3>1, <3>2
      <4> QED
        BY <1>c, <3>1, <4>1 DEF WriteFirst, LookedAt, ToWrite
    <3>3. CASE c = opened
      <4>1. WriteFirst'
        <5>1. \A i \in 1 .. Len(asked'[c]) : asked'[c][i].what # "write_field"
          BY <1>6, <3>1, <3>3 DEF WriteFirst, n
        <5> QED
          BY <1>c, <3>3, <5>1 DEF WriteFirst
      <4>2. ToWrite'
        <5>1. ~(command.at = "write" /\ command.verb = "write_field")
          BY <1>3, <3>1, <3>3 DEF ToWrite, n
        <5> QED
          BY <1>c, <5>1 DEF ToWrite
      <4>3. LookedAt'
        <5> SUFFICES ASSUME command.at = "looking"
                     PROVE  /\ \A i \in 1 .. Len(asked'[c]) : asked'[c][i].id = command.waits =>
                                  i = Len(asked'[c]) /\ asked'[c][i].what = "read_holding"
                            /\ \A i \in 1 .. Len(answers'[c]) : answers'[c][i].id = command.waits =>
                                  Len(asked'[c]) = 0 /\ answers'[c][i].value = holding'
          BY <1>c, <3>3 DEF LookedAt
        <5>1. /\ \A i \in 1 .. n : asked[c][i].id = command.waits => i = n /\ asked[c][i].what = "read_holding"
              /\ \A i \in 1 .. m : answers[c][i].id # command.waits
          BY <1>3, <3>1, <3>3 DEF LookedAt, n, m
        <5>2. ASSUME NEW i \in 1 .. Len(asked'[c]), asked'[c][i].id = command.waits
              PROVE  i = Len(asked'[c]) /\ asked'[c][i].what = "read_holding"
          <6>1. i + 1 = n /\ asked'[c][i].what = "read_holding"
            BY <1>6, <5>1, <5>2
          <6> QED
            BY <1>3, <6>1
        <5>3. ASSUME NEW i \in 1 .. Len(answers'[c]), answers'[c][i].id = command.waits
              PROVE  Len(asked'[c]) = 0 /\ answers'[c][i].value = holding'
          <6>1. request.id = command.waits /\ answers'[c][i].value = value
            BY <1>7, <5>1, <5>3
          <6>2. n = 1 /\ request.what = "read_holding"
            BY <1>5, <5>1, <6>1
          <6>3. value = holding /\ holding' = holding
            BY <1>d, <6>2 DEF value
          <6> QED
            BY <1>3, <6>1, <6>2, <6>3
        <5> QED
          BY <5>2, <5>3
      <4> QED
        BY <4>1, <4>2, <4>3
    <3> QED
      BY <3>2, <3>3
  <2> QED
    BY <2>1, <2>2
<1>15. ~harmed'
  <2> SUFFICES ASSUME request.what = "write_field", MB!Outside(request.value) # MB!Outside(holding), OneSlip PROVE FALSE
    BY <1>2, <1>e DEF OneSlip
  <2>1. c = opened
    BY <1>13
  <2>2. opened > 0
    BY <2>1, <1>2, OpenedNat DEF Conn
  <2> QED
    BY <1>5, <1>12, <2>1, <2>2 DEF WriteFirst, n
<1> QED
  BY <1>8, <1>9, <1>10, <1>11, <1>14, <1>15 DEF ModbusInv

\* The beginning has no connection.
LEMMA ModbusInit == ASSUME MB!Init PROVE ModbusInv
<1>1. MaxOpened \in Nat /\ 0 \in 0 .. MaxOpened /\ 2 ^ RegisterBits - 1 \in Nat /\ Len(Batch) \in Nat
  <2>1. Batch \in Seq({"holding", "coil", "unknown"}) /\ MaxOpened \in Nat
    BY ModbusAssumption
  <2>2. 2 ^ RegisterBits - 1 \in Nat
    BY PowerAssumption
  <2> QED
    BY <2>1, <2>2
<1>2. /\ reading = [at |-> "idle", on |-> 0, samples |-> << >>, dead |-> FALSE, waits |-> 0]
      /\ command = [at |-> "idle", on |-> 0, verb |-> "none", value |-> 0, waits |-> 0]
  BY DEF MB!Init, MB!NoRead, MB!Idle
<1>3. reading \in ReadingType /\ command \in CommandType
  BY <1>1, <1>2 DEF ReadingType, CommandType
<1>4. /\ asked \in [Conn -> Seq(RequestType)] /\ answers \in [Conn -> Seq(AnswerType)]
      /\ \A c \in Conn : Len(asked[c]) = 0 /\ Len(answers[c]) = 0
  <2>1. asked = [c \in Conn |-> << >>] /\ answers = [c \in Conn |-> << >>]
    BY DEF MB!Init, Conn
  <2> QED
    BY <2>1
<1>5. held \in [Conn -> {"nobody", "reader", "command"}]
  BY DEF MB!Init, MB!Nobody, Conn
<1>6. holding \in Nat /\ coil \in Nat /\ requests \in Nat /\ faults \in Nat
  BY <1>1 DEF MB!Init
<1>7. ModbusTypeOK
  BY <1>1, <1>3, <1>4, <1>5, <1>6 DEF ModbusTypeOK, MB!Init
<1>8. Locked
  BY <1>2 DEF Locked, MB!Init
<1>9. Counted
  BY <1>2, <1>4, <1>6 DEF Counted
<1>10. CleanLines
  BY <1>4 DEF CleanLines
<1>11. Fielded
  <2>1. \A c \in Conn : \A i \in 1 .. Len(asked[c]) : FALSE
    BY <1>4
  <2>2. ~(opened > 0)
    BY DEF MB!Init
  <2> QED
    BY <2>1, <2>2 DEF Fielded, OldLines
<1>12. Sampling
  BY <1>1, <1>2 DEF Sampling
<1> QED
  BY <1>7, <1>8, <1>9, <1>10, <1>11, <1>12 DEF ModbusInv, MB!Init

\* Every step keeps the invariant.
LEMMA ModbusStep == ASSUME ModbusInv, [MB!Next]_MB!vars PROVE ModbusInv'
<1>1. CASE UNCHANGED MB!vars
  BY <1>1 DEF MB!vars, ModbusInv, ModbusTypeOK, Locked, Counted, CleanLines, ReadersOn, CommandsOn,
     Fielded, OneSlip,
              OldLines, WriteFirst, LookedAt, ToWrite, Sampling
<1>2. CASE MB!Next
  <2>1. 0 \in Nat /\ 1 \in Nat /\ 2 ^ Count \in Nat
    BY PowerAssumption
  <2> QED
    BY <1>2, <2>1, ConfigureDeviceStep, ServeStep, StartReadStep, LockForReadStep, ReadOneStep,
       ReadAnsweredStep,
       ReadTimesOutStep, ReadEndsStep, DeliveredStep, BeginConnectStep, BuildContextStep, DisconnectStep,
       ExecuteStep, LockForWriteStep, WritePointStep, WriteAnsweredStep, WriteTimesOutStep DEF MB!Next, Conn
<1> QED
  BY <1>1, <1>2

\* The invariant says what is wanted.
LEMMA ModbusKept == ASSUME ModbusInv PROVE MB!ModbusSound
<1>1. ModbusTypeOK /\ Locked /\ Counted /\ CleanLines /\ Sampling /\ ~harmed
  BY DEF ModbusInv
<1>2. DOMAIN reading.samples = 1 .. Len(reading.samples)
  <2>1. reading.samples \in Seq(Sample)
    BY <1>1 DEF ModbusTypeOK, ReadingType
  <2> QED
    BY <2>1
<1>3. MB!EveryPoint /\ MB!OwnAnswer
  BY <1>1, <1>2 DEF Sampling, MB!EveryPoint, MB!OwnAnswer
<1>4. MB!OneRequest
  <2> SUFFICES ASSUME NEW c \in Conn
               PROVE  /\ Cardinality({x \in {<<"reader", reading.on, reading.waits>>, <<"command", command.on, command.waits>>} :
                                          x[2] = c /\ x[3] # 0}) <= 1
                      /\ c \notin slipped => Len(asked[c]) + Len(answers[c]) <= 1
    BY MbCardinality DEF MB!OneRequest, Conn
  <2> DEFINE r == <<"reader", reading.on, reading.waits>>
             w == <<"command", command.on, command.waits>>
             S == {x \in {r, w} : x[2] = c /\ x[3] # 0}
  <2>1. ~(r \in S /\ w \in S)
    <3>1. reading.waits # 0 /\ command.waits # 0 => reading.on # command.on
      BY <1>1, Apart DEF Counted
    <3> QED
      BY <3>1
  <2>2. S \subseteq {r, w}
    OBVIOUS
  <2> HIDE DEF r, w, S
  <2>3. S = {} \/ S = {r} \/ S = {w}
    BY <2>1, <2>2
  <2>4. Cardinality({}) = 0 /\ Cardinality({r}) = 1 /\ Cardinality({w}) = 1
    BY FS_EmptySet, FS_Singleton
  <2>5. Cardinality(S) <= 1
    BY <2>3, <2>4
  <2> QED
    BY <1>1, <2>5 DEF CleanLines, S, r, w
<1>5. MB!WholeValue
  <2> SUFFICES ASSUME NEW p \in MB!Forms, p.typed, p.count = 0
               PROVE  2 * MB!RegisterCount(p) >= p.bytes
    BY DEF MB!WholeValue
  <2>1. p.bytes \in {0, 1, 2, 4, 8}
    BY DEF MB!Forms
  <2>2. MB!RegisterCount(p) = (p.bytes + 1) \div 2
    BY DEF MB!RegisterCount
  <2> DEFINE b == p.bytes
  <2> HIDE DEF b
  <2>3. b \in {0, 1, 2, 4, 8} => 2 * ((b + 1) \div 2) >= b
    OBVIOUS
  <2> QED
    BY <2>1, <2>2, <2>3 DEF b
<1> QED
  BY <1>1, <1>3, <1>4, <1>5 DEF MB!ModbusSound, MB!FieldOnly

\* Modbus: a read answers for each of its points with the answer to its own request (on a serial line,
\* as long as none was given up there), only the holder of the lock has a request on a connection, the
\* write of a field changes no other bit, and a typed value is read whole.
THEOREM ModbusHolds == MB!Spec => []ModbusSound
<1>1. MB!Init => ModbusInv
  BY ModbusInit
<1>2. ModbusInv /\ [MB!Next]_MB!vars => ModbusInv'
  BY ModbusStep
<1>3. ModbusInv => ModbusSound
  BY ModbusKept DEF ModbusSound
<1> QED
  BY <1>1, <1>2, <1>3, PTL DEF MB!Spec

-----------------------------------------------------------------------------
(* CANopen.                                                                *)

Bus == 1 .. MaxBuses
BusType == [handle : BOOLEAN, running : BOOLEAN]
OpType == [at : {"idle", "start", "starting", "probing", "reading", "writing"}, on : Nat, id : Nat]
QueuedType == [id : Nat, what : {"start", "probe", "upload", "download"}]
ResultType == BOOLEAN \X Nat

CanopenTypeOK ==
    /\ buses \in Seq(BusType) /\ Len(buses) <= MaxBuses
    /\ queue \in [Bus -> Seq(QueuedType)]
    /\ bus \in 0 .. Len(buses)
    /\ op \in OpType
    /\ can_answer = << >> \/ can_answer \in ResultType
    /\ samples \in Seq(ResultType)
    /\ object \in Nat /\ can_requests \in Nat /\ confirmed \in Nat
    /\ dropped \in SUBSET (1 .. Len(buses)) /\ backwards \in BOOLEAN

\* A connect is on the bus opened last, a read or a write on the bus of the connector; what is
\* waited for is the last request made.
Placed ==
    /\ op.at = "idle" => op.on = 0 /\ op.id = 0
    /\ op.at \in {"start", "starting", "probing"} =>
          op.on = Len(buses) /\ op.on # bus /\ op.on # 0
    /\ op.at \in {"reading", "writing"} => op.on = bus /\ bus # 0
    /\ op.at = "start" => op.id = 0
    /\ op.at \in {"starting", "probing", "reading", "writing"} => op.id = can_requests /\ can_requests # 0
    /\ object <= can_requests

\* Requests are queued in the order they were made.
Ascending == \A b \in Bus :
    /\ \A i \in 1 .. Len(queue[b]) : queue[b][i].id \in 1 .. can_requests
    /\ \A i, j \in 1 .. Len(queue[b]) : i < j => queue[b][i].id < queue[b][j].id

\* On a bus no request of which was given up is at most the one that is waited for.
Awaited == \A b \in Bus : b \notin dropped =>
    /\ Len(queue[b]) <= 1
    /\ \A i \in 1 .. Len(queue[b]) :
          /\ op.on = b /\ op.id = queue[b][i].id /\ can_answer = << >>
          /\ queue[b][i].what = "download" <=> op.at = "writing"

\* Requests were given up on no bus but the last.
OnLast == \A b \in dropped : b >= Len(buses)

\* Then the writes that are queued are later than the last one served, and none is queued for the
\* last bus while another is in use.
Ahead == OnLast =>
    /\ \A b \in Bus : \A i \in 1 .. Len(queue[b]) :
          queue[b][i].what = "download" => queue[b][i].id > object
    /\ bus # 0 /\ bus # Len(buses) =>
          \A i \in 1 .. Len(queue[Len(buses)]) : queue[Len(buses)][i].what # "download"

\* As long as no request was given up, the object has the value last confirmed, unless the answer to
\* a write is about to be taken.
LastWritten == dropped = {} =>
    /\ op.at # "writing" \/ can_answer = << >> => object = confirmed
    /\ op.at = "writing" /\ can_answer # << >> => object = IF can_answer[1] THEN op.id ELSE confirmed
    /\ op.at = "reading" =>
          /\ can_answer # << >> => can_answer[2] = object
          /\ \A i \in 1 .. Len(samples) : samples[i][1] => samples[i][2] = confirmed

OneHandled == \A b \in 1 .. Len(buses) : buses[b].handle =>
    b = bus \/ (op.on = b /\ op.at \in {"start", "starting", "probing"})

Ordered == backwards => ~OnLast

CanopenInv ==
    CanopenTypeOK /\ Placed /\ Ascending /\ Awaited /\ Ahead /\ LastWritten /\ OneHandled /\ Ordered

\* The buses are counted up to MaxBuses, and the bus in use is one of them.
LEMMA BusNat == ASSUME CanopenTypeOK
    PROVE  /\ Len(buses) \in Nat /\ Len(buses) \in 0 .. MaxBuses /\ bus \in Nat /\ bus <= Len(buses)
           /\ \A b \in 1 .. Len(buses) : b \in Bus
           /\ \A b \in Bus : queue[b] \in Seq(QueuedType) /\ Len(queue[b]) \in Nat
<1>1. buses \in Seq(BusType) /\ Len(buses) <= MaxBuses /\ bus \in 0 .. Len(buses)
  BY DEF CanopenTypeOK
<1>2. Len(buses) \in Nat
  BY <1>1
<1>3. \A b \in Bus : queue[b] \in Seq(QueuedType)
  BY DEF CanopenTypeOK
<1>4. \A b \in Bus : Len(queue[b]) \in Nat
  BY <1>3
<1>5. /\ Len(buses) \in 0 .. MaxBuses /\ bus \in Nat /\ bus <= Len(buses)
      /\ \A b \in 1 .. Len(buses) : b \in Bus
  BY <1>1, <1>2, CanopenAssumption DEF Bus
<1> QED
  BY <1>2, <1>3, <1>4, <1>5

\* Nothing is queued for a bus on which nobody waits, or whose can_answer is there.
LEMMA NothingQueued ==
    ASSUME CanopenInv, NEW b \in Bus, b \notin dropped, op.id = 0 \/ can_answer # << >> \/ op.on # b
    PROVE  Len(queue[b]) = 0
<1>1. CanopenTypeOK /\ Ascending /\ Awaited
  BY DEF CanopenInv
<1>2. Len(queue[b]) \in Nat
  BY <1>1, BusNat
<1>3. Len(queue[b]) <= 1 /\ \A i \in 1 .. Len(queue[b]) : op.on = b /\ op.id = queue[b][i].id /\ can_answer = << >>
  BY <1>1 DEF Awaited
<1>4. \A i \in 1 .. Len(queue[b]) : queue[b][i].id \in 1 .. can_requests
  BY <1>1 DEF Ascending
<1>5. can_requests \in Nat
  BY <1>1 DEF CanopenTypeOK
<1> DEFINE n == Len(queue[b])
<1>6. ~(1 \in 1 .. n)
  BY <1>3, <1>4, <1>5
<1> HIDE DEF n
<1>7. n \in Nat => n = 0
  BY <1>6
<1> QED
  BY <1>2, <1>7 DEF n

\* A request is the last queued for its bus, and is the one waited for.
LEMMA AsksOn ==
    ASSUME CanopenTypeOK, NEW b \in Bus, NEW what \in {"start", "probe", "upload", "download"},
           NEW at \in {"starting", "probing", "reading", "writing"}, CO!Ask(b, what, at)
    PROVE  /\ can_requests' = can_requests + 1 /\ can_requests' \in Nat /\ queue' \in [Bus -> Seq(QueuedType)]
           /\ \A c \in Bus : c # b => queue'[c] = queue[c]
           /\ Len(queue[b]) \in Nat /\ Len(queue'[b]) = Len(queue[b]) + 1
           /\ \A i \in 1 .. Len(queue[b]) : queue'[b][i] = queue[b][i]
           /\ queue'[b][Len(queue[b]) + 1].id = can_requests' /\ queue'[b][Len(queue[b]) + 1].what = what
           /\ op' \in OpType /\ op'.at = at /\ op'.on = b /\ op'.id = can_requests' /\ can_answer' = << >>
<1>0. queue \in [Bus -> Seq(QueuedType)] /\ can_requests \in Nat /\ queue[b] \in Seq(QueuedType) /\ b \in Nat
  BY DEF CanopenTypeOK, Bus
<1> DEFINE k == can_requests + 1
           x == [id |-> k, what |-> what]
<1>1. /\ can_requests' = k /\ queue' = [queue EXCEPT ![b] = Append(queue[b], x)] /\ can_answer' = << >>
      /\ op' = [at |-> at, on |-> b, id |-> k]
  BY DEF CO!Ask
<1>2. k \in Nat
  BY <1>0
<1> HIDE DEF k
<1>3. x \in QueuedType /\ x.id = k /\ x.what = what
  BY <1>2 DEF QueuedType
<1>4. op' \in OpType /\ op'.at = at /\ op'.on = b /\ op'.id = k
  BY <1>0, <1>1, <1>2 DEF OpType
<1> HIDE DEF x
<1>5. /\ Append(queue[b], x) \in Seq(QueuedType) /\ Len(queue[b]) \in Nat
      /\ Len(Append(queue[b], x)) = Len(queue[b]) + 1
      /\ \A i \in 1 .. Len(queue[b]) : Append(queue[b], x)[i] = queue[b][i]
      /\ Append(queue[b], x)[Len(queue[b]) + 1] = x
  BY <1>0, <1>3, Appending
<1>6. /\ queue' \in [Bus -> Seq(QueuedType)] /\ queue'[b] = Append(queue[b], x)
      /\ \A c \in Bus : c # b => queue'[c] = queue[c]
  BY <1>0, <1>1, <1>5
<1> QED
  BY <1>1, <1>2, <1>3, <1>4, <1>5, <1>6 DEF k

\* A request keeps the invariant where nothing is waited for, or the can_answer is there.
LEMMA AskKeeps ==
    ASSUME CanopenInv, NEW b \in 1 .. Len(buses), NEW what \in {"start", "probe", "upload", "download"},
           NEW at \in {"starting", "probing", "reading", "writing"}, CO!Ask(b, what, at),
           UNCHANGED <<buses, bus, object, confirmed, dropped, backwards>>, samples' \in Seq(ResultType),
           op.id = 0 \/ can_answer # << >>,
           \/ at \in {"starting", "probing"} /\ b = Len(buses) /\ b # bus
           \/ at \in {"reading", "writing"} /\ b = bus,
           what = "download" <=> at = "writing",
           op.at \in {"start", "starting", "probing"} => op.on = b /\ at \in {"starting", "probing"},
           dropped = {} => object = confirmed,
           dropped = {} /\ at = "reading" =>
               \A i \in 1 .. Len(samples') : samples'[i][1] => samples'[i][2] = confirmed
    PROVE  CanopenInv'
<1>1. CanopenTypeOK /\ Placed /\ Ascending /\ Awaited /\ Ahead /\ LastWritten /\ OneHandled /\ Ordered
  BY DEF CanopenInv
<1>2. /\ Len(buses) \in Nat /\ bus \in Nat /\ bus <= Len(buses) /\ b \in Bus /\ b \in Nat /\ b # 0
      /\ \A c \in Bus : Len(queue[c]) \in Nat
  BY <1>1, BusNat
<1> DEFINE n == Len(queue[b])
<1>3. /\ can_requests' = can_requests + 1 /\ can_requests' \in Nat /\ queue' \in [Bus -> Seq(QueuedType)]
      /\ \A c \in Bus : c # b => queue'[c] = queue[c]
      /\ n \in Nat /\ Len(queue'[b]) = n + 1 /\ \A i \in 1 .. n : queue'[b][i] = queue[b][i]
      /\ queue'[b][n + 1].id = can_requests' /\ queue'[b][n + 1].what = what
      /\ op' \in OpType /\ op'.at = at /\ op'.on = b /\ op'.id = can_requests' /\ can_answer' = << >>
  BY <1>1, <1>2, AsksOn
<1>4. can_requests \in Nat /\ object \in Nat /\ object <= can_requests
  BY <1>1 DEF CanopenTypeOK, Placed
<1>5. b \notin dropped => n = 0
  BY <1>2, NothingQueued
<1> HIDE DEF n
<1>6. \A i \in 1 .. Len(queue'[b]) : \/ i \in 1 .. n /\ queue'[b][i] = queue[b][i]
                                     \/ i = n + 1 /\ queue'[b][i].id = can_requests' /\ queue'[b][i].what = what
  <2>1. n \in Nat /\ Len(queue'[b]) = n + 1
    BY <1>3
  <2>2. \A i \in 1 .. Len(queue'[b]) : i \in 1 .. n \/ i = n + 1
    BY <2>1
  <2> QED
    BY <1>3, <2>2
<1>7. CanopenTypeOK'
  BY <1>1, <1>3 DEF CanopenTypeOK
<1>8. Placed'
  BY <1>2, <1>3, <1>4 DEF Placed
<1>9. Ascending'
  <2> SUFFICES ASSUME NEW c \in Bus
               PROVE  /\ \A i \in 1 .. Len(queue'[c]) : queue'[c][i].id \in 1 .. can_requests'
                      /\ \A i, j \in 1 .. Len(queue'[c]) : i < j => queue'[c][i].id < queue'[c][j].id
    BY DEF Ascending
  <2>1. /\ \A i \in 1 .. Len(queue[c]) : queue[c][i].id \in 1 .. can_requests
        /\ \A i, j \in 1 .. Len(queue[c]) : i < j => queue[c][i].id < queue[c][j].id
    BY <1>1 DEF Ascending
  <2>2. 1 .. can_requests \subseteq 1 .. can_requests' /\ can_requests' \in 1 .. can_requests' /\ \A k \in 1 .. can_requests : k < can_requests'
    BY <1>3, <1>4
  <2>3. CASE c # b
    BY <1>3, <2>1, <2>2, <2>3
  <2>4. CASE c = b
    <3>1. \A i \in 1 .. Len(queue'[b]) : queue'[b][i].id \in 1 .. can_requests'
      BY <1>6, <2>1, <2>2, <2>4 DEF n
    <3> SUFFICES ASSUME NEW i \in 1 .. Len(queue'[b]), NEW j \in 1 .. Len(queue'[b]), i < j
                 PROVE  queue'[b][i].id < queue'[b][j].id
      BY <2>4, <3>1
    <3>2. i \in 1 .. n /\ queue'[b][i] = queue[b][i]
      <4>1. n \in Nat /\ Len(queue'[b]) = n + 1
        BY <1>3
      <4>2. i # n + 1
        BY <4>1
      <4> QED
        BY <1>6, <4>2
    <3>3. CASE j \in 1 .. n /\ queue'[b][j] = queue[b][j]
      BY <2>1, <2>4, <3>2, <3>3 DEF n
    <3>4. CASE queue'[b][j].id = can_requests'
      <4>1. queue[b][i].id \in 1 .. can_requests
        BY <2>1, <2>4, <3>2 DEF n
      <4> QED
        BY <2>2, <3>2, <3>4, <4>1
    <3> QED
      BY <1>6, <3>3, <3>4
  <2> QED
    BY <2>3, <2>4
<1>10. Awaited'
  <2> SUFFICES ASSUME NEW c \in Bus, c \notin dropped
               PROVE  /\ Len(queue'[c]) <= 1
                      /\ \A i \in 1 .. Len(queue'[c]) :
                            /\ op'.on = c /\ op'.id = queue'[c][i].id /\ can_answer' = << >>
                            /\ queue'[c][i].what = "download" <=> op'.at = "writing"
    BY DEF Awaited
  <2>1. CASE c # b
    <3>1. op.id = 0 \/ can_answer # << >> => Len(queue[c]) = 0
      BY NothingQueued
    <3>2. Len(queue'[c]) = 0
      BY <1>3, <2>1, <3>1
    <3> QED
      BY <3>2
  <2>2. CASE c = b
    <3>1. n = 0 /\ Len(queue'[b]) = 1
      BY <1>3, <1>5, <2>2
    <3>2. \A i \in 1 .. Len(queue'[b]) : queue'[b][i].id = can_requests' /\ queue'[b][i].what = what
      BY <1>6, <3>1
    <3>3. /\ op'.on = b /\ op'.id = can_requests' /\ can_answer' = << >> /\ op'.at = at
          /\ what = "download" <=> at = "writing"
      BY <1>3
    <3>4. \A i \in 1 .. Len(queue'[b]) : queue'[b][i].what = "download" <=> op'.at = "writing"
      <4>1. CASE what = "download"
        BY <3>2, <3>3, <4>1
      <4>2. CASE what # "download"
        BY <3>2, <3>3, <4>2
      <4> QED
        BY <4>1, <4>2
    <3> QED
      BY <2>2, <3>1, <3>2, <3>3, <3>4
  <2> QED
    BY <2>1, <2>2
<1>11. Ahead'
  <2> SUFFICES ASSUME OnLast
               PROVE  /\ \A c \in Bus : \A i \in 1 .. Len(queue'[c]) :
                            queue'[c][i].what = "download" => queue'[c][i].id > object
                      /\ bus # 0 /\ bus # Len(buses) =>
                            \A i \in 1 .. Len(queue'[Len(buses)]) : queue'[Len(buses)][i].what # "download"
    BY DEF Ahead, OnLast
  <2>1. /\ \A c \in Bus : \A i \in 1 .. Len(queue[c]) :
              queue[c][i].what = "download" => queue[c][i].id > object
        /\ bus # 0 /\ bus # Len(buses) =>
              \A i \in 1 .. Len(queue[Len(buses)]) : queue[Len(buses)][i].what # "download"
    BY <1>1 DEF Ahead
  <2>2. ASSUME NEW c \in Bus, NEW i \in 1 .. Len(queue'[c]), queue'[c][i].what = "download"
        PROVE  queue'[c][i].id > object
    <3>1. CASE c # b
      BY <1>3, <2>1, <2>2, <3>1
    <3>2. CASE c = b /\ i \in 1 .. n /\ queue'[b][i] = queue[b][i]
      BY <2>1, <2>2, <3>2 DEF n
    <3>3. CASE c = b /\ queue'[b][i].id = can_requests'
      BY <1>3, <1>4, <3>3
    <3> QED
      BY <1>6, <3>1, <3>2, <3>3
  <2>3. ASSUME bus # 0, bus # Len(buses), NEW i \in 1 .. Len(queue'[Len(buses)])
        PROVE  queue'[Len(buses)][i].what # "download"
    <3>1. CASE b # Len(buses)
      <4>1. Len(buses) \in Bus
        BY <1>1, <1>2, <2>3, BusNat
      <4> QED
        BY <1>3, <2>1, <2>3, <3>1, <4>1
    <3>2. CASE b = Len(buses)
      <4>1. what # "download"
        BY <2>3, <3>2
      <4> QED
        BY <1>6, <2>1, <2>3, <3>2, <4>1 DEF n
    <3> QED
      BY <3>1, <3>2
  <2> QED
    BY <2>2, <2>3
<1>12. LastWritten'
  BY <1>3 DEF LastWritten
<1>13. OneHandled'
  BY <1>1, <1>3 DEF OneHandled
<1>14. Ordered'
  BY <1>1 DEF Ordered, OnLast
<1> QED
  BY <1>7, <1>8, <1>9, <1>10, <1>11, <1>12, <1>13, <1>14 DEF CanopenInv

\* What the actions that make a request have in common.
LEMMA AskingSteps ==
    ASSUME CanopenInv, CO!StartAll \/ CO!Probe \/ CO!Read \/ CO!Execute
    PROVE  CanopenInv'
<1>1. CanopenTypeOK /\ Placed /\ LastWritten
  BY DEF CanopenInv
<1>2. /\ Len(buses) \in Nat /\ bus \in Nat /\ bus <= Len(buses) /\ samples \in Seq(ResultType)
  BY <1>1, BusNat DEF CanopenTypeOK
<1>3. op.at \in {"start", "starting"} => op.on \in 1 .. Len(buses) /\ op.on = Len(buses) /\ op.on # bus
  BY <1>1, <1>2 DEF Placed
<1>4. op.at # "writing" /\ dropped = {} => object = confirmed
  BY <1>1 DEF LastWritten
<1>5. op = CO!Idle => op.id = 0 /\ op.at = "idle"
  BY DEF CO!Idle
<1>6. bus # 0 => bus \in 1 .. Len(buses)
  BY <1>2
<1>7. CASE CO!StartAll
  <2>1. /\ op.at = "start" /\ CO!Ask(op.on, "start", "starting")
        /\ UNCHANGED <<buses, bus, samples, object, can_faults, confirmed, dropped, backwards>>
    BY <1>7 DEF CO!StartAll
  <2>2. op.id = 0
    BY <1>1, <2>1 DEF Placed
  <2> QED
    BY <1>2, <1>3, <1>4, <2>1, <2>2, AskKeeps
<1>8. CASE CO!Probe
  <2>1. /\ op.at = "starting" /\ can_answer # << >> /\ CO!Ask(op.on, "probe", "probing")
        /\ UNCHANGED <<buses, bus, samples, object, can_faults, confirmed, dropped, backwards>>
    BY <1>8 DEF CO!Probe
  <2> QED
    BY <1>2, <1>3, <1>4, <2>1, AskKeeps
<1>9. CASE CO!Read
  <2>1. /\ op = CO!Idle /\ bus # 0 /\ samples' = << >> /\ CO!Ask(bus, "upload", "reading")
        /\ UNCHANGED <<buses, bus, object, can_faults, confirmed, dropped, backwards>>
    BY <1>9 DEF CO!Read
  <2>2. samples' \in Seq(ResultType) /\ \A i \in 1 .. Len(samples') : FALSE
    BY <2>1
  <2> QED
    BY <1>2, <1>4, <1>5, <1>6, <2>1, <2>2, AskKeeps
<1>10. CASE CO!Execute
  <2>1. /\ op = CO!Idle /\ bus # 0 /\ CO!Ask(bus, "download", "writing")
        /\ UNCHANGED <<buses, bus, samples, object, can_faults, confirmed, dropped, backwards>>
    BY <1>10 DEF CO!Execute
  <2> QED
    BY <1>2, <1>4, <1>5, <1>6, <2>1, AskKeeps
<1> QED
  BY <1>7, <1>8, <1>9, <1>10

\* The samples so far, and one more.
LEMMA ReadOnStep == ASSUME CanopenInv, CO!ReadOn PROVE CanopenInv'
<1>1. CanopenTypeOK /\ Placed /\ Ascending /\ Awaited /\ Ahead /\ LastWritten /\ OneHandled /\ Ordered
  BY DEF CanopenInv
<1>2. /\ op.at = "reading" /\ can_answer # << >> /\ samples' = Append(samples, can_answer)
      /\ UNCHANGED <<buses, bus, object, can_faults, confirmed, dropped, backwards>>
  BY DEF CO!ReadOn
<1>3. /\ Len(buses) \in Nat /\ bus \in Nat /\ bus <= Len(buses) /\ samples \in Seq(ResultType)
      /\ can_answer \in ResultType /\ op.on = bus /\ bus # 0 /\ bus \in 1 .. Len(buses)
  BY <1>1, <1>2, BusNat DEF CanopenTypeOK, Placed
<1>4. /\ samples' \in Seq(ResultType) /\ Len(samples) \in Nat /\ Len(samples') = Len(samples) + 1
      /\ \A i \in 1 .. Len(samples) : samples'[i] = samples[i]
      /\ samples'[Len(samples) + 1] = can_answer
  BY <1>2, <1>3, Appending
<1>5. dropped = {} => \A i \in 1 .. Len(samples') : samples'[i][1] => samples'[i][2] = confirmed
  <2> DEFINE n == Len(samples)
  <2>1. n \in Nat /\ Len(samples') = n + 1
    BY <1>4
  <2> HIDE DEF n
  <2>2. \A i \in 1 .. Len(samples') : i \in 1 .. n \/ i = n + 1
    BY <2>1
  <2>3. /\ \A i \in 1 .. n : samples'[i] = samples[i]
        /\ samples'[n + 1] = can_answer
    BY <1>4 DEF n
  <2>4. dropped = {} => /\ can_answer[2] = object /\ object = confirmed
                        /\ \A i \in 1 .. n : samples[i][1] => samples[i][2] = confirmed
    BY <1>1, <1>2 DEF LastWritten, n
  <2> QED
    BY <2>2, <2>3, <2>4
<1>6. dropped = {} => object = confirmed
  BY <1>1, <1>2 DEF LastWritten
<1>7. CASE CO!Ask(bus, "upload", "reading")
  BY <1>2, <1>3, <1>4, <1>5, <1>6, <1>7, AskKeeps
<1>8. CASE op' = CO!Idle /\ UNCHANGED <<queue, can_requests, can_answer>>
  <2>1. op'.at = "idle" /\ op'.on = 0 /\ op'.id = 0 /\ op' \in OpType
    BY <1>8 DEF CO!Idle, OpType
  <2>2. CanopenTypeOK'
    BY <1>1, <1>2, <1>4, <1>8, <2>1 DEF CanopenTypeOK
  <2>3. Placed'
    BY <1>1, <1>2, <1>8, <2>1 DEF Placed
  <2>4. Awaited'
    <3>1. \A b \in Bus : b \notin dropped => Len(queue[b]) = 0
      BY <1>2, NothingQueued
    <3> QED
      BY <1>2, <1>8, <3>1 DEF Awaited
  <2>5. Ascending' /\ Ahead'
    BY <1>1, <1>2, <1>8 DEF Ascending, Ahead, OnLast
  <2>6. LastWritten'
    BY <1>2, <1>6, <1>8, <2>1 DEF LastWritten
  <2>7. OneHandled' /\ Ordered'
    BY <1>1, <1>2, <1>8, <2>1 DEF OneHandled, Ordered, OnLast
  <2> QED
    BY <2>2, <2>3, <2>4, <2>5, <2>6, <2>7 DEF CanopenInv
<1> QED
  BY <1>7, <1>8 DEF CO!ReadOn

\* Releasing a bus takes its handle and nothing else.
LEMMA ReleasedType == ASSUME CanopenTypeOK, NEW b \in Nat
    PROVE  /\ CO!Released(b) \in Seq(BusType) /\ Len(CO!Released(b)) = Len(buses)
           /\ \A i \in 1 .. Len(buses) : CO!Released(b)[i].handle => buses[i].handle /\ i # b
<1>1. buses \in Seq(BusType)
  BY DEF CanopenTypeOK
<1>2. Len(buses) \in Nat /\ DOMAIN buses = 1 .. Len(buses) /\ \A i \in 1 .. Len(buses) : buses[i] \in BusType
  BY <1>1
<1>3. \A i \in 1 .. Len(buses) : [buses[i] EXCEPT !.handle = FALSE] \in BusType /\ ~[buses[i] EXCEPT !.handle = FALSE].handle
  BY <1>2 DEF BusType
<1> DEFINE rel(i) == IF i = b THEN [buses[i] EXCEPT !.handle = FALSE] ELSE buses[i]
           n == Len(buses)
<1>4. \A i \in 1 .. n : rel(i) \in BusType /\ (rel(i).handle => buses[i].handle /\ i # b)
  BY <1>2, <1>3
<1>5. CO!Released(b) = [i \in 1 .. n |-> rel(i)] /\ n \in Nat
  BY <1>2 DEF CO!Released
<1> HIDE DEF rel, n
<1>6. [i \in 1 .. n |-> rel(i)] \in Seq(BusType) /\ Len([i \in 1 .. n |-> rel(i)]) = n
  BY <1>4, <1>5
<1> QED
  BY <1>4, <1>5, <1>6 DEF n

\* The actions that make no request and serve none.
LEMMA OpenStep == ASSUME CanopenInv, CO!Open PROVE CanopenInv'
<1>1. CanopenTypeOK /\ Placed /\ Ascending /\ Awaited /\ Ahead /\ LastWritten /\ OneHandled /\ Ordered
  BY DEF CanopenInv
<1> DEFINE x == [handle |-> TRUE, running |-> TRUE]
           n == Len(buses)
<1>2. /\ op = CO!Idle /\ Len(buses) < MaxBuses /\ buses' = Append(buses, x)
      /\ op' = [at |-> "start", on |-> n + 1, id |-> 0]
      /\ UNCHANGED <<queue, bus, can_answer, samples, object, can_requests, can_faults, confirmed, dropped, backwards>>
  BY DEF CO!Open
<1>3. x \in BusType
  BY DEF BusType
<1>4. op.at = "idle" /\ op.on = 0 /\ op.id = 0
  BY <1>2 DEF CO!Idle
<1>5. n \in Nat /\ bus \in Nat /\ bus <= n
  BY <1>1, BusNat
<1> HIDE DEF x
<1>6. /\ buses' \in Seq(BusType) /\ Len(buses') = n + 1
      /\ \A i \in 1 .. n : buses'[i] = buses[i]
  <2>1. buses \in Seq(BusType)
    BY <1>1 DEF CanopenTypeOK
  <2> QED
    BY <1>2, <1>3, <2>1, Appending
<1>6a. n < MaxBuses /\ op' = [at |-> "start", on |-> n + 1, id |-> 0]
  BY <1>2
<1>6b. dropped \in SUBSET (1 .. n)
  BY <1>1 DEF CanopenTypeOK
<1> HIDE DEF n
<1> DEFINE k == n + 1
<1>7. k \in Nat /\ k # 0 /\ k # bus /\ k <= MaxBuses /\ bus \in 0 .. k /\ 1 .. n \subseteq 1 .. k
  BY <1>5, <1>6a, CanopenAssumption
<1>8. op' \in OpType /\ op'.at = "start" /\ op'.on = k /\ op'.id = 0 /\ Len(buses') = k
  <2> HIDE DEF k
  <2>1. op' = [at |-> "start", on |-> k, id |-> 0] /\ Len(buses') = k
    BY <1>6, <1>6a DEF k
  <2> QED
    BY <1>7, <2>1 DEF OpType
<1> HIDE DEF k
<1>9. CanopenTypeOK'
  <2>1. dropped' \in SUBSET (1 .. k)
    BY <1>2, <1>6b, <1>7
  <2> QED
    BY <1>1, <1>2, <1>6, <1>7, <1>8, <2>1 DEF CanopenTypeOK
<1>10. Placed'
  BY <1>1, <1>2, <1>7, <1>8 DEF Placed
<1>11. Ascending'
  BY <1>1, <1>2 DEF Ascending
<1>12. Awaited'
  <2>1. \A b \in Bus : b \notin dropped => Len(queue[b]) = 0
    BY <1>4, NothingQueued
  <2> QED
    BY <1>2, <2>1 DEF Awaited
<1>13. ASSUME OnLast' PROVE OnLast /\ dropped = {}
  <2>1. \A b \in dropped : b >= k /\ b \in 1 .. n
    BY <1>2, <1>6b, <1>8, <1>13 DEF OnLast
  <2>2. dropped = {}
    BY <1>5, <2>1 DEF k
  <2> QED
    BY <2>2 DEF OnLast
<1>14. Ahead'
  <2>1. ASSUME dropped = {}, k \in Bus PROVE Len(queue[k]) = 0
    BY <1>4, <2>1, NothingQueued
  <2>2. k \in Bus
    BY <1>7 DEF Bus
  <2>3. OnLast' => /\ \A b \in Bus : \A i \in 1 .. Len(queue[b]) :
                         queue[b][i].what = "download" => queue[b][i].id > object
                   /\ Len(queue[k]) = 0
    BY <1>1, <1>13, <2>1, <2>2 DEF Ahead
  <2> QED
    BY <1>2, <1>8, <2>3 DEF Ahead
<1>15. LastWritten'
  BY <1>1, <1>2, <1>4, <1>8 DEF LastWritten
<1>16. OneHandled'
  <2>1. \A b \in 1 .. n : buses[b].handle => b = bus
    BY <1>1, <1>4 DEF OneHandled, n
  <2>2. \A b \in 1 .. k : b \in 1 .. n \/ b = k
    BY <1>5 DEF k
  <2> QED
    BY <1>2, <1>6, <1>8, <2>1, <2>2 DEF OneHandled
<1>17. Ordered'
  BY <1>1, <1>2, <1>13 DEF Ordered
<1> QED
  BY <1>9, <1>10, <1>11, <1>12, <1>14, <1>15, <1>16, <1>17 DEF CanopenInv

\* Steps that leave the queues and the object alone: what may change is who waits, and which buses have
\* a handle.
LEMMA QuietKeeps ==
    ASSUME CanopenInv, UNCHANGED <<queue, can_answer, samples, object, can_requests, backwards>>,
           buses' \in Seq(BusType), Len(buses') = Len(buses), bus' \in 0 .. Len(buses), op' = CO!Idle,
           confirmed' \in Nat, dropped' \in SUBSET (1 .. Len(buses)), dropped \subseteq dropped',
           \A b \in Bus : b \notin dropped' => Len(queue[b]) = 0,
           dropped' = {} => object = confirmed',
           bus' \in {0, bus, Len(buses)},
           \A b \in 1 .. Len(buses) : buses'[b].handle => b = bus'
    PROVE  CanopenInv'
<1>1. CanopenTypeOK /\ Placed /\ Ascending /\ Awaited /\ Ahead /\ LastWritten /\ OneHandled /\ Ordered
  BY DEF CanopenInv
<1>2. op'.at = "idle" /\ op'.on = 0 /\ op'.id = 0 /\ op' \in OpType
  BY DEF CO!Idle, OpType
<1>3. CanopenTypeOK'
  BY <1>1, <1>2 DEF CanopenTypeOK
<1>4. Placed'
  BY <1>1, <1>2 DEF Placed
<1>5. Ascending'
  BY <1>1 DEF Ascending
<1>6. Awaited'
  BY DEF Awaited
<1>7. OnLast' => OnLast
  BY DEF OnLast
<1>8. Ahead'
  BY <1>1, <1>7 DEF Ahead
<1>9. LastWritten'
  BY <1>2 DEF LastWritten
<1>10. OneHandled'
  BY DEF OneHandled
<1>11. Ordered'
  BY <1>1, <1>7 DEF Ordered
<1> QED
  BY <1>3, <1>4, <1>5, <1>6, <1>8, <1>9, <1>10, <1>11 DEF CanopenInv

\* The ends of operations.
LEMMA QuietSteps ==
    ASSUME CanopenInv, CO!Connected \/ CO!Disconnect \/ CO!Executed \/ CO!GiveUp
    PROVE  CanopenInv'
<1>1. CanopenTypeOK /\ Placed /\ Awaited /\ LastWritten /\ OneHandled
  BY DEF CanopenInv
<1>2. /\ Len(buses) \in Nat /\ bus \in Nat /\ bus <= Len(buses) /\ bus \in 0 .. Len(buses)
      /\ buses \in Seq(BusType) /\ confirmed \in Nat /\ dropped \in SUBSET (1 .. Len(buses))
      /\ op.on \in Nat /\ op.id \in Nat
  BY <1>1, BusNat DEF CanopenTypeOK, OpType
<1>3. can_answer # << >> \/ op.id = 0 => \A b \in Bus : b \notin dropped => Len(queue[b]) = 0
  BY NothingQueued
<1>4. CASE CO!Connected
  <2>1. /\ op.at = "probing" /\ can_answer # << >> /\ buses' = CO!Released(bus) /\ bus' = op.on /\ op' = CO!Idle
        /\ UNCHANGED <<queue, can_answer, samples, object, can_requests, can_faults, confirmed, dropped, backwards>>
    BY <1>4 DEF CO!Connected
  <2>2. op.on = Len(buses) /\ op.on \in 0 .. Len(buses)
    BY <1>1, <1>2, <2>1 DEF Placed
  <2>3. /\ buses' \in Seq(BusType) /\ Len(buses') = Len(buses)
        /\ \A b \in 1 .. Len(buses) : buses'[b].handle => buses[b].handle /\ b # bus
    BY <1>1, <1>2, <2>1, ReleasedType
  <2>4. \A b \in 1 .. Len(buses) : buses'[b].handle => b = bus'
    BY <1>1, <2>1, <2>3 DEF OneHandled
  <2>5. dropped = {} => object = confirmed
    BY <1>1, <2>1 DEF LastWritten
  <2> QED
    BY <1>2, <1>3, <2>1, <2>2, <2>3, <2>4, <2>5, QuietKeeps
<1>5. CASE CO!Disconnect
  <2>1. /\ op = CO!Idle /\ buses' = CO!Released(bus) /\ bus' = 0
        /\ UNCHANGED <<queue, op, can_answer, samples, object, can_requests, can_faults, confirmed, dropped, backwards>>
    BY <1>5 DEF CO!Disconnect
  <2>2. op.at = "idle" /\ op.id = 0 /\ op' = CO!Idle
    BY <2>1 DEF CO!Idle
  <2>3. /\ buses' \in Seq(BusType) /\ Len(buses') = Len(buses)
        /\ \A b \in 1 .. Len(buses) : buses'[b].handle => buses[b].handle /\ b # bus
    BY <1>1, <1>2, <2>1, ReleasedType
  <2>4. \A b \in 1 .. Len(buses) : buses'[b].handle => b = bus'
    BY <1>1, <2>2, <2>3 DEF OneHandled
  <2>5. dropped = {} => object = confirmed
    BY <1>1, <2>2 DEF LastWritten
  <2>6. 0 \in 0 .. Len(buses)
    BY <1>2
  <2> QED
    BY <1>2, <1>3, <2>1, <2>2, <2>3, <2>4, <2>5, <2>6, QuietKeeps
<1>6. CASE CO!Executed
  <2>1. /\ op.at = "writing" /\ can_answer # << >> /\ op' = CO!Idle
        /\ confirmed' = IF can_answer[1] THEN op.id ELSE confirmed
        /\ UNCHANGED <<buses, queue, bus, can_answer, samples, object, can_requests, can_faults, dropped, backwards>>
    BY <1>6 DEF CO!Executed
  <2>2. \A b \in 1 .. Len(buses) : buses'[b].handle => b = bus'
    BY <1>1, <2>1 DEF OneHandled
  <2>3. dropped = {} => object = confirmed'
    BY <1>1, <2>1 DEF LastWritten
  <2>4. confirmed' \in Nat
    BY <1>2, <2>1
  <2> QED
    BY <1>2, <1>3, <2>1, <2>2, <2>3, <2>4, QuietKeeps
<1>7. CASE CO!GiveUp
  <2>1. /\ op # CO!Idle /\ op' = CO!Idle /\ dropped' = dropped \union {op.on}
        /\ buses' = IF op.at \in {"start", "starting", "probing"} THEN CO!Released(op.on) ELSE buses
        /\ UNCHANGED <<queue, bus, can_answer, samples, object, can_requests, can_faults, confirmed, backwards>>
    BY <1>7 DEF CO!GiveUp
  <2>2. op.at # "idle" /\ op.at \in {"idle", "start", "starting", "probing", "reading", "writing"}
    <3>1. op \in OpType
      BY <1>1 DEF CanopenTypeOK
    <3>2. op = [at |-> op.at, on |-> op.on, id |-> op.id]
      BY <3>1 DEF OpType
    <3>3. op.at = "idle" => op = CO!Idle
      BY <1>1, <3>2 DEF Placed, CO!Idle
    <3> QED
      BY <2>1, <3>1, <3>3 DEF OpType
  <2>3. op.on \in 1 .. Len(buses)
    BY <1>1, <1>2, <2>2 DEF Placed
  <2>4. dropped' \in SUBSET (1 .. Len(buses)) /\ dropped \subseteq dropped' /\ dropped' # {}
    BY <1>2, <2>1, <2>3
  <2>5. \A b \in Bus : b \notin dropped' => Len(queue[b]) = 0
    BY <2>1, NothingQueued
  <2>6. CASE op.at \in {"start", "starting", "probing"}
    <3>1. /\ buses' \in Seq(BusType) /\ Len(buses') = Len(buses)
          /\ \A b \in 1 .. Len(buses) : buses'[b].handle => buses[b].handle /\ b # op.on
      BY <1>1, <1>2, <2>1, <2>6, ReleasedType
    <3>2. \A b \in 1 .. Len(buses) : buses'[b].handle => b = bus'
      BY <1>1, <2>1, <3>1 DEF OneHandled
    <3> QED
      BY <1>2, <2>1, <2>4, <2>5, <3>1, <3>2, QuietKeeps
  <2>7. CASE op.at \in {"reading", "writing"}
    <3>1. buses' = buses /\ \A b \in 1 .. Len(buses) : buses'[b].handle => b = bus'
      BY <1>1, <2>1, <2>7 DEF OneHandled
    <3> QED
      BY <1>2, <2>1, <2>4, <2>5, <3>1, QuietKeeps
  <2> QED
    BY <2>2, <2>6, <2>7
<1> QED
  BY <1>4, <1>5, <1>6, <1>7

\* A thread that ends has nothing queued.
LEMMA EndsStep == ASSUME CanopenInv, NEW b \in 1 .. Len(buses), CO!Ends(b) PROVE CanopenInv'
<1>1. CanopenTypeOK /\ Placed /\ Ascending /\ Awaited /\ Ahead /\ LastWritten /\ OneHandled /\ Ordered
  BY DEF CanopenInv
<1>2. /\ buses' = [buses EXCEPT ![b].running = FALSE]
      /\ UNCHANGED <<queue, bus, op, can_answer, samples, object, can_requests, can_faults, confirmed, dropped, backwards>>
  BY DEF CO!Ends
<1>3. buses \in Seq(BusType) /\ Len(buses) \in Nat /\ buses[b] \in BusType
  <2>1. buses \in Seq(BusType)
    BY <1>1 DEF CanopenTypeOK
  <2> QED
    BY <2>1
<1> DEFINE x == [buses[b] EXCEPT !.running = FALSE]
<1>4. x \in BusType /\ x.handle = buses[b].handle
  BY <1>3 DEF BusType
<1>5. buses' = [buses EXCEPT ![b] = x]
  BY <1>2
<1> HIDE DEF x
<1>6. /\ buses' \in Seq(BusType) /\ Len(buses') = Len(buses)
      /\ \A i \in 1 .. Len(buses) : buses'[i].handle = buses[i].handle
  BY <1>3, <1>4, <1>5
<1>7. CanopenTypeOK' /\ Placed' /\ OneHandled'
  BY <1>1, <1>2, <1>6 DEF CanopenTypeOK, Placed, OneHandled
<1>8. Ascending' /\ Awaited' /\ LastWritten'
  BY <1>1, <1>2 DEF Ascending, Awaited, LastWritten
<1>9. Ahead' /\ Ordered'
  BY <1>1, <1>2, <1>6 DEF Ahead, Ordered, OnLast
<1> QED
  BY <1>7, <1>8, <1>9 DEF CanopenInv

\* Without the first request of a queue.
LEMMA Removed ==
    ASSUME NEW S, NEW s \in Seq(S), s # << >>
    PROVE  LET t == SubSeq(s, 1, 1 - 1) \o SubSeq(s, 1 + 1, Len(s))
           IN /\ t \in Seq(S) /\ Len(s) \in Nat \ {0} /\ Len(t) = Len(s) - 1
              /\ \A i \in 1 .. Len(s) - 1 : t[i] = s[i + 1]
              /\ s[1] \in S
<1>1. Len(s) \in Nat \ {0} /\ s[1] \in S
  OBVIOUS
<1>2. /\ SubSeq(s, 2, Len(s)) \in Seq(S) /\ Len(SubSeq(s, 2, Len(s))) = Len(s) - 1
      /\ \A i \in 1 .. Len(s) - 1 : SubSeq(s, 2, Len(s))[i] = s[i + 1]
  <2> DEFINE n == Len(s)
  <2>1. n \in Nat \ {0} /\ \A i \in 1 .. n : s[i] \in S
    BY <1>1
  <2> HIDE DEF n
  <2>2. Len(SubSeq(s, 2, n)) = n - 1
    BY <2>1
  <2>3. \A i \in 1 .. n - 1 : SubSeq(s, 2, n)[i] = s[i + 1]
    BY <2>1
  <2>4. SubSeq(s, 2, n) \in Seq(S)
    BY <2>1
  <2> QED
    BY <2>2, <2>3, <2>4 DEF n
<1>3. SubSeq(s, 1, 0) \in Seq(S) /\ Len(SubSeq(s, 1, 0)) = 0
  BY <1>1
<1> DEFINE u == SubSeq(s, 2, Len(s))
           e == SubSeq(s, 1, 0)
           n == Len(s)
<1>4. u \in Seq(S) /\ e \in Seq(S) /\ Len(e) = 0 /\ Len(u) = n - 1 /\ n \in Nat \ {0}
  BY <1>1, <1>2, <1>3
<1>5. \A i \in 1 .. n - 1 : u[i] = s[i + 1]
  BY <1>2
<1> HIDE DEF u, e, n
<1>6. e \o u \in Seq(S) /\ Len(e \o u) = n - 1 /\ \A i \in 1 .. n - 1 : (e \o u)[i] = u[i]
  BY <1>4
<1>7. 1 - 1 = 0 /\ 1 + 1 = 2
  OBVIOUS
<1> QED
  BY <1>1, <1>4, <1>5, <1>6, <1>7 DEF u, e, n

\* Where can_requests were given up on the last bus only, writes are queued for one bus.
LEMMA OneWriter ==
    ASSUME CanopenInv, OnLast, NEW b \in Bus, NEW c \in Bus,
           NEW i \in 1 .. Len(queue[b]), NEW j \in 1 .. Len(queue[c]),
           queue[b][i].what = "download", queue[c][j].what = "download"
    PROVE  b = c
<1>1. CanopenTypeOK /\ Placed /\ Awaited /\ Ahead
  BY DEF CanopenInv
<1> DEFINE n == Len(buses)
<1>2. n \in Nat /\ bus \in Nat /\ bus <= n /\ dropped \in SUBSET (1 .. n) /\ \A d \in dropped : d >= n
  BY <1>1, BusNat DEF CanopenTypeOK, OnLast
<1>3. ASSUME NEW d \in Bus, NEW k \in 1 .. Len(queue[d]), queue[d][k].what = "download"
      PROVE  d = n \/ (d = bus /\ bus # 0)
  <2>1. CASE d \in dropped
    BY <1>2, <2>1 DEF Bus
  <2>2. CASE d \notin dropped
    <3>1. op.on = d /\ op.at = "writing"
      BY <1>1, <1>3, <2>2 DEF Awaited
    <3> QED
      BY <1>1, <3>1 DEF Placed
  <2> QED
    BY <2>1, <2>2
<1>4. (b = n \/ (b = bus /\ bus # 0)) /\ (c = n \/ (c = bus /\ bus # 0))
  BY <1>3
<1>5. bus # 0 /\ bus # n => \A k \in 1 .. Len(queue[n]) : queue[n][k].what # "download"
  BY <1>1 DEF Ahead
<1> QED
  BY <1>4, <1>5

\* The thread serves the first request of its queue, given up or not.
LEMMA ServeBusStep == ASSUME CanopenInv, NEW b \in 1 .. Len(buses), CO!Serve(b) PROVE CanopenInv'
<1>1. CanopenTypeOK /\ Placed /\ Ascending /\ Awaited /\ Ahead /\ LastWritten /\ OneHandled /\ Ordered
  BY DEF CanopenInv
<1> DEFINE request == queue[b][1]
           left == SubSeq(queue[b], 1, 1 - 1) \o SubSeq(queue[b], 1 + 1, Len(queue[b]))
<1>2. PICK ok \in BOOLEAN :
        /\ queue' = [queue EXCEPT ![b] = left]
        /\ object' = IF ok /\ request.what = "download" THEN request.id ELSE object
        /\ backwards' = (backwards \/ (ok /\ request.what = "download" /\ request.id < object))
        /\ can_answer' = IF op.on = b /\ op.id = request.id THEN <<ok, object'>> ELSE can_answer
  BY DEF CO!Serve, CO!Served
<1>3. queue[b] # << >> /\ UNCHANGED <<buses, bus, op, samples, can_requests, confirmed, dropped>>
  BY DEF CO!Serve
<1>4. b \in Bus /\ queue \in [Bus -> Seq(QueuedType)] /\ queue[b] \in Seq(QueuedType)
  BY <1>1, BusNat DEF CanopenTypeOK
<1>5. /\ left \in Seq(QueuedType) /\ Len(queue[b]) \in Nat \ {0} /\ Len(left) = Len(queue[b]) - 1
      /\ \A i \in 1 .. Len(queue[b]) - 1 : left[i] = queue[b][i + 1]
      /\ request \in QueuedType
  BY <1>3, <1>4, Removed
<1> HIDE DEF left
<1> DEFINE n == Len(queue[b])
<1>6. /\ queue' \in [Bus -> Seq(QueuedType)] /\ (\A c \in Bus : c # b => queue'[c] = queue[c])
      /\ n \in Nat \ {0} /\ Len(queue'[b]) = n - 1 /\ (\A i \in 1 .. n - 1 : queue'[b][i] = queue[b][i + 1])
  <2>1. /\ queue' \in [Bus -> Seq(QueuedType)] /\ (\A c \in Bus : c # b => queue'[c] = queue[c])
        /\ queue'[b] = left
    BY <1>2, <1>4, <1>5
  <2> QED
    BY <1>5, <2>1
<1>7. request.id \in Nat /\ object \in Nat /\ can_requests \in Nat /\ confirmed \in Nat
  BY <1>1, <1>5 DEF QueuedType, CanopenTypeOK
<1>8. request = queue[b][1] /\ 1 \in 1 .. n
  BY <1>6
<1>8a. request.id \in 1 .. can_requests
  BY <1>1, <1>4, <1>8 DEF Ascending
<1> HIDE DEF request, n
<1>9. \A i \in 1 .. Len(queue'[b]) : /\ i + 1 \in 1 .. n /\ 1 < i + 1 /\ queue'[b][i] = queue[b][i + 1]
  <2>1. n \in Nat \ {0} /\ Len(queue'[b]) = n - 1
    BY <1>6
  <2>2. \A i \in 1 .. n - 1 : queue'[b][i] = queue[b][i + 1]
    BY <1>6
  <2>3. \A i \in 1 .. n - 1 : i + 1 \in 1 .. n /\ 1 < i + 1
    BY <2>1
  <2> QED
    BY <2>1, <2>2, <2>3
<1>10. object' \in Nat /\ object' <= can_requests
  BY <1>1, <1>2, <1>7, <1>8a DEF Placed
<1>11. CanopenTypeOK'
  <2>1. can_answer' = << >> \/ can_answer' \in ResultType
    BY <1>1, <1>2, <1>10 DEF CanopenTypeOK, ResultType
  <2>2. backwards' \in BOOLEAN
    BY <1>2
  <2> QED
    BY <1>1, <1>3, <1>6, <1>10, <2>1, <2>2 DEF CanopenTypeOK
<1>12. Placed' /\ OneHandled'
  BY <1>1, <1>3, <1>10 DEF Placed, OneHandled
<1>13. Ascending'
  <2> SUFFICES ASSUME NEW c \in Bus
               PROVE  /\ \A i \in 1 .. Len(queue'[c]) : queue'[c][i].id \in 1 .. can_requests
                      /\ \A i, j \in 1 .. Len(queue'[c]) : i < j => queue'[c][i].id < queue'[c][j].id
    BY <1>3 DEF Ascending
  <2>1. /\ \A i \in 1 .. Len(queue[c]) : queue[c][i].id \in 1 .. can_requests
        /\ \A i, j \in 1 .. Len(queue[c]) : i < j => queue[c][i].id < queue[c][j].id
    BY <1>1 DEF Ascending
  <2>2. CASE c # b
    BY <1>6, <2>1, <2>2
  <2>3. CASE c = b
    <3>1. \A i \in 1 .. Len(queue'[b]) : queue'[b][i].id \in 1 .. can_requests
      BY <1>9, <2>1, <2>3 DEF n
    <3>2. ASSUME NEW i \in 1 .. Len(queue'[b]), NEW j \in 1 .. Len(queue'[b]), i < j
          PROVE  queue'[b][i].id < queue'[b][j].id
      <4>1. i + 1 < j + 1 /\ i + 1 \in 1 .. n /\ j + 1 \in 1 .. n
        BY <1>9, <3>2
      <4>2. queue[b][i + 1].id < queue[b][j + 1].id
        BY <2>1, <2>3, <4>1 DEF n
      <4> QED
        BY <1>9, <4>2
    <3> QED
      BY <2>3, <3>1, <3>2
  <2> QED
    BY <2>2, <2>3
<1>14. Awaited'
  <2> SUFFICES ASSUME NEW c \in Bus, c \notin dropped
               PROVE  /\ Len(queue'[c]) <= 1
                      /\ \A i \in 1 .. Len(queue'[c]) :
                            /\ op.on = c /\ op.id = queue'[c][i].id /\ can_answer' = << >>
                            /\ queue'[c][i].what = "download" <=> op.at = "writing"
    BY <1>3 DEF Awaited
  <2>1. /\ Len(queue[c]) <= 1
        /\ \A i \in 1 .. Len(queue[c]) :
              /\ op.on = c /\ op.id = queue[c][i].id /\ can_answer = << >>
              /\ queue[c][i].what = "download" <=> op.at = "writing"
    BY <1>1 DEF Awaited
  <2>2. CASE c # b
    <3>1. queue'[c] = queue[c] /\ (op.on = c => can_answer' = can_answer)
      BY <1>2, <1>6, <2>2
    <3> QED
      BY <2>1, <3>1
  <2>3. CASE c = b
    <3>1. n <= 1
      BY <2>1, <2>3 DEF n
    <3>2. Len(queue'[c]) = 0
      BY <1>6, <2>3, <3>1
    <3> QED
      BY <3>2
  <2> QED
    BY <2>2, <2>3
<1>15. Ahead'
  <2> SUFFICES ASSUME OnLast
               PROVE  /\ \A c \in Bus : \A i \in 1 .. Len(queue'[c]) :
                            queue'[c][i].what = "download" => queue'[c][i].id > object'
                      /\ bus # 0 /\ bus # Len(buses) =>
                            \A i \in 1 .. Len(queue'[Len(buses)]) : queue'[Len(buses)][i].what # "download"
    BY <1>3 DEF Ahead, OnLast
  <2>1. /\ \A c \in Bus : \A i \in 1 .. Len(queue[c]) :
              queue[c][i].what = "download" => queue[c][i].id > object
        /\ bus # 0 /\ bus # Len(buses) =>
              \A i \in 1 .. Len(queue[Len(buses)]) : queue[Len(buses)][i].what # "download"
    BY <1>1 DEF Ahead
  <2>2. ASSUME NEW c \in Bus, NEW i \in 1 .. Len(queue'[c]), queue'[c][i].what = "download"
        PROVE  queue'[c][i].id > object'
    <3>1. CASE c # b
      <4>1. queue'[c] = queue[c]
        BY <1>6, <3>1
      <4>2. request.what # "download"
        BY <1>4, <1>8, <2>2, <3>1, <4>1, OneWriter DEF n
      <4>3. object' = object
        BY <1>2, <4>2
      <4> QED
        BY <2>1, <2>2, <4>1, <4>3
    <3>2. CASE c = b
      <4>1. i + 1 \in 1 .. n /\ 1 < i + 1 /\ queue'[c][i] = queue[b][i + 1]
        BY <1>9, <3>2
      <4>2. queue[b][i + 1].id > object
        BY <1>4, <2>1, <2>2, <4>1 DEF n
      <4>3. request.id < queue[b][i + 1].id
        BY <1>1, <1>4, <1>8, <4>1 DEF Ascending, n
      <4>4. queue[b][i + 1].id \in Nat
        BY <1>1, <1>4, <4>1 DEF Ascending, n
      <4>5. object' = object \/ object' = request.id
        BY <1>2
      <4> QED
        BY <1>7, <4>1, <4>2, <4>3, <4>4, <4>5
    <3> QED
      BY <3>1, <3>2
  <2>3. ASSUME bus # 0, bus # Len(buses), NEW i \in 1 .. Len(queue'[Len(buses)])
        PROVE  queue'[Len(buses)][i].what # "download"
    <3>1. \A k \in 1 .. Len(queue[Len(buses)]) : queue[Len(buses)][k].what # "download"
      BY <2>1, <2>3
    <3>2. CASE b = Len(buses)
      BY <1>9, <2>3, <3>1, <3>2 DEF n
    <3>3. CASE b # Len(buses)
      <4>1. Len(buses) \in Bus
        BY <1>1, <2>3, BusNat
      <4> QED
        BY <1>6, <2>3, <3>1, <3>3, <4>1
    <3> QED
      BY <3>2, <3>3
  <2> QED
    BY <2>2, <2>3
<1>16. LastWritten'
  <2> SUFFICES ASSUME dropped = {}
               PROVE  /\ op.at # "writing" \/ can_answer' = << >> => object' = confirmed
                      /\ op.at = "writing" /\ can_answer' # << >> => object' = IF can_answer'[1] THEN op.id ELSE confirmed
                      /\ op.at = "reading" =>
                            /\ can_answer' # << >> => can_answer'[2] = object'
                            /\ \A i \in 1 .. Len(samples) : samples[i][1] => samples[i][2] = confirmed
    BY <1>3 DEF LastWritten
  <2>1. op.on = b /\ op.id = request.id /\ can_answer = << >> /\ (request.what = "download" <=> op.at = "writing")
    BY <1>1, <1>4, <1>8 DEF Awaited, n
  <2>2. object = confirmed /\ (op.at = "reading" => \A i \in 1 .. Len(samples) : samples[i][1] => samples[i][2] = confirmed)
    BY <1>1, <2>1 DEF LastWritten
  <2>3. can_answer' = <<ok, object'>> /\ can_answer' # << >> /\ can_answer'[1] = ok /\ can_answer'[2] = object'
    BY <1>2, <2>1
  <2>4. CASE op.at = "writing"
    <3>1. object' = IF ok THEN op.id ELSE confirmed
      BY <1>2, <2>1, <2>2, <2>4
    <3> QED
      BY <2>3, <2>4, <3>1
  <2>5. CASE op.at # "writing"
    <3>1. object' = confirmed
      BY <1>2, <2>1, <2>2, <2>5
    <3> QED
      BY <2>2, <2>3, <2>5, <3>1
  <2> QED
    BY <2>4, <2>5
<1>17. Ordered'
  <2>1. ASSUME OnLast, request.what = "download" PROVE ~(request.id < object)
    <3>1. request.id > object
      BY <1>1, <1>4, <1>8, <2>1 DEF Ahead, n
    <3> QED
      BY <1>7, <3>1
  <2>2. OnLast' => OnLast
    BY <1>3 DEF OnLast
  <2> QED
    BY <1>1, <1>2, <2>1, <2>2 DEF Ordered
<1> QED
  BY <1>11, <1>12, <1>13, <1>14, <1>15, <1>16, <1>17 DEF CanopenInv

\* The beginning has no bus.
LEMMA CanopenInit == ASSUME CO!Init PROVE CanopenInv
<1>1. /\ buses = << >> /\ queue = [b \in Bus |-> << >>] /\ bus = 0 /\ can_answer = << >> /\ samples = << >>
      /\ object = 0 /\ can_requests = 0 /\ can_faults = 0 /\ confirmed = 0 /\ dropped = {} /\ backwards = FALSE
      /\ op = CO!Idle
  BY DEF CO!Init, Bus
<1>2. op.at = "idle" /\ op.on = 0 /\ op.id = 0 /\ op \in OpType
  BY <1>1 DEF CO!Idle, OpType
<1>3. buses \in Seq(BusType) /\ Len(buses) = 0 /\ samples \in Seq(ResultType)
  BY <1>1
<1>4. queue \in [Bus -> Seq(QueuedType)] /\ \A b \in Bus : Len(queue[b]) = 0
  BY <1>1
<1>5. CanopenTypeOK
  <2>1. 0 <= MaxBuses /\ bus \in 0 .. 0
    BY <1>1, CanopenAssumption
  <2> QED
    BY <1>1, <1>2, <1>3, <1>4, <2>1 DEF CanopenTypeOK
<1>6. Placed
  BY <1>1, <1>2 DEF Placed
<1>7. Ascending /\ Awaited
  BY <1>4 DEF Ascending, Awaited
<1>8. Ahead
  BY <1>1, <1>4 DEF Ahead
<1>9. LastWritten /\ OneHandled /\ Ordered
  BY <1>1, <1>2, <1>3 DEF LastWritten, OneHandled, Ordered
<1> QED
  BY <1>5, <1>6, <1>7, <1>8, <1>9 DEF CanopenInv

\* Every step keeps the invariant.
LEMMA CanopenStep == ASSUME CanopenInv, [CO!Next]_CO!vars PROVE CanopenInv'
<1>1. CASE UNCHANGED CO!vars
  BY <1>1 DEF CO!vars, CanopenInv, CanopenTypeOK, Placed, Ascending, Awaited, Ahead, OnLast,
     LastWritten, OneHandled, Ordered
<1>2. CASE CO!Next
  <2>1. DOMAIN buses = 1 .. Len(buses)
    <3>1. buses \in Seq(BusType)
      BY DEF CanopenInv, CanopenTypeOK
    <3> QED
      BY <3>1
  <2> QED
    BY <1>2, <2>1, ServeBusStep, EndsStep, OpenStep, AskingSteps, ReadOnStep, QuietSteps DEF CO!Next
<1> QED
  BY <1>1, <1>2

\* The invariant says what is wanted.
LEMMA CanopenKept == ASSUME CanopenInv PROVE CO!CanopenSound
<1>1. CanopenTypeOK /\ LastWritten /\ OneHandled /\ Ordered
  BY DEF CanopenInv
<1>2. DOMAIN buses = 1 .. Len(buses) /\ DOMAIN samples = 1 .. Len(samples) /\ Len(buses) \in Nat
      /\ dropped \in SUBSET (1 .. Len(buses))
  <2>1. buses \in Seq(BusType) /\ samples \in Seq(ResultType) /\ dropped \in SUBSET (1 .. Len(buses))
    BY <1>1 DEF CanopenTypeOK
  <2> QED
    BY <2>1
<1>3. CO!ReadsWritten
  BY <1>1, <1>2 DEF LastWritten, CO!ReadsWritten
<1>4. CO!InOrder
  <2>1. ~OnLast => \E b \in dropped : b < Len(buses)
    BY <1>2 DEF OnLast
  <2> QED
    BY <1>1, <2>1 DEF Ordered, CO!InOrder
<1>5. CO!OneHandle
  BY <1>1, <1>2 DEF OneHandled, CO!OneHandle
<1> QED
  BY <1>3, <1>4, <1>5 DEF CO!CanopenSound

\* CANopen: a read gives what the last confirmed write wrote as long as no request was given up, writes
\* are served in their order unless one given up is queued for an earlier bus, and a bus has one handle.
THEOREM CanopenHolds == CO!Spec => []CanopenSound
<1>1. CO!Init => CanopenInv
  BY CanopenInit
<1>2. CanopenInv /\ [CO!Next]_CO!vars => CanopenInv'
  BY CanopenStep
<1>3. CanopenInv => CanopenSound
  BY CanopenKept DEF CanopenSound
<1> QED
  BY <1>1, <1>2, <1>3, PTL DEF CO!Spec


-----------------------------------------------------------------------------
(* SNMP.                                                                   *)

\* An engine, and a device's knowledge of one.
Engine == [id : SN!Device \X Nat, boots : Nat]
KnownEngine == Engine \union {SN!NoEngine}

\* The devices' links are addresses of devices.
SnmpTypes ==
    /\ resolved \in [SN!Device -> SN!Address \union {SN!None}]
    /\ by_addr \in [SN!Address -> SN!Device \union {SN!None}]
    /\ sess \in [SN!Device -> SN!Address \union {SN!None}]
    /\ polling \in [SN!Device -> [at : SN!Address \union {SN!None}, engine : KnownEngine]]
    /\ agents \in [SN!Device -> Engine] /\ \A d \in SN!Device : agents[d].id[1] = d
    /\ met \in [SN!V3 -> SUBSET SN!Device] /\ fresh \in [SN!V3 -> BOOLEAN]
    /\ route # SN!NoRoutes => route \in [SN!Device -> KnownEngine]

\* An engine that an agent has, or had: it did not start more often than the agent has.
Seen(e) ==
    /\ e.id[2] <= agents[e.id[1]].id[2]
    /\ e.id = agents[e.id[1]].id => e.boots <= agents[e.id[1]].boots

\* What a device's traps must come from is such an engine, of an agent the device was resolved to, and
\* once a poll met the agent it is the engine the agent has.
RouteKnown(d, v3) ==
    /\ v3 # SN!NoEngine => Seen(v3) /\ (d \in SN!V3 => v3.id[1] \in met[d])
    /\ d \in SN!V3 /\ fresh[d] => v3 # SN!NoEngine /\ v3.id = agents[d].id

\* A poll goes to an agent the device was resolved to, and is answered by it.
PollKnown(d) ==
    /\ polling[d].engine # SN!NoEngine => Seen(polling[d].engine)
    /\ d \in SN!V3 /\ polling[d].at # SN!None =>
          /\ SN!AgentAt(polling[d].at) \in met[d]
          /\ polling[d].engine # SN!NoEngine => polling[d].engine.id[1] = SN!AgentAt(polling[d].at)
    /\ polling[d].at = SN!None => polling[d].engine = SN!NoEngine

SnmpInv ==
    /\ SnmpTypes /\ SN!RoutesAgree /\ ~ignored /\ (listener = "running" => route # SN!NoRoutes)
    /\ route # SN!NoRoutes => \A d \in SN!Device : RouteKnown(d, route[d])
    /\ \A d \in SN!Device : PollKnown(d)
    /\ \A d \in SN!V3 : resolved[d] # SN!None => SN!AgentAt(resolved[d]) \in met[d]

\* The names and addresses are different.
LEMMA SnmpNames ==
    /\ SN!Device = {"plain", "left", "right"} /\ SN!V3 = {"left", "right"} /\ SN!None = "none"
    /\ SN!Address = {"a0", "a1", "a2"} /\ SN!Forwarder = "f"
    /\ \A d \in SN!Device : SN!Home[d] \in SN!Address /\ SN!AgentAt(SN!Home[d]) = d
    /\ \A a \in SN!Address : SN!AgentAt(a) \in SN!Device
    /\ SN!V3 \subseteq SN!Device /\ SN!None \notin SN!Device /\ SN!None \notin SN!Address
    /\ SN!Forwarder \notin SN!Address
<1>1. /\ SN!Device = {"plain", "left", "right"} /\ SN!V3 = {"left", "right"} /\ SN!None = "none" /\ SN!Forwarder = "f"
      /\ SN!Home["plain"] = "a0" /\ SN!Home["left"] = "a1" /\ SN!Home["right"] = "a2"
  BY DEF SN!Device, SN!V3, SN!None, SN!Forwarder, SN!Home
<1>2. SN!Address = {"a0", "a1", "a2"}
  BY <1>1 DEF SN!Address
<1>3. \A d \in SN!Device : SN!Home[d] \in SN!Address
  BY DEF SN!Address
<1>4. ASSUME NEW d \in SN!Device, NEW e \in SN!Device, SN!Home[d] = SN!Home[e] PROVE d = e
  BY <1>1, <1>4
<1>5. ASSUME NEW d \in SN!Device PROVE SN!AgentAt(SN!Home[d]) = d
  BY <1>4, <1>5 DEF SN!AgentAt
<1>6. ASSUME NEW a \in SN!Address PROVE SN!AgentAt(a) \in SN!Device
  <2>1. PICK d \in SN!Device : a = SN!Home[d]
    BY DEF SN!Address
  <2> QED
    BY <2>1, <1>5
<1> QED
  BY <1>1, <1>2, <1>3, <1>5, <1>6

\* The empty engine is none.
LEMMA NoEngineIsNone == SN!NoEngine \notin Engine /\ SN!NoEngine \in KnownEngine
<1>1. \A x \in SN!Device \X Nat : x # << >>
  OBVIOUS
<1> QED
  BY <1>1 DEF SN!NoEngine, Engine, KnownEngine

\* A connected device's knowledge is not that of none.
LEMMA RoutesOfDevices ==
    /\ [d \in SN!Device |-> SN!NoEngine] # SN!NoRoutes
    /\ [d \in SN!Device |-> SN!NoEngine] \in [SN!Device -> KnownEngine]
    /\ \A f \in [SN!Device -> KnownEngine] : f # SN!NoRoutes
<1>1. \A f : f = << >> => DOMAIN f = {}
  OBVIOUS
<1>2. \A f \in [SN!Device -> KnownEngine] : DOMAIN f # {}
  BY SnmpNames
<1> QED
  BY <1>1, <1>2, NoEngineIsNone DEF SN!NoRoutes

\* Links: whose an address is.
LinkTypes(links) ==
    /\ links.resolved \in [SN!Device -> SN!Address \union {SN!None}]
    /\ links.by_addr \in [SN!Address -> SN!Device \union {SN!None}]
    /\ \A d \in SN!Device : links.resolved[d] # SN!None => links.by_addr[links.resolved[d]] = d
    /\ \A a \in SN!Address : links.by_addr[a] # SN!None => links.resolved[links.by_addr[a]] = a

\* Attaching a device gives it one address, or none, and changes no other device's.
LEMMA AttachLinks ==
    ASSUME NEW links, LinkTypes(links), NEW d \in SN!Device, NEW ip \in SN!Address \union {SN!None}
    PROVE  /\ LinkTypes(SN!Attach(links, d, ip))
           /\ \A e \in SN!Device : e # d => SN!Attach(links, d, ip).resolved[e] = links.resolved[e]
<1> DEFINE free == [a \in SN!Address |-> IF links.by_addr[a] = d THEN SN!None ELSE links.by_addr[a]]
<1>1. free \in [SN!Address -> SN!Device \union {SN!None}]
  BY DEF LinkTypes
<1>2. \A a \in SN!Address : free[a] = IF links.by_addr[a] = d THEN SN!None ELSE links.by_addr[a]
  OBVIOUS
<1>n. SN!None \notin SN!Device /\ SN!None \notin SN!Address
  BY SnmpNames
<1>3. CASE ip # SN!None /\ free[ip] = SN!None
  <2>1. SN!Attach(links, d, ip) = [by_addr |-> [free EXCEPT ![ip] = d], resolved |-> [links.resolved EXCEPT ![d] = ip]]
    BY <1>3 DEF SN!Attach
  <2> HIDE DEF free
  <2> DEFINE b == [free EXCEPT ![ip] = d]
             r == [links.resolved EXCEPT ![d] = ip]
  <2>2. b \in [SN!Address -> SN!Device \union {SN!None}] /\ \A a \in SN!Address : b[a] = IF a = ip THEN d ELSE free[a]
    BY <1>1, <1>3
  <2>3. /\ r \in [SN!Device -> SN!Address \union {SN!None}]
        /\ \A e \in SN!Device : r[e] = IF e = d THEN ip ELSE links.resolved[e]
    BY DEF LinkTypes
  <2> HIDE DEF b, r
  <2>4. ASSUME NEW e \in SN!Device, r[e] # SN!None PROVE b[r[e]] = e
    <3>1. CASE e = d
      BY <3>1, <1>3, <2>2, <2>3
    <3>2. CASE e # d
      <4>1. r[e] = links.resolved[e] /\ links.by_addr[r[e]] = e /\ r[e] \in SN!Address
        BY <3>2, <2>3, <2>4, <1>n DEF LinkTypes
      <4>2. free[r[e]] = e
        BY <3>2, <4>1, <1>2
      <4> QED
        BY <4>1, <4>2, <2>2, <1>3, <1>n
    <3> QED
      BY <3>1, <3>2
  <2>5. ASSUME NEW a \in SN!Address, b[a] # SN!None PROVE r[b[a]] = a
    <3>1. CASE a = ip
      BY <3>1, <2>2, <2>3
    <3>2. CASE a # ip
      <4>1. b[a] = links.by_addr[a] /\ b[a] # d /\ b[a] \in SN!Device
        BY <3>2, <2>2, <2>5, <1>2
      <4> QED
        BY <4>1, <2>3, <2>5 DEF LinkTypes
    <3> QED
      BY <3>1, <3>2
  <2>6. LinkTypes([by_addr |-> b, resolved |-> r])
    BY <2>2, <2>3, <2>4, <2>5 DEF LinkTypes
  <2>7. SN!Attach(links, d, ip) = [by_addr |-> b, resolved |-> r]
    BY <2>1 DEF b, r
  <2> QED
    BY <2>3, <2>6, <2>7
<1>4. CASE ~(ip # SN!None /\ free[ip] = SN!None)
  <2>1. SN!Attach(links, d, ip) = [by_addr |-> free, resolved |-> [links.resolved EXCEPT ![d] = SN!None]]
    BY <1>4 DEF SN!Attach
  <2> DEFINE r == [links.resolved EXCEPT ![d] = SN!None]
  <2> HIDE DEF free
  <2>2. /\ r \in [SN!Device -> SN!Address \union {SN!None}]
        /\ \A e \in SN!Device : r[e] = IF e = d THEN SN!None ELSE links.resolved[e]
    BY DEF LinkTypes
  <2> HIDE DEF r
  <2>3. ASSUME NEW e \in SN!Device, r[e] # SN!None PROVE free[r[e]] = e
    <3>1. e # d /\ r[e] = links.resolved[e] /\ r[e] \in SN!Address /\ links.by_addr[r[e]] = e
      BY <2>2, <2>3, <1>n DEF LinkTypes
    <3> QED
      BY <3>1, <1>2
  <2>4. ASSUME NEW a \in SN!Address, free[a] # SN!None PROVE r[free[a]] = a
    <3>1. free[a] = links.by_addr[a] /\ free[a] # d /\ free[a] \in SN!Device
      BY <2>4, <1>1, <1>2
    <3> QED
      BY <3>1, <2>2, <2>4 DEF LinkTypes
  <2>5. LinkTypes([by_addr |-> free, resolved |-> r])
    BY <1>1, <2>2, <2>3, <2>4 DEF LinkTypes
  <2>6. SN!Attach(links, d, ip) = [by_addr |-> free, resolved |-> r]
    BY <2>1 DEF r
  <2> QED
    BY <2>2, <2>5, <2>6
<1> QED
  BY <1>3, <1>4

\* No links, and those of all devices.
LEMMA AllLinks ==
    /\ LinkTypes(SN!NoLinks)
    /\ \A lookup : (\A d \in SN!Device : lookup[d] \in SN!Address \union {SN!None}) => LinkTypes(SN!AttachAll(lookup))
<1>1. LinkTypes(SN!NoLinks)
  BY DEF LinkTypes, SN!NoLinks
<1>2. ASSUME NEW lookup, \A d \in SN!Device : lookup[d] \in SN!Address \union {SN!None}
      PROVE  LinkTypes(SN!AttachAll(lookup))
  <2>1. "plain" \in SN!Device /\ "left" \in SN!Device /\ "right" \in SN!Device
    BY SnmpNames
  <2>2. LinkTypes(SN!Attach(SN!NoLinks, "plain", lookup["plain"]))
    BY <1>1, <1>2, <2>1, AttachLinks
  <2>3. LinkTypes(SN!Attach(SN!Attach(SN!NoLinks, "plain", lookup["plain"]), "left", lookup["left"]))
    BY <1>2, <2>1, <2>2, AttachLinks
  <2> QED
    BY <1>2, <2>1, <2>3, AttachLinks DEF SN!AttachAll
<1> QED
  BY <1>1, <1>2

\* The state's own links.
LEMMA StateLinks ==
    ASSUME SnmpTypes
    PROVE  (/\ \A d \in SN!Device : resolved[d] # SN!None => by_addr[resolved[d]] = d
            /\ \A a \in SN!Address : by_addr[a] # SN!None => resolved[by_addr[a]] = a)
           <=> LinkTypes([by_addr |-> by_addr, resolved |-> resolved])
BY DEF SnmpTypes, LinkTypes

\* What a device is resolved to is remembered.
LEMMA MeetsAll ==
    ASSUME SnmpTypes, NEW now \in [SN!Device -> SN!Address \union {SN!None}]
    PROVE  /\ SN!Meets(now) \in [SN!V3 -> SUBSET SN!Device]
           /\ \A d \in SN!V3 : /\ met[d] \subseteq SN!Meets(now)[d]
                               /\ now[d] # SN!None => SN!AgentAt(now[d]) \in SN!Meets(now)[d]
<1>1. ASSUME NEW d \in SN!V3
      PROVE  /\ SN!Meets(now)[d] = met[d] \union {SN!AgentAt(a) : a \in {now[d]} \ {SN!None}}
             /\ SN!Meets(now)[d] \in SUBSET SN!Device
  <2>1. SN!Meets(now)[d] = met[d] \union {SN!AgentAt(a) : a \in {now[d]} \ {SN!None}}
    BY DEF SN!Meets
  <2>2. met[d] \subseteq SN!Device /\ now[d] \in SN!Address \union {SN!None}
    BY SnmpNames DEF SnmpTypes
  <2>3. \A a \in {now[d]} \ {SN!None} : SN!AgentAt(a) \in SN!Device
    BY <2>2, SnmpNames
  <2> QED
    BY <2>1, <2>2, <2>3
<1>2. SN!Meets(now) = [d \in SN!V3 |-> met[d] \union {SN!AgentAt(a) : a \in {now[d]} \ {SN!None}}]
  BY DEF SN!Meets
<1>3. SN!Meets(now) \in [SN!V3 -> SUBSET SN!Device]
  <2>1. \A d \in SN!V3 : met[d] \union {SN!AgentAt(a) : a \in {now[d]} \ {SN!None}} \in SUBSET SN!Device
    BY <1>1
  <2> QED
    BY <1>2, <2>1
<1> QED
  BY <1>1, <1>3

\* A device that met more agents has nothing to take back.
LEMMA MetMore ==
    ASSUME SnmpInv, met' \in [SN!V3 -> SUBSET SN!Device], \A d \in SN!V3 : met[d] \subseteq met'[d],
           UNCHANGED <<polling, agents>>, \A d \in SN!V3 : fresh'[d] => fresh[d]
    PROVE  /\ \A d \in SN!Device : PollKnown(d)'
           /\ \A d \in SN!Device, v3 \in KnownEngine : RouteKnown(d, v3) => RouteKnown(d, v3)'
BY DEF SnmpInv, PollKnown, RouteKnown, Seen

\* A connect forgets what was known, and attaches all devices or none.
LEMMA SnmpConnectStep ==
    ASSUME SnmpInv, NEW lookup, \A d \in SN!Device : lookup[d] \in SN!Address \union {SN!None},
           NEW binds \in BOOLEAN, SN!Connect(lookup, binds)
    PROVE  SnmpInv'
<1> DEFINE links == IF binds THEN SN!AttachAll(lookup) ELSE SN!NoLinks
<1>1. /\ sess' = [d \in SN!Device |-> SN!None] /\ route' = [d \in SN!Device |-> SN!NoEngine]
      /\ by_addr' = links.by_addr /\ resolved' = links.resolved
      /\ met' = SN!Meets(resolved') /\ fresh' = [d \in SN!V3 |-> FALSE]
      /\ polling' = polling /\ agents' = agents /\ ignored' = ignored
  BY DEF SN!Connect
<1>2. LinkTypes(links)
  BY AllLinks
<1> HIDE DEF links
<1>3. SnmpTypes /\ SN!RoutesAgree /\ ~ignored
  BY DEF SnmpInv
<1>4. resolved' \in [SN!Device -> SN!Address \union {SN!None}] /\ by_addr' \in [SN!Address -> SN!Device \union {SN!None}]
  BY <1>1, <1>2 DEF LinkTypes
<1>5. /\ met' \in [SN!V3 -> SUBSET SN!Device]
      /\ \A d \in SN!V3 : /\ met[d] \subseteq met'[d]
                          /\ resolved'[d] # SN!None => SN!AgentAt(resolved'[d]) \in met'[d]
  BY <1>1, <1>3, <1>4, MeetsAll
<1>6. SnmpTypes'
  BY <1>1, <1>3, <1>4, <1>5, RoutesOfDevices DEF SnmpTypes
<1>7. SN!RoutesAgree'
  BY <1>1, <1>2 DEF SN!RoutesAgree, LinkTypes
<1>8. \A d \in SN!Device : PollKnown(d)'
  BY <1>1, <1>5, MetMore
<1>9. \A d \in SN!Device : RouteKnown(d, route[d])'
  BY <1>1 DEF RouteKnown
<1>10. route' # SN!NoRoutes
  BY <1>1, RoutesOfDevices
<1> QED
  BY <1>1, <1>3, <1>5, <1>6, <1>7, <1>8, <1>9, <1>10 DEF SnmpInv

\* A reconnect attaches one device again.
LEMMA SnmpReconnectStep ==
    ASSUME SnmpInv, NEW d \in SN!Device, NEW ip \in SN!Address \union {SN!None}, NEW binds \in BOOLEAN,
           SN!Reconnect(d, ip, binds)
    PROVE  SnmpInv'
<1> DEFINE old == [by_addr |-> by_addr, resolved |-> resolved]
           links == SN!Attach(old, d, ip)
<1>1. /\ sess' = [sess EXCEPT ![d] = SN!None] /\ met' = SN!Meets(resolved') /\ route # SN!NoRoutes
      /\ \/ UNCHANGED <<by_addr, resolved>>
         \/ by_addr' = links.by_addr /\ resolved' = links.resolved
      /\ route' = route /\ polling' = polling /\ agents' = agents /\ fresh' = fresh /\ ignored' = ignored
  BY DEF SN!Reconnect
<1>2. SnmpTypes /\ SN!RoutesAgree /\ ~ignored
  BY DEF SnmpInv
<1>3. LinkTypes(old)
  BY <1>2, StateLinks DEF SN!RoutesAgree
<1>4. LinkTypes(links) /\ \A e \in SN!Device : e # d => links.resolved[e] = resolved[e]
  BY <1>3, AttachLinks
<1>5. LinkTypes([by_addr |-> by_addr', resolved |-> resolved'])
  BY <1>1, <1>3, <1>4 DEF LinkTypes
<1>6. \A e \in SN!Device : e # d => resolved'[e] = resolved[e]
  BY <1>1, <1>4
<1> HIDE DEF links, old
<1>7. resolved' \in [SN!Device -> SN!Address \union {SN!None}] /\ by_addr' \in [SN!Address -> SN!Device \union {SN!None}]
  BY <1>5 DEF LinkTypes
<1>8. /\ met' \in [SN!V3 -> SUBSET SN!Device]
      /\ \A e \in SN!V3 : /\ met[e] \subseteq met'[e]
                          /\ resolved'[e] # SN!None => SN!AgentAt(resolved'[e]) \in met'[e]
  BY <1>1, <1>2, <1>7, MeetsAll
<1>9. SnmpTypes'
  BY <1>1, <1>2, <1>7, <1>8 DEF SnmpTypes
<1>10. \A e \in SN!Device : sess'[e] \in {SN!None, resolved'[e]}
  BY <1>1, <1>2, <1>6 DEF SN!RoutesAgree, SnmpTypes
<1>11. SN!RoutesAgree'
  BY <1>5, <1>10 DEF SN!RoutesAgree, LinkTypes
<1>12. \A e \in SN!Device : PollKnown(e)'
  BY <1>1, <1>8, MetMore
<1>13. \A e \in SN!Device : RouteKnown(e, route[e])'
  <2>1. \A e \in SN!Device : route[e] \in KnownEngine /\ RouteKnown(e, route[e])
    BY <1>1 DEF SnmpInv, SnmpTypes
  <2>2. \A e \in SN!Device, v3 \in KnownEngine : RouteKnown(e, v3) => RouteKnown(e, v3)'
    BY <1>1, <1>8, MetMore
  <2> QED
    BY <1>1, <2>1, <2>2 DEF RouteKnown, Seen
<1> QED
  BY <1>1, <1>2, <1>8, <1>9, <1>11, <1>12, <1>13 DEF SnmpInv

\* A disconnect keeps only what was met.
LEMMA SnmpDisconnectStep == ASSUME SnmpInv, SN!Disconnect PROVE SnmpInv'
<1>1. /\ by_addr' = SN!NoLinks.by_addr /\ resolved' = SN!NoLinks.resolved /\ route' = SN!NoRoutes
      /\ sess' = [d \in SN!Device |-> SN!None] /\ listener' = "none" /\ fresh' = [d \in SN!V3 |-> FALSE]
      /\ polling' = polling /\ agents' = agents /\ met' = met /\ ignored' = ignored
  BY DEF SN!Disconnect
<1>2. SnmpTypes /\ ~ignored
  BY DEF SnmpInv
<1>3. SnmpTypes' /\ SN!RoutesAgree' /\ \A d \in SN!Device : resolved'[d] = SN!None
  <2>1. LinkTypes(SN!NoLinks) /\ \A d \in SN!Device : SN!NoLinks.resolved[d] = SN!None
    BY AllLinks DEF SN!NoLinks
  <2> QED
    BY <1>1, <1>2, <2>1 DEF SnmpTypes, SN!RoutesAgree, LinkTypes
<1>4. \A d \in SN!Device : PollKnown(d)'
  BY <1>1, <1>2, MetMore DEF SnmpTypes
<1> QED
  BY <1>1, <1>2, <1>3, <1>4, SnmpNames DEF SnmpInv

\* A poll goes over the device's session.
LEMMA SnmpReadBeginsStep == ASSUME SnmpInv, NEW d \in SN!V3, SN!ReadBegins(d) PROVE SnmpInv'
<1>1. /\ resolved[d] # SN!None /\ polling[d] = SN!Idle
      /\ sess' = [sess EXCEPT ![d] = IF sess[d] = SN!None THEN resolved[d] ELSE sess[d]]
      /\ polling' = [polling EXCEPT ![d].at = sess'[d]]
      /\ resolved' = resolved /\ by_addr' = by_addr /\ route' = route /\ listener' = listener
      /\ agents' = agents /\ met' = met /\ fresh' = fresh /\ ignored' = ignored
  BY SnmpNames DEF SN!ReadBegins
<1>2. SnmpTypes /\ SN!RoutesAgree /\ d \in SN!Device
  BY SnmpNames DEF SnmpInv
<1>3. sess'[d] = resolved[d] /\ \A e \in SN!Device : e # d => sess'[e] = sess[e]
  BY <1>1, <1>2 DEF SnmpTypes, SN!RoutesAgree
<1>4. polling' = [polling EXCEPT ![d] = [at |-> resolved[d], engine |-> SN!NoEngine]]
  <2>1. polling' = [polling EXCEPT ![d].at = resolved[d]]
    BY <1>1, <1>3
  <2>2. [polling[d] EXCEPT !.at = resolved[d]] = [at |-> resolved[d], engine |-> SN!NoEngine]
    BY <1>1 DEF SN!Idle
  <2> QED
    BY <2>1, <2>2
<1>5. SN!NoEngine \in KnownEngine /\ resolved[d] \in SN!Address
  BY <1>1, <1>2, NoEngineIsNone DEF SnmpTypes
<1>6. polling' \in [SN!Device -> [at : SN!Address \union {SN!None}, engine : KnownEngine]]
  BY <1>2, <1>4, <1>5 DEF SnmpTypes
<1>7. sess' \in [SN!Device -> SN!Address \union {SN!None}]
  BY <1>1, <1>2 DEF SnmpTypes
<1>8. SnmpTypes'
  BY <1>1, <1>2, <1>6, <1>7 DEF SnmpTypes
<1>9. SN!RoutesAgree'
  BY <1>1, <1>2, <1>3 DEF SN!RoutesAgree
<1>10. ASSUME NEW e \in SN!Device PROVE PollKnown(e)'
  <2>1. CASE e = d
    <3>1. polling'[d] = [at |-> resolved[d], engine |-> SN!NoEngine]
      BY <1>2, <1>4 DEF SnmpTypes
    <3>2. SN!AgentAt(resolved[d]) \in met[d]
      BY <1>1 DEF SnmpInv
    <3> QED
      BY <1>1, <2>1, <3>1, <3>2 DEF PollKnown
  <2>2. CASE e # d
    <3>1. polling'[e] = polling[e]
      BY <1>2, <1>4, <2>2 DEF SnmpTypes
    <3> QED
      BY <1>1, <3>1 DEF PollKnown, Seen, SnmpInv
  <2> QED
    BY <2>1, <2>2
<1>11. \A e \in SN!Device : RouteKnown(e, route[e]) => RouteKnown(e, route[e])'
  BY <1>1 DEF RouteKnown, Seen
<1> QED
  BY <1>1, <1>8, <1>9, <1>10, <1>11 DEF SnmpInv

\* The agent at that address answers.
LEMMA SnmpReadAnsweredStep == ASSUME SnmpInv, NEW d \in SN!V3, SN!ReadAnswered(d) PROVE SnmpInv'
<1> DEFINE a == SN!AgentAt(polling[d].at)
<1>1. /\ polling[d].at # SN!None
      /\ polling' = [polling EXCEPT ![d].engine = agents[a]]
      /\ resolved' = resolved /\ by_addr' = by_addr /\ route' = route /\ listener' = listener /\ sess' = sess
      /\ agents' = agents /\ met' = met /\ fresh' = fresh /\ ignored' = ignored
  BY DEF SN!ReadAnswered
<1>2. SnmpTypes /\ SN!RoutesAgree /\ d \in SN!Device
  BY SnmpNames DEF SnmpInv
<1>3. polling[d] \in [at : SN!Address \union {SN!None}, engine : KnownEngine]
  BY <1>2 DEF SnmpTypes
<1>4. a \in SN!Device /\ a \in met[d]
  BY <1>1, <1>2, <1>3, SnmpNames DEF SnmpInv, PollKnown
<1>5. agents[a] \in Engine /\ agents[a].id[1] = a
  BY <1>2, <1>4 DEF SnmpTypes
<1> HIDE DEF a
<1>6. polling' = [polling EXCEPT ![d] = [at |-> polling[d].at, engine |-> agents[a]]]
  <2>1. [polling[d] EXCEPT !.engine = agents[a]] = [at |-> polling[d].at, engine |-> agents[a]]
    BY <1>3
  <2> QED
    BY <1>1, <2>1
<1>7. polling' \in [SN!Device -> [at : SN!Address \union {SN!None}, engine : KnownEngine]]
  BY <1>2, <1>3, <1>5, <1>6 DEF SnmpTypes, KnownEngine
<1>8. SnmpTypes'
  BY <1>1, <1>2, <1>7 DEF SnmpTypes
<1>9. SN!RoutesAgree'
  BY <1>1, <1>2 DEF SN!RoutesAgree
<1>10. Seen(agents[a])
  BY <1>5 DEF Seen, Engine
<1>11. ASSUME NEW e \in SN!Device PROVE PollKnown(e)'
  <2>1. CASE e = d
    <3>1. polling'[d] = [at |-> polling[d].at, engine |-> agents[a]]
      BY <1>2, <1>6 DEF SnmpTypes
    <3> QED
      BY <1>1, <1>4, <1>5, <1>10, <2>1, <3>1 DEF PollKnown, Seen, a
  <2>2. CASE e # d
    <3>1. polling'[e] = polling[e]
      BY <1>2, <1>6, <2>2 DEF SnmpTypes
    <3> QED
      BY <1>1, <3>1 DEF PollKnown, Seen, SnmpInv
  <2> QED
    BY <2>1, <2>2
<1>12. \A e \in SN!Device : RouteKnown(e, route[e]) => RouteKnown(e, route[e])'
  BY <1>1 DEF RouteKnown, Seen
<1> QED
  BY <1>1, <1>8, <1>9, <1>11, <1>12 DEF SnmpInv

\* The end of a poll pins the engine that answered it.
LEMMA SnmpReadEndsStep == ASSUME SnmpInv, NEW d \in SN!V3, SN!ReadEnds(d) PROVE SnmpInv'
<1> DEFINE engine == polling[d].engine
           v3 == SN!AfterRead(route[d], engine)
           met_it == IF engine = SN!NoEngine THEN fresh[d]
                     ELSE SN!AgentAt(polling[d].at) = d /\ engine.id = agents[d].id
<1>1. /\ polling[d].at # SN!None /\ polling' = [polling EXCEPT ![d] = SN!Idle]
      /\ \/ route = SN!NoRoutes /\ UNCHANGED <<route, fresh>>
         \/ /\ route # SN!NoRoutes /\ route' = [route EXCEPT ![d] = v3]
            /\ fresh' = [fresh EXCEPT ![d] = met_it]
      /\ resolved' = resolved /\ by_addr' = by_addr /\ listener' = listener /\ sess' = sess
      /\ agents' = agents /\ met' = met /\ ignored' = ignored
  BY DEF SN!ReadEnds
<1>2. SnmpTypes /\ SN!RoutesAgree /\ d \in SN!Device
  BY SnmpNames DEF SnmpInv
<1>3. engine \in KnownEngine /\ PollKnown(d)
  BY <1>2 DEF SnmpTypes, SnmpInv
<1>4. SN!Idle \in [at : SN!Address \union {SN!None}, engine : KnownEngine]
  BY NoEngineIsNone DEF SN!Idle
<1>5. polling' \in [SN!Device -> [at : SN!Address \union {SN!None}, engine : KnownEngine]]
  BY <1>1, <1>2, <1>4 DEF SnmpTypes
<1>6. ASSUME NEW e \in SN!Device PROVE PollKnown(e)'
  <2>1. CASE e = d
    <3>1. polling'[d] = SN!Idle
      BY <1>1, <1>2 DEF SnmpTypes
    <3> QED
      BY <2>1, <3>1 DEF PollKnown, SN!Idle
  <2>2. CASE e # d
    <3>1. polling'[e] = polling[e]
      BY <1>1, <1>2, <2>2 DEF SnmpTypes
    <3> QED
      BY <1>1, <3>1 DEF PollKnown, Seen, SnmpInv
  <2> QED
    BY <2>1, <2>2
<1>7. SN!RoutesAgree'
  BY <1>1, <1>2 DEF SN!RoutesAgree
<1>8. CASE route = SN!NoRoutes
  <2>1. route' = route /\ fresh' = fresh
    BY <1>1, <1>8
  <2>2. SnmpTypes'
    BY <1>1, <1>2, <1>5, <1>8, <2>1 DEF SnmpTypes
  <2> QED
    BY <1>1, <1>6, <1>7, <1>8, <2>1, <2>2 DEF SnmpInv
<1>9. CASE route # SN!NoRoutes
  <2>1. route' = [route EXCEPT ![d] = v3] /\ fresh' = [fresh EXCEPT ![d] = met_it]
    BY <1>1, <1>9
  <2>2. route \in [SN!Device -> KnownEngine] /\ RouteKnown(d, route[d]) /\ route[d] \in KnownEngine
    BY <1>2, <1>9 DEF SnmpTypes, SnmpInv
  <2>3. engine # SN!NoEngine =>
          /\ engine \in Engine /\ Seen(engine)
          /\ engine.id[1] = SN!AgentAt(polling[d].at) /\ SN!AgentAt(polling[d].at) \in met[d]
    BY <1>1, <1>3 DEF PollKnown, KnownEngine
  <2>4. /\ v3 \in KnownEngine
        /\ v3 # SN!NoEngine => Seen(v3) /\ v3.id[1] \in met[d]
        /\ engine = SN!NoEngine => v3 = route[d]
        /\ engine # SN!NoEngine => v3.id = engine.id /\ v3 # SN!NoEngine
    <3>1. CASE engine # SN!NoEngine /\ route[d].id # engine.id
      <4>1. v3 = [id |-> engine.id, boots |-> 0]
        BY <3>1 DEF SN!AfterRead
      <4>2. v3 \in Engine /\ v3 # SN!NoEngine
        BY <2>3, <3>1, <4>1, NoEngineIsNone DEF Engine
      <4>3. engine.boots \in Nat /\ agents[engine.id[1]].boots \in Nat
        <5>1. engine.id[1] \in SN!Device
          BY <2>3, <3>1 DEF Engine
        <5> QED
          BY <1>2, <2>3, <3>1, <5>1 DEF Engine, SnmpTypes
      <4>4. Seen(v3)
        BY <2>3, <3>1, <4>1, <4>3 DEF Seen
      <4>5. v3.id = engine.id
        BY <4>1
      <4> QED
        BY <2>3, <3>1, <4>2, <4>4, <4>5 DEF KnownEngine
    <3>2. CASE ~(engine # SN!NoEngine /\ route[d].id # engine.id)
      <4>1. v3 = route[d]
        BY <3>2 DEF SN!AfterRead
      <4>2. engine # SN!NoEngine => v3.id = engine.id /\ v3 # SN!NoEngine
        <5>1. \A x \in SN!Device \X Nat : x # << >>
          OBVIOUS
        <5> QED
          BY <2>3, <3>2, <4>1, <5>1 DEF Engine, SN!NoEngine
      <4> QED
        BY <2>2, <3>2, <4>1, <4>2 DEF RouteKnown
    <3> QED
      BY <3>1, <3>2
  <2> HIDE DEF v3, engine
  <2>5. met_it \in BOOLEAN
    BY <1>2 DEF SnmpTypes
  <2>6. met_it => v3 # SN!NoEngine /\ v3.id = agents[d].id
    BY <2>2, <2>4 DEF RouteKnown
  <2> HIDE DEF met_it
  <2>7. fresh' \in [SN!V3 -> BOOLEAN] /\ route' \in [SN!Device -> KnownEngine]
    BY <1>2, <2>1, <2>2, <2>4, <2>5 DEF SnmpTypes
  <2>8. SnmpTypes'
    BY <1>1, <1>2, <1>5, <2>7 DEF SnmpTypes
  <2>9. ASSUME NEW e \in SN!Device PROVE RouteKnown(e, route[e])'
    <3>1. CASE e = d
      <4>1. route'[d] = v3 /\ fresh'[d] = met_it
        BY <1>2, <2>1, <2>2 DEF SnmpTypes
      <4> QED
        BY <1>1, <2>4, <2>6, <3>1, <4>1 DEF RouteKnown, Seen
    <3>2. CASE e # d
      <4>1. route'[e] = route[e] /\ (e \in SN!V3 => fresh'[e] = fresh[e])
        BY <1>2, <2>1, <2>2, <3>2 DEF SnmpTypes
      <4>2. RouteKnown(e, route[e])
        BY <1>9 DEF SnmpInv
      <4> QED
        BY <1>1, <4>1, <4>2 DEF RouteKnown, Seen
    <3> QED
      BY <3>1, <3>2
  <2>10. route' # SN!NoRoutes
    BY <2>7, RoutesOfDevices
  <2> QED
    BY <1>1, <1>6, <1>7, <2>8, <2>9, <2>10 DEF SnmpInv
<1> QED
  BY <1>8, <1>9

\* The listener ends: nothing else changes.
LEMMA SnmpListenerStep == ASSUME SnmpInv, SN!ListenerFails PROVE SnmpInv'
<1>1. /\ listener' = "none" /\ resolved' = resolved /\ by_addr' = by_addr /\ route' = route /\ sess' = sess
      /\ polling' = polling /\ agents' = agents /\ met' = met /\ fresh' = fresh /\ ignored' = ignored
  BY DEF SN!ListenerFails
<1>2. SnmpTypes' /\ SN!RoutesAgree'
  BY <1>1 DEF SnmpInv, SnmpTypes, SN!RoutesAgree
<1>3. \A d \in SN!Device : PollKnown(d)'
  BY <1>1 DEF SnmpInv, PollKnown, Seen
<1>4. route # SN!NoRoutes => \A d \in SN!Device : RouteKnown(d, route[d])'
  BY <1>1 DEF SnmpInv, RouteKnown, Seen
<1> QED
  BY <1>1, <1>2, <1>3, <1>4 DEF SnmpInv

\* An engine that restarts is the same, and a new one is no engine seen before: what was seen was seen.
LEMMA SnmpAgentStep ==
    ASSUME SnmpInv, NEW a \in SN!V3, SN!AgentRestarts(a) \/ SN!AgentReplaced(a)
    PROVE  SnmpInv'
<1>1. /\ resolved' = resolved /\ by_addr' = by_addr /\ route' = route /\ sess' = sess /\ listener' = listener
      /\ polling' = polling /\ met' = met /\ ignored' = ignored
  BY DEF SN!AgentRestarts, SN!AgentReplaced
<1>2. SnmpTypes /\ a \in SN!Device
  BY SnmpNames DEF SnmpInv
<1>3. /\ agents \in [SN!Device -> Engine] /\ \A d \in SN!Device : agents[d].id[1] = d
      /\ agents[a].id[2] \in Nat /\ agents[a].boots \in Nat /\ agents[a].id = <<a, agents[a].id[2]>>
  <2>1. agents \in [SN!Device -> Engine] /\ \A d \in SN!Device : agents[d].id[1] = d
    BY <1>2 DEF SnmpTypes
  <2>2. agents[a] \in Engine /\ agents[a].id[1] = a
    BY <1>2, <2>1
  <2> QED
    BY <2>1, <2>2 DEF Engine
<1>4. PICK now :
         /\ now \in Engine /\ now.id[1] = a
         /\ agents' = [agents EXCEPT ![a] = now]
         /\ \/ now.id = agents[a].id /\ now.boots = agents[a].boots + 1 /\ fresh' = fresh
            \/ now.id[2] = agents[a].id[2] + 1 /\ fresh' = [fresh EXCEPT ![a] = FALSE]
  <2>1. CASE SN!AgentRestarts(a)
    <3> DEFINE now == [id |-> agents[a].id, boots |-> agents[a].boots + 1]
    <3>1. agents' = [agents EXCEPT ![a].boots = agents[a].boots + 1] /\ fresh' = fresh
      BY <2>1 DEF SN!AgentRestarts
    <3>2. agents[a] \in Engine
      BY <1>2, <1>3
    <3>3. [agents[a] EXCEPT !.boots = agents[a].boots + 1] = now
      BY <3>2 DEF Engine
    <3>4. agents' = [agents EXCEPT ![a] = now]
      BY <3>1, <3>3
    <3>5. now \in Engine /\ now.id[1] = a
      BY <1>2, <1>3, <3>2 DEF Engine
    <3>6. now.id = agents[a].id /\ now.boots = agents[a].boots + 1
      OBVIOUS
    <3> HIDE DEF now
    <3> QED
      BY <3>1, <3>4, <3>5, <3>6
  <2>2. CASE SN!AgentReplaced(a)
    <3> DEFINE now == [id |-> <<a, agents[a].id[2] + 1>>, boots |-> 1]
    <3>1. agents' = [agents EXCEPT ![a] = now] /\ fresh' = [fresh EXCEPT ![a] = FALSE]
      BY <2>2 DEF SN!AgentReplaced
    <3>2. now \in Engine /\ now.id[1] = a /\ now.id[2] = agents[a].id[2] + 1
      BY <1>2, <1>3 DEF Engine
    <3> QED
      BY <3>1, <3>2
  <2> QED
    BY <2>1, <2>2
<1>5. /\ agents' \in [SN!Device -> Engine] /\ agents'[a] = now
      /\ \A d \in SN!Device : d # a => agents'[d] = agents[d]
  BY <1>2, <1>3, <1>4
<1>6. fresh' \in [SN!V3 -> BOOLEAN] /\ \A d \in SN!V3 : d # a => fresh'[d] = fresh[d]
  BY <1>2, <1>4 DEF SnmpTypes
<1>7. ASSUME NEW e \in Engine, Seen(e) PROVE Seen(e)'
  <2>1. e.id[1] \in SN!Device /\ e.id[2] \in Nat /\ e.boots \in Nat
    BY DEF Engine
  <2>2. CASE e.id[1] = a
    <3>1. e.id[2] <= agents[a].id[2] /\ (e.id = agents[a].id => e.boots <= agents[a].boots)
      BY <1>7, <2>2 DEF Seen
    <3>2. e.id[2] <= now.id[2] /\ (e.id = now.id => e.boots <= now.boots)
      BY <1>3, <1>4, <2>1, <3>1
    <3> QED
      BY <1>5, <2>2, <3>2 DEF Seen
  <2>3. CASE e.id[1] # a
    BY <1>5, <1>7, <2>1, <2>3 DEF Seen
  <2> QED
    BY <2>2, <2>3
<1>8. \A d \in SN!Device : agents'[d].id[1] = d
  BY <1>3, <1>4, <1>5
<1>9. SnmpTypes'
  BY <1>1, <1>2, <1>5, <1>6, <1>8 DEF SnmpTypes
<1>10. ASSUME NEW d \in SN!Device PROVE PollKnown(d)'
  <2>1. PollKnown(d) /\ polling[d].engine \in KnownEngine
    BY <1>2 DEF SnmpInv, SnmpTypes
  <2>2. polling[d].engine # SN!NoEngine => Seen(polling[d].engine)'
    BY <1>1, <1>7, <2>1 DEF PollKnown, KnownEngine, Seen
  <2> QED
    BY <1>1, <2>1, <2>2 DEF PollKnown, Seen
<1>11. ASSUME NEW d \in SN!Device, route # SN!NoRoutes PROVE RouteKnown(d, route[d])'
  <2>1. RouteKnown(d, route[d]) /\ route[d] \in KnownEngine
    BY <1>2, <1>11 DEF SnmpInv, SnmpTypes
  <2>2. route[d] # SN!NoEngine => Seen(route[d])'
    BY <1>1, <1>7, <2>1 DEF RouteKnown, KnownEngine, Seen
  <2>3. ASSUME d \in SN!V3, fresh'[d] PROVE route[d] # SN!NoEngine /\ route[d].id = agents'[d].id
    <3>1. CASE d # a
      BY <1>5, <1>6, <2>1, <2>3, <3>1 DEF RouteKnown
    <3>2. CASE d = a
      <4>1. now.id = agents[a].id /\ fresh' = fresh
        BY <1>2, <1>4, <2>3, <3>2 DEF SnmpTypes
      <4> QED
        BY <1>5, <2>1, <2>3, <3>2, <4>1 DEF RouteKnown
    <3> QED
      BY <3>1, <3>2
  <2> QED
    BY <1>1, <2>1, <2>2, <2>3 DEF RouteKnown, Seen
<1>12. SN!RoutesAgree'
  BY <1>1 DEF SnmpInv, SN!RoutesAgree
<1> QED
  BY <1>1, <1>9, <1>10, <1>11, <1>12 DEF SnmpInv

\* What is known of a notification of agent a: its engine is one the agent had, it comes from the
\* agent's address or through the forwarder, and names no other address.
MessageKnown(a, m) ==
    /\ m.peer \in {SN!Home[a], SN!Forwarder} /\ m.names \in {SN!None, SN!Home[a]}
    /\ m.kind \in {"community", "inform", "trap"}
    /\ m.kind = "trap" => m.engine \in Engine /\ m.engine.id[1] = a /\ Seen(m.engine)

LEMMA MessagesKnown ==
    ASSUME SnmpTypes, NEW a \in SN!Device, NEW m \in SN!Messages(a) PROVE MessageKnown(a, m)
<1>1. \A w \in SN!Ways(a) : w[1] \in {SN!Home[a], SN!Forwarder} /\ w[2] \in {SN!None, SN!Home[a]}
  BY DEF SN!Ways
<1>2. ASSUME NEW e \in SN!Engines(a) PROVE e \in Engine /\ e.id[1] = a /\ Seen(e)
  <2>1. agents[a] \in Engine /\ agents[a].id[2] \in Nat /\ agents[a].boots \in Nat
    BY DEF SnmpTypes, Engine
  <2>2. PICK g \in 1 .. agents[a].id[2], b \in 1 .. MaxBoots : e = [id |-> <<a, g>>, boots |-> b]
    BY DEF SN!Engines
  <2>3. ASSUME e.id = agents[a].id PROVE b <= agents[a].boots
    <3>1. e = [id |-> agents[a].id, boots |-> b]
      BY <2>2, <2>3
    <3>2. b \notin agents[a].boots + 1 .. MaxBoots
      BY <3>1 DEF SN!Engines
    <3> QED
      BY <2>1, <2>2, <3>2, SnmpAssumption
  <2>4. e \in Engine /\ e.id[1] = a
    BY <2>1, <2>2, SnmpAssumption DEF Engine
  <2>5. e.id[2] <= agents[a].id[2]
    BY <2>1, <2>2
  <2> QED
    BY <2>2, <2>3, <2>4, <2>5 DEF Seen
<1>3. CASE a \notin SN!V3
  <2>1. PICK c \in {"public", "other"}, w \in SN!Ways(a) :
           m = [kind |-> "community", community |-> c, peer |-> w[1], names |-> w[2]]
    BY <1>3 DEF SN!Messages
  <2> QED
    BY <1>1, <2>1 DEF MessageKnown
<1>4. CASE a \in SN!V3
  <2>1. \/ \E s \in BOOLEAN, w \in SN!Ways(a) :
              m = [kind |-> "inform", synced |-> s, peer |-> w[1], names |-> w[2]]
        \/ \E e \in SN!Engines(a), w \in SN!Ways(a) :
              m = [kind |-> "trap", engine |-> e, peer |-> w[1], names |-> w[2]]
    BY <1>4 DEF SN!Messages
  <2>2. CASE \E s \in BOOLEAN, w \in SN!Ways(a) :
              m = [kind |-> "inform", synced |-> s, peer |-> w[1], names |-> w[2]]
    BY <1>1, <2>2 DEF MessageKnown
  <2>3. CASE \E e \in SN!Engines(a), w \in SN!Ways(a) :
              m = [kind |-> "trap", engine |-> e, peer |-> w[1], names |-> w[2]]
    <3>1. PICK e \in SN!Engines(a), w \in SN!Ways(a) :
              m = [kind |-> "trap", engine |-> e, peer |-> w[1], names |-> w[2]]
      BY <2>3
    <3>2. m.kind = "trap" /\ m.engine = e /\ m.peer = w[1] /\ m.names = w[2]
      BY <3>1
    <3> QED
      BY <1>1, <1>2, <3>2 DEF MessageKnown
  <2> QED
    BY <2>1, <2>2, <2>3
<1> QED
  BY <1>3, <1>4

\* What one device makes of a notification.  A message that teaches it an engine comes, when it is the
\* device's own, from an agent the device was resolved to.
LEMMA ReceiveKnown ==
    ASSUME SnmpInv, NEW a \in SN!Device, NEW m, MessageKnown(a, m), NEW d \in SN!Device, NEW v3 \in KnownEngine,
           RouteKnown(d, v3)
    PROVE  LET got == SN!Receive(d, v3, m)
           IN /\ got.kind \in {"drop", "reply", "deliver"}
              /\ got.kind = "deliver" /\ by_addr[SN!Home[a]] = d => got.v3 \in KnownEngine /\ RouteKnown(d, got.v3)
              /\ m.kind = "inform" /\ ~m.synced => got.kind = IF d \in SN!V3 THEN "reply" ELSE "drop"
<1> DEFINE got == SN!Receive(d, v3, m)
<1>1. m.kind \in {"community", "inform", "trap"}
  BY DEF MessageKnown
<1>2. CASE m.kind = "community"
  <2>1. got = [kind |-> IF d = "plain" /\ m.community # "public" THEN "drop" ELSE "deliver", v3 |-> v3]
    BY <1>2 DEF SN!Receive
  <2> QED
    BY <1>2, <2>1
<1>3. CASE m.kind # "community" /\ d \notin SN!V3
  <2>1. got = [kind |-> "drop", v3 |-> v3]
    BY <1>3 DEF SN!Receive
  <2> QED
    BY <1>3, <2>1
<1>4. CASE m.kind = "inform" /\ d \in SN!V3
  <2>1. got = [kind |-> IF m.synced THEN "deliver" ELSE "reply", v3 |-> v3]
    BY <1>4 DEF SN!Receive
  <2> QED
    BY <1>4, <2>1
<1>5. CASE m.kind = "trap" /\ d \in SN!V3
  <2> DEFINE learned == SN!ReceiveTrap(v3, m.engine)
  <2>1. got = [kind |-> IF learned.ok THEN "deliver" ELSE "drop", v3 |-> learned.v3]
    BY <1>5 DEF SN!Receive
  <2>2. learned.ok = TRUE => learned.v3 = m.engine /\ (v3 # SN!NoEngine => v3.id = m.engine.id)
    BY DEF SN!ReceiveTrap
  <2>3. learned.ok \in BOOLEAN
    BY DEF SN!ReceiveTrap
  <2> HIDE DEF learned
  <2>4. got.kind \in {"drop", "reply", "deliver"} /\ (got.kind = "deliver" => learned.ok) /\ got.v3 = learned.v3
    BY <2>1
  <2> HIDE DEF got
  <2>5. ASSUME got.kind = "deliver", by_addr[SN!Home[a]] = d PROVE got.v3 \in KnownEngine /\ RouteKnown(d, got.v3)
    <3>1. got.v3 = m.engine /\ (v3 # SN!NoEngine => v3.id = m.engine.id)
      BY <2>2, <2>3, <2>4, <2>5
    <3>2. m.engine \in Engine /\ m.engine.id[1] = a /\ Seen(m.engine)
      BY <1>5 DEF MessageKnown
    <3>3. a \in met[d]
      <4>1. resolved[d] = SN!Home[a] /\ resolved[d] # SN!None
        BY <2>5, SnmpNames DEF SnmpInv, SN!RoutesAgree
      <4> QED
        BY <1>5, <4>1, SnmpNames DEF SnmpInv
    <3>4. m.engine # SN!NoEngine
      BY <3>2, NoEngineIsNone
    <3> QED
      BY <3>1, <3>2, <3>3, <3>4 DEF KnownEngine, RouteKnown
  <2> QED
    BY <1>5, <2>4, <2>5 DEF got
<1> QED
  BY <1>1, <1>2, <1>3, <1>4, <1>5

\* The state of a search for the device that a notification is for.
Search(acc) ==
    /\ acc \in [to : SN!Device \union {SN!None}, refusal : {"none", "drop", "reply"}, route : [SN!Device -> KnownEngine]]
    /\ \A d \in SN!Device : RouteKnown(d, acc.route[d])

\* A device tried keeps that.  An inform for an engine to be told is delivered to none, and once a
\* device with the user was tried it is answered.
LEMMA TryStep ==
    ASSUME SnmpInv, NEW a \in SN!Device, NEW m, MessageKnown(a, m), NEW d \in SN!Device, NEW acc, Search(acc),
           m.peer # SN!Forwarder => by_addr[m.peer] = d
    PROVE  LET next == SN!TryDevice(m, acc, d)
           IN /\ Search(next)
              /\ m.kind = "inform" /\ ~m.synced /\ acc.to = SN!None =>
                    next.to = SN!None /\ (d \in SN!V3 \/ acc.refusal = "reply" => next.refusal = "reply")
<1> DEFINE got == SN!Receive(d, acc.route[d], m)
           own == m.peer # SN!Forwarder \/ (m.names # SN!None /\ by_addr[m.names] = d)
           next == SN!TryDevice(m, acc, d)
<1>1. acc.route[d] \in KnownEngine /\ RouteKnown(d, acc.route[d])
  BY DEF Search
<1>2. /\ got.kind \in {"drop", "reply", "deliver"}
      /\ got.kind = "deliver" /\ by_addr[SN!Home[a]] = d => got.v3 \in KnownEngine /\ RouteKnown(d, got.v3)
      /\ m.kind = "inform" /\ ~m.synced => got.kind = IF d \in SN!V3 THEN "reply" ELSE "drop"
  BY <1>1, ReceiveKnown
<1>3. own => by_addr[SN!Home[a]] = d
  BY SnmpNames DEF MessageKnown
<1>4. acc.refusal \in {"none", "drop", "reply"} /\ acc.to \in SN!Device \union {SN!None}
  BY DEF Search
<1>5. CASE acc.to # SN!None
  <2>1. next = acc
    BY <1>5 DEF SN!TryDevice
  <2> QED
    BY <1>5, <2>1
<1>6. CASE acc.to = SN!None /\ got.kind # "deliver"
  <2> DEFINE refuses == IF SN!Outranks(acc.refusal, got.kind) THEN got.kind ELSE acc.refusal
  <2>1. next = [acc EXCEPT !.refusal = refuses]
    BY <1>6 DEF SN!TryDevice
  <2>2. /\ refuses \in {"none", "drop", "reply"}
        /\ got.kind = "reply" \/ acc.refusal = "reply" => refuses = "reply"
    BY <1>2, <1>4, <1>6 DEF SN!Outranks
  <2> HIDE DEF refuses, got, next
  <2>3. /\ next \in [to : SN!Device \union {SN!None}, refusal : {"none", "drop", "reply"}, route : [SN!Device -> KnownEngine]]
        /\ next.to = acc.to /\ next.route = acc.route /\ next.refusal = refuses
    BY <2>1, <2>2 DEF Search
  <2>4. Search(next)
    BY <2>3 DEF Search
  <2> QED
    BY <1>2, <1>6, <2>2, <2>3, <2>4 DEF next, got
<1>7. CASE acc.to = SN!None /\ got.kind = "deliver" /\ own
  <2>1. next = [acc EXCEPT !.to = d, !.route[d] = got.v3]
    BY <1>7 DEF SN!TryDevice
  <2>2. got.v3 \in KnownEngine /\ RouteKnown(d, got.v3)
    BY <1>2, <1>3, <1>7
  <2>3. ~(m.kind = "inform" /\ ~m.synced)
    BY <1>2, <1>7
  <2> HIDE DEF got, next
  <2>4. /\ next \in [to : SN!Device \union {SN!None}, refusal : {"none", "drop", "reply"}, route : [SN!Device -> KnownEngine]]
        /\ next.route = [acc.route EXCEPT ![d] = got.v3]
    BY <2>1, <2>2 DEF Search
  <2>5. \A e \in SN!Device : RouteKnown(e, next.route[e])
    <3>1. \A e \in SN!Device : next.route[e] = IF e = d THEN got.v3 ELSE acc.route[e]
      BY <2>4 DEF Search
    <3> QED
      BY <2>2, <3>1 DEF Search
  <2> QED
    BY <2>3, <2>4, <2>5 DEF Search, next
<1>8. CASE acc.to = SN!None /\ got.kind = "deliver" /\ ~own
  <2>1. next = acc
    BY <1>8 DEF SN!TryDevice
  <2> QED
    BY <1>2, <1>8, <2>1
<1> QED
  BY <1>4, <1>5, <1>6, <1>7, <1>8

\* The search through the candidates.
LEMMA TriedKnown ==
    ASSUME SnmpInv, route # SN!NoRoutes, NEW a \in SN!Device, NEW m, MessageKnown(a, m)
    PROVE  /\ Search(SN!Tried(m))
           /\ m.kind = "inform" /\ ~m.synced /\ SN!Candidates(m) \intersect SN!V3 # {} =>
                 SN!Tried(m).refusal = "reply"
<1> DEFINE none == [to |-> SN!None, refusal |-> "none", route |-> route]
           ask == m.kind = "inform" /\ ~m.synced
<1>1. Search(none) /\ none.to = SN!None
  BY DEF Search, SnmpInv, SnmpTypes
<1> HIDE DEF none
<1>2. CASE m.peer = SN!Forwarder
  <2> DEFINE first == SN!TryDevice(m, none, "plain")
             second == SN!TryDevice(m, first, "left")
             third == SN!TryDevice(m, second, "right")
  <2>1. SN!Tried(m) = third
    BY <1>2 DEF SN!Tried, none
  <2>2. "plain" \in SN!Device /\ "left" \in SN!V3 /\ "right" \in SN!V3 /\ SN!V3 \subseteq SN!Device
    BY SnmpNames
  <2>3. Search(first) /\ (ask => first.to = SN!None)
    BY <1>1, <1>2, <2>2, TryStep
  <2> HIDE DEF first
  <2>4. Search(second) /\ (ask => second.to = SN!None /\ second.refusal = "reply")
    BY <1>2, <2>2, <2>3, TryStep
  <2> HIDE DEF second
  <2>5. Search(third) /\ (ask => third.refusal = "reply")
    BY <1>2, <2>2, <2>4, TryStep
  <2> HIDE DEF third
  <2> QED
    BY <2>1, <2>5
<1>3. CASE m.peer # SN!Forwarder /\ by_addr[m.peer] # SN!None
  <2> DEFINE d == by_addr[m.peer]
  <2>1. d \in SN!Device
    <3>1. m.peer \in SN!Address
      BY <1>3, SnmpNames DEF MessageKnown
    <3> QED
      BY <1>3, <3>1 DEF SnmpInv, SnmpTypes
  <2>2. SN!Tried(m) = SN!TryDevice(m, none, d) /\ SN!Candidates(m) = {d}
    BY <1>3 DEF SN!Tried, SN!Candidates, none
  <2>3. SN!Candidates(m) \intersect SN!V3 # {} => d \in SN!V3
    BY <2>2
  <2> HIDE DEF d
  <2>4. /\ Search(SN!TryDevice(m, none, d))
        /\ ask /\ d \in SN!V3 => SN!TryDevice(m, none, d).refusal = "reply"
    BY <1>1, <2>1, TryStep DEF d
  <2> QED
    BY <2>2, <2>3, <2>4
<1>4. CASE m.peer # SN!Forwarder /\ by_addr[m.peer] = SN!None
  <2>1. SN!Tried(m) = none /\ SN!Candidates(m) = {}
    BY <1>4 DEF SN!Tried, SN!Candidates, none
  <2> QED
    BY <1>1, <2>1
<1> QED
  BY <1>2, <1>3, <1>4

\* A notification teaches at most the device that it is for.
LEMMA SnmpNotifyStep == ASSUME SnmpInv, NEW a \in SN!Device, SN!Notify(a) PROVE SnmpInv'
<1>1. PICK m \in SN!Messages(a) : SN!Handle(m)
  BY DEF SN!Notify
<1>2. /\ listener = "running" /\ route' = SN!Tried(m).route
      /\ ignored' = (ignored \/ (/\ m.kind = "inform" /\ ~m.synced /\ SN!Candidates(m) \intersect SN!V3 # {}
                                 /\ SN!Tried(m).to = SN!None /\ SN!Tried(m).refusal # "reply"))
      /\ resolved' = resolved /\ by_addr' = by_addr /\ sess' = sess /\ listener' = listener
      /\ polling' = polling /\ agents' = agents /\ met' = met /\ fresh' = fresh
  BY <1>1 DEF SN!Handle
<1>3. SnmpTypes /\ ~ignored /\ route # SN!NoRoutes
  BY <1>2 DEF SnmpInv
<1>4. MessageKnown(a, m)
  BY <1>3, MessagesKnown
<1>5. /\ Search(SN!Tried(m))
      /\ m.kind = "inform" /\ ~m.synced /\ SN!Candidates(m) \intersect SN!V3 # {} => SN!Tried(m).refusal = "reply"
  BY <1>3, <1>4, TriedKnown
<1>6. route' \in [SN!Device -> KnownEngine] /\ \A d \in SN!Device : RouteKnown(d, route'[d])
  BY <1>2, <1>5 DEF Search
<1>7. ~ignored'
  BY <1>2, <1>3, <1>5
<1>8. SnmpTypes'
  BY <1>2, <1>3, <1>6 DEF SnmpTypes
<1>9. SN!RoutesAgree'
  BY <1>2 DEF SnmpInv, SN!RoutesAgree
<1>10. \A d \in SN!Device : PollKnown(d)'
  BY <1>2 DEF SnmpInv, PollKnown, Seen
<1>11. \A d \in SN!Device : RouteKnown(d, route[d])'
  BY <1>2, <1>6 DEF RouteKnown, Seen
<1>12. route' # SN!NoRoutes
  BY <1>6, RoutesOfDevices
<1> QED
  BY <1>2, <1>7, <1>8, <1>9, <1>10, <1>11, <1>12 DEF SnmpInv

\* One step of the program.
LEMMA SnmpStep == ASSUME SnmpInv, SN!Next PROVE SnmpInv'
<1>1. /\ SN!V3 \subseteq SN!Device /\ "plain" \in SN!Device /\ "a1" \in SN!Address /\ Changing \subseteq SN!V3
      /\ \A d \in SN!Device : SN!Home[d] \in SN!Address
  BY SnmpNames, SnmpAssumption
<1>2. \A d \in SN!Device : SN!Lookups(d) \subseteq SN!Address \union {SN!None}
  BY <1>1, SnmpNames DEF SN!Lookups
<1>3. CASE \E left \in SN!Lookups("left"), right \in SN!Lookups("right") :
              SN!Connect([SN!Home EXCEPT !["left"] = left, !["right"] = right], TRUE)
  <2>1. PICK left \in SN!Lookups("left"), right \in SN!Lookups("right") :
           SN!Connect([SN!Home EXCEPT !["left"] = left, !["right"] = right], TRUE)
    BY <1>3
  <2> DEFINE lookup == [SN!Home EXCEPT !["left"] = left, !["right"] = right]
  <2>2. left \in SN!Address \union {SN!None} /\ right \in SN!Address \union {SN!None}
    BY <1>2, SnmpNames
  <2>3. \A d \in SN!Device : lookup[d] \in SN!Address \union {SN!None}
    BY <1>1, <2>2 DEF SN!Home, SN!Device
  <2> HIDE DEF lookup
  <2>4. SN!Connect(lookup, TRUE)
    BY <2>1 DEF lookup
  <2> QED
    BY <2>3, <2>4, SnmpConnectStep
<1>4. CASE SN!Connect(SN!Home, FALSE)
  BY <1>1, <1>4, SnmpConnectStep
<1>5. CASE SN!Disconnect
  BY <1>5, SnmpDisconnectStep
<1>6. CASE SN!ListenerFails
  BY <1>6, SnmpListenerStep
<1>7. CASE \E d \in SN!Device : \E ip \in SN!Lookups(d) : SN!Reconnect(d, ip, TRUE)
  BY <1>2, <1>7, SnmpReconnectStep
<1>8. CASE \E d \in SN!Device : listener # "running" /\ SN!Reconnect(d, SN!Home[d], FALSE)
  BY <1>1, <1>8, SnmpReconnectStep
<1>9. CASE \E d \in SN!V3 : SN!ReadBegins(d) \/ SN!ReadAnswered(d) \/ SN!ReadEnds(d)
  BY <1>9, SnmpReadBeginsStep, SnmpReadAnsweredStep, SnmpReadEndsStep
<1>10. CASE \E a \in SN!Device : SN!Notify(a)
  BY <1>10, SnmpNotifyStep
<1>11. CASE \E a \in Changing : SN!AgentRestarts(a) \/ SN!AgentReplaced(a)
  BY <1>1, <1>11, SnmpAgentStep
<1> QED
  BY <1>3, <1>4, <1>5, <1>6, <1>7, <1>8, <1>9, <1>10, <1>11 DEF SN!Next

\* The initial states: no device is resolved, and nothing is known.
LEMMA SnmpStart == SN!Init => SnmpInv
<1> SUFFICES ASSUME SN!Init PROVE SnmpInv
  OBVIOUS
<1>1. /\ resolved = [d \in SN!Device |-> SN!None] /\ by_addr = [a \in SN!Address |-> SN!None]
      /\ route = SN!NoRoutes /\ sess = [d \in SN!Device |-> SN!None] /\ listener = "none"
      /\ polling = [d \in SN!Device |-> SN!Idle]
      /\ agents = [d \in SN!Device |-> [id |-> <<d, 1>>, boots |-> 1]]
      /\ met = [d \in SN!V3 |-> {}] /\ fresh = [d \in SN!V3 |-> FALSE] /\ ignored = FALSE
  BY DEF SN!Init
<1>2. SN!Idle \in [at : SN!Address \union {SN!None}, engine : KnownEngine]
  BY NoEngineIsNone DEF SN!Idle
<1>3. agents \in [SN!Device -> Engine] /\ \A d \in SN!Device : agents[d].id[1] = d
  BY <1>1 DEF Engine
<1>4. SnmpTypes
  <2>1. polling \in [SN!Device -> [at : SN!Address \union {SN!None}, engine : KnownEngine]]
    BY <1>1, <1>2
  <2>2. met \in [SN!V3 -> SUBSET SN!Device] /\ fresh \in [SN!V3 -> BOOLEAN]
    BY <1>1
  <2> QED
    BY <1>1, <1>3, <2>1, <2>2 DEF SnmpTypes
<1>5. SN!RoutesAgree
  BY <1>1 DEF SN!RoutesAgree
<1>6. \A d \in SN!Device : PollKnown(d)
  BY <1>1 DEF PollKnown, SN!Idle
<1>7. \A d \in SN!V3 : resolved[d] = SN!None
  BY <1>1, SnmpNames
<1> QED
  BY <1>1, <1>4, <1>5, <1>6, <1>7 DEF SnmpInv

\* What the invariant says of the engines pinned, and of the traps of an agent that a poll has met.
LEMMA SnmpInvIsSound == SnmpInv => SnmpRouted
<1> SUFFICES ASSUME SnmpInv PROVE SnmpRouted
  OBVIOUS
<1>1. SN!RoutesAgree /\ SN!InformsAnswered
  BY DEF SnmpInv, SN!InformsAnswered
<1>2. SN!PinsOwn
  BY SnmpNames DEF SnmpInv, RouteKnown, SN!PinsOwn
<1>3. ASSUME route # SN!NoRoutes, NEW d \in SN!V3, fresh[d] PROVE SN!ReceiveTrap(route[d], agents[d]).ok
  <2>1. d \in SN!Device
    BY SnmpNames
  <2>2. RouteKnown(d, route[d]) /\ agents[d].id[1] = d /\ route[d] \in KnownEngine /\ agents[d] \in Engine
    BY <1>3, <2>1 DEF SnmpInv, SnmpTypes
  <2>3. route[d] # SN!NoEngine /\ route[d].id = agents[d].id /\ Seen(route[d])
    BY <1>3, <2>2 DEF RouteKnown
  <2>4. route[d].boots <= agents[d].boots
    BY <2>2, <2>3 DEF Seen
  <2>5. route[d].boots \in Nat /\ agents[d].boots \in Nat
    BY <2>2, <2>3 DEF KnownEngine, Engine
  <2>6. SN!ReceiveTrap(route[d], agents[d]) = [ok |-> TRUE, v3 |-> agents[d]]
    BY <2>3, <2>4, <2>5 DEF SN!ReceiveTrap
  <2> QED
    BY <2>6
<1>4. SN!TrapsAccepted
  BY <1>3 DEF SN!TrapsAccepted
<1> QED
  BY <1>1, <1>2, <1>4 DEF SnmpRouted, SN!SnmpSound

\* SNMP, for any number of agents' restarts and replacements: a device's requests and notifications use
\* one address that is no other's (RoutesAgree), its traps must come from an engine of an agent it was
\* resolved to (PinsOwn), those of an agent that a poll has met are accepted (TrapsAccepted), and whoever
\* asks for this receiver's engine is told (InformsAnswered).
THEOREM SnmpHolds == SN!Spec => []SnmpRouted
<1>1. SnmpInv /\ [SN!Next]_SN!vars => SnmpInv'
  <2> SUFFICES ASSUME SnmpInv, [SN!Next]_SN!vars PROVE SnmpInv'
    OBVIOUS
  <2>1. CASE SN!Next
    BY <2>1, SnmpStep
  <2>2. CASE UNCHANGED SN!vars
    <3>1. /\ resolved' = resolved /\ by_addr' = by_addr /\ route' = route /\ sess' = sess
          /\ listener' = listener /\ polling' = polling /\ agents' = agents /\ met' = met
          /\ fresh' = fresh /\ ignored' = ignored
      BY <2>2 DEF SN!vars
    <3>2. SnmpTypes' /\ SN!RoutesAgree'
      BY <3>1 DEF SnmpInv, SnmpTypes, SN!RoutesAgree
    <3>3. \A d \in SN!Device : PollKnown(d)'
      BY <3>1 DEF SnmpInv, PollKnown, Seen
    <3>4. route # SN!NoRoutes => \A d \in SN!Device : RouteKnown(d, route[d])'
      BY <3>1 DEF SnmpInv, RouteKnown, Seen
    <3> QED
      BY <3>1, <3>2, <3>3, <3>4 DEF SnmpInv
  <2> QED
    BY <2>1, <2>2
<1> QED
  BY <1>1, SnmpStart, SnmpInvIsSound, PTL DEF SN!Spec
=============================================================================
