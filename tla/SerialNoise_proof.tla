--------------------------- MODULE SerialNoise_proof ---------------------------
(***************************************************************************)
(* Proofs about SerialStream on a line with faults: what a damaged payload  *)
(* costs, and when the parser is in step again, for every width of a byte,  *)
(* every set of frames, any number of faults.                               *)
(***************************************************************************)
EXTENDS SerialStream_proof, FiniteSetTheorems, WellFoundedInduction

LEMMA Least ==
  ASSUME NEW T \in SUBSET Nat, T # {}
  PROVE  \E m \in T : \A n \in T : m <= n
<1> DEFINE R == OpToRel(<, Nat)
<1>1. IsWellFoundedOn(R, Nat)
  BY NatLessThanWellFounded
<1>2. \A x, y \in Nat : <<y, x>> \in R <=> y < x
  BY DEF OpToRel
<1> HIDE DEF R
<1>3. \E m \in T : \A y \in T : ~(<<y, m>> \in R)
  BY <1>1, WFMin
<1>4. PICK m \in T : \A y \in T : ~(<<y, m>> \in R)
  BY <1>3
<1>5. \A n \in T : ~(n < m)
  BY <1>2, <1>4
<1> QED
  BY <1>5

\* What holds of 0, and of n + 1 if of n, holds of all.
LEMMA Induction ==
  ASSUME NEW N \in Nat, NEW S, 0 \in S, \A n \in 1..N : n - 1 \in S => n \in S
  PROVE  0..N \subseteq S
<1> DEFINE T == (0..N) \ S
<1> SUFFICES ASSUME T # {} PROVE FALSE
  OBVIOUS
<1>1. PICK m \in T : \A n \in T : m <= n
  <2>1. T \in SUBSET Nat
    OBVIOUS
  <2> HIDE DEF T
  <2> QED
    BY <2>1, Least
<1>2. m \in 1..N /\ m - 1 \in 0..N /\ ~(m <= m - 1)
  OBVIOUS
<1> QED
  BY <1>1, <1>2

\* The checksums of the first bytes of d, up to the m-th.
Partial(d, m, c) ==
  /\ c \in [0..m -> Byte] /\ c[0] = 0
  /\ \A n \in 1..m : c[n] = XorByte(c[n - 1], d[n])

LEMMA PartialExists ==
  ASSUME NEW d \in Seq(Byte)
  PROVE  \E c : Partial(d, Len(d), c)
<1> DEFINE N == Len(d)
           S == {m \in 0..N : \E c : Partial(d, m, c)}
<1>0. N \in Nat
  OBVIOUS
<1>1. 0 \in S
  <2> DEFINE c == [n \in 0..0 |-> 0]
  <2>1. Partial(d, 0, c)
    BY ByteTypes DEF Partial
  <2> QED
    BY <1>0, <2>1
<1>2. ASSUME NEW m \in 1..N, m - 1 \in S PROVE m \in S
  <2>1. PICK c : Partial(d, m - 1, c)
    BY <1>2
  <2> DEFINE e == [n \in 0..m |-> IF n = m THEN XorByte(c[m - 1], d[m]) ELSE c[n]]
  <2>2. c[m - 1] \in Byte /\ d[m] \in Byte
    BY <2>1 DEF Partial
  <2>3. e \in [0..m -> Byte]
    BY <2>1, <2>2, XorAssumption DEF Partial
  <2>4. e[0] = 0
    BY <2>1 DEF Partial
  <2>5. ASSUME NEW n \in 1..m PROVE e[n] = XorByte(e[n - 1], d[n])
    <3>1. CASE n = m
      BY <3>1
    <3>2. CASE n # m
      <4>1. n \in 1..(m - 1) /\ n - 1 \in 0..(m - 1)
        BY <3>2
      <4>2. e[n] = c[n] /\ e[n - 1] = c[n - 1]
        BY <4>1
      <4>3. c[n] = XorByte(c[n - 1], d[n])
        BY <2>1, <4>1 DEF Partial
      <4> QED
        BY <4>2, <4>3
    <3> QED
      BY <3>1, <3>2
  <2>6. Partial(d, m, e)
    BY <2>3, <2>4, <2>5 DEF Partial
  <2> QED
    BY <2>6
<1>3. 0..N \subseteq S
  <2> HIDE DEF S, N
  <2> QED
    BY <1>0, <1>1, <1>2, Induction
<1> QED
  BY <1>0, <1>3

LEMMA CheckIs ==
  ASSUME NEW d \in Seq(Byte)
  PROVE  \E c : Partial(d, Len(d), c) /\ calculateXORcheck(d) = c[Len(d)]
<1> DEFINE N == Len(d)
           Def(c) == [n \in 0..N |-> IF n = 0 THEN 0 ELSE XorByte(c[n - 1], d[n])]
           check == CHOOSE c : c = Def(c)
<1>0. N \in Nat
  OBVIOUS
<1>1. PICK c : Partial(d, N, c)
  BY PartialExists
<1>2. c = Def(c)
  <2>1. \A n \in 0..N : c[n] = Def(c)[n] 
    BY <1>1 DEF Partial
  <2> QED
    BY <1>1, <2>1 DEF Partial
<1>3. check = Def(check) 
  <2> HIDE DEF Def
  <2> QED
    BY <1>2
<1>4. calculateXORcheck(d) = check[N]
  BY DEF calculateXORcheck
<1> HIDE DEF check
<1>5. DOMAIN check = 0..N
  BY <1>3
<1>6. \A n \in 0..N : check[n] = IF n = 0 THEN 0 ELSE XorByte(check[n - 1], d[n])
  BY <1>3
<1>7. check[0] = 0 /\ \A n \in 1..N : check[n] = XorByte(check[n - 1], d[n])
  BY <1>0, <1>6
<1>8. \A n \in 0..N : check[n] \in Byte
  <2> DEFINE S == {n \in 0..N : check[n] \in Byte}
  <2>1. 0 \in S
    BY <1>0, <1>7, ByteTypes
  <2>2. ASSUME NEW n \in 1..N, n - 1 \in S PROVE n \in S
    <3>1. d[n] \in Byte
      OBVIOUS
    <3> QED
      BY <1>7, <2>2, <3>1, XorAssumption
  <2>3. 0..N \subseteq S
    <3> HIDE DEF S, N
    <3> QED
      BY <1>0, <2>1, <2>2, Induction
  <2> QED
    BY <2>3
<1>9. check \in [0..N -> Byte]
  BY <1>3, <1>8
<1> QED
  BY <1>4, <1>7, <1>9 DEF Partial

\* A single changed byte shows.
LEMMA OneByteShows ==
  ASSUME NEW d \in Seq(Byte), NEW e \in Seq(Byte), Len(d) = Len(e), NEW p \in 1..Len(d),
         d[p] # e[p], \A i \in 1..Len(d) : i # p => d[i] = e[i]
  PROVE  calculateXORcheck(d) # calculateXORcheck(e)
<1> DEFINE N == Len(d)
<1>0. N \in Nat
  OBVIOUS
<1>1. PICK c : Partial(d, N, c) /\ calculateXORcheck(d) = c[N]
  BY CheckIs
<1>2. PICK h : Partial(e, N, h) /\ calculateXORcheck(e) = h[N]
  BY CheckIs
<1> DEFINE S == {n \in 0..N : IF n < p THEN c[n] = h[n] ELSE c[n] # h[n]}
<1>3. 0 \in S
  BY <1>0, <1>1, <1>2 DEF Partial
<1>4. ASSUME NEW n \in 1..N, n - 1 \in S PROVE n \in S
  <2>1. /\ c[n] = XorByte(c[n - 1], d[n]) /\ h[n] = XorByte(h[n - 1], e[n])
        /\ c[n - 1] \in Byte /\ h[n - 1] \in Byte /\ d[n] \in Byte /\ e[n] \in Byte
    BY <1>1, <1>2 DEF Partial
  <2>2. CASE n < p
    <3>1. n - 1 < p /\ d[n] = e[n]
      BY <2>2
    <3> QED
      BY <1>4, <2>1, <2>2, <3>1
  <2>3. CASE n = p
    <3>1. c[n - 1] = h[n - 1]
      BY <1>4, <2>3
    <3>2. d[n] # e[n]
      BY <2>3
    <3>3. XorByte(c[n - 1], d[n]) # XorByte(c[n - 1], e[n])
      BY <2>1, <3>2, XorAssumption
    <3>4. c[n] # h[n]
      BY <2>1, <3>1, <3>3
    <3> QED
      BY <2>3, <3>4
  <2>4. CASE n > p
    <3>1. c[n - 1] # h[n - 1] /\ d[n] = e[n]
      BY <1>4, <2>4
    <3>2. c[n] # h[n]
      BY <2>1, <3>1, XorAssumption
    <3> QED
      BY <2>4, <3>2
  <2> QED
    BY <2>2, <2>3, <2>4
<1>5. 0..N \subseteq S
  <2> HIDE DEF S, N
  <2> QED
    BY <1>0, <1>3, <1>4, Induction
<1>6. N \in S
  BY <1>0, <1>5
<1> QED
  BY <1>1, <1>2, <1>6
-----------------------------------------------------------------------------
\* What frame i is on the line: as it was sent, or with one wrong byte behind
\* its head.
Wrong(i) == {k \in 1..Len(Encode(frames[i])) : written[i][k] # Encode(frames[i])[k]}

OnLine(i) ==
  /\ Len(written[i]) = Len(Encode(frames[i]))
  /\ IF i \in damaged THEN \E p \in 5..Len(Encode(frames[i])) : Wrong(i) = {p}
                      ELSE Wrong(i) = {}

DataWhole(i) == \A k \in 1..Len(frames[i].data) : written[i][4 + k] = frames[i].data[k]

LEMMA LineBytes ==
  ASSUME frames \in Seq(Frames), NEW i \in 1..Len(frames), OnLine(i)
  PROVE  LET d == frames[i].data
             n == Len(d)
             w == written[i]
         IN  /\ frames[i] \in Frames /\ d \in Seq(Byte) /\ n \in 1..MaxLength /\ n \in Nat
             /\ Len(w) = n + 6
             /\ w[1] = Head0 /\ w[2] = Head1 /\ w[4] = n
             /\ i \notin damaged =>
                  DataWhole(i) /\ w[5 + n] = calculateXORcheck(d) /\ w[6 + n] = End0
             /\ i \in damaged =>
                  \/ /\ w[5 + n] = calculateXORcheck(d) /\ w[6 + n] = End0
                     /\ \E p \in 1..n : /\ w[4 + p] # d[p]
                                        /\ \A k \in 1..n : k # p => w[4 + k] = d[k]
                  \/ DataWhole(i) /\ w[5 + n] # calculateXORcheck(d) /\ w[6 + n] = End0
                  \/ DataWhole(i) /\ w[5 + n] = calculateXORcheck(d) /\ w[6 + n] # End0
<1>1. PICK f, d, n, w, e : /\ f = frames[i] /\ d = f.data /\ n = Len(d) /\ w = written[i]
                           /\ e = Encode(f)
  OBVIOUS
<1>2. f \in Frames /\ d \in Seq(Byte) /\ n \in 1..MaxLength /\ n \in Nat
  BY <1>1, SerialAssumption DEF SerialAssumption
<1>3. /\ Len(e) = n + 6
      /\ e[1] = Head0 /\ e[2] = Head1 /\ e[4] = n
      /\ \A k \in 1..n : e[4 + k] = d[k]
      /\ e[5 + n] = calculateXORcheck(d)
      /\ e[6 + n] = End0
  BY <1>1, <1>2, EncodeBytes
<1>4. PICK W : W = Wrong(i) /\ Len(w) = n + 6
  BY <1>1, <1>3 DEF OnLine
<1>5. \A k \in 1..(n + 6) : k \in W <=> w[k] # e[k]
  BY <1>1, <1>3, <1>4 DEF Wrong
<1>6. /\ \A k \in 1..4 : k \in 1..(n + 6)
      /\ \A k \in 1..n : 4 + k \in 1..(n + 6)
      /\ 5 + n \in 1..(n + 6) /\ 6 + n \in 1..(n + 6)
  BY <1>2
<1>7. DataWhole(i) <=> \A k \in 1..n : w[4 + k] = d[k]
  BY <1>1 DEF DataWhole
<1>8. W \cap (1..4) = {}
  BY <1>1, <1>2, <1>3, <1>4 DEF OnLine
<1>9. w[1] = Head0 /\ w[2] = Head1 /\ w[4] = n
  BY <1>3, <1>5, <1>6, <1>8
<1>10. ASSUME i \notin damaged
       PROVE  DataWhole(i) /\ w[5 + n] = calculateXORcheck(d) /\ w[6 + n] = End0
  <2>1. W = {}
    BY <1>4, <1>10 DEF OnLine
  <2>2. QED
    BY <1>3, <1>5, <1>6, <1>7, <2>1
<1>11. ASSUME i \in damaged
       PROVE  \/ /\ w[5 + n] = calculateXORcheck(d) /\ w[6 + n] = End0
                 /\ \E p \in 1..n : /\ w[4 + p] # d[p]
                                    /\ \A k \in 1..n : k # p => w[4 + k] = d[k]
              \/ DataWhole(i) /\ w[5 + n] # calculateXORcheck(d) /\ w[6 + n] = End0
              \/ DataWhole(i) /\ w[5 + n] = calculateXORcheck(d) /\ w[6 + n] # End0
  <2>1. PICK p \in 5..(n + 6) : W = {p}
    BY <1>1, <1>3, <1>4, <1>11 DEF OnLine
  <2>2. CASE p \in 5..(4 + n)
    <3>1. PICK q \in 1..n : p = 4 + q
      <4>1. p - 4 \in 1..n /\ p = 4 + (p - 4)
        BY <1>2, <2>2
      <4>2. QED
        BY <4>1
    <3>2. p # 5 + n /\ p # 6 + n /\ \A k \in 1..n : k # q => 4 + k # p
      BY <1>2, <3>1
    <3>3. w[4 + q] # d[q]
      BY <1>3, <1>5, <1>6, <2>1, <3>1
    <3>4. \A k \in 1..n : k # q => w[4 + k] = d[k]
      BY <1>3, <1>5, <1>6, <2>1, <3>2
    <3>5. w[5 + n] = calculateXORcheck(d) /\ w[6 + n] = End0
      BY <1>3, <1>5, <1>6, <2>1, <3>2
    <3>6. QED
      BY <3>3, <3>4, <3>5
  <2>3. CASE p \in {5 + n, 6 + n}
    <3>1. 5 + n # 6 + n /\ \A k \in 1..n : 4 + k # p
      BY <1>2, <2>3
    <3>2. DataWhole(i)
      BY <1>3, <1>5, <1>6, <1>7, <2>1, <3>1
    <3>3. QED
      BY <1>3, <1>5, <1>6, <2>1, <2>3, <3>1, <3>2
  <2>4. QED
    BY <1>2, <2>1, <2>2, <2>3
<1>12. QED
  BY <1>1, <1>2, <1>4, <1>9, <1>10, <1>11

\* The parser is in step: it reads the byte its state is for, or it has given a
\* damaged frame up and only the end byte is left of it.
InStep ==
  LET d == frames[fno].data
      n == Len(d)
      w == written[fno]
  IN  /\ read_state_ # "WAIT_HEAD_0" => fno <= Len(frames)
      /\ read_state_ = "WAIT_HEAD_0" =>
           \/ off = 1
           \/ fno <= Len(frames) /\ fno \in damaged /\ off = 6 + n /\ w[6 + n] = End0
      /\ read_state_ = "WAIT_HEAD_1" => off = 2
      /\ read_state_ = "WAIT_FRAME_ID" => off = 3
      /\ read_state_ = "WAIT_LENGTH" => off = 4
      /\ read_state_ = "WAIT_DATA" =>
           /\ off = 5 + rx_index_ /\ target_length_ = n /\ rx_index_ \in 0..(n - 1)
           /\ \A k \in 1..rx_index_ : rx_buffer_[k] = w[4 + k]
      /\ read_state_ = "WAIT_CHECKSUM" =>
           /\ off = 5 + n /\ target_length_ = n
           /\ \A k \in 1..n : rx_buffer_[k] = w[4 + k]
      /\ read_state_ = "WAIT_END" =>
           /\ off = 6 + n /\ target_length_ = n
           /\ Received = d
           /\ fno \in damaged => w[6 + n] # End0

Payloads == [id : Byte, length : Byte, data : Seq(Byte)]

LEMMA ReceivedBytes ==
  ASSUME ParserOK
  PROVE  /\ Received \in Seq(Byte) /\ Len(Received) = target_length_
         /\ \A k \in 1..target_length_ : Received[k] = rx_buffer_[k]
<1>1. PICK t : t = target_length_ /\ t \in 0..MaxLength /\ t \in Nat
  BY ByteTypes DEF ParserOK
<1>2. rx_buffer_ \in [1..MaxLength -> Byte] /\ 1..t \subseteq 1..MaxLength
  BY <1>1, ByteTypes DEF ParserOK
<1>3. Received = [k \in 1..t |-> rx_buffer_[k]]
  BY <1>1 DEF Received
<1>4. QED
  BY <1>1, <1>2, <1>3

LEMMA DeliveredStays ==
  ASSUME ParserOK, delivered \in Seq(Payloads), ReadByte
  PROVE  /\ delivered' \in Seq(Payloads)
         /\ \/ delivered' = delivered
            \/ \E r \in Payloads : delivered' = Append(delivered, r)
<1>1. CASE WaitEnd
  <2>1. PICK r : r = [id |-> call.id, length |-> call.length, data |-> Received]
    OBVIOUS
  <2>2. r \in Payloads
    BY <2>1, ReceivedBytes DEF ParserOK, Payloads
  <2>3. delivered' \in {delivered, Append(delivered, r)}
    BY <1>1, <2>1 DEF WaitEnd
  <2>4. QED
    BY <2>2, <2>3
<1>2. QED
  BY <1>1 DEF ReadByte, WaitHead0, WaitHead1, WaitFrameId, WaitLength, WaitData, WaitChecksum

\* What the checksum says of the data read before it.
LEMMA ChecksumTells ==
  ASSUME NoisyInv, InStep, read_state_ = "WAIT_CHECKSUM", OnLine(fno), fno \in 1..Len(frames)
  PROVE  LET n == Len(frames[fno].data)
             w == written[fno]
         IN  IF calculateXORcheck(Received) = w[5 + n]
               THEN Received = frames[fno].data /\ (fno \in damaged => w[6 + n] # End0)
               ELSE fno \in damaged /\ w[6 + n] = End0
<1>1. PICK d, n, w : d = frames[fno].data /\ n = Len(d) /\ w = written[fno]
  OBVIOUS
<1>2. /\ d \in Seq(Byte) /\ n \in Nat
      /\ fno \notin damaged =>
           DataWhole(fno) /\ w[5 + n] = calculateXORcheck(d) /\ w[6 + n] = End0
      /\ fno \in damaged =>
           \/ /\ w[5 + n] = calculateXORcheck(d) /\ w[6 + n] = End0
              /\ \E p \in 1..n : /\ w[4 + p] # d[p]
                                 /\ \A k \in 1..n : k # p => w[4 + k] = d[k]
           \/ DataWhole(fno) /\ w[5 + n] # calculateXORcheck(d) /\ w[6 + n] = End0
           \/ DataWhole(fno) /\ w[5 + n] = calculateXORcheck(d) /\ w[6 + n] # End0
  BY <1>1, LineBytes DEF NoisyInv, PlaceOK
<1>3. PICK r : r = Received
  OBVIOUS
<1>4. r \in Seq(Byte) /\ Len(r) = n /\ \A k \in 1..n : r[k] = w[4 + k]
  BY <1>1, <1>3, ReceivedBytes DEF InStep, NoisyInv
<1>5. CASE DataWhole(fno)
  <2>1. \A k \in 1..n : r[k] = d[k]
    BY <1>1, <1>4, <1>5 DEF DataWhole
  <2>2. r = d
    BY <1>1, <1>2, <1>4, <2>1
  <2>3. IF calculateXORcheck(r) = w[5 + n]
          THEN r = d /\ (fno \in damaged => w[6 + n] # End0)
          ELSE fno \in damaged /\ w[6 + n] = End0
    <3>1. calculateXORcheck(r) = calculateXORcheck(d)
      BY <2>2
    <3>2. PICK x : x = calculateXORcheck(d)
      OBVIOUS
    <3>3. CASE fno \in damaged
      <4>1. \/ w[5 + n] # x /\ w[6 + n] = End0
            \/ w[5 + n] = x /\ w[6 + n] # End0
        <5>1. ASSUME NEW p \in 1..n PROVE w[4 + p] = d[p]
          BY <1>1, <1>5 DEF DataWhole
        <5>2. QED
          BY <1>2, <3>2, <3>3, <5>1
      <4>2. QED
        BY <2>2, <3>1, <3>2, <3>3, <4>1
    <3>4. CASE fno \notin damaged
      BY <1>2, <2>2, <3>1, <3>4
    <3>5. QED
      BY <3>3, <3>4
  <2>4. QED
    BY <1>1, <1>3, <2>3
<1>6. CASE ~DataWhole(fno)
  <2>1. /\ fno \in damaged /\ w[5 + n] = calculateXORcheck(d) /\ w[6 + n] = End0
        /\ \E p \in 1..n : w[4 + p] # d[p] /\ \A k \in 1..n : k # p => w[4 + k] = d[k]
    BY <1>2, <1>6
  <2>2. PICK p \in 1..n : r[p] # d[p] /\ \A k \in 1..n : k # p => r[k] = d[k]
    BY <1>4, <2>1
  <2>3. Len(r) = Len(d) /\ p \in 1..Len(r) /\ \A k \in 1..Len(r) : k # p => r[k] = d[k]
    BY <1>1, <1>4, <2>2
  <2>4. calculateXORcheck(r) # calculateXORcheck(d)
    BY <1>2, <1>4, <2>2, <2>3, OneByteShows
  <2>5. QED
    BY <1>1, <1>3, <2>1, <2>4
<1>7. QED
  BY <1>5, <1>6

\* In step, a frame that is whole is delivered when its last byte is read, and
\* a damaged one is not.
ReadOn ==
  /\ UNCHANGED <<frames, written, damaged>>
  /\ \/ fno' = fno /\ delivered' = delivered
     \/ /\ fno' = fno + 1 /\ off' = 1 /\ fno <= Len(frames)
        /\ IF fno \in damaged
             THEN delivered' = delivered
             ELSE \E r \in Payloads : r.data = frames[fno].data /\ delivered' = Append(delivered, r)

LEMMA ReadsOn ==
  ASSUME NoisyInv, InStep, fno <= Len(frames) => OnLine(fno), ReadByte
  PROVE  InStep' /\ ReadOn
<1> USE DEF ReadStates
<1>1. PICK b \in Byte : NextByte(b)
  BY DEF ReadByte, WaitHead0, WaitHead1, WaitFrameId, WaitLength, WaitData, WaitChecksum, WaitEnd
<1>2. /\ UNCHANGED <<frames, written, damaged>> /\ fno \in 1..Len(frames) /\ fno \in Nat
      /\ frames \in Seq(Frames) /\ fno' \in {fno, fno + 1} /\ off \in Nat
  BY <1>1 DEF NextByte, line, NoisyInv, PlaceOK
<1>3. PICK d, n, w : d = frames[fno].data /\ n = Len(d) /\ w = written[fno]
  OBVIOUS
<1>4. /\ frames[fno] \in Frames /\ d \in Seq(Byte) /\ n \in 1..MaxLength /\ n \in Nat
      /\ Len(w) = n + 6
      /\ w[1] = Head0 /\ w[2] = Head1 /\ w[4] = n
      /\ fno \notin damaged => w[6 + n] = End0
  BY <1>2, <1>3, LineBytes
<1>5. /\ b = w[off]
      /\ IF off = n + 6 THEN fno' = fno + 1 /\ off' = 1 ELSE fno' = fno /\ off' = off + 1
  BY <1>1, <1>3, <1>4 DEF NextByte
<1>6. End0 # Head0 /\ Head1 # Head0 /\ MaxLength \in Nat
  BY SerialAssumption, ByteTypes DEF SerialAssumption
<1>7. CASE WaitHead0
  <2>1. /\ read_state_ = "WAIT_HEAD_0" /\ delivered' = delivered
        /\ UNCHANGED <<rx_index_, target_length_, rx_buffer_>>
    BY <1>7 DEF WaitHead0
  <2>2. read_state_' = IF b = Head0 THEN "WAIT_HEAD_1" ELSE "WAIT_HEAD_0"
    BY <1>1, <1>7 DEF WaitHead0, NextByte
  <2>3. CASE off = 1
    <3>1. fno' = fno /\ off' = 2 /\ read_state_' = "WAIT_HEAD_1"
      BY <1>4, <1>5, <2>2, <2>3
    <3>2. QED
      BY <1>2, <2>1, <3>1 DEF InStep, ReadOn
  <2>4. CASE off # 1
    <3>1. fno \in damaged /\ off = 6 + n /\ w[6 + n] = End0
      BY <1>3, <2>1, <2>4 DEF InStep
    <3>2. fno' = fno + 1 /\ off' = 1 /\ read_state_' = "WAIT_HEAD_0"
      BY <1>4, <1>5, <1>6, <2>2, <3>1
    <3>3. QED
      BY <1>2, <2>1, <3>1, <3>2 DEF InStep, ReadOn
  <2>5. QED
    BY <2>3, <2>4
<1>8. CASE WaitHead1
  <2>1. /\ read_state_ = "WAIT_HEAD_1" /\ off = 2 /\ delivered' = delivered
        /\ UNCHANGED <<rx_index_, target_length_, rx_buffer_>>
    BY <1>8 DEF WaitHead1, InStep
  <2>2. read_state_' = IF b = Head1 THEN "WAIT_FRAME_ID" ELSE "WAIT_HEAD_0"
    BY <1>1, <1>8 DEF WaitHead1, NextByte
  <2>3. fno' = fno /\ off' = 3 /\ read_state_' = "WAIT_FRAME_ID"
    BY <1>4, <1>5, <2>1, <2>2
  <2>4. QED
    BY <1>2, <2>1, <2>3 DEF InStep, ReadOn
<1>9. CASE WaitFrameId
  <2>1. /\ read_state_ = "WAIT_FRAME_ID" /\ off = 3 /\ delivered' = delivered
        /\ read_state_' = "WAIT_LENGTH"
    BY <1>9 DEF WaitFrameId, InStep
  <2>2. fno' = fno /\ off' = 4
    BY <1>4, <1>5, <2>1
  <2>3. QED
    BY <1>2, <2>1, <2>2 DEF InStep, ReadOn
<1>10. CASE WaitLength
  <2>1. read_state_ = "WAIT_LENGTH" /\ off = 4 /\ delivered' = delivered
    BY <1>10 DEF WaitLength, InStep
  <2>2. fno' = fno /\ off' = 5 /\ b = n /\ ~(b > MaxLength)
    BY <1>4, <1>5, <1>6, <2>1
  <2>3. read_state_' = "WAIT_DATA" /\ target_length_' = n /\ rx_index_' = 0
    BY <1>1, <1>10, <2>2 DEF WaitLength, NextByte
  <2>4. 0 \in 0..(n - 1) /\ 5 = 5 + 0 /\ 1..0 = {}
    BY <1>4, <1>6
  <2>5. QED
    BY <1>2, <1>3, <2>1, <2>2, <2>3, <2>4 DEF InStep, ReadOn
<1>11. CASE WaitData
  <2>1. /\ read_state_ = "WAIT_DATA" /\ rx_index_' = rx_index_ + 1
        /\ read_state_' = IF rx_index_' >= target_length_ THEN "WAIT_CHECKSUM" ELSE "WAIT_DATA"
        /\ UNCHANGED <<target_length_, delivered>>
    BY <1>11 DEF WaitData
  <2>2. /\ off = 5 + rx_index_ /\ target_length_ = n /\ rx_index_ \in 0..(n - 1)
        /\ \A k \in 1..rx_index_ : rx_buffer_[k] = w[4 + k]
    BY <1>3, <2>1 DEF InStep
  <2>3. fno' = fno /\ off' = 6 + rx_index_ /\ b = w[4 + (rx_index_ + 1)]
    <3>1. off # n + 6 /\ off + 1 = 6 + rx_index_ /\ off = 4 + (rx_index_ + 1)
      BY <1>4, <2>2
    <3>2. QED
      BY <1>5, <3>1
  <2>4. rx_buffer_' = [rx_buffer_ EXCEPT ![rx_index_ + 1] = b]
    BY <1>1, <1>11 DEF WaitData, NextByte
  <2>5. rx_buffer_ \in [1..MaxLength -> Byte] /\ rx_index_ + 1 \in 1..MaxLength
    BY <1>4, <1>6, <2>2 DEF NoisyInv, ParserOK
  <2>6. \A k \in 1..(rx_index_ + 1) : rx_buffer_'[k] = w[4 + k]
    BY <1>4, <1>6, <2>2, <2>3, <2>4, <2>5
  <2>7. CASE rx_index_ + 1 = n
    <3>1. read_state_' = "WAIT_CHECKSUM" /\ off' = 5 + n
      BY <1>4, <2>1, <2>2, <2>3, <2>7
    <3>2. QED
      BY <1>2, <1>3, <2>1, <2>2, <2>3, <2>6, <2>7, <3>1 DEF InStep, ReadOn
  <2>8. CASE rx_index_ + 1 # n
    <3>1. /\ read_state_' = "WAIT_DATA" /\ off' = 5 + rx_index_'
          /\ rx_index_' \in 0..(n - 1)
      BY <1>4, <2>1, <2>2, <2>3, <2>8
    <3>2. QED
      BY <1>2, <1>3, <2>1, <2>2, <2>3, <2>6, <3>1 DEF InStep, ReadOn
  <2>9. QED
    BY <2>7, <2>8
<1>12. CASE WaitChecksum
  <2>1. /\ read_state_ = "WAIT_CHECKSUM" /\ off = 5 + n /\ target_length_ = n
        /\ UNCHANGED <<rx_index_, target_length_, rx_buffer_, delivered>>
    BY <1>3, <1>12 DEF WaitChecksum, InStep
  <2>2. fno' = fno /\ off' = 6 + n /\ b = w[5 + n] /\ off' # 1
    BY <1>4, <1>5, <2>1
  <2>3. read_state_' = IF calculateXORcheck(Received) = b THEN "WAIT_END" ELSE "WAIT_HEAD_0"
    BY <1>1, <1>12 DEF WaitChecksum, NextByte
  <2>4. IF calculateXORcheck(Received) = w[5 + n]
          THEN Received = d /\ (fno \in damaged => w[6 + n] # End0)
          ELSE fno \in damaged /\ w[6 + n] = End0
    BY <1>2, <1>3, <2>1, ChecksumTells
  <2>5. Received' = Received
    BY <2>1 DEF Received
  <2>6. \/ read_state_' = "WAIT_END" /\ Received = d /\ (fno \in damaged => w[6 + n] # End0)
        \/ read_state_' = "WAIT_HEAD_0" /\ fno \in damaged /\ w[6 + n] = End0
    BY <2>2, <2>3, <2>4
  <2>7. QED
    BY <1>2, <1>3, <2>1, <2>2, <2>5, <2>6 DEF InStep, ReadOn
<1>13. CASE WaitEnd
  <2>1. /\ read_state_ = "WAIT_END" /\ off = 6 + n /\ target_length_ = n /\ Received = d
        /\ read_state_' = "WAIT_HEAD_0"
        /\ fno \in damaged => w[6 + n] # End0
    BY <1>3, <1>13 DEF WaitEnd, InStep
  <2>2. fno' = fno + 1 /\ off' = 1 /\ b = w[6 + n]
    BY <1>4, <1>5, <2>1
  <2>3. PICK r : r = [id |-> call.id, length |-> call.length, data |-> Received]
    OBVIOUS
  <2>4. r \in Payloads /\ r.data = d
    BY <2>1, <2>3, ReceivedBytes DEF NoisyInv, ParserOK, Payloads
  <2>5. delivered' = IF b = End0 THEN Append(delivered, r) ELSE delivered
    BY <1>1, <1>13, <2>3 DEF WaitEnd, NextByte
  <2>6. InStep'
    BY <2>1, <2>2 DEF InStep
  <2>7. IF fno \in damaged THEN delivered' = delivered ELSE delivered' = Append(delivered, r)
    BY <1>4, <2>1, <2>2, <2>5
  <2>8. ReadOn
    BY <1>2, <1>3, <2>2, <2>4, <2>7 DEF ReadOn
  <2>9. QED
    BY <2>6, <2>8
<1>14. QED
  BY <1>7, <1>8, <1>9, <1>10, <1>11, <1>12, <1>13 DEF ReadByte
-----------------------------------------------------------------------------
LEMMA OnLineKept ==
  ASSUME NEW i, OnLine(i), written'[i] = written[i], frames'[i] = frames[i],
         i \in damaged' <=> i \in damaged
  PROVE  OnLine(i)'
BY DEF OnLine, Wrong

\* A frame that is sent stands behind the others as it was encoded.
LEMMA SendsOn ==
  ASSUME NoisyInv, NEW f \in Frames, Send(f)
  PROVE  /\ Len(frames') = Len(frames) + 1 /\ Len(frames) \in Nat
         /\ UNCHANGED <<fno, off, parser, delivered, damaged, faults, mark>>
         /\ \A i \in 1..Len(frames) : frames'[i] = frames[i] /\ written'[i] = written[i]
         /\ \A i \in 1..Len(frames) : OnLine(i) => OnLine(i)'
         /\ OnLine(Len(frames))'
         /\ InStep => InStep'
<1>1. /\ frames' = Append(frames, f) /\ written' = Append(written, Encode(f))
      /\ UNCHANGED <<fno, off, parser, delivered, damaged, faults, mark>>
      /\ frames \in Seq(Frames) /\ written \in Seq(Seq(Values))
      /\ Len(written) = Len(frames) /\ Len(frames) \in Nat
      /\ damaged \subseteq 1..Len(frames)
  BY DEF Send, NoisyInv, PlaceOK, LineShape, FaultsOK
<1>2. PICK l : l = Len(frames) + 1 /\ l \notin 1..Len(frames)
  BY <1>1
<1>3. /\ Len(frames') = l /\ frames'[l] = f /\ written'[l] = Encode(f)
      /\ \A i \in 1..Len(frames) : frames'[i] = frames[i] /\ written'[i] = written[i]
  BY <1>1, <1>2, EncodedValues
<1>4. \A i \in 1..Len(frames) : OnLine(i) => OnLine(i)'
  BY <1>1, <1>3, OnLineKept
<1>5. OnLine(l)'
  <2>1. l \notin damaged'
    BY <1>1, <1>2
  <2>2. QED
    BY <1>3, <2>1 DEF OnLine, Wrong
<1>6. ASSUME InStep PROVE InStep'
  <2>1. CASE fno <= Len(frames)
    <3>1. frames'[fno] = frames[fno] /\ written'[fno] = written[fno] /\ fno <= Len(frames')
      BY <1>1, <1>2, <1>3, <2>1 DEF NoisyInv, PlaceOK
    <3>2. QED
      BY <1>1, <1>6, <2>1, <3>1 DEF InStep, Received, parser
  <2>2. CASE ~(fno <= Len(frames))
    <3>1. read_state_' = "WAIT_HEAD_0" /\ off' = 1
      BY <1>1, <1>6, <2>2 DEF InStep, parser
    <3>2. QED
      BY <3>1 DEF InStep
  <2>3. QED
    BY <2>1, <2>2
<1>7. OnLine(Len(frames))'
  BY <1>3, <1>5
<1>8. QED
  BY <1>1, <1>2, <1>3, <1>4, <1>6, <1>7

\* A byte behind the head is changed just before it is read.
LEMMA DamagesOn ==
  ASSUME NoisyInv, InStep, OnLine(fno), NEW b \in Byte, Damage(b), off > 4
  PROVE  InStep' /\ OnLine(fno)'
<1>1. /\ UNCHANGED <<frames, fno, off, read_state_, rx_index_, target_length_, rx_buffer_>>
      /\ written' = [written EXCEPT ![fno][off] = b] /\ b # written[fno][off]
      /\ damaged' = damaged \cup {fno} /\ fno \notin damaged /\ fno <= Len(written)
  BY DEF Damage, parser
<1>2. /\ frames \in Seq(Frames) /\ fno \in 1..Len(frames) /\ fno \in DOMAIN written
      /\ written[fno] \in Seq(Values) /\ off \in 5..Len(written[fno])
  BY <1>1 DEF NoisyInv, PlaceOK, LineShape
<1>3. PICK d, n, w, e, v : /\ d = frames[fno].data /\ n = Len(d) /\ w = written[fno]
                           /\ e = Encode(frames[fno]) /\ v = [w EXCEPT ![off] = b]
  OBVIOUS
<1>4. n \in 1..MaxLength /\ n \in Nat /\ Len(w) = n + 6 /\ w \in Seq(Values) /\ off \in 5..(n + 6)
  BY <1>2, <1>3, LineBytes
<1>5. written'[fno] = v /\ Len(v) = n + 6 /\ v[off] = b /\ b # w[off]
      /\ \A k \in 1..(n + 6) : k # off => v[k] = w[k]
  BY <1>1, <1>2, <1>3, <1>4
<1>6. Len(e) = n + 6 /\ \A k \in 1..(n + 6) : w[k] = e[k]
  <2>1. Len(w) = Len(e) /\ Wrong(fno) = {}
    BY <1>1, <1>3 DEF OnLine
  <2>2. QED
    BY <1>3, <1>4, <2>1 DEF Wrong
<1>7. OnLine(fno)'
  <2>1. Wrong(fno)' = {k \in 1..(n + 6) : v[k] # e[k]}
    BY <1>1, <1>3, <1>5, <1>6 DEF Wrong
  <2>2. {k \in 1..(n + 6) : v[k] # e[k]} = {off}
    BY <1>4, <1>5, <1>6
  <2>3. QED
    BY <1>1, <1>3, <1>4, <1>5, <1>6, <2>1, <2>2 DEF OnLine
<1>8. InStep'
  <2>1. CASE read_state_ = "WAIT_HEAD_0"
    <3>1. FALSE
      BY <1>1, <1>4, <2>1 DEF InStep
    <3>2. QED
      BY <3>1
  <2>2. CASE read_state_ \in {"WAIT_HEAD_1", "WAIT_FRAME_ID", "WAIT_LENGTH"}
    <3>1. FALSE
      BY <1>4, <2>2 DEF InStep
    <3>2. QED
      BY <3>1
  <2>3. CASE read_state_ = "WAIT_DATA"
    <3>1. /\ off = 5 + rx_index_ /\ target_length_ = n /\ rx_index_ \in 0..(n - 1)
          /\ \A k \in 1..rx_index_ : rx_buffer_[k] = w[4 + k]
      BY <1>3, <2>3 DEF InStep
    <3>2. \A k \in 1..rx_index_ : 4 + k \in 1..(n + 6) /\ 4 + k # off
      BY <1>4, <3>1
    <3>3. \A k \in 1..rx_index_ : rx_buffer_[k] = v[4 + k]
      BY <1>5, <3>1, <3>2
    <3>4. QED
      BY <1>1, <1>2, <1>3, <1>5, <2>3, <3>1, <3>3 DEF InStep
  <2>4. CASE read_state_ = "WAIT_CHECKSUM"
    <3>1. /\ off = 5 + n /\ target_length_ = n
          /\ \A k \in 1..n : rx_buffer_[k] = w[4 + k]
      BY <1>3, <2>4 DEF InStep
    <3>2. \A k \in 1..n : 4 + k \in 1..(n + 6) /\ 4 + k # off
      BY <1>4, <3>1
    <3>3. \A k \in 1..n : rx_buffer_[k] = v[4 + k]
      BY <1>5, <3>1, <3>2
    <3>4. QED
      BY <1>1, <1>2, <1>3, <1>5, <2>4, <3>1, <3>3 DEF InStep
  <2>5. CASE read_state_ = "WAIT_END"
    <3>1. off = 6 + n /\ target_length_ = n /\ Received = d /\ Received' = Received
      BY <1>1, <1>3, <2>5 DEF InStep, Received
    <3>2. w[6 + n] = End0
      BY <1>1, <1>2, <1>3, LineBytes
    <3>3. v[6 + n] # End0
      BY <1>5, <3>1, <3>2
    <3>4. QED
      BY <1>1, <1>2, <1>3, <1>5, <2>5, <3>1, <3>3 DEF InStep
  <2>6. QED
    BY <2>1, <2>2, <2>3, <2>4, <2>5 DEF NoisyInv, ParserOK, ReadStates
<1>9. QED
  BY <1>7, <1>8

\* Counting the whole frames.
LEMMA WholeCount ==
  ASSUME NEW n \in Nat
  PROVE  /\ IsFiniteSet(Whole(n)) /\ Cardinality(Whole(n)) \in Nat
         /\ \A m \in Whole(n) : Cardinality(Whole(m)) \in 1..Cardinality(Whole(n))
         /\ n # 0 => Cardinality(Whole(n)) = IF n \in damaged
                                               THEN Cardinality(Whole(n - 1))
                                               ELSE Cardinality(Whole(n - 1)) + 1
<1>1. \A m \in Nat : IsFiniteSet(Whole(m)) /\ Cardinality(Whole(m)) \in Nat
  <2>1. ASSUME NEW m \in Nat PROVE IsFiniteSet(Whole(m))
    <3>1. IsFiniteSet(1..m)
      BY FS_Interval
    <3>2. Whole(m) \in SUBSET (1..m)
      BY DEF Whole
    <3>3. QED
      BY <3>1, <3>2, FS_Subset
  <2>2. QED
    BY <2>1, FS_CardinalityType
<1>2. ASSUME NEW m \in Whole(n)
      PROVE  Cardinality(Whole(m)) \in 1..Cardinality(Whole(n))
  <2>1. m \in 1..n /\ m \in Whole(m) /\ Whole(m) \in SUBSET Whole(n)
    BY DEF Whole
  <2>2. Cardinality(Whole(m)) <= Cardinality(Whole(n))
    BY <1>1, <2>1, FS_Subset
  <2>3. Cardinality(Whole(m)) # 0
    BY <1>1, <2>1, FS_EmptySet
  <2>4. QED
    BY <1>1, <2>1, <2>2, <2>3
<1>3. ASSUME n # 0
      PROVE  Cardinality(Whole(n)) = IF n \in damaged THEN Cardinality(Whole(n - 1))
                                                      ELSE Cardinality(Whole(n - 1)) + 1
  <2>1. n - 1 \in Nat /\ n \notin Whole(n - 1)
    BY <1>3 DEF Whole
  <2>2. Whole(n) = IF n \in damaged THEN Whole(n - 1) ELSE Whole(n - 1) \cup {n}
    BY <1>3 DEF Whole
  <2>3. QED
    BY <1>1, <2>1, <2>2, FS_AddElement
<1>4. QED
  BY <1>1, <1>2, <1>3

\* Every fault changes one frame; when none did anything else, the parser is in
\* step and the damaged frames it has read are all that is missing.
ContainInv ==
  /\ IsFiniteSet(damaged) /\ Cardinality(damaged) <= faults
  /\ delivered \in Seq(Payloads)
  /\ OnlyDataDamaged =>
       /\ damaged \subseteq 1..fno
       /\ \A i \in fno..Len(frames) : OnLine(i)
       /\ InStep
  /\ DamageContained

LEMMA ContainReads ==
  ASSUME NoisyInv, ContainInv, ReadByte
  PROVE  ContainInv'
<1>1. UNCHANGED <<frames, written, damaged, faults>> /\ fno \in 1..Len(frames)
  BY DEF ReadByte, WaitHead0, WaitHead1, WaitFrameId, WaitLength, WaitData, WaitChecksum, WaitEnd,
         NextByte, line, NoisyInv, PlaceOK
<1>2. delivered' \in Seq(Payloads)
  BY DeliveredStays DEF NoisyInv, ContainInv
<1>3. ASSUME OnlyDataDamaged
      PROVE  /\ damaged' \subseteq 1..fno'
             /\ \A i \in fno'..Len(frames') : OnLine(i)'
             /\ InStep' /\ DamageContained'
  <2>1. /\ damaged \subseteq 1..fno /\ \A i \in fno..Len(frames) : OnLine(i)
        /\ delivered \in Seq(Payloads)
        /\ Len(delivered) = Cardinality(Whole(fno - 1))
        /\ \A i \in Whole(fno - 1) : delivered[Cardinality(Whole(i))].data = frames[i].data
    BY <1>3 DEF ContainInv, DamageContained
  <2>2. InStep' /\ ReadOn
    BY <1>1, <1>3, <2>1, ReadsOn DEF ContainInv
  <2>3. \A i : OnLine(i) => OnLine(i)'
    BY <1>1, OnLineKept
  <2>4. fno' \in {fno, fno + 1}
    BY <2>2 DEF ReadOn
  <2>5. damaged' \subseteq 1..fno' /\ \A i \in fno'..Len(frames') : OnLine(i)'
    <3>1. fno'..Len(frames) \subseteq fno..Len(frames) /\ 1..fno \subseteq 1..fno'
      BY <1>1, <2>4
    <3>2. QED
      BY <1>1, <2>1, <2>3, <3>1
  <2>6. \A n : Whole(n)' = Whole(n)
    BY <1>1 DEF Whole
  <2>7. DamageContained'
    <3>1. SUFFICES /\ Len(delivered') = Cardinality(Whole(fno' - 1))
                   /\ \A i \in Whole(fno' - 1) :
                        delivered'[Cardinality(Whole(i))].data = frames[i].data
      BY <1>1, <2>6 DEF DamageContained
    <3>2. CASE fno' = fno /\ delivered' = delivered
      BY <2>1, <3>2
    <3>3. CASE fno' = fno + 1 /\ fno \in damaged
      <4>1. delivered' = delivered /\ fno' - 1 = fno
        BY <1>1, <2>2, <3>3 DEF ReadOn
      <4>2. Whole(fno) = Whole(fno - 1)
        BY <1>1, <3>3 DEF Whole
      <4>3. QED
        BY <2>1, <4>1, <4>2
    <3>4. CASE fno' = fno + 1 /\ fno \notin damaged
      <4>1. PICK r \in Payloads : r.data = frames[fno].data /\ delivered' = Append(delivered, r)
        BY <1>1, <2>2, <3>4 DEF ReadOn
      <4>2. fno' - 1 = fno /\ Whole(fno) = Whole(fno - 1) \cup {fno}
        BY <1>1, <3>4 DEF Whole
      <4>3. Cardinality(Whole(fno)) = Len(delivered) + 1 /\ Len(delivered) \in Nat
        BY <1>1, <2>1, <3>4, WholeCount
      <4>4. /\ Len(delivered') = Len(delivered) + 1
            /\ delivered'[Len(delivered) + 1] = r
            /\ \A c \in 1..Len(delivered) : delivered'[c] = delivered[c]
        BY <2>1, <4>1
      <4>5. \A i \in Whole(fno - 1) : Cardinality(Whole(i)) \in 1..Len(delivered)
        <5>1. fno - 1 \in Nat
          BY <1>1
        <5>2. QED
          BY <2>1, <5>1, WholeCount
      <4>6. ASSUME NEW i \in Whole(fno)
            PROVE  delivered'[Cardinality(Whole(i))].data = frames[i].data
        <5>1. CASE i = fno
          BY <4>1, <4>3, <4>4, <5>1
        <5>2. CASE i \in Whole(fno - 1)
          BY <2>1, <4>4, <4>5, <5>2
        <5>3. QED
          BY <4>2, <5>1, <5>2
      <4>7. QED
        BY <4>2, <4>3, <4>4, <4>6
    <3>5. QED
      BY <1>1, <2>2, <3>2, <3>3, <3>4 DEF ReadOn
  <2>8. QED
    BY <2>2, <2>5, <2>7
<1>4. OnlyDataDamaged' <=> OnlyDataDamaged
  BY <1>1 DEF OnlyDataDamaged
<1>5. ~OnlyDataDamaged => DamageContained'
  BY <1>4 DEF DamageContained
<1>6. QED
  BY <1>1, <1>2, <1>3, <1>4, <1>5 DEF ContainInv

LEMMA ContainDamage ==
  ASSUME NoisyInv, ContainInv, NEW b \in Byte, Damage(b)
  PROVE  ContainInv'
<1>1. /\ UNCHANGED <<frames, fno, off, delivered>> /\ faults' = faults + 1
      /\ faults \in Nat /\ fno \in 1..Len(frames) /\ fno \notin damaged
      /\ written' = [written EXCEPT ![fno][off] = b]
      /\ damaged' = IF off > 4 THEN damaged \cup {fno} ELSE damaged
  BY SerialAssumption DEF Damage, NoisyInv, PlaceOK, FaultsOK, SerialAssumption
<1>2. /\ IsFiniteSet(damaged) /\ Cardinality(damaged) \in Nat /\ Cardinality(damaged) <= faults
      /\ IsFiniteSet(damaged') /\ Cardinality(damaged') <= Cardinality(damaged) + 1
      /\ off > 4 => Cardinality(damaged') = Cardinality(damaged) + 1
  BY <1>1, FS_CardinalityType, FS_AddElement DEF ContainInv
<1>3. Cardinality(damaged') <= faults'
  <2>1. Cardinality(damaged') \in Nat
    BY <1>2, FS_CardinalityType
  <2>2. QED
    BY <1>1, <1>2, <2>1
<1>4. ASSUME OnlyDataDamaged' PROVE OnlyDataDamaged /\ off > 4
  BY <1>1, <1>2, <1>4 DEF OnlyDataDamaged
<1>5. ASSUME OnlyDataDamaged'
      PROVE  /\ damaged' \subseteq 1..fno'
             /\ \A i \in fno'..Len(frames') : OnLine(i)'
             /\ InStep' /\ DamageContained'
  <2>1. /\ damaged \subseteq 1..fno /\ \A i \in fno..Len(frames) : OnLine(i)
        /\ InStep
        /\ Len(delivered) = Cardinality(Whole(fno - 1))
        /\ \A i \in Whole(fno - 1) : delivered[Cardinality(Whole(i))].data = frames[i].data
    BY <1>4, <1>5 DEF ContainInv, DamageContained
  <2>2. InStep' /\ OnLine(fno)'
    BY <1>1, <1>4, <1>5, <2>1, DamagesOn
  <2>3. ASSUME NEW i \in (fno + 1)..Len(frames) PROVE OnLine(i)'
    <3>1. i # fno /\ i \in fno..Len(frames) /\ i \in 1..Len(frames)
      BY <1>1
    <3>2. written'[i] = written[i] /\ frames'[i] = frames[i]
      BY <1>1, <3>1 DEF NoisyInv, PlaceOK, LineShape
    <3>3. QED
      BY <1>1, <2>1, <3>1, <3>2, OnLineKept
  <2>4. \A i \in fno'..Len(frames') : OnLine(i)'
    <3>1. ASSUME NEW i \in fno..Len(frames), i = fno PROVE OnLine(i)'
      BY <1>1, <2>2, <3>1 DEF OnLine, Wrong
    <3>2. \A i \in fno..Len(frames) : i = fno \/ i \in (fno + 1)..Len(frames)
      BY <1>1
    <3>3. QED
      BY <1>1, <2>3, <3>1, <3>2
  <2>5. \A n \in 0..(fno - 1) : Whole(n)' = Whole(n)
    BY <1>1 DEF Whole
  <2>6. /\ fno - 1 \in 0..(fno - 1)
        /\ \A i \in Whole(fno - 1) : i \in 0..(fno - 1)
    BY <1>1 DEF Whole
  <2>7. Whole(fno - 1)' = Whole(fno - 1)
    BY <1>1, <2>5, <2>6 DEF Whole
  <2>8. DamageContained'
    BY <1>1, <2>1, <2>5, <2>6, <2>7 DEF DamageContained
  <2>9. QED
    BY <1>1, <2>1, <2>2, <2>4, <2>8
<1>6. ~OnlyDataDamaged' => DamageContained'
  BY DEF DamageContained
<1>7. QED
  BY <1>1, <1>2, <1>3, <1>5, <1>6 DEF ContainInv

LEMMA ContainStep ==
  ASSUME NoisyInv, ContainInv, [NoisyNext]_vars
  PROVE  ContainInv'
<1>1. ASSUME NEW f \in Frames, Send(f) PROVE ContainInv'
  <2>1. /\ Len(frames') = Len(frames) + 1 /\ Len(frames) \in Nat
        /\ UNCHANGED <<fno, delivered, damaged, faults>>
        /\ \A i \in 1..Len(frames) : frames'[i] = frames[i]
        /\ \A i \in 1..Len(frames) : OnLine(i) => OnLine(i)'
        /\ OnLine(Len(frames))'
        /\ InStep => InStep'
        /\ fno \in 1..(Len(frames) + 1)
    BY <1>1, SendsOn DEF NoisyInv, PlaceOK
  <2>2. ASSUME NEW i \in fno..Len(frames'), \A k \in fno..Len(frames) : OnLine(k)
        PROVE  OnLine(i)'
    <3>1. CASE i \in fno..Len(frames)
      BY <2>1, <2>2, <3>1
    <3>2. CASE i = Len(frames')
      BY <2>1, <3>2 DEF OnLine, Wrong
    <3>3. QED
      BY <2>1, <3>1, <3>2
  <2>3. \A n : Whole(n)' = Whole(n)
    BY <2>1 DEF Whole
  <2>4. \A i \in Whole(fno - 1) : frames'[i] = frames[i]
    BY <2>1 DEF Whole
  <2>5. OnlyDataDamaged' <=> OnlyDataDamaged
    BY <2>1 DEF OnlyDataDamaged
  <2>6. DamageContained'
    BY <2>1, <2>3, <2>4, <2>5 DEF ContainInv, DamageContained
  <2>7. QED
    BY <2>1, <2>2, <2>5, <2>6 DEF ContainInv
<1>2. CASE BeginCall \/ ReturnEmpty \/ UNCHANGED vars
  <2>1. UNCHANGED <<frames, written, fno, off, read_state_, rx_index_, target_length_, rx_buffer_,
                    delivered, damaged, faults>>
    BY <1>2 DEF BeginCall, ReturnEmpty, vars, line, parser
  <2>2. /\ InStep' <=> InStep
        /\ \A i : OnLine(i) => OnLine(i)'
        /\ DamageContained' <=> DamageContained
        /\ OnlyDataDamaged' <=> OnlyDataDamaged
    BY <2>1 DEF InStep, Received, OnLine, Wrong, DamageContained, Whole, OnlyDataDamaged
  <2>3. QED
    BY <2>1, <2>2 DEF ContainInv
<1>3. CASE ReadByte
  BY <1>3, ContainReads
<1>4. ASSUME NEW b \in Byte, Damage(b) PROVE ContainInv'
  BY <1>4, ContainDamage
<1>5. CASE BytesLost \/ ReadException
  <2>1. UNCHANGED <<damaged, delivered>> /\ faults' = faults + 1 /\ faults \in Nat
    BY <1>5, SerialAssumption DEF BytesLost, ReadException, Skip, NoisyInv, FaultsOK, SerialAssumption
  <2>2. Cardinality(damaged) \in Nat /\ Cardinality(damaged) <= faults
    BY FS_CardinalityType DEF ContainInv
  <2>3. ~OnlyDataDamaged' /\ Cardinality(damaged') <= faults'
    BY <2>1, <2>2 DEF OnlyDataDamaged
  <2>4. QED
    BY <2>1, <2>3 DEF ContainInv, DamageContained
<1>6. QED
  BY <1>1, <1>2, <1>3, <1>4, <1>5 DEF NoisyNext, Receive

(* Whatever data, checksums and end bytes are changed, in however many      *)
(* frames, one byte in each: every such frame is dropped, no byte of it is  *)
(* delivered, and every other frame comes out whole and in order.  WAIT_END *)
(* and the checksum leave the parser inside the damaged frame.              *)
THEOREM DamageContainedHolds == NoisySpec => []DamageContained
<1>1. Init => ContainInv
  <2> SUFFICES ASSUME Init PROVE ContainInv
    OBVIOUS
  <2>1. /\ frames = <<>> /\ fno = 1 /\ off = 1 /\ read_state_ = "WAIT_HEAD_0"
        /\ delivered = <<>> /\ damaged = {} /\ faults = 0
    BY DEF Init
  <2>2. Whole(fno - 1) = {}
    BY <2>1 DEF Whole
  <2>3. InStep /\ \A i \in fno..Len(frames) : OnLine(i)
    BY <2>1 DEF InStep
  <2>4. QED
    BY <2>1, <2>2, <2>3, FS_EmptySet DEF ContainInv, DamageContained
<1>2. NoisyInv /\ ContainInv /\ [NoisyNext]_vars => ContainInv'
  BY ContainStep
<1>3. ContainInv => DamageContained
  BY DEF ContainInv
<1>4. QED
  BY NoisyInit, NoisyStep, <1>1, <1>2, <1>3, PTL DEF NoisySpec
-----------------------------------------------------------------------------
\* One byte is read, wherever the parser is.
LEMMA ReadMoves ==
  ASSUME NoisyInv, ReadByte
  PROVE  LET b == written[fno][off]
         IN  /\ UNCHANGED <<frames, written, damaged, faults, mark>>
             /\ fno \in 1..Len(frames) /\ off \in 1..Len(written[fno])
             /\ Len(written[fno]) \in Nat /\ Len(frames) \in Nat
             /\ IF off = Len(written[fno]) THEN fno' = fno + 1 /\ off' = 1
                                           ELSE fno' = fno /\ off' = off + 1
             /\ read_state_ = "WAIT_HEAD_0" =>
                  read_state_' = IF b = Head0 THEN "WAIT_HEAD_1" ELSE "WAIT_HEAD_0"
             /\ read_state_ = "WAIT_HEAD_1" =>
                  read_state_' = IF b = Head1 THEN "WAIT_FRAME_ID" ELSE "WAIT_HEAD_0"
             /\ read_state_ = "WAIT_FRAME_ID" => read_state_' = "WAIT_LENGTH"
             /\ read_state_ = "WAIT_LENGTH" =>
                  IF b > MaxLength
                    THEN read_state_' = "WAIT_HEAD_0"
                    ELSE read_state_' = "WAIT_DATA" /\ target_length_' = b /\ rx_index_' = 0
             /\ read_state_ = "WAIT_DATA" =>
                  /\ rx_index_' = rx_index_ + 1 /\ target_length_' = target_length_
                  /\ read_state_' = IF rx_index_ + 1 >= target_length_ THEN "WAIT_CHECKSUM"
                                                                      ELSE "WAIT_DATA"
             /\ read_state_ = "WAIT_CHECKSUM" => read_state_' \in {"WAIT_END", "WAIT_HEAD_0"}
             /\ read_state_ = "WAIT_END" => read_state_' = "WAIT_HEAD_0"
<1>1. PICK b \in Byte : NextByte(b)
  BY DEF ReadByte, WaitHead0, WaitHead1, WaitFrameId, WaitLength, WaitData, WaitChecksum, WaitEnd
<1>2. /\ UNCHANGED <<frames, written, damaged, faults, mark>>
      /\ fno \in 1..Len(frames) /\ b = written[fno][off] /\ Len(frames) \in Nat
      /\ IF off = Len(written[fno]) THEN fno' = fno + 1 /\ off' = 1
                                    ELSE fno' = fno /\ off' = off + 1
  BY <1>1 DEF NextByte, line, NoisyInv, PlaceOK
<1>3. Len(written[fno]) \in Nat /\ off \in 1..Len(written[fno])
  BY <1>2, FrameLength DEF NoisyInv, PlaceOK
<1>4. CASE WaitHead0
  BY <1>1, <1>2, <1>3, <1>4 DEF WaitHead0, NextByte
<1>5. CASE WaitHead1
  BY <1>1, <1>2, <1>3, <1>5 DEF WaitHead1, NextByte
<1>6. CASE WaitFrameId
  BY <1>1, <1>2, <1>3, <1>6 DEF WaitFrameId
<1>7. CASE WaitLength
  BY <1>1, <1>2, <1>3, <1>7 DEF WaitLength, NextByte
<1>8. CASE WaitData
  BY <1>1, <1>2, <1>3, <1>8 DEF WaitData
<1>9. CASE WaitChecksum
  BY <1>1, <1>2, <1>3, <1>9 DEF WaitChecksum, NextByte
<1>10. CASE WaitEnd
  BY <1>1, <1>2, <1>3, <1>10 DEF WaitEnd
<1>11. QED
  BY <1>4, <1>5, <1>6, <1>7, <1>8, <1>9, <1>10 DEF ReadByte

LEMMA SwallowBound ==
  /\ MayBeSwallowed \in Nat /\ MayBeSwallowed >= 1
  /\ \A k \in Nat : 7 * k <= MaxLength + 8 => k <= MayBeSwallowed
<1>1. MaxLength \in Nat /\ MaxLength >= 1
  BY ByteTypes
<1>2. PICK q : q = (MaxLength + 8) \div 7
  OBVIOUS
<1>3. q \in Int /\ 7 * q <= MaxLength + 8 /\ MaxLength + 8 < 7 * q + 7
  BY <1>1, <1>2
<1>4. q \in Nat /\ q >= 1
  BY <1>1, <1>3
<1>5. ASSUME NEW k \in Nat, 7 * k <= MaxLength + 8 PROVE k <= q
  BY <1>1, <1>3, <1>5
<1>6. QED
  BY <1>2, <1>4, <1>5 DEF MayBeSwallowed

\* Bytes the parser still takes for data, checksum and end, at the most.
Debt == IF read_state_ = "WAIT_DATA"
          THEN IF rx_index_ < target_length_ THEN (target_length_ - rx_index_) + 2 ELSE 3
          ELSE IF read_state_ = "WAIT_CHECKSUM" THEN 2 ELSE 1

\* Where the parser can be behind the last fault: still in the frame it struck,
\* at the start of the next one in any state, with the head of that one taken
\* for an id, swallowing whole frames as data, looking for a head, or in step
\* again since frame s.
Struck     == fno = mark.frames
AtStart    == fno = mark.frames + 1 /\ off = 1
HeadAsId   == fno = mark.frames + 1 /\ off = 2 /\ read_state_ = "WAIT_LENGTH"
Swallowing == /\ fno > mark.frames
              /\ read_state_ \in {"WAIT_DATA", "WAIT_CHECKSUM", "WAIT_END"}
              /\ 7 * (fno - 1 - mark.frames) + (off - 1) + Debt <= MaxLength + 2
Searching  == /\ fno > mark.frames /\ fno <= mark.frames + MayBeSwallowed
              /\ read_state_ = "WAIT_HEAD_0" /\ off > 1
InStepSince(s) ==
  /\ InStep
  /\ s \in (mark.frames + 1)..(mark.frames + MayBeSwallowed + 1) /\ s <= fno
  /\ Len(delivered) >= mark.delivered + (fno - s)
  /\ \A j \in s..(fno - 1) : delivered[Len(delivered) - (fno - 1) + j].data = frames[j].data

Recovering == Struck \/ AtStart \/ HeadAsId \/ Swallowing \/ Searching
                \/ \E s \in Int : InStepSince(s)

MarkOK == /\ mark.frames \in 0..Len(frames) /\ mark.frames <= fno
          /\ mark.delivered \in 0..Len(delivered)

ResyncInv ==
  /\ delivered \in Seq(Payloads) /\ MarkOK
  /\ PlainLine /\ NoDataDamaged =>
       /\ \A i \in (mark.frames + 1)..Len(frames) : OnLine(i)
       /\ Recovering

\* A frame no fault has struck.
LEMMA PlainBytes ==
  ASSUME NoisyInv, PlainLine, NoDataDamaged, NEW i \in 1..Len(frames), OnLine(i)
  PROVE  LET w == written[i]
         IN  /\ Len(w) \in Nat /\ Len(w) >= 7
             /\ w[1] = Head0 /\ w[2] = Head1
             /\ \A k \in 2..Len(w) : w[k] # Head0
<1>1. frames \in Seq(Frames) /\ frames[i] \in Frames
  BY DEF NoisyInv, PlaceOK
<1>2. PICK n : n = Len(frames[i].data)
  OBVIOUS
<1>3. /\ n \in 1..MaxLength /\ n \in Nat
      /\ Len(written[i]) = n + 6 /\ written[i][1] = Head0 /\ written[i][2] = Head1
  BY <1>1, <1>2, LineBytes
<1>4. \A k \in 1..Len(written[i]) : written[i][k] = Encode(frames[i])[k]
  BY DEF OnLine, Wrong, NoDataDamaged
<1>5. Len(written[i]) = Len(Encode(frames[i]))
  BY DEF OnLine
<1>6. \A k \in 2..Len(written[i]) : written[i][k] # Head0
  BY <1>1, <1>3, <1>4, <1>5 DEF PlainLine
<1>7. QED
  BY <1>3, <1>6

\* In step from the start of frame fno on, which is near enough.
LEMMA InStepAgain ==
  ASSUME NEW M \in Nat, mark.frames = M, MarkOK, fno \in Nat, fno > M,
         fno <= M + MayBeSwallowed + 1, read_state_ = "WAIT_HEAD_0", off = 1,
         Len(delivered) \in Nat
  PROVE  InStepSince(fno)
<1>1. InStep
  BY DEF InStep
<1>2. Len(delivered) >= mark.delivered + (fno - fno)
  BY DEF MarkOK
<1>3. fno \in (M + 1)..(M + MayBeSwallowed + 1)
  BY SwallowBound
<1>4. fno..(fno - 1) = {}
  OBVIOUS
<1>5. QED
  BY <1>1, <1>2, <1>3, <1>4 DEF InStepSince

LEMMA ResyncReads ==
  ASSUME NoisyInv, ResyncInv, ReadByte
  PROVE  ResyncInv'
<1>1. PICK b, w, M : b = written[fno][off] /\ w = written[fno] /\ M = mark.frames
  OBVIOUS
<1>2. /\ UNCHANGED <<frames, written, damaged, faults, mark>>
      /\ fno \in 1..Len(frames) /\ fno \in Nat /\ off \in 1..Len(w) /\ off \in Nat
      /\ Len(w) \in Nat /\ Len(frames) \in Nat
      /\ IF off = Len(w) THEN fno' = fno + 1 /\ off' = 1 ELSE fno' = fno /\ off' = off + 1
  BY <1>1, ReadMoves
<1>3. /\ read_state_ = "WAIT_HEAD_0" =>
           read_state_' = IF b = Head0 THEN "WAIT_HEAD_1" ELSE "WAIT_HEAD_0"
      /\ read_state_ = "WAIT_HEAD_1" =>
           read_state_' = IF b = Head1 THEN "WAIT_FRAME_ID" ELSE "WAIT_HEAD_0"
      /\ read_state_ = "WAIT_FRAME_ID" => read_state_' = "WAIT_LENGTH"
      /\ read_state_ = "WAIT_LENGTH" =>
           IF b > MaxLength
             THEN read_state_' = "WAIT_HEAD_0"
             ELSE read_state_' = "WAIT_DATA" /\ target_length_' = b /\ rx_index_' = 0
      /\ read_state_ = "WAIT_DATA" =>
           /\ rx_index_' = rx_index_ + 1 /\ target_length_' = target_length_
           /\ read_state_' = IF rx_index_ + 1 >= target_length_ THEN "WAIT_CHECKSUM"
                                                               ELSE "WAIT_DATA"
      /\ read_state_ = "WAIT_CHECKSUM" => read_state_' \in {"WAIT_END", "WAIT_HEAD_0"}
      /\ read_state_ = "WAIT_END" => read_state_' = "WAIT_HEAD_0"
  BY <1>1, ReadMoves
<1>4. M \in 0..Len(frames) /\ M \in Nat /\ M <= fno
      /\ delivered \in Seq(Payloads) /\ mark.delivered \in 0..Len(delivered)
  BY <1>1, <1>2 DEF ResyncInv, MarkOK
<1>5. /\ delivered' \in Seq(Payloads) /\ Len(delivered) \in Nat /\ Len(delivered') \in Nat
      /\ Len(delivered') >= Len(delivered)
  <2>1. /\ delivered' \in Seq(Payloads)
        /\ \/ delivered' = delivered
           \/ \E r \in Payloads : delivered' = Append(delivered, r)
    BY <1>4, DeliveredStays DEF NoisyInv
  <2>2. QED
    BY <1>4, <2>1
<1>6. MarkOK'
  BY <1>1, <1>2, <1>4, <1>5 DEF MarkOK
<1>7. PICK F, O : F = fno' /\ O = off'
  OBVIOUS
<1>8. /\ F \in Nat /\ O \in Nat /\ O # 0 /\ fno \in Nat /\ off \in Nat /\ Len(w) \in Nat
      /\ IF off = Len(w) THEN F = fno + 1 /\ O = 1 ELSE F = fno /\ O = off + 1
  BY <1>2, <1>7
<1>9. ASSUME PlainLine, NoDataDamaged
      PROVE  Recovering' /\ \A i \in (M + 1)..Len(frames) : OnLine(i)'
  <2>1. (\A i \in (M + 1)..Len(frames) : OnLine(i)) /\ Recovering
    BY <1>1, <1>9 DEF ResyncInv
  <2>2. \A i \in (M + 1)..Len(frames) : OnLine(i)'
    <3>1. \A i : OnLine(i) => OnLine(i)'
      BY <1>2, OnLineKept
    <3>2. QED
      BY <2>1, <3>1
  <2> SUFFICES Recovering'
    BY <2>2
  <2>3. ASSUME fno > M
        PROVE  /\ OnLine(fno) /\ Len(w) >= 7 /\ w[1] = Head0 /\ w[2] = Head1
               /\ \A k \in 2..Len(w) : w[k] # Head0
    <3>1. OnLine(fno)
      BY <1>2, <1>4, <2>1, <2>3
    <3>2. QED
      BY <1>1, <1>2, <1>9, <3>1, PlainBytes
  <2>4. /\ MayBeSwallowed \in Nat /\ MayBeSwallowed >= 1
        /\ \A k \in Nat : 7 * k <= MaxLength + 8 => k <= MayBeSwallowed
        /\ MaxLength \in Nat /\ MaxLength >= 1
    BY SwallowBound, ByteTypes
  <2>5. /\ Head0 \in Nat /\ Head1 \in Nat /\ Head0 > MaxLength /\ Head1 # Head0 /\ Head1 > 0
        /\ Head1 > MaxLength \/ Head1 + 2 <= MaxLength
    BY <1>9, <2>4, SerialAssumption DEF SerialAssumption, Byte, PlainLine
  <2>6. rx_index_ \in Nat /\ target_length_ \in Nat /\ target_length_ <= MaxLength
    BY ByteTypes DEF NoisyInv, ParserOK
  <2>7. ASSUME F > M, F <= M + MayBeSwallowed + 1, read_state_' = "WAIT_HEAD_0",
               O = 1 \/ F <= M + MayBeSwallowed
        PROVE  Recovering'
    <3>1. mark'.frames = M
      BY <1>1, <1>2
    <3>2. CASE O = 1
      <4>1. InStep'
        BY <1>7, <2>7, <3>2 DEF InStep
      <4>2. /\ F \in (M + 1)..(M + MayBeSwallowed + 1) /\ F..(F - 1) = {}
            /\ Len(delivered') >= mark'.delivered + (F - F)
        <5>1. F \in (M + 1)..(M + MayBeSwallowed + 1)
          BY <1>4, <1>8, <2>4, <2>7
        <5>2. F..(F - 1) = {} /\ F - F = 0
          BY <1>8
        <5>3. mark'.delivered = mark.delivered /\ mark.delivered \in 0..Len(delivered)
          BY <1>2, <1>4
        <5>4. mark'.delivered + 0 <= Len(delivered')
          BY <1>5, <5>3
        <5>5. QED
          BY <1>5, <5>1, <5>2, <5>3, <5>4
      <4>3. F <= F /\ F \in Int
        BY <1>8
      <4>4. InStepSince(F)'
        BY <1>7, <3>1, <4>1, <4>2, <4>3 DEF InStepSince
      <4>5. QED
        BY <4>3, <4>4 DEF Recovering
    <3>3. CASE O # 1
      <4>1. O > 1 /\ F <= M + MayBeSwallowed
        BY <1>8, <2>7, <3>3
      <4>2. QED
        BY <1>7, <2>7, <3>1, <4>1 DEF Recovering, Searching
    <3>4. QED
      BY <3>2, <3>3
  <2>8. CASE Struck
    <3>1. fno = M
      BY <1>1, <2>8 DEF Struck
    <3>2. QED
      BY <1>1, <1>2, <3>1 DEF Recovering, Struck, AtStart
  <2>9. CASE AtStart /\ read_state_ \in {"WAIT_HEAD_1", "WAIT_FRAME_ID", "WAIT_LENGTH"}
    <3>1. fno = M + 1 /\ off = 1 /\ b = Head0 /\ fno' = M + 1 /\ off' = 2
      <4>1. fno = M + 1 /\ off = 1 /\ fno > M
        BY <1>1, <1>4, <2>9 DEF AtStart
      <4>2. QED
        BY <1>1, <1>2, <2>3, <4>1
    <3>2. CASE read_state_ = "WAIT_FRAME_ID"
      BY <1>1, <1>2, <1>3, <3>1, <3>2 DEF Recovering, HeadAsId
    <3>3. CASE read_state_ # "WAIT_FRAME_ID"
      <4>1. read_state_' = "WAIT_HEAD_0"
        BY <1>3, <2>5, <2>9, <3>1, <3>3
      <4>2. QED
        BY <1>4, <1>7, <1>8, <2>4, <2>7, <3>1, <4>1
    <3>4. QED
      BY <3>2, <3>3
  <2>10. CASE HeadAsId
    <3>1. fno = M + 1 /\ off = 2 /\ b = Head1 /\ fno' = M + 1 /\ off' = 3
      <4>1. fno = M + 1 /\ off = 2 /\ fno > M
        BY <1>1, <1>4, <2>10 DEF HeadAsId
      <4>2. QED
        BY <1>1, <1>2, <2>3, <4>1
    <3>2. CASE Head1 > MaxLength
      <4>1. read_state_' = "WAIT_HEAD_0"
        BY <1>3, <2>10, <3>1, <3>2 DEF HeadAsId
      <4>2. QED
        BY <1>4, <1>7, <1>8, <2>4, <2>7, <3>1, <4>1
    <3>3. CASE ~(Head1 > MaxLength)
      <4>1. read_state_' = "WAIT_DATA" /\ target_length_' = Head1 /\ rx_index_' = 0
        BY <1>3, <2>10, <3>1, <3>3 DEF HeadAsId
      <4>2. Debt' = Head1 + 2
        BY <2>5, <4>1 DEF Debt
      <4>3. 7 * (fno' - 1 - M) + (off' - 1) + Debt' <= MaxLength + 2
        <5>1. fno' - 1 - M = 0 /\ off' - 1 = 2
          BY <1>4, <3>1
        <5>2. QED
          BY <2>4, <2>5, <3>3, <4>2, <5>1
      <4>4. QED
        BY <1>1, <1>2, <1>4, <3>1, <4>1, <4>3 DEF Recovering, Swallowing
    <3>4. QED
      BY <3>2, <3>3
  <2>11. ASSUME fno > M, read_state_ \in {"WAIT_DATA", "WAIT_CHECKSUM", "WAIT_END"},
                7 * (fno - 1 - M) + (off - 1) + Debt <= MaxLength + 2
         PROVE  Recovering'
    <3>1. PICK x, y : x = Debt /\ y = Debt'
      OBVIOUS
    <3>2. x \in Nat /\ x >= 1
      BY <2>6, <3>1 DEF Debt
    <3>3. 7 * (fno - 1 - M) + (off - 1) + x <= MaxLength + 2
      BY <2>11, <3>1
    <3>4. PICK a, c : a = fno - 1 - M /\ c = off - 1
      OBVIOUS
    <3>5. a \in Nat /\ c \in Nat /\ 7 * a + c + x <= MaxLength + 2
      BY <1>2, <1>4, <2>11, <3>3, <3>4
    <3>6. PICK a2, c2 : a2 = F - 1 - M /\ c2 = O - 1
      OBVIOUS
    <3>7. /\ a2 \in Nat /\ c2 \in Nat /\ F = M + 1 + a2 /\ O = c2 + 1
          /\ 7 * a2 + c2 <= 7 * a + c + 1
      <4>1. CASE off = Len(w)
        <5>1. a2 = a + 1 /\ c2 = 0 /\ c >= 6 /\ F = M + 1 + a2 /\ O = c2 + 1
          BY <1>4, <1>8, <2>3, <2>11, <3>4, <3>6, <4>1
        <5>2. QED
          BY <3>5, <5>1
      <4>2. CASE off # Len(w)
        <5>1. a2 = a /\ c2 = c + 1 /\ F = M + 1 + a2 /\ O = c2 + 1
          BY <1>4, <1>8, <3>4, <3>6, <4>2
        <5>2. QED
          BY <3>5, <5>1
      <4>3. QED
        BY <4>1, <4>2
    <3>8. CASE read_state_' \in {"WAIT_DATA", "WAIT_CHECKSUM", "WAIT_END"}
      <4>1. y \in Nat /\ y + 1 <= x
        <5>1. CASE read_state_ = "WAIT_DATA"
          BY <1>3, <2>6, <3>1, <5>1 DEF Debt
        <5>2. CASE read_state_ = "WAIT_CHECKSUM"
          <6>1. read_state_' = "WAIT_END"
            BY <1>3, <3>8, <5>2
          <6>2. QED
            BY <3>1, <5>2, <6>1 DEF Debt
        <5>3. CASE read_state_ = "WAIT_END"
          BY <1>3, <3>8, <5>3
        <5>4. QED
          BY <2>11, <5>1, <5>2, <5>3
      <4>2. 7 * a2 + c2 + y <= MaxLength + 2 /\ F > M
        BY <1>4, <2>4, <3>2, <3>5, <3>7, <4>1
      <4>3. 7 * (F - 1 - M) + (O - 1) + y <= MaxLength + 2
        BY <3>6, <4>2
      <4>4. mark'.frames = M
        BY <1>1, <1>2
      <4>5. QED
        BY <1>7, <3>1, <3>8, <4>2, <4>3, <4>4 DEF Recovering, Swallowing
    <3>9. CASE read_state_' = "WAIT_HEAD_0"
      <4>1. 7 * a2 + c2 <= MaxLength + 2
        BY <2>4, <3>2, <3>5, <3>7
      <4>2. CASE c2 = 0
        <5>1. 7 * a2 <= MaxLength + 8
          BY <2>4, <3>7, <4>1, <4>2
        <5>2. a2 <= MayBeSwallowed
          BY <2>4, <3>7, <5>1
        <5>3. O = 1 /\ F > M /\ F <= M + MayBeSwallowed + 1
          BY <1>4, <2>4, <3>7, <4>2, <5>2
        <5>4. QED
          BY <2>7, <3>9, <5>3
      <4>3. CASE c2 # 0
        <5>1. 7 * (a2 + 1) <= MaxLength + 8 /\ a2 + 1 \in Nat
          BY <2>4, <3>7, <4>1, <4>3
        <5>2. a2 + 1 <= MayBeSwallowed
          BY <2>4, <5>1
        <5>3. F > M /\ F <= M + MayBeSwallowed /\ F <= M + MayBeSwallowed + 1
          BY <1>4, <2>4, <3>7, <5>2
        <5>4. QED
          BY <2>7, <3>9, <5>3
      <4>4. QED
        BY <4>2, <4>3
    <3>10. QED
      BY <1>3, <2>11, <3>8, <3>9
  <2>12. CASE AtStart /\ read_state_ \in {"WAIT_DATA", "WAIT_CHECKSUM", "WAIT_END"}
    <3>1. fno = M + 1 /\ off = 1 /\ fno - 1 - M = 0 /\ off - 1 = 0
      BY <1>1, <1>4, <2>12 DEF AtStart
    <3>2. Debt <= MaxLength + 2
      BY <2>4, <2>6 DEF Debt
    <3>3. 7 * (fno - 1 - M) + (off - 1) + Debt <= MaxLength + 2
      <4>1. Debt \in Nat
        BY <2>6 DEF Debt
      <4>2. QED
        BY <2>4, <3>1, <3>2, <4>1
    <3>4. QED
      BY <1>4, <2>11, <2>12, <3>1, <3>3
  <2>13. CASE Swallowing
    BY <1>1, <2>11, <2>13 DEF Swallowing
  <2>14. CASE Searching
    <3>1. fno > M /\ fno <= M + MayBeSwallowed /\ read_state_ = "WAIT_HEAD_0" /\ off \in 2..Len(w)
      BY <1>1, <1>2, <2>14 DEF Searching
    <3>2. read_state_' = "WAIT_HEAD_0"
      BY <1>1, <1>3, <2>3, <3>1
    <3>3. QED
      <4>1. CASE off = Len(w)
        <5>1. F > M /\ F <= M + MayBeSwallowed + 1 /\ O = 1
          BY <1>4, <1>8, <2>4, <3>1, <4>1
        <5>2. QED
          BY <2>7, <3>2, <5>1
      <4>2. CASE off # Len(w)
        <5>1. F = fno
          BY <1>8, <4>2
        <5>2. F > M /\ F <= M + MayBeSwallowed /\ F <= M + MayBeSwallowed + 1
          BY <1>4, <1>8, <2>4, <3>1, <5>1
        <5>3. QED
          BY <2>7, <3>2, <5>2
      <4>3. QED
        BY <4>1, <4>2
  <2>15. ASSUME NEW s \in Int, InStepSince(s) PROVE Recovering'
    <3>1. /\ InStep /\ s \in (M + 1)..(M + MayBeSwallowed + 1) /\ s <= fno
          /\ Len(delivered) >= mark.delivered + (fno - s)
          /\ \A j \in s..(fno - 1) :
               delivered[Len(delivered) - (fno - 1) + j].data = frames[j].data
      BY <1>1, <2>15 DEF InStepSince
    <3>2. fno > M
      BY <1>2, <1>4, <2>4, <2>15, <3>1
    <3>3. InStep' /\ ReadOn
      BY <2>3, <3>1, <3>2, ReadsOn
    <3>4. CASE fno' = fno /\ delivered' = delivered
      <4>1. InStepSince(s)'
        BY <1>1, <1>2, <3>1, <3>3, <3>4 DEF InStepSince
      <4>2. QED
        BY <4>1 DEF Recovering
    <3>5. CASE fno' = fno + 1 /\ off' = 1
      <4>1. fno \notin damaged /\ fno' # fno
        BY <1>2, <1>9, <3>5 DEF NoDataDamaged
      <4>2. PICK r \in Payloads : r.data = frames[fno].data /\ delivered' = Append(delivered, r)
        BY <3>3, <4>1 DEF ReadOn
      <4>3. PICK l : l = Len(delivered)
        OBVIOUS
      <4>4. /\ Len(delivered') = l + 1 /\ delivered'[l + 1] = r /\ l \in Nat
            /\ \A c \in 1..l : delivered'[c] = delivered[c]
        BY <1>4, <4>2, <4>3
      <4>5. ASSUME NEW j \in s..(fno' - 1)
            PROVE  delivered'[Len(delivered') - (fno' - 1) + j].data = frames[j].data
        <5>1. CASE j = fno
          <6>1. Len(delivered') - (fno' - 1) + j = l + 1
            BY <1>2, <3>5, <4>4, <5>1
          <6>2. QED
            BY <4>2, <4>4, <5>1, <6>1
        <5>2. CASE j # fno
          <6>1. PICK c : c = l - (fno - 1) + j
            OBVIOUS
          <6>2. j \in s..(fno - 1) /\ j \in Int /\ fno' - 1 = fno
            BY <1>2, <3>5, <5>2
          <6>3. Len(delivered') - (fno' - 1) + j = c
            BY <1>2, <4>4, <6>1, <6>2
          <6>4. s \in Int /\ mark.delivered \in Nat /\ l >= mark.delivered + (fno - s)
            BY <1>4, <2>15, <3>1, <4>3
          <6>5. c \in 1..l
            BY <1>2, <4>4, <6>1, <6>2, <6>4
          <6>6. QED
            BY <3>1, <4>3, <4>4, <6>1, <6>2, <6>3, <6>5
        <5>3. QED
          BY <5>1, <5>2
      <4>6. Len(delivered') >= mark.delivered + (fno' - s) /\ s <= fno'
        BY <1>2, <1>4, <3>1, <3>5, <4>3, <4>4
      <4>7. InStepSince(s)'
        BY <1>1, <1>2, <3>1, <3>3, <4>5, <4>6 DEF InStepSince
      <4>8. QED
        BY <4>7 DEF Recovering
    <3>6. QED
      BY <3>3, <3>4, <3>5 DEF ReadOn
  <2>16. CASE AtStart /\ read_state_ = "WAIT_HEAD_0"
    <3>1. fno = M + 1 /\ off = 1
      BY <1>1, <2>16 DEF AtStart
    <3>2. InStepSince(fno)
      BY <1>1, <1>2, <1>4, <1>5, <2>4, <2>16, <3>1, InStepAgain DEF ResyncInv
    <3>3. QED
      BY <1>2, <2>15, <3>2
  <2>17. QED
    BY <2>1, <2>2, <2>8, <2>9, <2>10, <2>12, <2>13, <2>14, <2>15, <2>16
    DEF Recovering, NoisyInv, ParserOK, ReadStates
<1>10. /\ NoDataDamaged' <=> NoDataDamaged
      /\ mark'.frames = M /\ frames' = frames
  BY <1>1, <1>2 DEF NoDataDamaged
<1>11. QED
  BY <1>5, <1>6, <1>9, <1>10 DEF ResyncInv, PlainLine

LEMMA ResyncSkips ==
  ASSUME NoisyInv, ResyncInv, Skip, delivered' = delivered
  PROVE  ResyncInv'
<1>1. PICK M, l, F : M = mark.frames /\ l = Len(delivered) /\ F = fno'
  OBVIOUS
<1>2. /\ UNCHANGED <<frames, written, damaged>> /\ Len(written) = Len(frames)
      /\ mark' = [frames |-> IF off' = 1 /\ M < F THEN F - 1 ELSE F, delivered |-> l]
  BY <1>1 DEF Skip, line, NoisyInv, PlaceOK
<1>3. /\ M \in 0..Len(frames) /\ M <= fno /\ fno \in Nat /\ Len(frames) \in Nat
      /\ delivered \in Seq(Payloads) /\ l \in Nat
  BY <1>1 DEF ResyncInv, MarkOK, NoisyInv, PlaceOK
<1>4. \/ F \in fno..Len(frames)
      \/ F = Len(frames) + 1 /\ off' = 1 /\ fno <= F
  BY <1>1, <1>2, <1>3 DEF Skip, NoisyInv, PlaceOK
<1>5. PICK N : N = mark'.frames
  OBVIOUS
<1>6. /\ N \in 0..Len(frames) /\ N <= F /\ M <= N
      /\ F = N \/ (F = N + 1 /\ off' = 1)
  BY <1>2, <1>3, <1>4, <1>5
<1>7. MarkOK'
  BY <1>1, <1>2, <1>3, <1>5, <1>6 DEF MarkOK
<1>8. Recovering'
  BY <1>1, <1>5, <1>6 DEF Recovering, Struck, AtStart
<1>9. ASSUME PlainLine, NoDataDamaged, NEW i \in (N + 1)..Len(frames) PROVE OnLine(i)'
  <2>1. i \in (M + 1)..Len(frames)
    BY <1>3, <1>6
  <2>2. OnLine(i)
    BY <1>1, <1>9, <2>1 DEF ResyncInv
  <2>3. QED
    BY <1>2, <2>2, OnLineKept
<1>10. NoDataDamaged' <=> NoDataDamaged
  BY <1>2 DEF NoDataDamaged
<1>11. QED
  BY <1>2, <1>3, <1>5, <1>7, <1>8, <1>9, <1>10 DEF ResyncInv, PlainLine

LEMMA ResyncDamage ==
  ASSUME NoisyInv, ResyncInv, NEW b \in Byte, Damage(b)
  PROVE  ResyncInv'
<1>1. /\ UNCHANGED <<frames, fno, delivered>> /\ fno \in 1..Len(frames) /\ Len(frames) \in Nat
      /\ written' = [written EXCEPT ![fno][off] = b] /\ written \in Seq(Seq(Values))
      /\ IF off > 4
           THEN damaged' = damaged \cup {fno} /\ mark' = mark
           ELSE /\ mark' = [frames |-> fno, delivered |-> Len(delivered)]
                /\ damaged' = damaged
  BY DEF Damage, NoisyInv, PlaceOK, LineShape
<1>2. /\ mark.frames \in 0..Len(frames) /\ mark.frames <= fno
      /\ mark.delivered \in 0..Len(delivered)
      /\ delivered \in Seq(Payloads) /\ Len(delivered) \in Nat
  BY DEF ResyncInv, MarkOK
<1>3. MarkOK'
  <2>1. CASE off > 4
    BY <1>1, <1>2, <2>1 DEF MarkOK
  <2>2. CASE ~(off > 4)
    BY <1>1, <1>2, <2>2 DEF MarkOK
  <2>3. QED
    BY <2>1, <2>2
<1>4. ASSUME PlainLine, NoDataDamaged'
      PROVE  Recovering' /\ \A i \in (mark'.frames + 1)..Len(frames') : OnLine(i)'
  <2>1. /\ mark'.frames = fno /\ damaged' = damaged /\ damaged = {}
    BY <1>1, <1>4 DEF NoDataDamaged
  <2>2. ASSUME NEW i \in (fno + 1)..Len(frames) PROVE OnLine(i)'
    <3>1. i \in (mark.frames + 1)..Len(frames) /\ i # fno
      BY <1>1, <1>2
    <3>2. OnLine(i)
      BY <1>4, <2>1, <3>1 DEF ResyncInv, NoDataDamaged
    <3>3. written'[i] = written[i]
      BY <1>1, <3>1 DEF NoisyInv, PlaceOK
    <3>4. QED
      BY <1>1, <2>1, <3>2, <3>3, OnLineKept
  <2>3. QED
    BY <1>1, <2>1, <2>2 DEF Recovering, Struck
<1>5. QED
  BY <1>1, <1>2, <1>3, <1>4 DEF ResyncInv, PlainLine

LEMMA ResyncStep ==
  ASSUME NoisyInv, ResyncInv, [NoisyNext]_vars
  PROVE  ResyncInv'
<1>1. ASSUME NEW f \in Frames, Send(f) PROVE ResyncInv'
  <2>1. /\ Len(frames') = Len(frames) + 1 /\ Len(frames) \in Nat
        /\ UNCHANGED <<fno, off, read_state_, rx_index_, target_length_, delivered, damaged, mark>>
        /\ \A i \in 1..Len(frames) : frames'[i] = frames[i]
        /\ \A i \in 1..Len(frames) : OnLine(i) => OnLine(i)'
        /\ OnLine(Len(frames))'
        /\ InStep => InStep'
        /\ fno \in 1..(Len(frames) + 1)
    BY <1>1, SendsOn DEF NoisyInv, PlaceOK, parser
  <2>2. MarkOK' /\ mark.frames \in 0..Len(frames)
    BY <2>1 DEF ResyncInv, MarkOK
  <2>3. ASSUME NEW i \in (mark.frames + 1)..Len(frames'),
               \A k \in (mark.frames + 1)..Len(frames) : OnLine(k)
        PROVE  OnLine(i)'
    <3>1. CASE i = Len(frames')
      BY <2>1, <3>1 DEF OnLine, Wrong
    <3>2. CASE i # Len(frames')
      <4>1. i \in (mark.frames + 1)..Len(frames) /\ i \in 1..Len(frames)
        BY <2>1, <2>2, <3>2
      <4>2. QED
        BY <2>1, <2>3, <4>1
    <3>3. QED
      BY <3>1, <3>2
  <2>4. ASSUME NEW s \in Int, InStepSince(s) PROVE InStepSince(s)'
    <3>1. s \in (mark.frames + 1)..(mark.frames + MayBeSwallowed + 1) /\ s <= fno
      BY <2>4 DEF InStepSince
    <3>2. \A j \in s..(fno - 1) : frames'[j] = frames[j]
      <4>1. s >= 1
        BY <2>2, <3>1, SwallowBound
      <4>2. s..(fno - 1) \subseteq 1..Len(frames)
        BY <2>1, <4>1
      <4>3. QED
        BY <2>1, <4>2
    <3>3. QED
      BY <2>1, <2>4, <3>2 DEF InStepSince
  <2>5. /\ Struck' <=> Struck
        /\ AtStart' <=> AtStart
        /\ HeadAsId' <=> HeadAsId
        /\ Debt' = Debt
        /\ Searching' <=> Searching
    BY <2>1 DEF Struck, AtStart, HeadAsId, Debt, Searching
  <2>6. Swallowing' <=> Swallowing
    BY <2>1, <2>5 DEF Swallowing
  <2>7. Recovering => Recovering'
    BY <2>4, <2>5, <2>6 DEF Recovering
  <2>8. NoDataDamaged' <=> NoDataDamaged
    BY <2>1 DEF NoDataDamaged
  <2>9. QED
    BY <2>1, <2>2, <2>3, <2>7, <2>8 DEF ResyncInv, PlainLine
<1>2. CASE BeginCall \/ ReturnEmpty \/ UNCHANGED vars
  <2>1. UNCHANGED <<frames, written, fno, off, read_state_, rx_index_, target_length_, rx_buffer_,
                    delivered, damaged, mark>>
    BY <1>2 DEF BeginCall, ReturnEmpty, vars, line, parser
  <2>2. /\ InStep' <=> InStep
        /\ Debt' = Debt
        /\ \A i : OnLine(i) => OnLine(i)'
    BY <2>1 DEF InStep, Received, Debt, OnLine, Wrong
  <2>3. \A s : InStepSince(s) => InStepSince(s)'
    BY <2>1, <2>2 DEF InStepSince
  <2>4. Recovering => Recovering'
    BY <2>1, <2>2, <2>3 DEF Recovering, Struck, AtStart, HeadAsId, Swallowing, Searching
  <2>5. QED
    BY <2>1, <2>2, <2>4 DEF ResyncInv, MarkOK, NoDataDamaged, PlainLine
<1>3. CASE ReadByte
  BY <1>3, ResyncReads
<1>4. ASSUME NEW b \in Byte, Damage(b) PROVE ResyncInv'
  BY <1>4, ResyncDamage
<1>5. CASE BytesLost \/ ReadException
  BY <1>5, ResyncSkips DEF BytesLost, ReadException
<1>6. QED
  BY <1>1, <1>2, <1>3, <1>4, <1>5 DEF NoisyNext, Receive

(* Wherever the stream is cut or a head is changed, and whatever state the  *)
(* parser is in then: on a line whose frames hold no second head at most    *)
(* MayBeSwallowed frames behind it are missing, and from then on every      *)
(* frame is delivered.                                                      *)
THEOREM ResyncsHolds == NoisySpec => []Resyncs
<1>1. Init => ResyncInv
  <2> SUFFICES ASSUME Init PROVE ResyncInv
    OBVIOUS
  <2>1. /\ frames = <<>> /\ fno = 1 /\ off = 1 /\ delivered = <<>>
        /\ mark = [frames |-> 0, delivered |-> 0]
    BY DEF Init
  <2>2. MarkOK /\ AtStart
    BY <2>1 DEF MarkOK, AtStart
  <2>3. QED
    BY <2>1, <2>2 DEF ResyncInv, Recovering
<1>2. NoisyInv /\ ResyncInv /\ [NoisyNext]_vars => ResyncInv'
  BY ResyncStep
<1>3. NoisyInv /\ ResyncInv => Resyncs
  <2>1. PICK M, S, good : M = mark.frames /\ S = MayBeSwallowed /\ good = fno - 1 - (M + S)
    OBVIOUS
  <2> SUFFICES ASSUME NoisyInv, ResyncInv, PlainLine, NoDataDamaged, good > 0
               PROVE  /\ Len(delivered) >= mark.delivered + good
                      /\ \A i \in 1..good :
                           delivered[Len(delivered) - good + i].data = frames[M + S + i].data
    BY <2>1 DEF Resyncs
  <2>2. /\ fno \in Nat /\ M \in Nat /\ S \in Nat /\ S >= 1 /\ MaxLength \in Nat
        /\ \A k \in Nat : 7 * k <= MaxLength + 8 => k <= S
        /\ mark.delivered \in Nat /\ Len(delivered) \in Nat /\ Len(frames) \in Nat
        /\ good = fno - 1 - (M + S) /\ good \in Nat
    BY <2>1, SwallowBound, ByteTypes DEF NoisyInv, PlaceOK, ResyncInv, MarkOK
  <2>3. Recovering
    BY DEF ResyncInv
  <2>4. ~Struck /\ ~AtStart /\ ~HeadAsId /\ ~Searching
    BY <2>1, <2>2 DEF Struck, AtStart, HeadAsId, Searching
  <2>5. ~Swallowing
    <3> SUFFICES ASSUME Swallowing PROVE FALSE
      OBVIOUS
    <3>1. PICK a : a = fno - 1 - M
      OBVIOUS
    <3>2. off \in Nat /\ off >= 1 /\ Debt \in Nat
      BY ByteTypes DEF NoisyInv, PlaceOK, ParserOK, Debt
    <3>3. a \in Nat /\ 7 * a + (off - 1) + Debt <= MaxLength + 2
      BY <2>1, <2>2, <3>1 DEF Swallowing
    <3>4. 7 * a <= MaxLength + 8
      BY <2>2, <3>2, <3>3
    <3>5. a <= S
      BY <2>2, <3>3, <3>4
    <3>6. QED
      BY <2>2, <3>1, <3>5
  <2>6. PICK s \in Int : InStepSince(s)
    BY <2>3, <2>4, <2>5 DEF Recovering
  <2>7. /\ s \in (M + 1)..(M + S + 1)
        /\ Len(delivered) >= mark.delivered + (fno - s)
        /\ \A j \in s..(fno - 1) : delivered[Len(delivered) - (fno - 1) + j].data = frames[j].data
    BY <2>1, <2>6 DEF InStepSince
  <2>8. Len(delivered) >= mark.delivered + good
    BY <2>2, <2>7
  <2>9. ASSUME NEW i \in 1..good
        PROVE  delivered[Len(delivered) - good + i].data = frames[M + S + i].data
    <3>1. /\ M + S + i \in s..(fno - 1)
          /\ Len(delivered) - (fno - 1) + (M + S + i) = Len(delivered) - good + i
      BY <2>2, <2>7
    <3>2. QED
      BY <2>7, <3>1
  <2>10. QED
    BY <2>8, <2>9
<1>4. QED
  BY NoisyInit, NoisyStep, <1>1, <1>2, <1>3, PTL DEF NoisySpec
=============================================================================
