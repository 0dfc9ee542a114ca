-------------------------- MODULE SerialStream_proof --------------------------
(***************************************************************************)
(* Proofs about SerialStream, for every width of a byte, every set of       *)
(* frames and every way the calls of serial_read2 cut the stream.           *)
(***************************************************************************)
EXTENDS SerialStream, SequenceTheorems, TLAPS

LEMMA ConcatParts ==
  \A S : \A a, b \in Seq(S) :
       /\ a \o b \in Seq(S)
       /\ Len(a \o b) = Len(a) + Len(b)
       /\ \A k \in 1..Len(a) : (a \o b)[k] = a[k]
       /\ \A k \in 1..Len(b) : (a \o b)[Len(a) + k] = b[k]
<1> SUFFICES ASSUME NEW S, NEW a \in Seq(S), NEW b \in Seq(S)
             PROVE  /\ a \o b \in Seq(S)
                    /\ Len(a \o b) = Len(a) + Len(b)
                    /\ \A k \in 1..Len(a) : (a \o b)[k] = a[k]
                    /\ \A k \in 1..Len(b) : (a \o b)[Len(a) + k] = b[k]
  OBVIOUS
<1>1. Len(a) \in Nat /\ Len(b) \in Nat
  OBVIOUS
<1>2. /\ a \o b \in Seq(S)
      /\ Len(a \o b) = Len(a) + Len(b)
      /\ \A i \in 1 .. Len(a) + Len(b) :
           (a \o b)[i] = IF i <= Len(a) THEN a[i] ELSE b[i - Len(a)]
  BY ConcatProperties
<1>3. ASSUME NEW k \in 1..Len(a) PROVE (a \o b)[k] = a[k]
  BY <1>1, <1>2
<1>4. ASSUME NEW k \in 1..Len(b) PROVE (a \o b)[Len(a) + k] = b[k]
  <2>1. /\ Len(a) + k \in 1 .. Len(a) + Len(b)
        /\ ~(Len(a) + k <= Len(a))
        /\ (Len(a) + k) - Len(a) = k
    BY <1>1
  <2>2. QED
    BY <1>2, <2>1
<1>5. QED
  BY <1>2, <1>3, <1>4

LEMMA ThreeParts ==
  \A S : \A h, d, t \in Seq(S) :
       /\ Len((h \o d) \o t) = Len(h) + Len(d) + Len(t)
       /\ \A k \in 1..Len(h) : ((h \o d) \o t)[k] = h[k]
       /\ \A k \in 1..Len(d) : ((h \o d) \o t)[Len(h) + k] = d[k]
       /\ \A k \in 1..Len(t) : ((h \o d) \o t)[Len(h) + Len(d) + k] = t[k]
<1> SUFFICES ASSUME NEW S, NEW h \in Seq(S), NEW d \in Seq(S), NEW t \in Seq(S)
             PROVE  /\ Len((h \o d) \o t) = Len(h) + Len(d) + Len(t)
                    /\ \A k \in 1..Len(h) : ((h \o d) \o t)[k] = h[k]
                    /\ \A k \in 1..Len(d) : ((h \o d) \o t)[Len(h) + k] = d[k]
                    /\ \A k \in 1..Len(t) : ((h \o d) \o t)[Len(h) + Len(d) + k] = t[k]
  OBVIOUS
<1>1. Len(h) \in Nat /\ Len(d) \in Nat /\ Len(t) \in Nat
  OBVIOUS
<1>2. PICK u : u = h \o d
  OBVIOUS
<1>3. /\ u \in Seq(S) /\ Len(u) = Len(h) + Len(d)
      /\ \A k \in 1..Len(h) : u[k] = h[k]
      /\ \A k \in 1..Len(d) : u[Len(h) + k] = d[k]
  BY <1>2, ConcatParts
<1>4. /\ Len(u \o t) = Len(u) + Len(t)
      /\ \A k \in 1..Len(u) : (u \o t)[k] = u[k]
      /\ \A k \in 1..Len(t) : (u \o t)[Len(u) + k] = t[k]
  <2>1. u \in Seq(S) /\ t \in Seq(S)
    BY <1>3
  <2>2. QED
    BY ONLY <2>1, ConcatParts
<1>5. ASSUME NEW k \in 1..Len(h) PROVE (u \o t)[k] = h[k]
  BY <1>1, <1>3, <1>4
<1>6. ASSUME NEW k \in 1..Len(d) PROVE (u \o t)[Len(h) + k] = d[k]
  <2>1. Len(h) + k \in 1..Len(u)
    BY <1>1, <1>3
  <2>2. QED
    BY <1>3, <1>4, <2>1
<1>7. QED
  BY <1>2, <1>3, <1>4, <1>5, <1>6

\* Where each byte of a frame is.
LEMMA EncodeBytes ==
  ASSUME NEW f \in Frames
  PROVE  LET n == Len(f.data)
             e == Encode(f)
         IN  /\ n \in 1..MaxLength
             /\ Len(e) = n + 6
             /\ e[1] = Head0 /\ e[2] = Head1 /\ e[3] = f.id /\ e[4] = n
             /\ \A k \in 1..n : e[4 + k] = f.data[k]
             /\ e[5 + n] = calculateXORcheck(f.data)
             /\ e[6 + n] = End0
<1>1. PICK d, n, x, e : d = f.data /\ n = Len(d) /\ x = calculateXORcheck(d) /\ e = Encode(f)
  OBVIOUS
<1>2. d \in Seq(Byte) /\ n \in 1..MaxLength /\ n \in Nat
  BY <1>1, SerialAssumption DEF SerialAssumption
<1>3. PICK h, t : h = <<Head0, Head1, f.id, n>> /\ t = <<x, End0>>
  OBVIOUS
<1>4. PICK S : S = Byte \cup {Head0, Head1, f.id, n, x, End0}
  OBVIOUS
<1>5. h \in Seq(S) /\ d \in Seq(S) /\ t \in Seq(S)
  BY <1>2, <1>3, <1>4
<1>6. /\ Len(h) = 4 /\ h[1] = Head0 /\ h[2] = Head1 /\ h[3] = f.id /\ h[4] = n
      /\ Len(t) = 2 /\ t[1] = x /\ t[2] = End0
  BY <1>3
<1>7. e = (h \o d) \o t
  BY <1>1, <1>3 DEF Encode
<1>8. /\ Len(e) = Len(h) + Len(d) + Len(t)
      /\ \A k \in 1..Len(h) : e[k] = h[k]
      /\ \A k \in 1..Len(d) : e[Len(h) + k] = d[k]
      /\ \A k \in 1..Len(t) : e[Len(h) + Len(d) + k] = t[k]
  <2>1. /\ Len((h \o d) \o t) = Len(h) + Len(d) + Len(t)
        /\ \A k \in 1..Len(h) : ((h \o d) \o t)[k] = h[k]
        /\ \A k \in 1..Len(d) : ((h \o d) \o t)[Len(h) + k] = d[k]
        /\ \A k \in 1..Len(t) : ((h \o d) \o t)[Len(h) + Len(d) + k] = t[k]
    BY ONLY <1>5, ThreeParts
  <2>2. QED
    BY ONLY <1>7, <2>1
<1>9. e[1] = Head0 /\ e[2] = Head1 /\ e[3] = f.id /\ e[4] = n
  BY <1>6, <1>8
<1>10. \A k \in 1..n : e[4 + k] = d[k]
  BY <1>1, <1>6, <1>8
<1>11. Len(e) = n + 6 /\ e[5 + n] = x /\ e[6 + n] = End0
  <2>1. e[4 + n + 1] = x /\ e[4 + n + 2] = End0 /\ Len(e) = 4 + n + 2
    BY <1>1, <1>6, <1>8
  <2>2. 4 + n + 1 = 5 + n /\ 4 + n + 2 = 6 + n /\ 6 + n = n + 6
    BY <1>2
  <2>3. QED
    BY <2>1, <2>2
<1>12. QED
  BY <1>1, <1>2, <1>9, <1>10, <1>11
-----------------------------------------------------------------------------
\* On a clean line the parser's state says which byte of the current frame is
\* next, and what rx_buffer_ and the caller's variables hold of it.
LineInv ==
  /\ frames \in Seq(Frames)
  /\ Len(written) = Len(frames)
  /\ \A i \in 1..Len(frames) : written[i] = Encode(frames[i])
  /\ fno \in 1..(Len(frames) + 1)
  /\ off \in Nat
  /\ read_state_ \in ReadStates
  /\ read_state_ # "WAIT_HEAD_0" => fno <= Len(frames)

PositionInv ==
  /\ read_state_ = "WAIT_HEAD_0"   => off = 1
  /\ read_state_ = "WAIT_HEAD_1"   => off = 2
  /\ read_state_ = "WAIT_FRAME_ID" => off = 3
  /\ read_state_ = "WAIT_LENGTH"   => off = 4
  /\ read_state_ = "WAIT_DATA"     => off = 5 + rx_index_
  /\ read_state_ = "WAIT_CHECKSUM" => off = 5 + target_length_
  /\ read_state_ = "WAIT_END"      => off = 6 + target_length_

BufferInv ==
  LET data == frames[fno].data
  IN  /\ rx_buffer_ \in [1..MaxLength -> Byte]
      /\ read_state_ \in {"WAIT_DATA", "WAIT_CHECKSUM", "WAIT_END"} => target_length_ = Len(data)
      /\ read_state_ = "WAIT_DATA" =>
           /\ rx_index_ \in 0..(target_length_ - 1)
           /\ \A k \in 1..rx_index_ : rx_buffer_[k] = data[k]
      /\ read_state_ \in {"WAIT_CHECKSUM", "WAIT_END"} => Received = data

CallInv ==
  LET f == frames[fno]
  IN  /\ call \in [active : BOOLEAN, id : Byte, length : Byte]
      /\ read_state_ \in {"WAIT_HEAD_0", "WAIT_HEAD_1", "WAIT_FRAME_ID"} => call.id = 0
      /\ read_state_ = "WAIT_LENGTH" => call.id \in {0, f.id}
      /\ read_state_ \in {"WAIT_DATA", "WAIT_CHECKSUM", "WAIT_END"} =>
           call.id = 0 \/ (call.id = f.id /\ call.length = Len(f.data))

CleanInv == LineInv /\ PositionInv /\ BufferInv /\ CallInv
              /\ delivered \in Seq([id : Byte, length : Byte, data : Seq(Byte)])
              /\ PayloadsInOrder /\ DispatchedHeadersTrue

LEMMA ByteTypes == 0 \in Byte /\ MaxLength \in Nat \ {0} /\ MaxLength \in Byte /\ 0..MaxLength \subseteq Byte
<1>1. PICK top : top = 2 ^ Width - 1 /\ top \in Int /\ MaxLength \in (0..top) \ {0}
  BY SerialAssumption DEF SerialAssumption, Byte
<1>2. Byte = 0..top
  BY <1>1 DEF Byte
<1>3. QED
  BY <1>1, <1>2

LEMMA StartsClean == Init => CleanInv
<1> SUFFICES ASSUME Init PROVE CleanInv
  OBVIOUS
<1>1. LineInv
  BY DEF Init, LineInv, ReadStates
<1>2. PositionInv
  BY DEF Init, PositionInv
<1>3. BufferInv
  BY ByteTypes DEF Init, BufferInv
<1>4. CallInv
  BY ByteTypes DEF Init, CallInv, NoCall
<1>5. PayloadsInOrder /\ DispatchedHeadersTrue
      /\ delivered \in Seq([id : Byte, length : Byte, data : Seq(Byte)])
  BY DEF Init, PayloadsInOrder, DispatchedHeadersTrue
<1>6. QED
  BY <1>1, <1>2, <1>3, <1>4, <1>5 DEF CleanInv

\* The byte at the reading position, by the parser's state.
LEMMA ExpectedByte ==
  ASSUME LineInv, PositionInv, BufferInv, NEW b \in Byte, NextByte(b)
  PROVE  LET f == frames[fno]
         IN  /\ fno \in 1..Len(frames) /\ f \in Frames
             /\ Len(f.data) \in 1..MaxLength
             /\ Len(written[fno]) = Len(f.data) + 6
             /\ read_state_ = "WAIT_HEAD_0"   => b = Head0
             /\ read_state_ = "WAIT_HEAD_1"   => b = Head1
             /\ read_state_ = "WAIT_FRAME_ID" => b = f.id
             /\ read_state_ = "WAIT_LENGTH"   => b = Len(f.data)
             /\ read_state_ = "WAIT_DATA"     => b = f.data[rx_index_ + 1]
             /\ read_state_ = "WAIT_CHECKSUM" => b = calculateXORcheck(f.data)
             /\ read_state_ = "WAIT_END"      => b = End0
<1> DEFINE f == frames[fno]
<1>1. fno \in 1..Len(frames) /\ f \in Frames /\ b = Encode(f)[off] /\ written[fno] = Encode(f)
  BY DEF LineInv, NextByte
<1>2. PICK n : n = Len(f.data)
  OBVIOUS
<1>3. /\ n \in 1..MaxLength /\ Len(Encode(f)) = n + 6
      /\ Encode(f)[1] = Head0 /\ Encode(f)[2] = Head1
      /\ Encode(f)[3] = f.id /\ Encode(f)[4] = n
      /\ \A k \in 1..n : Encode(f)[4 + k] = f.data[k]
      /\ Encode(f)[5 + n] = calculateXORcheck(f.data)
      /\ Encode(f)[6 + n] = End0
  BY <1>1, <1>2, EncodeBytes
<1>4. ASSUME read_state_ = "WAIT_DATA" PROVE b = f.data[rx_index_ + 1]
  <2>1. off = 4 + (rx_index_ + 1) /\ rx_index_ + 1 \in 1..n
    <3>1. off = 5 + rx_index_ /\ target_length_ = n /\ rx_index_ \in 0..(target_length_ - 1)
      BY <1>2, <1>4 DEF PositionInv, BufferInv
    <3>2. QED
      BY <1>3, <3>1, ByteTypes
  <2>2. QED
    BY <1>1, <1>3, <2>1
<1>5. read_state_ \in {"WAIT_CHECKSUM", "WAIT_END"} => target_length_ = n
  BY <1>2 DEF BufferInv
<1> HIDE DEF f
<1>6. QED
  BY <1>1, <1>2, <1>3, <1>4, <1>5 DEF PositionInv, f

\* Only the end byte is the last of a frame.
LEMMA Advances ==
  ASSUME LineInv, PositionInv, BufferInv, NEW b \in Byte, NextByte(b)
  PROVE  IF read_state_ = "WAIT_END" THEN fno' = fno + 1 /\ off' = 1
                                     ELSE fno' = fno /\ off' = off + 1
<1>1. PICK n : n = Len(frames[fno].data) /\ n \in 1..MaxLength /\ Len(written[fno]) = n + 6
  BY ExpectedByte
<1>2. CASE read_state_ = "WAIT_END"
  <2>1. off = Len(written[fno])
    BY <1>1, <1>2, ByteTypes DEF PositionInv, BufferInv
  <2>2. QED
    BY <1>2, <2>1 DEF NextByte
<1>3. CASE read_state_ # "WAIT_END"
  <2>1. CASE read_state_ = "WAIT_DATA"
    <3>1. off = 5 + rx_index_ /\ target_length_ = n /\ rx_index_ \in 0..(target_length_ - 1)
      BY <1>1, <2>1 DEF PositionInv, BufferInv
    <3>2. off # Len(written[fno])
      BY <1>1, <3>1, ByteTypes
    <3>3. QED
      BY <1>3, <3>2 DEF NextByte
  <2>2. CASE read_state_ = "WAIT_CHECKSUM"
    <3>1. off = 5 + target_length_ /\ target_length_ = n
      BY <1>1, <2>2 DEF PositionInv, BufferInv
    <3>2. off # Len(written[fno])
      BY <1>1, <3>1, ByteTypes
    <3>3. QED
      BY <1>3, <3>2 DEF NextByte
  <2>3. CASE read_state_ \in {"WAIT_HEAD_0", "WAIT_HEAD_1", "WAIT_FRAME_ID", "WAIT_LENGTH"}
    <3>1. off \in 1..4
      BY <2>3 DEF PositionInv
    <3>2. off # Len(written[fno])
      BY <1>1, <3>1, ByteTypes
    <3>3. QED
      BY <1>3, <3>2 DEF NextByte
  <2>4. QED
    BY <1>3, <2>1, <2>2, <2>3 DEF LineInv, ReadStates
<1>4. QED
  BY <1>2, <1>3

\* A step inside a frame keeps the line and everything delivered so far.
LEMMA InsideFrame ==
  ASSUME CleanInv, NEW b \in Byte, NextByte(b), read_state_ # "WAIT_END",
         delivered' = delivered, read_state_' \in ReadStates
  PROVE  /\ LineInv'
         /\ fno' = fno /\ off' = off + 1 /\ frames' = frames
         /\ delivered' \in Seq([id : Byte, length : Byte, data : Seq(Byte)])
         /\ PayloadsInOrder' /\ DispatchedHeadersTrue'
<1>1. fno' = fno /\ off' = off + 1 /\ fno \in 1..Len(frames)
  BY Advances, ExpectedByte DEF CleanInv
<1>2. UNCHANGED <<frames, written>>
  BY DEF NextByte, line
<1>3. LineInv'
  BY <1>1, <1>2 DEF CleanInv, LineInv
<1>4. PayloadsInOrder' /\ DispatchedHeadersTrue'
  BY <1>1, <1>2 DEF CleanInv, PayloadsInOrder, DispatchedHeadersTrue
<1>5. QED
  BY <1>1, <1>2, <1>3, <1>4 DEF CleanInv
-----------------------------------------------------------------------------
LEMMA HeaderStep ==
  ASSUME CleanInv, WaitHead0 \/ WaitHead1 \/ WaitFrameId \/ WaitLength
  PROVE  CleanInv'
<1> USE DEF ReadStates
<1>1. CASE WaitHead0 \/ WaitHead1
  <2>1. PICK b \in Byte : NextByte(b) /\ UNCHANGED <<rx_index_, target_length_, rx_buffer_, call, delivered>>
    BY <1>1 DEF WaitHead0, WaitHead1
  <2>2. \/ read_state_ = "WAIT_HEAD_0" /\ read_state_' = "WAIT_HEAD_1"
        \/ read_state_ = "WAIT_HEAD_1" /\ read_state_' = "WAIT_FRAME_ID"
    BY <1>1, ExpectedByte DEF WaitHead0, WaitHead1, CleanInv
  <2>3. /\ LineInv' /\ PayloadsInOrder' /\ DispatchedHeadersTrue'
        /\ off' = off + 1 /\ fno' = fno /\ frames' = frames
        /\ delivered' \in Seq([id : Byte, length : Byte, data : Seq(Byte)])
    BY <2>1, <2>2, InsideFrame
  <2>4. PositionInv' /\ BufferInv' /\ CallInv'
    BY <2>1, <2>2, <2>3 DEF CleanInv, PositionInv, BufferInv, CallInv
  <2>5. QED
    BY <2>3, <2>4 DEF CleanInv
<1>2. CASE WaitFrameId
  <2>1. PICK b \in Byte : NextByte(b) /\ call' = [call EXCEPT !.id = b]
    BY <1>2 DEF WaitFrameId
  <2>2. /\ read_state_ = "WAIT_FRAME_ID" /\ read_state_' = "WAIT_LENGTH"
        /\ UNCHANGED <<rx_index_, target_length_, rx_buffer_, delivered>>
    BY <1>2 DEF WaitFrameId
  <2>3. b = frames[fno].id
    BY <2>1, <2>2, ExpectedByte DEF CleanInv
  <2>4. /\ LineInv' /\ PayloadsInOrder' /\ DispatchedHeadersTrue'
        /\ off' = off + 1 /\ fno' = fno /\ frames' = frames
        /\ delivered' \in Seq([id : Byte, length : Byte, data : Seq(Byte)])
    BY <2>1, <2>2, InsideFrame
  <2>5. PositionInv' /\ BufferInv' /\ CallInv'
    BY <2>1, <2>2, <2>3, <2>4 DEF CleanInv, PositionInv, BufferInv, CallInv
  <2>6. QED
    BY <2>4, <2>5 DEF CleanInv
<1>3. CASE WaitLength
  <2>1. PICK b \in Byte :
          /\ NextByte(b)
          /\ b <= MaxLength =>
               /\ read_state_' = "WAIT_DATA" /\ target_length_' = b /\ rx_index_' = 0
               /\ call' = [call EXCEPT !.length = b]
    <3>1. \A b \in Byte : ~(b > MaxLength) <=> b <= MaxLength
      BY ByteTypes DEF Byte
    <3>2. QED
      BY <1>3, <3>1 DEF WaitLength
  <2>2. PICK n : n = Len(frames[fno].data) /\ n \in 1..MaxLength /\ n = b
    BY <1>3, <2>1, ExpectedByte DEF CleanInv, WaitLength
  <2>3. /\ read_state_ = "WAIT_LENGTH" /\ read_state_' = "WAIT_DATA"
        /\ target_length_' = n /\ rx_index_' = 0
        /\ call' = [call EXCEPT !.length = n]
        /\ UNCHANGED <<rx_buffer_, delivered>>
    BY <1>3, <2>1, <2>2, ByteTypes DEF WaitLength
  <2>4. /\ LineInv' /\ PayloadsInOrder' /\ DispatchedHeadersTrue'
        /\ off' = off + 1 /\ fno' = fno /\ frames' = frames
        /\ delivered' \in Seq([id : Byte, length : Byte, data : Seq(Byte)])
    BY <2>1, <2>3, InsideFrame
  <2>5. PositionInv'
    BY <2>3, <2>4 DEF CleanInv, PositionInv
  <2>6. BufferInv'
    <3>1. rx_index_' \in 0..(target_length_' - 1) /\ 1..rx_index_' = {}
      BY <2>2, <2>3, ByteTypes
    <3>2. rx_buffer_' \in [1..MaxLength -> Byte] /\ target_length_' = Len(frames'[fno'].data)
      BY <2>2, <2>3, <2>4 DEF CleanInv, BufferInv
    <3>3. QED
      BY <2>3, <3>1, <3>2 DEF BufferInv
  <2>7. CallInv'
    BY <2>1, <2>2, <2>3, <2>4 DEF CleanInv, CallInv
  <2>8. QED
    BY <2>4, <2>5, <2>6, <2>7 DEF CleanInv
<1>4. QED
  BY <1>1, <1>2, <1>3

LEMMA DataStep ==
  ASSUME CleanInv, WaitData
  PROVE  CleanInv'
<1> USE DEF ReadStates
<1>1. PICK b \in Byte : NextByte(b) /\ rx_buffer_' = [rx_buffer_ EXCEPT ![rx_index_ + 1] = b]
  BY DEF WaitData
<1>2. /\ read_state_ = "WAIT_DATA" /\ rx_index_' = rx_index_ + 1
      /\ read_state_' = IF rx_index_' >= target_length_ THEN "WAIT_CHECKSUM" ELSE "WAIT_DATA"
      /\ UNCHANGED <<target_length_, call, delivered>>
  BY DEF WaitData
<1>3. PICK data, n : /\ data = frames[fno].data /\ n = Len(data) /\ n \in 1..MaxLength
                     /\ b = data[rx_index_ + 1]
                     /\ frames[fno] \in Frames /\ data \in Seq(Byte)
  BY <1>1, <1>2, ExpectedByte, SerialAssumption DEF CleanInv, SerialAssumption
<1>4. /\ LineInv' /\ PayloadsInOrder' /\ DispatchedHeadersTrue'
      /\ off' = off + 1 /\ fno' = fno /\ frames' = frames
      /\ delivered' \in Seq([id : Byte, length : Byte, data : Seq(Byte)])
  BY <1>1, <1>2, InsideFrame
<1>5. /\ target_length_ = n /\ rx_index_ \in 0..(n - 1) /\ off = 5 + rx_index_
      /\ rx_buffer_ \in [1..MaxLength -> Byte]
      /\ \A k \in 1..rx_index_ : rx_buffer_[k] = data[k]
  BY <1>2, <1>3 DEF CleanInv, PositionInv, BufferInv
<1>6. /\ rx_buffer_' \in [1..MaxLength -> Byte]
      /\ \A k \in 1..(rx_index_ + 1) : rx_buffer_'[k] = data[k]
  BY <1>1, <1>3, <1>5, ByteTypes
<1>7. CallInv'
  BY <1>2, <1>4 DEF CleanInv, CallInv
<1>8. CASE rx_index_ + 1 = n
  <2>1. read_state_' = "WAIT_CHECKSUM" /\ off' = 5 + target_length_'
    BY <1>2, <1>3, <1>4, <1>5, <1>8, ByteTypes
  <2>2. Received' = data
    <3>1. SubSeq(rx_buffer_', 1, n) = [k \in 1..n |-> rx_buffer_'[k]]
      BY <1>3, ByteTypes
    <3>2. \A k \in 1..n : rx_buffer_'[k] = data[k]
      BY <1>6, <1>8
    <3>3. data = [k \in 1..n |-> data[k]]
      BY <1>3
    <3>4. QED
      BY <1>2, <1>5, <3>1, <3>2, <3>3 DEF Received
  <2>3. PositionInv'
    BY <2>1 DEF PositionInv
  <2>4. BufferInv'
    BY <1>2, <1>3, <1>4, <1>5, <1>6, <2>1, <2>2 DEF BufferInv
  <2>5. QED
    BY <1>4, <1>7, <2>3, <2>4 DEF CleanInv
<1>9. CASE rx_index_ + 1 # n
  <2>1. read_state_' = "WAIT_DATA" /\ off' = 5 + rx_index_' /\ rx_index_' \in 0..(n - 1)
    <3>1. rx_index_ + 1 \in 0..(n - 1) /\ ~(rx_index_ + 1 >= n) /\ off + 1 = 5 + (rx_index_ + 1)
      BY <1>3, <1>5, <1>9, ByteTypes
    <3>2. QED
      BY <1>2, <1>4, <1>5, <3>1
  <2>2. PositionInv'
    BY <2>1 DEF PositionInv
  <2>3. BufferInv'
    BY <1>2, <1>3, <1>4, <1>5, <1>6, <2>1 DEF BufferInv
  <2>4. QED
    BY <1>4, <1>7, <2>2, <2>3 DEF CleanInv
<1>10. QED
  BY <1>8, <1>9

LEMMA EndStep ==
  ASSUME CleanInv, WaitChecksum \/ WaitEnd
  PROVE  CleanInv'
<1> USE DEF ReadStates
<1>1. CASE WaitChecksum
  <2>1. PICK b \in Byte :
          /\ NextByte(b)
          /\ read_state_' = IF calculateXORcheck(Received) = b THEN "WAIT_END" ELSE "WAIT_HEAD_0"
    BY <1>1 DEF WaitChecksum
  <2>2. /\ read_state_ = "WAIT_CHECKSUM"
        /\ UNCHANGED <<rx_index_, target_length_, rx_buffer_, call, delivered>>
    BY <1>1 DEF WaitChecksum
  <2>3. Received = frames[fno].data /\ Received' = Received
    BY <2>2 DEF CleanInv, BufferInv, Received
  <2>4. read_state_' = "WAIT_END"
    BY <2>1, <2>2, <2>3, ExpectedByte DEF CleanInv
  <2>5. /\ LineInv' /\ PayloadsInOrder' /\ DispatchedHeadersTrue'
        /\ off' = off + 1 /\ fno' = fno /\ frames' = frames
        /\ delivered' \in Seq([id : Byte, length : Byte, data : Seq(Byte)])
    BY <2>1, <2>2, <2>4, InsideFrame
  <2>6. target_length_ \in Nat /\ off = 5 + target_length_
    BY <2>1, <2>2, ExpectedByte, ByteTypes DEF CleanInv, PositionInv, BufferInv
  <2>7. PositionInv'
    BY <2>2, <2>4, <2>5, <2>6 DEF PositionInv
  <2>8. BufferInv' /\ CallInv'
    BY <2>2, <2>3, <2>4, <2>5 DEF CleanInv, BufferInv, CallInv
  <2>9. QED
    BY <2>5, <2>7, <2>8 DEF CleanInv
<1>2. CASE WaitEnd
  <2>1. PICK b \in Byte :
          /\ NextByte(b)
          /\ b = End0 =>
               /\ delivered' = Append(delivered, [id |-> call.id, length |-> call.length,
                                                  data |-> Received])
               /\ call' = NoCall
    BY <1>2 DEF WaitEnd
  <2>2. /\ read_state_ = "WAIT_END" /\ read_state_' = "WAIT_HEAD_0"
        /\ UNCHANGED <<rx_index_, target_length_, rx_buffer_>>
    BY <1>2 DEF WaitEnd
  <2>3. PICK f : /\ f = frames[fno] /\ f \in Frames /\ fno \in 1..Len(frames)
                 /\ f.data \in Seq(Byte) /\ Len(f.data) \in Byte
    BY <2>1, <2>2, ExpectedByte, ByteTypes, SerialAssumption DEF CleanInv, SerialAssumption
  <2>4. PICK d : d = [id |-> call.id, length |-> call.length, data |-> f.data]
    OBVIOUS
  <2>5. delivered' = Append(delivered, d) /\ call' = NoCall
    BY <2>1, <2>2, <2>3, <2>4, ExpectedByte DEF CleanInv, BufferInv
  <2>6. fno' = fno + 1 /\ off' = 1 /\ UNCHANGED <<frames, written>>
    BY <2>1, <2>2, Advances DEF CleanInv, NextByte, line
  <2>7. LineInv' /\ PositionInv'
    BY <2>2, <2>3, <2>6 DEF CleanInv, LineInv, PositionInv
  <2>8. BufferInv' /\ CallInv'
    BY <2>2, <2>5, ByteTypes DEF CleanInv, BufferInv, CallInv, NoCall
  <2>9. d \in [id : Byte, length : Byte, data : Seq(Byte)]
    BY <2>3, <2>4 DEF CleanInv, CallInv
  <2>10. delivered' \in Seq([id : Byte, length : Byte, data : Seq(Byte)])
    BY <2>5, <2>9 DEF CleanInv
  <2>11. /\ Len(delivered') = Len(delivered) + 1
         /\ Len(delivered) = fno - 1
         /\ \A i \in 1..Len(delivered) : delivered'[i] = delivered[i]
         /\ delivered'[Len(delivered) + 1] = d
    BY <2>5, <2>9 DEF CleanInv, PayloadsInOrder
  <2>12. delivered'[fno] = d /\ Len(delivered') = fno
    BY <2>3, <2>11 DEF CleanInv, LineInv
  <2>13. PayloadsInOrder'
    BY <2>3, <2>4, <2>6, <2>11, <2>12 DEF CleanInv, PayloadsInOrder
  <2>14. d.id # 0 => d.id = f.id /\ d.length = Len(f.data)
    BY <2>2, <2>3, <2>4 DEF CleanInv, CallInv
  <2>15. DispatchedHeadersTrue'
    BY <2>3, <2>6, <2>11, <2>12, <2>14 DEF CleanInv, DispatchedHeadersTrue
  <2>16. QED
    BY <2>7, <2>8, <2>10, <2>13, <2>15 DEF CleanInv
<1>3. QED
  BY <1>1, <1>2

LEMMA OutsideStep ==
  ASSUME CleanInv, (\E f \in Frames : Send(f)) \/ BeginCall \/ ReturnEmpty \/ UNCHANGED vars
  PROVE  CleanInv'
<1>1. ASSUME NEW f \in Frames, Send(f)
      PROVE  CleanInv'
  <2>1. /\ frames' = Append(frames, f) /\ written' = Append(written, Encode(f))
        /\ UNCHANGED <<fno, off, read_state_, rx_index_, target_length_, rx_buffer_,
                       call, delivered>>
    BY <1>1 DEF Send, parser
  <2>2. /\ frames' \in Seq(Frames) /\ Len(frames') = Len(frames) + 1
        /\ \A i \in 1..Len(frames) : frames'[i] = frames[i]
        /\ frames'[Len(frames) + 1] = f
        /\ Len(frames) \in Nat
    BY <2>1 DEF CleanInv, LineInv
  <2>3. LineInv'
    BY <2>1, <2>2 DEF CleanInv, LineInv
  <2>4. PositionInv'
    BY <2>1 DEF CleanInv, PositionInv
  <2>5. fno <= Len(frames) => frames'[fno] = frames[fno]
    BY <2>2 DEF CleanInv, LineInv
  <2>6. BufferInv' /\ CallInv'
    BY <2>1, <2>5 DEF CleanInv, LineInv, BufferInv, CallInv, Received
  <2>7. PayloadsInOrder' /\ DispatchedHeadersTrue'
    BY <2>1, <2>2 DEF CleanInv, LineInv, PayloadsInOrder, DispatchedHeadersTrue
  <2>8. QED
    BY <2>1, <2>3, <2>4, <2>6, <2>7 DEF CleanInv
<1>2. CASE BeginCall \/ ReturnEmpty
  <2>1. /\ UNCHANGED <<frames, written, fno, off, read_state_, rx_index_, target_length_,
                       rx_buffer_, delivered>>
        /\ call' \in [active : BOOLEAN, id : Byte, length : Byte] /\ call'.id = 0
    <3>1. call' \in {NewCall, NoCall}
      BY <1>2 DEF BeginCall, ReturnEmpty
    <3>2. call' \in [active : BOOLEAN, id : Byte, length : Byte] /\ call'.id = 0
      <4>1. NewCall \in [active : BOOLEAN, id : Byte, length : Byte] /\ NewCall.id = 0
        BY ByteTypes DEF NewCall
      <4>2. NoCall \in [active : BOOLEAN, id : Byte, length : Byte] /\ NoCall.id = 0
        BY ByteTypes DEF NoCall
      <4>3. QED
        BY <3>1, <4>1, <4>2
    <3>3. QED
      BY <1>2, <3>2 DEF BeginCall, ReturnEmpty, line, parser
  <2>2. LineInv' /\ PositionInv' /\ BufferInv' /\ CallInv'
    BY <2>1 DEF CleanInv, LineInv, PositionInv, BufferInv, CallInv, Received
  <2>3. QED
    BY <2>1, <2>2 DEF CleanInv, PayloadsInOrder, DispatchedHeadersTrue
<1>3. CASE UNCHANGED vars
  BY <1>3 DEF vars, line, parser, CleanInv, LineInv, PositionInv, BufferInv, CallInv,
              Received, PayloadsInOrder, DispatchedHeadersTrue
<1>4. QED
  BY <1>1, <1>2, <1>3
-----------------------------------------------------------------------------
LEMMA CleanLine == Spec => []CleanInv
<1>1. CleanInv /\ [Next]_vars => CleanInv'
  BY HeaderStep, DataStep, EndStep, OutsideStep DEF Next, KeptFrames, Receive, ReadByte
<1>2. QED
  BY StartsClean, <1>1, PTL DEF Spec

(* On a clean line without relocation frames serial_read2 delivers every    *)
(* payload, in order and unchanged, wherever its calls cut the stream.      *)
THEOREM PayloadsArriveInOrder == Spec => []PayloadsInOrder
<1>1. CleanInv => PayloadsInOrder
  BY DEF CleanInv
<1>2. QED
  BY <1>1, CleanLine, PTL

(* No frame is ever dispatched under another frame's id or length.          *)
THEOREM HeadersNeverMixed == Spec => []DispatchedHeadersTrue
<1>1. CleanInv => DispatchedHeadersTrue
  BY DEF CleanInv
<1>2. QED
  BY <1>1, CleanLine, PTL
-----------------------------------------------------------------------------
\* The values on a line whose bytes may change: that a checksum is a byte is not
\* needed here.
Values == Byte \cup {calculateXORcheck(f.data) : f \in Frames}

\* What no fault changes: how many bytes each frame has on the line.
LineShape ==
  /\ written \in Seq(Seq(Values))
  /\ \A i \in 1..Len(frames) : Len(written[i]) \in Nat /\ Len(written[i]) >= 6

\* The parser's part of TypeOK, which no loss on the line disturbs.
ParserOK ==
  /\ read_state_ \in ReadStates
  /\ rx_index_ \in 0..MaxLength
  /\ read_state_ = "WAIT_DATA" => rx_index_ < MaxLength
  /\ target_length_ \in 0..MaxLength
  /\ rx_buffer_ \in [1..MaxLength -> Byte]
  /\ call \in [active : BOOLEAN, id : Byte, length : Byte]

PlaceOK ==
  /\ frames \in Seq(Frames) /\ Len(written) = Len(frames)
  /\ fno \in 1..(Len(written) + 1)
  /\ off \in Nat \ {0} /\ (fno <= Len(written) => off <= Len(written[fno]))
  /\ fno > Len(written) => off = 1

FaultsOK == damaged \subseteq 1..Len(frames) /\ faults \in 0..MaxFaults

LEMMA FrameLength ==
  ASSUME PlaceOK, LineShape, NEW i \in 1..Len(frames)
  PROVE  Len(written[i]) \in Nat /\ Len(written[i]) >= 6
BY DEF LineShape

LEMMA SeqsOfMore ==
  ASSUME NEW A, NEW B, A \subseteq B, NEW s \in Seq(A)
  PROVE  s \in Seq(B)
<1>1. Len(s) \in Nat /\ s \in [1..Len(s) -> A]
  OBVIOUS
<1>2. s \in [1..Len(s) -> B]
  BY <1>1
<1>3. QED
  BY <1>1, <1>2

LEMMA EncodedValues ==
  ASSUME NEW f \in Frames
  PROVE  Encode(f) \in Seq(Values) /\ Len(Encode(f)) \in Nat /\ Len(Encode(f)) >= 6
<1>1. PICK d, n, x : d = f.data /\ n = Len(d) /\ x = calculateXORcheck(d)
  OBVIOUS
<1>2. d \in Seq(Byte) /\ n \in 1..MaxLength /\ f.id \in Byte
  BY <1>1, SerialAssumption DEF SerialAssumption
<1>3. PICK h, t : h = <<Head0, Head1, f.id, n>> /\ t = <<x, End0>>
  OBVIOUS
<1>4. Byte \subseteq Values /\ x \in Values
  BY <1>1 DEF Values
<1>5. {Head0, Head1, f.id, n, x, End0} \subseteq Values
  <2>1. n \in Byte
    BY <1>2, ByteTypes
  <2>2. Head0 \in Byte /\ Head1 \in Byte /\ End0 \in Byte
    BY SerialAssumption DEF SerialAssumption
  <2>3. QED
    BY <1>2, <1>4, <2>1, <2>2
<1>6. h \in Seq(Values) /\ Len(h) = 4 /\ t \in Seq(Values) /\ Len(t) = 2
  BY <1>3, <1>5
<1>7. d \in Seq(Values)
  BY <1>2, <1>4, SeqsOfMore
<1>8. /\ (h \o d) \o t \in Seq(Values)
      /\ Len((h \o d) \o t) = Len(h) + Len(d) + Len(t)
  <2>1. PICK u : u = h \o d
    OBVIOUS
  <2>2. u \in Seq(Values) /\ Len(u) = Len(h) + Len(d)
    BY ONLY <1>6, <1>7, <2>1, ConcatParts
  <2>3. u \o t \in Seq(Values) /\ Len(u \o t) = Len(u) + Len(t)
    BY ONLY <1>6, <2>2, ConcatParts
  <2>4. QED
    BY ONLY <2>1, <2>2, <2>3
<1>9. Encode(f) = (h \o d) \o t
  BY <1>1, <1>3 DEF Encode
<1>10. QED
  BY <1>1, <1>2, <1>6, <1>8, <1>9, ByteTypes

LEMMA DamageKeepsPlace ==
  ASSUME PlaceOK, LineShape, FaultsOK, NEW b \in Byte, Damage(b)
  PROVE  PlaceOK' /\ LineShape' /\ FaultsOK'
<1>1. /\ UNCHANGED <<frames, fno, off>> /\ faults' = faults + 1 /\ faults < MaxFaults
      /\ damaged' \in {damaged, damaged \cup {fno}} /\ fno <= Len(written)
      /\ written' = [written EXCEPT ![fno][off] = b]
  BY DEF Damage
<1>2. fno \in 1..Len(written) /\ off \in 1..Len(written[fno]) /\ Len(written) = Len(frames)
  BY <1>1 DEF PlaceOK, LineShape
<1>3. PICK w : w = [written[fno] EXCEPT ![off] = b]
  OBVIOUS
<1>4. w \in Seq(Values) /\ Len(w) = Len(written[fno])
  <2>1. written[fno] \in Seq(Values) /\ b \in Values
    BY <1>2 DEF LineShape, Values
  <2>2. QED
    BY <1>2, <1>3, <2>1, ExceptSeq
<1>5. written' = [written EXCEPT ![fno] = w]
  BY <1>1, <1>3
<1>6. /\ written' \in Seq(Seq(Values)) /\ Len(written') = Len(written)
      /\ \A j \in 1..Len(written) : written'[j] = IF j = fno THEN w ELSE written[j]
  BY ONLY <1>2, <1>4, <1>5, ExceptSeq, written \in Seq(Seq(Values)), LineShape DEF LineShape
<1>7. \A j \in 1..Len(written) : Len(written'[j]) = Len(written[j])
  BY <1>4, <1>6
<1>8. PlaceOK' /\ LineShape'
  BY <1>1, <1>2, <1>6, <1>7 DEF PlaceOK, LineShape
<1>9. FaultsOK'
  BY <1>1, <1>2, SerialAssumption DEF FaultsOK, SerialAssumption
<1>10. QED
  BY <1>8, <1>9

LEMMA ReadKeepsPlace ==
  ASSUME PlaceOK, LineShape, FaultsOK, NEW b \in Byte, NextByte(b)
  PROVE  PlaceOK' /\ LineShape' /\ FaultsOK'
<1>1. UNCHANGED <<frames, written, damaged, faults>>
  BY DEF NextByte, line
<1>2. fno \in 1..Len(frames)
  BY DEF NextByte, PlaceOK
<1>3. CASE off = Len(written[fno])
  <2>1. fno' = fno + 1 /\ off' = 1
    BY <1>3 DEF NextByte
  <2>2. fno + 1 <= Len(frames) => Len(written[fno + 1]) >= 6
    BY <1>2, FrameLength DEF PlaceOK
  <2>3. QED
    BY <1>1, <1>2, <2>1, <2>2, FrameLength DEF PlaceOK, LineShape, FaultsOK
<1>4. CASE off # Len(written[fno])
  <2>1. fno' = fno /\ off' = off + 1
    BY <1>4 DEF NextByte
  <2>2. off + 1 <= Len(written[fno])
    BY <1>2, <1>4, FrameLength DEF PlaceOK
  <2>3. QED
    BY <1>1, <1>2, <2>1, <2>2 DEF PlaceOK, LineShape, FaultsOK
<1>5. QED
  BY <1>3, <1>4

LEMMA ParserSteps ==
  ASSUME ParserOK, ReadByte
  PROVE  ParserOK'
<1> USE ByteTypes DEF ParserOK, ReadStates
<1>1. CASE WaitHead0
  BY <1>1 DEF WaitHead0
<1>2. CASE WaitHead1
  BY <1>2 DEF WaitHead1
<1>3. CASE WaitFrameId
  BY <1>3 DEF WaitFrameId
<1>4. CASE WaitLength
  <2>1. PICK b \in Byte :
          IF b > MaxLength
            THEN read_state_' = "WAIT_HEAD_0" /\ UNCHANGED <<target_length_, rx_index_, call>>
            ELSE /\ read_state_' = "WAIT_DATA" /\ target_length_' = b /\ rx_index_' = 0
                 /\ call' = [call EXCEPT !.length = b]
    BY <1>4 DEF WaitLength
  <2>2. rx_buffer_' = rx_buffer_
    BY <1>4 DEF WaitLength
  <2>3. CASE b > MaxLength
    BY <2>1, <2>2, <2>3
  <2>4. CASE ~(b > MaxLength)
    <3>1. b \in 0..MaxLength
      BY <2>4, SerialAssumption DEF Byte, SerialAssumption
    <3>2. 0 < MaxLength
      BY ByteTypes
    <3>3. QED
      BY <2>1, <2>2, <2>4, <3>1, <3>2
  <2>5. QED
    BY <2>3, <2>4
<1>5. CASE WaitData
  <2>1. /\ read_state_ = "WAIT_DATA" /\ rx_index_' = rx_index_ + 1
        /\ read_state_' = IF rx_index_' >= target_length_ THEN "WAIT_CHECKSUM" ELSE "WAIT_DATA"
        /\ UNCHANGED <<target_length_, call, delivered>>
    BY <1>5 DEF WaitData
  <2>2. rx_buffer_' \in [1..MaxLength -> Byte]
    BY <1>5 DEF WaitData
  <2>3. QED
    BY <2>1, <2>2
<1>6. CASE WaitChecksum
  BY <1>6 DEF WaitChecksum
<1>7. CASE WaitEnd
  <2>1. call' \in {call, NoCall}
    BY <1>7 DEF WaitEnd
  <2>2. NoCall \in [active : BOOLEAN, id : Byte, length : Byte]
    BY DEF NoCall
  <2>3. QED
    BY <1>7, <2>1, <2>2 DEF WaitEnd
<1>8. QED
  BY <1>1, <1>2, <1>3, <1>4, <1>5, <1>6, <1>7 DEF ReadByte

LEMMA SkipKeepsPlace ==
  ASSUME PlaceOK, LineShape, FaultsOK, Skip
  PROVE  PlaceOK' /\ LineShape' /\ FaultsOK'
<1>1. UNCHANGED <<frames, written, damaged>> /\ faults' = faults + 1 /\ faults < MaxFaults
  BY DEF Skip, line
<1>2. PlaceOK'
  <2>1. CASE \E i \in fno..Len(written) : \E k \in 1..Len(written[i]) : fno' = i /\ off' = k
    <3>1. PICK i \in fno..Len(written) : \E k \in 1..Len(written[i]) : fno' = i /\ off' = k
      BY <2>1
    <3>2. i \in 1..Len(frames) /\ Len(written[i]) \in Nat
      BY FrameLength DEF PlaceOK
    <3>3. QED
      BY <1>1, <3>1, <3>2 DEF PlaceOK
  <2>2. CASE fno' = Len(written) + 1 /\ off' = 1
    BY <1>1, <2>2 DEF PlaceOK
  <2>3. QED
    BY <2>1, <2>2 DEF Skip
<1>3. FaultsOK'
  BY <1>1, SerialAssumption DEF FaultsOK, SerialAssumption
<1>4. QED
  BY <1>1, <1>2, <1>3 DEF LineShape

\* What every loss and damage keeps.
NoisyInv == PlaceOK /\ LineShape /\ FaultsOK /\ ParserOK

LEMMA NoisyInit == Init => NoisyInv
<1> SUFFICES ASSUME Init PROVE NoisyInv
  OBVIOUS
<1> USE DEF NoisyInv
<1>1. PlaceOK /\ LineShape
  BY DEF Init, PlaceOK, LineShape
<1>2. FaultsOK
  BY SerialAssumption DEF Init, FaultsOK, SerialAssumption
<1>3. ParserOK
  BY ByteTypes DEF Init, ParserOK, ReadStates, NoCall
<1>4. QED
  BY <1>1, <1>2, <1>3

LEMMA NoisyStep == NoisyInv /\ [NoisyNext]_vars => NoisyInv'
<1> SUFFICES ASSUME NoisyInv, [NoisyNext]_vars PROVE NoisyInv'
  OBVIOUS
<1> USE DEF NoisyInv
<1>1. ASSUME NEW f \in Frames, Send(f)
      PROVE  NoisyInv'
  <2>1. /\ frames' = Append(frames, f) /\ written' = Append(written, Encode(f))
        /\ UNCHANGED <<fno, off, read_state_, rx_index_, target_length_, rx_buffer_,
                       call, damaged, faults>>
    BY <1>1 DEF Send, parser
  <2>2. /\ frames' \in Seq(Frames) /\ Len(frames') = Len(frames) + 1
        /\ \A i \in 1..Len(frames) : frames'[i] = frames[i]
        /\ frames'[Len(frames) + 1] = f
        /\ Len(frames) \in Nat
    BY <2>1 DEF PlaceOK
  <2>3. LineShape'
    <3>1. written' \in Seq(Seq(Values))
      BY <2>1, EncodedValues DEF LineShape
    <3>2. Len(written'[Len(frames) + 1]) \in Nat /\ Len(written'[Len(frames) + 1]) >= 6
      BY <2>1, <2>2, EncodedValues DEF PlaceOK, LineShape
    <3>3. \A i \in 1..Len(frames) : written'[i] = written[i]
      BY <2>1, <2>2 DEF PlaceOK, LineShape
    <3>4. ASSUME NEW i \in 1..Len(frames')
          PROVE  Len(written'[i]) \in Nat /\ Len(written'[i]) >= 6
      <4>1. CASE i \in 1..Len(frames)
        BY <3>3, <4>1 DEF LineShape
      <4>2. CASE i = Len(frames) + 1
        BY <3>2, <4>2
      <4>3. QED
        BY <2>2, <4>1, <4>2
    <3>5. QED
      BY <3>1, <3>4 DEF LineShape
  <2>4. /\ Len(written') = Len(written) + 1
        /\ \A i \in 1..Len(written) : written'[i] = written[i]
        /\ written'[Len(written) + 1] = Encode(f)
    BY <2>1, <2>2 DEF PlaceOK
  <2>5. Len(Encode(f)) \in Nat /\ 1 <= Len(Encode(f))
    BY EncodedValues
  <2>6. PlaceOK'
    <3>1. CASE fno <= Len(written)
      BY <2>1, <2>2, <2>4, <3>1 DEF PlaceOK
    <3>2. CASE fno = Len(written) + 1
      BY <2>1, <2>2, <2>4, <2>5, <3>2 DEF PlaceOK
    <3>3. QED
      BY <3>1, <3>2 DEF PlaceOK
  <2>7. FaultsOK' /\ ParserOK'
    BY <2>1, <2>2 DEF FaultsOK, ParserOK
  <2>8. QED
    BY <2>3, <2>6, <2>7
<1>2. CASE BeginCall \/ ReturnEmpty
  <2>1. /\ UNCHANGED <<frames, written, fno, off, read_state_, rx_index_, target_length_,
                       rx_buffer_, damaged, faults>>
        /\ call' \in {NewCall, NoCall}
    BY <1>2 DEF BeginCall, ReturnEmpty, line, parser
  <2>2. /\ NewCall \in [active : BOOLEAN, id : Byte, length : Byte]
        /\ NoCall \in [active : BOOLEAN, id : Byte, length : Byte]
    BY ByteTypes DEF NewCall, NoCall
  <2>3. QED
    BY <2>1, <2>2 DEF PlaceOK, LineShape, FaultsOK, ParserOK
<1>3. CASE ReadByte
  <2>1. PICK b \in Byte : NextByte(b)
    BY <1>3 DEF ReadByte, WaitHead0, WaitHead1, WaitFrameId, WaitLength, WaitData,
                WaitChecksum, WaitEnd
  <2>2. QED
    BY <1>3, <2>1, ReadKeepsPlace, ParserSteps
<1>4. CASE BytesLost
  BY <1>4, SkipKeepsPlace DEF BytesLost, parser, ParserOK
<1>5. CASE ReadException
  <2>1. NoCall \in [active : BOOLEAN, id : Byte, length : Byte]
    BY ByteTypes DEF NoCall
  <2>2. ParserOK'
    BY <1>5, <2>1 DEF ReadException, ParserOK, ReadStates
  <2>3. QED
    BY <1>5, <2>2, SkipKeepsPlace DEF ReadException
<1>6. ASSUME NEW b \in Byte, Damage(b)
      PROVE  NoisyInv'
  <2>1. ParserOK'
    BY <1>6 DEF Damage, parser, ParserOK
  <2>2. QED
    BY <1>6, <2>1, DamageKeepsPlace
<1>7. CASE UNCHANGED vars
  BY <1>7 DEF vars, line, parser, PlaceOK, LineShape, FaultsOK, ParserOK
<1>8. QED
  BY <1>1, <1>2, <1>3, <1>4, <1>5, <1>6, <1>7 DEF NoisyNext, Receive

(* Whatever bytes the line changes or loses, and whenever the port is        *)
(* reopened under the parser, serial_read2 stores no byte outside           *)
(* rx_buffer_.                                                              *)
THEOREM BufferIsSafe == NoisySpec => []TypeOK
<1>1. NoisyInv => TypeOK
  BY DEF NoisyInv, PlaceOK, FaultsOK, ParserOK, TypeOK
<1>2. QED
  BY NoisyInit, NoisyStep, <1>1, PTL DEF NoisySpec
=============================================================================
