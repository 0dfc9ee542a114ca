----------------------------- MODULE SerialStream -----------------------------
(***************************************************************************)
(* Ten_serial::serial_read2 (serial.cpp) as the R2 receiver thread calls it *)
(* (controlR2.h): a byte-at-a-time parser whose position in the frame       *)
(* survives from one call to the next, fed by frames in serial_send's       *)
(* format.                                                                  *)
(*                                                                         *)
(* The bytes the microcontroller wrote are kept frame by frame in "written" *)
(* with the reading position <<fno, off>>, the next byte of the stream.     *)
(* Bytes take any time to arrive: inside a call the parser may find the     *)
(* next byte, or find available() = 0 and return.                           *)
(*                                                                         *)
(* A byte is a number of Width bits, so that a few bits are enough for TLC; *)
(* the code's bytes have 8.                                                 *)
(***************************************************************************)
EXTENDS Naturals, Sequences, FiniteSets

CONSTANTS Width,      \* bits of a byte
          Head0,      \* FRAME_HEAD_0
          Head1,      \* FRAME_HEAD_1
          End0,       \* FRAME_END_0
          MaxLength,  \* 128: the length the parser accepts and rx_buffer_'s size
          Frames,     \* the frames the microcontroller may send
          MaxFrames,  \* bound: how many it sends
          MaxFaults,  \* bound: faults on the line (NoisySpec only)
          XorByte(_, _)  \* the code's ^

Byte == 0..(2 ^ Width - 1)

\* A frame without data is not part of the protocol: WAIT_DATA would take its
\* checksum for data.  Head and end bytes of the code are 0xAA, 0x55 and 0xEE.
\* The type of 2 ^ Width is stated for the provers, which know nothing of
\* exponentiation.
ASSUME SerialAssumption ==
  /\ Width \in Nat /\ 2 ^ Width \in Nat
  /\ Head0 \in Byte /\ Head1 \in Byte \ {Head0} /\ End0 \in Byte \ {Head0}
  /\ MaxLength \in Byte \ {0}
  /\ MaxFrames \in Nat /\ MaxFaults \in Nat
  /\ \A f \in Frames : /\ f.id \in Byte
                       /\ f.data \in Seq(Byte)
                       /\ Len(f.data) \in 1..MaxLength

\* An exclusive or is a byte, and another byte when one of its arguments changes.
ASSUME XorAssumption ==
  /\ \A a, b \in Byte : XorByte(a, b) \in Byte
  /\ \A a, b, c \in Byte : b # c => /\ XorByte(a, b) # XorByte(a, c)
                                   /\ XorByte(b, a) # XorByte(c, a)

VARIABLES frames,          \* history: the frames sent, in order
          written,         \* the bytes of each of them, as they are on the line
          fno, off,        \* the next byte to read is written[fno][off]
          read_state_, rx_index_, target_length_, rx_buffer_,
          call,            \* the call in progress and its output parameters
          delivered,       \* history: what serial_read2 returned true with
          damaged,         \* history: frames whose data, checksum or end were changed
          faults,          \* how many faults happened
          mark             \* history: the last frame a fault touched, deliveries at the last fault

line   == <<frames, written>>
parser == <<read_state_, rx_index_, target_length_, rx_buffer_>>
vars   == <<line, fno, off, parser, call, delivered, damaged, faults, mark>>

ReadStates == {"WAIT_HEAD_0", "WAIT_HEAD_1", "WAIT_FRAME_ID", "WAIT_LENGTH",
               "WAIT_DATA", "WAIT_CHECKSUM", "WAIT_END"}

\* check = 0, then check ^= data[i] for every byte: check[n] is after n bytes.
calculateXORcheck(data) ==
  LET check[n \in 0..Len(data)] == IF n = 0 THEN 0 ELSE XorByte(check[n - 1], data[n])
  IN  check[Len(data)]

\* serial_send: head, head, id, length, data, checksum of the data, end.
Encode(f) == <<Head0, Head1, f.id, Len(f.data)>> \o f.data
               \o <<calculateXORcheck(f.data), End0>>

Received == SubSeq(rx_buffer_, 1, target_length_)

NoCall   == [active |-> FALSE, id |-> 0, length |-> 0]
NewCall  == [active |-> TRUE, id |-> 0, length |-> 0]

Init ==
  /\ frames = <<>> /\ written = <<>> /\ fno = 1 /\ off = 1
  /\ read_state_ = "WAIT_HEAD_0" /\ rx_index_ = 0 /\ target_length_ = 0
  /\ rx_buffer_ = [i \in 1..MaxLength |-> 0]
  /\ call = NoCall
  /\ delivered = <<>> /\ damaged = {} /\ faults = 0
  /\ mark = [frames |-> 0, delivered |-> 0]
-----------------------------------------------------------------------------
(* A clean line, on which no byte is damaged or lost.                      *)

Send(f) ==
  /\ Len(frames) < MaxFrames
  /\ frames' = Append(frames, f)
  /\ written' = Append(written, Encode(f))
  /\ UNCHANGED <<fno, off, parser, call, delivered, damaged, faults, mark>>

\* serial_receiver: frame_id and length are fresh zeros for every call.
BeginCall ==
  /\ ~call.active
  /\ call' = NewCall
  /\ UNCHANGED <<line, fno, off, parser, delivered, damaged, faults, mark>>

\* available() = 0: the rest has not arrived; parser state is kept.
ReturnEmpty ==
  /\ call.active
  /\ call' = NoCall
  /\ UNCHANGED <<line, fno, off, parser, delivered, damaged, faults, mark>>

\* read(&byte, 1): takes the next byte b off the stream.
NextByte(b) ==
  /\ call.active
  /\ fno <= Len(written)
  /\ b = written[fno][off]
  /\ IF off = Len(written[fno]) THEN fno' = fno + 1 /\ off' = 1
                                ELSE fno' = fno /\ off' = off + 1
  /\ UNCHANGED <<line, damaged, faults, mark>>

WaitHead0 ==
  /\ read_state_ = "WAIT_HEAD_0"
  /\ \E b \in Byte :
       /\ NextByte(b)
       /\ read_state_' = IF b = Head0 THEN "WAIT_HEAD_1" ELSE "WAIT_HEAD_0"
  /\ UNCHANGED <<rx_index_, target_length_, rx_buffer_, call, delivered>>

\* Any other byte sends the parser back, a second Head0 included.
WaitHead1 ==
  /\ read_state_ = "WAIT_HEAD_1"
  /\ \E b \in Byte :
       /\ NextByte(b)
       /\ read_state_' = IF b = Head1 THEN "WAIT_FRAME_ID" ELSE "WAIT_HEAD_0"
  /\ UNCHANGED <<rx_index_, target_length_, rx_buffer_, call, delivered>>

WaitFrameId ==
  /\ read_state_ = "WAIT_FRAME_ID"
  /\ \E b \in Byte : NextByte(b) /\ call' = [call EXCEPT !.id = b]
  /\ read_state_' = "WAIT_LENGTH"
  /\ UNCHANGED <<rx_index_, target_length_, rx_buffer_, delivered>>

WaitLengthIntoId ==
  /\ read_state_ = "WAIT_LENGTH"
  /\ \E b \in Byte :
       /\ NextByte(b)
       /\ IF b > MaxLength
            THEN /\ read_state_' = "WAIT_HEAD_0"
                 /\ UNCHANGED <<target_length_, rx_index_, call>>
            ELSE /\ read_state_' = "WAIT_DATA"
                 /\ target_length_' = b
                 /\ rx_index_' = 0
                 /\ call' = [call EXCEPT !.id = b]
  /\ UNCHANGED <<rx_buffer_, delivered>>

WaitLengthRejectsMax ==
  /\ read_state_ = "WAIT_LENGTH"
  /\ \E b \in Byte :
       /\ NextByte(b)
       /\ IF b >= MaxLength
            THEN /\ read_state_' = "WAIT_HEAD_0"
                 /\ UNCHANGED <<target_length_, rx_index_, call>>
            ELSE /\ read_state_' = "WAIT_DATA"
                 /\ target_length_' = b
                 /\ rx_index_' = 0
                 /\ call' = [call EXCEPT !.length = b]
  /\ UNCHANGED <<rx_buffer_, delivered>>

WaitLength ==
  /\ read_state_ = "WAIT_LENGTH"
  /\ \E b \in Byte :
       /\ NextByte(b)
       /\ IF b > MaxLength
            THEN /\ read_state_' = "WAIT_HEAD_0"
                 /\ UNCHANGED <<target_length_, rx_index_, call>>
            ELSE /\ read_state_' = "WAIT_DATA"
                 /\ target_length_' = b
                 /\ rx_index_' = 0
                 /\ call' = [call EXCEPT !.length = b]
  /\ UNCHANGED <<rx_buffer_, delivered>>

\* One byte is stored before the length is compared, even for length 0.
WaitDataOneMore ==
  /\ read_state_ = "WAIT_DATA"
  /\ \E b \in Byte : NextByte(b) /\ rx_buffer_' = [rx_buffer_ EXCEPT ![rx_index_ + 1] = b]
  /\ rx_index_' = rx_index_ + 1
  /\ read_state_' = IF rx_index_' > target_length_ THEN "WAIT_CHECKSUM" ELSE "WAIT_DATA"
  /\ UNCHANGED <<target_length_, call, delivered>>

WaitData ==
  /\ read_state_ = "WAIT_DATA"
  /\ \E b \in Byte : NextByte(b) /\ rx_buffer_' = [rx_buffer_ EXCEPT ![rx_index_ + 1] = b]
  /\ rx_index_' = rx_index_ + 1
  /\ read_state_' = IF rx_index_' >= target_length_ THEN "WAIT_CHECKSUM" ELSE "WAIT_DATA"
  /\ UNCHANGED <<target_length_, call, delivered>>

WaitChecksumUnchecked ==
  /\ read_state_ = "WAIT_CHECKSUM"
  /\ \E b \in Byte : NextByte(b)
  /\ read_state_' = "WAIT_END"
  /\ UNCHANGED <<rx_index_, target_length_, rx_buffer_, call, delivered>>

WaitChecksumStay ==
  /\ read_state_ = "WAIT_CHECKSUM"
  /\ \E b \in Byte :
       /\ NextByte(b)
       /\ read_state_' = IF calculateXORcheck(Received) = b THEN "WAIT_END" ELSE "WAIT_CHECKSUM"
  /\ UNCHANGED <<rx_index_, target_length_, rx_buffer_, call, delivered>>

WaitChecksum ==
  /\ read_state_ = "WAIT_CHECKSUM"
  /\ \E b \in Byte :
       /\ NextByte(b)
       /\ read_state_' = IF calculateXORcheck(Received) = b THEN "WAIT_END" ELSE "WAIT_HEAD_0"
  /\ UNCHANGED <<rx_index_, target_length_, rx_buffer_, call, delivered>>

\* The frame is complete: the caller gets the data and its own id and length.
WaitEnd ==
  /\ read_state_ = "WAIT_END"
  /\ read_state_' = "WAIT_HEAD_0"
  /\ \E b \in Byte :
       /\ NextByte(b)
       /\ IF b = End0
            THEN /\ delivered' = Append(delivered, [id |-> call.id, length |-> call.length,
                                                    data |-> Received])
                 /\ call' = NoCall
            ELSE UNCHANGED <<delivered, call>>
  /\ UNCHANGED <<rx_index_, target_length_, rx_buffer_>>

ReadByte == WaitHead0 \/ WaitHead1 \/ WaitFrameId \/ WaitLength \/ WaitData
              \/ WaitChecksum \/ WaitEnd

Receive == BeginCall \/ ReturnEmpty \/ ReadByte

\* serial_receiver flushes the port after a frame with this id (controlR2.h:550,
\* clearBuffer): the bytes that have arrived by then are gone.  A line on which
\* none is sent loses nothing; one on which some are is part of NoisySpec, whose
\* BytesLost is that flush.
Relocation == 4

KeptFrames == {f \in Frames : f.id # Relocation}

Next == (\E f \in KeptFrames : Send(f)) \/ Receive

Spec == Init /\ [][Next]_vars

(* The receiver polls for ever, and a byte that was written arrives: a      *)
(* parser that is called again and again gets to read it.                   *)
FairSpec == Spec /\ WF_vars(BeginCall) /\ SF_vars(ReadByte)
-----------------------------------------------------------------------------
(* A line with faults.                                                     *)

\* A byte is changed, seen when it is the next to be read.  A changed head or
\* length makes the parser lose its place; a changed id goes unnoticed.
Damage(b) ==
  /\ faults < MaxFaults
  /\ fno <= Len(written) /\ fno \notin damaged
  /\ b # written[fno][off]
  /\ written' = [written EXCEPT ![fno][off] = b]
  /\ IF off > 4
       THEN damaged' = damaged \cup {fno} /\ UNCHANGED mark
       ELSE mark' = [frames |-> fno, delivered |-> Len(delivered)] /\ UNCHANGED damaged
  /\ faults' = faults + 1
  /\ UNCHANGED <<frames, fno, off, parser, call, delivered>>

\* Unread bytes are lost: the stream goes on at a later place.
Skip ==
  /\ faults < MaxFaults
  /\ \/ \E i \in fno..Len(written) : \E k \in 1..Len(written[i]) :
          /\ i > fno \/ k >= off
          /\ fno' = i /\ off' = k
     \/ fno' = Len(written) + 1 /\ off' = 1
  /\ faults' = faults + 1
  /\ mark' = [frames |-> IF off' = 1 /\ mark.frames < fno' THEN fno' - 1 ELSE fno',
              delivered |-> Len(delivered)]
  /\ UNCHANGED <<line, damaged>>

\* clearBuffer after a relocation frame, between two calls, or serial_send's
\* handler reopening the port at any time: neither touches the parser.
BytesLost ==
  /\ Skip
  /\ UNCHANGED <<parser, call, delivered>>

\* serial_read2's own handler: the port is reopened and the parser reset.
ReadException ==
  /\ call.active
  /\ Skip
  /\ read_state_' = "WAIT_HEAD_0"
  /\ call' = NoCall
  /\ UNCHANGED <<rx_index_, target_length_, rx_buffer_, delivered>>

NoisyNext ==
  \/ \E f \in Frames : Send(f)
  \/ Receive
  \/ \E b \in Byte : Damage(b)
  \/ BytesLost
  \/ ReadException

NoisySpec == Init /\ [][NoisyNext]_vars

\* Every fault so far changed data, a checksum or an end byte; none did.
OnlyDataDamaged == faults = Cardinality(damaged)
NoDataDamaged == damaged = {}
-----------------------------------------------------------------------------
(* Types; in particular no byte is stored outside rx_buffer_, whatever is   *)
(* lost on the line and wherever the parser is then.                        *)
TypeOK ==
  /\ frames \in Seq(Frames) /\ Len(written) = Len(frames)
  /\ fno \in 1..(Len(written) + 1)
  /\ off \in Nat \ {0} /\ (fno <= Len(written) => off <= Len(written[fno]))
  /\ read_state_ \in ReadStates
  /\ rx_index_ \in 0..MaxLength
  /\ read_state_ = "WAIT_DATA" => rx_index_ < MaxLength
  /\ target_length_ \in 0..MaxLength
  /\ rx_buffer_ \in [1..MaxLength -> Byte]
  /\ call \in [active : BOOLEAN, id : Byte, length : Byte]
  /\ damaged \subseteq 1..Len(frames) /\ faults \in 0..MaxFaults

(* On a clean line without relocation frames the payloads come out whole    *)
(* and in order, none missing, wherever the calls of serial_read2 happen to *)
(* cut the stream.                                                          *)
PayloadsInOrder ==
  /\ Len(delivered) = fno - 1
  /\ \A i \in 1..Len(delivered) : delivered[i].data = frames[i].data

(* A frame the receiver dispatches on (its id is not the unset 0) has its   *)
(* own id and length: a cut frame is handed on with an unset id, never with *)
(* another frame's.                                                         *)
DispatchedHeadersTrue ==
  \A i \in 1..Len(delivered) :
    delivered[i].id # 0 => /\ delivered[i].id = frames[i].id
                           /\ delivered[i].length = Len(frames[i].data)

(* The serial documentation recommends serial_read2 because it continues    *)
(* from the last break point (doc/01).  The id is in the caller's variable, *)
(* which the receiver zeroes before every call.                             *)
ContinuedFramesKeepTheirId ==
  \A i \in 1..Len(delivered) : delivered[i].id = frames[i].id

(* Every frame that was sent is delivered, as long as the microcontroller   *)
(* asks for no relocation, after which the receiver flushes the port.       *)
EveryFrameDelivered ==
  \A n \in 1..MaxFrames : Len(frames) >= n ~> Len(delivered) >= n

(* A changed data, checksum or end byte costs the frame it is in, and never *)
(* the frame behind it; a damaged payload is never delivered.               *)
Whole(n) == {i \in 1..n : i \notin damaged}

DamageContained ==
  OnlyDataDamaged =>
    /\ Len(delivered) = Cardinality(Whole(fno - 1))
    /\ \A i \in Whole(fno - 1) : delivered[Cardinality(Whole(i))].data = frames[i].data

(* Frames that may be swallowed by a parser that waits for the longest data *)
(* when bytes are lost: data, checksum and end of them, seven bytes a frame *)
(* at least.                                                                *)
MayBeSwallowed == (MaxLength + 8) \div 7

(* The first byte of the head occurs nowhere else in a frame.  Taken for a  *)
(* length the head's bytes, 0xAA and 0x55 in the code, are too long or, with *)
(* the two bytes read before, no longer than MaxLength.                     *)
PlainLine ==
  /\ Head0 > MaxLength
  /\ Head1 > 0 /\ (Head1 <= MaxLength => Head1 + 2 <= MaxLength)
  /\ \A f \in Frames : \A k \in 2..Len(Encode(f)) : Encode(f)[k] # Head0

(* After bytes were lost or a header was changed, with the parser left in   *)
(* any state, at most MayBeSwallowed whole frames are missing behind it     *)
(* before every frame arrives again.                                        *)
Resyncs ==
  LET last == mark.frames + MayBeSwallowed
      good == fno - 1 - last
  IN  PlainLine /\ NoDataDamaged /\ good > 0 =>
        /\ Len(delivered) >= mark.delivered + good
        /\ \A i \in 1..good : delivered[Len(delivered) - good + i].data = frames[last + i].data
=============================================================================
