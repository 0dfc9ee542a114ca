---------------------------- MODULE MCSerialStream ----------------------------
(* SerialStream with bytes of a few bits.  In four, 10, 5 and 14 are the      *)
(* halves of 0xAA, 0x55 and 0xEE.  The noisy run has three: 6, 2 and 7 lie to *)
(* the longest length, 5, as the code's bytes to 128 (a head taken for a      *)
(* length: the first is too long, the second is not).                         *)
EXTENDS SerialStream, SequencesExt

Bit(a, i) == (a \div 2 ^ i) % 2
XorBits(a, b) ==
  FoldLeft(LAMBDA s, i : s + 2 ^ (i - 1) * ((Bit(a, i - 1) + Bit(b, i - 1)) % 2),
           0, [i \in 1..Width |-> i])

\* Data with the frame head, the end byte and the longest length in it.
AnyFrames == { [id |-> 1, data |-> <<10>>],  [id |-> 2, data |-> <<10, 5>>],
               [id |-> 3, data |-> <<14, 1>>] }

\* Like the frames R2 receives: small ids, lengths and data, no byte of which,
\* the checksum included, is a frame head; a short one and the longest.
PlainFrames == { [id |-> 7, data |-> <<1>>],
                 [id |-> 4, data |-> <<2, 1, 0, 1, 1>>] }

ASSUME NoisyRunIsPlain == MaxFaults > 0 => PlainLine
=============================================================================
