---------------------------- MODULE FrameLength ----------------------------
(***************************************************************************)
(* The length of a short binary frame: a variable-length number of base    *)
(* 128, least significant digit first, every digit but the last with the   *)
(* high bit set (messages.rs).  It is written by one encoder and read by   *)
(* two decoders: one over a slice, one over a stream, byte by byte.  Each  *)
(* has its own limit on the digits and on the value.                       *)
(***************************************************************************)
EXTENDS Naturals, Sequences

Byte == 0..255
MaxPayloadLen == 16777216   \* MAX_BINARY_PAYLOAD_LEN, 16 MiB
MaxDigits == 4

\* varint_len: how many shifts by seven bits make the value less than 0x80.
DigitsOf(n) ==
  IF n < 128 THEN 1 ELSE IF n < 16384 THEN 2 ELSE IF n < 2097152 THEN 3 ELSE 4

Power(i) == <<1, 128, 16384, 2097152>>[i]

Digit(n, i) == (n \div Power(i)) % 128

\* The digits encode_short_binary_frame puts between the magic and a payload of
\* n bytes, n being at most MaxPayloadLen.
EncodeLen(n) ==
  [i \in 1..DigitsOf(n) |-> Digit(n, i) + (IF i < DigitsOf(n) THEN 128 ELSE 0)]

Last7(byte) == byte % 128
More(byte) == byte >= 128

Term(bytes, i, n) == IF i <= n THEN Last7(bytes[i]) * Power(i) ELSE 0

\* What the shifts and ors of both decoders make of the first n digits.
ValueOf(bytes, n) ==
  Term(bytes, 1, n) + Term(bytes, 2, n) + Term(bytes, 3, n) + Term(bytes, 4, n)

\* The digits end at position n.
EndsAt(bytes, n) ==
  n <= Len(bytes) /\ ~More(bytes[n]) /\ \A i \in 1..(n - 1) : More(bytes[i])

Decoded(value, used) == [ok |-> TRUE, value |-> value, used |-> used]
Wrong == [ok |-> FALSE, value |-> 0, used |-> 0]

\* Variant for testing: one digit fewer is accepted.
ReadLenShorter(bytes) ==
  IF \E n \in 1..(MaxDigits - 1) : EndsAt(bytes, n) /\ ValueOf(bytes, n) <= MaxPayloadLen
  THEN LET n == CHOOSE n \in 1..(MaxDigits - 1) : EndsAt(bytes, n)
       IN  Decoded(ValueOf(bytes, n), n)
  ELSE Wrong

\* read_short_binary_payload_len, given all bytes until the stream ends: it
\* takes at most four, and the first without the high bit is the last.
ReadLen(bytes) ==
  IF \E n \in 1..MaxDigits : EndsAt(bytes, n) /\ ValueOf(bytes, n) <= MaxPayloadLen
  THEN LET n == CHOOSE n \in 1..MaxDigits : EndsAt(bytes, n)
       IN  Decoded(ValueOf(bytes, n), n)
  ELSE Wrong

\* decode_short_binary_payload_len walks the whole slice, and gives up when it
\* comes to a fifth byte.
DecodeLen(bytes) ==
  LET ends == {n \in 1..Len(bytes) : EndsAt(bytes, n)}
  IN  IF ends # {} /\ (\A n \in ends : n <= MaxDigits /\ ValueOf(bytes, n) <= MaxPayloadLen)
      THEN LET n == CHOOSE n \in ends : TRUE IN Decoded(ValueOf(bytes, n), n)
      ELSE Wrong
-----------------------------------------------------------------------------
(* Properties *)

\* The decoders undo the encoder, whatever payload follows, and take exactly
\* its digits: of every length the encoder accepts.
UndoneFor(n, payload) ==
  LET bytes == EncodeLen(n) \o payload
  IN  ReadLen(bytes) = Decoded(n, DigitsOf(n)) /\ DecodeLen(bytes) = Decoded(n, DigitsOf(n))

\* The two decoders agree on every sequence of bytes.
AgreeOn(bytes) == ReadLen(bytes) = DecodeLen(bytes)

\* Lengths around every boundary of the encoding, and sequences of digits
\* around every boundary of the decoders.
BoundaryLengths == 0..300 \cup 16380..16390 \cup 2097150..2097155
                     \cup (MaxPayloadLen - 3)..MaxPayloadLen
BoundaryDigits == {0, 1, 7, 8, 127, 128, 129, 136, 255}
=============================================================================
