------------------------------ MODULE Framing ------------------------------
(***************************************************************************)
(* The frames of one direction of a client's stream: the writers of        *)
(* messages.rs, transport_stream.rs and android_jni.rs put JSON lines and  *)
(* two kinds of binary frames on it, and the reader of the other end takes *)
(* them off again.  The stream is reliable, but after any byte it may end, *)
(* or break off with the connection under it.                              *)
(*                                                                         *)
(* Bytes are numbers.  A JSON text is one of a set of sequences without a  *)
(* control character, none of which is the beginning of another.           *)
(***************************************************************************)
EXTENDS FrameLength

CONSTANTS
  Texts,       \* JSON texts
  Ids,         \* session ids, as bytes
  Payloads,
  OwnKind,     \* the kind of binary frames of this direction
  ToAgent,     \* whether the reader is the agent's or the client's
  MaxFrames    \* bound on the frames sent

Magic == 30        \* BINARY_FRAME_MAGIC
ShortMagic == 31   \* SHORT_BINARY_FRAME_MAGIC
NewLine == 10
Return == 13
HeaderLen == 8
MaxSessionIdLen == 4096

Json(text) == [type |-> "json", text |-> text]
Binary(kind, id, payload) == [type |-> "binary", kind |-> kind, id |-> id, payload |-> payload]
Short(payload) == [type |-> "short", payload |-> payload]

Frames == {Json(t) : t \in Texts}
            \cup {Binary(OwnKind, i, p) : i \in Ids, p \in Payloads}
            \cup {Short(p) : p \in Payloads}

\* A JSON text has no control character, and begins no other.  The encoders
\* refuse longer ids and payloads.
ASSUME FramingAssumption ==
  /\ Texts \subseteq Seq(32..255) \ {<<>>}
  /\ \A t, u \in Texts : \A n \in 1..Len(u) : t = SubSeq(u, 1, n) => n = Len(u)
  /\ Ids \subseteq Seq(Byte) /\ \A i \in Ids : Len(i) <= MaxSessionIdLen
  /\ Payloads \subseteq Seq(Byte) /\ \A p \in Payloads : Len(p) <= MaxPayloadLen
  /\ OwnKind \in Byte
  /\ ToAgent \in BOOLEAN
  /\ MaxFrames \in Nat

VARIABLES
  wire,     \* the bytes written to the stream, from its beginning
  here,     \* how many of them have arrived
  at,       \* how many of them the reader has taken
  ended,    \* no more will arrive
  broken,   \* for the connection is lost: asking for more is an error
  written,  \* history: the frames written
  ends,     \* history: how many bytes had been written after each of them
  taken,    \* history: the frames the reader returned
  reader    \* "reading", "closed" (it returned None), "failed"

frameVars == <<wire, here, at, ended, broken, written, ends, taken, reader>>

FramingInit ==
  /\ wire = <<>> /\ here = 0 /\ at = 0
  /\ ended = FALSE /\ broken = FALSE
  /\ written = <<>> /\ ends = <<>> /\ taken = <<>>
  /\ reader = "reading"
-----------------------------------------------------------------------------
(* Writing: write_json, encode_binary_frame, encode_short_binary_frame. *)

\* to_be_bytes, of numbers below 2^24.
BigEndian(n, width) ==
  [i \in 1..width |-> CASE i = width -> n % 256
                        [] i = width - 1 -> (n \div 256) % 256
                        [] i = width - 2 -> (n \div 65536) % 256
                        [] OTHER -> n \div 16777216]

Encode(f) ==
  CASE f.type = "json" -> f.text \o <<NewLine>>
    [] f.type = "binary" -> <<Magic, f.kind>> \o BigEndian(Len(f.id), 2)
                              \o BigEndian(Len(f.payload), 4) \o f.id \o f.payload
    [] f.type = "short" -> <<ShortMagic>> \o EncodeLen(Len(f.payload)) \o f.payload

Write(f) ==
  /\ ~ended
  /\ Len(written) < MaxFrames
  /\ wire' = wire \o Encode(f)
  /\ written' = Append(written, f)
  /\ ends' = Append(ends, Len(wire'))
  /\ UNCHANGED <<here, at, ended, broken, taken, reader>>

\* The next byte arrives.  (Many at once are many such steps.)
Arrive ==
  /\ ~ended
  /\ here < Len(wire)
  /\ here' = here + 1
  /\ UNCHANGED <<wire, at, ended, broken, written, ends, taken, reader>>

\* The writer ends the stream, or the connection is lost (QUIC's idle timeout, or
\* the process of the other end): between frames or inside one.
EndOfStream ==
  /\ ~ended
  /\ ended' = TRUE
  /\ broken' \in BOOLEAN
  /\ UNCHANGED <<wire, here, at, written, ends, taken, reader>>
-----------------------------------------------------------------------------
(* Reading: read_client_stream_frame, read_agent_stream_frame.  An outcome  *)
(* is what the call returns, and how many bytes it has taken.               *)

input == SubSeq(wire, at + 1, here)

Got(f, n) == [result |-> "frame", frame |-> f, used |-> n]
Nothing(n) == [result |-> "closed", used |-> n]
Error == [result |-> "failed", used |-> Len(input)]
Waiting == [result |-> "wait", used |-> 0]

\* Variant for testing: one byte more is waited for.
NeedsMore(n, outcome) ==
  IF Len(input) > n THEN outcome ELSE IF ended THEN Error ELSE Waiting

\* read_exact of the first n bytes: until then it waits, and an end is an error.
Needs(n, outcome) ==
  IF Len(input) >= n THEN outcome ELSE IF ended THEN Error ELSE Waiting

Number(bytes) == IF Len(bytes) = 2 THEN bytes[1] * 256 + bytes[2]
                 ELSE bytes[1] * 16777216 + bytes[2] * 65536 + bytes[3] * 256 + bytes[4]

\* The agent returns every kind and later ignores what is not input; the
\* client takes a frame that is not output for the end of the stream.
TakeBinary(kind, id, payload, n) ==
  IF ToAgent \/ kind = OwnKind THEN Got(Binary(kind, id, payload), n) ELSE Nothing(n)

ReadBinary ==
  Needs(HeaderLen,
    LET idLen == Number(SubSeq(input, 3, 4))
        payloadLen == Number(SubSeq(input, 5, 8))
        all == HeaderLen + idLen + payloadLen
    IN  IF idLen > MaxSessionIdLen \/ payloadLen > MaxPayloadLen
        THEN Error
        ELSE Needs(all, TakeBinary(input[2],
                                   SubSeq(input, HeaderLen + 1, HeaderLen + idLen),
                                   SubSeq(input, HeaderLen + idLen + 1, all), all)))

ReadShort ==
  LET rest == Tail(input)
      length == ReadLen(rest)
  IN  IF length.ok
      THEN LET all == 1 + length.used + length.value
           IN  Needs(all, Got(Short(SubSeq(input, 2 + length.used, all)), all))
      ELSE IF ended \/ \E n \in 1..Len(rest) : n >= MaxDigits \/ ~More(rest[n])
           THEN Error ELSE Waiting

HasNewLine == \E i \in 1..Len(input) : input[i] = NewLine
Line == IF HasNewLine
        THEN SubSeq(input, 1, CHOOSE i \in 1..Len(input) :
                               input[i] = NewLine /\ \A j \in 1..(i - 1) : input[j] # NewLine)
        ELSE input

WithoutLast(s) == SubSeq(s, 1, Len(s) - 1)
EndsWith(s, byte) == s # <<>> /\ s[Len(s)] = byte

\* trim_line_end
Trimmed(line) ==
  IF ~EndsWith(line, NewLine) THEN line
  ELSE IF EndsWith(WithoutLast(line), Return) THEN WithoutLast(WithoutLast(line))
  ELSE WithoutLast(line)

\* Variant for testing: the line without its newline is left for the next call.
ReadJsonLeavingEnd ==
  IF ~HasNewLine /\ ~ended THEN Waiting
  ELSE IF ~HasNewLine /\ broken THEN Error
  ELSE IF Trimmed(Line) \in Texts THEN Got(Json(Trimmed(Line)), Len(Trimmed(Line)))
  ELSE Error

\* read_until gives what there is when the stream ends, so a last line may
\* lack its newline; when it breaks off, read_until fails and so does the call.
ReadJson ==
  IF ~HasNewLine /\ ~ended THEN Waiting
  ELSE IF ~HasNewLine /\ broken THEN Error
  ELSE IF Trimmed(Line) \in Texts THEN Got(Json(Trimmed(Line)), Len(Line))
  ELSE Error

ReadFrame ==
  IF input = <<>> THEN IF broken THEN Error ELSE IF ended THEN Nothing(0) ELSE Waiting
  ELSE CASE input[1] = Magic -> ReadBinary
         [] input[1] = ShortMagic -> ReadShort
         [] OTHER -> ReadJson

\* One call of the reader by its loop, which ends with the first that returns
\* no frame.
Read ==
  /\ reader = "reading"
  /\ ReadFrame.result # "wait"
  /\ at' = at + ReadFrame.used
  /\ IF ReadFrame.result = "frame"
     THEN taken' = Append(taken, ReadFrame.frame) /\ UNCHANGED reader
     ELSE reader' = ReadFrame.result /\ UNCHANGED taken
  /\ UNCHANGED <<wire, here, ended, broken, written, ends>>

FramingNext ==
  \/ \E f \in Frames : Write(f)
  \/ Arrive
  \/ EndOfStream
  \/ Read

FramingSpec == FramingInit /\ [][FramingNext]_frameVars
-----------------------------------------------------------------------------
(* Properties *)

\* Where the k-th frame ends.
EndOf(k) == IF k = 0 THEN 0 ELSE ends[k]

Whole == {k \in 1..Len(written) : EndOf(k) <= here}

\* The reader returns the frames that were written, in order, whatever bytes
\* their payloads hold and in whatever pieces they arrive.  It reports an
\* orderly end only of a stream that ended so, and after every frame that arrived
\* whole (and perhaps a JSON line that lacks just its newline); and an error, too,
\* only after every whole frame, when the stream broke or ended inside a frame.
FramesArrive ==
  /\ Len(taken) <= Len(written) /\ taken = SubSeq(written, 1, Len(taken))
  /\ reader = "closed" => ended /\ ~broken /\ Whole \subseteq 1..Len(taken)
  /\ reader = "failed" => /\ ended /\ Whole = 1..Len(taken)
                          /\ broken \/ here > EndOf(Len(taken))

\* A frame that has arrived is read without waiting for a byte after it, and at
\* the end of the stream the reader waits for nothing.
NeverWaitsInVain ==
  reader = "reading" /\ (ended \/ Len(taken) + 1 \in Whole) => ReadFrame.result # "wait"

\* A length the encoder writes is the length both decoders read, whatever is on
\* the wire after it, and on any bytes at all the decoders agree: with each
\* other, and on what is too long.  (Looked at with one frame on the wire, and
\* with an empty one, lest it be done in every state.)
LengthsUndone ==
  here = 0 /\ Len(written) = 1 =>
    /\ \A n \in BoundaryLengths : UndoneFor(n, wire)
    /\ Len(wire) = 2 => \A n \in 0..5 : \A bytes \in [1..n -> BoundaryDigits] : AgreeOn(bytes)
=============================================================================
