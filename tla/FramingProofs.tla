---------------------------- MODULE FramingProofs ----------------------------
(***************************************************************************)
(* Proofs about Framing and the lengths of its short frames, for any JSON  *)
(* texts none of which begins another, and any session ids and payloads    *)
(* the encoders accept.                                                    *)
(*                                                                         *)
(* Lengths: digits end at one position only, so the CHOOSE of a decoder    *)
(* has one candidate; for a length below 2^28 the digits at the four       *)
(* powers of 128 add up to the length.                                     *)
(*                                                                         *)
(* Frames: the wire is the encoded frames one after another (WireInv), and *)
(* the reader stands where the last frame it took ends (ReaderInv).  So    *)
(* what it looks at begins with the next frame, or is a beginning of it,   *)
(* and both ends of a frame can be told from its first bytes: three        *)
(* lemmas, one for each kind of frame, say what a call returns then.       *)
(***************************************************************************)
EXTENDS Framing, SequenceTheorems, TLAPS

(* Lengths *)

\* Of two positions where the digits could end the later one would have a last
\* digit before it.
LEMMA OneEnd ==
  ASSUME NEW bytes \in Seq(Byte), NEW m \in Nat \ {0}, NEW n \in Nat \ {0},
         EndsAt(bytes, m), EndsAt(bytes, n)
  PROVE  m = n
<1>1. ASSUME NEW i \in Nat \ {0}, NEW j \in Nat \ {0}, EndsAt(bytes, i), EndsAt(bytes, j)
      PROVE  ~(i < j)
  <2> SUFFICES ASSUME i < j PROVE FALSE
    OBVIOUS
  <2>1. i \in 1..(j - 1)
    OBVIOUS
  <2> QED BY <1>1, <2>1 DEF EndsAt
<1> QED BY <1>1

\* What both decoders answer for digits that end at n.
LEMMA BothRead ==
  ASSUME NEW bytes \in Seq(Byte), NEW n \in Nat \ {0}, EndsAt(bytes, n)
  PROVE  LET answer == IF n <= MaxDigits /\ ValueOf(bytes, n) <= MaxPayloadLen
                       THEN Decoded(ValueOf(bytes, n), n) ELSE Wrong
         IN  ReadLen(bytes) = answer /\ DecodeLen(bytes) = answer
<1>1. n \in 1..Len(bytes) /\ Len(bytes) \in Nat
  BY DEF EndsAt
<1>2. \A m \in Nat \ {0} : EndsAt(bytes, m) <=> m = n
  BY OneEnd
<1>3. {m \in 1..Len(bytes) : EndsAt(bytes, m)} = {n}
  BY <1>1, <1>2
<1>4. (CHOOSE m \in {n} : TRUE) = n
  OBVIOUS
<1>5. n <= MaxDigits => (CHOOSE m \in 1..MaxDigits : EndsAt(bytes, m)) = n
  <2>1. \A m \in 1..MaxDigits : EndsAt(bytes, m) <=> m = n
    BY <1>2 DEF MaxDigits
  <2>2. n <= MaxDigits => n \in 1..MaxDigits
    BY DEF MaxDigits
  <2> QED BY <2>1, <2>2
<1>6. (\E m \in 1..MaxDigits : EndsAt(bytes, m) /\ ValueOf(bytes, m) <= MaxPayloadLen)
        <=> n <= MaxDigits /\ ValueOf(bytes, n) <= MaxPayloadLen
  BY <1>2 DEF MaxDigits
<1>7. ReadLen(bytes) = IF n <= MaxDigits /\ ValueOf(bytes, n) <= MaxPayloadLen
                       THEN Decoded(ValueOf(bytes, n), n) ELSE Wrong
  BY <1>5, <1>6 DEF ReadLen
<1>8. DecodeLen(bytes) = IF n <= MaxDigits /\ ValueOf(bytes, n) <= MaxPayloadLen
                         THEN Decoded(ValueOf(bytes, n), n) ELSE Wrong
  BY <1>3, <1>4 DEF DecodeLen
<1> QED BY <1>7, <1>8

LEMMA BothRefuse ==
  ASSUME NEW bytes \in Seq(Byte), \A n \in Nat \ {0} : ~EndsAt(bytes, n)
  PROVE  ReadLen(bytes) = Wrong /\ DecodeLen(bytes) = Wrong
<1>1. ReadLen(bytes) = Wrong
  BY DEF ReadLen, MaxDigits
<1>2. {n \in 1..Len(bytes) : EndsAt(bytes, n)} = {}
  OBVIOUS
<1>3. DecodeLen(bytes) = Wrong
  BY <1>2 DEF DecodeLen
<1> QED BY <1>1, <1>3

\* The two decoders, one over a stream and one over a slice, agree on every
\* sequence of bytes: on the value, on the digits taken, on what is refused.
THEOREM DecodersAgree == \A bytes \in Seq(Byte) : AgreeOn(bytes)
<1> SUFFICES ASSUME NEW bytes \in Seq(Byte) PROVE AgreeOn(bytes)
  OBVIOUS
<1>1. CASE \E n \in Nat \ {0} : EndsAt(bytes, n)
  BY <1>1, BothRead DEF AgreeOn
<1>2. CASE \A n \in Nat \ {0} : ~EndsAt(bytes, n)
  BY <1>2, BothRefuse DEF AgreeOn
<1> QED BY <1>1, <1>2
-----------------------------------------------------------------------------
Lengths == 0..MaxPayloadLen

LEMMA LengthBounds ==
  /\ MaxPayloadLen \in Nat
  /\ \A n \in Lengths : n \in Nat /\ n <= MaxPayloadLen
<1>1. MaxPayloadLen \in Nat
  BY SMT DEF MaxPayloadLen
<1> QED BY <1>1 DEF Lengths

\* The digits of a length, and where they end.
LEMMA EncodedDigits ==
  ASSUME NEW n \in Lengths
  PROVE  /\ DigitsOf(n) \in 1..MaxDigits
         /\ EncodeLen(n) \in Seq(Byte) /\ Len(EncodeLen(n)) = DigitsOf(n)
         /\ \A i \in 1..DigitsOf(n) :
              /\ Last7(EncodeLen(n)[i]) = Digit(n, i)
              /\ More(EncodeLen(n)[i]) <=> i < DigitsOf(n)
<1> DEFINE d == DigitsOf(n)
<1>1. d \in 1..MaxDigits /\ d \in Nat
  BY SMT DEF DigitsOf, MaxDigits
<1>2. \A i \in 1..4 : Digit(n, i) \in 0..127
  BY LengthBounds, SMT DEF Digit, Power
<1>3. \A i \in 1..d : /\ EncodeLen(n)[i] = Digit(n, i) + (IF i < d THEN 128 ELSE 0)
                      /\ Digit(n, i) \in 0..127
  BY <1>1, <1>2, SMT DEF EncodeLen, MaxDigits
<1>4. \A i \in 1..d : EncodeLen(n)[i] \in Byte
  BY <1>1, <1>3, SMT DEF Byte
<1>5. DOMAIN EncodeLen(n) = 1..d
  BY DEF EncodeLen
<1>6. EncodeLen(n) \in [1..d -> Byte]
  BY <1>4, <1>5 DEF EncodeLen
<1>7. EncodeLen(n) \in Seq(Byte) /\ Len(EncodeLen(n)) = d
  BY <1>1, <1>6
<1>8. ASSUME NEW i \in 1..d
      PROVE  /\ Last7(EncodeLen(n)[i]) = Digit(n, i)
             /\ More(EncodeLen(n)[i]) <=> i < d
  BY <1>1, <1>3, SMT DEF Last7, More
<1> QED BY <1>1, <1>7, <1>8

\* The digits add up.
LEMMA SumOfDigits ==
  ASSUME NEW n \in Lengths
  PROVE  n = (IF 1 <= DigitsOf(n) THEN Digit(n, 1) * Power(1) ELSE 0)
               + (IF 2 <= DigitsOf(n) THEN Digit(n, 2) * Power(2) ELSE 0)
               + (IF 3 <= DigitsOf(n) THEN Digit(n, 3) * Power(3) ELSE 0)
               + (IF 4 <= DigitsOf(n) THEN Digit(n, 4) * Power(4) ELSE 0)
<1>1. n \in Nat /\ n <= 16777216
  BY LengthBounds, SMT DEF MaxPayloadLen
<1>2. /\ Digit(n, 1) * Power(1) = n % 128
      /\ Digit(n, 2) * Power(2) = ((n \div 128) % 128) * 128
      /\ Digit(n, 3) * Power(3) = ((n \div 16384) % 128) * 16384
      /\ Digit(n, 4) * Power(4) = ((n \div 2097152) % 128) * 2097152
  BY <1>1, SMT DEF Digit, Power
<1> QED BY <1>1, <1>2, SMT DEF DigitsOf

\* Decoding undoes encoding, whatever follows the digits.
THEOREM DecodingUndoes == \A n \in Lengths, payload \in Seq(Byte) : UndoneFor(n, payload)
<1> SUFFICES ASSUME NEW n \in Lengths, NEW payload \in Seq(Byte)
             PROVE  UndoneFor(n, payload)
  OBVIOUS
<1> DEFINE d == DigitsOf(n)
           code == EncodeLen(n)
           bytes == code \o payload
<1>1. /\ d \in 1..4 /\ code \in Seq(Byte) /\ Len(code) = d
      /\ \A i \in 1..d : Last7(code[i]) = Digit(n, i) /\ (More(code[i]) <=> i < d)
  BY EncodedDigits DEF MaxDigits
<1> HIDE DEF d, code
<1>2. bytes \in Seq(Byte) /\ Len(bytes) >= d /\ \A i \in 1..d : bytes[i] = code[i]
  BY <1>1
<1> HIDE DEF bytes
<1>3. EndsAt(bytes, d)
  BY <1>1, <1>2 DEF EndsAt
<1>4. ValueOf(bytes, d) = n
  <2>1. \A i \in 1..4 : Term(bytes, i, d) = IF i <= d THEN Digit(n, i) * Power(i) ELSE 0
    BY <1>1, <1>2 DEF Term
  <2> QED BY <2>1, SumOfDigits DEF ValueOf, d
<1>5. n <= MaxPayloadLen /\ d <= MaxDigits /\ d \in Nat \ {0}
  BY <1>1, LengthBounds DEF MaxDigits
<1>6. ReadLen(bytes) = Decoded(n, d) /\ DecodeLen(bytes) = Decoded(n, d)
  BY <1>2, <1>3, <1>4, <1>5, BothRead
<1> QED BY <1>6 DEF UndoneFor, bytes, code, d
-----------------------------------------------------------------------------
(* What the encoders write. *)

\* What a concatenation of bytes holds.
LEMMA Joined ==
  ASSUME NEW s \in Seq(Byte), NEW t \in Seq(Byte)
  PROVE  /\ s \o t \in Seq(Byte) /\ Len(s \o t) = Len(s) + Len(t)
         /\ \A j \in 1..Len(s) : (s \o t)[j] = s[j]
         /\ \A j \in 1..Len(t) : (s \o t)[Len(s) + j] = t[j]
<1>1. Len(s) \in Nat /\ Len(t) \in Nat
  OBVIOUS
<1>2. /\ s \o t \in Seq(Byte) /\ Len(s \o t) = Len(s) + Len(t)
      /\ \A j \in 1..Len(s) + Len(t) : (s \o t)[j] = IF j <= Len(s) THEN s[j] ELSE t[j - Len(s)]
  BY ConcatProperties
<1>3. ASSUME NEW j \in 1..Len(s) PROVE (s \o t)[j] = s[j]
  BY <1>1, <1>2
<1>4. ASSUME NEW j \in 1..Len(t) PROVE (s \o t)[Len(s) + j] = t[j]
  <2>1. Len(s) + j \in 1..Len(s) + Len(t) /\ ~(Len(s) + j <= Len(s)) /\ (Len(s) + j) - Len(s) = j
    BY <1>1
  <2> QED BY <1>2, <2>1
<1> QED BY <1>2, <1>3, <1>4

LEMMA FiniteSeq ==
  ASSUME NEW S, NEW n \in Nat, NEW s \in [1..n -> S]
  PROVE  s \in Seq(S) /\ Len(s) = n
OBVIOUS

\* The elements of a sequence from the m-th to the k-th, n of them.
LEMMA Piece ==
  ASSUME NEW S, NEW s \in Seq(S), NEW m \in Nat \ {0}, NEW k \in Nat, NEW n \in Nat,
         m + n = k + 1, k <= Len(s)
  PROVE  /\ SubSeq(s, m, k) \in Seq(S) /\ Len(SubSeq(s, m, k)) = n
         /\ \A j \in 1..n : SubSeq(s, m, k)[j] = s[(m - 1) + j]
<1>1. m \in 1..(Len(s) + 1) /\ k \in 0..Len(s) /\ (k - m) + 1 = n
  OBVIOUS
<1>2. /\ SubSeq(s, m, k) \in Seq(S)
      /\ Len(SubSeq(s, m, k)) = IF m <= k THEN (k - m) + 1 ELSE 0
      /\ \A j \in 1..((k - m) + 1) : SubSeq(s, m, k)[j] = s[m + j - 1]
  BY <1>1, SubSeqProperties
<1>3. \A j \in 1..n : m + j - 1 = (m - 1) + j
  OBVIOUS
<1> QED BY <1>1, <1>2, <1>3

\* Two bytes, and four, are enough for the lengths.
LEMMA BigEndianBytes ==
  ASSUME NEW n \in Nat
  PROVE  /\ n <= MaxSessionIdLen =>
              /\ BigEndian(n, 2) \in Seq(Byte) /\ Len(BigEndian(n, 2)) = 2
              /\ BigEndian(n, 2)[1] * 256 + BigEndian(n, 2)[2] = n
         /\ n <= MaxPayloadLen =>
              /\ BigEndian(n, 4) \in Seq(Byte) /\ Len(BigEndian(n, 4)) = 4
              /\ BigEndian(n, 4)[1] * 16777216 + BigEndian(n, 4)[2] * 65536
                   + BigEndian(n, 4)[3] * 256 + BigEndian(n, 4)[4] = n
<1>1. ASSUME n <= MaxSessionIdLen
      PROVE  /\ BigEndian(n, 2) \in Seq(Byte) /\ Len(BigEndian(n, 2)) = 2
             /\ BigEndian(n, 2)[1] * 256 + BigEndian(n, 2)[2] = n
  <2>1. n <= 4096
    BY <1>1, SMT DEF MaxSessionIdLen
  <2>2. BigEndian(n, 2)[1] = (n \div 256) % 256 /\ BigEndian(n, 2)[2] = n % 256
    BY DEF BigEndian
  <2>3. BigEndian(n, 2)[1] \in Byte /\ BigEndian(n, 2)[2] \in Byte
    BY <2>2, SMT DEF Byte
  <2>4. BigEndian(n, 2) \in [1..2 -> Byte]
    BY <2>3 DEF BigEndian
  <2>5. BigEndian(n, 2) \in Seq(Byte) /\ Len(BigEndian(n, 2)) = 2
    BY <2>4, FiniteSeq
  <2> QED BY <2>1, <2>2, <2>5, SMT
<1>2. ASSUME n <= MaxPayloadLen
      PROVE  /\ BigEndian(n, 4) \in Seq(Byte) /\ Len(BigEndian(n, 4)) = 4
             /\ BigEndian(n, 4)[1] * 16777216 + BigEndian(n, 4)[2] * 65536
                  + BigEndian(n, 4)[3] * 256 + BigEndian(n, 4)[4] = n
  <2>1. n <= 16777216
    BY <1>2, SMT DEF MaxPayloadLen
  <2>2. /\ BigEndian(n, 4)[1] = n \div 16777216
        /\ BigEndian(n, 4)[2] = (n \div 65536) % 256
        /\ BigEndian(n, 4)[3] = (n \div 256) % 256
        /\ BigEndian(n, 4)[4] = n % 256
    BY SMT DEF BigEndian
  <2>3. /\ BigEndian(n, 4)[1] \in Byte /\ BigEndian(n, 4)[2] \in Byte
        /\ BigEndian(n, 4)[3] \in Byte /\ BigEndian(n, 4)[4] \in Byte
    BY <2>1, <2>2, SMT DEF Byte
  <2>4. \A i \in 1..4 : BigEndian(n, 4)[i] \in Byte
    BY <2>3
  <2>5. BigEndian(n, 4) \in [1..4 -> Byte]
    BY <2>4 DEF BigEndian
  <2>6. BigEndian(n, 4) \in Seq(Byte) /\ Len(BigEndian(n, 4)) = 4
    BY <2>5, FiniteSeq
  <2> DEFINE a == BigEndian(n, 4)[1]
             b == BigEndian(n, 4)[2]
             c == BigEndian(n, 4)[3]
             d == BigEndian(n, 4)[4]
  <2>7. /\ a = n \div 16777216 /\ b = (n \div 65536) % 256
        /\ c = (n \div 256) % 256 /\ d = n % 256
    BY <2>2
  <2> HIDE DEF a, b, c, d
  <2>8. a \in Nat /\ b \in Nat /\ c \in Nat /\ d \in Nat
    BY <2>7, SMT
  <2>9. a * 16777216 + b * 65536 + c * 256 + d - n = 0
    BY <2>1, <2>7, SMT
  <2>10. a * 16777216 + b * 65536 + c * 256 + d = n
    BY <2>8, <2>9, SMT
  <2> QED BY <2>6, <2>10 DEF a, b, c, d
<1> QED BY <1>1, <1>2

\* A line, without a control character.
LEMMA JsonLayout ==
  ASSUME NEW t \in Texts
  PROVE  LET code == Encode(Json(t))
         IN  /\ t \in Seq(Byte) /\ Len(t) \in Nat \ {0}
             /\ code \in Seq(Byte) /\ Len(code) = Len(t) + 1
             /\ \A j \in 1..Len(t) :
                  /\ code[j] = t[j] /\ t[j] # NewLine /\ t[j] # Return
                  /\ t[j] # Magic /\ t[j] # ShortMagic
             /\ code[Len(t) + 1] = NewLine
<1>1. t \in Seq(32..255) /\ Len(t) \in Nat \ {0}
  BY FramingAssumption
<1>2. t \in Seq(Byte) /\ <<NewLine>> \in Seq(Byte)
  BY <1>1 DEF Byte, NewLine
<1>3. Encode(Json(t)) = t \o <<NewLine>>
  BY DEF Encode, Json
<1>4. Len(<<NewLine>>) = 1 /\ <<NewLine>>[1] = NewLine
  OBVIOUS
<1>5. \A j \in 1..Len(t) : t[j] # NewLine /\ t[j] # Return /\ t[j] # Magic /\ t[j] # ShortMagic
  <2>1. \A j \in 1..Len(t) : t[j] \in 32..255
    BY <1>1, ElementOfSeq
  <2>2. \A c \in 32..255 : c # NewLine /\ c # Return /\ c # Magic /\ c # ShortMagic
    BY SMT DEF NewLine, Return, Magic, ShortMagic
  <2> QED BY <2>1, <2>2
<1>6. /\ t \o <<NewLine>> \in Seq(Byte) /\ Len(t \o <<NewLine>>) = Len(t) + 1
      /\ \A j \in 1..Len(t) : (t \o <<NewLine>>)[j] = t[j]
      /\ (t \o <<NewLine>>)[Len(t) + 1] = NewLine
  BY <1>1, <1>2, <1>4, Joined
<1> QED BY <1>1, <1>2, <1>3, <1>5, <1>6

\* Ten bytes or more, of which the header tells where id and payload are.
LEMMA BinaryLayout ==
  ASSUME NEW i \in Ids, NEW p \in Payloads
  PROVE  LET code == Encode(Binary(OwnKind, i, p))
         IN  /\ i \in Seq(Byte) /\ Len(i) \in Nat /\ Len(i) <= MaxSessionIdLen
             /\ p \in Seq(Byte) /\ Len(p) \in Nat /\ Len(p) <= MaxPayloadLen
             /\ code \in Seq(Byte) /\ Len(code) = HeaderLen + Len(i) + Len(p)
             /\ code[1] = Magic /\ code[2] = OwnKind
             /\ code[3] * 256 + code[4] = Len(i)
             /\ code[5] * 16777216 + code[6] * 65536 + code[7] * 256 + code[8] = Len(p)
             /\ \A j \in 1..Len(i) : code[HeaderLen + j] = i[j]
             /\ \A j \in 1..Len(p) : code[HeaderLen + Len(i) + j] = p[j]
<1> DEFINE a == <<Magic, OwnKind>>
           b == BigEndian(Len(i), 2)
           c == BigEndian(Len(p), 4)
           code == Encode(Binary(OwnKind, i, p))
<1>1. /\ i \in Seq(Byte) /\ Len(i) \in Nat /\ Len(i) <= MaxSessionIdLen
      /\ p \in Seq(Byte) /\ Len(p) \in Nat /\ Len(p) <= MaxPayloadLen
  BY FramingAssumption
<1>2. a \in Seq(Byte) /\ Len(a) = 2 /\ a[1] = Magic /\ a[2] = OwnKind
  BY FramingAssumption DEF Byte, Magic
<1>3. /\ b \in Seq(Byte) /\ Len(b) = 2 /\ b[1] * 256 + b[2] = Len(i)
      /\ c \in Seq(Byte) /\ Len(c) = 4
      /\ c[1] * 16777216 + c[2] * 65536 + c[3] * 256 + c[4] = Len(p)
  BY <1>1, BigEndianBytes
<1>4. code = (((a \o b) \o c) \o i) \o p
  BY DEF Encode, Binary
<1> HIDE DEF a, b, c
<1>5. /\ a \o b \in Seq(Byte) /\ Len(a \o b) = 4
      /\ \A k \in 1..4 : (a \o b)[k] = IF k <= 2 THEN a[k] ELSE b[k - 2]
  <2>1. a \in Seq(Byte) /\ b \in Seq(Byte) /\ Len(a) = 2 /\ Len(b) = 2
    BY <1>2, <1>3
  <2>2. /\ a \o b \in Seq(Byte) /\ Len(a \o b) = Len(a) + Len(b)
        /\ \A k \in 1..Len(a) + Len(b) :
             (a \o b)[k] = IF k <= Len(a) THEN a[k] ELSE b[k - Len(a)]
    BY ONLY <2>1, ConcatProperties
  <2> QED BY ONLY <2>1, <2>2
<1> DEFINE ab == a \o b
<1> HIDE DEF ab
<1>6. /\ ab \o c \in Seq(Byte) /\ Len(ab \o c) = 8
      /\ \A k \in 1..8 : (ab \o c)[k] = IF k <= 4 THEN ab[k] ELSE c[k - 4]
  <2>1. ab \in Seq(Byte) /\ c \in Seq(Byte) /\ Len(ab) = 4 /\ Len(c) = 4
    BY <1>3, <1>5 DEF ab
  <2>2. /\ ab \o c \in Seq(Byte) /\ Len(ab \o c) = Len(ab) + Len(c)
        /\ \A k \in 1..Len(ab) + Len(c) :
             (ab \o c)[k] = IF k <= Len(ab) THEN ab[k] ELSE c[k - Len(ab)]
    BY ONLY <2>1, ConcatProperties
  <2> QED BY ONLY <2>1, <2>2
<1> DEFINE h == ab \o c
<1> HIDE DEF h
<1>7. /\ h \in Seq(Byte) /\ Len(h) = 8
      /\ h[1] = Magic /\ h[2] = OwnKind /\ h[3] * 256 + h[4] = Len(i)
      /\ h[5] * 16777216 + h[6] * 65536 + h[7] * 256 + h[8] = Len(p)
  <2>1. \A k \in 1..8 : h[k] = IF k <= 4 THEN ab[k] ELSE c[k - 4]
    BY <1>6 DEF h
  <2>2. \A k \in 1..4 : ab[k] = IF k <= 2 THEN a[k] ELSE b[k - 2]
    BY <1>5 DEF ab
  <2>3. h[5] = c[1] /\ h[6] = c[2] /\ h[7] = c[3] /\ h[8] = c[4]
    BY ONLY <2>1
  <2>4. h[1] = a[1] /\ h[2] = a[2] /\ h[3] = b[1] /\ h[4] = b[2]
    BY ONLY <2>1, <2>2
  <2> QED BY <1>2, <1>3, <1>6, <2>3, <2>4 DEF h
<1>8. /\ h \o i \in Seq(Byte) /\ Len(h \o i) = 8 + Len(i)
      /\ \A j \in 1..8 : (h \o i)[j] = h[j]
      /\ \A j \in 1..Len(i) : (h \o i)[8 + j] = i[j]
  <2>1. h \in Seq(Byte) /\ i \in Seq(Byte) /\ Len(h) = 8
    BY <1>1, <1>7
  <2>2. /\ h \o i \in Seq(Byte) /\ Len(h \o i) = Len(h) + Len(i)
        /\ \A j \in 1..Len(h) : (h \o i)[j] = h[j]
        /\ \A j \in 1..Len(i) : (h \o i)[Len(h) + j] = i[j]
    BY ONLY <2>1, Joined
  <2> QED BY <2>1, <2>2
<1> DEFINE hi == h \o i
<1> HIDE DEF hi
<1>9. code = hi \o p
  BY <1>4 DEF hi, h, ab
<1>10. /\ code \in Seq(Byte) /\ Len(code) = 8 + Len(i) + Len(p)
       /\ \A j \in 1..8 : code[j] = h[j]
       /\ \A j \in 1..Len(i) : code[8 + j] = i[j]
       /\ \A j \in 1..Len(p) : code[8 + Len(i) + j] = p[j]
  <2>1. hi \in Seq(Byte) /\ Len(hi) = 8 + Len(i)
    BY <1>8 DEF hi
  <2>2. /\ code \in Seq(Byte) /\ Len(code) = Len(hi) + Len(p)
        /\ \A j \in 1..Len(hi) : code[j] = hi[j]
        /\ \A j \in 1..Len(p) : code[Len(hi) + j] = p[j]
    <3>1. hi \in Seq(Byte) /\ p \in Seq(Byte) /\ code = hi \o p
      BY <1>1, <1>9, <2>1
    <3> QED BY ONLY <3>1, Joined
  <2> HIDE DEF code
  <2>3. Len(i) \in Nat /\ Len(hi) = 8 + Len(i)
    BY <1>1, <2>1
  <2>4. (\A j \in 1..8 : j \in 1..Len(hi)) /\ \A j \in 1..Len(i) : 8 + j \in 1..Len(hi)
    BY ONLY <2>3
  <2>5. (\A j \in 1..8 : hi[j] = h[j]) /\ \A j \in 1..Len(i) : hi[8 + j] = i[j]
    BY <1>8 DEF hi
  <2> QED BY <2>1, <2>2, <2>4, <2>5
<1> HIDE DEF code
<1>11. /\ code[1] = h[1] /\ code[2] = h[2] /\ code[3] = h[3] /\ code[4] = h[4]
       /\ code[5] = h[5] /\ code[6] = h[6] /\ code[7] = h[7] /\ code[8] = h[8]
  BY <1>10
<1> QED BY <1>1, <1>7, <1>10, <1>11 DEF HeaderLen, code

\* A magic byte, the digits of the length, and the payload.
LEMMA ShortLayout ==
  ASSUME NEW p \in Payloads
  PROVE  LET code == Encode(Short(p))
             d == DigitsOf(Len(p))
         IN  /\ p \in Seq(Byte) /\ Len(p) \in Lengths /\ Len(p) \in Nat /\ d \in 1..MaxDigits
             /\ code \in Seq(Byte) /\ Len(code) = 1 + d + Len(p)
             /\ code[1] = ShortMagic
             /\ \A j \in 1..d : code[1 + j] = EncodeLen(Len(p))[j]
             /\ \A j \in 1..Len(p) : code[1 + d + j] = p[j]
<1> DEFINE e == EncodeLen(Len(p))
           d == DigitsOf(Len(p))
           code == Encode(Short(p))
<1>1. p \in Seq(Byte) /\ Len(p) \in Nat /\ Len(p) <= MaxPayloadLen
  BY FramingAssumption
<1>2. Len(p) \in Lengths
  BY <1>1, LengthBounds DEF Lengths
<1>3. e \in Seq(Byte) /\ Len(e) = d /\ d \in 1..MaxDigits
  BY <1>2, EncodedDigits
<1>4. code = (<<ShortMagic>> \o e) \o p
  BY DEF Encode, Short
<1>5. <<ShortMagic>> \in Seq(Byte) /\ Len(<<ShortMagic>>) = 1 /\ <<ShortMagic>>[1] = ShortMagic
  BY DEF Byte, ShortMagic
<1> DEFINE m == <<ShortMagic>>
           me == m \o e
<1> HIDE DEF e, d, m
<1>6. /\ me \in Seq(Byte) /\ Len(me) = 1 + d /\ me[1] = ShortMagic
      /\ \A j \in 1..d : me[1 + j] = e[j]
  <2>1. m \in Seq(Byte) /\ e \in Seq(Byte) /\ Len(m) = 1 /\ Len(e) = d /\ m[1] = ShortMagic
    BY <1>3, <1>5 DEF m
  <2>2. /\ me \in Seq(Byte) /\ Len(me) = Len(m) + Len(e)
        /\ \A j \in 1..Len(m) : me[j] = m[j]
        /\ \A j \in 1..Len(e) : me[Len(m) + j] = e[j]
    BY ONLY <2>1, Joined
  <2> QED BY <1>3, <2>1, <2>2 DEF MaxDigits
<1>7. code = me \o p
  BY <1>4 DEF m
<1> HIDE DEF me, code
<1>8. /\ code \in Seq(Byte) /\ Len(code) = 1 + d + Len(p) /\ code[1] = ShortMagic
      /\ \A j \in 1..d : code[1 + j] = e[j]
      /\ \A j \in 1..Len(p) : code[1 + d + j] = p[j]
  <2>1. /\ code \in Seq(Byte) /\ Len(code) = Len(me) + Len(p)
        /\ \A j \in 1..Len(me) : code[j] = me[j]
        /\ \A j \in 1..Len(p) : code[Len(me) + j] = p[j]
    <3>1. me \in Seq(Byte) /\ p \in Seq(Byte) /\ code = me \o p
      BY <1>1, <1>6, <1>7
    <3> QED BY ONLY <3>1, Joined
  <2>2. \A j \in 1..d : 1 + j \in 1..Len(me)
    BY <1>3, <1>6 DEF MaxDigits
  <2>3. 1 \in 1..Len(me)
    BY <1>3, <1>6 DEF MaxDigits
  <2> QED BY <1>6, <2>1, <2>2, <2>3
<1> QED BY <1>1, <1>2, <1>3, <1>8 DEF e, d, code
-----------------------------------------------------------------------------
(* What a call of the reader returns. *)

\* What has arrived is a beginning of frame f, or begins with f.
Starts(f) ==
  /\ input \in Seq(Byte) /\ input # <<>>
  /\ \A j \in 1..Len(Encode(f)) : j <= Len(input) => input[j] = Encode(f)[j]

\* Then f is taken when it is there as a whole, or lacks just its newline at an
\* orderly end; else the call waits, or fails at the end.
TakenOf(f) ==
  LET n == Len(input)
      m == Len(Encode(f))
  IN  /\ n >= m => ReadFrame = Got(f, m)
      /\ n < m /\ ~ended => ReadFrame = Waiting
      /\ n < m /\ ended => ReadFrame = Error \/ (ReadFrame = Got(f, n) /\ n = m - 1 /\ ~broken)

\* The newline of a text is the first.
LEMMA JsonTaken ==
  ASSUME NEW t \in Texts, Starts(Json(t))
  PROVE  TakenOf(Json(t))
<1> DEFINE n == Len(input)
           code == Encode(Json(t))
<1>1. /\ t \in Seq(Byte) /\ Len(t) \in Nat \ {0}
      /\ code \in Seq(Byte) /\ Len(code) = Len(t) + 1
      /\ \A j \in 1..Len(t) :
           /\ code[j] = t[j] /\ t[j] # NewLine /\ t[j] # Return
           /\ t[j] # Magic /\ t[j] # ShortMagic
      /\ code[Len(t) + 1] = NewLine
  BY JsonLayout
<1>2. /\ input \in Seq(Byte) /\ n \in Nat \ {0}
      /\ \A j \in 1..Len(code) : j <= n => input[j] = code[j]
  BY DEF Starts
<1> HIDE DEF code
<1> HIDE DEF n
<1>3. \A j \in 1..Len(t) : j <= n => input[j] = t[j] /\ input[j] # NewLine
  <2>1. \A j \in 1..Len(t) : j \in 1..Len(code)
    BY <1>1
  <2> QED BY <1>1, <1>2, <2>1
<1>4. ReadFrame = ReadJson
  <2>1. 1 \in 1..Len(t) /\ 1 <= n
    BY <1>1, <1>2
  <2>2. input[1] # Magic /\ input[1] # ShortMagic
    BY <1>1, <1>3, <2>1
  <2>3. input # <<>>
    BY DEF Starts
  <2> QED BY <2>2, <2>3 DEF ReadFrame
<1>5. \A s : s[Len(s)] # NewLine => Trimmed(s) = s
  BY DEF Trimmed, EndsWith
<1>6. CASE n >= Len(t) + 1
  <2>1. input[Len(t) + 1] = NewLine /\ Len(t) + 1 \in 1..n
    BY <1>1, <1>2, <1>6
  <2>2. \A j \in 1..Len(t) : input[j] # NewLine
    BY <1>3, <1>6, <1>1, <1>2
  <2>3. ASSUME NEW i \in 1..n, input[i] = NewLine, \A j \in 1..(i - 1) : input[j] # NewLine
        PROVE  i = Len(t) + 1
    <3>1. ~(i \in 1..Len(t))
      BY <2>2, <2>3
    <3>2. ~(Len(t) + 1 \in 1..(i - 1))
      BY <2>1, <2>3
    <3> QED BY <1>1, <1>2, <3>1, <3>2
  <2>4. \A j \in 1..((Len(t) + 1) - 1) : input[j] # NewLine
    BY <1>1, <2>2
  <2>5. Line = SubSeq(input, 1, Len(t) + 1)
    <3>1. (CHOOSE i \in 1..n : input[i] = NewLine /\ \A j \in 1..(i - 1) : input[j] # NewLine)
            = Len(t) + 1
      BY <2>1, <2>3, <2>4
    <3> QED BY <2>1, <3>1 DEF Line, HasNewLine, n
  <2>6. /\ Line \in Seq(Byte) /\ Len(Line) = Len(t) + 1
        /\ \A j \in 1..(Len(t) + 1) : Line[j] = input[j]
    BY <1>1, <1>2, <2>1, <2>5 DEF n
  <2>7. WithoutLast(Line) = t
    <3>1. WithoutLast(Line) = SubSeq(Line, 1, Len(t))
      BY <1>1, <2>6 DEF WithoutLast
    <3>2. t \in Seq(Byte)
      BY <1>1
    <3>3. /\ SubSeq(Line, 1, Len(t)) \in Seq(Byte) /\ Len(SubSeq(Line, 1, Len(t))) = Len(t)
          /\ \A j \in 1..Len(t) : SubSeq(Line, 1, Len(t))[j] = Line[j]
      BY <1>1, <2>6
    <3>4. \A j \in 1..Len(t) : Line[j] = t[j]
      BY <1>1, <1>2, <1>3, <1>6, <2>6
    <3> QED BY <3>1, <3>2, <3>3, <3>4, SeqEqual
  <2>8. EndsWith(Line, NewLine) /\ ~EndsWith(t, Return)
    <3>1. Line # <<>> /\ Line[Len(Line)] = NewLine
      BY <1>1, <2>1, <2>6
    <3>2. t[Len(t)] # Return
      BY <1>1
    <3> QED BY <3>1, <3>2 DEF EndsWith
  <2>9. Trimmed(Line) = t
    BY <2>7, <2>8 DEF Trimmed
  <2>10. HasNewLine
    BY <2>1 DEF HasNewLine, n
  <2>11. ReadFrame = Got(Json(t), Len(t) + 1)
    BY <1>4, <2>6, <2>9, <2>10 DEF ReadJson
  <2> QED BY <1>1, <1>2, <1>6, <2>11 DEF TakenOf, code, n
<1>7. CASE n < Len(t) + 1
  <2>1. n \in 1..Len(t)
    BY <1>1, <1>2, <1>7
  <2>2. \A j \in 1..n : input[j] = t[j] /\ input[j] # NewLine
    BY <1>1, <1>2, <1>3, <2>1
  <2>3. ~HasNewLine /\ Line = input
    BY <2>2 DEF HasNewLine, Line, n
  <2>4. Trimmed(input) = input
    <3>1. input[Len(input)] # NewLine
      BY <1>2, <2>1, <2>2 DEF n
    <3> QED BY <1>5, <3>1
  <2>5. ASSUME input \in Texts PROVE input = t /\ n = Len(t)
    <3>1. t \in Seq(Byte)
      BY <1>1
    <3>2. /\ SubSeq(t, 1, n) \in Seq(Byte) /\ Len(SubSeq(t, 1, n)) = n
          /\ \A j \in 1..n : SubSeq(t, 1, n)[j] = t[j]
      BY <1>1, <2>1, <3>1
    <3>3. input = SubSeq(t, 1, n)
      BY <1>2, <2>2, <3>2, SeqEqual DEF n
    <3>4. n = Len(t)
      BY <2>1, <2>5, <3>3, FramingAssumption
    <3>5. input = t
      BY <1>2, <2>2, <3>1, <3>4, SeqEqual DEF n
    <3> QED BY <3>4, <3>5
  <2>6. ~ended => ReadFrame = Waiting
    BY <1>4, <2>3 DEF ReadJson
  <2>7. ended => ReadFrame = Error \/ (ReadFrame = Got(Json(t), n) /\ n = Len(t) /\ ~broken)
    BY <1>4, <2>3, <2>4, <2>5 DEF ReadJson
  <2>8. n < Len(code) /\ Len(code) - 1 = Len(t)
    BY <1>1, <1>7
  <2> QED BY <1>2, <2>6, <2>7, <2>8 DEF TakenOf, code, n
<1> QED BY <1>1, <1>2, <1>6, <1>7

\* The header is enough to know where the frame ends.
LEMMA BinaryTaken ==
  ASSUME NEW i \in Ids, NEW p \in Payloads, Starts(Binary(OwnKind, i, p))
  PROVE  TakenOf(Binary(OwnKind, i, p))
<1> DEFINE n == Len(input)
           code == Encode(Binary(OwnKind, i, p))
           all == HeaderLen + Len(i) + Len(p)
<1>1. /\ i \in Seq(Byte) /\ Len(i) \in Nat /\ Len(i) <= MaxSessionIdLen
      /\ p \in Seq(Byte) /\ Len(p) \in Nat /\ Len(p) <= MaxPayloadLen
  BY BinaryLayout
<1>2. /\ code \in Seq(Byte) /\ Len(code) = all
      /\ code[1] = Magic /\ code[2] = OwnKind
      /\ code[3] * 256 + code[4] = Len(i)
      /\ code[5] * 16777216 + code[6] * 65536 + code[7] * 256 + code[8] = Len(p)
  BY BinaryLayout
<1>3. /\ \A j \in 1..Len(i) : code[HeaderLen + j] = i[j]
      /\ \A j \in 1..Len(p) : code[HeaderLen + Len(i) + j] = p[j]
  BY BinaryLayout
<1>4. /\ input \in Seq(Byte) /\ n \in Nat \ {0}
      /\ \A j \in 1..all : j <= n => input[j] = code[j]
  BY <1>2 DEF Starts
<1>5. all \in Nat /\ all >= HeaderLen /\ HeaderLen = 8
  BY <1>1 DEF HeaderLen
<1>11. input # <<>>
  BY DEF Starts
<1> HIDE DEF code, all
<1>6. ReadFrame = ReadBinary
  <2>1. input[1] = Magic
    BY <1>2, <1>4, <1>5
  <2> QED BY <1>11, <2>1 DEF ReadFrame, Magic, ShortMagic
<1>7. CASE n < HeaderLen
  <2>1. ReadFrame = IF ended THEN Error ELSE Waiting
    BY <1>4, <1>5, <1>6, <1>7 DEF ReadBinary, Needs
  <2> QED BY <1>2, <1>4, <1>5, <1>7, <2>1 DEF TakenOf, code
<1>8. CASE n >= HeaderLen
  <2>1. \A j \in 1..8 : input[j] = code[j]
    BY <1>4, <1>5, <1>8
  <2>2. Number(SubSeq(input, 3, 4)) = Len(i)
    <3>1. Len(SubSeq(input, 3, 4)) = 2 /\ SubSeq(input, 3, 4)[1] = input[3]
            /\ SubSeq(input, 3, 4)[2] = input[4]
      BY ONLY <1>4, <1>5, <1>8
    <3>2. Number(SubSeq(input, 3, 4)) = input[3] * 256 + input[4]
      BY <3>1 DEF Number
    <3>3. input[3] = code[3] /\ input[4] = code[4]
      BY <2>1
    <3> QED BY <1>2, <3>2, <3>3
  <2>3. Number(SubSeq(input, 5, 8)) = Len(p)
    <3>1. Len(SubSeq(input, 5, 8)) = 4 /\ SubSeq(input, 5, 8)[1] = input[5]
            /\ SubSeq(input, 5, 8)[2] = input[6] /\ SubSeq(input, 5, 8)[3] = input[7]
            /\ SubSeq(input, 5, 8)[4] = input[8]
      BY ONLY <1>4, <1>5, <1>8
    <3>2. Number(SubSeq(input, 5, 8))
            = input[5] * 16777216 + input[6] * 65536 + input[7] * 256 + input[8]
      BY <3>1 DEF Number
    <3>3. input[5] = code[5] /\ input[6] = code[6] /\ input[7] = code[7] /\ input[8] = code[8]
      BY <2>1
    <3> QED BY <1>2, <3>2, <3>3
  <2> DEFINE rest == TakeBinary(input[2], SubSeq(input, HeaderLen + 1, HeaderLen + Len(i)),
                                SubSeq(input, HeaderLen + Len(i) + 1, all), all)
  <2>4. ~(Len(i) > MaxSessionIdLen \/ Len(p) > MaxPayloadLen)
    <3>1. MaxSessionIdLen \in Nat /\ MaxPayloadLen \in Nat
      BY LengthBounds DEF MaxSessionIdLen
    <3> QED BY <1>1, <3>1
  <2>5. ReadFrame = Needs(all, rest)
    <3>1. ReadBinary = IF Len(i) > MaxSessionIdLen \/ Len(p) > MaxPayloadLen
                       THEN Error ELSE Needs(all, rest)
      BY <1>4, <1>5, <1>8, <2>2, <2>3 DEF ReadBinary, Needs, all
    <3> QED BY <1>6, <2>4, <3>1
  <2> HIDE DEF rest
  <2>6. CASE n < all
    <3>1. ReadFrame = IF ended THEN Error ELSE Waiting
      BY <1>4, <1>5, <2>5, <2>6 DEF Needs
    <3> QED BY <1>2, <1>4, <1>5, <2>6, <3>1 DEF TakenOf, code
  <2>7. CASE n >= all
    <3>1. SubSeq(input, HeaderLen + 1, HeaderLen + Len(i)) = i
      <4>1. HeaderLen + Len(i) <= n
        BY <1>1, <1>5, <2>7, <1>4 DEF all
      <4>2. /\ SubSeq(input, 8 + 1, 8 + Len(i)) \in Seq(Byte)
            /\ Len(SubSeq(input, 8 + 1, 8 + Len(i))) = Len(i)
            /\ \A j \in 1..Len(i) : SubSeq(input, 8 + 1, 8 + Len(i))[j] = input[8 + j]
        <5>1. /\ 8 + 1 \in Nat \ {0} /\ 8 + Len(i) \in Nat /\ Len(i) \in Nat
              /\ (8 + 1) + Len(i) = (8 + Len(i)) + 1 /\ 8 + Len(i) <= Len(input)
              /\ \A j \in 1..Len(i) : ((8 + 1) - 1) + j = 8 + j
          BY ONLY <1>1, <1>4, <1>5, <4>1
        <5>2. input \in Seq(Byte)
          BY <1>4
        <5> QED BY <5>1, <5>2, Piece
      <4>3. ASSUME NEW j \in 1..Len(i) PROVE input[8 + j] = i[j]
        <5>1. 8 + j \in 1..all /\ 8 + j <= n
          BY <1>1, <1>4, <1>5, <2>7 DEF all
        <5> QED BY <1>3, <1>4, <1>5, <5>1
      <4> QED BY <1>1, <1>5, <4>2, <4>3, SeqEqual
    <3>2. SubSeq(input, HeaderLen + Len(i) + 1, all) = p
      <4>1. /\ SubSeq(input, 8 + Len(i) + 1, all) \in Seq(Byte)
            /\ Len(SubSeq(input, 8 + Len(i) + 1, all)) = Len(p)
            /\ \A j \in 1..Len(p) : SubSeq(input, 8 + Len(i) + 1, all)[j] = input[8 + Len(i) + j]
        <5>1. /\ 8 + Len(i) + 1 \in Nat \ {0} /\ all \in Nat /\ Len(p) \in Nat
              /\ (8 + Len(i) + 1) + Len(p) = all + 1 /\ all <= Len(input)
              /\ \A j \in 1..Len(p) : ((8 + Len(i) + 1) - 1) + j = 8 + Len(i) + j
          BY ONLY <1>1, <1>4, <1>5, <2>7 DEF all
        <5>2. input \in Seq(Byte)
          BY <1>4
        <5> QED BY <5>1, <5>2, Piece
      <4>2. ASSUME NEW j \in 1..Len(p) PROVE input[8 + Len(i) + j] = p[j]
        <5>1. 8 + Len(i) + j \in 1..all /\ 8 + Len(i) + j <= n
          BY <1>1, <1>4, <1>5, <2>7 DEF all
        <5> QED BY <1>3, <1>4, <1>5, <5>1
      <4> QED BY <1>1, <1>5, <4>1, <4>2, SeqEqual
    <3>3. input[2] = OwnKind
      BY <1>2, <2>1
    <3>4. rest = Got(Binary(OwnKind, i, p), all)
      BY <3>1, <3>2, <3>3 DEF rest, TakeBinary
    <3>5. ReadFrame = Got(Binary(OwnKind, i, p), all)
      BY <1>4, <1>5, <2>5, <2>7, <3>4 DEF Needs
    <3> QED BY <1>2, <1>4, <1>5, <2>7, <3>5 DEF TakenOf, code
  <2> QED BY <1>4, <1>5, <2>6, <2>7
<1> QED BY <1>4, <1>5, <1>7, <1>8

\* Before the last digit of the length has come all digits ask for more.
LEMMA ShortTaken ==
  ASSUME NEW p \in Payloads, Starts(Short(p))
  PROVE  TakenOf(Short(p))
<1> DEFINE n == Len(input)
           code == Encode(Short(p))
           e == EncodeLen(Len(p))
           d == DigitsOf(Len(p))
           rest == Tail(input)
<1>1. /\ p \in Seq(Byte) /\ Len(p) \in Lengths /\ Len(p) \in Nat /\ d \in 1..MaxDigits
      /\ code \in Seq(Byte) /\ Len(code) = 1 + d + Len(p) /\ code[1] = ShortMagic
      /\ \A j \in 1..d : code[1 + j] = e[j]
      /\ \A j \in 1..Len(p) : code[1 + d + j] = p[j]
  BY ShortLayout
<1>2. /\ e \in Seq(Byte) /\ Len(e) = d
      /\ \A j \in 1..d : More(e[j]) <=> j < d
  BY <1>1, EncodedDigits
<1>3. /\ input \in Seq(Byte) /\ n \in Nat \ {0}
      /\ \A j \in 1..Len(code) : j <= n => input[j] = code[j]
  BY DEF Starts
<1>4. d \in 1..4
  BY <1>1 DEF MaxDigits
<1> HIDE DEF code, e, d
<1>5. /\ rest \in Seq(Byte) /\ Len(rest) = n - 1
      /\ \A j \in 1..(n - 1) : rest[j] = input[j + 1]
  BY <1>3, HeadTailProperties
<1>6. /\ \A j \in 1..d : j <= n - 1 => rest[j] = e[j]
      /\ \A j \in 1..Len(p) : d + j <= n - 1 => rest[d + j] = p[j]
  <2>1. ASSUME NEW j \in 1..d, j <= n - 1 PROVE rest[j] = e[j]
    <3>1. j \in 1..(n - 1) /\ j + 1 \in 1..Len(code) /\ j + 1 <= n /\ 1 + j = j + 1
      BY <1>1, <1>3, <1>4, <2>1
    <3> QED BY <1>1, <1>3, <1>5, <3>1
  <2>2. ASSUME NEW j \in 1..Len(p), d + j <= n - 1 PROVE rest[d + j] = p[j]
    <3>1. /\ d + j \in 1..(n - 1) /\ (d + j) + 1 \in 1..Len(code) /\ (d + j) + 1 <= n
          /\ 1 + d + j = (d + j) + 1
      BY <1>1, <1>3, <1>4, <2>2
    <3> QED BY <1>1, <1>3, <1>5, <3>1
  <2> QED BY <2>1, <2>2
<1> HIDE DEF rest
<1>7. ReadFrame = ReadShort
  <2>1. input[1] = ShortMagic
    BY <1>1, <1>3, <1>4
  <2> QED BY <1>3, <2>1 DEF ReadFrame, Magic, ShortMagic
<1>8. CASE n - 1 < d
  <2>1. \A j \in 1..Len(rest) : More(rest[j]) /\ j < d
    BY <1>2, <1>3, <1>4, <1>5, <1>6, <1>8
  <2>2. ~ReadLen(rest).ok
    <3>1. \A m \in 1..MaxDigits : ~EndsAt(rest, m)
      BY <1>5, <2>1, <1>3 DEF EndsAt, MaxDigits
    <3> QED BY <3>1 DEF ReadLen, Wrong
  <2>3. ~\E m \in 1..Len(rest) : m >= MaxDigits \/ ~More(rest[m])
    BY <1>3, <1>4, <1>5, <2>1 DEF MaxDigits
  <2>4. ReadFrame = IF ended THEN Error ELSE Waiting
    BY <1>7, <2>2, <2>3 DEF ReadShort, rest
  <2>5. n < Len(code)
    BY <1>1, <1>3, <1>4, <1>8
  <2> QED BY <1>1, <1>3, <2>4, <2>5 DEF TakenOf, code
<1>9. CASE n - 1 >= d
  <2> DEFINE follows == SubSeq(rest, d + 1, n - 1)
             all == 1 + d + Len(p)
  <2>1. /\ follows \in Seq(Byte) /\ Len(follows) = (n - 1) - d
        /\ \A j \in 1..((n - 1) - d) : follows[j] = rest[d + j]
    BY ONLY <1>3, <1>4, <1>5, <1>9
  <2>2. rest = e \o follows
    <3>1. /\ e \o follows \in Seq(Byte) /\ Len(e \o follows) = Len(e) + Len(follows)
          /\ \A k \in 1..Len(e) + Len(follows) :
               (e \o follows)[k] = IF k <= Len(e) THEN e[k] ELSE follows[k - Len(e)]
      BY <1>2, <2>1, ConcatProperties
    <3>2. Len(rest) = Len(e) + Len(follows)
      BY <1>2, <1>3, <1>4, <1>5, <2>1
    <3> HIDE DEF follows
    <3>3. ASSUME NEW k \in 1..Len(rest) PROVE rest[k] = (e \o follows)[k]
      <4>1. CASE k <= d
        BY <1>2, <1>3, <1>4, <1>5, <1>6, <3>1, <3>2, <4>1
      <4>2. CASE k > d
        <5>1. k - d \in 1..((n - 1) - d) /\ d + (k - d) = k
          BY <1>3, <1>4, <1>5, <4>2
        <5>2. follows[k - d] = rest[k]
          BY <2>1, <5>1
        <5> QED BY <1>2, <1>4, <3>1, <3>2, <4>2, <5>2
      <4>3. k \in Nat /\ d \in Nat
        BY <1>4
      <4>4. k <= d \/ k > d
        BY ONLY <4>3
      <4> QED BY <4>1, <4>2, <4>4
    <3> QED BY <1>5, <3>1, <3>2, <3>3, SeqEqual
  <2>3. ReadLen(rest) = Decoded(Len(p), d)
    BY <1>1, <2>1, <2>2, DecodingUndoes DEF UndoneFor, e, d
  <2>4. ReadFrame = Needs(all, Got(Short(SubSeq(input, 2 + d, all)), all))
    BY <1>7, <2>3 DEF ReadShort, Decoded, rest
  <2>5. Len(code) = all /\ all \in Nat
    BY <1>1, <1>4
  <2>6. CASE n < all
    <3>1. ReadFrame = IF ended THEN Error ELSE Waiting
      BY <1>3, <2>4, <2>5, <2>6 DEF Needs
    <3> QED BY <1>3, <2>5, <2>6, <3>1 DEF TakenOf, code
  <2>7. CASE n >= all
    <3>1. SubSeq(input, 2 + d, all) = p
      <4>1. /\ SubSeq(input, 2 + d, all) \in Seq(Byte)
            /\ Len(SubSeq(input, 2 + d, all)) = Len(p)
            /\ \A j \in 1..Len(p) : SubSeq(input, 2 + d, all)[j] = input[1 + d + j]
        <5>1. /\ 2 + d \in Nat \ {0} /\ all \in Nat /\ Len(p) \in Nat
              /\ (2 + d) + Len(p) = all + 1 /\ all <= Len(input)
              /\ \A j \in 1..Len(p) : ((2 + d) - 1) + j = 1 + d + j
          BY ONLY <1>1, <1>3, <1>4, <2>7
        <5> HIDE DEF all
        <5> QED BY <1>3, <5>1, Piece
      <4>2. ASSUME NEW j \in 1..Len(p) PROVE input[1 + d + j] = p[j]
        <5>1. 1 + d + j \in 1..Len(code) /\ 1 + d + j <= n
          BY <1>1, <1>3, <1>4, <2>5, <2>7
        <5> QED BY <1>1, <1>3, <5>1
      <4> QED BY <1>1, <4>1, <4>2, SeqEqual
    <3>2. ReadFrame = Got(Short(p), all)
      BY <1>3, <2>4, <2>5, <2>7, <3>1 DEF Needs
    <3> QED BY <1>3, <2>5, <2>7, <3>2 DEF TakenOf, code
  <2> QED BY <1>3, <2>5, <2>6, <2>7
<1> QED BY <1>3, <1>4, <1>8, <1>9
-----------------------------------------------------------------------------
(* The stream and its reader: the inductive invariant. *)

\* The wire holds the frames written, one after another, and EndOf says where.
WireInv ==
  /\ written \in Seq(Frames) /\ wire \in Seq(Byte)
  /\ ends \in Seq(Nat) /\ Len(ends) = Len(written)
  /\ EndOf(Len(written)) = Len(wire)
  /\ \A k \in 1..Len(written) :
       /\ EndOf(k) = EndOf(k - 1) + Len(Encode(written[k]))
       /\ \A j \in 1..Len(Encode(written[k])) : wire[EndOf(k - 1) + j] = Encode(written[k])[j]
  /\ \A j, k \in 0..Len(written) : j < k => EndOf(j) < EndOf(k)

\* The frames returned are the first ones written.
TakenInv ==
  /\ taken \in Seq(Frames) /\ Len(taken) <= Len(written)
  /\ \A k \in 1..Len(taken) : taken[k] = written[k]

\* The reader stands between two frames, or at the end of a line without a
\* newline, which nothing follows.  It gave up inside a frame, or after the last
\* whole one when the stream broke there.
ReaderInv ==
  /\ here \in 0..Len(wire) /\ at \in 0..here
  /\ ended \in BOOLEAN /\ broken \in BOOLEAN /\ (broken => ended)
  /\ reader \in {"reading", "closed", "failed"}
  /\ reader # "failed" =>
       \/ at = EndOf(Len(taken))
       \/ /\ ended /\ ~broken /\ at = here
          /\ Len(taken) # 0 /\ at = EndOf(Len(taken)) - 1
  /\ reader = "closed" => ended /\ ~broken /\ at = here
  /\ reader = "failed" =>
       /\ ended
       /\ \/ broken /\ here = EndOf(Len(taken))
          \/ /\ Len(taken) < Len(written)
             /\ EndOf(Len(taken)) < here /\ here < EndOf(Len(taken) + 1)

StreamInv == WireInv /\ TakenInv /\ ReaderInv

LEMMA EncodedFrame ==
  ASSUME NEW f \in Frames
  PROVE  Encode(f) \in Seq(Byte) /\ Len(Encode(f)) \in Nat \ {0}
<1>1. CASE \E t \in Texts : f = Json(t)
  <2>1. PICK t \in Texts : f = Json(t)
    BY <1>1
  <2> QED BY <2>1, JsonLayout
<1>2. CASE \E i \in Ids, p \in Payloads : f = Binary(OwnKind, i, p)
  <2>1. PICK i \in Ids, p \in Payloads : f = Binary(OwnKind, i, p)
    BY <1>2
  <2> QED BY <2>1, BinaryLayout DEF HeaderLen
<1>3. CASE \E p \in Payloads : f = Short(p)
  <2>1. PICK p \in Payloads : f = Short(p)
    BY <1>3
  <2> QED BY <2>1, ShortLayout
<1> QED BY <1>1, <1>2, <1>3 DEF Frames

LEMMA FrameTaken ==
  ASSUME NEW f \in Frames, Starts(f)
  PROVE  TakenOf(f)
<1>1. CASE \E t \in Texts : f = Json(t)
  BY <1>1, JsonTaken
<1>2. CASE \E i \in Ids, p \in Payloads : f = Binary(OwnKind, i, p)
  BY <1>2, BinaryTaken
<1>3. CASE \E p \in Payloads : f = Short(p)
  BY <1>3, ShortTaken
<1> QED BY <1>1, <1>2, <1>3 DEF Frames

\* The ends of the frames written are numbers, in order.
LEMMA Ordered ==
  ASSUME StreamInv
  PROVE  /\ Len(written) \in Nat /\ Len(taken) \in 0..Len(written) /\ Len(wire) \in Nat
         /\ \A k \in 0..Len(written) : EndOf(k) \in Nat
         /\ \A j, k \in 0..Len(written) : j <= k => EndOf(j) <= EndOf(k)
<1>1. Len(written) \in Nat /\ Len(taken) \in 0..Len(written) /\ Len(wire) \in Nat
  BY DEF StreamInv, WireInv, TakenInv
<1>2. ASSUME NEW k \in 0..Len(written) PROVE EndOf(k) \in Nat
  <2>1. ends \in Seq(Nat) /\ Len(ends) = Len(written)
    BY DEF StreamInv, WireInv
  <2> QED BY <1>1, <2>1, ElementOfSeq DEF EndOf
<1>3. ASSUME NEW j \in 0..Len(written), NEW k \in 0..Len(written), j <= k
      PROVE  EndOf(j) <= EndOf(k)
  <2>1. j = k \/ j < k
    BY <1>1, <1>3
  <2>2. j < k => EndOf(j) < EndOf(k)
    BY DEF StreamInv, WireInv
  <2> QED BY <1>2, <2>1, <2>2
<1> QED BY <1>1, <1>2, <1>3

\* What the next call of the reader returns.
LEMMA Outcome ==
  ASSUME StreamInv, reader = "reading"
  PROVE  LET k == Len(taken)
             f == written[k + 1]
         IN  \/ /\ at = here /\ input = <<>>
                /\ ReadFrame = IF broken THEN Error ELSE IF ended THEN Nothing(0) ELSE Waiting
             \/ /\ at < here /\ at = EndOf(k) /\ k \in Nat /\ k + 1 \in 1..Len(written)
                /\ f \in Frames /\ Len(input) = here - at
                /\ Len(Encode(f)) \in Nat \ {0} /\ EndOf(k + 1) = EndOf(k) + Len(Encode(f))
                /\ TakenOf(f)
<1> DEFINE k == Len(taken)
           f == written[k + 1]
           code == Encode(f)
<1>1. /\ here \in 0..Len(wire) /\ at \in 0..here /\ wire \in Seq(Byte) /\ Len(wire) \in Nat
      /\ here \in Nat /\ at \in Nat
  BY DEF StreamInv, WireInv, ReaderInv
<1>2. CASE at = here
  <2>1. input = <<>>
    BY <1>1, <1>2 DEF input
  <2> QED BY <1>2, <2>1 DEF ReadFrame
<1>3. CASE at # here
  <2>1. at < here /\ at = EndOf(k)
    BY <1>1, <1>3 DEF StreamInv, ReaderInv
  <2>2. k + 1 \in 1..Len(written) /\ k \in Nat
    <3>1. EndOf(Len(written)) = Len(wire)
      BY DEF StreamInv, WireInv
    <3>2. k # Len(written)
      BY <1>1, <2>1, <3>1
    <3> QED BY <3>2, Ordered
  <2>3. f \in Frames
    <3>1. written \in Seq(Frames)
      BY DEF StreamInv, WireInv
    <3> QED BY <2>2, <3>1, ElementOfSeq
  <2>4. code \in Seq(Byte) /\ Len(code) \in Nat \ {0}
    BY <2>3, EncodedFrame
  <2>5. EndOf(k + 1) = EndOf(k) + Len(code) /\ \A j \in 1..Len(code) : wire[EndOf(k) + j] = code[j]
    <3>1. (k + 1) - 1 = k
      BY <2>2
    <3>2. /\ EndOf(k + 1) = EndOf((k + 1) - 1) + Len(Encode(written[k + 1]))
          /\ \A j \in 1..Len(Encode(written[k + 1])) :
               wire[EndOf((k + 1) - 1) + j] = Encode(written[k + 1])[j]
      BY <2>2 DEF StreamInv, WireInv
    <3> QED BY <3>1, <3>2
  <2> HIDE DEF k, f, code
  <2>6. /\ input \in Seq(Byte) /\ Len(input) = here - at
        /\ \A j \in 1..(here - at) : input[j] = wire[at + j]
    <3>1. \A j \in 1..(here - at) : (at + 1) + j - 1 = at + j
      BY <1>1
    <3>2. input = SubSeq(wire, at + 1, here)
      BY DEF input
    <3> QED BY <1>1, <2>1, <3>1, <3>2
  <2>7. Starts(f)
    <3>1. input # <<>>
      BY <1>1, <2>1, <2>6
    <3>2. ASSUME NEW j \in 1..Len(code), j <= Len(input) PROVE input[j] = code[j]
      <4>1. j \in 1..(here - at)
        BY <1>1, <2>1, <2>4, <2>6, <3>2
      <4> QED BY <2>1, <2>5, <2>6, <4>1
    <3> QED BY <2>6, <3>1, <3>2 DEF Starts, code
  <2>8. TakenOf(f)
    BY <2>3, <2>7, FrameTaken
  <2> QED BY <2>1, <2>2, <2>3, <2>4, <2>5, <2>6, <2>8 DEF k, f, code
<1> QED BY <1>2, <1>3

-----------------------------------------------------------------------------
(* It holds initially, and every step keeps it. *)

LEMMA InitStream == FramingInit => StreamInv
<1> SUFFICES ASSUME FramingInit PROVE StreamInv
  OBVIOUS
<1>1. Len(written) = 0 /\ Len(taken) = 0 /\ Len(wire) = 0 /\ Len(ends) = 0
  BY DEF FramingInit
<1>2. EndOf(0) = 0 /\ EndOf(Len(taken)) = 0
  BY <1>1 DEF EndOf
<1>6. here = 0 /\ at = 0 /\ ended = FALSE /\ broken = FALSE /\ reader = "reading" /\ 0 \in 0..0 /\ 0 \in 0..Len(wire)
  BY <1>1 DEF FramingInit
<1>3. WireInv
  BY <1>1, <1>2 DEF FramingInit, WireInv
<1>4. TakenInv
  BY <1>1 DEF FramingInit, TakenInv
<1>5. ReaderInv
  BY <1>2, <1>6, Zenon DEF ReaderInv
<1> QED BY <1>3, <1>4, <1>5 DEF StreamInv

\* A frame goes after all others.
LEMMA WriteStream ==
  ASSUME StreamInv, NEW f \in Frames, Write(f)
  PROVE  StreamInv'
<1> DEFINE n == Len(written)
           code == Encode(f)
<1>1. /\ written \in Seq(Frames) /\ wire \in Seq(Byte) /\ n \in Nat /\ Len(wire) \in Nat
      /\ ends \in Seq(Nat) /\ Len(ends) = n /\ EndOf(n) = Len(wire)
  BY DEF StreamInv, WireInv
<1>2. /\ ~ended /\ wire' = wire \o code /\ written' = Append(written, f)
      /\ ends' = Append(ends, Len(wire')) /\ here' = here /\ at' = at /\ ended' = ended /\ broken' = broken
      /\ taken' = taken /\ reader' = reader
  BY DEF Write
<1>3. code \in Seq(Byte) /\ Len(code) \in Nat \ {0}
  BY EncodedFrame
<1> HIDE DEF code
<1>4. /\ wire' \in Seq(Byte) /\ Len(wire') = Len(wire) + Len(code)
      /\ \A j \in 1..Len(wire) : wire'[j] = wire[j]
      /\ \A j \in 1..Len(code) : wire'[Len(wire) + j] = code[j]
  BY <1>1, <1>2, <1>3, Joined
<1>5. /\ written' \in Seq(Frames) /\ Len(written') = n + 1 /\ written'[n + 1] = f
      /\ \A k \in 1..n : written'[k] = written[k]
  BY <1>1, <1>2
<1>6. /\ ends' \in Seq(Nat) /\ Len(ends') = n + 1 /\ ends'[n + 1] = Len(wire')
      /\ \A k \in 1..n : ends'[k] = ends[k]
  <2>1. Len(wire') \in Nat
    BY <1>1, <1>3, <1>4
  <2> QED BY <1>1, <1>2, <2>1
<1> DEFINE EndAfter(k) == IF k = 0 THEN 0 ELSE ends'[k]
<1> HIDE DEF n
<1>7. /\ \A k \in 0..n : EndAfter(k) = EndOf(k)
      /\ EndAfter(n + 1) = Len(wire')
  <2>1. ASSUME NEW k \in 0..n PROVE EndAfter(k) = EndOf(k)
    <3>1. k = 0 \/ k \in 1..n
      BY <1>1
    <3> QED BY <1>6, <3>1 DEF EndOf
  <2>2. n + 1 # 0
    BY <1>1
  <2> QED BY <1>6, <2>1, <2>2
<1> HIDE DEF EndAfter
<1>8. /\ \A k \in 0..n : EndOf(k) \in Nat
      /\ \A j, k \in 0..n : j <= k => EndOf(j) <= EndOf(k)
      /\ Len(taken) \in 0..n
  BY Ordered DEF n
<1>9. ASSUME NEW k \in 1..(n + 1)
      PROVE  /\ EndAfter(k) = EndAfter(k - 1) + Len(Encode(written'[k]))
             /\ \A j \in 1..Len(Encode(written'[k])) :
                  wire'[EndAfter(k - 1) + j] = Encode(written'[k])[j]
  <2>1. CASE k \in 1..n
    <3> DEFINE c == Encode(written[k])
    <3>1. written'[k] = written[k] /\ EndAfter(k) = EndOf(k) /\ EndAfter(k - 1) = EndOf(k - 1)
      BY <1>1, <1>5, <1>7, <2>1
    <3>2. EndOf(k) = EndOf(k - 1) + Len(c) /\ \A j \in 1..Len(c) : wire[EndOf(k - 1) + j] = c[j]
      BY <2>1 DEF StreamInv, WireInv, n
    <3>3. written[k] \in Frames
      BY <1>1, <2>1, ElementOfSeq DEF n
    <3>4. Len(c) \in Nat
      BY <3>3, EncodedFrame
    <3> HIDE DEF c
    <3>5. ASSUME NEW j \in 1..Len(c) PROVE wire'[EndOf(k - 1) + j] = c[j]
      <4>1. EndOf(k - 1) \in Nat /\ EndOf(k) \in Nat /\ EndOf(k) <= Len(wire)
        <5>1. k - 1 \in 0..n /\ k \in 0..n /\ n \in 0..n /\ k <= n
          BY <1>1, <2>1
        <5> QED BY <1>1, <1>8, <5>1
      <4>2. EndOf(k - 1) + j \in 1..Len(wire)
        <5> DEFINE from == EndOf(k - 1)
                   to == EndOf(k)
                   all == Len(wire)
        <5>1. from \in Nat /\ to <= all /\ to = from + Len(c) /\ all \in Nat /\ j \in 1..Len(c)
          BY <1>1, <3>2, <4>1
        <5> HIDE DEF from, to, all
        <5>2. from + j \in 1..all
          BY ONLY <3>4, <5>1
        <5> QED BY <5>2 DEF from, all
      <4> QED BY <1>4, <3>2, <4>2
    <3> QED BY <3>1, <3>2, <3>5 DEF c
  <2>2. CASE k = n + 1
    <3>1. written'[k] = f /\ k - 1 = n /\ EndAfter(k) = Len(wire') /\ EndAfter(k - 1) = Len(wire)
      <4>1. k - 1 = n /\ n \in 0..n
        BY <1>1, <2>2
      <4> QED BY <1>1, <1>5, <1>7, <2>2, <4>1
    <3> QED BY <1>4, <3>1 DEF code
  <2> QED BY <1>1, <2>1, <2>2
<1>10. ASSUME NEW j \in 0..(n + 1), NEW k \in 0..(n + 1), j < k
       PROVE  EndAfter(j) < EndAfter(k)
  <2>1. CASE k \in 0..n
    <3>1. j \in 0..n
      BY <1>1, <1>10, <2>1
    <3>2. EndOf(j) < EndOf(k)
      BY <1>10, <2>1, <3>1 DEF StreamInv, WireInv, n
    <3> QED BY <1>7, <2>1, <3>1, <3>2
  <2>2. CASE k = n + 1
    <3>1. j \in 0..n /\ n \in 0..n
      BY <1>1, <1>10, <2>2
    <3>2. EndAfter(j) = EndOf(j) /\ EndOf(j) \in Nat /\ EndOf(j) <= Len(wire)
      BY <1>1, <1>7, <1>8, <3>1
    <3>3. EndAfter(k) = Len(wire) + Len(code)
      <4>1. EndAfter(n + 1) = Len(wire')
        BY <1>7
      <4> QED BY <1>4, <2>2, <4>1
    <3> QED BY <1>1, <1>3, <3>2, <3>3
  <2> QED BY <1>1, <2>1, <2>2
<1>11. WireInv'
  <2>1. /\ EndOf(Len(written))' = Len(wire')
        /\ \A k : EndOf(k)' = EndAfter(k)
    BY <1>5, <1>7 DEF EndOf, EndAfter
  <2> QED BY <1>4, <1>5, <1>6, <1>9, <1>10, <2>1 DEF WireInv
<1>12. TakenInv'
  <2>1. taken \in Seq(Frames) /\ \A k \in 1..Len(taken) : taken[k] = written[k]
    BY DEF StreamInv, TakenInv
  <2>2. \A k \in 1..Len(taken) : k \in 1..n
    BY <1>1, <1>8
  <2>3. Len(taken) <= n + 1
    BY <1>1, <1>8
  <2> QED BY <1>2, <1>5, <2>1, <2>2, <2>3 DEF TakenInv
<1>13. ReaderInv'
  <2>1. /\ here \in 0..Len(wire) /\ at \in 0..here /\ ended \in BOOLEAN
        /\ broken \in BOOLEAN /\ (broken => ended)
        /\ reader = "reading" /\ at = EndOf(Len(taken))
    BY <1>2 DEF StreamInv, ReaderInv
  <2>2. EndOf(Len(taken))' = EndOf(Len(taken))
    <3>1. EndAfter(Len(taken)) = EndOf(Len(taken))
      BY <1>7, <1>8
    <3> QED BY <1>2, <3>1 DEF EndOf, EndAfter
  <2>3. here \in 0..Len(wire')
    BY <1>1, <1>3, <1>4, <2>1
  <2> QED BY <1>2, <2>1, <2>2, <2>3 DEF ReaderInv
<1> QED BY <1>11, <1>12, <1>13 DEF StreamInv

\* Nothing else writes.
LEMMA NotWritten ==
  ASSUME WireInv, UNCHANGED <<wire, written, ends>>
  PROVE  WireInv' /\ \A k : EndOf(k)' = EndOf(k)
<1>1. \A k : EndOf(k)' = EndOf(k)
  BY DEF EndOf
<1> QED BY <1>1 DEF WireInv

LEMMA ArriveStream ==
  ASSUME StreamInv, Arrive \/ EndOfStream
  PROVE  StreamInv'
<1>1. UNCHANGED <<wire, written, ends, taken, at, reader>>
  BY DEF Arrive, EndOfStream
<1>2. WireInv' /\ \A k : EndOf(k)' = EndOf(k)
  BY <1>1, NotWritten DEF StreamInv
<1>3. TakenInv'
  BY <1>1 DEF StreamInv, TakenInv
<1>4. ReaderInv'
  <2>1. /\ here \in 0..Len(wire) /\ at \in 0..here /\ Len(wire) \in Nat
        /\ reader = "reading" /\ at = EndOf(Len(taken)) /\ ended \in BOOLEAN
    BY DEF StreamInv, WireInv, ReaderInv, Arrive, EndOfStream
  <2>2. here' \in 0..Len(wire) /\ at \in 0..here'
    <3>1. here' = here \/ (here' = here + 1 /\ here < Len(wire))
      BY DEF Arrive, EndOfStream
    <3> QED BY ONLY <2>1, <3>1
  <2>3. ended' \in BOOLEAN /\ broken' \in BOOLEAN /\ (broken' => ended')
    <3>1. broken \in BOOLEAN /\ (broken => ended)
      BY DEF StreamInv, ReaderInv
    <3>2. CASE Arrive
      BY <2>1, <3>1, <3>2 DEF Arrive
    <3>3. CASE EndOfStream
      BY <3>3 DEF EndOfStream
    <3> QED BY <3>2, <3>3
  <2> QED BY <1>1, <1>2, <2>1, <2>2, <2>3 DEF ReaderInv
<1> QED BY <1>2, <1>3, <1>4 DEF StreamInv

\* The reader takes a frame, is done, or gives up inside one.
LEMMA ReadStream ==
  ASSUME StreamInv, Read
  PROVE  StreamInv'
<1> DEFINE k == Len(taken)
           f == written[k + 1]
           m == Len(Encode(f))
<1>1. UNCHANGED <<wire, here, ended, broken, written, ends>>
  BY DEF Read
<1>2. WireInv' /\ \A l : EndOf(l)' = EndOf(l)
  BY <1>1, NotWritten DEF StreamInv
<1>3. /\ reader = "reading" /\ ReadFrame.result # "wait" /\ at' = at + ReadFrame.used
      /\ ReadFrame.result = "frame" =>
           taken' = Append(taken, ReadFrame.frame) /\ reader' = reader
      /\ ReadFrame.result # "frame" => reader' = ReadFrame.result /\ taken' = taken
  BY DEF Read
<1>4. /\ here \in 0..Len(wire) /\ at \in 0..here /\ ended \in BOOLEAN /\ here \in Nat /\ at \in Nat
      /\ Len(wire) \in Nat
  BY DEF StreamInv, WireInv, ReaderInv
<1>5. taken \in Seq(Frames) /\ k \in Nat /\ k <= Len(written) /\ \A l \in 1..k : taken[l] = written[l]
  BY DEF StreamInv, TakenInv
<1>6. CASE at = here
  <2>1. /\ ended /\ input = <<>>
        /\ ReadFrame = IF broken THEN Error ELSE Nothing(0)
    <3>1. ~(at < here)
      BY <1>4, <1>6
    <3>2. input = <<>> /\ ReadFrame = IF broken THEN Error ELSE IF ended THEN Nothing(0) ELSE Waiting
      BY <1>3, <3>1, Outcome
    <3> QED BY <1>3, <3>2 DEF Waiting, StreamInv, ReaderInv
  <2>2. at' = at /\ taken' = taken /\ reader' = IF broken THEN "failed" ELSE "closed"
    <3>1. CASE broken
      <4>1. ReadFrame.result = "failed" /\ ReadFrame.used = 0
        BY <2>1, <3>1 DEF Error
      <4> QED BY <1>3, <1>4, <3>1, <4>1
    <3>2. CASE ~broken
      BY <1>3, <1>4, <2>1, <3>2 DEF Nothing
    <3> QED BY <3>1, <3>2
  <2>3. TakenInv'
    BY <1>1, <2>2 DEF StreamInv, TakenInv
  <2>4. ReaderInv'
    <3>1. broken => here = EndOf(Len(taken))
      BY <1>3, <1>6 DEF StreamInv, ReaderInv
    <3> QED BY <1>1, <1>2, <1>3, <1>6, <2>1, <2>2, <3>1 DEF StreamInv, ReaderInv
  <2> QED BY <1>2, <2>3, <2>4 DEF StreamInv
<1>7. CASE at # here
  <2>1. /\ at < here /\ at = EndOf(k) /\ k + 1 \in 1..Len(written)
        /\ f \in Frames /\ Len(input) = here - at
        /\ m \in Nat \ {0} /\ EndOf(k + 1) = EndOf(k) + m
        /\ TakenOf(f)
    BY <1>3, <1>7, Outcome
  <2> HIDE DEF k, f, m
  <2>2. /\ here - at >= m => ReadFrame = Got(f, m)
        /\ here - at < m =>
             /\ ~ended => ReadFrame = Waiting
             /\ ended => ReadFrame = Error \/ (ReadFrame = Got(f, here - at) /\ here - at = m - 1 /\ ~broken)
    BY <2>1 DEF TakenOf, m
  <2>3. ASSUME NEW u \in Nat, ReadFrame = Got(f, u), u <= here - at,
               u = m \/ (ended /\ ~broken /\ u = here - at /\ u = m - 1)
        PROVE  StreamInv'
    <3>1. at' = at + u /\ taken' = Append(taken, f) /\ reader' = "reading"
      BY <1>3, <2>3 DEF Got
    <3>2. /\ taken' \in Seq(Frames) /\ Len(taken') = k + 1 /\ taken'[k + 1] = f
          /\ \A l \in 1..k : taken'[l] = taken[l]
      BY <1>5, <2>1, <3>1 DEF k
    <3>3. TakenInv'
      <4>1. ASSUME NEW l \in 1..(k + 1) PROVE taken'[l] = written[l]
        <5>1. l \in 1..k \/ l = k + 1
          BY <1>5 DEF k
        <5> QED BY <1>5, <3>2, <5>1 DEF f
      <4>2. k + 1 <= Len(written)
        BY <1>5, <2>1 DEF k
      <4> QED BY <1>1, <3>2, <4>1, <4>2 DEF TakenInv
    <3>4. EndOf(Len(taken))' = at + m
      BY <1>2, <2>1, <3>2
    <3>5. at' \in 0..here
      BY <1>4, <2>3, <3>1
    <3>6. at' = at + m \/ (ended /\ ~broken /\ at' = here /\ at' = at + m - 1)
      <4>1. CASE u = m
        BY <3>1, <4>1
      <4>2. CASE ended /\ ~broken /\ u = here - at /\ u = m - 1
        <5>1. at + (here - at) = here /\ at + (m - 1) = at + m - 1
          BY <1>4, <2>1
        <5> QED BY <3>1, <4>2, <5>1
      <4> QED BY <2>3, <4>1, <4>2
    <3>7. k + 1 # 0
      BY <1>5 DEF k
    <3>8. ReaderInv'
      <4>1. /\ here' \in 0..Len(wire') /\ at' \in 0..here'
            /\ ended' \in BOOLEAN /\ broken' \in BOOLEAN /\ (broken' => ended')
        BY <1>1, <1>4, <3>5 DEF StreamInv, ReaderInv
      <4>2. reader' = "reading"
        BY <3>1
      <4>3. \/ at' = EndOf(Len(taken))'
            \/ ended' /\ ~broken' /\ at' = here' /\ Len(taken') # 0 /\ at' = EndOf(Len(taken))' - 1
        <5>1. ended' = ended /\ broken' = broken /\ here' = here
          BY <1>1
        <5>2. Len(taken') # 0
          BY <3>2, <3>7
        <5>3. EndOf(Len(taken))' = at + m
          BY <3>4
        <5>4. CASE at' = at + m
          BY <5>3, <5>4
        <5>5. CASE ended /\ ~broken /\ at' = here /\ at' = at + m - 1
          <6>1. ended' /\ ~broken'
            BY <5>1, <5>5
          <6>2. at' = here'
            BY <5>1, <5>5
          <6>3. at' = EndOf(Len(taken))' - 1
            BY <1>4, <2>1, <5>3, <5>5
          <6> QED BY <5>2, <6>1, <6>2, <6>3
        <5> QED BY <3>6, <5>4, <5>5
      <4> QED BY <4>1, <4>2, <4>3 DEF ReaderInv
    <3> QED BY <1>2, <3>3, <3>8 DEF StreamInv
  <2>4. CASE here - at >= m
    BY <1>4, <2>1, <2>2, <2>3, <2>4
  <2>5. CASE here - at < m
    <3>1. ended
      BY <1>3, <2>2, <2>5 DEF Waiting
    <3>2. CASE ReadFrame = Got(f, here - at) /\ here - at = m - 1 /\ ~broken
      BY <1>4, <2>1, <2>3, <3>1, <3>2
    <3>3. CASE ReadFrame = Error
      <4>1. at' = here /\ taken' = taken /\ reader' = "failed"
        BY <1>3, <1>4, <2>1, <3>3 DEF Error
      <4>2. TakenInv'
        BY <1>1, <4>1 DEF StreamInv, TakenInv
      <4>3. Len(taken)' = k /\ Len(written)' = Len(written) /\ k < Len(written)
        BY <1>1, <1>5, <2>1, <4>1 DEF k
      <4>4. EndOf(k) < here /\ here < EndOf(k + 1)
        BY <1>4, <2>1, <2>5
      <4>5. ReaderInv'
        BY <1>1, <1>2, <1>4, <3>1, <4>1, <4>3, <4>4 DEF ReaderInv, StreamInv
      <4> QED BY <1>2, <4>2, <4>5 DEF StreamInv
    <3> QED BY <2>2, <2>5, <3>1, <3>2, <3>3
  <2> QED BY <1>4, <2>1, <2>4, <2>5
<1> QED BY <1>6, <1>7

LEMMA StreamIsInvariant == FramingSpec => []StreamInv
<1>1. ASSUME StreamInv, [FramingNext]_frameVars PROVE StreamInv'
  <2>1. CASE \E f \in Frames : Write(f)
    BY <1>1, <2>1, WriteStream
  <2>2. CASE Arrive \/ EndOfStream
    BY <1>1, <2>2, ArriveStream
  <2>3. CASE Read
    BY <1>1, <2>3, ReadStream
  <2>4. CASE UNCHANGED frameVars
    <3>1. UNCHANGED <<wire, here, at, ended, broken, written, ends, taken, reader>>
      BY <2>4 DEF frameVars
    <3>2. WireInv' /\ \A k : EndOf(k)' = EndOf(k)
      BY <1>1, <3>1, NotWritten DEF StreamInv
    <3>3. TakenInv' /\ ReaderInv'
      BY <1>1, <3>1, <3>2 DEF StreamInv, TakenInv, ReaderInv
    <3> QED BY <3>2, <3>3 DEF StreamInv
  <2> QED BY <1>1, <2>1, <2>2, <2>3, <2>4 DEF FramingNext
<1> QED BY <1>1, InitStream, PTL DEF FramingSpec
-----------------------------------------------------------------------------
(* What follows from it. *)

\* The reader returns the frames that were written, in order, and stops only
\* after the last that arrived whole: at the end of the stream, or with an error
\* inside the next.
THEOREM FramesAreReturned == FramingSpec => []FramesArrive
<1>1. ASSUME StreamInv PROVE FramesArrive
  <2> DEFINE k == Len(taken)
  <2>1. /\ Len(written) \in Nat /\ k \in 0..Len(written) /\ k \in Nat
        /\ \A l \in 0..Len(written) : EndOf(l) \in Nat
        /\ \A j, l \in 0..Len(written) : j <= l => EndOf(j) <= EndOf(l)
        /\ here \in Nat /\ at \in Nat
    <3>1. here \in Nat /\ at \in Nat
      BY <1>1, Ordered DEF StreamInv, ReaderInv
    <3>2. k \in Nat
      BY <1>1, Ordered
    <3> QED BY <1>1, <3>1, <3>2, Ordered
  <2>2. \A j, l \in 0..Len(written) : j < l => EndOf(j) < EndOf(l)
    BY <1>1 DEF StreamInv, WireInv
  <2>3. taken = SubSeq(written, 1, k)
    <3>1. /\ taken \in Seq(Frames) /\ written \in Seq(Frames)
          /\ \A l \in 1..k : taken[l] = written[l]
      BY <1>1 DEF StreamInv, WireInv, TakenInv
    <3>2. /\ SubSeq(written, 1, k) \in Seq(Frames) /\ Len(SubSeq(written, 1, k)) = k
          /\ \A l \in 1..k : SubSeq(written, 1, k)[l] = written[l]
      BY <2>1, <3>1
    <3> QED BY <3>1, <3>2, SeqEqual
  <2>4. ASSUME reader = "closed" PROVE ended /\ ~broken /\ Whole \subseteq 1..k
    <3>1. ended /\ ~broken /\ here <= EndOf(k)
      <4>1. ended /\ ~broken /\ at = here /\ (at = EndOf(k) \/ at = EndOf(k) - 1)
        BY <1>1, <2>4 DEF StreamInv, ReaderInv
      <4> QED BY <2>1, <4>1
    <3>2. ASSUME NEW l \in 1..Len(written), EndOf(l) <= here PROVE l \in 1..k
      <4>1. ~(k < l)
        BY <2>1, <2>2, <3>1, <3>2
      <4> QED BY <2>1, <4>1
    <3> QED BY <3>1, <3>2 DEF Whole
  <2>5. ASSUME reader = "failed"
        PROVE  ended /\ Whole = 1..k /\ (broken \/ here > EndOf(k))
    <3>1. /\ ended
          /\ \/ broken /\ here = EndOf(k)
             \/ EndOf(k) < here /\ here < EndOf(k + 1) /\ k + 1 \in 1..Len(written)
      BY <1>1, <2>1, <2>5 DEF StreamInv, ReaderInv
    <3>4. EndOf(k) <= here /\ \A l \in (k + 1)..Len(written) : here < EndOf(l)
      <4>1. ASSUME NEW l \in (k + 1)..Len(written) PROVE here < EndOf(l)
        <5>1. l \in 0..Len(written) /\ k < l /\ EndOf(k) < EndOf(l) /\ EndOf(l) \in Nat
          BY <2>1, <2>2
        <5>2. CASE here = EndOf(k)
          BY <5>1, <5>2
        <5>3. CASE here < EndOf(k + 1) /\ k + 1 \in 1..Len(written)
          <6>1. EndOf(k + 1) <= EndOf(l) /\ EndOf(k + 1) \in Nat
            BY <2>1, <5>1, <5>3
          <6> QED BY <2>1, <5>1, <5>3, <6>1
        <5> QED BY <3>1, <5>2, <5>3
      <4> QED BY <2>1, <3>1, <4>1
    <3>2. ASSUME NEW l \in 1..Len(written) PROVE EndOf(l) <= here <=> l \in 1..k
      <4>1. CASE l <= k
        <5>1. EndOf(l) <= EndOf(k) /\ EndOf(l) \in Nat /\ EndOf(k) \in Nat
          BY <2>1, <4>1
        <5> QED BY <2>1, <3>4, <4>1, <5>1
      <4>2. CASE k + 1 <= l
        <5>1. here < EndOf(l) /\ EndOf(l) \in Nat
          BY <2>1, <3>4, <4>2
        <5> QED BY <2>1, <4>2, <5>1
      <4> QED BY <2>1, <4>1, <4>2
    <3>3. \A l \in 1..k : l \in 1..Len(written)
      BY <2>1
    <3> QED BY <2>1, <3>1, <3>2, <3>3 DEF Whole
  <2> QED BY <2>1, <2>3, <2>4, <2>5 DEF FramesArrive
<1> QED BY <1>1, StreamIsInvariant, PTL

\* No call waits for bytes it does not need.
THEOREM NoVainWait == FramingSpec => []NeverWaitsInVain
<1>1. ASSUME StreamInv PROVE NeverWaitsInVain
  <2> SUFFICES ASSUME reader = "reading", ended \/ Len(taken) + 1 \in Whole
               PROVE  ReadFrame.result # "wait"
    BY DEF NeverWaitsInVain
  <2> DEFINE k == Len(taken)
             f == written[k + 1]
             m == Len(Encode(f))
  <2>1. /\ here \in Nat /\ at \in Nat /\ k \in Nat /\ Len(written) \in Nat
        /\ \A l \in 0..Len(written) : EndOf(l) \in Nat
    BY <1>1, Ordered DEF StreamInv, ReaderInv
  <2>2. CASE at = here /\ ReadFrame = IF broken THEN Error ELSE IF ended THEN Nothing(0) ELSE Waiting
    <3>1. ended
      <4>1. ASSUME ~ended PROVE k + 1 \notin Whole
        <5>1. here = EndOf(k) /\ k \in 0..Len(written)
          BY <1>1, <2>2, <4>1, Ordered DEF StreamInv, ReaderInv
        <5>2. k + 1 \in 1..Len(written) => EndOf(k) < EndOf(k + 1)
          BY <1>1, <2>1, <5>1 DEF StreamInv, WireInv
        <5>3. k + 1 \in 1..Len(written) => ~(EndOf(k + 1) <= here)
          BY <2>1, <5>1, <5>2
        <5> QED BY <5>3 DEF Whole
      <4> QED BY <4>1
    <3> QED BY <2>2, <3>1 DEF Nothing, Error
  <2>3. CASE /\ at < here /\ at = EndOf(k) /\ k + 1 \in 1..Len(written)
             /\ f \in Frames /\ Len(input) = here - at
             /\ m \in Nat \ {0} /\ EndOf(k + 1) = EndOf(k) + m
             /\ TakenOf(f)
    <3>1. k + 1 \in Whole => here - at >= m
      BY <2>1, <2>3 DEF Whole
    <3>2. here - at >= m => ReadFrame = Got(f, m)
      BY <2>3 DEF TakenOf
    <3>3. here - at < m /\ ended => ReadFrame = Error \/ ReadFrame = Got(f, here - at)
      BY <2>3 DEF TakenOf
    <3>4. here - at >= m \/ here - at < m
      BY <2>1, <2>3
    <3> QED BY <3>1, <3>2, <3>3, <3>4 DEF Got, Error
  <2> QED BY <1>1, <2>2, <2>3, Outcome
<1> QED BY <1>1, StreamIsInvariant, PTL

\* The lengths and bytes the runs look at are lengths and bytes.
THEOREM LengthsAreUndone == FramingSpec => []LengthsUndone
<1>1. ASSUME StreamInv PROVE LengthsUndone
  <2>1. wire \in Seq(Byte)
    BY <1>1 DEF StreamInv, WireInv
  <2>2. BoundaryLengths \subseteq Lengths
    <3>1. \A n \in BoundaryLengths : n \in Nat /\ n <= MaxPayloadLen
      BY SMT DEF BoundaryLengths, MaxPayloadLen
    <3> QED BY <3>1, LengthBounds DEF Lengths
  <2>3. \A n \in BoundaryLengths : UndoneFor(n, wire)
    BY <2>1, <2>2, DecodingUndoes
  <2>4. BoundaryDigits \subseteq Byte
    BY DEF BoundaryDigits, Byte
  <2>5. ASSUME NEW n \in 0..5, NEW bytes \in [1..n -> BoundaryDigits] PROVE AgreeOn(bytes)
    <3>1. bytes \in [1..n -> Byte]
      BY <2>4
    <3>2. bytes \in Seq(Byte)
      BY <3>1, FiniteSeq
    <3> QED BY <3>2, DecodersAgree
  <2> QED BY <2>3, <2>5 DEF LengthsUndone
<1> QED BY <1>1, StreamIsInvariant, PTL
=============================================================================
