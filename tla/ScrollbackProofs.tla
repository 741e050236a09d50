-------------------------- MODULE ScrollbackProofs --------------------------
(***************************************************************************)
(* Proofs about Scrollback, for any bounds: after every append the ring is *)
(* the longest run of the newest reads that fits, and a replay is its      *)
(* newest bytes.                                                           *)
(*                                                                         *)
(* Reads are told apart by their position in the output, and so are bytes, *)
(* so the invariant is about three positions: where the ring begins, where *)
(* the loop that runs has come to, and where the output ends (KeptInv,     *)
(* LoopInv).  A loop's total is the distance from the second to the third, *)
(* except that a replay does not count beyond what was asked for.          *)
(***************************************************************************)
EXTENDS Scrollback, SequenceTheorems, TLAPS

(* The inductive invariant. *)

\* Every read returned something, and the ring holds the last of them; the one
\* before does not fit.
KeptInv ==
  LET n == Len(printed)
      kept == Len(ring)
  IN  /\ limit \in Nat /\ replay \in Nat
      /\ printed \in Seq(Nat) /\ ring \in Seq(Seq(Nat))
      /\ \A j, k \in 0..n : j < k => PrintedBy(j) < PrintedBy(k)
      /\ kept <= n
      /\ \A i \in 1..kept : ring[i] = Chunk((n - kept) + i)
      /\ kept < n => Printed > limit + PrintedBy((n - kept) - 1)

\* The bytes of the reads the running loop has looked at: those after the first
\* round chunks of the ring.
Seen == Printed - PrintedBy((Len(printed) - Len(ring)) + round)

Least(m, n) == IF m < n THEN m ELSE n

\* Where the loops are.  Between two calls the ring fits.
LoopInv ==
  /\ call \in {"idle", "sum", "drop", "select", "given"}
  /\ round \in 0..Len(ring) /\ total \in Nat /\ selected \in Seq(Seq(Nat))
  /\ call \in {"idle", "sum", "drop"} => selected = <<>>
  /\ call = "idle" => round = 0 /\ total = 0
  /\ call = "sum" => total = Seen
  /\ call = "drop" => round = 0 /\ total = Seen
  /\ call \in {"idle", "select", "given"} => Printed - Before <= limit
  /\ call = "select" => replay > 0 /\ total = Least(replay, Seen) /\ Hold(selected, Printed - total, Printed)
  /\ call = "given" => Hold(selected, Printed - Least(replay, Printed - Before), Printed)

RingInv == KeptInv /\ LoopInv
-----------------------------------------------------------------------------
(* Reads and chunks. *)

LEMMA Positions ==
  ASSUME KeptInv
  PROVE  /\ Len(printed) \in Nat /\ Len(ring) \in 0..Len(printed) /\ Len(ring) \in Nat
         /\ Printed \in Nat /\ Before \in Nat /\ Before <= Printed
         /\ \A k \in 0..Len(printed) : PrintedBy(k) \in Nat /\ PrintedBy(k) <= Printed
         /\ \A j, k \in 0..Len(printed) : j <= k => PrintedBy(j) <= PrintedBy(k)
<1> DEFINE n == Len(printed)
<1>1. n \in Nat /\ Len(ring) \in 0..n /\ Len(ring) \in Nat /\ n - Len(ring) \in 0..n /\ n \in 0..n
  BY DEF KeptInv
<1>2. ASSUME NEW k \in 0..n PROVE PrintedBy(k) \in Nat
  <2>1. k = 0 \/ k \in 1..n
    BY <1>1
  <2>2. k \in 1..n => printed[k] \in Nat
    BY ElementOfSeq DEF KeptInv
  <2> QED BY <2>1, <2>2 DEF PrintedBy
<1>3. ASSUME NEW j \in 0..n, NEW k \in 0..n, j <= k PROVE PrintedBy(j) <= PrintedBy(k)
  <2>1. j = k \/ j < k
    BY <1>1, <1>3
  <2>2. j < k => PrintedBy(j) < PrintedBy(k)
    BY DEF KeptInv
  <2> QED BY <1>2, <2>1, <2>2
<1> HIDE DEF n
<1>4. \A k \in 0..n : k <= n
  BY <1>1
<1>5. Printed = PrintedBy(n) /\ Before = PrintedBy(n - Len(ring))
  BY DEF Printed, Before, n
<1> QED BY <1>1, <1>2, <1>3, <1>4, <1>5 DEF n

\* A run of bytes is a sequence of them.
LEMMA Run ==
  ASSUME NEW a \in Nat, NEW l \in Nat
  PROVE  LET c == [i \in 1..l |-> a + i]
         IN  c \in Seq(Nat) /\ Len(c) = l /\ \A i \in 1..l : c[i] = a + i
<1>1. \A i \in 1..l : a + i \in Nat
  OBVIOUS
<1>2. [i \in 1..l |-> a + i] \in [1..l -> Nat]
  BY <1>1
<1> QED BY <1>2

\* The i-th chunk of the ring.
LEMMA ChunkOfRing ==
  ASSUME KeptInv, NEW i \in 1..Len(ring)
  PROVE  LET m == (Len(printed) - Len(ring)) + i
             l == Len(ring[i])
         IN  /\ m \in 1..Len(printed) /\ m - 1 \in 0..Len(printed)
             /\ m - 1 = (Len(printed) - Len(ring)) + (i - 1)
             /\ ring[i] \in Seq(Nat) /\ l \in Nat \ {0}
             /\ PrintedBy(m - 1) \in Nat /\ PrintedBy(m) = PrintedBy(m - 1) + l
             /\ \A j \in 1..l : ring[i][j] = PrintedBy(m - 1) + j
<1> DEFINE n == Len(printed)
           m == (n - Len(ring)) + i
           a == PrintedBy(m - 1)
           b == PrintedBy(m)
<1>1. /\ m \in 1..n /\ m - 1 \in 0..n /\ m - 1 < m /\ m \in 0..n
      /\ m - 1 = (n - Len(ring)) + (i - 1)
  BY Positions
<1>2. ring[i] = Chunk(m)
  BY DEF KeptInv
<1> HIDE DEF m
<1>3. a \in Nat /\ b \in Nat /\ a < b
  <2>1. a < b
    BY <1>1 DEF KeptInv
  <2> QED BY <1>1, <2>1, Positions
<1>4. ring[i] = [j \in 1..(b - a) |-> a + j]
  BY <1>2 DEF Chunk
<1> HIDE DEF a, b
<1>5. b - a \in Nat \ {0} /\ b = a + (b - a)
  BY <1>3
<1>6. ring[i] \in Seq(Nat) /\ Len(ring[i]) = b - a /\ \A j \in 1..(b - a) : ring[i][j] = a + j
  BY <1>3, <1>4, <1>5, Run
<1> QED BY <1>1, <1>3, <1>5, <1>6 DEF a, b, m

LEMMA Prepended ==
  ASSUME NEW S, NEW x \in S, NEW s \in Seq(S)
  PROVE  LET t == <<x>> \o s
         IN  /\ t \in Seq(S) /\ Len(t) = Len(s) + 1 /\ t[1] = x
             /\ \A i \in 2..(Len(s) + 1) : t[i] = s[i - 1]
<1>1. <<x>> \in Seq(S) /\ Len(<<x>>) = 1 /\ <<x>>[1] = x /\ Len(s) \in Nat
  OBVIOUS
<1>2. /\ <<x>> \o s \in Seq(S) /\ Len(<<x>> \o s) = 1 + Len(s)
      /\ \A i \in 1..(1 + Len(s)) :
           (<<x>> \o s)[i] = IF i <= 1 THEN <<x>>[i] ELSE s[i - 1]
  BY <1>1, ConcatProperties
<1>3. ASSUME NEW i \in 2..(Len(s) + 1) PROVE (<<x>> \o s)[i] = s[i - 1]
  <2>1. i \in 1..(1 + Len(s)) /\ ~(i <= 1)
    BY <1>1
  <2> QED BY <1>2, <2>1
<1>4. 1 \in 1..(1 + Len(s))
  BY <1>1
<1> QED BY <1>1, <1>2, <1>3, <1>4

\* A run in front of chunks that go on where it ends.
LEMMA HoldMore ==
  ASSUME NEW s \in Seq(Seq(Nat)), NEW a \in Nat, NEW l \in Nat \ {0}, NEW c \in Nat,
         NEW chunk \in Seq(Nat), Len(chunk) = l, \A j \in 1..l : chunk[j] = a + j,
         Hold(s, a + l, c)
  PROVE  <<chunk>> \o s \in Seq(Seq(Nat)) /\ Hold(<<chunk>> \o s, a, c)
<1> DEFINE t == <<chunk>> \o s
           n == Len(s)
<1>1. n \in Nat
  OBVIOUS
<1>2. t \in Seq(Seq(Nat)) /\ Len(t) = n + 1 /\ t[1] = chunk /\ \A i \in 2..(n + 1) : t[i] = s[i - 1]
  BY Prepended
<1> HIDE DEF t
<1>3. /\ n = 0 => a + l = c
      /\ \A i \in 1..n : s[i] # <<>>
      /\ n > 0 => s[1][1] = (a + l) + 1 /\ s[n][Len(s[n])] = c
      /\ \A i \in 1..n : \A j \in 1..Len(s[i]) : s[i][j] = s[i][1] + j - 1
      /\ \A i \in 2..n : s[i][1] = s[i - 1][Len(s[i - 1])] + 1
  BY DEF Hold
<1> HIDE DEF n
<1>4. chunk # <<>> /\ chunk[1] = a + 1 /\ chunk[l] = a + l
  <2>1. 1 \in 1..l /\ l \in 1..l
    OBVIOUS
  <2> QED BY <2>1
<1>5. \A i \in 1..(n + 1) : i = 1 \/ (i \in 2..(n + 1) /\ i - 1 \in 1..n)
  BY <1>1
<1>6. \A i \in 1..(n + 1) : t[i] # <<>>
  BY <1>2, <1>3, <1>4, <1>5
<1>7. t[1][1] = a + 1
  BY <1>2, <1>4
<1>8. t[n + 1][Len(t[n + 1])] = c
  <2>1. CASE n = 0
    BY <1>2, <1>3, <1>4, <2>1
  <2>2. CASE n > 0
    <3>1. n + 1 \in 2..(n + 1) /\ (n + 1) - 1 = n
      BY <1>1, <2>2
    <3>2. t[n + 1] = s[n]
      BY <1>2, <3>1
    <3> QED BY <1>3, <2>2, <3>2
  <2> QED BY <1>1, <2>1, <2>2
<1>9. ASSUME NEW i \in 1..(n + 1), NEW j \in 1..Len(t[i]) PROVE t[i][j] = t[i][1] + j - 1
  <2>1. CASE i = 1
    <3>1. j \in 1..l /\ t[i][j] = a + j /\ t[i][1] = a + 1
      BY <1>2, <1>4, <2>1
    <3>2. a + j = (a + 1) + j - 1
      BY <3>1
    <3> QED BY <3>1, <3>2
  <2>2. CASE i \in 2..(n + 1) /\ i - 1 \in 1..n
    <3>1. t[i] = s[i - 1]
      BY <1>2, <2>2
    <3> QED BY <1>3, <2>2, <3>1
  <2> QED BY <1>5, <2>1, <2>2
<1>10. ASSUME NEW i \in 2..(n + 1) PROVE t[i][1] = t[i - 1][Len(t[i - 1])] + 1
  <2>1. t[i] = s[i - 1] /\ i - 1 \in 1..n
    BY <1>1, <1>2
  <2>2. CASE i = 2
    <3>1. n > 0 /\ t[i] = s[1] /\ t[i - 1] = chunk
      BY <1>1, <1>2, <2>1, <2>2
    <3> QED BY <1>3, <1>4, <3>1
  <2>3. CASE i # 2
    <3>1. i - 1 \in 2..n /\ i - 1 \in 2..(n + 1)
      BY <1>1, <2>3
    <3>2. t[i - 1] = s[(i - 1) - 1]
      BY <1>2, <3>1
    <3> QED BY <1>3, <2>1, <3>1, <3>2
  <2> QED BY <2>2, <2>3
<1>11. Hold(t, a, c)
  <2>1. Len(t) # 0
    BY <1>1, <1>2
  <2> QED BY <1>2, <1>6, <1>7, <1>8, <1>9, <1>10, <2>1 DEF Hold
<1> QED BY <1>2, <1>11 DEF t

\* Nothing holds nothing.
LEMMA HoldNone ==
  ASSUME NEW c
  PROVE  Hold(<<>>, c, c)
BY DEF Hold
-----------------------------------------------------------------------------
(* Initially, and step by step. *)

LEMMA InitRing == RingInit => RingInv
<1> SUFFICES ASSUME RingInit PROVE RingInv
  OBVIOUS
<1>1. /\ Len(printed) = 0 /\ Len(ring) = 0 /\ limit \in Nat /\ replay \in Nat
      /\ printed \in Seq(Nat) /\ ring \in Seq(Seq(Nat)) /\ selected \in Seq(Seq(Nat))
      /\ call = "idle" /\ round = 0 /\ total = 0 /\ selected = <<>>
  BY ScrollbackAssumption DEF RingInit
<1>2. KeptInv
  BY <1>1 DEF KeptInv
<1>3. Printed - Before <= limit
  <2>1. Printed = 0 /\ Before = 0
    BY <1>1 DEF Printed, Before, PrintedBy
  <2> QED BY <1>1, <2>1
<1>4. LoopInv
  BY <1>1, <1>3 DEF LoopInv
<1> QED BY <1>2, <1>4 DEF RingInv

\* A read is longer than nothing, so what did not fit before still does not.
LEMMA ReadRing ==
  ASSUME RingInv, ReadPty
  PROVE  RingInv'
<1> DEFINE n == Len(printed)
           kept == Len(ring)
           before == PrintedBy(n)
           By(k) == IF k = 0 THEN 0 ELSE printed'[k]
<1>1. /\ n \in Nat /\ kept \in 0..n /\ kept \in Nat /\ before \in Nat
      /\ \A k \in 0..n : PrintedBy(k) \in Nat /\ PrintedBy(k) <= before
  BY Positions DEF RingInv, Printed
<1>2. PICK l \in 1..MaxRead : /\ printed' = Append(printed, before + l)
                              /\ ring' = Append(ring, [i \in 1..l |-> before + i])
  BY DEF ReadPty
<1>3. l \in Nat \ {0} /\ before + l \in Nat
  BY <1>1, ScrollbackAssumption
<1>4. /\ call = "idle" /\ call' = "sum" /\ round' = Len(ring') /\ limit' = limit /\ replay' = replay
      /\ total' = total /\ selected' = selected /\ total = 0 /\ selected = <<>>
      /\ limit \in Nat /\ replay \in Nat /\ printed \in Seq(Nat) /\ ring \in Seq(Seq(Nat))
      /\ selected \in Seq(Seq(Nat))
  BY DEF ReadPty, RingInv, LoopInv, KeptInv
<1> DEFINE chunk == [i \in 1..l |-> before + i]
<1>5. chunk \in Seq(Nat)
  BY <1>1, <1>3, Run
<1> HIDE DEF before, n, kept, chunk
<1>6. /\ printed' \in Seq(Nat) /\ Len(printed') = n + 1 /\ printed'[n + 1] = before + l
      /\ \A k \in 1..n : printed'[k] = printed[k]
  BY <1>2, <1>3, <1>4 DEF n
<1>7. /\ ring' \in Seq(Seq(Nat)) /\ Len(ring') = kept + 1 /\ ring'[kept + 1] = chunk
      /\ \A i \in 1..kept : ring'[i] = ring[i]
  BY <1>2, <1>4, <1>5 DEF kept, chunk
<1>8. (\A k \in 0..n : By(k) = PrintedBy(k)) /\ By(n + 1) = before + l
  <2>1. ASSUME NEW k \in 0..n PROVE By(k) = PrintedBy(k)
    <3>1. k = 0 \/ k \in 1..n
      BY <1>1
    <3> QED BY <1>6, <3>1 DEF PrintedBy
  <2>2. n + 1 # 0
    BY <1>1
  <2> QED BY <1>6, <2>1, <2>2
<1> HIDE DEF By
<1>9. (n + 1) - (kept + 1) = n - kept /\ n - kept \in 0..n
  BY <1>1
<1>10. ASSUME NEW j \in 0..(n + 1), NEW k \in 0..(n + 1), j < k PROVE By(j) < By(k)
  <2>1. j \in 0..n
    BY <1>1, <1>10
  <2>2. CASE k \in 0..n
    <3>1. PrintedBy(j) < PrintedBy(k)
      BY <1>10, <2>1, <2>2 DEF RingInv, KeptInv, n
    <3> QED BY <1>8, <2>1, <2>2, <3>1
  <2>3. CASE k = n + 1
    <3>1. By(j) \in Nat /\ By(j) <= before /\ By(k) = before + l
      BY <1>1, <1>8, <2>1, <2>3
    <3> QED BY <1>1, <1>3, <3>1
  <2> QED BY <1>1, <2>2, <2>3
<1>11. ASSUME NEW i \in 1..(kept + 1)
       PROVE  LET m == (n - kept) + i
              IN  ring'[i] = [j \in 1..(By(m) - By(m - 1)) |-> By(m - 1) + j]
  <2> DEFINE m == (n - kept) + i
  <2>1. CASE i \in 1..kept
    <3>1. m \in 0..n /\ m - 1 \in 0..n
      BY <1>1, <2>1
    <3>2. ring[i] = Chunk(m)
      BY <2>1 DEF RingInv, KeptInv, n, kept
    <3>3. By(m) = PrintedBy(m) /\ By(m - 1) = PrintedBy(m - 1)
      BY <1>8, <3>1
    <3> HIDE DEF m
    <3>4. ring'[i] = [j \in 1..(By(m) - By(m - 1)) |-> By(m - 1) + j]
      BY <1>7, <2>1, <3>2, <3>3 DEF Chunk
    <3> QED BY <3>4 DEF m
  <2>2. CASE i = kept + 1
    <3>1. m = n + 1 /\ m - 1 = n /\ n \in 0..n
      BY <1>1, <2>2
    <3>2. By(m) = before + l /\ By(m - 1) = before
      BY <1>8, <3>1 DEF before
    <3> HIDE DEF m
    <3>3. By(m) - By(m - 1) = l
      BY <1>1, <1>3, <3>2
    <3>4. ring'[i] = [j \in 1..(By(m) - By(m - 1)) |-> By(m - 1) + j]
      BY <1>7, <2>2, <3>2, <3>3 DEF chunk
    <3> QED BY <3>4 DEF m
  <2> QED BY <1>1, <2>1, <2>2
<1>12. ASSUME kept + 1 < n + 1 PROVE By(n + 1) > limit + By((n - kept) - 1)
  <2>1. kept < n /\ (n - kept) - 1 \in 0..n
    BY <1>1, <1>12
  <2>2. before > limit + PrintedBy((n - kept) - 1) /\ PrintedBy((n - kept) - 1) \in Nat
    BY <1>1, <2>1 DEF RingInv, KeptInv, Printed, before, n, kept
  <2>3. By((n - kept) - 1) = PrintedBy((n - kept) - 1) /\ By(n + 1) = before + l
    BY <1>8, <2>1
  <2> DEFINE p == PrintedBy((n - kept) - 1)
  <2>4. p \in Nat /\ before > limit + p /\ By((n - kept) - 1) = p
    BY <2>2, <2>3
  <2> HIDE DEF p
  <2>5. before + l > limit + p
    BY <1>1, <1>3, <1>4, <2>4
  <2> QED BY <2>3, <2>4, <2>5
<1>13. \A k : PrintedBy(k)' = By(k)
  BY DEF PrintedBy, By
<1>14. Printed' = By(n + 1)
  BY <1>6, <1>13 DEF Printed
<1>15. KeptInv'
  <2>1. Len(ring)' <= Len(printed)'
    BY <1>1, <1>6, <1>7
  <2>2. Len(printed)' - Len(ring)' = n - kept
    BY <1>6, <1>7, <1>9
  <2>3. \A k : Chunk(k)' = [j \in 1..(By(k) - By(k - 1)) |-> By(k - 1) + j]
    BY DEF Chunk, PrintedBy, By
  <2>4. \A i \in 1..Len(ring)' : ring'[i] = Chunk((Len(printed) - Len(ring)) + i)'
    BY <1>7, <1>11, <2>2, <2>3
  <2>5. \A j, k \in 0..Len(printed)' : j < k => PrintedBy(j)' < PrintedBy(k)'
    BY <1>6, <1>10, <1>13
  <2>6. Len(ring)' < Len(printed)' =>
          Printed' > limit' + PrintedBy((Len(printed) - Len(ring)) - 1)'
    BY <1>4, <1>6, <1>7, <1>12, <1>13, <1>14, <2>2
  <2> QED BY <1>4, <1>6, <1>7, <2>1, <2>4, <2>5, <2>6 DEF KeptInv
<1>16. Seen' = 0
  <2>1. (Len(printed)' - Len(ring)') + round' = n + 1
    BY <1>1, <1>4, <1>6, <1>7
  <2>2. By(n + 1) - By(n + 1) = 0
    BY <1>3, <1>8
  <2> QED BY <1>13, <1>14, <2>1, <2>2 DEF Seen
<1>17. LoopInv'
  <2>1. round' \in 0..Len(ring)'
    BY <1>1, <1>4, <1>7
  <2> QED BY <1>4, <1>16, <2>1 DEF LoopInv
<1> QED BY <1>15, <1>17 DEF RingInv

\* Only a read adds to what was printed.
LEMMA NotPrinted ==
  ASSUME Unchanged
  PROVE  /\ limit' = limit /\ replay' = replay /\ printed' = printed
         /\ (\A k : PrintedBy(k)' = PrintedBy(k)) /\ Printed' = Printed
         /\ ring' = ring => (KeptInv => KeptInv') /\ Before' = Before
<1>1. limit' = limit /\ replay' = replay /\ printed' = printed
  BY DEF Unchanged
<1>2. \A k : PrintedBy(k)' = PrintedBy(k)
  BY <1>1 DEF PrintedBy
<1>3. Printed' = Printed
  BY <1>1 DEF Printed, PrintedBy
<1>4. ring' = ring => (KeptInv => KeptInv') /\ Before' = Before
  BY <1>1 DEF KeptInv, Chunk, Before, Printed, PrintedBy
<1> QED BY <1>1, <1>2, <1>3, <1>4

\* A loop goes from one chunk to the next older one.
LEMMA SeenMore ==
  ASSUME RingInv, round > 0
  PROVE  LET m == (Len(printed) - Len(ring)) + round
             l == Len(ring[round])
         IN  /\ round \in 1..Len(ring) /\ round - 1 \in 0..Len(ring)
             /\ l \in Nat \ {0} /\ ring[round] \in Seq(Nat)
             /\ Seen \in Nat /\ Seen = Printed - PrintedBy(m)
             /\ m - 1 = (Len(printed) - Len(ring)) + (round - 1)
             /\ Printed - PrintedBy(m - 1) = Seen + l /\ Seen + l <= Printed
             /\ PrintedBy(m - 1) \in Nat /\ PrintedBy(m) = PrintedBy(m - 1) + l
             /\ \A j \in 1..l : ring[round][j] = PrintedBy(m - 1) + j
<1> DEFINE m == (Len(printed) - Len(ring)) + round
           l == Len(ring[round])
<1>1. KeptInv /\ round \in 0..Len(ring) /\ Len(ring) \in Nat /\ Printed \in Nat
  BY Positions DEF RingInv, LoopInv
<1>2. round \in 1..Len(ring) /\ round - 1 \in 0..Len(ring)
  BY <1>1
<1>3. /\ m \in 1..Len(printed) /\ m - 1 \in 0..Len(printed)
      /\ m - 1 = (Len(printed) - Len(ring)) + (round - 1)
      /\ ring[round] \in Seq(Nat) /\ l \in Nat \ {0}
      /\ PrintedBy(m - 1) \in Nat /\ PrintedBy(m) = PrintedBy(m - 1) + l
      /\ \A j \in 1..l : ring[round][j] = PrintedBy(m - 1) + j
  BY <1>1, <1>2, ChunkOfRing
<1>4. Seen = Printed - PrintedBy(m)
  BY DEF Seen
<1> HIDE DEF m, l
<1>5. m \in 0..Len(printed) /\ PrintedBy(m) <= Printed /\ PrintedBy(m) \in Nat
  <2>1. m \in 0..Len(printed)
    BY <1>3
  <2> QED BY <1>1, <2>1, Positions
<1>6. Seen \in Nat /\ Printed - PrintedBy(m - 1) = Seen + l /\ Seen + l <= Printed
  <2> DEFINE p == Printed
             q == PrintedBy(m)
             r == PrintedBy(m - 1)
             s == Seen
  <2>1. p \in Nat /\ q \in Nat /\ r \in Nat /\ l \in Nat /\ q <= p /\ q = r + l /\ s = p - q
    BY <1>1, <1>3, <1>4, <1>5
  <2> HIDE DEF p, q, r, s
  <2>2. s \in Nat /\ p - r = s + l /\ s + l <= p
    BY ONLY <2>1
  <2> QED BY <2>2 DEF p, r, s
<1> QED BY <1>2, <1>3, <1>4, <1>6 DEF m, l

LEMMA SumRing ==
  ASSUME RingInv, SumUp
  PROVE  RingInv'
<1>1. /\ Unchanged /\ ring' = ring /\ selected' = selected /\ call = "sum"
      /\ KeptInv /\ round \in 0..Len(ring) /\ Len(ring) \in Nat /\ total \in Nat /\ total = Seen
      /\ selected \in Seq(Seq(Nat)) /\ selected = <<>>
  <2>1. Unchanged /\ ring' = ring /\ selected' = selected /\ call = "sum"
    BY DEF SumUp
  <2> QED BY <2>1, Positions DEF RingInv, LoopInv
<1>2. KeptInv' /\ printed' = printed /\ (\A k : PrintedBy(k)' = PrintedBy(k)) /\ Printed' = Printed
  BY <1>1, NotPrinted
<1>3. CASE round > 0
  <2> DEFINE l == Len(ring[round])
  <2>1. total' = total + l /\ round' = round - 1 /\ call' = call
    BY <1>3 DEF SumUp
  <2>2. /\ l \in Nat \ {0} /\ round - 1 \in 0..Len(ring)
        /\ Printed - PrintedBy((Len(printed) - Len(ring)) + (round - 1)) = Seen + l
    BY <1>3, SeenMore
  <2> HIDE DEF l
  <2>3. Seen' = Seen + l
    BY <1>1, <1>2, <2>1, <2>2 DEF Seen
  <2>4. total' \in Nat /\ total' = Seen' /\ round' \in 0..Len(ring)'
    BY <1>1, <2>1, <2>2, <2>3
  <2>5. LoopInv'
    BY <1>1, <2>1, <2>4 DEF LoopInv
  <2> QED BY <1>2, <2>5 DEF RingInv
<1>4. CASE ~(round > 0)
  <2>1. call' = "drop" /\ total' = total /\ round' = round /\ round = 0
    BY <1>1, <1>4 DEF SumUp
  <2>2. Seen' = Seen
    BY <1>1, <1>2, <2>1 DEF Seen
  <2>3. LoopInv'
    BY <1>1, <2>1, <2>2 DEF LoopInv
  <2> QED BY <1>2, <2>3 DEF RingInv
<1> QED BY <1>3, <1>4

\* A chunk is dropped only while the ring with it does not fit.
LEMMA DropRing ==
  ASSUME RingInv, DropOldest
  PROVE  RingInv'
<1> DEFINE n == Len(printed)
           kept == Len(ring)
<1>1. /\ Unchanged /\ round' = round /\ selected' = selected /\ call = "drop"
      /\ KeptInv /\ round = 0 /\ total \in Nat /\ total = Seen
      /\ selected \in Seq(Seq(Nat)) /\ selected = <<>>
      /\ limit \in Nat /\ replay \in Nat /\ printed \in Seq(Nat) /\ ring \in Seq(Seq(Nat))
  <2>1. Unchanged /\ round' = round /\ selected' = selected /\ call = "drop"
    BY DEF DropOldest
  <2> QED BY <2>1 DEF RingInv, LoopInv, KeptInv
<1>2. /\ limit' = limit /\ replay' = replay /\ printed' = printed
      /\ (\A k : PrintedBy(k)' = PrintedBy(k)) /\ Printed' = Printed
  BY <1>1, NotPrinted
<1>3. /\ n \in Nat /\ kept \in 0..n /\ kept \in Nat /\ Printed \in Nat
      /\ \A k \in 0..n : PrintedBy(k) \in Nat /\ PrintedBy(k) <= Printed
  BY <1>1, Positions
<1>4. total = Printed - PrintedBy(n - kept) /\ n - kept \in 0..n
  <2>1. (n - kept) + round = n - kept
    BY <1>1, <1>3
  <2>2. n - kept \in 0..n
    BY <1>3
  <2> QED BY <1>1, <2>1, <2>2 DEF Seen
<1>5. CASE total > limit /\ ring # <<>>
  <2>1. ring' = Tail(ring) /\ total' = total - Len(Head(ring)) /\ call' = call
    BY <1>5 DEF DropOldest
  <2>2. 1 \in 1..kept
    BY <1>1, <1>3, <1>5
  <2> DEFINE m == (n - kept) + 1
             l == Len(ring[1])
  <2>3. /\ m \in 1..n /\ l \in Nat \ {0} /\ m - 1 = n - kept
        /\ PrintedBy(m) = PrintedBy(n - kept) + l
    <3>1. m - 1 = n - kept
      BY <1>3
    <3>2. m \in 1..n /\ l \in Nat \ {0} /\ PrintedBy(m) = PrintedBy(m - 1) + l
      BY <1>1, <2>2, ChunkOfRing
    <3> QED BY <3>1, <3>2
  <2>4. /\ ring' \in Seq(Seq(Nat)) /\ Len(ring') = kept - 1 /\ Head(ring) = ring[1]
        /\ \A i \in 1..(kept - 1) : ring'[i] = ring[i + 1]
    BY <1>1, <1>5, <2>1, HeadTailProperties
  <2> HIDE DEF n, kept, m, l
  <2>5. n - (kept - 1) = m /\ kept - 1 \in 0..n
    BY <1>3, <2>2 DEF m
  <2>6. PrintedBy(m) \in Nat /\ PrintedBy(m) <= Printed /\ PrintedBy(n - kept) \in Nat
    <3>1. m \in 0..n
      BY <2>3
    <3> QED BY <1>3, <1>4, <3>1
  <2>7. total' = Printed - PrintedBy(m) /\ total' \in Nat
    <3> DEFINE p == Printed
               q == PrintedBy(m)
               r == PrintedBy(n - kept)
    <3>1. p \in Nat /\ q \in Nat /\ r \in Nat /\ q <= p /\ q = r + l /\ total = p - r /\ l \in Nat
      BY <1>3, <1>4, <2>3, <2>6
    <3>2. total' = total - l
      BY <2>1, <2>4 DEF l
    <3> HIDE DEF p, q, r
    <3>3. total' = p - q /\ total' \in Nat
      BY ONLY <3>1, <3>2
    <3> QED BY <3>3 DEF p, q
  <2>8. Seen' = total'
    <3>1. (n - (kept - 1)) + 0 = m
      BY <1>3, <2>3, <2>5
    <3> QED BY <1>1, <1>2, <2>4, <2>7, <3>1 DEF Seen, n
  <2>9. Printed > limit + PrintedBy(m - 1)
    <3> DEFINE p == Printed
               r == PrintedBy(n - kept)
    <3>1. p \in Nat /\ r \in Nat /\ total = p - r
      BY <1>3, <1>4, <2>6
    <3> HIDE DEF p, r
    <3>2. p > limit + r
      BY <1>1, <1>5, <3>1
    <3> QED BY <2>3, <3>2 DEF p, r
  <2>10. KeptInv'
    <3>1. \A i \in 1..Len(ring)' : ring'[i] = Chunk((Len(printed) - Len(ring)) + i)'
      <4>1. ASSUME NEW i \in 1..(kept - 1) PROVE ring'[i] = Chunk(m + i)
        <5>1. i + 1 \in 1..kept /\ (n - kept) + (i + 1) = m + i
          BY <1>3 DEF m
        <5>2. ring[i + 1] = Chunk((n - kept) + (i + 1))
          BY <1>1, <5>1 DEF KeptInv, n, kept
        <5> QED BY <2>4, <5>1, <5>2
      <4>2. \A k : Chunk(k)' = Chunk(k)
        BY <1>2 DEF Chunk, PrintedBy
      <4>3. Len(printed)' - Len(ring)' = m /\ Len(ring)' = kept - 1
        BY <1>2, <2>4, <2>5 DEF n
      <4> QED BY <4>1, <4>2, <4>3
    <3>2. \A j, k \in 0..Len(printed)' : j < k => PrintedBy(j)' < PrintedBy(k)'
      BY <1>1, <1>2 DEF KeptInv
    <3>3. Printed' > limit' + PrintedBy((Len(printed) - Len(ring)) - 1)'
      <4>1. Len(printed)' - Len(ring)' = m
        BY <1>2, <2>4, <2>5 DEF n
      <4> QED BY <1>2, <2>9, <4>1
    <3>4. Len(ring)' <= Len(printed)'
      BY <1>2, <1>3, <2>4, <2>5 DEF n
    <3> QED BY <1>1, <1>2, <2>4, <3>1, <3>2, <3>3, <3>4 DEF KeptInv
  <2>11. LoopInv'
    <3>1. round' = 0 /\ 0 \in 0..Len(ring)' /\ call' = "drop" /\ selected' = <<>>
      <4>1. kept - 1 \in Nat
        BY <2>5
      <4> QED BY <1>1, <2>1, <2>4, <4>1
    <3> QED BY <1>1, <2>7, <2>8, <3>1 DEF LoopInv
  <2> QED BY <2>10, <2>11 DEF RingInv
<1>6. CASE ~(total > limit /\ ring # <<>>)
  <2>1. call' = "idle" /\ total' = 0 /\ ring' = ring
    BY <1>6 DEF DropOldest
  <2>2. KeptInv' /\ Before' = Before
    BY <1>1, <2>1, NotPrinted
  <2>3. total <= limit
    <3>1. CASE ring = <<>>
      <4>1. n - kept = n
        BY <1>3, <3>1
      <4>2. total = 0
        BY <1>3, <1>4, <4>1 DEF Printed
      <4> QED BY <1>1, <4>2
    <3>2. CASE ~(total > limit)
      BY <1>1, <3>2
    <3> QED BY <1>6, <3>1, <3>2
  <2>4. Printed' - Before' <= limit'
    BY <1>2, <1>4, <2>2, <2>3 DEF Before
  <2>5. round' = 0 /\ 0 \in 0..Len(ring)' /\ selected' = <<>>
    BY <1>1, <1>3, <2>1
  <2>6. LoopInv'
    BY <1>1, <2>1, <2>4, <2>5 DEF LoopInv
  <2> QED BY <2>2, <2>6 DEF RingInv
<1> QED BY <1>5, <1>6

\* A replay begins with nothing.
LEMMA ReplayRing ==
  ASSUME RingInv, ReplayScrollback
  PROVE  RingInv'
<1>1. /\ Unchanged /\ ring' = ring /\ total' = total /\ selected' = selected /\ call = "idle"
      /\ KeptInv /\ total = 0 /\ selected = <<>> /\ round = 0
      /\ selected \in Seq(Seq(Nat)) /\ Printed - Before <= limit /\ replay \in Nat
  <2>1. Unchanged /\ ring' = ring /\ total' = total /\ selected' = selected /\ call = "idle"
    BY DEF ReplayScrollback
  <2> QED BY <2>1 DEF RingInv, LoopInv, KeptInv
<1>2. /\ KeptInv' /\ limit' = limit /\ replay' = replay /\ printed' = printed
      /\ (\A k : PrintedBy(k)' = PrintedBy(k)) /\ Printed' = Printed /\ Before' = Before
  BY <1>1, NotPrinted
<1>3. /\ Len(printed) \in Nat /\ Len(ring) \in 0..Len(printed) /\ Len(ring) \in Nat
      /\ Printed \in Nat /\ Before \in Nat /\ Before <= Printed
  BY <1>1, Positions
<1>4. Printed - 0 = Printed /\ Hold(<<>>, Printed, Printed)
  BY <1>3, HoldNone
<1>5. CASE replay = 0
  <2>1. call' = "given" /\ round' = round
    BY <1>5 DEF ReplayScrollback
  <2>2. Least(replay, Printed - Before) = 0
    <3>1. Printed - Before \in Nat
      BY <1>3
    <3> QED BY <1>5, <3>1 DEF Least
  <2>3. Hold(selected', Printed' - Least(replay', Printed' - Before'), Printed')
    BY <1>1, <1>2, <1>4, <2>2
  <2>4. round' \in 0..Len(ring)' /\ total' \in Nat /\ Printed' - Before' <= limit'
    BY <1>1, <1>2, <1>3, <2>1
  <2>5. LoopInv'
    BY <1>1, <2>1, <2>3, <2>4 DEF LoopInv
  <2> QED BY <1>2, <2>5 DEF RingInv
<1>6. CASE replay # 0
  <2>1. call' = "select" /\ round' = Len(ring)
    BY <1>6 DEF ReplayScrollback
  <2>2. Seen' = 0
    <3>1. (Len(printed) - Len(ring)) + Len(ring) = Len(printed)
      BY <1>3
    <3>2. Seen' = Printed - PrintedBy(Len(printed))
      BY <1>1, <1>2, <2>1, <3>1 DEF Seen
    <3>3. Printed - Printed = 0
      BY <1>3
    <3> QED BY <3>2, <3>3 DEF Printed
  <2>3. Least(replay, 0) = 0 /\ replay > 0
    BY <1>1, <1>6 DEF Least
  <2>4. total' = Least(replay', Seen') /\ replay' > 0
    BY <1>1, <1>2, <2>2, <2>3
  <2>5. Hold(selected', Printed' - total', Printed')
    BY <1>1, <1>2, <1>4
  <2>6. round' \in 0..Len(ring)' /\ total' \in Nat /\ Printed' - Before' <= limit'
    BY <1>1, <1>2, <1>3, <2>1
  <2>7. LoopInv'
    BY <1>1, <2>1, <2>4, <2>5, <2>6 DEF LoopInv
  <2> QED BY <1>2, <2>7 DEF RingInv
<1> QED BY <1>5, <1>6

\* What was selected is preceded by the bytes of the next older chunk: all of
\* them, or the newest that are still wanted.
LEMMA SelectRing ==
  ASSUME RingInv, Select
  PROVE  RingInv'
<1>1. /\ Unchanged /\ ring' = ring /\ call = "select" /\ KeptInv
      /\ round \in 0..Len(ring) /\ total \in Nat /\ selected \in Seq(Seq(Nat))
      /\ Printed - Before <= limit /\ replay > 0 /\ replay \in Nat
      /\ total = Least(replay, Seen) /\ Hold(selected, Printed - total, Printed)
  <2>1. Unchanged /\ ring' = ring /\ call = "select"
    BY DEF Select
  <2> QED BY <2>1 DEF RingInv, LoopInv, KeptInv
<1>2. /\ KeptInv' /\ limit' = limit /\ replay' = replay /\ printed' = printed
      /\ (\A k : PrintedBy(k)' = PrintedBy(k)) /\ Printed' = Printed /\ Before' = Before
  BY <1>1, NotPrinted
<1>3. /\ Len(printed) \in Nat /\ Len(ring) \in 0..Len(printed) /\ Len(ring) \in Nat
      /\ Printed \in Nat /\ Before \in Nat /\ Before <= Printed
  BY <1>1, Positions
<1>4. CASE round > 0 /\ total < replay
  <2> DEFINE chunk == ring[round]
             l == Len(chunk)
             remaining == replay - total
             from == PrintedBy(((Len(printed) - Len(ring)) + round) - 1)
  <2>1. /\ round' = round - 1 /\ call' = "select"
        /\ l <= remaining => selected' = <<chunk>> \o selected /\ total' = total + l
        /\ ~(l <= remaining) =>
             selected' = <<Newest(chunk, remaining)>> \o selected /\ total' = replay
    BY <1>1, <1>4 DEF Select
  <2>2. /\ round - 1 \in 0..Len(ring) /\ l \in Nat \ {0} /\ chunk \in Seq(Nat) /\ from \in Nat
        /\ Seen \in Nat
        /\ Seen = Printed - PrintedBy((Len(printed) - Len(ring)) + round)
        /\ PrintedBy((Len(printed) - Len(ring)) + round) = from + l
        /\ Printed - PrintedBy((Len(printed) - Len(ring)) + (round - 1)) = Seen + l
        /\ Seen + l <= Printed
        /\ \A j \in 1..l : chunk[j] = from + j
    BY <1>1, <1>4, SeenMore
  <2>3. total = Seen
    BY <1>1, <1>4, <2>2 DEF Least
  <2> HIDE DEF chunk, l, remaining, from
  <2>4. remaining \in Nat \ {0} /\ replay = total + remaining
    BY <1>1, <1>4 DEF remaining
  <2>9. total \in Nat /\ l \in Nat \ {0} /\ from \in Nat
    BY <1>1, <2>2
  <2>5. from + l = Printed - total /\ Printed \in Nat
    <3> DEFINE p == Printed
               q == PrintedBy((Len(printed) - Len(ring)) + round)
    <3>1. p \in Nat /\ q = from + l /\ total = p - q /\ from \in Nat /\ l \in Nat
      BY <1>3, <2>2, <2>3
    <3> HIDE DEF p, q
    <3>2. from + l = p - total
      BY ONLY <3>1
    <3> QED BY <1>3, <3>2 DEF p
  <2>6. Seen' = total + l
    BY <1>1, <1>2, <2>1, <2>2, <2>3 DEF Seen
  <2>7. CASE l <= remaining
    <3>1. selected' = <<chunk>> \o selected /\ total' = total + l
      BY <2>1, <2>7
    <3>2. Hold(selected, from + l, Printed)
      BY <1>1, <2>5
    <3>3. Len(chunk) = l /\ \A j \in 1..l : chunk[j] = from + j
      BY <2>2 DEF l
    <3>4. selected' \in Seq(Seq(Nat)) /\ Hold(selected', from, Printed)
      BY <1>1, <1>3, <2>2, <3>1, <3>2, <3>3, HoldMore
    <3>5. from = Printed - total' /\ total' \in Nat
      <4> DEFINE p == Printed
      <4>1. p \in Nat /\ from + l = p - total
        BY <2>5
      <4> HIDE DEF p
      <4>2. from = p - (total + l) /\ total + l \in Nat
        BY ONLY <2>9, <4>1
      <4> QED BY <3>1, <4>2 DEF p
    <3>6. total' = Least(replay, total + l)
      <4>1. replay \in Nat /\ ~(replay < total + l)
        BY ONLY <2>9, <2>4, <2>7
      <4> QED BY <3>1, <4>1 DEF Least
    <3> HIDE DEF Least
    <3>7. LoopInv'
      <4>1. /\ total' = Least(replay', Seen') /\ Hold(selected', Printed' - total', Printed')
            /\ round' \in 0..Len(ring)' /\ Printed' - Before' <= limit' /\ replay' > 0
        BY <1>1, <1>2, <2>1, <2>2, <2>6, <3>4, <3>5, <3>6
      <4> QED BY <2>1, <3>4, <3>5, <4>1 DEF LoopInv
    <3> QED BY <1>2, <3>7 DEF RingInv
  <2>8. CASE ~(l <= remaining)
    <3> DEFINE c == Newest(chunk, remaining)
               a == from + (l - remaining)
    <3>1. selected' = <<c>> \o selected /\ total' = replay
      BY <2>1, <2>8
    <3>2. l - remaining \in Nat /\ a \in Nat /\ a + remaining = Printed - total
      BY <2>2, <2>4, <2>5, <2>8
    <3>3. /\ c \in Seq(Nat) /\ Len(c) = remaining
          /\ \A j \in 1..remaining : c[j] = a + j
      <4>1. c = SubSeq(chunk, (l - remaining) + 1, l)
        BY DEF Newest, l
      <4>2. /\ l - remaining \in Nat /\ l \in Nat /\ remaining \in Nat \ {0}
            /\ l - (l - remaining) = remaining /\ chunk \in Seq(Nat) /\ Len(chunk) = l
        BY <2>2, <2>4, <3>2 DEF l
      <4>3. /\ c \in Seq(Nat) /\ Len(c) = remaining
            /\ \A j \in 1..remaining : c[j] = chunk[(l - remaining) + j]
        <5>1. /\ \A j \in 1..remaining : ((l - remaining) + 1) + j - 1 = (l - remaining) + j
              /\ (l - remaining) + 1 \in 1..l
          BY ONLY <4>2
        <5> HIDE DEF c
        <5> QED BY ONLY <4>1, <4>2, <5>1
      <4>4. ASSUME NEW j \in 1..remaining PROVE c[j] = a + j
        <5>1. (l - remaining) + j \in 1..l
          BY ONLY <4>2
        <5>2. chunk[(l - remaining) + j] = from + ((l - remaining) + j)
          BY <2>2, <5>1
        <5>3. from + ((l - remaining) + j) = a + j
          BY <2>2, <4>2
        <5> QED BY <4>3, <5>2, <5>3
      <4> QED BY <4>3, <4>4
    <3>4. Hold(selected, a + remaining, Printed)
      BY <1>1, <3>2
    <3> HIDE DEF c, a
    <3>5. selected' \in Seq(Seq(Nat)) /\ Hold(selected', a, Printed)
      BY <1>1, <1>3, <2>4, <3>1, <3>2, <3>3, <3>4, HoldMore
    <3>6. a = Printed - total' /\ total' \in Nat
      <4> DEFINE p == Printed
      <4>1. p \in Nat /\ a + remaining = p - total
        BY <2>5, <3>2
      <4> HIDE DEF p
      <4>2. a = p - replay /\ replay \in Nat
        BY ONLY <2>4, <2>9, <3>2, <4>1
      <4> QED BY <3>1, <4>2 DEF p
    <3>7. total' = Least(replay, total + l)
      <4>1. replay < total + l
        BY ONLY <2>4, <2>8, <2>9
      <4> QED BY <3>1, <4>1 DEF Least
    <3>8. LoopInv'
      <4>1. /\ total' = Least(replay', Seen') /\ Hold(selected', Printed' - total', Printed')
            /\ round' \in 0..Len(ring)' /\ Printed' - Before' <= limit' /\ replay' > 0
        BY <1>1, <1>2, <2>1, <2>2, <2>6, <3>5, <3>6, <3>7
      <4> QED BY <2>1, <3>5, <3>6, <4>1 DEF LoopInv
    <3> QED BY <1>2, <3>8 DEF RingInv
  <2> QED BY <2>7, <2>8
<1>5. CASE ~(round > 0 /\ total < replay)
  <2>1. call' = "given" /\ round' = round /\ total' = total /\ selected' = selected
    BY <1>5 DEF Select
  <2> DEFINE m == (Len(printed) - Len(ring)) + round
  <2>2. m \in 0..Len(printed) /\ Len(printed) - Len(ring) \in 0..Len(printed)
        /\ Len(printed) - Len(ring) <= m
    <3>1. /\ Len(printed) \in Nat /\ Len(ring) \in 0..Len(printed) /\ Len(ring) \in Nat
          /\ round \in 0..Len(ring)
      BY <1>1, <1>3
    <3> QED BY ONLY <3>1
  <2>3. PrintedBy(m) \in Nat /\ PrintedBy(m) <= Printed /\ Before <= PrintedBy(m)
    BY <1>1, <2>2, Positions DEF Before
  <2>4. Seen = Printed - PrintedBy(m) /\ Seen \in Nat /\ Seen <= Printed - Before
        /\ Printed - Before \in Nat
    BY <1>3, <2>3 DEF Seen
  <2>5. total = Least(replay, Printed - Before)
    <3>1. CASE round = 0
      <4>1. Seen = Printed - Before
        <5>1. m = Len(printed) - Len(ring)
          BY <1>3, <3>1
        <5> QED BY <2>4, <5>1 DEF Before
      <4> QED BY <1>1, <4>1
    <3>2. CASE ~(total < replay)
      <4>1. replay <= Seen /\ total = replay
        BY <1>1, <2>4, <3>2 DEF Least
      <4> QED BY <1>1, <2>4, <4>1 DEF Least
    <3> QED BY <1>1, <1>3, <1>5, <3>1, <3>2
  <2>6. /\ Hold(selected', Printed' - Least(replay', Printed' - Before'), Printed')
        /\ round' \in 0..Len(ring)' /\ Printed' - Before' <= limit'
    BY <1>1, <1>2, <2>1, <2>5
  <2>7. LoopInv'
    BY <1>1, <2>1, <2>6 DEF LoopInv
  <2> QED BY <1>2, <2>7 DEF RingInv
<1> QED BY <1>4, <1>5

LEMMA GiveRing ==
  ASSUME RingInv, Give
  PROVE  RingInv'
<1>1. /\ Unchanged /\ ring' = ring /\ KeptInv /\ Printed - Before <= limit
      /\ call' = "idle" /\ round' = 0 /\ total' = 0 /\ selected' = <<>>
  BY DEF Give, RingInv, LoopInv
<1>2. KeptInv' /\ limit' = limit /\ Printed' = Printed /\ Before' = Before
  BY <1>1, NotPrinted
<1>3. 0 \in 0..Len(ring)' /\ selected' \in Seq(Seq(Nat))
  BY <1>1, Positions
<1>4. LoopInv'
  BY <1>1, <1>2, <1>3 DEF LoopInv
<1> QED BY <1>2, <1>4 DEF RingInv

LEMMA RingIsInvariant == RingSpec => []RingInv
<1>1. ASSUME RingInv, [RingNext]_ringVars PROVE RingInv'
  <2>1. CASE ReadPty
    BY <1>1, <2>1, ReadRing
  <2>2. CASE SumUp
    BY <1>1, <2>2, SumRing
  <2>3. CASE DropOldest
    BY <1>1, <2>3, DropRing
  <2>4. CASE ReplayScrollback
    BY <1>1, <2>4, ReplayRing
  <2>5. CASE Select
    BY <1>1, <2>5, SelectRing
  <2>6. CASE Give
    BY <1>1, <2>6, GiveRing
  <2>7. CASE UNCHANGED ringVars
    <3>1. Unchanged /\ UNCHANGED <<ring, call, round, total, selected>>
      BY <2>7 DEF ringVars, Unchanged
    <3>2. /\ KeptInv' /\ limit' = limit /\ replay' = replay /\ printed' = printed
          /\ (\A k : PrintedBy(k)' = PrintedBy(k)) /\ Printed' = Printed /\ Before' = Before
      BY <1>1, <3>1, NotPrinted DEF RingInv
    <3>3. Seen' = Seen
      BY <3>1, <3>2 DEF Seen
    <3>4. LoopInv'
      BY <1>1, <3>1, <3>2, <3>3 DEF RingInv, LoopInv
    <3> QED BY <3>2, <3>4 DEF RingInv
  <2> QED BY <1>1, <2>1, <2>2, <2>3, <2>4, <2>5, <2>6, <2>7 DEF RingNext
<1> QED BY <1>1, InitRing, PTL DEF RingSpec
-----------------------------------------------------------------------------
(* What follows from it. *)

\* Between two calls, and for as long as a replay is made, the ring is the
\* newest reads that fit, and as many of them as do.
THEOREM RingKeepsTheNewest == RingSpec => []RingIsNewest
<1>1. ASSUME RingInv PROVE RingIsNewest
  <2> SUFFICES ASSUME call \in {"idle", "select", "given"}
               PROVE  LET kept == Len(ring)
                          n == Len(printed)
                      IN  /\ kept <= n
                          /\ \A i \in 1..kept : ring[i] = Chunk(n - kept + i)
                          /\ Printed - Before <= limit
                          /\ kept < n => Printed - PrintedBy(n - kept - 1) > limit
    BY DEF RingIsNewest
  <2> DEFINE kept == Len(ring)
             n == Len(printed)
  <2>1. /\ n \in Nat /\ kept \in 0..n /\ Printed \in Nat
        /\ \A k \in 0..n : PrintedBy(k) \in Nat
    BY <1>1, Positions DEF RingInv
  <2>2. /\ kept <= n /\ \A i \in 1..kept : ring[i] = Chunk((n - kept) + i)
        /\ kept < n => Printed > limit + PrintedBy((n - kept) - 1)
        /\ limit \in Nat
    BY <1>1 DEF RingInv, KeptInv
  <2>3. Printed - Before <= limit
    BY <1>1 DEF RingInv, LoopInv
  <2>4. kept < n => Printed - PrintedBy((n - kept) - 1) > limit
    <3> SUFFICES ASSUME kept < n PROVE Printed - PrintedBy((n - kept) - 1) > limit
      OBVIOUS
    <3>1. (n - kept) - 1 \in 0..n
      BY <2>1
    <3> DEFINE p == Printed
               q == PrintedBy((n - kept) - 1)
    <3>2. p \in Nat /\ q \in Nat /\ limit \in Nat /\ p > limit + q
      BY <2>1, <2>2, <3>1
    <3> HIDE DEF p, q
    <3>3. p - q > limit
      BY ONLY <3>2
    <3> QED BY <3>3 DEF p, q
  <2> QED BY <2>2, <2>3, <2>4
<1> QED BY <1>1, RingIsInvariant, PTL

\* A replay is made of the newest bytes of the ring, as many as are wanted.
THEOREM ReplayIsTheNewest == RingSpec => []ReplayIsNewest
<1>1. ASSUME RingInv PROVE ReplayIsNewest
  BY <1>1 DEF RingInv, LoopInv, ReplayIsNewest, Least
<1> QED BY <1>1, RingIsInvariant, PTL
=============================================================================
