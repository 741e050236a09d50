---------------------------- MODULE SessionProofs ----------------------------
(***************************************************************************)
(* The safety properties of Session, for any connections, clients, sizes,  *)
(* amount of output, channel and ring.                                     *)
(*                                                                         *)
(* LiveContiguous alone is not inductive: that the next chunk delivered    *)
(* follows the last one is the receiver's doing, so the invariant ties the *)
(* end of live to next.  AtMostOneRepeated needs the reader: it is at most *)
(* one chunk ahead of the channel, at the snapshot and so ever after.      *)
(* AtMostOneStaleWrite needs that a client that is not the owner, and has  *)
(* made its stale write, is past its owner check.                          *)
(***************************************************************************)
EXTENDS Session, TLAPS

BeforeAttach == {"new", "entered", "owner", "snapshot"}

Newest(k) == k.replay[Len(k.replay)]

\* The overlap of replay and live output, of a connection k when n chunks
\* have been sent.
OverlapOK(k, n) ==
  k.replay # <<>> =>
    /\ k.loop = "snapshot" => Newest(k) <= n + 1
    /\ k.task # "none" /\ k.live = <<>> => Newest(k) <= k.next
    /\ k.live # <<>> => Newest(k) <= k.live[1]

LiveOK(k) ==
  /\ k.loop \in BeforeAttach => k.task = "none"
  /\ k.task = "none" => k.live = <<>>
  /\ Consecutive(k.live)
  /\ k.live # <<>> => k.live[Len(k.live)] = k.next - 1
  /\ Len(k.live) < k.next

ReaderOneAhead == appended <= sent + 1

ConnInv == \A c \in Conns : LiveOK(conn[c]) /\ OverlapOK(conn[c], sent)

StaleInv ==
  \A c \in Conns :
    /\ stale[c] <= writes
    /\ stale[c] = 0 \/ (stale[c] = 1 /\ owner # ClientOf[c] /\ ~At(c, "input"))

IInv == TypeOK /\ ReaderOneAhead /\ ConnInv /\ StaleInv

\* The types of everything but the connections.
SharedTypeOK ==
  /\ shell \in {"none", "running", "exited"}
  /\ owner \in Clients \cup {None}
  /\ attached \subseteq Clients
  /\ size \in Sizes \cup {None} /\ ptySize \in Sizes \cup {None}
  /\ appended \in 0..MaxOut /\ sent \in 0..appended
  /\ writes \in 0..MaxInput
  /\ stale \in [Conns -> 0..MaxInput]
-----------------------------------------------------------------------------
LEMMA InitIInv == Init => IInv
<1> SUFFICES ASSUME Init PROVE IInv
  OBVIOUS
<1>1. NewConn \in Conn
  <2>1. <<>> \in Seq(1..MaxOut)
    OBVIOUS
  <2>2. 1 \in 1..(MaxOut + 1)
    BY SessionAssumption
  <2> QED BY <2>1, <2>2 DEF NewConn, Conn
<1>2. TypeOK
  BY <1>1, SessionAssumption DEF Init, TypeOK
<1>3. ReaderOneAhead
  BY DEF Init, ReaderOneAhead
<1>4. ConnInv
  <2>1. LiveOK(NewConn) /\ OverlapOK(NewConn, 0)
    <3>1. /\ NewConn.live = <<>> /\ NewConn.replay = <<>> /\ NewConn.next = 1
          /\ NewConn.task = "none" /\ Len(NewConn.live) = 0
      BY DEF NewConn
    <3>2. Consecutive(NewConn.live)
      BY <3>1 DEF Consecutive
    <3> QED BY <3>1, <3>2 DEF LiveOK, OverlapOK
  <2> QED BY <2>1 DEF Init, ConnInv
<1>5. StaleInv
  <2>1. writes = 0 /\ \A c \in Conns : stale[c] = 0
    BY DEF Init
  <2>2. 0 <= writes
    BY <2>1
  <2> QED BY <2>1, <2>2 DEF StaleInv
<1> QED BY <1>2, <1>3, <1>4, <1>5 DEF IInv

\* More output only widens the bound of the overlap.
LEMMA OverlapGrows ==
  ASSUME NEW k \in Conn, NEW m \in Nat, NEW n \in Nat, m <= n, OverlapOK(k, m)
  PROVE  OverlapOK(k, n)
<1>1. k.replay # <<>> => Newest(k) \in Nat
  <2> SUFFICES ASSUME k.replay # <<>> PROVE Newest(k) \in Nat
    OBVIOUS
  <2>1. k.replay \in Seq(1..MaxOut) /\ MaxOut \in Nat
    BY SessionAssumption DEF Conn
  <2>2. k.replay[Len(k.replay)] \in 1..MaxOut
    BY <2>1
  <2> QED BY <2>1, <2>2 DEF Newest
<1> QED BY <1>1 DEF OverlapOK

\* A step that leaves the connections alone.
LEMMA SharedStep ==
  ASSUME IInv, SharedTypeOK', ReaderOneAhead', conn' = conn, sent <= sent'
  PROVE  TypeOK' /\ ReaderOneAhead' /\ ConnInv'
<1>1. TypeOK'
  BY DEF IInv, TypeOK, SharedTypeOK
<1>2. ConnInv'
  <2> SUFFICES ASSUME NEW c \in Conns
               PROVE  LiveOK(conn[c]) /\ OverlapOK(conn[c], sent')
    BY DEF ConnInv
  <2>1. conn[c] \in Conn /\ sent \in Nat /\ sent' \in Nat
    BY <1>1, SessionAssumption DEF IInv, TypeOK
  <2> QED BY <2>1, OverlapGrows DEF IInv, ConnInv
<1> QED BY <1>1, <1>2

\* A step of one connection.
LEMMA ConnStep ==
  ASSUME IInv, SharedTypeOK', NEW c \in Conns, NEW k \in Conn,
         conn' = [conn EXCEPT ![c] = k],
         LiveOK(k), OverlapOK(k, sent),
         appended' = appended, sent' = sent
  PROVE  TypeOK' /\ ReaderOneAhead' /\ ConnInv'
<1>1. TypeOK'
  BY DEF IInv, TypeOK, SharedTypeOK
<1>2. ConnInv'
  <2> SUFFICES ASSUME NEW d \in Conns
               PROVE  LiveOK(conn'[d]) /\ OverlapOK(conn'[d], sent)
    BY DEF ConnInv
  <2>1. conn'[d] = IF d = c THEN k ELSE conn[d]
    BY DEF IInv, TypeOK
  <2> QED BY <2>1 DEF IInv, ConnInv
<1> QED BY <1>1, <1>2 DEF IInv, ReaderOneAhead

\* Steps that touch neither the owner, nor the writes, nor who is at "input".
LEMMA StaleKept ==
  ASSUME IInv, UNCHANGED <<owner, history>>,
         \A d \in Conns : At(d, "input")' => At(d, "input")
  PROVE  StaleInv'
BY DEF IInv, StaleInv, history
-----------------------------------------------------------------------------
(* The steps of the shell, and Detach. *)

LEMMA ShellStep ==
  ASSUME IInv, ReadChunk \/ Broadcast \/ ShellExits \/ \E c \in Conns : Detach(c)
  PROVE  IInv'
<1>1. SharedTypeOK' /\ ReaderOneAhead' /\ conn' = conn /\ sent <= sent'
  <2>1. appended \in Nat /\ sent \in Nat
    BY SessionAssumption DEF IInv, TypeOK
  <2>2. CASE ReadChunk
    BY <2>1, <2>2, SessionAssumption DEF ReadChunk, IInv, TypeOK, SharedTypeOK, ReaderOneAhead,
      sizes, history
  <2>3. CASE Broadcast
    BY <2>1, <2>3, SessionAssumption DEF Broadcast, IInv, TypeOK, SharedTypeOK, ReaderOneAhead,
      sizes, history
  <2>4. CASE ShellExits
    BY <2>1, <2>4 DEF ShellExits, IInv, TypeOK, SharedTypeOK, ReaderOneAhead, sizes, history
  <2>5. CASE \E c \in Conns : Detach(c)
    BY <2>1, <2>5 DEF Detach, IInv, TypeOK, SharedTypeOK, ReaderOneAhead, pty, sizes, history
  <2> QED BY <2>2, <2>3, <2>4, <2>5
<1>2. UNCHANGED <<owner, history>>
  BY DEF ReadChunk, Broadcast, ShellExits, Detach, history
<1>3. StaleInv'
  BY <1>1, <1>2, StaleKept DEF At
<1>4. TypeOK' /\ ReaderOneAhead' /\ ConnInv'
  BY <1>1, SharedStep
<1> QED BY <1>3, <1>4 DEF IInv
-----------------------------------------------------------------------------
(* The steps of one connection. *)

\* Only the loop, the size asked for and the task change, and the output
\* received so far stays as it is.
LEMMA LoopMoves ==
  ASSUME IInv, NEW c \in Conns, NEW k \in Conn,
         k.replay = conn[c].replay, k.live = conn[c].live, k.next = conn[c].next,
         k.loop \in BeforeAttach => k.task = "none",
         k.task = "none" <=> conn[c].task = "none",
         k.loop # "snapshot"
  PROVE  LiveOK(k) /\ OverlapOK(k, sent)
<1>1. LiveOK(conn[c]) /\ OverlapOK(conn[c], sent)
  BY DEF IInv, ConnInv
<1>2. LiveOK(k)
  BY <1>1 DEF LiveOK
<1>3. OverlapOK(k, sent)
  BY <1>1 DEF OverlapOK, Newest
<1> QED BY <1>2, <1>3

\* Such a step, which takes no connection to "snapshot" or to "input".
MovedTo(k, c) ==
  /\ k \in Conn
  /\ k.replay = conn[c].replay /\ k.live = conn[c].live /\ k.next = conn[c].next
  /\ k.loop \in BeforeAttach => k.task = "none"
  /\ k.task = "none" <=> conn[c].task = "none"
  /\ k.loop # "snapshot"
  /\ k.loop = "input" => At(c, "input")

LEMMA MoveStep ==
  ASSUME IInv, NEW c \in Conns, NEW k, MovedTo(k, c),
         conn' = [conn EXCEPT ![c] = k],
         SharedTypeOK', UNCHANGED <<owner, history, appended, sent>>
  PROVE  IInv'
<1>1. LiveOK(k) /\ OverlapOK(k, sent)
  BY LoopMoves DEF MovedTo
<1>2. TypeOK' /\ ReaderOneAhead' /\ ConnInv'
  BY <1>1, ConnStep DEF MovedTo
<1>3. \A d \in Conns : At(d, "input")' => At(d, "input")
  BY DEF At, MovedTo, IInv, TypeOK
<1>4. StaleInv'
  BY <1>3, StaleKept
<1> QED BY <1>2, <1>4 DEF IInv

\* The types of the rest, when only sizes and the shell may have changed.
LEMMA SharedTypes ==
  ASSUME IInv, UNCHANGED <<owner, attached, appended, sent, history>>,
         shell' \in {"none", "running", "exited"},
         size' \in Sizes \cup {None}, ptySize' \in Sizes \cup {None}
  PROVE  SharedTypeOK'
BY DEF IInv, TypeOK, SharedTypeOK, history

LEMMA AttachEnterStep ==
  ASSUME IInv, NEW c \in Conns, NEW s \in Sizes, AttachEnter(c, s)
  PROVE  IInv'
<1> DEFINE k == [conn[c] EXCEPT !.loop = "entered", !.want = s]
<1>1. conn \in [Conns -> Conn] /\ LiveOK(conn[c])
  BY DEF IInv, TypeOK, ConnInv
<1>2. conn' = [conn EXCEPT ![c] = k] /\ conn[c].loop = "new"
  BY <1>1 DEF AttachEnter, At
<1>3. MovedTo(k, c)
  BY <1>1, <1>2 DEF MovedTo, Conn, LiveOK, BeforeAttach
<1>4. UNCHANGED <<owner, attached, size, history, appended, sent>>
  BY DEF AttachEnter
<1>5. shell' \in {"none", "running", "exited"} /\ ptySize' \in Sizes \cup {None}
  BY DEF AttachEnter, IInv, TypeOK
<1>6. SharedTypeOK'
  BY <1>4, <1>5, SharedTypes DEF IInv, TypeOK, history
<1> HIDE DEF k
<1> QED BY <1>2, <1>3, <1>4, <1>6, MoveStep

\* Resizes: the fields, then the PTY.
LEMMA ResizeStep ==
  ASSUME IInv, NEW c \in Conns, ResizePty(c) \/ \E s \in Sizes : ResizeFields(c, s)
  PROVE  IInv'
<1>1. conn \in [Conns -> Conn] /\ LiveOK(conn[c])
  BY DEF IInv, TypeOK, ConnInv
<1>2. UNCHANGED <<shell, owner, attached, history, appended, sent>>
  BY DEF ResizePty, ResizeFields, pty
<1>3. size' \in Sizes \cup {None} /\ ptySize' \in Sizes \cup {None}
  BY <1>1 DEF ResizePty, ResizeFields, IInv, TypeOK, Conn
<1>4. SharedTypeOK'
  BY <1>2, <1>3, SharedTypes DEF IInv, TypeOK, history
<1>5. CASE ResizePty(c)
  <2> DEFINE k == [conn[c] EXCEPT !.loop = "frames"]
  <2>1. conn' = [conn EXCEPT ![c] = k]
    BY <1>1, <1>5 DEF ResizePty
  <2>2. MovedTo(k, c)
    BY <1>1 DEF MovedTo, Conn, LiveOK, BeforeAttach
  <2> HIDE DEF k
  <2> QED BY <1>2, <1>4, <2>1, <2>2, MoveStep
<1>6. ASSUME NEW s \in Sizes, ResizeFields(c, s) PROVE IInv'
  <2> DEFINE k == [conn[c] EXCEPT !.loop = "resize", !.want = s]
  <2>1. conn' = [conn EXCEPT ![c] = k]
    BY <1>1, <1>6 DEF ResizeFields
  <2>2. MovedTo(k, c)
    BY <1>1 DEF MovedTo, Conn, LiveOK, BeforeAttach
  <2> HIDE DEF k
  <2> QED BY <1>2, <1>4, <2>1, <2>2, MoveStep
<1> QED BY <1>5, <1>6

\* The frame loop ends, the output task is left alone or aborted.
LEMMA LoopEnds ==
  ASSUME IInv, NEW c \in Conns,
         AttachFails(c) \/ InputRefused(c) \/ InputFails(c) \/ Eof(c) \/ ReadFails(c)
  PROVE  IInv'
<1> DEFINE k == [conn[c] EXCEPT !.loop = "closed"]
<1> DEFINE aborted == [conn[c] EXCEPT !.loop = "closed",
                                      !.task = IF @ = "running" THEN "ended" ELSE @]
<1>1. conn \in [Conns -> Conn] /\ LiveOK(conn[c])
  BY DEF IInv, TypeOK, ConnInv
<1>2. conn' = [conn EXCEPT ![c] = k] \/ conn' = [conn EXCEPT ![c] = aborted]
  BY <1>1 DEF AttachFails, InputRefused, InputFails, Eof, ReadFails
<1>3. MovedTo(k, c)
  BY <1>1 DEF MovedTo, Conn, LiveOK, BeforeAttach
<1>4. MovedTo(aborted, c)
  BY <1>1 DEF MovedTo, Conn, LiveOK, BeforeAttach
<1>5. UNCHANGED <<shell, owner, attached, sizes, history, appended, sent>>
  BY DEF AttachFails, InputRefused, InputFails, Eof, ReadFails, pty
<1>6. SharedTypeOK'
  BY <1>5, SharedTypes DEF IInv, TypeOK, history, sizes
<1> HIDE DEF k, aborted
<1> QED BY <1>2, <1>3, <1>4, <1>5, <1>6, MoveStep

\* The output task ends by itself: also when the frame loop is still there.
LEMMA TaskEnds ==
  ASSUME IInv, NEW c \in Conns, conn[c].task = "running",
         conn' = [conn EXCEPT ![c].task = "ended"],
         UNCHANGED <<pty, owner, attached, sizes, history>>
  PROVE  IInv'
<1> DEFINE k == [conn[c] EXCEPT !.task = "ended"]
<1>1. conn \in [Conns -> Conn] /\ LiveOK(conn[c])
  BY DEF IInv, TypeOK, ConnInv
<1>2. conn' = [conn EXCEPT ![c] = k]
  BY <1>1
<1>3. MovedTo(k, c)
  BY <1>1 DEF MovedTo, Conn, LiveOK, BeforeAttach, At
<1>4. UNCHANGED <<shell, owner, history, appended, sent>>
  BY DEF pty
<1>5. SharedTypeOK'
  BY <1>4, SharedTypes DEF IInv, TypeOK, history, sizes
<1> HIDE DEF k
<1> QED BY <1>2, <1>3, <1>4, <1>5, MoveStep
-----------------------------------------------------------------------------
(* The steps the invariant is about. *)

LEMMA AttachOwnStep ==
  ASSUME IInv, NEW c \in Conns, AttachOwn(c)
  PROVE  IInv'
<1> DEFINE k == [conn[c] EXCEPT !.loop = "owner"]
<1>1. conn \in [Conns -> Conn] /\ LiveOK(conn[c]) /\ conn[c].loop = "entered"
  BY DEF IInv, TypeOK, ConnInv, AttachOwn, At
<1>2. conn' = [conn EXCEPT ![c] = k]
  BY <1>1 DEF AttachOwn
<1>3. MovedTo(k, c)
  BY <1>1 DEF MovedTo, Conn, LiveOK, BeforeAttach
<1>4. SharedTypeOK' /\ appended' = appended /\ sent' = sent
  BY <1>1, SessionAssumption DEF AttachOwn, IInv, TypeOK, SharedTypeOK, Conn, pty
<1>5. LiveOK(k) /\ OverlapOK(k, sent)
  BY <1>3, LoopMoves DEF MovedTo
<1>6. TypeOK' /\ ReaderOneAhead' /\ ConnInv'
  <2> HIDE DEF k
  <2> QED BY <1>2, <1>3, <1>4, <1>5, ConnStep DEF MovedTo
<1>7. StaleInv'
  BY DEF AttachOwn, StaleInv, IInv, TypeOK
<1> QED BY <1>6, <1>7 DEF IInv

\* A replay is the newest part of what was appended.
LEMMA ReplayBound ==
  ASSUME IInv
  PROVE  ReplayFrom \in 0..appended
BY SessionAssumption DEF ReplayFrom, IInv, TypeOK

LEMMA AttachSnapshotStep ==
  ASSUME IInv, NEW c \in Conns, AttachSnapshot(c)
  PROVE  IInv'
<1> DEFINE from == ReplayFrom
           taken == [i \in 1..(appended - from) |-> from + i]
           k == [conn[c] EXCEPT !.loop = "snapshot", !.replay = taken]
<1>1. /\ conn \in [Conns -> Conn] /\ LiveOK(conn[c]) /\ conn[c].loop = "owner"
      /\ appended \in Nat /\ sent \in Nat /\ MaxOut \in Nat /\ appended <= MaxOut
      /\ appended <= sent + 1 /\ from \in Nat /\ from <= appended
  BY ReplayBound, SessionAssumption
     DEF IInv, TypeOK, ConnInv, AttachSnapshot, At, ReaderOneAhead
<1>2. conn' = [conn EXCEPT ![c] = k]
  BY <1>1 DEF AttachSnapshot
<1> HIDE DEF from
<1>3. /\ taken \in Seq(1..MaxOut) /\ Len(taken) = appended - from
      /\ taken # <<>> => taken[Len(taken)] = appended
  <2>1. taken \in Seq(1..MaxOut) /\ Len(taken) = appended - from
    BY <1>1
  <2>2. taken # <<>> => Len(taken) \in 1..(appended - from)
    BY <1>1, <2>1
  <2> QED BY <1>1, <2>1, <2>2
<1> HIDE DEF taken
<1>4. /\ k \in Conn /\ k.replay = taken /\ k.loop = "snapshot"
      /\ k.live = conn[c].live /\ k.next = conn[c].next /\ k.task = conn[c].task
  BY <1>1, <1>3 DEF Conn
<1> HIDE DEF k
<1>5. LiveOK(k)
  BY <1>1, <1>4 DEF LiveOK, BeforeAttach
<1>6. OverlapOK(k, sent)
  BY <1>1, <1>3, <1>4 DEF OverlapOK, Newest, LiveOK, BeforeAttach
<1>7. UNCHANGED <<shell, owner, attached, size, ptySize, history, appended, sent>>
  BY DEF AttachSnapshot, pty, sizes
<1>8. SharedTypeOK'
  BY <1>7, SharedTypes DEF IInv, TypeOK, history
<1>9. TypeOK' /\ ReaderOneAhead' /\ ConnInv'
  BY <1>2, <1>4, <1>5, <1>6, <1>7, <1>8, ConnStep
<1>10. StaleInv'
  BY <1>1, <1>2, <1>4, <1>7, StaleKept DEF At
<1> QED BY <1>9, <1>10 DEF IInv

\* The snapshot took at most one chunk more than was sent by then, so the
\* first chunk received is the last one replayed, or a later one.
LEMMA AttachSubscribeStep ==
  ASSUME IInv, NEW c \in Conns, AttachSubscribe(c)
  PROVE  IInv'
<1> DEFINE k == [conn[c] EXCEPT !.loop = "frames", !.next = sent + 1, !.task = "running"]
<1>1. /\ conn \in [Conns -> Conn] /\ conn[c].loop = "snapshot"
      /\ LiveOK(conn[c]) /\ OverlapOK(conn[c], sent)
      /\ sent \in Nat /\ MaxOut \in Nat /\ sent <= MaxOut
  BY SessionAssumption DEF IInv, TypeOK, ConnInv, AttachSubscribe, At
<1>2. conn' = [conn EXCEPT ![c] = k]
  BY <1>1 DEF AttachSubscribe
<1>3. /\ k \in Conn /\ k.replay = conn[c].replay /\ k.live = conn[c].live
      /\ k.next = sent + 1 /\ k.task = "running" /\ k.loop = "frames"
  <2>1. sent + 1 \in 1..(MaxOut + 1) /\ conn[c] \in Conn
    BY <1>1
  <2> QED BY <2>1 DEF Conn
<1> HIDE DEF k
<1>4. conn[c].live = <<>>
  BY <1>1 DEF LiveOK, BeforeAttach
<1>5. LiveOK(k)
  BY <1>1, <1>3, <1>4 DEF LiveOK, BeforeAttach
<1>6. OverlapOK(k, sent)
  BY <1>1, <1>3, <1>4 DEF OverlapOK, Newest
<1>7. UNCHANGED <<shell, owner, attached, size, ptySize, history, appended, sent>>
  BY DEF AttachSubscribe, pty, sizes
<1>8. SharedTypeOK'
  BY <1>7, SharedTypes DEF IInv, TypeOK, history
<1>9. TypeOK' /\ ReaderOneAhead' /\ ConnInv'
  BY <1>2, <1>3, <1>5, <1>6, <1>7, <1>8, ConnStep
<1>10. StaleInv'
  BY <1>1, <1>2, <1>3, <1>7, StaleKept DEF At
<1> QED BY <1>9, <1>10 DEF IInv

\* Appending the next number to consecutive ones.
LEMMA ConsecutiveAppend ==
  ASSUME NEW s \in Seq(Nat), NEW n \in Nat, Consecutive(s),
         s # <<>> => s[Len(s)] = n - 1
  PROVE  Consecutive(Append(s, n))
<1> DEFINE t == Append(s, n)
<1>1. /\ Len(t) = Len(s) + 1 /\ Len(s) \in Nat
      /\ \A i \in 1..Len(s) : t[i] = s[i] /\ s[i] \in Nat
      /\ t[Len(s) + 1] = n
  OBVIOUS
<1>2. s # <<>> <=> Len(s) > 0
  OBVIOUS
<1> HIDE DEF t
<1>3. ASSUME NEW i \in 1..(Len(t) - 1) PROVE t[i + 1] = t[i] + 1
  <2>1. CASE i < Len(s)
    <3>1. i \in 1..(Len(s) - 1) /\ i \in 1..Len(s) /\ i + 1 \in 1..Len(s)
      BY <1>1, <2>1
    <3> QED BY <1>1, <3>1 DEF Consecutive
  <2>2. CASE i = Len(s)
    BY <1>1, <1>2, <2>2
  <2> QED BY <1>1, <2>1, <2>2
<1> QED BY <1>3 DEF Consecutive, t

LEMMA DeliverStep ==
  ASSUME IInv, NEW c \in Conns, Deliver(c)
  PROVE  IInv'
<1> DEFINE n == conn[c].next
           live == Append(conn[c].live, n)
           k == [conn[c] EXCEPT !.live = live, !.next = n + 1]
<1>1. /\ conn \in [Conns -> Conn] /\ conn[c] \in Conn /\ conn[c].task = "running"
      /\ LiveOK(conn[c]) /\ OverlapOK(conn[c], sent)
      /\ sent \in Nat /\ MaxOut \in Nat /\ sent <= MaxOut /\ n <= sent
      /\ n \in 1..MaxOut
  BY SessionAssumption DEF IInv, TypeOK, ConnInv, Deliver, Conn
<1>2. conn' = [conn EXCEPT ![c] = k]
  BY <1>1 DEF Deliver
<1>3. /\ conn[c].live \in Seq(1..MaxOut) /\ live \in Seq(1..MaxOut)
      /\ Len(live) = Len(conn[c].live) + 1 /\ Len(conn[c].live) \in Nat
      /\ live[Len(live)] = n /\ live # <<>>
      /\ conn[c].live # <<>> => live[1] = conn[c].live[1]
      /\ conn[c].live = <<>> => live[1] = n
  <2>1. conn[c].live \in Seq(1..MaxOut)
    BY <1>1 DEF Conn
  <2> HIDE DEF n
  <2>2. live \in Seq(1..MaxOut) /\ Len(live) = Len(conn[c].live) + 1
    BY <1>1, <2>1
  <2>3. Len(conn[c].live) \in Nat /\ live[Len(conn[c].live) + 1] = n
    BY <1>1, <2>1
  <2>4. conn[c].live # <<>> => Len(conn[c].live) >= 1 /\ live[1] = conn[c].live[1]
    BY <1>1, <2>1
  <2>5. conn[c].live = <<>> => Len(conn[c].live) = 0
    OBVIOUS
  <2> HIDE DEF live
  <2>6. live # <<>>
    BY <2>2, <2>3
  <2> QED BY <2>1, <2>2, <2>3, <2>4, <2>5, <2>6
<1>4. Consecutive(live)
  <2>1. conn[c].live \in Seq(Nat) /\ n \in Nat
    BY <1>1, <1>3
  <2> HIDE DEF n
  <2> QED BY <1>1, <2>1, ConsecutiveAppend DEF LiveOK, n
<1> HIDE DEF live
<1>5. /\ k \in Conn /\ k.replay = conn[c].replay /\ k.live = live
      /\ k.next = n + 1 /\ k.task = "running" /\ k.loop = conn[c].loop
  <2>1. n + 1 \in 1..(MaxOut + 1)
    BY <1>1
  <2> QED BY <1>1, <1>3, <2>1 DEF Conn
<1> HIDE DEF k
<1>6. LiveOK(k)
  <2>1. k.loop \notin BeforeAttach
    BY <1>1, <1>5 DEF LiveOK
  <2>2. n \in Nat /\ Len(conn[c].live) < n
    BY <1>1 DEF LiveOK
  <2> HIDE DEF n
  <2> QED BY <1>3, <1>4, <1>5, <2>1, <2>2 DEF LiveOK
<1>7. OverlapOK(k, sent)
  BY <1>1, <1>3, <1>5 DEF OverlapOK, Newest, LiveOK, BeforeAttach
<1>8. UNCHANGED <<shell, owner, attached, size, ptySize, history, appended, sent>>
  BY DEF Deliver, pty, sizes
<1>9. SharedTypeOK'
  BY <1>8, SharedTypes DEF IInv, TypeOK, history
<1>10. TypeOK' /\ ReaderOneAhead' /\ ConnInv'
  BY <1>2, <1>5, <1>6, <1>7, <1>8, <1>9, ConnStep
<1>11. StaleInv'
  BY <1>1, <1>2, <1>5, <1>8, StaleKept DEF At
<1> QED BY <1>10, <1>11 DEF IInv

\* Only the owner passes the check, and the owner has made no stale write.
LEMMA InputCheckStep ==
  ASSUME IInv, NEW c \in Conns, InputCheck(c)
  PROVE  IInv'
<1> DEFINE k == [conn[c] EXCEPT !.loop = "input"]
<1>1. conn \in [Conns -> Conn] /\ conn[c] \in Conn /\ conn[c].loop = "frames"
  BY DEF IInv, TypeOK, InputCheck, At
<1>2. conn' = [conn EXCEPT ![c] = k]
  BY <1>1 DEF InputCheck
<1>3. /\ k \in Conn /\ k.replay = conn[c].replay /\ k.live = conn[c].live
      /\ k.next = conn[c].next /\ k.task = conn[c].task /\ k.loop = "input"
  BY <1>1 DEF Conn
<1> HIDE DEF k
<1>4. LiveOK(k) /\ OverlapOK(k, sent)
  BY <1>3, LoopMoves DEF BeforeAttach
<1>5. UNCHANGED <<shell, owner, attached, size, ptySize, history, appended, sent>>
  BY DEF InputCheck, pty, sizes
<1>6. SharedTypeOK'
  BY <1>5, SharedTypes DEF IInv, TypeOK, history
<1>7. TypeOK' /\ ReaderOneAhead' /\ ConnInv'
  BY <1>2, <1>3, <1>4, <1>5, <1>6, ConnStep
<1>8. StaleInv'
  <2>1. owner = ClientOf[c] /\ UNCHANGED <<owner, writes, stale>>
    BY DEF InputCheck, history
  <2>2. \A d \in Conns \ {c} : conn'[d] = conn[d]
    BY <1>1, <1>2
  <2> QED BY <2>1, <2>2 DEF StaleInv, IInv, At
<1> QED BY <1>7, <1>8 DEF IInv

\* The write leaves "input", so a client that is no longer the owner makes one.
LEMMA InputWriteStep ==
  ASSUME IInv, NEW c \in Conns, InputWrite(c)
  PROVE  IInv'
<1> DEFINE k == [conn[c] EXCEPT !.loop = "frames"]
<1>1. conn \in [Conns -> Conn] /\ conn[c] \in Conn /\ conn[c].loop = "input"
  BY DEF IInv, TypeOK, InputWrite, At
<1>2. conn' = [conn EXCEPT ![c] = k]
  BY <1>1 DEF InputWrite
<1>3. /\ k \in Conn /\ k.replay = conn[c].replay /\ k.live = conn[c].live
      /\ k.next = conn[c].next /\ k.task = conn[c].task /\ k.loop = "frames"
  BY <1>1 DEF Conn
<1> HIDE DEF k
<1>4. LiveOK(k) /\ OverlapOK(k, sent)
  BY <1>3, LoopMoves DEF BeforeAttach
<1>5. UNCHANGED <<shell, owner, attached, size, ptySize, appended, sent>>
  BY DEF InputWrite, pty, sizes
<1>6. /\ writes \in Nat /\ MaxInput \in Nat /\ writes < MaxInput /\ writes' = writes + 1
      /\ stale \in [Conns -> 0..MaxInput]
      /\ stale' = [stale EXCEPT ![c] = IF owner # ClientOf[c] THEN @ + 1 ELSE @]
  BY SessionAssumption DEF IInv, TypeOK, InputWrite
<1>7. \A d \in Conns : stale'[d] \in Nat /\ stale'[d] <= writes'
  BY <1>6 DEF IInv, StaleInv
<1>8. SharedTypeOK'
  <2>1. stale' \in [Conns -> 0..MaxInput] /\ writes' \in 0..MaxInput
    BY <1>6, <1>7
  <2> QED BY <1>5, <2>1 DEF IInv, TypeOK, SharedTypeOK
<1>9. TypeOK' /\ ReaderOneAhead' /\ ConnInv'
  BY <1>2, <1>3, <1>4, <1>5, <1>8, ConnStep
<1>10. StaleInv'
  <2> SUFFICES ASSUME NEW d \in Conns
               PROVE  stale'[d] = 0 \/ (stale'[d] = 1 /\ owner # ClientOf[d] /\ conn'[d].loop # "input")
    BY <1>5, <1>7 DEF StaleInv, At
  <2>1. CASE d = c
    BY <1>1, <1>2, <1>3, <1>6, <2>1 DEF IInv, StaleInv, At
  <2>2. CASE d # c
    BY <1>1, <1>2, <1>6, <2>2 DEF IInv, StaleInv, At
  <2> QED BY <2>1, <2>2
<1> QED BY <1>9, <1>10 DEF IInv
-----------------------------------------------------------------------------
\* The invariant is inductive.
LEMMA Step ==
  ASSUME IInv, [Next]_vars
  PROVE  IInv'
<1>1. CASE ReadChunk \/ Broadcast \/ ShellExits
  BY <1>1, ShellStep
<1>2. ASSUME NEW c \in Conns, Attach(c) PROVE IInv'
  BY <1>2, AttachEnterStep, AttachOwnStep, AttachSnapshotStep, AttachSubscribeStep, LoopEnds
     DEF Attach
<1>3. ASSUME NEW c \in Conns, Output(c) PROVE IInv'
  BY <1>3, DeliverStep, TaskEnds DEF Output, OutputEnds, WriteFails
<1>4. ASSUME NEW c \in Conns, Frame(c) PROVE IInv'
  BY <1>4, InputCheckStep, InputWriteStep, ResizeStep, ShellStep, LoopEnds DEF Frame
<1>5. CASE UNCHANGED vars
  BY <1>5 DEF vars, IInv, TypeOK, ReaderOneAhead, ConnInv, LiveOK, OverlapOK, StaleInv, At
<1> QED BY <1>1, <1>2, <1>3, <1>4, <1>5 DEF Next

\* The strengthening is an invariant of Session: where the receivers, the
\* replays, the reader and the writers are with respect to each other.
THEOREM Inductive == Spec => []IInv
<1>1. Init => IInv
  BY InitIInv
<1>2. IInv /\ [Next]_vars => IInv'
  BY Step
<1> QED BY <1>1, <1>2, PTL DEF Spec

\* Every reachable state has its type.
THEOREM TypeCorrect == Spec => []TypeOK
<1>1. IInv => TypeOK
  BY DEF IInv
<1> QED BY <1>1, Inductive, PTL

\* What one output task writes is the shell's output without a hole and
\* without a repeat, however many connections attach, lag and break.
THEOREM NoHoleNoRepeat == Spec => []LiveContiguous
<1>1. IInv => LiveContiguous
  BY DEF IInv, ConnInv, LiveOK, LiveContiguous
<1> QED BY <1>1, Inductive, PTL

\* The replay and the live output of one attach share at most one chunk,
\* whatever the sizes of the ring and of the replay.
THEOREM OneChunkRepeated == Spec => []AtMostOneRepeated
<1>1. IInv => AtMostOneRepeated
  BY DEF IInv, ConnInv, OverlapOK, Newest, AtMostOneRepeated
<1> QED BY <1>1, Inductive, PTL

\* A client that lost the input completes at most the one write it had been
\* allowed on each of its connections.
THEOREM OneStaleWrite == Spec => []AtMostOneStaleWrite
<1>1. IInv => AtMostOneStaleWrite
  <2> SUFFICES ASSUME IInv, NEW c \in Conns PROVE stale[c] <= 1
    BY DEF AtMostOneStaleWrite
  <2>1. stale[c] \in {0, 1}
    BY DEF IInv, StaleInv
  <2> QED BY <2>1
<1> QED BY <1>1, Inductive, PTL
=============================================================================
