------------------------- MODULE NativeTerminalProofs -------------------------
(***************************************************************************)
(* Proofs about NativeTerminal, for every set of sizes and every bound: its *)
(* types, and the properties about the session, about crashes, about       *)
(* leaked terminals and about the size that arrives.                       *)
(*                                                                         *)
(* The argument is about who holds the handle.  connect() makes the        *)
(* terminal and then assigns the handle; close() reads it, clears it, queues *)
(* the native close and shuts the executor down.  LeakInv says where the   *)
(* handle of an open terminal can be at each moment.                       *)
(*                                                                         *)
(* A size goes through two queues, the executor's and the writer's.        *)
(* FollowInv says that the one queued last is the last in the first of the *)
(* two that has any.                                                       *)
(***************************************************************************)
EXTENDS NativeTerminal, TLAPS

\* What is true of a session that the app was told of.
SessionInv ==
  /\ rust.reader = "attached" => rust.session
  /\ AttachedHasSession

ClosePcs == {"close", "take", "shutdown"}
Queued(op) == \E c \in ToSet(queue) : c.op = op

\* Only close() closes, and only the view, once, and the timer call it.
ClosedInv ==
  /\ thr["reader"].pc \notin ClosePcs
  /\ thr["ui"].pc \in ClosePcs => holder.left
  /\ kt.timer => thr["timer"].pc = "idle"
  /\ kt.shut => kt.closed
  /\ \A t \in Threads : thr[t].pc \in {"take", "shutdown"} => kt.closed
  /\ Queued("close") => kt.closed
  /\ rust.term = "removed" => kt.closed

\* close() has read a handle that is not 0, and has not passed it on.
InHand(t) == At(t, "take") /\ thr[t].handle

\* Someone holds the handle, or held it.
Given ==
  \/ kt.handle \/ worker \in {"assign", "pending"}
  \/ \E t \in Threads : At(t, "enqueue") \/ InHand(t)
  \/ Queued("resize")

\* A handle is that of a terminal that was made, and that is made with a writer.
OpenInv ==
  /\ Given => rust.term # "none"
  /\ rust.term # "none" \/ worker = "spawned" => rust.writer # "none"
  /\ Queued("connect") =>
       queue = <<Command("connect", None)>> /\ worker \in {"idle", "crashed"}
  /\ Queued("connect") \/ worker \in {"connecting", "spawned"} => rust.term = "none"
  /\ CrashesOnlyWhenLost

\* close() found no handle, or has passed it on.
Emptied(t) == At(t, "shutdown") \/ (At(t, "take") /\ ~thr[t].handle)

\* close() may still clear the handle.
Yet(t) ==
  \/ thr[t].pc \in {"close", "take"}
  \/ t = "ui" /\ ~holder.left
  \/ t = "timer" /\ kt.timer

CloseQueued == Command("close", None) \in ToSet(queue)
Raced == history.discarded \/ history.overtaken

\* An open terminal is about to be given to the connection, or is with it, or a
\* close() has it in hand, or has queued its end, unless it was leaked.
LeakInv ==
  /\ rust.term = "open" =>
       \/ worker \in {"assign", "crashed"} \/ kt.handle
       \/ \E t \in Threads : InHand(t)
       \/ CloseQueued \/ Raced
  /\ kt.handle /\ (kt.shut \/ \E t \in Threads : Emptied(t)) => history.overtaken
  /\ \A t, u \in Threads : InHand(t) /\ Yet(u) /\ t # u => kt.handle
  /\ \A t, u \in Threads :
       InHand(t) /\ At(u, "shutdown") /\ rust.term = "open" => CloseQueued \/ Raced
  /\ \A t \in Threads : kt.shut /\ InHand(t) /\ rust.term = "open" => Raced

\* The session is known once the agent has answered.  Until connect() has run its
\* course there is none, and no size was queued for it.
StartInv ==
  /\ rust.session => net.attach = "done"
  /\ Queued("connect") \/ worker = "connecting" =>
       rust.reader = "none" /\ ~rust.session /\ history.queued = None

\* The last resize among the commands s is that to size z.
EndsWith(s, z) ==
  \E i \in 1..Len(s) :
    s[i] = Command("resize", z) /\ \A j \in (i + 1)..Len(s) : s[j].op # "resize"

\* The PTY will have, or has, size z when the writer has taken what is sent; and
\* when the executor has run what is queued.
PtyFollows(z) == EndsWith(rust.cmds, z) \/ (~Resizes(rust.cmds) /\ net.pty = z)
Follows(z) ==
  EndsWith(queue, z) \/ (~Resizes(queue) /\ worker = "idle" /\ PtyFollows(z))

Wanted ==
  /\ ~kt.closed /\ rust.writer = "running" /\ net.link = "up" /\ ~Crashed
  /\ history.queued # None

\* No size overtakes the one queued last: pendingResize is sent by the task that
\* runs before it, and the agent chooses a size before the session is known.
FollowInv == Wanted => rust.session /\ Follows(history.queued)

IInv ==
  TypeOK /\ SessionInv /\ ClosedInv /\ OpenInv /\ LeakInv /\ StartInv /\ FollowInv
-----------------------------------------------------------------------------
(* Sequences as sets of their elements. *)

LEMMA Elements ==
  ASSUME NEW S, NEW q \in Seq(S)
  PROVE  /\ \A c \in S : ToSet(Append(q, c)) = ToSet(q) \cup {c}
         /\ q # <<>> => ToSet(q) = ToSet(Tail(q)) \cup {Head(q)}
         /\ ToSet(<<>>) = {}
<1>1. ASSUME NEW c \in S PROVE ToSet(Append(q, c)) = ToSet(q) \cup {c}
  <2>1. /\ Len(q) \in Nat
        /\ DOMAIN q = 1..Len(q)
        /\ DOMAIN Append(q, c) = 1..(Len(q) + 1)
    OBVIOUS
  <2>2. \A i \in 1..Len(q) : Append(q, c)[i] = q[i]
    OBVIOUS
  <2>3. Append(q, c)[Len(q) + 1] = c
    OBVIOUS
  <2> QED BY <2>1, <2>2, <2>3 DEF ToSet
<1>2. ASSUME q # <<>> PROVE ToSet(q) = ToSet(Tail(q)) \cup {Head(q)}
  <2>1. \A i \in DOMAIN q : i = 1 \/ (i - 1 \in DOMAIN Tail(q) /\ q[i] = Tail(q)[i - 1])
    BY <1>2
  <2>2. \A i \in DOMAIN Tail(q) : i + 1 \in DOMAIN q /\ Tail(q)[i] = q[i + 1]
    BY <1>2
  <2>3. 1 \in DOMAIN q /\ Head(q) = q[1]
    BY <1>2
  <2>4. ASSUME NEW x \in ToSet(q) PROVE x \in ToSet(Tail(q)) \cup {Head(q)}
    <3>1. PICK i \in DOMAIN q : x = q[i]
      BY DEF ToSet
    <3>2. CASE i = 1
      BY <3>1, <3>2, <2>3
    <3>3. CASE i # 1
      <4>1. i - 1 \in DOMAIN Tail(q) /\ x = Tail(q)[i - 1]
        BY <3>1, <3>3, <2>1
      <4> QED BY ONLY <4>1 DEF ToSet
    <3> QED BY <3>2, <3>3
  <2>5. ASSUME NEW x \in ToSet(Tail(q)) PROVE x \in ToSet(q)
    <3>1. PICK i \in DOMAIN Tail(q) : x = Tail(q)[i]
      BY DEF ToSet
    <3>2. i + 1 \in DOMAIN q /\ x = q[i + 1]
      BY <3>1, <2>2
    <3> QED BY ONLY <3>2 DEF ToSet
  <2>6. Head(q) \in ToSet(q)
    BY ONLY <2>3 DEF ToSet
  <2> QED BY <2>4, <2>5, <2>6
<1>3. ToSet(<<>>) = {}
  BY DEF ToSet
<1> QED BY <1>1, <1>2, <1>3
-----------------------------------------------------------------------------
(* Types *)

LEMMA CommandType ==
  ASSUME NEW op \in {"connect", "resize", "ping", "close"}, NEW s \in Sizes \cup {None}
  PROVE  Command(op, s) \in Commands /\ Command(op, s).op = op
BY DEF Command, Commands

LEMMA HeadType ==
  ASSUME NEW q \in Seq(Commands), q # <<>>
  PROVE  /\ Head(q) \in Commands /\ Tail(q) \in Seq(Commands)
         /\ Head(q).size \in Sizes \cup {None}
<1>1. Head(q) \in Commands /\ Tail(q) \in Seq(Commands)
  OBVIOUS
<1> QED BY <1>1 DEF Commands

LEMMA GotoType ==
  ASSUME thr \in [Threads -> Call], NEW t \in Threads, NEW pc, Goto(t, pc),
         pc \in {"idle", "resize", "mark", "pend", "enqueue", "close", "take", "shutdown"}
  PROVE  thr' \in [Threads -> Call]
BY DEF Call, Goto

LEMMA ReturnType ==
  ASSUME thr \in [Threads -> Call], NEW t \in Threads, Return(t)
  PROVE  thr' \in [Threads -> Call]
BY DEF Call, Return, Idle

LEMMA SentType ==
  ASSUME NEW r \in Terminal, NEW c \in Commands
  PROVE  SentTo(r, c) \in Terminal
<1>1. Append(r.cmds, c) \in Seq(Commands)
  BY DEF Terminal
<1> QED BY <1>1 DEF SentTo, Terminal

LEMMA RemovedType ==
  ASSUME NEW r \in Terminal
  PROVE  RemovedFrom(r) \in Terminal
<1>1. SentTo(r, Command("close", None)) \in Terminal
  BY CommandType, SentType
<1> QED BY <1>1 DEF RemovedFrom, Terminal

LEMMA BeatenType ==
  ASSUME NEW r \in Terminal, r.age < SilentBeats
  PROVE  Beaten(r) \in Terminal
<1>1. Append(r.cmds, Command("ping", None)) \in Seq(Commands)
  BY CommandType DEF Terminal
<1>2. r.age + 1 \in 0..SilentBeats
  BY SizesAssumption DEF Terminal
<1> QED BY <1>1, <1>2 DEF Beaten, Terminal

LEMMA ReportedType ==
  ASSUME kt \in Connection, ReportDisconnected
  PROVE  kt' \in Connection
BY DEF ReportDisconnected, Connection

\* Every step keeps the types.
LEMMA TypeStep ==
  ASSUME TypeOK
  PROVE  [Next]_vars => TypeOK'
<1> USE DEF TypeOK
<1>1. ASSUME NEW s \in Sizes, SyncSizeFromView(s) PROVE TypeOK'
  <2>1. holder.layouts + 1 \in 0..MaxLayouts
    BY <1>1, SizesAssumption DEF SyncSizeFromView, Holder
  <2>2. holder' \in Holder
    BY <1>1, <2>1 DEF SyncSizeFromView, Holder
  <2>3. thr' \in [Threads -> Call]
    BY <1>1, GotoType DEF SyncSizeFromView, Threads
  <2> QED BY <1>1, <2>1, <2>2, <2>3 DEF SyncSizeFromView, kotlin
<1>2. CASE Leave
  <2>1. holder' \in Holder
    BY <1>2 DEF Leave, Holder
  <2>2. thr' \in [Threads -> Call]
    BY <1>2, GotoType DEF Leave, Threads
  <2> QED BY <1>2, <2>1, <2>2 DEF Leave, kotlin
<1>3. CASE TimerFires
  <2>1. kt' \in Connection
    BY <1>3 DEF TimerFires, Connection
  <2>2. thr' \in [Threads -> Call]
    BY <1>3, GotoType DEF TimerFires, Threads
  <2> QED BY <1>3, <2>1, <2>2 DEF TimerFires
<1>4. ASSUME NEW t \in Threads, ResizeConnectionToView(t) PROVE TypeOK'
  <2>1. thr' \in [Threads -> Call]
    BY <1>4, ReturnType DEF ResizeConnectionToView, Holder, Call
  <2> QED BY <1>4, <2>1 DEF ResizeConnectionToView, kotlin
<1>5. ASSUME NEW t \in Threads, Mark(t) PROVE TypeOK'
  <2>1. holder' \in Holder
    BY <1>5 DEF Mark, Holder, Call
  <2>2. thr' \in [Threads -> Call]
    BY <1>5, GotoType, ReturnType DEF Mark
  <2> QED BY <1>5, <2>1, <2>2 DEF Mark, kotlin
<1>6. ASSUME NEW t \in Threads, Pend(t) PROVE TypeOK'
  <2>1. kt' \in Connection
    BY <1>6 DEF Pend, Connection, Call
  <2>2. thr' \in [Threads -> Call]
    BY <1>6, ReturnType DEF Pend
  <2> QED BY <1>6, <2>1, <2>2 DEF Pend
<1>7. ASSUME NEW t \in Threads, Enqueue(t) PROVE TypeOK'
  <2>1. queue' \in Seq(Commands)
    BY <1>7, CommandType DEF Enqueue, Call
  <2>2. thr' \in [Threads -> Call]
    BY <1>7, ReturnType DEF Enqueue
  <2>3. history' \in History
    BY <1>7 DEF Enqueue, History, Call
  <2> QED BY <1>7, <2>1, <2>2, <2>3 DEF Enqueue
<1>8. ASSUME NEW t \in Threads, Close(t) PROVE TypeOK'
  <2>1. kt' \in Connection
    BY <1>8 DEF Close, Connection
  <2>2. thr' \in [Threads -> Call]
    BY <1>8 DEF Close, Call, Connection
  <2> QED BY <1>8, <2>1, <2>2 DEF Close
<1>9. ASSUME NEW t \in Threads, CloseTakesHandle(t) PROVE TypeOK'
  <2>1. kt' \in Connection
    BY <1>9 DEF CloseTakesHandle, Connection
  <2>2. thr' \in [Threads -> Call]
    BY <1>9, GotoType, ReturnType DEF CloseTakesHandle
  <2>3. queue' \in Seq(Commands)
    BY <1>9, CommandType DEF CloseTakesHandle
  <2> QED BY <1>9, <2>1, <2>2, <2>3 DEF CloseTakesHandle
<1>10. ASSUME NEW t \in Threads, CloseShutsDown(t) PROVE TypeOK'
  <2>1. kt' \in Connection
    BY <1>10 DEF CloseShutsDown, Connection
  <2>2. thr' \in [Threads -> Call]
    BY <1>10, ReturnType DEF CloseShutsDown
  <2>3. history' \in History
    BY <1>10 DEF CloseShutsDown, History
  <2> QED BY <1>10, <2>1, <2>2, <2>3 DEF CloseShutsDown
<1>11. CASE RunConnect
  <2>1. queue' \in Seq(Commands)
    BY <1>11, HeadType DEF RunConnect, Runs
  <2> QED BY <1>11, <2>1 DEF RunConnect
<1>12. CASE RunResize
  <2>1. queue' \in Seq(Commands)
    BY <1>12, HeadType DEF RunResize, Runs
  <2>2. rust' \in Terminal
    BY <1>12, HeadType, SentType DEF RunResize, Runs
  <2> QED BY <1>12, <2>1, <2>2 DEF RunResize
<1>13. CASE RunClose
  <2>1. queue' \in Seq(Commands)
    BY <1>13, HeadType DEF RunClose, Runs
  <2>2. rust' \in Terminal
    BY <1>13, RemovedType DEF RunClose
  <2> QED BY <1>13, <2>1, <2>2 DEF RunClose
<1>14. CASE ConnectFails
  BY <1>14 DEF ConnectFails
<1>15. CASE SpawnTasks
  <2>1. rust' \in Terminal
    BY <1>15 DEF SpawnTasks, Terminal
  <2>2. net' \in Network
    BY <1>15 DEF SpawnTasks, Network
  <2> QED BY <1>15, <2>1, <2>2 DEF SpawnTasks
<1>16. CASE CheckClosed
  <2>1. [rust EXCEPT !.term = "open"] \in Terminal
    BY DEF Terminal
  <2>2. rust' \in Terminal
    BY <1>16, <2>1, RemovedType DEF CheckClosed
  <2> QED BY <1>16, <2>1, <2>2 DEF CheckClosed
<1>17. CASE AssignHandle
  <2>1. kt' \in Connection
    BY <1>17 DEF AssignHandle, Connection
  <2>2. history' \in History
    BY <1>17 DEF AssignHandle, History
  <2> QED BY <1>17, <2>1, <2>2 DEF AssignHandle
<1>18. CASE SendPendingResize
  <2>1. kt' \in Connection
    BY <1>18 DEF SendPendingResize, Connection
  <2>2. kt.pending # None => Command("resize", kt.pending) \in Commands
    BY CommandType DEF Connection
  <2>3. rust' \in Terminal
    BY <1>18, <2>2, SentType DEF SendPendingResize
  <2> QED BY <1>18, <2>1, <2>2, <2>3 DEF SendPendingResize
<1>19. CASE ReadAttached
  <2>1. net' \in Network
    BY <1>19 DEF ReadAttached, Network
  <2>2. 0 \in 0..SilentBeats
    BY SizesAssumption
  <2>3. rust' \in Terminal
    BY <1>19, <2>2 DEF ReadAttached, Terminal
  <2> QED BY <1>19, <2>1, <2>2, <2>3 DEF ReadAttached, kotlin
<1>20. CASE ReportAttached
  <2>1. rust' \in Terminal
    BY <1>20 DEF ReportAttached, Terminal
  <2>2. kt' \in Connection
    BY <1>20 DEF ReportAttached, Connection
  <2>3. thr' \in [Threads -> Call]
    BY <1>20, GotoType DEF ReportAttached, Threads
  <2> QED BY <1>20, <2>1, <2>2, <2>3 DEF ReportAttached, kotlin
<1>21. CASE ReadPong
  <2>1. net' \in Network
    BY <1>21 DEF ReadPong, Network
  <2>2. 0 \in 0..SilentBeats
    BY SizesAssumption
  <2>3. rust' \in Terminal
    BY <1>21, <2>2 DEF ReadPong, Terminal
  <2> QED BY <1>21, <2>1, <2>2, <2>3 DEF ReadPong, kotlin
<1>22. CASE ReadEnds
  <2>1. rust' \in Terminal
    BY <1>22 DEF ReadEnds, Terminal
  <2>2. kt' \in Connection
    BY <1>22, ReportedType DEF ReadEnds
  <2> QED BY <1>22, <2>1, <2>2 DEF ReadEnds, kotlin, ReportDisconnected
<1>23. CASE WriterTakes
  <2>1. rust.cmds \in Seq(Commands) /\ rust.cmds # <<>>
    BY <1>23 DEF WriterTakes, Terminal
  <2>2. Tail(rust.cmds) \in Seq(Commands) /\ <<>> \in Seq(Commands)
    BY <2>1, HeadType
  <2>3. rust' \in Terminal
    BY <1>23, <2>2 DEF WriterTakes, Terminal
  <2>4. net' \in Network
    BY <1>23, <2>1, HeadType DEF WriterTakes, Network
  <2> QED BY <1>23, <2>1, <2>2, <2>3, <2>4 DEF WriterTakes, kotlin
<1>24. CASE WriterFails
  <2>1. rust' \in Terminal
    BY <1>24, <<>> \in Seq(Commands) DEF WriterFails, Terminal
  <2>2. net' \in Network
    BY <1>24 DEF WriterFails, Network
  <2>3. kt' \in Connection
    BY <1>24, ReportedType DEF WriterFails
  <2> QED BY <1>24, <2>1, <2>2, <2>3 DEF WriterFails, kotlin, ReportDisconnected
<1>25. CASE BeatTimesOut
  <2>1. rust' \in Terminal
    BY <1>25 DEF BeatTimesOut, Terminal
  <2>2. kt' \in Connection
    BY <1>25, ReportedType DEF BeatTimesOut
  <2> QED BY <1>25, <2>1, <2>2 DEF BeatTimesOut, kotlin, ReportDisconnected
<1>26. CASE Beat
  <2>1. rust.age < SilentBeats
    BY <1>26, SizesAssumption DEF Beat, Silent, Terminal
  <2>2. rust' \in Terminal
    BY <1>26, <2>1, BeatenType DEF Beat
  <2> QED BY <1>26, <2>1, <2>2 DEF Beat, kotlin
<1>27. CASE AgentAttaches
  <2>1. net' \in Network
    BY <1>27 DEF AgentAttaches, Network
  <2> QED BY <1>27, <2>1 DEF AgentAttaches, kotlin
<1>28. CASE LinkFails
  <2>1. net' \in Network
    BY <1>28 DEF LinkFails, Network
  <2> QED BY <1>28, <2>1 DEF LinkFails, kotlin
<1>29. CASE UNCHANGED vars
  BY <1>29 DEF vars
<1> QED BY <1>1, <1>2, <1>3, <1>4, <1>5, <1>6, <1>7, <1>8, <1>9, <1>10, <1>11, <1>12,
     <1>13, <1>14, <1>15, <1>16, <1>17, <1>18, <1>19, <1>20, <1>21, <1>22, <1>23,
     <1>24, <1>25, <1>26, <1>27, <1>28, <1>29 DEF Next, Resize, Closing, Worker,
     Reader, Writer, Heartbeat
-----------------------------------------------------------------------------
(* What the helpers leave alone. *)

LEMMA SentFrame ==
  ASSUME NEW r \in Terminal, NEW c
  PROVE  /\ SentTo(r, c).session = r.session /\ SentTo(r, c).reader = r.reader
         /\ SentTo(r, c).writer = r.writer /\ SentTo(r, c).term = r.term
BY DEF SentTo, Terminal

LEMMA RemovedFrame ==
  ASSUME NEW r \in Terminal
  PROVE  /\ RemovedFrom(r).session = r.session /\ RemovedFrom(r).reader = r.reader
         /\ RemovedFrom(r).writer = r.writer
         /\ RemovedFrom(r).term = IF r.term = "open" THEN "removed" ELSE r.term
<1>1. SentTo(r, Command("close", None)) \in Terminal
  BY CommandType, SentType
<1> QED BY <1>1, SentFrame DEF RemovedFrom, Terminal

LEMMA BeatenFrame ==
  ASSUME NEW r \in Terminal
  PROVE  /\ Beaten(r).session = r.session /\ Beaten(r).reader = r.reader
         /\ Beaten(r).writer = r.writer /\ Beaten(r).term = r.term
BY DEF Beaten, Terminal

\* The session is known before the app hears of it, and stays known.
LEMMA SessionStep ==
  ASSUME TypeOK, SessionInv
  PROVE  [Next]_vars => SessionInv'
<1> USE DEF TypeOK, SessionInv, AttachedHasSession
<1>1. ASSUME NEW s \in Sizes, SyncSizeFromView(s) PROVE SessionInv'
  BY <1>1 DEF SyncSizeFromView, kotlin
<1>2. CASE Leave
  BY <1>2 DEF Leave, kotlin
<1>3. CASE TimerFires
  BY <1>3 DEF TimerFires, Connection
<1>4. ASSUME NEW t \in Threads, ResizeConnectionToView(t) PROVE SessionInv'
  BY <1>4 DEF ResizeConnectionToView, kotlin
<1>5. ASSUME NEW t \in Threads, Mark(t) PROVE SessionInv'
  BY <1>5 DEF Mark, kotlin
<1>6. ASSUME NEW t \in Threads, Pend(t) PROVE SessionInv'
  BY <1>6 DEF Pend, Connection
<1>7. ASSUME NEW t \in Threads, Enqueue(t) PROVE SessionInv'
  BY <1>7 DEF Enqueue
<1>8. ASSUME NEW t \in Threads, Close(t) PROVE SessionInv'
  BY <1>8 DEF Close, Connection
<1>9. ASSUME NEW t \in Threads, CloseTakesHandle(t) PROVE SessionInv'
  BY <1>9 DEF CloseTakesHandle, Connection
<1>10. ASSUME NEW t \in Threads, CloseShutsDown(t) PROVE SessionInv'
  BY <1>10 DEF CloseShutsDown, Connection
<1>11. CASE RunConnect
  BY <1>11 DEF RunConnect
<1>12. CASE RunResize
  BY <1>12, SentFrame DEF RunResize
<1>13. CASE RunClose
  BY <1>13, RemovedFrame DEF RunClose
<1>14. CASE ConnectFails
  BY <1>14 DEF ConnectFails
<1>15. CASE SpawnTasks
  BY <1>15 DEF SpawnTasks, Terminal
<1>16. CASE CheckClosed
  <2>1. [rust EXCEPT !.term = "open"] \in Terminal
    BY DEF Terminal
  <2> QED BY <1>16, <2>1, RemovedFrame DEF CheckClosed, Terminal
<1>17. CASE AssignHandle
  BY <1>17 DEF AssignHandle, Connection
<1>18. CASE SendPendingResize
  BY <1>18, SentFrame DEF SendPendingResize, Connection
<1>19. CASE ReadAttached
  BY <1>19 DEF ReadAttached, Terminal, kotlin
<1>20. CASE ReportAttached
  BY <1>20 DEF ReportAttached, Connection, Terminal
<1>21. CASE ReadPong
  BY <1>21 DEF ReadPong, Terminal, kotlin
<1>22. CASE ReadEnds
  BY <1>22 DEF ReadEnds, Connection, Terminal, ReportDisconnected
<1>23. CASE WriterTakes
  BY <1>23 DEF WriterTakes, Terminal, kotlin
<1>24. CASE WriterFails
  BY <1>24 DEF WriterFails, Connection, Terminal, ReportDisconnected
<1>25. CASE BeatTimesOut
  BY <1>25 DEF BeatTimesOut, Connection, Terminal, ReportDisconnected
<1>26. CASE Beat
  BY <1>26, BeatenFrame DEF Beat, kotlin
<1>27. CASE AgentAttaches
  BY <1>27 DEF AgentAttaches, kotlin
<1>28. CASE LinkFails
  BY <1>28 DEF LinkFails, kotlin
<1>29. CASE UNCHANGED vars
  BY <1>29 DEF vars
<1> QED BY <1>1, <1>2, <1>3, <1>4, <1>5, <1>6, <1>7, <1>8, <1>9, <1>10, <1>11, <1>12,
     <1>13, <1>14, <1>15, <1>16, <1>17, <1>18, <1>19, <1>20, <1>21, <1>22, <1>23,
     <1>24, <1>25, <1>26, <1>27, <1>28, <1>29 DEF Next, Resize, Closing, Worker,
     Reader, Writer, Heartbeat

\* Whatever only a close() does shows that the connection is closed.
LEMMA ClosedStep ==
  ASSUME TypeOK, ClosedInv
  PROVE  [Next]_vars => ClosedInv'
<1> USE DEF TypeOK
<1>1. ASSUME NEW s \in Sizes, SyncSizeFromView(s) PROVE ClosedInv'
  BY <1>1 DEF SyncSizeFromView, kotlin, Call, Goto, Return, Idle, At, Threads,
       ClosePcs, Holder, ClosedInv, Queued
<1>2. CASE Leave
  BY <1>2 DEF Leave, kotlin, Call, Goto, Return, Idle, At, Threads, ClosePcs, Holder,
       ClosedInv, Queued
<1>3. CASE TimerFires
  BY <1>3 DEF TimerFires, Connection, Call, Goto, Return, Idle, At, Threads, ClosePcs,
       ClosedInv, Queued
<1>4. ASSUME NEW t \in Threads, ResizeConnectionToView(t) PROVE ClosedInv'
  BY <1>4 DEF ResizeConnectionToView, kotlin, Call, Goto, Return, Idle, At, Threads,
       ClosePcs, ClosedInv, Queued
<1>5. ASSUME NEW t \in Threads, Mark(t) PROVE ClosedInv'
  BY <1>5 DEF Mark, kotlin, Call, Goto, Return, Idle, At, Threads, ClosePcs, Holder,
       ClosedInv, Queued
<1>6. ASSUME NEW t \in Threads, Pend(t) PROVE ClosedInv'
  BY <1>6 DEF Pend, Connection, Call, Goto, Return, Idle, At, Threads, ClosePcs,
       ClosedInv, Queued
<1>7. ASSUME NEW t \in Threads, Enqueue(t) PROVE ClosedInv'
  <2>1. Command("resize", thr[t].size) \in Commands /\ Command("resize",
       thr[t].size).op = "resize"
    BY CommandType DEF Call
  <2>2. ToSet(Append(queue, Command("resize",
       thr[t].size))) = ToSet(queue) \cup {Command("resize", thr[t].size)}
    BY <2>1, Elements
  <2>3. \A c \in ToSet(queue') : c \in ToSet(queue) \/ c.op = "resize"
    BY <1>7, <2>1, <2>2 DEF Enqueue
  <2> QED BY <1>7, <2>1, <2>2, <2>3 DEF Enqueue, Call, Goto, Return, Idle, At, Threads,
       ClosePcs, ClosedInv, Queued
<1>8. ASSUME NEW t \in Threads, Close(t) PROVE ClosedInv'
  BY <1>8 DEF Close, Connection, Call, Goto, Return, Idle, At, Threads, ClosePcs,
       ClosedInv, Queued
<1>9. ASSUME NEW t \in Threads, CloseTakesHandle(t) PROVE ClosedInv'
  <2>1. Command("close", None) \in Commands /\ Command("close", None).op = "close"
    BY CommandType
  <2>2. ToSet(Append(queue, Command("close",
       None))) = ToSet(queue) \cup {Command("close", None)}
    BY <2>1, Elements
  <2>3. \A c \in ToSet(queue') : c \in ToSet(queue) \/ c.op = "close"
    BY <1>9, <2>1, <2>2 DEF CloseTakesHandle
  <2> QED BY <1>9, <2>1, <2>2, <2>3 DEF CloseTakesHandle, Connection, Call, Goto,
       Return, Idle, At, Threads, ClosePcs, ClosedInv, Queued
<1>10. ASSUME NEW t \in Threads, CloseShutsDown(t) PROVE ClosedInv'
  <2>1. ToSet(queue') = {}
    BY <1>10, Elements DEF CloseShutsDown
  <2> QED BY <1>10, <2>1 DEF CloseShutsDown, Connection, Call, Goto, Return, Idle, At,
       Threads, ClosePcs, ClosedInv, Queued
<1>11. CASE RunConnect
  <2>1. \A c \in ToSet(queue') : c \in ToSet(queue)
    BY <1>11, Elements DEF RunConnect, Runs
  <2> QED BY <1>11, <2>1 DEF RunConnect, ClosedInv, Queued
<1>12. CASE RunResize
  <2>1. \A c \in ToSet(queue') : c \in ToSet(queue)
    BY <1>12, Elements DEF RunResize, Runs
  <2> QED BY <1>12, <2>1, SentFrame DEF RunResize, ClosedInv, Queued
<1>13. CASE RunClose
  <2>1. \A c \in ToSet(queue') : c \in ToSet(queue)
    BY <1>13, Elements DEF RunClose, Runs
  <2>2. kt.closed
    BY <1>13, Elements DEF RunClose, Runs, ClosedInv, Queued
  <2> QED BY <1>13, <2>1, <2>2, RemovedFrame DEF RunClose, ClosedInv, Queued
<1>14. CASE ConnectFails
  BY <1>14 DEF ConnectFails, ClosedInv, Queued
<1>15. CASE SpawnTasks
  BY <1>15 DEF SpawnTasks, Terminal, ClosedInv, Queued
<1>16. CASE CheckClosed
  <2>1. [rust EXCEPT !.term = "open"] \in Terminal
    BY DEF Terminal
  <2> QED BY <1>16, <2>1, RemovedFrame DEF CheckClosed, Terminal, ClosedInv, Queued
<1>17. CASE AssignHandle
  BY <1>17 DEF AssignHandle, Connection, ClosedInv, Queued
<1>18. CASE SendPendingResize
  BY <1>18, SentFrame DEF SendPendingResize, Connection, ClosedInv, Queued
<1>19. CASE ReadAttached
  BY <1>19 DEF ReadAttached, Terminal, kotlin, ClosedInv, Queued
<1>20. CASE ReportAttached
  BY <1>20 DEF ReportAttached, Connection, Terminal, Call, Goto, Return, Idle, At,
       Threads, ClosePcs, ClosedInv, Queued
<1>21. CASE ReadPong
  BY <1>21 DEF ReadPong, Terminal, kotlin, ClosedInv, Queued
<1>22. CASE ReadEnds
  BY <1>22 DEF ReadEnds, Connection, Terminal, ReportDisconnected, ClosedInv, Queued
<1>23. CASE WriterTakes
  BY <1>23 DEF WriterTakes, Terminal, kotlin, ClosedInv, Queued
<1>24. CASE WriterFails
  BY <1>24 DEF WriterFails, Connection, Terminal, ReportDisconnected, ClosedInv, Queued
<1>25. CASE BeatTimesOut
  BY <1>25 DEF BeatTimesOut, Connection, Terminal, ReportDisconnected, ClosedInv, Queued
<1>26. CASE Beat
  BY <1>26, BeatenFrame DEF Beat, kotlin, ClosedInv, Queued
<1>27. CASE AgentAttaches
  BY <1>27 DEF AgentAttaches, kotlin, ClosedInv, Queued
<1>28. CASE LinkFails
  BY <1>28 DEF LinkFails, kotlin, ClosedInv, Queued
<1>29. CASE UNCHANGED vars
  BY <1>29 DEF vars, ClosedInv, Queued
<1> QED BY <1>1, <1>2, <1>3, <1>4, <1>5, <1>6, <1>7, <1>8, <1>9, <1>10, <1>11, <1>12,
     <1>13, <1>14, <1>15, <1>16, <1>17, <1>18, <1>19, <1>20, <1>21, <1>22, <1>23,
     <1>24, <1>25, <1>26, <1>27, <1>28, <1>29 DEF Next, Resize, Closing, Worker,
     Reader, Writer, Heartbeat
\* A handle stays that of a terminal with a writer, so an exception of its
\* resize shows that it is lost.
LEMMA OpenStep ==
  ASSUME TypeOK, ClosedInv, OpenInv
  PROVE  [Next]_vars => OpenInv'
<1> USE DEF TypeOK
<1>1. ASSUME NEW s \in Sizes, SyncSizeFromView(s) PROVE OpenInv'
  <2>1. Given' => Given
    BY <1>1 DEF SyncSizeFromView, kotlin, Call, Goto, Return, Idle, At, Threads,
         Holder, Given, InHand, At, Queued
  <2>2. Queued("connect")' <=> Queued("connect")
    BY <1>1 DEF SyncSizeFromView, Queued, kotlin
  <2> QED BY <1>1, <2>1, <2>2 DEF SyncSizeFromView, kotlin, OpenInv,
       CrashesOnlyWhenLost, Crashed
<1>2. CASE Leave
  <2>1. Given' => Given
    BY <1>2 DEF Leave, kotlin, Call, Goto, Return, Idle, At, Threads, Holder, Given,
         InHand, At, Queued
  <2>2. Queued("connect")' <=> Queued("connect")
    BY <1>2 DEF Leave, Queued, kotlin
  <2> QED BY <1>2, <2>1, <2>2 DEF Leave, kotlin, OpenInv, CrashesOnlyWhenLost, Crashed
<1>3. CASE TimerFires
  <2>1. Given' => Given
    BY <1>3 DEF TimerFires, Connection, Call, Goto, Return, Idle, At, Threads, Given,
         InHand, At, Queued
  <2>2. Queued("connect")' <=> Queued("connect")
    BY <1>3 DEF TimerFires, Queued
  <2> QED BY <1>3, <2>1, <2>2 DEF TimerFires, Connection, OpenInv, CrashesOnlyWhenLost,
       Crashed
<1>4. ASSUME NEW t \in Threads, ResizeConnectionToView(t) PROVE OpenInv'
  <2>1. Given' => Given
    BY <1>4 DEF ResizeConnectionToView, kotlin, Call, Goto, Return, Idle, At, Threads,
         Given, InHand, At, Queued
  <2>2. Queued("connect")' <=> Queued("connect")
    BY <1>4 DEF ResizeConnectionToView, Queued, kotlin
  <2> QED BY <1>4, <2>1, <2>2 DEF ResizeConnectionToView, kotlin, OpenInv,
       CrashesOnlyWhenLost, Crashed
<1>5. ASSUME NEW t \in Threads, Mark(t) PROVE OpenInv'
  <2>1. Given' => Given
    BY <1>5 DEF Mark, kotlin, Call, Goto, Return, Idle, At, Threads, Holder, Given,
         InHand, At, Queued
  <2>2. Queued("connect")' <=> Queued("connect")
    BY <1>5 DEF Mark, Queued, kotlin
  <2> QED BY <1>5, <2>1, <2>2 DEF Mark, kotlin, OpenInv, CrashesOnlyWhenLost, Crashed
<1>6. ASSUME NEW t \in Threads, Pend(t) PROVE OpenInv'
  <2>1. Given' => Given
    BY <1>6 DEF Pend, Connection, Call, Goto, Return, Idle, At, Threads, Given, InHand,
         At, Queued
  <2>2. Queued("connect")' <=> Queued("connect")
    BY <1>6 DEF Pend, Queued
  <2> QED BY <1>6, <2>1, <2>2 DEF Pend, Connection, OpenInv, CrashesOnlyWhenLost,
       Crashed
<1>7. ASSUME NEW t \in Threads, Enqueue(t) PROVE OpenInv'
  <2>1. Command("resize", thr[t].size) \in Commands /\ Command("resize",
       thr[t].size).op = "resize"
    BY CommandType DEF Call
  <2>2. ToSet(Append(queue, Command("resize",
       thr[t].size))) = ToSet(queue) \cup {Command("resize", thr[t].size)}
    BY <2>1, Elements
  <2>3. \A c \in ToSet(queue') : c \in ToSet(queue) \/ c.op = "resize"
    BY <1>7, <2>1, <2>2 DEF Enqueue
  <2>4. Given' => Given
    BY <1>7, <2>3 DEF Enqueue, Call, Goto, Return, Idle, At, Threads, Given, InHand,
         Queued
  <2>5. ~Queued("connect")
    BY <1>7 DEF Enqueue, Given, OpenInv
  <2>6. ~Queued("connect")'
    BY <1>7, <2>3, <2>5 DEF Queued
  <2>7. kt.shut => kt.closed
    BY DEF ClosedInv
  <2> QED BY <1>7, <2>1, <2>2, <2>3, <2>4, <2>5, <2>6, <2>7 DEF Enqueue, OpenInv,
       CrashesOnlyWhenLost, Crashed
<1>8. ASSUME NEW t \in Threads, Close(t) PROVE OpenInv'
  <2>1. Given' => Given
    BY <1>8 DEF Close, Connection, Call, Goto, Return, Idle, At, Threads, Given,
         InHand, At, Queued
  <2>2. Queued("connect")' <=> Queued("connect")
    BY <1>8 DEF Close, Queued
  <2> QED BY <1>8, <2>1, <2>2 DEF Close, Connection, OpenInv, CrashesOnlyWhenLost,
       Crashed
<1>9. ASSUME NEW t \in Threads, CloseTakesHandle(t) PROVE OpenInv'
  <2>1. Command("close", None) \in Commands /\ Command("close", None).op = "close"
    BY CommandType
  <2>2. ToSet(Append(queue, Command("close",
       None))) = ToSet(queue) \cup {Command("close", None)}
    BY <2>1, Elements
  <2>3. \A c \in ToSet(queue') : c \in ToSet(queue) \/ c.op = "close"
    BY <1>9, <2>1, <2>2 DEF CloseTakesHandle
  <2>4. Given' => Given
    BY <1>9, <2>3 DEF CloseTakesHandle, Connection, Call, Goto, Return, Idle, At,
         Threads, Given, InHand, Queued
  <2>5. thr[t].handle => ~Queued("connect")
    BY <1>9 DEF CloseTakesHandle, Given, InHand, OpenInv
  <2>6. Queued("connect")' => Queued("connect") /\ queue' = queue
    BY <1>9, <2>3, <2>5 DEF CloseTakesHandle, Queued
  <2>7. kt.closed
    BY <1>9 DEF CloseTakesHandle, At, ClosedInv
  <2> QED BY <1>9, <2>1, <2>2, <2>3, <2>4, <2>5, <2>6, <2>7 DEF CloseTakesHandle,
       OpenInv, CrashesOnlyWhenLost, Crashed, Connection
<1>10. ASSUME NEW t \in Threads, CloseShutsDown(t) PROVE OpenInv'
  <2>1. ToSet(queue') = {}
    BY <1>10, Elements DEF CloseShutsDown
  <2>2. Given' => Given
    BY <1>10, <2>1 DEF CloseShutsDown, Connection, Call, Goto, Return, Idle, At,
         Threads, Given, InHand, Queued
  <2>3. ~Queued("connect")'
    BY <2>1 DEF Queued
  <2> QED BY <1>10, <2>1, <2>2, <2>3 DEF CloseShutsDown, OpenInv, CrashesOnlyWhenLost,
       Crashed, Connection
<1>11. CASE RunConnect
  <2>1. \A c \in ToSet(queue') : c \in ToSet(queue)
    BY <1>11, Elements DEF RunConnect, Runs
  <2>2. Queued("connect")
    BY <1>11, Elements DEF RunConnect, Runs, Queued
  <2>3. queue' = <<>>
    BY <1>11, <2>2 DEF RunConnect, OpenInv
  <2>4. ~Queued("connect")'
    BY <2>3, Elements DEF Queued
  <2>5. Given' => Given
    BY <1>11, <2>1 DEF RunConnect, Given, InHand, At, Queued
  <2> QED BY <1>11, <2>1, <2>2, <2>3, <2>4, <2>5 DEF RunConnect, OpenInv,
       CrashesOnlyWhenLost, Crashed
<1>12. CASE RunResize
  <2>1. \A c \in ToSet(queue') : c \in ToSet(queue)
    BY <1>12, Elements DEF RunResize, Runs
  <2>2. Queued("resize") /\ ~Queued("connect")
    BY <1>12, Elements DEF RunResize, Runs, Queued, OpenInv, Command
  <2>3. ~Queued("connect")'
    BY <2>1, <2>2 DEF Queued
  <2>4. Given' => Given
    BY <1>12, <2>1 DEF RunResize, Runs, Given, InHand, At, Queued
  <2>5. ~Accepts(rust) => kt.closed \/ rust.writer = "ended"
    BY <2>2 DEF Given, OpenInv, ClosedInv, Accepts, Terminal
  <2> QED BY <1>12, <2>1, <2>2, <2>3, <2>4, <2>5, SentFrame DEF RunResize, OpenInv,
       CrashesOnlyWhenLost, Crashed, Runs
<1>13. CASE RunClose
  <2>1. \A c \in ToSet(queue') : c \in ToSet(queue)
    BY <1>13, Elements DEF RunClose, Runs
  <2>2. Queued("close") /\ ~Queued("connect")
    BY <1>13, Elements DEF RunClose, Runs, Queued, OpenInv, Command
  <2>3. ~Queued("connect")'
    BY <2>1, <2>2 DEF Queued
  <2>4. Given' => Given
    BY <1>13, <2>1 DEF RunClose, Runs, Given, InHand, At, Queued
  <2>5. rust'.term = "none" <=> rust.term = "none"
    BY <1>13, RemovedFrame DEF RunClose, Terminal
  <2> QED BY <1>13, <2>1, <2>2, <2>3, <2>4, <2>5, RemovedFrame DEF RunClose, OpenInv,
       CrashesOnlyWhenLost, Crashed, Runs
<1>14. CASE ConnectFails
  <2>1. Given' => Given
    BY <1>14 DEF ConnectFails, Given, InHand, At, Queued
  <2>2. Queued("connect")' <=> Queued("connect")
    BY <1>14 DEF ConnectFails, Queued
  <2> QED BY <1>14, <2>1, <2>2 DEF ConnectFails, OpenInv, CrashesOnlyWhenLost, Crashed
<1>15. CASE SpawnTasks
  <2>1. Given' => Given
    BY <1>15 DEF SpawnTasks, Terminal, Given, InHand, At, Queued
  <2>2. Queued("connect")' <=> Queued("connect")
    BY <1>15 DEF SpawnTasks, Queued
  <2> QED BY <1>15, <2>1, <2>2 DEF SpawnTasks, OpenInv, CrashesOnlyWhenLost, Crashed,
       Terminal
<1>16. CASE CheckClosed
  <2>1. [rust EXCEPT !.term = "open"] \in Terminal
    BY DEF Terminal
  <2>2. rust'.term # "none" /\ rust'.writer = rust.writer
    BY <1>16, <2>1, RemovedFrame DEF CheckClosed, Terminal
  <2>3. Queued("connect")' <=> Queued("connect")
    BY <1>16 DEF CheckClosed, Queued
  <2> QED BY <1>16, <2>1, <2>2, <2>3 DEF CheckClosed, OpenInv, CrashesOnlyWhenLost,
       Crashed
<1>17. CASE AssignHandle
  <2>1. Given
    BY <1>17 DEF AssignHandle, Given
  <2>2. Queued("connect")' <=> Queued("connect")
    BY <1>17 DEF AssignHandle, Queued
  <2> QED BY <1>17, <2>1, <2>2 DEF AssignHandle, OpenInv, CrashesOnlyWhenLost, Crashed,
       Connection
<1>18. CASE SendPendingResize
  <2>1. Given' => Given
    BY <1>18 DEF SendPendingResize, Connection, Given, InHand, At, Queued
  <2>2. Queued("connect")' <=> Queued("connect")
    BY <1>18 DEF SendPendingResize, Queued
  <2> QED BY <1>18, <2>1, <2>2, SentFrame DEF SendPendingResize, Connection, OpenInv,
       CrashesOnlyWhenLost, Crashed
<1>19. CASE ReadAttached
  <2>1. Given' => Given
    BY <1>19 DEF ReadAttached, Terminal, kotlin, Given, InHand, At, Queued
  <2>2. Queued("connect")' <=> Queued("connect")
    BY <1>19 DEF ReadAttached, Queued, kotlin
  <2> QED BY <1>19, <2>1, <2>2 DEF ReadAttached, Terminal, kotlin, OpenInv,
       CrashesOnlyWhenLost, Crashed
<1>20. CASE ReportAttached
  <2>1. Given' => Given
    BY <1>20 DEF ReportAttached, Connection, Terminal, Call, Goto, Return, Idle, At,
         Threads, Given, InHand, At, Queued
  <2>2. Queued("connect")' <=> Queued("connect")
    BY <1>20 DEF ReportAttached, Queued
  <2> QED BY <1>20, <2>1, <2>2 DEF ReportAttached, Connection, Terminal, OpenInv,
       CrashesOnlyWhenLost, Crashed
<1>21. CASE ReadPong
  <2>1. Given' => Given
    BY <1>21 DEF ReadPong, Terminal, kotlin, Given, InHand, At, Queued
  <2>2. Queued("connect")' <=> Queued("connect")
    BY <1>21 DEF ReadPong, Queued, kotlin
  <2> QED BY <1>21, <2>1, <2>2 DEF ReadPong, Terminal, kotlin, OpenInv,
       CrashesOnlyWhenLost, Crashed
<1>22. CASE ReadEnds
  <2>1. Given' => Given
    BY <1>22 DEF ReadEnds, Connection, Terminal, ReportDisconnected, Given, InHand, At,
         Queued
  <2>2. Queued("connect")' <=> Queued("connect")
    BY <1>22 DEF ReadEnds, Queued, ReportDisconnected
  <2> QED BY <1>22, <2>1, <2>2 DEF ReadEnds, Connection, Terminal, ReportDisconnected,
       OpenInv, CrashesOnlyWhenLost, Crashed
<1>23. CASE WriterTakes
  <2>1. Given' => Given
    BY <1>23 DEF WriterTakes, Terminal, kotlin, Given, InHand, At, Queued
  <2>2. Queued("connect")' <=> Queued("connect")
    BY <1>23 DEF WriterTakes, Queued, kotlin
  <2> QED BY <1>23, <2>1, <2>2 DEF WriterTakes, Terminal, kotlin, OpenInv,
       CrashesOnlyWhenLost, Crashed
<1>24. CASE WriterFails
  <2>1. Given' => Given
    BY <1>24 DEF WriterFails, Connection, Terminal, ReportDisconnected, Given, InHand,
         At, Queued
  <2>2. Queued("connect")' <=> Queued("connect")
    BY <1>24 DEF WriterFails, Queued, ReportDisconnected
  <2> QED BY <1>24, <2>1, <2>2 DEF WriterFails, Connection, Terminal,
       ReportDisconnected, OpenInv, CrashesOnlyWhenLost, Crashed
<1>25. CASE BeatTimesOut
  <2>1. Given' => Given
    BY <1>25 DEF BeatTimesOut, Connection, Terminal, ReportDisconnected, Given, InHand,
         At, Queued
  <2>2. Queued("connect")' <=> Queued("connect")
    BY <1>25 DEF BeatTimesOut, Queued, ReportDisconnected
  <2> QED BY <1>25, <2>1, <2>2 DEF BeatTimesOut, Connection, Terminal,
       ReportDisconnected, OpenInv, CrashesOnlyWhenLost, Crashed
<1>26. CASE Beat
  <2>1. Given' => Given
    BY <1>26 DEF Beat, kotlin, Given, InHand, At, Queued
  <2>2. Queued("connect")' <=> Queued("connect")
    BY <1>26 DEF Beat, Queued, kotlin
  <2> QED BY <1>26, <2>1, <2>2, BeatenFrame DEF Beat, kotlin, OpenInv,
       CrashesOnlyWhenLost, Crashed
<1>27. CASE AgentAttaches
  <2>1. Given' => Given
    BY <1>27 DEF AgentAttaches, kotlin, Given, InHand, At, Queued
  <2>2. Queued("connect")' <=> Queued("connect")
    BY <1>27 DEF AgentAttaches, Queued, kotlin
  <2> QED BY <1>27, <2>1, <2>2 DEF AgentAttaches, kotlin, OpenInv, CrashesOnlyWhenLost,
       Crashed
<1>28. CASE LinkFails
  <2>1. Given' => Given
    BY <1>28 DEF LinkFails, kotlin, Given, InHand, At, Queued
  <2>2. Queued("connect")' <=> Queued("connect")
    BY <1>28 DEF LinkFails, Queued, kotlin
  <2> QED BY <1>28, <2>1, <2>2 DEF LinkFails, kotlin, OpenInv, CrashesOnlyWhenLost,
       Crashed
<1>29. CASE UNCHANGED vars
  <2>1. Given' <=> Given
    BY <1>29 DEF vars, Given, InHand, At, Queued
  <2>2. Queued("connect")' <=> Queued("connect")
    BY <1>29 DEF vars, Queued
  <2> QED BY <1>29, <2>1, <2>2 DEF vars, OpenInv, CrashesOnlyWhenLost, Crashed
<1> QED BY <1>1, <1>2, <1>3, <1>4, <1>5, <1>6, <1>7, <1>8, <1>9, <1>10, <1>11, <1>12,
     <1>13, <1>14, <1>15, <1>16, <1>17, <1>18, <1>19, <1>20, <1>21, <1>22, <1>23,
     <1>24, <1>25, <1>26, <1>27, <1>28, <1>29 DEF Next, Resize, Closing, Worker,
     Reader, Writer, Heartbeat
-----------------------------------------------------------------------------
(* Leaks *)

\* A step that is no part of close(), and leaves its handle alone.
ClosersKept ==
  /\ \A x \in Threads :
       /\ InHand(x)' <=> InHand(x)
       /\ Emptied(x)' <=> Emptied(x)
       /\ At(x, "shutdown")' <=> At(x, "shutdown")
       /\ Yet(x)' => Yet(x)
  /\ kt'.handle = kt.handle /\ kt'.shut = kt.shut

\* A step that gets no terminal into TERMINALS, and takes no close of one away.
EndsKept ==
  /\ rust'.term = "open" => rust.term = "open" /\ (CloseQueued => CloseQueued')
  /\ history'.overtaken = history.overtaken /\ history'.discarded = history.discarded
  /\ worker \in {"assign", "crashed"} => worker' \in {"assign", "crashed"}

LEMMA KeptStep ==
  ASSUME LeakInv, ClosersKept, EndsKept
  PROVE  LeakInv'
BY DEF LeakInv, ClosersKept, EndsKept, Raced

\* Every step knows where the handle of an open terminal is.
LEMMA LeakStep ==
  ASSUME TypeOK, ClosedInv, OpenInv, LeakInv
  PROVE  [Next]_vars => LeakInv'
<1> USE DEF TypeOK
<1>1. ASSUME NEW s \in Sizes, SyncSizeFromView(s) PROVE LeakInv'
  <2>1. ClosersKept
    BY <1>1 DEF SyncSizeFromView, kotlin, Call, Goto, Return, Idle, At, Threads,
         Holder, ClosersKept, InHand, Emptied, Yet
  <2>2. EndsKept
    BY <1>1 DEF SyncSizeFromView, EndsKept, CloseQueued, kotlin
  <2> QED BY <1>1, <2>1, <2>2, KeptStep DEF SyncSizeFromView
<1>2. CASE Leave
  <2>1. ClosersKept
    BY <1>2 DEF Leave, kotlin, Call, Goto, Return, Idle, At, Threads, Holder,
         ClosersKept, InHand, Emptied, Yet
  <2>2. EndsKept
    BY <1>2 DEF Leave, EndsKept, CloseQueued, kotlin
  <2> QED BY <1>2, <2>1, <2>2, KeptStep DEF Leave
<1>3. CASE TimerFires
  <2>1. ClosersKept
    BY <1>3 DEF TimerFires, Connection, Call, Goto, Return, Idle, At, Threads,
         ClosersKept, InHand, Emptied, Yet, ClosedInv, ClosePcs
  <2>2. EndsKept
    BY <1>3 DEF TimerFires, EndsKept, CloseQueued
  <2> QED BY <1>3, <2>1, <2>2, KeptStep DEF TimerFires
<1>4. ASSUME NEW t \in Threads, ResizeConnectionToView(t) PROVE LeakInv'
  <2>1. ClosersKept
    BY <1>4 DEF ResizeConnectionToView, kotlin, Call, Goto, Return, Idle, At, Threads,
         ClosersKept, InHand, Emptied, Yet
  <2>2. EndsKept
    BY <1>4 DEF ResizeConnectionToView, EndsKept, CloseQueued, kotlin
  <2> QED BY <1>4, <2>1, <2>2, KeptStep DEF ResizeConnectionToView
<1>5. ASSUME NEW t \in Threads, Mark(t) PROVE LeakInv'
  <2>1. ClosersKept
    BY <1>5 DEF Mark, kotlin, Call, Goto, Return, Idle, At, Threads, Holder,
         ClosersKept, InHand, Emptied, Yet
  <2>2. EndsKept
    BY <1>5 DEF Mark, EndsKept, CloseQueued, kotlin
  <2> QED BY <1>5, <2>1, <2>2, KeptStep DEF Mark
<1>6. ASSUME NEW t \in Threads, Pend(t) PROVE LeakInv'
  <2>1. ClosersKept
    BY <1>6 DEF Pend, Connection, Call, Goto, Return, Idle, At, Threads, ClosersKept,
         InHand, Emptied, Yet
  <2>2. EndsKept
    BY <1>6 DEF Pend, EndsKept, CloseQueued
  <2> QED BY <1>6, <2>1, <2>2, KeptStep DEF Pend
<1>7. ASSUME NEW t \in Threads, Enqueue(t) PROVE LeakInv'
  <2>1. ClosersKept
    BY <1>7 DEF Enqueue, Call, Goto, Return, Idle, At, Threads, ClosersKept, InHand,
         Emptied, Yet
  <2>2. Command("resize", thr[t].size) \in Commands /\ Command("resize",
       thr[t].size).op = "resize"
    BY CommandType DEF Call
  <2>3. ToSet(Append(queue, Command("resize",
       thr[t].size))) = ToSet(queue) \cup {Command("resize", thr[t].size)}
    BY <2>2, Elements
  <2>4. EndsKept
    BY <1>7, <2>3 DEF Enqueue, EndsKept, CloseQueued, History
  <2> QED BY <1>7, <2>1, <2>2, <2>3, <2>4, KeptStep DEF Enqueue
<1>8. ASSUME NEW t \in Threads, Close(t) PROVE LeakInv'
  <2>1. \A x \in Threads \ {t} : thr'[x] = thr[x]
    BY <1>8 DEF Close
  <2>2. ~InHand(t) /\ ~At(t, "shutdown") /\ ~Emptied(t) /\ Yet(t)
    BY <1>8 DEF Close, At, InHand, Emptied, Yet
  <2>3. thr'[t].pc = "take" /\ thr'[t].handle = kt.handle
    BY <1>8 DEF Close, Call
  <2>4. kt'.handle = kt.handle /\ kt'.shut = kt.shut /\ kt'.timer = kt.timer
    BY <1>8 DEF Close, Connection
  <2>5. CloseQueued' <=> CloseQueued
    BY <1>8 DEF Close, CloseQueued
  <2> QED BY <1>8, <2>1, <2>2, <2>3, <2>4, <2>5 DEF Close, LeakInv, InHand, Emptied,
       Yet, At, Raced
<1>9. ASSUME NEW t \in Threads, CloseTakesHandle(t) PROVE LeakInv'
  <2>1. \A x \in Threads \ {t} : thr'[x] = thr[x]
    BY <1>9 DEF CloseTakesHandle, Goto, Return
  <2>2. thr'[t].pc \in {"shutdown",
       "idle"} /\ (thr[t].handle /\ kt.shut => thr'[t].pc = "idle")
    BY <1>9 DEF CloseTakesHandle, Goto, Return, Idle, Call
  <2>3. ~kt'.handle /\ kt'.shut = kt.shut /\ ~kt'.timer
    BY <1>9 DEF CloseTakesHandle, Connection
  <2>4. Command("close", None) \in Commands /\ Command("close", None).op = "close"
    BY CommandType
  <2>5. ToSet(Append(queue, Command("close",
       None))) = ToSet(queue) \cup {Command("close", None)}
    BY <2>4, Elements
  <2>6. CloseQueued => CloseQueued'
    BY <1>9, <2>5 DEF CloseTakesHandle, CloseQueued
  <2>7. thr[t].handle /\ ~kt.shut => CloseQueued'
    BY <1>9, <2>5 DEF CloseTakesHandle, CloseQueued
  <2>8. t # "reader" /\ (t = "ui" => holder'.left)
    BY <1>9 DEF CloseTakesHandle, At, ClosedInv, ClosePcs
  <2>9. InHand(t) \/ Emptied(t)
    BY <1>9 DEF CloseTakesHandle, InHand, Emptied
  <2>10. \A x \in Threads : InHand(x)' => x # t /\ x # "reader"
    BY <2>1, <2>2 DEF InHand, At, ClosedInv, ClosePcs
  <2>11. ~Yet(t)'
    BY <2>2, <2>3, <2>8 DEF Yet, Threads
  <2>12. ~Yet("reader")'
    BY <2>1, <2>8 DEF Yet, Threads, ClosedInv, ClosePcs
  <2>13. \A x, u \in Threads : InHand(x)' /\ Yet(u)' => x = u
    BY <2>8, <2>10, <2>11, <2>12 DEF Threads
  <2> QED BY <1>9, <2>1, <2>2, <2>3, <2>4, <2>5, <2>6, <2>7, <2>8, <2>9, <2>10, <2>11,
       <2>12, <2>13 DEF CloseTakesHandle, LeakInv, InHand, Emptied, Yet, At, Raced
<1>10. ASSUME NEW t \in Threads, CloseShutsDown(t) PROVE LeakInv'
  <2>1. \A x \in Threads \ {t} : thr'[x] = thr[x]
    BY <1>10 DEF CloseShutsDown, Return
  <2>2. thr'[t].pc = "idle" /\ Emptied(t)
    BY <1>10 DEF CloseShutsDown, Return, Idle, Emptied
  <2>3. kt'.handle = kt.handle /\ kt'.timer = kt.timer
    BY <1>10 DEF CloseShutsDown, Connection
  <2>4. CloseQueued \/ Raced => Raced'
    BY <1>10 DEF CloseShutsDown, CloseQueued, Raced, History
  <2>5. history'.overtaken = history.overtaken
    BY <1>10 DEF CloseShutsDown, History
  <2> QED BY <1>10, <2>1, <2>2, <2>3, <2>4, <2>5 DEF CloseShutsDown, LeakInv, InHand,
       Emptied, Yet, At
<1>11. CASE RunConnect
  <2>1. ClosersKept
    BY <1>11 DEF RunConnect, At, ClosersKept, InHand, Emptied, Yet
  <2>2. ToSet(queue) = ToSet(queue') \cup {Head(queue)}
    BY <1>11, Elements DEF RunConnect, Runs
  <2>3. CloseQueued => CloseQueued'
    BY <1>11, <2>2 DEF RunConnect, Runs, CloseQueued, Command
  <2>4. EndsKept
    BY <1>11, <2>3 DEF RunConnect, Runs, EndsKept
  <2> QED BY <1>11, <2>1, <2>2, <2>3, <2>4, KeptStep DEF RunConnect
<1>12. CASE RunResize
  <2>1. ClosersKept
    BY <1>12 DEF RunResize, At, ClosersKept, InHand, Emptied, Yet
  <2>2. ToSet(queue) = ToSet(queue') \cup {Head(queue)}
    BY <1>12, Elements DEF RunResize, Runs
  <2>3. CloseQueued => CloseQueued'
    BY <1>12, <2>2 DEF RunResize, Runs, CloseQueued, Command
  <2>4. EndsKept
    BY <1>12, <2>3, SentFrame DEF RunResize, Runs, EndsKept
  <2> QED BY <1>12, <2>1, <2>2, <2>3, <2>4, KeptStep DEF RunResize
<1>13. CASE RunClose
  <2>1. ClosersKept
    BY <1>13 DEF RunClose, At, ClosersKept, InHand, Emptied, Yet
  <2>2. EndsKept
    BY <1>13, RemovedFrame DEF RunClose, Runs, EndsKept, Terminal
  <2> QED BY <1>13, <2>1, <2>2, KeptStep DEF RunClose
<1>14. CASE ConnectFails
  <2>1. ClosersKept
    BY <1>14 DEF ConnectFails, At, ClosersKept, InHand, Emptied, Yet
  <2>2. EndsKept
    BY <1>14 DEF ConnectFails, EndsKept, CloseQueued
  <2> QED BY <1>14, <2>1, <2>2, KeptStep DEF ConnectFails
<1>15. CASE SpawnTasks
  <2>1. ClosersKept
    BY <1>15 DEF SpawnTasks, Terminal, At, ClosersKept, InHand, Emptied, Yet
  <2>2. EndsKept
    BY <1>15 DEF SpawnTasks, EndsKept, CloseQueued, Terminal
  <2> QED BY <1>15, <2>1, <2>2, KeptStep DEF SpawnTasks
<1>16. CASE CheckClosed
  <2>1. rust.term = "none"
    BY <1>16 DEF CheckClosed, OpenInv
  <2>2. ~kt.handle /\ \A x \in Threads : ~InHand(x)
    BY <2>1 DEF OpenInv, Given
  <2>3. [rust EXCEPT !.term = "open"] \in Terminal
    BY DEF Terminal
  <2>4. rust'.term = "open" => worker' = "assign"
    BY <1>16, <2>3, RemovedFrame DEF CheckClosed, Terminal
  <2>5. (\A x \in Threads : ~InHand(x)') /\ ~kt'.handle
    BY <1>16, <2>2 DEF CheckClosed, InHand, At
  <2> QED BY <1>16, <2>1, <2>2, <2>3, <2>4, <2>5 DEF CheckClosed, LeakInv
<1>17. CASE AssignHandle
  <2>1. kt'.handle /\ kt'.shut = kt.shut
    BY <1>17 DEF AssignHandle, Connection
  <2>2. history'.discarded = history.discarded
       /\ history'.overtaken = (history.overtaken \/ kt.closed)
    BY <1>17 DEF AssignHandle, History
  <2>3. kt.shut \/ (\E x \in Threads : Emptied(x)) => kt.closed
    BY DEF ClosedInv, Emptied, At
  <2>4. \A x \in Threads : (InHand(x)' <=> InHand(x))
       /\ (Emptied(x)' <=> Emptied(x)) /\ (At(x, "shutdown")' <=> At(x, "shutdown"))
    BY <1>17 DEF AssignHandle, InHand, Emptied, At
  <2>5. CloseQueued' <=> CloseQueued
    BY <1>17 DEF AssignHandle, CloseQueued
  <2> QED BY <1>17, <2>1, <2>2, <2>3, <2>4, <2>5 DEF AssignHandle, LeakInv, Raced
<1>18. CASE SendPendingResize
  <2>1. ClosersKept
    BY <1>18 DEF SendPendingResize, Connection, At, ClosersKept, InHand, Emptied, Yet
  <2>2. EndsKept
    BY <1>18, SentFrame DEF SendPendingResize, EndsKept, CloseQueued
  <2> QED BY <1>18, <2>1, <2>2, KeptStep DEF SendPendingResize
<1>19. CASE ReadAttached
  <2>1. ClosersKept
    BY <1>19 DEF ReadAttached, Terminal, kotlin, At, ClosersKept, InHand, Emptied, Yet
  <2>2. EndsKept
    BY <1>19 DEF ReadAttached, EndsKept, CloseQueued, Terminal, kotlin
  <2> QED BY <1>19, <2>1, <2>2, KeptStep DEF ReadAttached
<1>20. CASE ReportAttached
  <2>1. ClosersKept
    BY <1>20 DEF ReportAttached, Connection, Terminal, Call, Goto, Return, Idle, At,
         Threads, ClosersKept, InHand, Emptied, Yet, ClosedInv, ClosePcs
  <2>2. EndsKept
    BY <1>20 DEF ReportAttached, EndsKept, CloseQueued, Terminal
  <2> QED BY <1>20, <2>1, <2>2, KeptStep DEF ReportAttached
<1>21. CASE ReadPong
  <2>1. ClosersKept
    BY <1>21 DEF ReadPong, Terminal, kotlin, At, ClosersKept, InHand, Emptied, Yet
  <2>2. EndsKept
    BY <1>21 DEF ReadPong, EndsKept, CloseQueued, Terminal, kotlin
  <2> QED BY <1>21, <2>1, <2>2, KeptStep DEF ReadPong
<1>22. CASE ReadEnds
  <2>1. ClosersKept
    BY <1>22 DEF ReadEnds, Connection, Terminal, ReportDisconnected, At, ClosersKept,
         InHand, Emptied, Yet
  <2>2. EndsKept
    BY <1>22 DEF ReadEnds, EndsKept, CloseQueued, Terminal, ReportDisconnected
  <2> QED BY <1>22, <2>1, <2>2, KeptStep DEF ReadEnds
<1>23. CASE WriterTakes
  <2>1. ClosersKept
    BY <1>23 DEF WriterTakes, Terminal, kotlin, At, ClosersKept, InHand, Emptied, Yet
  <2>2. EndsKept
    BY <1>23 DEF WriterTakes, EndsKept, CloseQueued, Terminal, kotlin
  <2> QED BY <1>23, <2>1, <2>2, KeptStep DEF WriterTakes
<1>24. CASE WriterFails
  <2>1. ClosersKept
    BY <1>24 DEF WriterFails, Connection, Terminal, ReportDisconnected, At,
         ClosersKept, InHand, Emptied, Yet
  <2>2. EndsKept
    BY <1>24 DEF WriterFails, EndsKept, CloseQueued, Terminal, ReportDisconnected
  <2> QED BY <1>24, <2>1, <2>2, KeptStep DEF WriterFails
<1>25. CASE BeatTimesOut
  <2>1. ClosersKept
    BY <1>25 DEF BeatTimesOut, Connection, Terminal, ReportDisconnected, At,
         ClosersKept, InHand, Emptied, Yet
  <2>2. EndsKept
    BY <1>25 DEF BeatTimesOut, EndsKept, CloseQueued, Terminal, ReportDisconnected
  <2> QED BY <1>25, <2>1, <2>2, KeptStep DEF BeatTimesOut
<1>26. CASE Beat
  <2>1. ClosersKept
    BY <1>26 DEF Beat, kotlin, At, ClosersKept, InHand, Emptied, Yet
  <2>2. EndsKept
    BY <1>26, BeatenFrame DEF Beat, EndsKept, CloseQueued, kotlin
  <2> QED BY <1>26, <2>1, <2>2, KeptStep DEF Beat
<1>27. CASE AgentAttaches
  <2>1. ClosersKept
    BY <1>27 DEF AgentAttaches, kotlin, At, ClosersKept, InHand, Emptied, Yet
  <2>2. EndsKept
    BY <1>27 DEF AgentAttaches, EndsKept, CloseQueued, kotlin
  <2> QED BY <1>27, <2>1, <2>2, KeptStep DEF AgentAttaches
<1>28. CASE LinkFails
  <2>1. ClosersKept
    BY <1>28 DEF LinkFails, kotlin, At, ClosersKept, InHand, Emptied, Yet
  <2>2. EndsKept
    BY <1>28 DEF LinkFails, EndsKept, CloseQueued, kotlin
  <2> QED BY <1>28, <2>1, <2>2, KeptStep DEF LinkFails
<1>29. CASE UNCHANGED vars
  <2>1. ClosersKept
    BY <1>29 DEF vars, At, ClosersKept, InHand, Emptied, Yet
  <2>2. EndsKept
    BY <1>29 DEF vars, EndsKept, CloseQueued
  <2> QED BY <1>29, <2>1, <2>2, KeptStep DEF vars
<1> QED BY <1>1, <1>2, <1>3, <1>4, <1>5, <1>6, <1>7, <1>8, <1>9, <1>10, <1>11, <1>12,
     <1>13, <1>14, <1>15, <1>16, <1>17, <1>18, <1>19, <1>20, <1>21, <1>22, <1>23,
     <1>24, <1>25, <1>26, <1>27, <1>28, <1>29 DEF Next, Resize, Closing, Worker,
     Reader, Writer, Heartbeat
-----------------------------------------------------------------------------
(* The last size of a sequence of commands. *)

\* The command appended last is the last.
LEMMA LastAppended ==
  ASSUME NEW s \in Seq(Commands), NEW z \in Sizes \cup {None}
  PROVE  EndsWith(Append(s, Command("resize", z)), z)
<1>1. Command("resize", z) \in Commands
  BY CommandType
<1>2. /\ Len(Append(s, Command("resize", z))) = Len(s) + 1 /\ Len(s) \in Nat
      /\ Append(s, Command("resize", z))[Len(s) + 1] = Command("resize", z)
  BY <1>1
<1> QED BY <1>2 DEF EndsWith

\* Another command does not change which resize is the last.
LEMMA OtherAppended ==
  ASSUME NEW s \in Seq(Commands), NEW c \in Commands, c.op # "resize", NEW z
  PROVE  /\ EndsWith(s, z) => EndsWith(Append(s, c), z)
         /\ ~Resizes(s) => ~Resizes(Append(s, c))
<1>1. /\ Len(Append(s, c)) = Len(s) + 1 /\ Len(s) \in Nat
      /\ Append(s, c)[Len(s) + 1] = c
      /\ \A i \in 1..Len(s) : Append(s, c)[i] = s[i]
  OBVIOUS
<1>2. EndsWith(s, z) => EndsWith(Append(s, c), z)
  BY <1>1 DEF EndsWith
<1> QED BY <1>2, Elements DEF Resizes

\* When the head is taken, the last resize is still there, or it was the head.
LEMMA LastTail ==
  ASSUME NEW s \in Seq(Commands), s # <<>>, NEW z, EndsWith(s, z)
  PROVE  EndsWith(Tail(s), z) \/ (Head(s) = Command("resize", z) /\ ~Resizes(Tail(s)))
<1>1. /\ Len(s) \in Nat \ {0} /\ Len(Tail(s)) = Len(s) - 1 /\ Head(s) = s[1]
      /\ \A i \in 1..Len(Tail(s)) : Tail(s)[i] = s[i + 1]
  OBVIOUS
<1>2. PICK i \in 1..Len(s) :
        s[i] = Command("resize", z) /\ \A j \in (i + 1)..Len(s) : s[j].op # "resize"
  BY DEF EndsWith
<1>3. CASE i = 1
  <2>1. \A j \in 1..Len(Tail(s)) : Tail(s)[j].op # "resize"
    BY <1>1, <1>2, <1>3
  <2>2. ~Resizes(Tail(s))
    BY <2>1 DEF Resizes, ToSet
  <2> QED BY <1>1, <1>2, <1>3, <2>2
<1>4. CASE i # 1
  <2>1. i - 1 \in 1..Len(Tail(s)) /\ Tail(s)[i - 1] = Command("resize", z)
    BY <1>1, <1>2, <1>4
  <2>2. \A j \in ((i - 1) + 1)..Len(Tail(s)) : Tail(s)[j].op # "resize"
    BY <1>1, <1>2
  <2> QED BY <2>1, <2>2 DEF EndsWith
<1> QED BY <1>3, <1>4

\* With a resize at its head, a queue that leads to a size ends with it.
LEMMA ResizeHead ==
  ASSUME NEW s \in Seq(Commands), s # <<>>, Head(s).op = "resize"
  PROVE  Resizes(s)
BY Elements DEF Resizes
-----------------------------------------------------------------------------
(* Sizes *)

\* No size is queued, and no session known, before the tasks were spawned.
LEMMA StartStep ==
  ASSUME TypeOK, ClosedInv, OpenInv, StartInv
  PROVE  [Next]_vars => StartInv'
<1> USE DEF TypeOK
<1>1. ASSUME NEW s \in Sizes, SyncSizeFromView(s) PROVE StartInv'
  <2>1. Queued("connect")' <=> Queued("connect")
    BY <1>1 DEF SyncSizeFromView, kotlin, Queued
  <2> QED BY <1>1, <2>1 DEF SyncSizeFromView, kotlin, StartInv
<1>2. CASE Leave
  <2>1. Queued("connect")' <=> Queued("connect")
    BY <1>2 DEF Leave, kotlin, Queued
  <2> QED BY <1>2, <2>1 DEF Leave, kotlin, StartInv
<1>3. CASE TimerFires
  <2>1. Queued("connect")' <=> Queued("connect")
    BY <1>3 DEF TimerFires, Queued
  <2> QED BY <1>3, <2>1 DEF TimerFires, StartInv, Connection
<1>4. ASSUME NEW t \in Threads, ResizeConnectionToView(t) PROVE StartInv'
  <2>1. Queued("connect")' <=> Queued("connect")
    BY <1>4 DEF ResizeConnectionToView, kotlin, Queued
  <2> QED BY <1>4, <2>1 DEF ResizeConnectionToView, kotlin, StartInv
<1>5. ASSUME NEW t \in Threads, Mark(t) PROVE StartInv'
  <2>1. Queued("connect")' <=> Queued("connect")
    BY <1>5 DEF Mark, kotlin, Queued
  <2> QED BY <1>5, <2>1 DEF Mark, kotlin, StartInv
<1>6. ASSUME NEW t \in Threads, Pend(t) PROVE StartInv'
  <2>1. Queued("connect")' <=> Queued("connect")
    BY <1>6 DEF Pend, Queued
  <2> QED BY <1>6, <2>1 DEF Pend, StartInv
<1>7. ASSUME NEW t \in Threads, Enqueue(t) PROVE StartInv'
  <2>1. ~Queued("connect")
    BY <1>7 DEF Enqueue, Given, OpenInv
  <2>2. Command("resize", thr[t].size) \in Commands
       /\ Command("resize", thr[t].size).op = "resize"
    BY CommandType DEF Call
  <2>3. ToSet(Append(queue, Command("resize", thr[t].size)))
       = ToSet(queue) \cup {Command("resize", thr[t].size)}
    BY <2>2, Elements
  <2>4. ~Queued("connect")'
    BY <1>7, <2>1, <2>2, <2>3 DEF Enqueue, Queued
  <2> QED BY <1>7, <2>4 DEF Enqueue, StartInv, History
<1>8. ASSUME NEW t \in Threads, Close(t) PROVE StartInv'
  <2>1. Queued("connect")' <=> Queued("connect")
    BY <1>8 DEF Close, Queued
  <2> QED BY <1>8, <2>1 DEF Close, StartInv
<1>9. ASSUME NEW t \in Threads, CloseTakesHandle(t) PROVE StartInv'
  <2>1. Command("close", None) \in Commands /\ Command("close", None).op = "close"
    BY CommandType
  <2>2. ToSet(Append(queue, Command("close", None)))
       = ToSet(queue) \cup {Command("close", None)}
    BY <2>1, Elements
  <2>3. Queued("connect")' => Queued("connect")
    BY <1>9, <2>1, <2>2 DEF CloseTakesHandle, Queued
  <2> QED BY <1>9, <2>3 DEF CloseTakesHandle, StartInv
<1>10. ASSUME NEW t \in Threads, CloseShutsDown(t) PROVE StartInv'
  <2>1. ~Queued("connect")'
    BY <1>10, Elements DEF CloseShutsDown, Queued
  <2> QED BY <1>10, <2>1 DEF CloseShutsDown, StartInv, History
<1>11. CASE RunConnect
  <2>1. Queued("connect")' => Queued("connect")
    BY <1>11, Elements DEF RunConnect, Runs, Queued
  <2>2. Queued("connect") => rust.reader = "none" /\ ~rust.session /\ history.queued = None
    BY DEF StartInv
  <2> QED BY <1>11, <2>1, <2>2, Elements DEF RunConnect, Runs, Queued, StartInv
<1>12. CASE RunResize
  <2>1. Queued("connect")' => Queued("connect")
    BY <1>12, Elements DEF RunResize, Runs, Queued
  <2>2. Queued("connect") => rust.reader = "none" /\ ~rust.session /\ history.queued = None
    BY DEF StartInv
  <2> QED BY <1>12, <2>1, <2>2, SentFrame, Elements DEF RunResize, Runs, Queued,
       StartInv
<1>13. CASE RunClose
  <2>1. Queued("connect")' => Queued("connect")
    BY <1>13, Elements DEF RunClose, Runs, Queued
  <2>2. Queued("connect") => rust.reader = "none" /\ ~rust.session /\ history.queued = None
    BY DEF StartInv
  <2> QED BY <1>13, <2>1, <2>2, RemovedFrame, Elements DEF RunClose, Runs, Queued,
       StartInv
<1>14. CASE ConnectFails
  <2>1. Queued("connect")' <=> Queued("connect")
    BY <1>14 DEF ConnectFails, Queued
  <2> QED BY <1>14, <2>1 DEF ConnectFails, StartInv
<1>15. CASE SpawnTasks
  <2>1. Queued("connect")' <=> Queued("connect")
    BY <1>15 DEF SpawnTasks, Queued
  <2> QED BY <1>15, <2>1 DEF SpawnTasks, StartInv, OpenInv, Terminal, Network
<1>16. CASE CheckClosed
  <2>1. [rust EXCEPT !.term = "open"] \in Terminal
    BY DEF Terminal
  <2>2. Queued("connect")' <=> Queued("connect")
    BY <1>16 DEF CheckClosed, Queued
  <2> QED BY <1>16, <2>1, <2>2, RemovedFrame DEF CheckClosed, Terminal, StartInv
<1>17. CASE AssignHandle
  <2>1. Queued("connect")' <=> Queued("connect")
    BY <1>17 DEF AssignHandle, Queued
  <2> QED BY <1>17, <2>1 DEF AssignHandle, StartInv, History
<1>18. CASE SendPendingResize
  <2>1. Queued("connect")' <=> Queued("connect")
    BY <1>18 DEF SendPendingResize, Queued
  <2> QED BY <1>18, <2>1, SentFrame DEF SendPendingResize, StartInv
<1>19. CASE ReadAttached
  <2>1. Queued("connect")' <=> Queued("connect")
    BY <1>19 DEF ReadAttached, kotlin, Queued
  <2> QED BY <1>19, <2>1 DEF ReadAttached, kotlin, Reading, StartInv, Terminal, Network
<1>20. CASE ReportAttached
  <2>1. Queued("connect")' <=> Queued("connect")
    BY <1>20 DEF ReportAttached, kotlin, Queued
  <2> QED BY <1>20, <2>1 DEF ReportAttached, kotlin, StartInv, Terminal
<1>21. CASE ReadPong
  <2>1. Queued("connect")' <=> Queued("connect")
    BY <1>21 DEF ReadPong, kotlin, Queued
  <2> QED BY <1>21, <2>1 DEF ReadPong, kotlin, Reading, StartInv, Terminal, Network
<1>22. CASE ReadEnds
  <2>1. Queued("connect")' <=> Queued("connect")
    BY <1>22 DEF ReadEnds, kotlin, ReportDisconnected, Queued
  <2> QED BY <1>22, <2>1 DEF ReadEnds, kotlin, ReportDisconnected, Reading, StartInv,
       Terminal
<1>23. CASE WriterTakes
  <2>1. Queued("connect")' <=> Queued("connect")
    BY <1>23 DEF WriterTakes, kotlin, Queued
  <2> QED BY <1>23, <2>1 DEF WriterTakes, kotlin, StartInv, Terminal, Network
<1>24. CASE WriterFails
  <2>1. Queued("connect")' <=> Queued("connect")
    BY <1>24 DEF WriterFails, kotlin, ReportDisconnected, Queued
  <2> QED BY <1>24, <2>1 DEF WriterFails, kotlin, ReportDisconnected, StartInv,
       Terminal, Network
<1>25. CASE BeatTimesOut
  <2>1. Queued("connect")' <=> Queued("connect")
    BY <1>25 DEF BeatTimesOut, kotlin, ReportDisconnected, Queued
  <2> QED BY <1>25, <2>1 DEF BeatTimesOut, kotlin, ReportDisconnected, StartInv,
       Terminal
<1>26. CASE Beat
  <2>1. Queued("connect")' <=> Queued("connect")
    BY <1>26 DEF Beat, kotlin, Queued
  <2> QED BY <1>26, <2>1, BeatenFrame DEF Beat, kotlin, StartInv
<1>27. CASE AgentAttaches
  <2>1. Queued("connect")' <=> Queued("connect")
    BY <1>27 DEF AgentAttaches, kotlin, Queued
  <2> QED BY <1>27, <2>1 DEF AgentAttaches, kotlin, StartInv, Network
<1>28. CASE LinkFails
  <2>1. Queued("connect")' <=> Queued("connect")
    BY <1>28 DEF LinkFails, kotlin, Queued
  <2> QED BY <1>28, <2>1 DEF LinkFails, kotlin, StartInv, Network
<1>29. CASE UNCHANGED vars
  <2>1. Queued("connect")' <=> Queued("connect")
    BY <1>29 DEF vars, Queued
  <2> QED BY <1>29, <2>1 DEF vars, StartInv
<1> QED BY <1>1, <1>2, <1>3, <1>4, <1>5, <1>6, <1>7, <1>8, <1>9, <1>10, <1>11, <1>12,
       <1>13, <1>14, <1>15, <1>16, <1>17, <1>18, <1>19, <1>20, <1>21, <1>22, <1>23,
       <1>24, <1>25, <1>26, <1>27, <1>28, <1>29 DEF Next, Resize, Closing, Worker,
       Reader, Writer, Heartbeat

\* What most steps leave alone.
SizeKept ==
  /\ Wanted' => Wanted
  /\ queue' = queue /\ history'.queued = history.queued
  /\ worker = "idle" => worker' = "idle"
  /\ rust'.session = rust.session /\ rust'.cmds = rust.cmds /\ net'.pty = net.pty

LEMMA SizeKeptStep == FollowInv /\ SizeKept => FollowInv'
BY DEF FollowInv, SizeKept, Follows, PtyFollows

\* The size queued last stays ahead of, and behind, no other.
LEMMA FollowStep ==
  ASSUME TypeOK, ClosedInv, StartInv, FollowInv
  PROVE  [Next]_vars => FollowInv'
<1> USE DEF TypeOK
<1>1. ASSUME NEW s \in Sizes, SyncSizeFromView(s) PROVE FollowInv'
  <2>1. SizeKept
    BY <1>1 DEF SyncSizeFromView, kotlin, SizeKept, Wanted, Crashed
  <2> QED BY <2>1, SizeKeptStep
<1>2. CASE Leave
  <2>1. SizeKept
    BY <1>2 DEF Leave, kotlin, SizeKept, Wanted, Crashed
  <2> QED BY <2>1, SizeKeptStep
<1>3. CASE TimerFires
  <2>1. SizeKept
    BY <1>3 DEF TimerFires, Connection, SizeKept, Wanted, Crashed
  <2> QED BY <2>1, SizeKeptStep
<1>4. ASSUME NEW t \in Threads, ResizeConnectionToView(t) PROVE FollowInv'
  <2>1. SizeKept
    BY <1>4 DEF ResizeConnectionToView, kotlin, SizeKept, Wanted, Crashed
  <2> QED BY <2>1, SizeKeptStep
<1>5. ASSUME NEW t \in Threads, Mark(t) PROVE FollowInv'
  <2>1. SizeKept
    BY <1>5 DEF Mark, kotlin, SizeKept, Wanted, Crashed
  <2> QED BY <2>1, SizeKeptStep
<1>6. ASSUME NEW t \in Threads, Pend(t) PROVE FollowInv'
  <2>1. SizeKept
    BY <1>6 DEF Pend, Connection, SizeKept, Wanted, Crashed
  <2> QED BY <2>1, SizeKeptStep
<1>7. ASSUME NEW t \in Threads, Enqueue(t) PROVE FollowInv'
  <2>1. SUFFICES ASSUME Wanted' PROVE rust'.session /\ Follows(history.queued)'
    BY DEF FollowInv
  <2>2. ~kt.shut /\ queue' = Append(queue, Command("resize", thr[t].size))
    BY <1>7, <2>1 DEF Enqueue, Wanted, Crashed
  <2>3. rust.session /\ history'.queued = thr[t].size
    BY <1>7, <2>1 DEF Enqueue, Wanted, History
  <2>4. thr[t].size \in Sizes \cup {None}
    BY DEF Call
  <2>5. EndsWith(queue, history.queued)'
    BY <2>2, <2>3, <2>4, LastAppended
  <2> QED BY <1>7, <2>3, <2>5 DEF Enqueue, Follows
<1>8. ASSUME NEW t \in Threads, Close(t) PROVE FollowInv'
  <2>1. ~Wanted'
    BY <1>8 DEF Close, Connection, Wanted, Threads
  <2> QED BY <2>1 DEF FollowInv
<1>9. ASSUME NEW t \in Threads, CloseTakesHandle(t) PROVE FollowInv'
  <2>1. ~Wanted'
    BY <1>9 DEF CloseTakesHandle, At, ClosedInv, Connection, Wanted
  <2> QED BY <2>1 DEF FollowInv
<1>10. ASSUME NEW t \in Threads, CloseShutsDown(t) PROVE FollowInv'
  <2>1. ~Wanted'
    BY <1>10 DEF CloseShutsDown, At, ClosedInv, Connection, Wanted
  <2> QED BY <2>1 DEF FollowInv
<1>11. CASE RunConnect
  <2>1. Queued("connect")
    BY <1>11, Elements DEF RunConnect, Runs, Queued
  <2>2. history'.queued = None
    BY <1>11, <2>1 DEF RunConnect, StartInv
  <2> QED BY <2>2 DEF FollowInv, Wanted
<1>12. CASE RunResize
  <2> DEFINE q == history.queued
  <2>1. SUFFICES ASSUME Wanted' PROVE rust'.session /\ Follows(q)'
    BY DEF FollowInv
  <2>2. Accepts(rust) /\ Wanted /\ worker' = "idle"
    BY <1>12, <2>1, SentFrame DEF RunResize, Runs, Wanted, Crashed
  <2>3. rust.session /\ Follows(q)
    BY <2>2 DEF FollowInv
  <2>4. /\ queue # <<>> /\ queue' = Tail(queue)
        /\ Head(queue) \in Commands /\ Head(queue).op = "resize"
    BY <1>12, HeadType DEF RunResize, Runs
  <2>5. rust'.cmds = Append(rust.cmds, Head(queue)) /\ rust'.session = rust.session
    BY <1>12, <2>2 DEF RunResize, SentTo, Terminal
  <2>6. history' = history
    BY <1>12 DEF RunResize
  <2>7. rust.cmds \in Seq(Commands)
    BY DEF Terminal
  <2>8. EndsWith(queue, q)
    BY <2>3, <2>4, ResizeHead DEF Follows
  <2>9. CASE EndsWith(queue', q)
    BY <2>3, <2>5, <2>6, <2>9 DEF Follows
  <2>10. CASE ~EndsWith(queue', q)
    <3>1. Head(queue) = Command("resize", q) /\ ~Resizes(queue')
      BY <2>4, <2>8, <2>10, LastTail
    <3>2. q \in Sizes \cup {None}
      BY DEF History
    <3>3. EndsWith(rust'.cmds, q)
      BY <2>5, <2>7, <3>1, <3>2, LastAppended
    <3> QED BY <2>2, <2>3, <2>5, <2>6, <3>1, <3>3 DEF Follows, PtyFollows
  <2> QED BY <2>9, <2>10
<1>13. CASE RunClose
  <2>1. Queued("close")
    BY <1>13, Elements DEF RunClose, Runs, Queued
  <2>2. ~Wanted'
    BY <1>13, <2>1 DEF RunClose, ClosedInv, Wanted
  <2> QED BY <2>2 DEF FollowInv
<1>14. CASE ConnectFails
  <2>1. SizeKept
    BY <1>14 DEF ConnectFails, SizeKept, Wanted, Crashed
  <2> QED BY <2>1, SizeKeptStep
<1>15. CASE SpawnTasks
  <2>1. history'.queued = None
    BY <1>15 DEF SpawnTasks, StartInv
  <2> QED BY <2>1 DEF FollowInv, Wanted
<1>16. CASE CheckClosed
  <2>1. CASE kt.closed
    BY <1>16, <2>1 DEF CheckClosed, FollowInv, Wanted
  <2>2. CASE ~kt.closed
    <3>1. SizeKept
      BY <1>16, <2>2 DEF CheckClosed, Terminal, SizeKept, Wanted, Crashed
    <3> QED BY <3>1, SizeKeptStep
  <2> QED BY <2>1, <2>2
<1>17. CASE AssignHandle
  <2>1. SizeKept
    BY <1>17 DEF AssignHandle, Connection, History, SizeKept, Wanted, Crashed
  <2> QED BY <2>1, SizeKeptStep
<1>18. CASE SendPendingResize
  <2>1. history' = history /\ queue' = queue /\ (Wanted' => Wanted)
    BY <1>18, SentFrame DEF SendPendingResize, Wanted, Crashed, Connection
  <2>2. rust'.session = rust.session
    BY <1>18, SentFrame DEF SendPendingResize
  <2>3. worker # "idle"
    BY <1>18 DEF SendPendingResize
  <2> QED BY <2>1, <2>2, <2>3 DEF FollowInv, Follows
<1>19. CASE ReadAttached
  <2>1. net.attach = "answered"
    BY <1>19 DEF ReadAttached
  <2>2. ~rust.session
    BY <2>1 DEF StartInv
  <2>3. ~Wanted
    BY <2>2 DEF FollowInv
  <2>4. ~Wanted'
    BY <1>19, <2>3 DEF ReadAttached, kotlin, Wanted, Crashed, Terminal, Network
  <2> QED BY <2>4 DEF FollowInv
<1>20. CASE ReportAttached
  <2>1. SizeKept
    BY <1>20 DEF ReportAttached, kotlin, Connection, Terminal, SizeKept, Wanted, Crashed
  <2> QED BY <2>1, SizeKeptStep
<1>21. CASE ReadPong
  <2>1. SizeKept
    BY <1>21 DEF ReadPong, kotlin, Terminal, Network, SizeKept, Wanted, Crashed
  <2> QED BY <2>1, SizeKeptStep
<1>22. CASE ReadEnds
  <2>1. SizeKept
    BY <1>22 DEF ReadEnds, kotlin, ReportDisconnected, Connection, Terminal, SizeKept,
       Wanted, Crashed
  <2> QED BY <2>1, SizeKeptStep
<1>23. CASE WriterTakes
  <2> DEFINE q == history.queued
  <2> DEFINE c == Head(rust.cmds)
  <2>1. SUFFICES ASSUME Wanted' PROVE rust'.session /\ Follows(q)'
    BY DEF FollowInv
  <2>2. rust.cmds \in Seq(Commands) /\ rust.cmds # <<>>
    BY <1>23 DEF WriterTakes, Terminal
  <2>3. c.op # "close" /\ rust'.cmds = Tail(rust.cmds)
    BY <1>23, <2>1 DEF WriterTakes, Wanted, Terminal
  <2>4. Wanted /\ rust'.session = rust.session
    BY <1>23, <2>1 DEF WriterTakes, kotlin, Wanted, Crashed, Terminal, Network
  <2>5. rust.session /\ Follows(q)
    BY <2>4 DEF FollowInv
  <2>6. net.link = "up"
    BY <2>4 DEF Wanted
  <2>7. net'.pty = IF c.op = "resize" THEN c.size ELSE net.pty
    BY <1>23, <2>5, <2>6 DEF WriterTakes, Network
  <2>8. PtyFollows(q) => PtyFollows(q)'
    <3>1. SUFFICES ASSUME PtyFollows(q) PROVE EndsWith(rust'.cmds,
       q) \/ (~Resizes(rust'.cmds) /\ net'.pty = q)
      BY <1>23 DEF WriterTakes, PtyFollows
    <3>2. CASE EndsWith(rust.cmds, q)
      <4>1. EndsWith(rust'.cmds, q) \/ (c = Command("resize",
       q) /\ ~Resizes(rust'.cmds))
        BY <2>2, <2>3, <3>2, LastTail
      <4>2. c = Command("resize", q) => net'.pty = q
        BY <2>7 DEF Command
      <4> QED BY <4>1, <4>2
    <3>3. CASE ~Resizes(rust.cmds) /\ net.pty = q
      <4>1. c.op # "resize" /\ ~Resizes(rust'.cmds)
        BY <2>2, <2>3, <3>3, Elements DEF Resizes
      <4> QED BY <2>7, <3>3, <4>1
    <3> QED BY <3>1, <3>2, <3>3 DEF PtyFollows
  <2> QED BY <1>23, <2>4, <2>5, <2>8 DEF WriterTakes, kotlin, Follows
<1>24. CASE WriterFails
  <2>1. ~Wanted'
    BY <1>24 DEF WriterFails, Wanted, Terminal
  <2> QED BY <2>1 DEF FollowInv
<1>25. CASE BeatTimesOut
  <2>1. SizeKept
    BY <1>25 DEF BeatTimesOut, kotlin, ReportDisconnected, Connection, Terminal,
       SizeKept, Wanted, Crashed
  <2> QED BY <2>1, SizeKeptStep
<1>26. CASE Beat
  <2>1. history' = history /\ queue' = queue /\ worker' = worker /\ net' = net
    BY <1>26 DEF Beat, kotlin
  <2>2. Wanted' => Wanted
    BY <1>26, <2>1, BeatenFrame DEF Beat, kotlin, Wanted, Crashed
  <2>3. rust'.session = rust.session
    BY <1>26, BeatenFrame DEF Beat
  <2>4. Command("ping", None) \in Commands /\ Command("ping", None).op = "ping"
    BY CommandType
  <2>5. rust'.cmds = rust.cmds \/ rust'.cmds = Append(rust.cmds, Command("ping", None))
    BY <1>26 DEF Beat, Beaten, Terminal
  <2>6. rust.cmds \in Seq(Commands)
    BY DEF Terminal
  <2>7. PtyFollows(history.queued) => PtyFollows(history.queued)'
    BY <2>1, <2>4, <2>5, <2>6, OtherAppended DEF PtyFollows
  <2> QED BY <2>1, <2>2, <2>3, <2>7 DEF FollowInv, Follows
<1>27. CASE AgentAttaches
  <2>1. ~rust.session
    BY <1>27 DEF AgentAttaches, StartInv
  <2>2. ~Wanted
    BY <2>1 DEF FollowInv
  <2>3. ~Wanted'
    BY <1>27, <2>2 DEF AgentAttaches, kotlin, Wanted, Crashed, Network
  <2> QED BY <2>3 DEF FollowInv
<1>28. CASE LinkFails
  <2>1. SizeKept
    BY <1>28 DEF LinkFails, kotlin, Network, SizeKept, Wanted, Crashed
  <2> QED BY <2>1, SizeKeptStep
<1>29. CASE UNCHANGED vars
  <2>1. SizeKept
    BY <1>29 DEF vars, SizeKept, Wanted, Crashed
  <2> QED BY <2>1, SizeKeptStep
<1> QED BY <1>1, <1>2, <1>3, <1>4, <1>5, <1>6, <1>7, <1>8, <1>9, <1>10, <1>11, <1>12,
       <1>13, <1>14, <1>15, <1>16, <1>17, <1>18, <1>19, <1>20, <1>21, <1>22, <1>23,
       <1>24, <1>25, <1>26, <1>27, <1>28, <1>29 DEF Next, Resize, Closing, Worker,
       Reader, Writer, Heartbeat
-----------------------------------------------------------------------------
(* The theorems *)

LEMMA InitIInv == Init => IInv
<1> SUFFICES ASSUME Init PROVE IInv
  OBVIOUS
<1>1. /\ \E s, last \in Sizes \cup {None} :
           holder = [size |-> s, lastSent |-> last, left |-> FALSE, layouts |-> 0]
      /\ \E s \in Sizes \cup {None} :
           kt = [handle |-> FALSE, closed |-> FALSE, connected |-> FALSE, pending |-> s,
                 timer |-> TRUE, shut |-> FALSE]
  BY DEF Init
<1>2. /\ \A t \in Threads : thr[t] = Idle
      /\ thr \in [Threads -> Call]
  BY DEF Init, Idle, Call
<1>3. Command("connect", None) \in Commands /\ Command("connect", None).op = "connect"
  BY CommandType
<1>4. \A c \in ToSet(queue) : c = Command("connect", None)
  BY <1>3, Elements DEF Init, ToSet
<1>5. /\ holder \in Holder /\ kt \in Connection
      /\ rust \in Terminal /\ net \in Network /\ history \in History
  <2>1. 0 \in 0..MaxLayouts /\ 0 \in 0..SilentBeats /\ <<>> \in Seq(Commands)
    BY SizesAssumption
  <2>2. holder \in Holder /\ kt \in Connection
    BY <1>1, <2>1 DEF Holder, Connection
  <2>3. rust \in Terminal
    BY <2>1 DEF Init, NewTerminal, Terminal
  <2> QED BY <2>2, <2>3 DEF Init, Network, History
<1>6. TypeOK
  BY <1>2, <1>3, <1>5 DEF Init, TypeOK
<1>7. SessionInv
  BY <1>1 DEF Init, NewTerminal, SessionInv, AttachedHasSession
<1>8. ClosedInv
  BY <1>1, <1>2, <1>3, <1>4
  DEF Init, NewTerminal, ClosedInv, ClosePcs, Queued, Idle, Threads
<1>9. OpenInv
  BY <1>1, <1>2, <1>3, <1>4
  DEF Init, NewTerminal, OpenInv, CrashesOnlyWhenLost, Crashed, Given, InHand, At, Queued,
      Idle
<1>10. LeakInv
  BY <1>1, <1>2 DEF Init, NewTerminal, LeakInv, InHand, At, Idle
<1>11. StartInv
  BY DEF Init, NewTerminal, StartInv
<1>12. FollowInv
  BY DEF Init, FollowInv, Wanted
<1> QED BY <1>6, <1>7, <1>8, <1>9, <1>10, <1>11, <1>12 DEF IInv

LEMMA StepIInv == IInv /\ [Next]_vars => IInv'
BY TypeStep, SessionStep, ClosedStep, OpenStep, LeakStep, StartStep, FollowStep DEF IInv

\* Every reachable state has its type.
THEOREM TypeCorrect == Spec => []TypeOK
<1>1. IInv => TypeOK
  BY DEF IInv
<1> QED BY <1>1, InitIInv, StepIInv, PTL DEF Spec

\* The strengthening that the theorems below follow from is an invariant.
THEOREM Inductive == Spec => []IInv
BY InitIInv, StepIInv, PTL DEF Spec

\* When the app takes a terminal for attached, the writer task of android_jni.rs
\* knows the session, and drops no resize for want of one.
THEOREM AttachedKnowsSession == Spec => []AttachedHasSession
<1>1. IInv => AttachedHasSession
  BY DEF IInv, SessionInv
<1> QED BY <1>1, Inductive, PTL

\* No exception of resize() or close() ends the app while the connection is open
\* and its writer task runs.
THEOREM OpenTerminalDoesNotCrash == Spec => []CrashesOnlyWhenLost
<1>1. IInv => CrashesOnlyWhenLost
  BY DEF IInv, OpenInv
<1> QED BY <1>1, Inductive, PTL

\* A terminal left in TERMINALS by a connection that was closed was left there by
\* shutdownNow, or by the assignment of a handle that close() did not see.
THEOREM LeaksAreRaces == Spec => []LeakedOnlyByRace
<1>1. IInv => LeakedOnlyByRace
  <2> SUFFICES ASSUME IInv, kt.shut, rust.term = "open", worker = "idle", queue = <<>>,
                      At("ui", "idle"), At("timer", "idle")
               PROVE  history.discarded \/ history.overtaken
    BY DEF LeakedOnlyByRace
  <2>1. ~CloseQueued
    BY DEF CloseQueued, ToSet
  <2>2. \A t \in Threads : ~InHand(t)
    BY DEF IInv, ClosedInv, ClosePcs, InHand, At, Threads
  <2> QED BY <2>1, <2>2 DEF IInv, LeakInv, Raced
<1> QED BY <1>1, Inductive, PTL

\* The size that resize() queued last once the session was known is the one the
\* PTY has when everything was passed on, whichever thread queued it and whatever
\* pendingResize held.
THEOREM LastQueuedSizeArrives == Spec => []QueuedSizeArrives
<1>1. IInv => QueuedSizeArrives
  <2> SUFFICES ASSUME IInv, Settled, Healthy, history.queued # None
               PROVE  net.pty = history.queued
    BY DEF QueuedSizeArrives
  <2>1. Wanted
    BY DEF Wanted, Settled, Healthy, Crashed
  <2>2. ~EndsWith(queue, history.queued)
    BY DEF Settled, EndsWith
  <2>3. ~EndsWith(rust.cmds, history.queued)
    BY DEF Settled, Resizes, ToSet, EndsWith, Command, IInv, TypeOK, Terminal
  <2> QED BY <2>1, <2>2, <2>3 DEF IInv, FollowInv, Follows, PtyFollows
<1> QED BY <1>1, Inductive, PTL
=============================================================================
