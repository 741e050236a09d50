---------------------------- MODULE NativeTerminal ----------------------------
(***************************************************************************)
(* One remote terminal of the Android app, from the view to the agent: the *)
(* holder that watches the view's size, a NativeP2pTerminalConnection with *)
(* its executor and its timer, and the three tasks of android_jni.rs that  *)
(* read, write and keep alive the stream.                                  *)
(*                                                                         *)
(* Three threads call into the connection at once: the UI thread, the      *)
(* timer, and the reader task, whose callbacks run Kotlin code.  Nothing   *)
(* here holds a lock, so their steps interleave line by line.  Input goes  *)
(* the way of a resize, save that none is kept for later; only resizes are *)
(* modelled.  An exception that no one catches ends the app.               *)
(***************************************************************************)
EXTENDS Naturals, Sequences, SequencesExt

CONSTANTS
  Sizes,        \* pairs of columns and rows
  None,
  SilentBeats,  \* heartbeats without a Pong until a terminal is given up: 3
  MaxLayouts    \* bound on the changes of the view's size

ASSUME SizesAssumption ==
  /\ Sizes \subseteq Nat \X Nat
  /\ None \notin Sizes
  /\ SilentBeats \in Nat \ {0}
  /\ MaxLayouts \in Nat

VARIABLES
  holder,   \* the view, and what TermuxTerminalHolder knows of its size
  kt,       \* the fields of NativeP2pTerminalConnection
  thr,      \* the calls in progress on each thread
  queue,    \* the tasks of the executor
  worker,   \* where the executor's thread is, or that the app crashed
  told,     \* the last ConnectionState this connection reported
  rust,     \* the native terminal and its tasks
  net,      \* the stream, the agent and its PTY
  history

vars == <<holder, kt, thr, queue, worker, told, rust, net, history>>
kotlin == <<kt, queue, worker, told>>

Threads == {"ui", "reader", "timer"}
Command(op, s) == [op |-> op, size |-> s]
Commands == [op: {"connect", "resize", "ping", "close"}, size: Sizes \cup {None}]

\* size: that of the view, kept in the emulator of a dummy session
Holder == [size: Sizes \cup {None}, lastSent: Sizes \cup {None},
           left: BOOLEAN, layouts: 0..MaxLayouts]

Connection == [handle: BOOLEAN, closed: BOOLEAN, connected: BOOLEAN,
               pending: Sizes \cup {None}, timer: BOOLEAN, shut: BOOLEAN]

\* What a thread has still to do in resize() or close(), and has read already.
Call == [pc: {"idle", "resize", "mark", "pend", "enqueue", "close", "take", "shutdown"},
         size: Sizes \cup {None}, handle: BOOLEAN]
Idle == [pc |-> "idle", size |-> None, handle |-> FALSE]

\* term: the entry in TERMINALS      age: heartbeats since the last Pong
Terminal == [term: {"none", "open", "removed"}, session: BOOLEAN,
             reader: {"none", "reading", "attached", "ended"},
             writer: {"none", "running", "ended"}, beat: {"none", "running", "ended"},
             age: 0..SilentBeats, cmds: Seq(Commands)]
NewTerminal == [term |-> "none", session |-> FALSE, reader |-> "none", writer |-> "none",
                beat |-> "none", age |-> 0, cmds |-> <<>>]

\* attach: the agent's answer to the Attach frame
Network == [link: {"up", "down", "broken"}, attach: {"none", "asked", "answered", "done"},
            pong: BOOLEAN, pty: Sizes \cup {None}]

\* discarded: a native close was, before it ran    overtaken: a close() was, by
\* the assignment of the handle    queued: the last size passed on, once attached
History == [discarded: BOOLEAN, overtaken: BOOLEAN, queued: Sizes \cup {None}]

\* A holder that was just made, or one that connects again: it passes the size
\* it knows, and may remember having sent it, or one of other rows.
Init ==
  /\ \E s \in Sizes \cup {None} :
     \E last \in {None} \cup {l \in Sizes : s # None /\ l[1] = s[1]} :
       /\ holder = [size |-> s, lastSent |-> last, left |-> FALSE, layouts |-> 0]
       /\ kt = [handle |-> FALSE, closed |-> FALSE, connected |-> FALSE, pending |-> s,
                timer |-> TRUE, shut |-> FALSE]
  /\ thr = [t \in Threads |-> Idle]
  /\ queue = <<Command("connect", None)>>
  /\ worker = "idle"
  /\ told = "none"
  /\ rust = NewTerminal
  /\ net = [link |-> "up", attach |-> "none", pong |-> FALSE, pty |-> None]
  /\ history = [discarded |-> FALSE, overtaken |-> FALSE, queued |-> None]

At(t, pc) == thr[t].pc = pc
Goto(t, pc) == thr' = [thr EXCEPT ![t].pc = pc]
Return(t) == thr' = [thr EXCEPT ![t] = Idle]

\* An exception left a thread of the app, and with it went the process.
Crashed == worker = "crashed"
-----------------------------------------------------------------------------
(* The view and the holder. *)

\* The view was laid out, and the synchronisation its listener posted runs.  A
\* change of the rows alone is taken over but not sent.
SyncSizeFromView(s) ==
  /\ At("ui", "idle") /\ ~holder.left
  /\ holder.layouts < MaxLayouts
  /\ s # holder.size
  /\ holder' = [holder EXCEPT !.size = s, !.layouts = @ + 1]
  /\ IF holder.size = None \/ holder.size[1] # s[1] THEN Goto("ui", "resize") ELSE UNCHANGED thr
  /\ UNCHANGED <<kotlin, rust, net, history>>

\* resizeConnectionToView: a size that was sent before is not sent again.
ResizeConnectionToView(t) ==
  /\ At(t, "resize")
  /\ IF holder.size \in {None, holder.lastSent}
       THEN Return(t)
       ELSE thr' = [thr EXCEPT ![t].pc = "mark", ![t].size = holder.size]
  /\ UNCHANGED <<holder, kotlin, rust, net, history>>

\* It is marked as sent, and resize() looks at the handle.  Once close() has
\* returned the holder has another connection, or none.
Mark(t) ==
  /\ At(t, "mark")
  /\ holder' = [holder EXCEPT !.lastSent = thr[t].size]
  /\ IF holder.left /\ At("ui", "idle")
       THEN Return(t)
       ELSE Goto(t, IF kt.handle THEN "enqueue" ELSE "pend")
  /\ UNCHANGED <<kotlin, rust, net, history>>

Pend(t) ==
  /\ At(t, "pend")
  /\ kt' = [kt EXCEPT !.pending = thr[t].size]
  /\ Return(t)
  /\ UNCHANGED <<holder, queue, worker, told, rust, net, history>>

\* Variant for testing: no resize is queued behind another task.
EnqueueIfEmpty(t) ==
  /\ At(t, "enqueue")
  /\ queue' = IF queue = <<>> THEN <<Command("resize", thr[t].size)>> ELSE queue
  /\ history' = [history EXCEPT !.queued = IF rust.session THEN thr[t].size ELSE None]
  /\ Return(t)
  /\ UNCHANGED <<holder, kt, worker, told, rust, net>>

\* An executor that was shut down throws.
Enqueue(t) ==
  /\ At(t, "enqueue")
  /\ IF kt.shut THEN worker' = "crashed" /\ UNCHANGED queue
                ELSE /\ queue' = Append(queue, Command("resize", thr[t].size))
                     /\ UNCHANGED worker
  /\ history' = [history EXCEPT !.queued = IF rust.session THEN thr[t].size ELSE None]
  /\ Return(t)
  /\ UNCHANGED <<holder, kt, told, rust, net>>
-----------------------------------------------------------------------------
(* Closing, by the holder or by the timer. *)

\* Twenty seconds after connect().
TimerFires ==
  /\ kt.timer
  /\ kt' = [kt EXCEPT !.timer = FALSE]
  /\ IF kt.connected \/ kt.closed THEN UNCHANGED thr ELSE Goto("timer", "close")
  /\ UNCHANGED <<holder, queue, worker, told, rust, net, history>>

\* The holder is disposed of, and forgets what it sent, or starts another
\* connection.
Leave ==
  /\ At("ui", "idle") /\ ~holder.left
  /\ \E last \in {None, holder.lastSent} :
       holder' = [holder EXCEPT !.left = TRUE, !.lastSent = last]
  /\ Goto("ui", "close")
  /\ UNCHANGED <<kotlin, rust, net, history>>

\* Variant for testing: the connection is not marked as closed.
CloseUnmarked(t) ==
  /\ At(t, "close")
  /\ told' = IF t = "timer" THEN "disconnected" ELSE told
  /\ thr' = [thr EXCEPT ![t].pc = "take", ![t].handle = kt.handle]
  /\ UNCHANGED <<holder, kt, queue, worker, rust, net, history>>

\* The timer first reports that the connection is lost.
Close(t) ==
  /\ At(t, "close")
  /\ kt' = [kt EXCEPT !.closed = TRUE]
  /\ told' = IF t = "timer" THEN "disconnected" ELSE told
  /\ thr' = [thr EXCEPT ![t].pc = "take", ![t].handle = kt.handle]
  /\ UNCHANGED <<holder, queue, worker, rust, net, history>>

\* When the executor was shut down already, the exception ends the app, or,
\* on the timer, this call.
CloseTakesHandle(t) ==
  /\ At(t, "take")
  /\ kt' = [kt EXCEPT !.handle = FALSE, !.pending = None, !.timer = FALSE]
  /\ IF thr[t].handle /\ kt.shut
       THEN /\ worker' = IF t = "timer" THEN worker ELSE "crashed"
            /\ Return(t)
            /\ UNCHANGED queue
       ELSE /\ queue' = IF thr[t].handle THEN Append(queue, Command("close", None)) ELSE queue
            /\ Goto(t, "shutdown")
            /\ UNCHANGED worker
  /\ UNCHANGED <<holder, told, rust, net, history>>

\* shutdownNow discards the tasks that have not begun.
CloseShutsDown(t) ==
  /\ At(t, "shutdown")
  /\ kt' = [kt EXCEPT !.shut = TRUE]
  /\ queue' = <<>>
  /\ history' = [history EXCEPT !.discarded = @ \/ Command("close", None) \in ToSet(queue)]
  /\ Return(t)
  /\ UNCHANGED <<holder, worker, told, rust, net>>
-----------------------------------------------------------------------------
(* The executor's thread. *)

\* A command reaches the writer task while there is one.
Accepts(r) == r.term = "open" /\ r.writer = "running"
SentTo(r, command) == IF Accepts(r) THEN [r EXCEPT !.cmds = Append(@, command)] ELSE r

\* closeTerminal: the entry is removed, and the endpoint with it.
RemovedFrom(r) ==
  IF r.term = "open" THEN [SentTo(r, Command("close", None)) EXCEPT !.term = "removed"] ELSE r

Runs(op) == worker = "idle" /\ queue # <<>> /\ Head(queue).op = op

RunConnect ==
  /\ Runs("connect")
  /\ queue' = Tail(queue)
  /\ IF kt.closed THEN UNCHANGED <<worker, told>>
                  ELSE worker' = "connecting" /\ told' = "connecting"
  /\ UNCHANGED <<holder, kt, thr, rust, net, history>>

\* resizeTerminal throws when the terminal is no longer there, or its writer has
\* gone; nothing in this task catches that.
RunResize ==
  /\ Runs("resize")
  /\ queue' = Tail(queue)
  /\ rust' = SentTo(rust, Head(queue))
  /\ worker' = IF Accepts(rust) THEN "idle" ELSE "crashed"
  /\ UNCHANGED <<holder, kt, thr, told, net, history>>

RunClose ==
  /\ Runs("close")
  /\ queue' = Tail(queue)
  /\ rust' = RemovedFrom(rust)
  /\ UNCHANGED <<holder, kt, thr, worker, told, net, history>>

\* The handshake or the Attach frame fails, or ten seconds pass.
ConnectFails ==
  /\ worker = "connecting"
  /\ worker' = "idle"
  /\ told' = "disconnected"
  /\ UNCHANGED <<holder, kt, thr, queue, rust, net, history>>

\* The Attach frame is written and the tasks run before connectP2pTerminal
\* has made the entry and returned.
SpawnTasks ==
  /\ worker = "connecting"
  /\ worker' = "spawned"
  /\ net' = [net EXCEPT !.attach = "asked"]
  /\ rust' = [rust EXCEPT !.reader = "reading", !.writer = "running", !.beat = "running"]
  /\ UNCHANGED <<holder, kt, thr, queue, told, history>>

\* Variant for testing: a terminal nobody wants any more is kept.
CheckClosedKeeps ==
  /\ worker = "spawned"
  /\ worker' = IF kt.closed THEN "idle" ELSE "assign"
  /\ rust' = [rust EXCEPT !.term = "open"]
  /\ UNCHANGED <<holder, kt, thr, queue, told, net, history>>

\* The handle is returned; a connection closed in the meantime has no use for it.
CheckClosed ==
  /\ worker = "spawned"
  /\ worker' = IF kt.closed THEN "idle" ELSE "assign"
  /\ rust' = IF kt.closed THEN RemovedFrom([rust EXCEPT !.term = "open"])
                          ELSE [rust EXCEPT !.term = "open"]
  /\ UNCHANGED <<holder, kt, thr, queue, told, net, history>>

AssignHandle ==
  /\ worker = "assign"
  /\ worker' = "pending"
  /\ kt' = [kt EXCEPT !.handle = TRUE]
  /\ history' = [history EXCEPT !.overtaken = @ \/ kt.closed]
  /\ UNCHANGED <<holder, thr, queue, told, rust, net>>

\* Here the exception is caught, and connect() reports it.
SendPendingResize ==
  /\ worker = "pending"
  /\ worker' = "idle"
  /\ kt' = [kt EXCEPT !.pending = None]
  /\ IF kt.pending = None
       THEN UNCHANGED <<rust, told>>
       ELSE /\ rust' = SentTo(rust, Command("resize", kt.pending))
            /\ told' = IF Accepts(rust) THEN told ELSE "disconnected"
  /\ UNCHANGED <<holder, thr, queue, net, history>>

Worker == RunConnect \/ RunResize \/ RunClose \/ ConnectFails \/ SpawnTasks
            \/ CheckClosed \/ AssignHandle \/ SendPendingResize
-----------------------------------------------------------------------------
(* The tasks of android_jni.rs.  The reader waits for the callbacks it makes. *)

\* onState("disconnected") cancels the timer and is passed on.
ReportDisconnected ==
  /\ told' = "disconnected"
  /\ kt' = [kt EXCEPT !.timer = FALSE]

Reading == rust.reader = "reading" /\ At("reader", "idle")

\* Variant for testing: the session id is stored after the callback.
ReadAttachedLate ==
  /\ Reading
  /\ net.link = "up" /\ net.attach = "answered"
  /\ net' = [net EXCEPT !.attach = "done"]
  /\ rust' = [rust EXCEPT !.age = 0, !.reader = "attached"]
  /\ UNCHANGED <<holder, kotlin, thr, history>>

ReadAttached ==
  /\ Reading
  /\ net.link = "up" /\ net.attach = "answered"
  /\ net' = [net EXCEPT !.attach = "done"]
  /\ rust' = [rust EXCEPT !.session = TRUE, !.age = 0, !.reader = "attached"]
  /\ UNCHANGED <<holder, kotlin, thr, history>>

\* onState("attached"): the holder sends the size it has.
ReportAttached ==
  /\ rust.reader = "attached"
  /\ rust' = [rust EXCEPT !.reader = "reading"]
  /\ kt' = [kt EXCEPT !.connected = TRUE, !.timer = FALSE]
  /\ told' = "attached"
  /\ Goto("reader", "resize")
  /\ UNCHANGED <<holder, queue, worker, net, history>>

ReadPong ==
  /\ Reading
  /\ net.link = "up" /\ net.pong
  /\ net' = [net EXCEPT !.pong = FALSE]
  /\ rust' = [rust EXCEPT !.age = 0]
  /\ UNCHANGED <<holder, kotlin, thr, history>>

\* Variant for testing: a broken stream is read again.
ReadEndsRetries ==
  /\ Reading
  /\ ReportDisconnected
  /\ UNCHANGED <<holder, thr, queue, worker, rust, net, history>>

\* The stream ends, cannot be read, or stays silent for ten seconds before the
\* session is attached.
ReadEnds ==
  /\ Reading
  /\ rust' = [rust EXCEPT !.reader = "ended"]
  /\ ReportDisconnected
  /\ UNCHANGED <<holder, thr, queue, worker, net, history>>

\* Before the session is attached a resize is dropped.  The stream keeps the
\* order, so the agent takes what is written in the same step; frames written
\* to a link that is down are lost.
WriterTakes ==
  /\ rust.writer = "running" /\ rust.cmds # <<>>
  /\ LET c == Head(rust.cmds)
     IN  /\ c.op = "close" \/ ~rust.session \/ net.link # "broken"
         /\ rust' = IF c.op = "close" THEN [rust EXCEPT !.writer = "ended", !.cmds = <<>>]
                                      ELSE [rust EXCEPT !.cmds = Tail(@)]
         /\ net' = IF net.link = "up" /\ rust.session
                     THEN [net EXCEPT !.pty = IF c.op = "resize" THEN c.size ELSE @,
                                      !.pong = @ \/ c.op = "ping"]
                     ELSE net
  /\ UNCHANGED <<holder, kotlin, thr, history>>

\* The stream is found to be broken, for the reader too.
WriterFails ==
  /\ rust.writer = "running" /\ rust.cmds # <<>>
  /\ \/ Head(rust.cmds).op = "ping"
     \/ (Head(rust.cmds).op = "resize" /\ rust.session)
  /\ net.link # "up"
  /\ net' = [net EXCEPT !.link = "broken"]
  /\ rust' = [rust EXCEPT !.writer = "ended", !.cmds = <<>>]
  /\ ReportDisconnected
  /\ UNCHANGED <<holder, thr, queue, worker, history>>

\* More than thirty seconds since the last Pong.
Silent == rust.age >= SilentBeats

BeatTimesOut ==
  /\ rust.beat = "running" /\ rust.session
  /\ Silent
  /\ rust' = [rust EXCEPT !.beat = "ended"]
  /\ ReportDisconnected
  /\ UNCHANGED <<holder, thr, queue, worker, net, history>>

PingUnderWay ==
  net.pong \/ \E c \in ToSet(rust.cmds) : c.op = "ping"

\* A Ping behind another would be answered later and change nothing: one is
\* modelled.
Beaten(r) ==
  IF r.writer # "running" THEN [r EXCEPT !.beat = "ended"]
  ELSE IF PingUnderWay THEN [r EXCEPT !.age = @ + 1]
  ELSE [r EXCEPT !.cmds = Append(@, Command("ping", None)), !.age = @ + 1]

\* Variant for testing: sending a Ping counts as hearing of the agent.
BeatRefreshes ==
  /\ rust.beat = "running" /\ rust.session /\ rust.reader # "attached"
  /\ ~Silent
  /\ rust' = [Beaten(rust) EXCEPT !.age = 0]
  /\ UNCHANGED <<holder, kotlin, thr, net, history>>

\* Variant for testing: the time since the last Pong is not looked at.
BeatUnchecked ==
  /\ rust.beat = "running" /\ rust.session /\ rust.reader # "attached"
  /\ rust' = Beaten(rust)
  /\ UNCHANGED <<holder, kotlin, thr, net, history>>

\* Every ten seconds, which is time for the reader to finish a callback.  Until
\* the session is attached the heartbeat does nothing at all.
Beat ==
  /\ rust.beat = "running" /\ rust.session /\ rust.reader # "attached"
  /\ ~Silent
  /\ rust' = Beaten(rust)
  /\ UNCHANGED <<holder, kotlin, thr, net, history>>

Reader == ReadAttached \/ ReportAttached \/ ReadPong
Writer == WriterTakes \/ WriterFails
Heartbeat == BeatTimesOut \/ Beat
-----------------------------------------------------------------------------
(* The agent and the stream. *)

\* attach_or_create: a new session has the size in the Attach frame, which is
\* always the same; a running one keeps its own.
AgentAttaches ==
  /\ net.link = "up" /\ net.attach = "asked"
  /\ \E s \in Sizes : net' = [net EXCEPT !.attach = "answered", !.pty = s]
  /\ UNCHANGED <<holder, kotlin, thr, rust, history>>

\* From now on the network delivers nothing.
LinkFails ==
  /\ net.link = "up"
  /\ net' = [net EXCEPT !.link = "down"]
  /\ UNCHANGED <<holder, kotlin, thr, rust, history>>
-----------------------------------------------------------------------------
Resize(t) == ResizeConnectionToView(t) \/ Mark(t) \/ Pend(t) \/ Enqueue(t)
Closing(t) == Close(t) \/ CloseTakesHandle(t) \/ CloseShutsDown(t)

Next ==
  /\ ~Crashed
  /\ \/ (\E s \in Sizes : SyncSizeFromView(s)) \/ Leave
     \/ TimerFires
     \/ \E t \in Threads : Resize(t) \/ Closing(t)
     \/ Worker
     \/ Reader \/ ReadEnds \/ Writer \/ Heartbeat
     \/ AgentAttaches \/ LinkFails

Spec == Init /\ [][Next]_vars

\* Threads and tasks are scheduled.  A stream that broke, or whose endpoint was
\* dropped, ends for its reader.
FairSpec ==
  /\ Spec
  /\ \A t \in Threads : WF_vars(~Crashed /\ Resize(t)) /\ WF_vars(~Crashed /\ Closing(t))
  /\ WF_vars(Worker) /\ WF_vars(~Crashed /\ Reader)
  /\ WF_vars(~Crashed /\ Writer) /\ WF_vars(~Crashed /\ Heartbeat)
  /\ WF_vars(~Crashed /\ (rust.term = "removed" \/ net.link = "broken") /\ ReadEnds)
-----------------------------------------------------------------------------
(* Properties *)

TypeOK ==
  /\ holder \in Holder
  /\ kt \in Connection
  /\ thr \in [Threads -> Call]
  /\ queue \in Seq(Commands)
  /\ worker \in {"idle", "connecting", "spawned", "assign", "pending", "crashed"}
  /\ told \in {"none", "connecting", "attached", "disconnected"}
  /\ rust \in Terminal
  /\ net \in Network
  /\ history \in History

Resizes(s) == \E c \in ToSet(s) : c.op = "resize"

\* No size is on its way from the holder to the PTY.
Settled ==
  /\ \A t \in {"ui", "reader"} : At(t, "idle")
  /\ worker = "idle" /\ queue = <<>>
  /\ ~Resizes(rust.cmds)

Healthy == told = "attached" /\ ~kt.closed /\ rust.writer = "running" /\ net.link = "up"

\* Handoff, section 14: resize PTY when Android terminal size changes.
ViewSizeReachesPty == Settled /\ Healthy /\ holder.layouts > 0 => net.pty = holder.size

\* What does hold: the size last queued on the executor once the session was
\* known is the size the PTY ends up with, whatever other sizes the threads
\* passed before it by the queue or by pendingResize.
QueuedSizeArrives ==
  Settled /\ Healthy /\ history.queued # None => net.pty = history.queued

\* When the app takes the terminal for attached the writer knows the session:
\* no resize passed to it from then on is dropped for want of one.
AttachedHasSession == kt.connected => rust.session

\* A terminal that stays in TERMINALS after its connection was closed got there
\* in one of two ways: close() came between connect's last look at `closed` and
\* the assignment of the handle, or shutdownNow discarded the task that was to
\* close it.
LeakedOnlyByRace ==
  /\ kt.shut /\ rust.term = "open"
  /\ worker = "idle" /\ queue = <<>>
  /\ At("ui", "idle") /\ At("timer", "idle")
  => history.discarded \/ history.overtaken

\* The app can crash of an exception in resize() or close(), but not while the
\* connection is open and its writer runs.
CrashesOnlyWhenLost == Crashed => kt.closed \/ rust.writer = "ended"

\* An agent that falls silent is noticed: the terminal does not stay attached.
SilenceIsReported ==
  (told = "attached" /\ net.link # "up") ~> (told = "disconnected" \/ kt.closed \/ Crashed)

\* Once an attached terminal was closed natively, its tasks end.
TasksEnd ==
  (rust.term = "removed" /\ rust.session)
    ~> \/ rust.reader = "ended" /\ rust.writer = "ended" /\ rust.beat = "ended"
       \/ Crashed
=============================================================================
