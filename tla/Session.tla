------------------------------ MODULE Session ------------------------------
(***************************************************************************)
(* The daemon's one shell session ("main") and the connections that attach *)
(* to it: session.rs, pty.rs and the frame loop of transport_stream.rs.    *)
(*                                                                         *)
(* Threads: the PTY reader, one frame loop per connection, one output task *)
(* per attached connection.  They share a scrollback ring, a broadcast     *)
(* channel, the input owner, the sizes and the PTY, each under a lock of   *)
(* its own, and never hold two locks at once.                              *)
(*                                                                         *)
(* Output is a sequence of chunks numbered from 1; the ring and its replay *)
(* are counted in chunks here and in bytes in module Scrollback.  Every    *)
(* client of this repository sends Attach once, as its first frame.        *)
(***************************************************************************)
EXTENDS Naturals, Sequences

CONSTANTS
  Conns,          \* connections, each used once
  Clients,        \* client device ids
  ClientOf,       \* the device behind a connection: a reconnect has the same
  Sizes,          \* terminal sizes
  None,
  MaxOut,         \* bound on the chunks the shell prints
  MaxInput,       \* bound on the writes to the PTY
  Capacity,       \* of the broadcast channel (256 in pty.rs)
  RingChunks,     \* scrollback_bytes, in chunks
  ReplayChunks    \* scrollback_replay_bytes, in chunks

ASSUME SessionAssumption ==
  /\ ClientOf \in [Conns -> Clients]
  /\ None \notin Clients \cup Sizes
  /\ MaxOut \in Nat /\ MaxInput \in Nat
  /\ Capacity \in Nat \ {0}
  /\ RingChunks \in Nat /\ ReplayChunks \in Nat

VARIABLES
  shell,     \* "none" before the first attach, "running", "exited"
  owner,     \* input_owner
  attached,  \* attached_clients: written, never read
  size,      \* the cols and rows fields
  ptySize,   \* the size the PTY has
  appended,  \* chunks 1..appended went through append_scrollback
  sent,      \* chunks 1..sent went through the broadcast channel
  conn,      \* the connections
  writes,    \* history: writes to the PTY
  stale      \* history: writes by each connection since the owner was last
             \* set, made while its client was not the owner

pty == <<shell, appended, sent>>
sizes == <<size, ptySize>>
history == <<writes, stale>>
vars == <<shell, owner, attached, size, ptySize, appended, sent, conn, writes, stale>>

\* loop:   where the frame loop is ("attach" steps, a frame, or ended)
\* replay: the chunks of the Scrollback frame     live: those of Output frames
\* next:   the receiver's position in the channel task: the output task
Conn == [loop: {"new", "entered", "owner", "snapshot", "frames", "input", "resize", "closed"},
         want: Sizes \cup {None},
         replay: Seq(1..MaxOut),
         live: Seq(1..MaxOut),
         next: 1..(MaxOut + 1),
         task: {"none", "running", "ended"}]

NewConn == [loop |-> "new", want |-> None, replay |-> <<>>, live |-> <<>>,
            next |-> 1, task |-> "none"]

Init ==
  /\ shell = "none"
  /\ owner = None
  /\ attached = {}
  /\ size = None
  /\ ptySize = None
  /\ appended = 0
  /\ sent = 0
  /\ conn = [c \in Conns |-> NewConn]
  /\ writes = 0
  /\ stale = [c \in Conns |-> 0]

At(c, pc) == conn[c].loop = pc
-----------------------------------------------------------------------------
(* The PTY reader thread, one chunk at a time. *)

\* Variant for testing: reading runs ahead of broadcasting.
ReadAhead ==
  /\ shell = "running"
  /\ appended < MaxOut
  /\ appended' = appended + 1
  /\ UNCHANGED <<shell, owner, attached, sizes, sent, conn, history>>

\* A read returned bytes: they are appended to the ring ...
ReadChunk ==
  /\ shell = "running"
  /\ appended = sent
  /\ appended < MaxOut
  /\ appended' = appended + 1
  /\ UNCHANGED <<shell, owner, attached, sizes, sent, conn, history>>

\* Variant for testing: an empty chunk is sent when there is nothing to send.
BroadcastAnyway ==
  /\ sent < MaxOut
  /\ sent' = sent + 1
  /\ UNCHANGED <<shell, owner, attached, sizes, appended, conn, history>>

\* ... and then broadcast, whether or not anybody is subscribed.
Broadcast ==
  /\ sent < appended
  /\ sent' = sent + 1
  /\ UNCHANGED <<shell, owner, attached, sizes, appended, conn, history>>

\* The shell ends: the reader ends with it, the session stays in the map.
ShellExits ==
  /\ shell = "running"
  /\ appended = sent
  /\ shell' = "exited"
  /\ UNCHANGED <<owner, attached, sizes, appended, sent, conn, history>>
-----------------------------------------------------------------------------
(* A connection attaches: attach_or_create, then the two reply frames. *)

\* The session is found, or spawned with the size asked for, under one lock.
AttachEnter(c, s) ==
  /\ At(c, "new")
  /\ IF shell = "none"
     THEN shell' = "running" /\ ptySize' = s
     ELSE UNCHANGED <<shell, ptySize>>
  /\ conn' = [conn EXCEPT ![c].loop = "entered", ![c].want = s]
  /\ UNCHANGED <<owner, attached, size, appended, sent, history>>

\* The size fields, the client set and the input owner.  Each has a lock of
\* its own, but nothing reads the first two, so they change with the owner.
AttachOwn(c) ==
  /\ At(c, "entered")
  /\ size' = conn[c].want
  /\ attached' = attached \cup {ClientOf[c]}
  /\ owner' = ClientOf[c]
  /\ stale' = [d \in Conns |-> 0]
  /\ conn' = [conn EXCEPT ![c].loop = "owner"]
  /\ UNCHANGED <<pty, ptySize, writes>>

\* replay_scrollback: the newest chunks of the ring, as it is now.
ReplayFrom == LET kept == IF RingChunks < ReplayChunks THEN RingChunks ELSE ReplayChunks
              IN  IF appended > kept THEN appended - kept ELSE 0

AttachSnapshot(c) ==
  /\ At(c, "owner")
  /\ conn' = [conn EXCEPT ![c].loop = "snapshot",
                          ![c].replay = [i \in 1..(appended - ReplayFrom) |-> ReplayFrom + i]]
  /\ UNCHANGED <<pty, owner, attached, sizes, history>>

\* tx.subscribe(): the receiver starts after the last chunk sent.  The reply
\* frames are written and the output task is spawned.
AttachSubscribe(c) ==
  /\ At(c, "snapshot")
  /\ conn' = [conn EXCEPT ![c].loop = "frames", ![c].next = sent + 1, ![c].task = "running"]
  /\ UNCHANGED <<pty, owner, attached, sizes, history>>

\* No session could be spawned, or the client was gone before the replies were
\* written: the loop returns, and the receiver is dropped.
AttachFails(c) ==
  /\ At(c, "snapshot") \/ (At(c, "new") /\ shell = "none")
  /\ conn' = [conn EXCEPT ![c].loop = "closed"]
  /\ UNCHANGED <<pty, owner, attached, sizes, history>>
-----------------------------------------------------------------------------
(* The output task. *)

Lagged(c) == sent >= conn[c].next + Capacity

\* recv() returned the next chunk and it was written to the client.
Deliver(c) ==
  /\ conn[c].task = "running"
  /\ conn[c].next <= sent
  /\ ~Lagged(c)
  /\ conn' = [conn EXCEPT ![c].live = Append(@, conn[c].next), ![c].next = @ + 1]
  /\ UNCHANGED <<pty, owner, attached, sizes, history>>

\* Variant for testing: the task goes on with the oldest chunk still there.
OutputContinues(c) ==
  /\ conn[c].task = "running"
  /\ Lagged(c)
  /\ conn' = [conn EXCEPT ![c].next = sent + 1 - Capacity]
  /\ UNCHANGED <<pty, owner, attached, sizes, history>>

\* recv() returned Lagged, which ends the while-let: the task is gone, the
\* connection and its frame loop are not.
OutputEnds(c) ==
  /\ conn[c].task = "running"
  /\ Lagged(c)
  /\ conn' = [conn EXCEPT ![c].task = "ended"]
  /\ UNCHANGED <<pty, owner, attached, sizes, history>>

\* A write to the client failed: only noticed when there is output.
WriteFails(c) ==
  /\ conn[c].task = "running"
  /\ At(c, "closed")
  /\ conn[c].next <= sent
  /\ conn' = [conn EXCEPT ![c].task = "ended"]
  /\ UNCHANGED <<pty, owner, attached, sizes, history>>
-----------------------------------------------------------------------------
(* The frame loop after Attach. *)

\* Variant for testing: the owner is not compared.
InputUnchecked(c) ==
  /\ At(c, "frames")
  /\ conn' = [conn EXCEPT ![c].loop = "input"]
  /\ UNCHANGED <<pty, owner, attached, sizes, history>>

\* Input: the owner is compared under its lock, which is then released.
InputCheck(c) ==
  /\ At(c, "frames")
  /\ owner = ClientOf[c]
  /\ conn' = [conn EXCEPT ![c].loop = "input"]
  /\ UNCHANGED <<pty, owner, attached, sizes, history>>

\* not_input_owner ends the frame loop by `?`: the output task is left alone.
InputRefused(c) ==
  /\ At(c, "frames")
  /\ owner # ClientOf[c]
  /\ conn' = [conn EXCEPT ![c].loop = "closed"]
  /\ UNCHANGED <<pty, owner, attached, sizes, history>>

\* The bytes are written to the PTY under the writer's lock.
InputWrite(c) ==
  /\ At(c, "input")
  /\ writes < MaxInput
  /\ writes' = writes + 1
  /\ stale' = [stale EXCEPT ![c] = IF owner # ClientOf[c] THEN @ + 1 ELSE @]
  /\ conn' = [conn EXCEPT ![c].loop = "frames"]
  /\ UNCHANGED <<pty, owner, attached, sizes>>

\* Once the shell is gone the write may fail, which ends the loop.
InputFails(c) ==
  /\ At(c, "input")
  /\ shell = "exited"
  /\ conn' = [conn EXCEPT ![c].loop = "closed"]
  /\ UNCHANGED <<pty, owner, attached, sizes, history>>

\* Resize: the fields first, then the PTY, each under its lock; any attached
\* connection may.
ResizeFields(c, s) ==
  /\ At(c, "frames")
  /\ size' = s
  /\ conn' = [conn EXCEPT ![c].loop = "resize", ![c].want = s]
  /\ UNCHANGED <<pty, owner, attached, ptySize, history>>

ResizePty(c) ==
  /\ At(c, "resize")
  /\ ptySize' = conn[c].want
  /\ conn' = [conn EXCEPT ![c].loop = "frames"]
  /\ UNCHANGED <<pty, owner, attached, size, history>>

\* Detach only leaves the client set: output and ownership go on.
Detach(c) ==
  /\ At(c, "frames")
  /\ ClientOf[c] \in attached
  /\ attached' = attached \ {ClientOf[c]}
  /\ UNCHANGED <<pty, owner, sizes, conn, history>>

\* The client closed its side: the loop returns and aborts the output task.
Eof(c) ==
  /\ At(c, "new") \/ At(c, "frames")
  /\ conn' = [conn EXCEPT ![c].loop = "closed",
                          ![c].task = IF @ = "running" THEN "ended" ELSE @]
  /\ UNCHANGED <<pty, owner, attached, sizes, history>>

\* The connection broke: the read fails, `?` returns, the task is not aborted.
ReadFails(c) ==
  /\ At(c, "new") \/ At(c, "frames")
  /\ conn' = [conn EXCEPT ![c].loop = "closed"]
  /\ UNCHANGED <<pty, owner, attached, sizes, history>>
-----------------------------------------------------------------------------
Attach(c) == (\E s \in Sizes : AttachEnter(c, s)) \/ AttachOwn(c)
               \/ AttachSnapshot(c) \/ AttachSubscribe(c) \/ AttachFails(c)

Output(c) == Deliver(c) \/ OutputEnds(c) \/ WriteFails(c)

Frame(c) ==
  \/ InputCheck(c) \/ InputRefused(c) \/ InputWrite(c) \/ InputFails(c)
  \/ (\E s \in Sizes : ResizeFields(c, s)) \/ ResizePty(c)
  \/ Detach(c) \/ Eof(c) \/ ReadFails(c)

Next ==
  \/ ReadChunk \/ Broadcast \/ ShellExits
  \/ \E c \in Conns : Attach(c) \/ Output(c) \/ Frame(c)

Spec == Init /\ [][Next]_vars
-----------------------------------------------------------------------------
(* Properties *)

TypeOK ==
  /\ shell \in {"none", "running", "exited"}
  /\ owner \in Clients \cup {None}
  /\ attached \subseteq Clients
  /\ size \in Sizes \cup {None} /\ ptySize \in Sizes \cup {None}
  /\ appended \in 0..MaxOut /\ sent \in 0..appended
  /\ conn \in [Conns -> Conn]
  /\ writes \in 0..MaxInput
  /\ stale \in [Conns -> 0..MaxInput]

Consecutive(s) == \A i \in 1..(Len(s) - 1) : s[i + 1] = s[i] + 1

\* What one output task writes is the shell's output in order, without a hole
\* and without a repeat: a receiver that lagged is never read again.
LiveContiguous == \A c \in Conns : Consecutive(conn[c].live)

\* The Scrollback frame and the Output frames of an attach overlap in at most
\* one chunk: the one the reader had appended but not yet broadcast.
AtMostOneRepeated ==
  \A c \in Conns : LET s == conn[c] IN
    s.replay # <<>> /\ s.live # <<>> => s.live[1] >= s.replay[Len(s.replay)]

\* After another client took over the input, a connection can still complete
\* the one write whose check it had passed, and no other.
AtMostOneStaleWrite == \A c \in Conns : stale[c] <= 1

\* Handoff, section 13: all attached clients receive output.  The chunks a
\* connection was given, replayed and live, have no hole between them.
NoHole ==
  \A c \in Conns : LET s == conn[c] IN
    s.replay # <<>> /\ s.live # <<>> => s.live[1] <= s.replay[Len(s.replay)] + 1
=============================================================================
