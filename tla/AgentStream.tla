---------------------------- MODULE AgentStream ----------------------------
(***************************************************************************)
(* Both ends of a connection to the daemon's session: the handshake and    *)
(* the reader and writer tasks of the client (client.rs, android_jni.rs),  *)
(* the handshake of the agent (transport_iroh.rs), and Session for what    *)
(* the agent does after it.                                                *)
(*                                                                         *)
(* The handshake is strictly alternating, so where the two ends are says   *)
(* which frame is under way.  After it the agent's frames to the client    *)
(* are SessionAttached, Scrollback and the Output frames in conn[c].live,  *)
(* in this order; shown counts those the client has read.  Nonces and      *)
(* signatures only ever match here: whom to trust is module TrustStore's.  *)
(***************************************************************************)
EXTENDS Session, FiniteSets

CONSTANT Local   \* the connections over TCP (transport_local.rs): no handshake

VARIABLES
  client,   \* where the client is with each connection
  asked,    \* how many of ClientHello, ClientAuth and Attach it has written
  agent,    \* where the agent's task for it is: in the handshake or after it
  shown     \* frames of the agent the client has read since SessionAttached

\* attach: waiting for SessionAttached.  mute: the writer task reported an error
\* and ended, the reader goes on.  deaf: the reader reported an error and ended.
\* left: the connection was dropped, by connect() or by closeTerminal.
ClientStates == {"idle", "connecting", "attach", "attached", "mute", "deaf", "left"}
AgentStates == {"none", "hello", "auth", "session", "ended"}

streamVars == <<client, asked, agent, shown>>
allVars == <<vars, client, asked, agent, shown>>

Client(c, pc) == client[c] = pc
Agent(c, pc) == agent[c] = pc

StreamInit ==
  /\ Init
  /\ client = [c \in Conns |-> "idle"]
  /\ asked = [c \in Conns |-> 0]
  /\ agent = [c \in Conns |-> "none"]
  /\ shown = [c \in Conns |-> 0]

Becomes(c, pc) == client' = [client EXCEPT ![c] = pc]
Asks(c, n) == asked' = [asked EXCEPT ![c] = n]
AgentGoes(c, pc) == agent' = [agent EXCEPT ![c] = pc]

\* The client can no longer be written to.
Unreadable(c) == client[c] \in {"deaf", "left"}
-----------------------------------------------------------------------------
(* The client connects: P2PTerminalClient::connect, ten seconds at most. *)

\* The endpoint reached the agent, opened a stream and wrote ClientHello.
Dial(c) ==
  /\ c \notin Local
  /\ Client(c, "idle")
  /\ Becomes(c, "connecting") /\ Asks(c, 1)
  /\ AgentGoes(c, "hello")
  /\ UNCHANGED <<vars, shown>>

\* A local client has no handshake: its first frame is Attach.
DialLocal(c) ==
  /\ c \in Local
  /\ Client(c, "idle")
  /\ Becomes(c, "attach") /\ Asks(c, 3)
  /\ AgentGoes(c, "session")
  /\ UNCHANGED <<vars, shown>>

\* The challenge is for this client and daemon: ClientAuth is written.
ClientChallenged(c) ==
  /\ Client(c, "connecting") /\ asked[c] = 1
  /\ Agent(c, "auth")
  /\ Asks(c, 2)
  /\ UNCHANGED <<vars, client, agent, shown>>

\* AgentAuthOk verified: the native bridge writes Attach and starts its tasks.
ClientAccepted(c) ==
  /\ Client(c, "connecting") /\ asked[c] = 2
  /\ Agent(c, "session")
  /\ Becomes(c, "attach") /\ Asks(c, 3)
  /\ UNCHANGED <<vars, agent, shown>>

\* The ten seconds are over, or the next frame was not the expected one, or
\* there is none: what connect() had opened is dropped.
ClientGivesUp(c) ==
  /\ Client(c, "connecting")
  /\ Becomes(c, "left")
  /\ UNCHANGED <<vars, asked, agent, shown>>
-----------------------------------------------------------------------------
(* The agent's half: handle_authenticated_stream, which has no timeout. *)
(* What a client wrote before it left may still arrive.                 *)

\* ClientHello: version, daemon and trust are as they should be; the challenge
\* is written.
AgentHello(c) ==
  /\ Agent(c, "hello")
  /\ AgentGoes(c, "auth")
  /\ UNCHANGED <<vars, client, asked, shown>>

\* They are not, or there is no good hello: the stream is dropped.
AgentRefuses(c) ==
  /\ Agent(c, "hello")
  /\ AgentGoes(c, "ended")
  /\ UNCHANGED <<vars, client, asked, shown>>

\* Variant for testing: AgentAuthOk is written without waiting for ClientAuth.
AgentAuthUnasked(c) ==
  /\ Agent(c, "auth")
  /\ AgentGoes(c, "session")
  /\ UNCHANGED <<vars, client, asked, shown>>

\* ClientAuth: its signature is that of this handshake; AgentAuthOk is written
\* and the frame loop of Session begins.
AgentAuth(c) ==
  /\ Agent(c, "auth")
  /\ asked[c] >= 2
  /\ AgentGoes(c, "session")
  /\ UNCHANGED <<vars, client, asked, shown>>

\* Variant for testing: a client that leaves after the challenge is waited for.
AgentForgets(c) ==
  /\ Agent(c, "hello")
  /\ Client(c, "left")
  /\ AgentGoes(c, "ended")
  /\ UNCHANGED <<vars, client, asked, shown>>

\* The client disconnected before hello or before auth.
AgentBails(c) ==
  /\ agent[c] \in {"hello", "auth"}
  /\ Client(c, "left")
  /\ AgentGoes(c, "ended")
  /\ UNCHANGED <<vars, client, asked, shown>>
-----------------------------------------------------------------------------
(* The frames of Session as far as the other end lets them happen. *)

\* Attach arrives; its sender may be gone by then.
AgentAttach(c) ==
  /\ Agent(c, "session")
  /\ asked[c] = 3
  /\ \/ \E s \in Sizes : AttachEnter(c, s)
     \/ AttachOwn(c) \/ AttachSnapshot(c)
     \/ AttachSubscribe(c)
     \/ AttachFails(c) /\ (shell = "none" \/ Unreadable(c))
  /\ UNCHANGED streamVars

\* Input and resizes of a client that has been told its session.
ClientFrame(c) ==
  /\ Client(c, "attached")
  /\ writes + Cardinality({d \in Conns : At(d, "input")}) < MaxInput
  /\ \/ InputCheck(c) \/ InputRefused(c)
     \/ \E s \in Sizes : ResizeFields(c, s)
  /\ UNCHANGED streamVars

\* What the frame loop has begun it finishes.
FinishFrame(c) ==
  /\ InputWrite(c) \/ InputFails(c) \/ ResizePty(c)
  /\ UNCHANGED streamVars

\* The end of the client's stream, or an error of the connection.
AgentNotices(c) ==
  /\ Agent(c, "session")
  /\ Client(c, "left")
  /\ Eof(c) \/ ReadFails(c)
  /\ UNCHANGED streamVars

\* Variant for testing: only the owner of the input gets output.
AgentOutputToOwner(c) ==
  /\ owner = ClientOf[c]
  /\ Deliver(c) \/ OutputEnds(c)
  /\ UNCHANGED streamVars

\* The output task: a client that lost only its input still gets output.
AgentOutput(c) ==
  /\ \/ ~Unreadable(c) /\ Deliver(c)
     \/ OutputEnds(c)
     \/ Unreadable(c) /\ WriteFails(c)
  /\ UNCHANGED streamVars

\* Its write fails before the frame loop has noticed anything.
AgentWriteStopped(c) ==
  /\ Unreadable(c)
  /\ conn[c].task = "running" /\ ~At(c, "closed")
  /\ conn[c].next <= sent
  /\ conn' = [conn EXCEPT ![c].task = "ended"]
  /\ UNCHANGED <<pty, owner, attached, sizes, history, streamVars>>

Shell ==
  /\ ReadChunk \/ Broadcast \/ ShellExits
  /\ UNCHANGED streamVars
-----------------------------------------------------------------------------
(* The client's tasks after connect(). *)

\* SessionAttached was read: the view is told.
ReadSessionAttached(c) ==
  /\ Client(c, "attach")
  /\ conn[c].task # "none"
  /\ Becomes(c, "attached")
  /\ UNCHANGED <<vars, asked, agent, shown>>

Written(c) == 1 + Len(conn[c].live)

\* Variant for testing: the frames are not waited for.
ReadUnwritten(c) ==
  /\ client[c] \in {"attached", "mute"}
  /\ shown' = [shown EXCEPT ![c] = @ + 1]
  /\ UNCHANGED <<vars, client, asked, agent>>

\* The Scrollback frame, then the Output frames.
ReadOutput(c) ==
  /\ client[c] \in {"attached", "mute"}
  /\ shown[c] < Written(c)
  /\ shown' = [shown EXCEPT ![c] = @ + 1]
  /\ UNCHANGED <<vars, client, asked, agent>>

\* Ten seconds without SessionAttached: the reader reports and ends; the
\* connection stays until it is closed.  The Android code for local terminals
\* has no such timer.
AttachTimesOut(c) ==
  /\ c \notin Local
  /\ Client(c, "attach")
  /\ Becomes(c, "deaf")
  /\ UNCHANGED <<vars, asked, agent, shown>>

\* The agent has let go of its end of the stream: frame loop and output task.
\* What it wrote before is read first.
ReadEnd(c) ==
  /\ client[c] \in {"attach", "attached", "mute"}
  /\ At(c, "closed") /\ conn[c].task # "running"
  /\ client[c] = "attach" \/ shown[c] = Written(c)
  /\ Becomes(c, "deaf")
  /\ UNCHANGED <<vars, asked, agent, shown>>

\* Variant for testing: a ping that cannot be written is not reported.
WriterKeepsOn(c) ==
  /\ Client(c, "attached")
  /\ At(c, "closed")
  /\ UNCHANGED allVars

\* The frame loop is gone and with it the agent's receiving end: the ping of
\* the next ten seconds, or an input, cannot be written.
WriterFails(c) ==
  /\ c \notin Local
  /\ Client(c, "attached")
  /\ At(c, "closed")
  /\ Becomes(c, "mute")
  /\ UNCHANGED <<vars, asked, agent, shown>>

\* The terminal is closed, or the connection breaks.
Leave(c) ==
  /\ client[c] \in {"attach", "attached", "mute", "deaf"}
  /\ Becomes(c, "left")
  /\ UNCHANGED <<vars, asked, agent, shown>>
-----------------------------------------------------------------------------
Connect(c) == Dial(c) \/ DialLocal(c) \/ ClientChallenged(c) \/ ClientAccepted(c)
                \/ ClientGivesUp(c)

Handshake(c) == AgentHello(c) \/ AgentRefuses(c) \/ AgentAuth(c) \/ AgentBails(c)

ClientTasks(c) == ReadSessionAttached(c) \/ ReadOutput(c) \/ AttachTimesOut(c)
                    \/ ReadEnd(c) \/ WriterFails(c) \/ Leave(c)

AgentTasks(c) == AgentAttach(c) \/ FinishFrame(c) \/ AgentNotices(c)
                   \/ AgentOutput(c) \/ AgentWriteStopped(c)

StreamNext ==
  \/ Shell
  \/ \E c \in Conns : Connect(c) \/ Handshake(c) \/ ClientFrame(c)
                        \/ ClientTasks(c) \/ AgentTasks(c)

StreamSpec == StreamInit /\ [][StreamNext]_allVars

\* The runtimes schedule their tasks; a lost connection is noticed (QUIC's idle
\* timeout); a ping is written every ten seconds.  Nothing makes a client send,
\* a shell print, or anybody leave.
StreamFairness ==
  /\ WF_allVars(Shell /\ Broadcast)
  /\ \A c \in Conns :
       /\ WF_allVars(AgentOutput(c))
       /\ WF_allVars(AgentAttach(c)) /\ WF_allVars(FinishFrame(c))
       /\ WF_allVars(AgentNotices(c)) /\ WF_allVars(AgentBails(c))
       /\ WF_allVars(ReadOutput(c)) /\ WF_allVars(ReadEnd(c))
       /\ WF_allVars(WriterFails(c)) /\ WF_allVars(AttachTimesOut(c))

FairStreamSpec == StreamSpec /\ StreamFairness
-----------------------------------------------------------------------------
(* Properties *)

StreamTypeOK ==
  /\ TypeOK
  /\ client \in [Conns -> ClientStates]
  /\ asked \in [Conns -> 0..3]
  /\ agent \in [Conns -> AgentStates]
  /\ shown \in [Conns -> 0..(MaxOut + 1)]

\* Whoever is in the session has signed this handshake, and whoever takes
\* itself to be connected is in: also when timeouts, refusals and frames under
\* way cross.
EndsAgree ==
  \A c \in Conns \ Local :
    /\ Agent(c, "session") => asked[c] >= 2
    /\ client[c] \in {"attach", "attached", "mute", "deaf"} => Agent(c, "session")

\* Handoff, section 13: what the shell prints while a client is attached is
\* read by this client, through the channel, the output task and the stream,
\* or the client is told that its connection is over.
ScreenReaches ==
  \A c \in Conns, n \in 1..MaxOut :
    (Client(c, "attached") /\ conn[c].task = "running" /\ conn[c].next <= n /\ n <= sent)
      ~> (~Client(c, "attached") \/ \E i \in 1..(shown[c] - 1) : conn[c].live[i] = n)

\* When the agent ends a connection, because its client lost the input or the
\* attach failed, the client is told: by the end of the stream, or, while the
\* output task keeps the stream open, by the ping that cannot be written.
ClientHearsOfEnd ==
  \A c \in Conns \ Local :
    (client[c] \in {"attach", "attached"} /\ At(c, "closed"))
      ~> (client[c] \notin {"attach", "attached"})

\* A client that leaves, at any point of the handshake or of an attach, leaves
\* no task behind: only an output task may still wait for the next output.
AgentLetsGo ==
  \A c \in Conns :
    Client(c, "left")
      ~> \/ agent[c] \in {"none", "ended"}
         \/ At(c, "closed") /\ (conn[c].task = "running" => conn[c].next > sent)
=============================================================================
