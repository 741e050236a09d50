-------------------------- MODULE AgentStreamProofs --------------------------
(***************************************************************************)
(* The two ends of a connection agree, for any connections, local or not,  *)
(* and any amount of output.                                               *)
(*                                                                         *)
(* EndsAgree and the types of the handshake are inductive together.  That  *)
(* the client has read no more frames than were written needs Session's    *)
(* invariant, so the steps are shown to be Session's steps but for one.    *)
(***************************************************************************)
EXTENDS AgentStream, SessionProofs

ClientTypeOK ==
  /\ client \in [Conns -> ClientStates]
  /\ asked \in [Conns -> 0..3]
  /\ agent \in [Conns -> AgentStates]
  /\ shown \in [Conns -> Nat]

ShownInv == \A c \in Conns : shown[c] <= Written(c)

StreamIInv == IInv /\ ClientTypeOK /\ EndsAgree /\ ShownInv

LEMMA InitStreamIInv == StreamInit => StreamIInv
<1> SUFFICES ASSUME StreamInit PROVE StreamIInv
  OBVIOUS
<1>1. IInv
  BY InitIInv DEF StreamInit
<1>2. ClientTypeOK
  BY DEF StreamInit, ClientTypeOK, ClientStates, AgentStates
<1>3. EndsAgree
  BY DEF StreamInit, EndsAgree, Agent
<1>4. ShownInv
  <2> SUFFICES ASSUME NEW c \in Conns PROVE shown[c] <= Written(c)
    BY DEF ShownInv
  <2>1. shown[c] = 0
    BY DEF StreamInit
  <2>2. conn[c].live \in Seq(1..MaxOut)
    BY <1>1 DEF IInv, TypeOK, Conn
  <2> QED BY <2>1, <2>2 DEF Written
<1> QED BY <1>1, <1>2, <1>3, <1>4 DEF StreamIInv
-----------------------------------------------------------------------------
(* The steps as steps of Session. *)

\* All but AgentWriteStopped are Session's, or leave it alone.
LEMMA StepOfSession ==
  ASSUME StreamNext
  PROVE  [Next]_vars \/ \E c \in Conns : AgentWriteStopped(c)
<1>1. CASE Shell
  BY <1>1 DEF Shell, Next
<1>2. ASSUME NEW c \in Conns, Connect(c) \/ Handshake(c) \/ ClientTasks(c)
      PROVE  UNCHANGED vars
  BY <1>2 DEF Connect, Dial, DialLocal, ClientChallenged, ClientAccepted, ClientGivesUp,
    Handshake, AgentHello, AgentRefuses, AgentAuth, AgentBails,
    ClientTasks, ReadSessionAttached, ReadOutput, AttachTimesOut, ReadEnd, WriterFails, Leave
<1>3. ASSUME NEW c \in Conns, ClientFrame(c) PROVE Next
  BY <1>3 DEF ClientFrame, Next, Frame
<1>4. ASSUME NEW c \in Conns, AgentAttach(c) PROVE Next
  BY <1>4 DEF AgentAttach, Next, Attach
<1>5. ASSUME NEW c \in Conns, FinishFrame(c) \/ AgentNotices(c) PROVE Next
  BY <1>5 DEF FinishFrame, AgentNotices, Next, Frame
<1>6. ASSUME NEW c \in Conns, AgentOutput(c) PROVE Next
  BY <1>6 DEF AgentOutput, Next, Output
<1> QED BY <1>1, <1>2, <1>3, <1>4, <1>5, <1>6 DEF StreamNext, AgentTasks

\* The invariant of Session survives the composition: the step that is not
\* Session's ends an output task, which the invariant allows at any time.
LEMMA SessionKept ==
  ASSUME IInv, [StreamNext]_allVars
  PROVE  IInv'
<1>1. ASSUME NEW c \in Conns, AgentWriteStopped(c) PROVE IInv'
  BY <1>1, TaskEnds DEF AgentWriteStopped
<1>2. CASE UNCHANGED allVars
  <2>1. UNCHANGED vars
    BY <1>2 DEF allVars
  <2> QED BY <2>1, Step
<1> QED BY <1>1, <1>2, StepOfSession, Step

\* What was written to a client stays written.
LiveKept == \A d \in Conns : Len(conn[d].live) <= Len(conn'[d].live)

SameLive == \A d \in Conns : conn'[d].live = conn[d].live

LEMMA LiveGrows ==
  ASSUME IInv, [StreamNext]_allVars
  PROVE  LiveKept
<1>1. conn \in [Conns -> Conn] /\ \A d \in Conns : Len(conn[d].live) \in Nat
  BY DEF IInv, TypeOK, Conn
<1>2. SameLive => LiveKept
  BY <1>1 DEF SameLive, LiveKept
<1>3. CASE conn' = conn
  BY <1>2, <1>3 DEF SameLive
<1>4. ASSUME NEW c \in Conns, Attach(c) PROVE SameLive
  <2>1. ASSUME NEW s \in Sizes, AttachEnter(c, s) PROVE SameLive
    BY <1>1, <2>1 DEF AttachEnter, SameLive, Conn
  <2>2. CASE AttachOwn(c)
    BY <1>1, <2>2 DEF AttachOwn, SameLive, Conn
  <2>3. CASE AttachFails(c)
    BY <1>1, <2>3 DEF AttachFails, SameLive, Conn
  <2>4. CASE AttachSnapshot(c)
    BY <1>1, <2>4 DEF AttachSnapshot, SameLive, Conn
  <2>5. CASE AttachSubscribe(c)
    BY <1>1, <2>5 DEF AttachSubscribe, SameLive, Conn
  <2> QED BY <1>4, <2>1, <2>2, <2>3, <2>4, <2>5 DEF Attach
<1>5. ASSUME NEW c \in Conns, Deliver(c) PROVE LiveKept
  <2>1. \A d \in Conns :
          conn'[d].live = IF d = c THEN Append(conn[d].live, conn[d].next) ELSE conn[d].live
    BY <1>1, <1>5 DEF Deliver, Conn
  <2>2. \A d \in Conns : conn[d].live \in Seq(1..MaxOut) /\ conn[d].next \in 1..(MaxOut + 1)
    BY <1>1 DEF Conn
  <2>3. \A d \in Conns : Len(Append(conn[d].live, conn[d].next)) = Len(conn[d].live) + 1
    BY <2>2
  <2>4. ASSUME NEW d \in Conns PROVE Len(conn[d].live) <= Len(conn'[d].live)
    <3>1. CASE d = c
      <4>1. conn'[d].live = Append(conn[d].live, conn[d].next)
        BY <2>1, <3>1
      <4>2. Len(conn'[d].live) = Len(conn[d].live) + 1
        BY <2>3, <4>1
      <4> QED BY <1>1, <4>2
    <3>2. CASE d # c
      BY <1>1, <2>1, <3>2
    <3> QED BY <3>1, <3>2
  <2> QED BY <2>4 DEF LiveKept
<1>6. ASSUME NEW c \in Conns, OutputEnds(c) \/ WriteFails(c) \/ AgentWriteStopped(c)
      PROVE  SameLive
  <2>1. conn' = [conn EXCEPT ![c].task = "ended"]
    BY <1>6 DEF OutputEnds, WriteFails, AgentWriteStopped
  <2> QED BY <1>1, <2>1 DEF SameLive, Conn
<1>7. ASSUME NEW c \in Conns, Frame(c) PROVE SameLive
  <2>1. ASSUME NEW s \in Sizes, ResizeFields(c, s) PROVE SameLive
    BY <1>1, <2>1 DEF ResizeFields, SameLive, Conn
  <2>2. ASSUME NEW pc, conn' = [conn EXCEPT ![c].loop = pc] PROVE SameLive
    BY <1>1, <2>2 DEF SameLive, Conn
  <2>3. CASE InputCheck(c) \/ InputRefused(c) \/ InputWrite(c) \/ InputFails(c)
    BY <2>2, <2>3 DEF InputCheck, InputRefused, InputWrite, InputFails
  <2>4. CASE ResizePty(c) \/ ReadFails(c)
    BY <2>2, <2>4 DEF ResizePty, ReadFails
  <2>5. CASE Eof(c)
    BY <1>1, <2>5 DEF Eof, SameLive, Conn
  <2>6. CASE Detach(c)
    BY <2>6 DEF Detach, SameLive
  <2> QED BY <1>7, <2>1, <2>3, <2>4, <2>5, <2>6 DEF Frame
<1>8. CASE Next
  <2>1. CASE ReadChunk \/ Broadcast \/ ShellExits
    BY <1>2, <1>3, <2>1 DEF ReadChunk, Broadcast, ShellExits
  <2>2. ASSUME NEW c \in Conns, Output(c) PROVE LiveKept
    BY <1>2, <1>5, <1>6, <2>2 DEF Output
  <2> QED BY <1>2, <1>4, <1>7, <1>8, <2>1, <2>2 DEF Next
<1> QED BY <1>2, <1>3, <1>6, <1>8, StepOfSession DEF vars, allVars
-----------------------------------------------------------------------------
(* The steps as steps of the handshake and the client. *)

\* A connection is about to be used, or its handshake or attach goes on.
LEMMA HandshakeStep ==
  ASSUME StreamIInv, NEW c \in Conns, Connect(c) \/ Handshake(c)
  PROVE  ClientTypeOK' /\ EndsAgree'
<1>1. UNCHANGED shown
  BY DEF Connect, Dial, DialLocal, ClientChallenged, ClientAccepted, ClientGivesUp,
    Handshake, AgentHello, AgentRefuses, AgentAuth, AgentBails
<1>2. ClientTypeOK'
  <2>1. CASE Connect(c)
    BY <1>1, <2>1 DEF StreamIInv, ClientTypeOK, Connect, Dial, DialLocal, ClientChallenged,
      ClientAccepted, ClientGivesUp, Becomes, Asks, AgentGoes, ClientStates, AgentStates
  <2>2. CASE Handshake(c)
    BY <1>1, <2>2 DEF StreamIInv, ClientTypeOK, Handshake, AgentHello, AgentRefuses, AgentAuth,
      AgentBails, AgentGoes, AgentStates
  <2> QED BY <2>1, <2>2
<1>3. EndsAgree'
  <2>1. CASE Connect(c)
    BY <2>1 DEF StreamIInv, ClientTypeOK, EndsAgree, Connect, Dial, DialLocal, ClientChallenged,
      ClientAccepted, ClientGivesUp, Becomes, Asks, AgentGoes, Client, Agent
  <2>2. CASE Handshake(c)
    BY <2>2 DEF StreamIInv, ClientTypeOK, EndsAgree, Handshake, AgentHello, AgentRefuses,
      AgentAuth, AgentBails, AgentGoes, Client, Agent
  <2> QED BY <2>1, <2>2
<1> QED BY <1>2, <1>3

LEMMA ClientStep ==
  ASSUME StreamIInv, NEW c \in Conns, ClientTasks(c)
  PROVE  ClientTypeOK' /\ EndsAgree'
<1>1. CASE ReadOutput(c)
  BY <1>1 DEF ReadOutput, StreamIInv, ClientTypeOK, EndsAgree, Agent
<1>2. CASE ReadSessionAttached(c) \/ AttachTimesOut(c) \/ ReadEnd(c) \/ WriterFails(c) \/ Leave(c)
  <2>1. UNCHANGED <<asked, agent, shown>>
    BY <1>2 DEF ReadSessionAttached, AttachTimesOut, ReadEnd, WriterFails, Leave
  <2>2. \E pc \in {"attached", "mute", "deaf", "left"} :
          client[c] \in {"attach", "attached", "mute", "deaf"} /\ Becomes(c, pc)
    BY <1>2 DEF ReadSessionAttached, AttachTimesOut, ReadEnd, WriterFails, Leave, Client
  <2> QED BY <2>1, <2>2 DEF StreamIInv, ClientTypeOK, EndsAgree, Agent, Becomes, ClientStates
<1> QED BY <1>1, <1>2 DEF ClientTasks

LEMMA StreamStep ==
  ASSUME StreamIInv, [StreamNext]_allVars
  PROVE  StreamIInv'
<1>1. IInv' /\ LiveKept
  BY SessionKept, LiveGrows DEF StreamIInv
<1>2. UNCHANGED streamVars \/ \E c \in Conns : Connect(c) \/ Handshake(c) \/ ClientTasks(c)
  BY DEF StreamNext, Shell, ClientFrame, AgentTasks, AgentAttach, FinishFrame, AgentNotices,
    AgentOutput, AgentWriteStopped, allVars, streamVars
<1>3. ClientTypeOK' /\ EndsAgree'
  <2>1. CASE UNCHANGED streamVars
    BY <2>1 DEF streamVars, StreamIInv, ClientTypeOK, EndsAgree, Agent
  <2> QED BY <1>2, <2>1, HandshakeStep, ClientStep
<1>4. ShownInv'
  <2> SUFFICES ASSUME NEW d \in Conns PROVE shown'[d] <= 1 + Len(conn'[d].live)
    BY DEF ShownInv, Written
  <2>1. /\ Len(conn[d].live) \in Nat /\ Len(conn'[d].live) \in Nat
        /\ shown[d] \in Nat /\ shown[d] <= 1 + Len(conn[d].live)
    BY <1>1 DEF StreamIInv, IInv, TypeOK, Conn, ClientTypeOK, ShownInv, Written
  <2>2. shown'[d] = shown[d] \/ (shown'[d] = shown[d] + 1 /\ shown[d] < 1 + Len(conn[d].live))
    <3>1. CASE UNCHANGED shown
      BY <3>1
    <3>2. ASSUME NEW c \in Conns, ReadOutput(c)
          PROVE  shown'[d] = shown[d] \/ (shown'[d] = shown[d] + 1 /\ shown[d] < 1 + Len(conn[d].live))
      BY <3>2 DEF ReadOutput, StreamIInv, ClientTypeOK, Written
    <3> QED BY <1>2, <3>1, <3>2 DEF streamVars, Connect, Dial, DialLocal, ClientChallenged,
      ClientAccepted, ClientGivesUp, Handshake, AgentHello, AgentRefuses, AgentAuth, AgentBails,
      ClientTasks, ReadSessionAttached, AttachTimesOut, ReadEnd, WriterFails, Leave
  <2> QED BY <1>1, <2>1, <2>2 DEF LiveKept
<1> QED BY <1>1, <1>3, <1>4 DEF StreamIInv
-----------------------------------------------------------------------------
\* The invariant of the composition.
THEOREM StreamInductive == StreamSpec => []StreamIInv
<1>1. StreamInit => StreamIInv
  BY InitStreamIInv
<1>2. StreamIInv /\ [StreamNext]_allVars => StreamIInv'
  BY StreamStep
<1> QED BY <1>1, <1>2, PTL DEF StreamSpec

\* Every reachable state of the composition has its type: a client shows no
\* more frames than the agent can have written.
THEOREM StreamTypeCorrect == StreamSpec => []StreamTypeOK
<1>1. StreamIInv => StreamTypeOK
  <2> SUFFICES ASSUME StreamIInv PROVE StreamTypeOK
    OBVIOUS
  <2>1. \A c \in Conns : shown[c] \in 0..(MaxOut + 1)
    <3> SUFFICES ASSUME NEW c \in Conns PROVE shown[c] \in 0..(MaxOut + 1)
      OBVIOUS
    <3>1. /\ Len(conn[c].live) \in Nat /\ conn[c].next \in 1..(MaxOut + 1)
          /\ Len(conn[c].live) < conn[c].next
      BY DEF StreamIInv, IInv, TypeOK, Conn, ConnInv, LiveOK
    <3>2. shown[c] \in Nat /\ shown[c] <= 1 + Len(conn[c].live)
      BY DEF StreamIInv, ClientTypeOK, ShownInv, Written
    <3> QED BY <3>1, <3>2, SessionAssumption
  <2> QED BY <2>1 DEF StreamIInv, IInv, ClientTypeOK, StreamTypeOK
<1> QED BY <1>1, StreamInductive, PTL

\* Whoever is in the session has signed this handshake, and whoever takes itself
\* to be connected is in: however timeouts, refusals and frames cross.
THEOREM EndsAlwaysAgree == StreamSpec => []EndsAgree
<1>1. StreamIInv => EndsAgree
  BY DEF StreamIInv
<1> QED BY <1>1, StreamInductive, PTL
=============================================================================
