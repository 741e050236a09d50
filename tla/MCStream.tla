------------------------------ MODULE MCStream ------------------------------
(***************************************************************************)
(* What is between the shell and a client, in three parts that share no    *)
(* state: the two ends of the connections (AgentStream), the bytes of the  *)
(* ring they replay (Scrollback) and those of the frames (Framing).  A     *)
(* behaviour is one of one part, the others staying as they begin, so the  *)
(* states of the parts add up and one run checks all three.                *)
(***************************************************************************)
EXTENDS AgentStream, Scrollback, Framing

CONSTANTS a1, b1       \* connections
CONSTANTS ka, kb       \* clients

VARIABLE part          \* the part that moves

allParts == <<part, allVars, ringVars, frameVars>>

MCClientOf == [c \in Conns |-> IF c = b1 THEN kb ELSE ka]
MCTexts == {<<123, 125>>, <<123, 34, 125>>}
MCIds == {<<>>, <<65, 66>>}
MCPayloads == {<<>>, <<30, 10, 125>>, [i \in 1..130 |-> IF i % 2 = 1 THEN 31 ELSE 10]}

MCInit ==
  /\ StreamInit
  /\ FramingInit
  /\ RingInit
  /\ part \in {"stream", "frames", "ring"}
  /\ part = "ring" \/ (limit = 0 /\ replay = 0)

MCNext ==
  /\ \/ part = "stream" /\ StreamNext /\ UNCHANGED <<ringVars, frameVars>>
     \/ part = "ring" /\ RingNext /\ UNCHANGED <<allVars, frameVars>>
     \/ part = "frames" /\ FramingNext /\ UNCHANGED <<allVars, ringVars>>
  /\ UNCHANGED part

\* In a behaviour of another part no action of StreamFairness is ever enabled.
MCSpec == MCInit /\ [][MCNext]_allParts /\ StreamFairness
=============================================================================
