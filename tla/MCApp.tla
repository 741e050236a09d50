------------------------------- MODULE MCApp -------------------------------
(***************************************************************************)
(* Two parts of the system that share no state in this run: the register   *)
(* and how it saves (CloudRegistry), and a tab of the app (TabPane).  A    *)
(* behaviour is one of one part, the other staying as it begins, so the    *)
(* states of the parts add up and one run checks both.                     *)
(***************************************************************************)
EXTENDS CloudRegistry, TabPane

VARIABLE part    \* the part that moves

allParts == <<part, vars, tabVars>>

MCInit ==
  /\ Init /\ TabInit
  /\ part \in {"cloud", "tab"}
  /\ part = "tab" \/ published = 1

MCNext ==
  /\ \/ part = "cloud" /\ Next /\ UNCHANGED tabVars
     \/ part = "tab" /\ TabNext /\ UNCHANGED vars
  /\ UNCHANGED part

\* No worker has anything to save while the tab moves, so that the fairness of
\* the register need not be confined to its part.
MCSpec ==
  /\ MCInit /\ [][MCNext]_allParts
  /\ \A w \in Workers : WF_vars(Save(w)) /\ WF_vars(Reply(w))
  /\ (part = "tab") => TabFairness
-----------------------------------------------------------------------------
(* Two properties of TabPane, of the behaviours in which the tab moves: where *)
(* the register does, the tab waits for ever.                                 *)

\* With a network a connecting tab attaches or offers another try.
ConnectingTabEnds == (part = "tab") => ConnectingEnds

\* A tab without an address asks until the cloud answers.
TabFetchRecovers == (part = "tab") => FetchRecovers
=============================================================================
