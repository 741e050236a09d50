---------------------------- MODULE TabPaneProofs ----------------------------
(***************************************************************************)
(* Proofs about TabPane, for any number of addresses and events: the view, *)
(* the holder and its connection come and go together, and a tab that      *)
(* waits waits for something.                                              *)
(*                                                                         *)
(* What the first takes beyond the types is one relation, a part of        *)
(* HolderOK: a closed connection of the holder itself, whose reports reach *)
(* that holder, outlives neither the view nor the holder.                  *)
(*                                                                         *)
(* The second is about effects: a key that changed is a promise that the   *)
(* next composition starts an effect, and a timer that one ends.  AskInv,  *)
(* AttachedAttended and TryInv follow each promise from the step that makes *)
(* it to the one that keeps it.                                            *)
(***************************************************************************)
EXTENDS TabPane, TLAPS

\* The holder of a view: its connection, whether it is lost, and which closed
\* connections may still report.
HolderOK(v, c, l, lateOnes, owing) ==
  /\ v \in {"none", "held", "empty"}
  /\ c \in (IF v = "held" THEN {"new", "connecting", "attached", "gone"} ELSE {"none"})
  /\ l \in BOOLEAN /\ (l => v = "held")
  /\ lateOnes \subseteq {"this", "old"} /\ owing \subseteq lateOnes
  /\ "this" \in lateOnes => v = "held"

\* The view is there as soon as an address has been composed.
ViewShown == (view = "none") = (seen.tab.rend = NoRendezvous)

\* Everything else.
PaneOK ==
  /\ gen \in 1..MaxGen /\ published \in 0..gen
  /\ net \in [ready: BOOLEAN, changed: BOOLEAN] /\ active \in BOOLEAN
  /\ tab \in Tab /\ seen \in [tab: Tab, active: BOOLEAN]
  /\ bumped \subseteq {"retry", "reconnect", "network"} /\ timers \subseteq Timers
  /\ resumed \in BOOLEAN /\ events \in 0..MaxEvents

\* The inductive invariant.
TabInv == PaneOK /\ ViewShown /\ HolderOK(view, conn, lost, late, owes)
-----------------------------------------------------------------------------
(* What the tab says of itself, and what changes it. *)

LEMMA FreshTab == Fresh \in Tab
BY TabPaneAssumption DEF Fresh, Tab, States, NoRendezvous

\* A report changes two fields.
LEMMA Reported ==
  ASSUME tab \in Tab, Fails \/ \E s \in States : Says(s)
  PROVE  tab' \in Tab
<1>1. CASE Fails
  BY <1>1 DEF Fails, Tab, States
<1>2. CASE \E s \in States : Says(s)
  <2>1. PICK s \in States : Says(s)
    BY <1>2
  <2>2. CASE s = "disconnected"
    <3>1. tab' = [tab EXCEPT !.state = s, !.connError = @]
      BY <2>1, <2>2, Zenon DEF Says
    <3> QED BY <3>1 DEF Tab
  <2>3. CASE s # "disconnected"
    <3>1. tab' = [tab EXCEPT !.state = s, !.connError = FALSE]
      BY <2>1, <2>3, Zenon DEF Says
    <3> QED BY <3>1 DEF Tab
  <2> QED BY <2>2, <2>3
<1> QED BY <1>1, <1>2

LEMMA EffectsRun ==
  ASSUME tab \in Tab, timers \subseteq Timers, RunEffects
  PROVE  tab' \in Tab /\ timers' \subseteq Timers
<1>1. AfterClose(tab) \in Tab
  BY DEF AfterClose, Tab, States
<1>2. AfterFetch(AfterClose(tab)) \in Tab
  BY <1>1, FreshTab DEF AfterFetch
<1>3. \A t \in Tab : AfterNetwork(t) \in Tab
  BY DEF AfterNetwork, Tab, States
<1>4. tab' \in Tab
  BY <1>2, <1>3 DEF RunEffects
<1>5. Restarted \subseteq Timers
  BY DEF Restarted
<1>6. timers' \subseteq Timers
  BY <1>5 DEF RunEffects
<1> QED BY <1>4, <1>6
-----------------------------------------------------------------------------
(* It holds initially, and every step keeps it. *)

LEMMA InitTab == TabInit => TabInv
<1> SUFFICES ASSUME TabInit PROVE TabInv
  OBVIOUS
<1>1. PaneOK
  <2>1. /\ gen = 1 /\ published \in {0, 1} /\ events = 0 /\ resumed = FALSE /\ active = TRUE
        /\ net = [ready |-> TRUE, changed |-> FALSE] /\ tab = Fresh
        /\ seen = [tab |-> Fresh, active |-> TRUE] /\ bumped = {} /\ timers = {"fetch"}
    BY DEF TabInit, NoAddress
  <2>2. gen \in 1..MaxGen /\ published \in 0..gen /\ events \in 0..MaxEvents
    BY <2>1, TabPaneAssumption
  <2> QED BY <2>1, <2>2, FreshTab DEF PaneOK, Timers
<1>2. ViewShown
  <2>1. seen.tab.rend = NoRendezvous /\ view = "none"
    BY DEF TabInit, Fresh
  <2> QED BY <2>1 DEF ViewShown
<1>3. HolderOK(view, conn, lost, late, owes)
  BY DEF TabInit, HolderOK
<1> QED BY <1>1, <1>2, <1>3 DEF TabInv

\* A composition decides about the view by what it has just seen of the tab.
LEMMA ComposeTab ==
  ASSUME TabInv, Compose
  PROVE  TabInv'
<1>1. PaneOK /\ ViewShown /\ HolderOK(view, conn, lost, late, owes)
  BY DEF TabInv
<1>2. /\ seen' = [tab |-> tab, active |-> active] /\ bumped' = {}
      /\ gen' = gen /\ published' = published /\ net' = net /\ active' = active
      /\ resumed' = resumed /\ events' = events
      /\ RunEffects /\ ComposeView
  BY DEF Compose, world
<1>3. PaneOK'
  <2>1. tab' \in Tab /\ timers' \subseteq Timers
    BY <1>1, <1>2, EffectsRun DEF PaneOK
  <2>2. seen' \in [tab: Tab, active: BOOLEAN]
    BY <1>1, <1>2 DEF PaneOK
  <2> QED BY <1>1, <1>2, <2>1, <2>2 DEF PaneOK
<1>4. seen'.tab.rend = tab.rend
  BY <1>2
<1>5. CloseHeld => \A v \in {"none", "empty"} : HolderOK(v, conn', lost', late', owes')
  <2> SUFFICES ASSUME CloseHeld, NEW v \in {"none", "empty"}
               PROVE  HolderOK(v, conn', lost', late', owes')
    OBVIOUS
  <2>1. Started => Open
    BY DEF Open
  <2>2. owes # {} => late # {}
    BY <1>1 DEF HolderOK
  <2>3. conn' = "none" /\ lost' = FALSE /\ late' \in {{}, {"old"}} /\ owes' \in {{}, {"old"}}
    BY DEF CloseHeld
  <2>4. owes' \subseteq late'
    BY <2>1, <2>2 DEF CloseHeld
  <2> QED BY <2>3, <2>4 DEF HolderOK
<1>6. ViewShown' /\ HolderOK(view, conn, lost, late, owes)'
  <2>1. CASE ~Fetched
    <3>1. view' = "none" /\ CloseHeld /\ tab.rend = NoRendezvous
      BY <1>2, <2>1 DEF ComposeView, Fetched
    <3> QED BY <1>4, <1>5, <3>1 DEF ViewShown
  <2>2. CASE Fetched /\ view = "none"
    <3>1. NewHolder /\ tab.rend # NoRendezvous
      BY <1>2, <2>2 DEF ComposeView, Fetched
    <3>2. view' = "held" /\ conn' = "new" /\ lost' = FALSE /\ late' = late /\ owes' = owes
      BY <3>1 DEF NewHolder
    <3>3. HolderOK(view', conn', lost', late', owes')
      BY <1>1, <3>2 DEF HolderOK
    <3> QED BY <1>4, <3>1, <3>2, <3>3 DEF ViewShown
  <2>3. CASE Fetched /\ view # "none" /\ HolderReplaced
    <3>1. view' = "empty" /\ CloseHeld /\ tab.rend # NoRendezvous
      BY <1>2, <2>3 DEF ComposeView, Fetched
    <3> QED BY <1>4, <1>5, <3>1 DEF ViewShown
  <2>4. CASE Fetched /\ view # "none" /\ ~HolderReplaced
    <3>1. UNCHANGED holder /\ tab.rend # NoRendezvous
      BY <1>2, <2>4 DEF ComposeView, Fetched
    <3>2. view' = view /\ conn' = conn /\ lost' = lost /\ late' = late /\ owes' = owes
      BY <3>1 DEF holder
    <3> QED BY <1>1, <1>4, <2>4, <3>1, <3>2 DEF ViewShown
  <2> QED BY <2>1, <2>2, <2>3, <2>4
<1> QED BY <1>3, <1>6 DEF TabInv

\* Steps that leave the holder alone, and what was composed.
LEMMA HolderLeft ==
  ASSUME TabInv, UNCHANGED <<seen, holder>>
  PROVE  ViewShown' /\ HolderOK(view, conn, lost, late, owes)'
<1>1. seen' = seen /\ view' = view /\ conn' = conn /\ lost' = lost /\ late' = late /\ owes' = owes
  BY DEF holder
<1>2. ViewShown'
  BY <1>1 DEF TabInv, ViewShown
<1>3. HolderOK(view', conn', lost', late', owes')
  BY <1>1 DEF TabInv
<1> QED BY <1>2, <1>3

LEMMA EffectsTab ==
  ASSUME TabInv, Effects
  PROVE  TabInv'
<1> USE DEF TabInv
<1>1. /\ UNCHANGED <<seen, holder, gen, published, net, active, events>>
      /\ timers' \subseteq timers /\ resumed' \in {resumed, FALSE}
      /\ bumped' \subseteq bumped \cup {"retry", "reconnect"}
  BY DEF Effects, FetchSucceeds, FetchFails, Reconnect, NetworkRetry, Refetch, world, history
<1>2. tab \in Tab /\ published \in 0..(MaxGen + 1)
  <2>1. tab \in Tab /\ gen \in 1..MaxGen /\ published \in 0..gen
    BY DEF PaneOK
  <2> QED BY <2>1, TabPaneAssumption
<1>3. tab' \in Tab
  <2>1. CASE FetchSucceeds
    <3>1. tab' = [tab EXCEPT !.rend = published]
      BY <2>1 DEF FetchSucceeds
    <3> QED BY <1>2, <3>1 DEF Tab
  <2>2. CASE FetchFails
    <3>1. tab' = [tab EXCEPT !.error = TRUE, !.connError = TRUE, !.state = "disconnected"]
      BY <2>2 DEF FetchFails
    <3> QED BY <1>2, <3>1 DEF Tab, States
  <2>3. CASE Reconnect
    <3>1. tab' = [tab EXCEPT !.connError = FALSE]
      BY <2>3 DEF Reconnect
    <3> QED BY <1>2, <3>1 DEF Tab
  <2>4. CASE NetworkRetry
    <3>1. tab' = [tab EXCEPT !.error = FALSE, !.connError = FALSE, !.state = "connecting"]
      BY <2>4 DEF NetworkRetry
    <3> QED BY <1>2, <3>1 DEF Tab, States
  <2>5. CASE Refetch
    BY <1>2, <2>5 DEF Refetch
  <2> QED BY <2>1, <2>2, <2>3, <2>4, <2>5 DEF Effects
<1>4. PaneOK'
  BY <1>1, <1>3 DEF PaneOK
<1> QED BY <1>1, <1>4, HolderLeft

\* One more event, and one of the bounds is nearer.
LEMMA EventCounted ==
  ASSUME events \in 0..MaxEvents, Event
  PROVE  events' \in 0..MaxEvents
BY TabPaneAssumption DEF Event

LEMMA OutsideTab ==
  ASSUME TabInv, AgentRestarts \/ Publish \/ Select \/ Retry
                   \/ \E ready \in BOOLEAN : NetworkChanges(ready)
  PROVE  TabInv'
<1> USE DEF TabInv
<1>1. /\ UNCHANGED <<seen, holder>> /\ timers' = timers
      /\ bumped' \subseteq bumped \cup {"retry", "reconnect", "network"}
      /\ resumed' \in {resumed, FALSE}
  BY DEF AgentRestarts, Publish, Select, Retry, NetworkChanges, world, pane, history
<1>2. gen' \in 1..MaxGen /\ published' \in 0..gen'
  <2>1. gen \in 1..MaxGen /\ published \in 0..gen
    BY DEF PaneOK
  <2>2. CASE AgentRestarts
    <3>1. gen < MaxGen /\ gen' = gen + 1 /\ published' = published
      BY <2>2 DEF AgentRestarts
    <3> QED BY <2>1, <3>1, TabPaneAssumption
  <2>3. CASE Publish
    <3>1. gen' = gen /\ published' = gen
      BY <2>3 DEF Publish
    <3> QED BY <2>1, <3>1
  <2>4. CASE Select \/ Retry \/ \E ready \in BOOLEAN : NetworkChanges(ready)
    <3>1. gen' = gen /\ published' = published
      BY <2>4 DEF Select, Retry, NetworkChanges, world
    <3> QED BY <2>1, <3>1
  <2> QED BY <2>2, <2>3, <2>4
<1>3. net' \in [ready: BOOLEAN, changed: BOOLEAN]
  <2>1. net' = net \/ \E ready \in BOOLEAN : net' = [ready |-> ready, changed |-> TRUE]
    BY DEF AgentRestarts, Publish, Select, Retry, NetworkChanges, world
  <2>2. net \in [ready: BOOLEAN, changed: BOOLEAN]
    BY DEF PaneOK
  <2>3. \A ready \in BOOLEAN : [ready |-> ready, changed |-> TRUE] \in [ready: BOOLEAN, changed: BOOLEAN]
    OBVIOUS
  <2> QED BY <2>1, <2>2, <2>3, Zenon
<1>4. active' \in BOOLEAN
  <2>1. active' = active \/ active' = ~active
    BY DEF AgentRestarts, Publish, Select, Retry, NetworkChanges, world
  <2>2. active \in BOOLEAN /\ (~active) \in BOOLEAN
    BY DEF PaneOK
  <2> QED BY <2>1, <2>2, Zenon
<1>5. tab' \in Tab
  <2>1. tab' = tab \/ tab' = [tab EXCEPT !.error = FALSE, !.connError = FALSE, !.state = "connecting"]
    BY DEF AgentRestarts, Publish, Select, Retry, NetworkChanges, pane
  <2>2. tab \in Tab
    BY DEF PaneOK
  <2> QED BY <2>1, <2>2 DEF Tab, States
<1>6. events' \in 0..MaxEvents
  <2>1. events' = events \/ Event
    BY DEF AgentRestarts, Publish, Select, Retry, NetworkChanges, history
  <2>2. events \in 0..MaxEvents
    BY DEF PaneOK
  <2> QED BY <2>1, <2>2, EventCounted
<1>7. PaneOK'
  BY <1>1, <1>2, <1>3, <1>4, <1>5, <1>6 DEF PaneOK
<1> QED BY <1>1, <1>7, HolderLeft

\* Steps of the connection, and the resumption that replaces it: what they
\* change of the pane is what the tab says.
LEMMA OnlyReports ==
  ASSUME TabInv, UNCHANGED <<world, seen, bumped, timers, view>>, tab' \in Tab,
         resumed' \in BOOLEAN, events' = events \/ Event,
         HolderOK(view', conn', lost', late', owes')
  PROVE  TabInv'
<1> USE DEF TabInv
<1>1. events' \in 0..MaxEvents
  <2>1. events \in 0..MaxEvents
    BY DEF PaneOK
  <2> QED BY <2>1, EventCounted
<1>2. PaneOK'
  BY <1>1 DEF PaneOK, world
<1>3. ViewShown'
  BY DEF ViewShown
<1> QED BY <1>2, <1>3

\* A holder with a connection has a view.
LEMMA ResumeTab ==
  ASSUME TabInv, Resume
  PROVE  TabInv'
<1>1. HolderOK(view, conn, lost, late, owes) /\ tab \in Tab
  BY DEF TabInv, PaneOK
<1>2. /\ UNCHANGED <<world, seen, bumped, timers, view>> /\ Event /\ resumed' \in BOOLEAN
  BY DEF Resume
<1>3. CASE view = "held" /\ lost
  <2>1. /\ conn' = "new" /\ lost' = FALSE
        /\ late' = IF Open THEN late \cup {"this"} ELSE late
        /\ owes' = IF Started THEN owes \cup {"this"} ELSE owes
        /\ tab' = IF seen.tab.rend = NoAddress
                  THEN [tab EXCEPT !.state = "disconnected"] ELSE tab
    BY <1>3 DEF Resume
  <2>2. Started => Open
    BY DEF Open
  <2>3. late' \subseteq {"this", "old"} /\ owes' \subseteq late'
    BY <1>1, <2>1, <2>2 DEF HolderOK
  <2>4. HolderOK(view', conn', lost', late', owes')
    BY <1>2, <1>3, <2>1, <2>3 DEF HolderOK
  <2>5. tab' \in Tab
    BY <1>1, <2>1 DEF Tab, States
  <2> QED BY <1>2, <2>4, <2>5, OnlyReports
<1>4. CASE ~(view = "held" /\ lost)
  <2>1. UNCHANGED <<conn, lost, late, owes, tab>>
    BY <1>4 DEF Resume
  <2>2. HolderOK(view', conn', lost', late', owes')
    BY <1>1, <1>2, <2>1
  <2> QED BY <1>1, <1>2, <2>1, <2>2, OnlyReports
<1> QED BY <1>3, <1>4

LEMMA ConnTab ==
  ASSUME TabInv, ConnStarts \/ ConnAttaches \/ ConnFails \/ ConnTimesOut \/ ConnEnds \/ ConnErrs
  PROVE  TabInv'
<1>1. HolderOK(view, conn, lost, late, owes) /\ tab \in Tab /\ resumed \in BOOLEAN
  BY DEF TabInv, PaneOK
<1>2. /\ UNCHANGED <<world, seen, bumped, timers, view>>
      /\ conn \in {"new", "connecting", "attached"}
      /\ conn' \in {"connecting", "attached", "gone", conn} /\ lost' \in BOOLEAN
      /\ resumed' \in {resumed, FALSE} /\ (events' = events \/ Event)
      /\ (late' = late /\ owes' = owes)
           \/ (late' = late \cup {"this"} /\ owes' = owes \cup {"this"})
  BY DEF ConnStarts, ConnAttaches, ConnFails, ConnTimesOut, ConnEnds, ConnErrs, Started, history
<1>3. view = "held"
  BY <1>1, <1>2 DEF HolderOK
<1>4. HolderOK(view', conn', lost', late', owes')
  <2>1. conn' \in {"new", "connecting", "attached", "gone"}
    BY <1>2
  <2>2. late' \subseteq {"this", "old"} /\ owes' \subseteq late'
    BY <1>1, <1>2 DEF HolderOK
  <2> QED BY <1>2, <1>3, <2>1, <2>2 DEF HolderOK
<1>5. tab' \in Tab
  <2>1. Fails \/ \E s \in States : Says(s)
    BY DEF ConnStarts, ConnAttaches, ConnFails, ConnTimesOut, ConnEnds, ConnErrs, States
  <2> QED BY <1>1, <2>1, Reported
<1>6. resumed' \in BOOLEAN
  BY <1>1, <1>2
<1> QED BY <1>2, <1>4, <1>5, <1>6, OnlyReports

LEMMA LateTab ==
  ASSUME TabInv, NEW g \in {"this", "old"}, Late(g) \/ LateOver(g)
  PROVE  TabInv'
<1>1. HolderOK(view, conn, lost, late, owes) /\ tab \in Tab /\ resumed \in BOOLEAN
  BY DEF TabInv, PaneOK
<1>2. /\ UNCHANGED <<world, seen, bumped, timers, view, conn>> /\ events' = events
      /\ resumed' \in {resumed, FALSE} /\ g \in late
      /\ (late' = late /\ owes' = owes \cup {g}) \/ (late' = late \ {g} /\ owes' = owes \ {g})
  BY DEF Late, LateOver
<1>3. lost' \in BOOLEAN /\ (lost' => view = "held")
  <2>1. lost' = lost \/ (g = "this" /\ lost' \in BOOLEAN) \/ lost' = (g = "this" \/ lost)
    BY DEF Late, LateOver, LateSays, LateFails
  <2>2. lost \in BOOLEAN /\ (lost => view = "held") /\ (g = "this" => view = "held")
    BY <1>1, <1>2 DEF HolderOK
  <2>3. CASE lost' = lost
    BY <2>2, <2>3, Zenon
  <2>4. CASE g = "this" /\ lost' \in BOOLEAN
    BY <2>2, <2>4, Zenon
  <2>5. CASE lost' = (g = "this" \/ lost)
    BY <2>2, <2>5, Zenon
  <2> QED BY <2>1, <2>3, <2>4, <2>5, Zenon
<1>4. HolderOK(view', conn', lost', late', owes')
  <2>1. late' \subseteq {"this", "old"} /\ owes' \subseteq late' /\ ("this" \in late' => view = "held")
    BY <1>1, <1>2 DEF HolderOK
  <2> QED BY <1>1, <1>2, <1>3, <2>1 DEF HolderOK
<1>5. tab' \in Tab
  <2>1. tab' = tab \/ Fails \/ \E s \in States : Says(s)
    BY DEF Late, LateOver, LateSays, LateFails, States
  <2> QED BY <1>1, <2>1, Reported
<1>6. resumed' \in BOOLEAN
  BY <1>1, <1>2
<1> QED BY <1>2, <1>4, <1>5, <1>6, OnlyReports
LEMMA TabIsInvariant == TabSpec => []TabInv
<1>1. ASSUME TabInv, [TabNext]_tabVars PROVE TabInv'
  <2>1. CASE Compose
    BY <1>1, <2>1, ComposeTab
  <2>2. CASE Effects
    BY <1>1, <2>2, EffectsTab
  <2>3. CASE Reports
    BY <1>1, <2>3, ConnTab, LateTab DEF Reports
  <2>4. CASE Outside
    BY <1>1, <2>4, OutsideTab, ResumeTab DEF Outside
  <2>5. CASE UNCHANGED tabVars
    <3>1. UNCHANGED <<world, seen, bumped, timers, view, tab, resumed, events,
                      conn, lost, late, owes>>
      BY <2>5 DEF tabVars, world
    <3>2. HolderOK(view', conn', lost', late', owes') /\ tab' \in Tab /\ resumed' \in BOOLEAN
      BY <1>1, <3>1 DEF TabInv, PaneOK
    <3> QED BY <1>1, <3>1, <3>2, OnlyReports
  <2> QED BY <1>1, <2>1, <2>2, <2>3, <2>4, <2>5 DEF TabNext
<1> QED BY <1>1, InitTab, PTL DEF TabSpec

\* In every state a tab can come to, the view is there just when an address was
\* composed, a connection only with a view that has its holder, and what a
\* closed connection still has to say is said to a holder that is there.
THEOREM TabTypeCorrect == TabSpec => []TabTypeOK
<1>1. TabInv => TabTypeOK
  BY Zenon DEF TabInv, PaneOK, ViewShown, HolderOK, TabTypeOK
<1> QED BY <1>1, TabIsInvariant, PTL
-----------------------------------------------------------------------------
(* What a tab waits for.  That it does not wait in vain is the safety half  *)
(* of FetchRecovers, ConnectingEnds and AttachedIsTrue: where they promise  *)
(* that something happens, something is under way that can make it happen.  *)

\* A selected tab without an address is about to be composed, or is asking for
\* one, or will ask again.
FetchAttended == ~Fetched /\ active => Recompose \/ timers \cap {"fetch", "refetch"} # {}

\* A selected tab that is shown as connecting while there is a network is about
\* to be composed, or is asking, or will ask, for the address; or its connection
\* is being made; or a closed one has yet to report its end.  Its view has a
\* holder, or this is not promised.
ConnectingAttended ==
  tab.state = "connecting" /\ active /\ net.ready /\ view # "empty" =>
    \/ Recompose \/ timers \cap {"fetch", "network"} # {}
    \/ conn \in {"new", "connecting"} \/ owes # {}

\* A tab shows as attached what is attached, or a closed connection has yet to
\* report its end.
AttachedAttended == tab.state = "attached" => conn = "attached" \/ owes # {}

\* An unanswered request is repeated as soon as its error has been composed.  The
\* request that was begun anew cleared the error, and its own is not accepted
\* before that has been composed.
AskInv ==
  /\ Fetched \/ "fetch" \in timers \/ "retry" \in bumped \/ tab.error
  /\ seen.tab.error /\ seen.active /\ seen.tab.rend = NoRendezvous =>
       "refetch" \in timers \/ "retry" \in bumped \/ ~tab.error
  /\ seen.tab.rend # NoRendezvous /\ ~Fetched => ~(tab.error /\ seen.tab.error)

\* The network's effect has started, or will be when the network or the tab is back.
NetworkAwaited ==
  net.changed /\ ("network" \in timers \/ "network" \in bumped \/ ~net.ready \/ ~seen.active)

\* What can have made a tab connecting.
TryInv ==
  tab.state = "connecting" =>
    \/ Fetched /\ \/ view = "empty" \/ conn = "new"
                  \/ seen.tab.rend = NoRendezvous \/ "reconnect" \in bumped
    \/ conn = "connecting" \/ owes # {}
    \/ "fetch" \in timers \/ "retry" \in bumped \/ NetworkAwaited

WaitInv == TabInv /\ AskInv /\ AttachedAttended /\ TryInv

LEMMA InitWait == TabInit => WaitInv
<1> SUFFICES ASSUME TabInit PROVE WaitInv
  OBVIOUS
<1>1. /\ tab = Fresh /\ seen = [tab |-> Fresh, active |-> TRUE] /\ timers = {"fetch"}
      /\ Fresh.state = "connecting" /\ Fresh.error = FALSE /\ Fresh.rend = NoRendezvous
  BY DEF TabInit, Fresh
<1>2. AskInv
  BY <1>1 DEF AskInv
<1>3. AttachedAttended /\ TryInv
  BY <1>1 DEF AttachedAttended, TryInv
<1> QED BY <1>2, <1>3, InitTab DEF WaitInv

\* What the effects' bodies make of the tab and of the timers.
LEMMA BodiesRun ==
  ASSUME tab \in Tab, RunEffects
  PROVE  /\ "retry" \in bumped => "fetch" \in timers' /\ tab'.rend = NoRendezvous /\ tab'.error = FALSE
         /\ "retry" \notin bumped => /\ tab'.rend = tab.rend /\ tab'.error = tab.error
                                     /\ "fetch" \in timers => "fetch" \in timers'
         /\ tab'.state = "attached" => "retry" \notin bumped /\ tab.state = "attached"
         /\ tab'.state = "connecting" =>
              "retry" \in bumped \/ tab.state = "connecting" \/ (net.changed /\ ~net.ready)
         /\ "network" \in Restarted /\ active /\ net.changed /\ net.ready => "network" \in timers'
         /\ "network" \in timers \ Restarted => "network" \in timers'
         /\ "refetch" \in Restarted /\ active /\ tab'.error /\ tab'.rend = NoRendezvous =>
              "refetch" \in timers'
         /\ "refetch" \in timers \ Restarted => "refetch" \in timers'
<1> DEFINE c == AfterClose(tab)
           f == AfterFetch(c)
           t == AfterNetwork(f)
<1>1. /\ c \in Tab /\ c.rend = tab.rend /\ c.error = tab.error
      /\ c.state = tab.state \/ c.state = "disconnected"
  BY DEF AfterClose, Tab, States
<1>2. "fetch" \in Restarted <=> "retry" \in bumped
  BY DEF Restarted, Timers
<1>3. f \in Tab /\ ("retry" \in bumped => f = Fresh) /\ ("retry" \notin bumped => f = c)
  BY <1>1, <1>2, FreshTab DEF AfterFetch
<1>4. /\ t.rend = f.rend /\ t.error = f.error
      /\ t.state = f.state \/ (t.state = "connecting" /\ net.changed /\ ~net.ready)
  BY <1>3 DEF AfterNetwork, Tab, States
<1>5. tab' = t /\ timers' = (timers \ Restarted) \cup {e \in Restarted : Waits(e, f, t)}
  BY DEF RunEffects
<1>6. Fresh.rend = NoRendezvous /\ Fresh.error = FALSE /\ Fresh.state = "connecting"
  BY DEF Fresh
<1> HIDE DEF c, f, t
<1>7. /\ Waits("fetch", f, t)
      /\ active /\ net.changed /\ net.ready => Waits("network", f, t)
      /\ active /\ t.error /\ t.rend = NoRendezvous => Waits("refetch", f, t)
  BY DEF Waits
<1>8. "retry" \in bumped => "fetch" \in timers' /\ tab'.rend = NoRendezvous /\ tab'.error = FALSE
  BY <1>2, <1>3, <1>4, <1>5, <1>6, <1>7
<1>9. "retry" \notin bumped => /\ tab'.rend = tab.rend /\ tab'.error = tab.error
                               /\ "fetch" \in timers => "fetch" \in timers'
  BY <1>1, <1>2, <1>3, <1>4, <1>5
<1>10. /\ tab'.state = "attached" => "retry" \notin bumped /\ tab.state = "attached"
       /\ tab'.state = "connecting" =>
            "retry" \in bumped \/ tab.state = "connecting" \/ (net.changed /\ ~net.ready)
  BY <1>1, <1>3, <1>4, <1>5, <1>6
<1>11. /\ "network" \in Restarted /\ active /\ net.changed /\ net.ready => "network" \in timers'
       /\ "network" \in timers \ Restarted => "network" \in timers'
       /\ "refetch" \in Restarted /\ active /\ tab'.error /\ tab'.rend = NoRendezvous =>
            "refetch" \in timers'
       /\ "refetch" \in timers \ Restarted => "refetch" \in timers'
  BY <1>5, <1>7
<1> QED BY <1>8, <1>9, <1>10, <1>11

LEMMA ComposeWait ==
  ASSUME WaitInv, Compose
  PROVE  WaitInv'
<1> DEFINE retry == "retry" \in bumped
<1>1. /\ tab \in Tab /\ HolderOK(view, conn, lost, late, owes) /\ ViewShown
      /\ active \in BOOLEAN
  BY DEF WaitInv, TabInv, PaneOK
<1>2. /\ seen' = [tab |-> tab, active |-> active] /\ bumped' = {} /\ net' = net
      /\ active' = active /\ RunEffects /\ ComposeView
  BY DEF Compose, world
<1>3. seen'.tab.rend = tab.rend /\ seen'.tab.error = tab.error /\ seen'.active = active
  BY <1>2
<1>4. /\ retry => "fetch" \in timers' /\ tab'.rend = NoRendezvous /\ tab'.error = FALSE
      /\ ~retry => /\ tab'.rend = tab.rend /\ tab'.error = tab.error
                   /\ "fetch" \in timers => "fetch" \in timers'
  BY <1>1, <1>2, BodiesRun
<1>5. AskInv'
  <2>1. Fetched' \/ "fetch" \in timers' \/ tab'.error
    BY <1>4 DEF WaitInv, AskInv, Fetched
  <2>2. tab.error /\ active /\ tab.rend = NoRendezvous => "refetch" \in timers' \/ ~tab'.error
    <3> SUFFICES ASSUME tab.error, active, tab.rend = NoRendezvous, tab'.error
                 PROVE  "refetch" \in timers'
      OBVIOUS
    <3>1. ~retry /\ tab'.rend = NoRendezvous
      BY <1>4
    <3>2. CASE "refetch" \in Restarted
      BY <1>1, <1>2, <3>1, <3>2, BodiesRun
    <3>3. CASE "refetch" \notin Restarted
      <4>1. ~Switched /\ seen.tab.error = tab.error
        BY <3>3 DEF Restarted, Timers
      <4>2. seen.tab.error /\ seen.active
        BY <4>1 DEF Switched
      <4>3. seen.tab.rend = NoRendezvous
        BY <4>2 DEF WaitInv, AskInv, Fetched
      <4>4. "refetch" \in timers
        BY <3>1, <4>2, <4>3 DEF WaitInv, AskInv
      <4> QED BY <1>1, <1>2, <3>3, <4>4, BodiesRun
    <3> QED BY <3>2, <3>3
  <2>3. tab.rend # NoRendezvous /\ ~Fetched' => ~(tab'.error /\ tab.error)
    BY <1>4 DEF Fetched
  <2> QED BY <1>2, <1>3, <2>1, <2>2, <2>3 DEF AskInv
\* What becomes of the holder.
<1>6. /\ owes # {} => owes' # {}
      /\ Started => conn' = conn \/ owes' # {}
      /\ Fetched => \/ view' = "empty" \/ conn' = "new"
                    \/ conn' = conn /\ view' = view /\ view # "none" /\ ~HolderReplaced
  <2>1. CASE ~Fetched
    BY <1>2, <2>1 DEF ComposeView, CloseHeld
  <2>2. CASE Fetched /\ view = "none"
    <3>1. conn' = "new" /\ owes' = owes
      BY <1>2, <2>2 DEF ComposeView, NewHolder
    <3>2. conn = "none"
      BY <1>1, <2>2 DEF HolderOK
    <3> QED BY <3>1, <3>2 DEF Started
  <2>3. CASE Fetched /\ view # "none" /\ HolderReplaced
    <3>1. view' = "empty" /\ CloseHeld
      BY <1>2, <2>3 DEF ComposeView
    <3> QED BY <3>1 DEF CloseHeld
  <2>4. CASE Fetched /\ view # "none" /\ ~HolderReplaced
    <3>1. UNCHANGED holder
      BY <1>2, <2>4 DEF ComposeView
    <3> QED BY <2>4, <3>1 DEF holder
  <2> QED BY <2>1, <2>2, <2>3, <2>4
<1>7. AttachedAttended'
  <2>1. ASSUME tab'.state = "attached" PROVE conn' = "attached" \/ owes' # {}
    <3>1. tab.state = "attached"
      BY <1>1, <1>2, <2>1, BodiesRun
    <3>2. conn = "attached" \/ owes # {}
      BY <3>1 DEF WaitInv, AttachedAttended
    <3> QED BY <1>6, <3>2 DEF Started
  <2> QED BY <2>1 DEF AttachedAttended
<1>8. TryInv'
  <2> SUFFICES ASSUME tab'.state = "connecting", ~retry, ~(net.changed /\ ~net.ready)
               PROVE  \/ Fetched' /\ (view' = "empty" \/ conn' = "new")
                      \/ conn' = "connecting" \/ owes' # {} \/ "fetch" \in timers'
                      \/ NetworkAwaited'
    BY <1>2, <1>4 DEF TryInv, NetworkAwaited
  <2>1. tab.state = "connecting"
    BY <1>1, <1>2, BodiesRun
  <2>2. Fetched' = Fetched
    BY <1>4 DEF Fetched
  <2>3. CASE Fetched /\ \/ view = "empty" \/ conn = "new"
                        \/ seen.tab.rend = NoRendezvous \/ "reconnect" \in bumped
    <3>1. seen.tab.rend = NoRendezvous => view = "none"
      BY <1>1 DEF ViewShown
    <3>2. "reconnect" \in bumped => HolderReplaced
      BY DEF HolderReplaced
    <3> QED BY <1>6, <2>2, <2>3, <3>1, <3>2
  <2>4. CASE conn = "connecting" \/ owes # {}
    BY <1>6, <2>4 DEF Started
  <2>5. CASE "fetch" \in timers
    BY <1>4, <2>5
  <2>6. CASE NetworkAwaited
    <3>1. net.changed /\ net.ready
      BY <2>6 DEF NetworkAwaited
    <3>2. CASE ~active
      BY <1>2, <1>3, <3>1, <3>2 DEF NetworkAwaited
    <3>3. CASE active /\ "network" \in Restarted
      <4>1. "network" \in timers'
        BY <1>1, <1>2, <3>1, <3>3, BodiesRun
      <4> QED BY <1>2, <3>1, <4>1 DEF NetworkAwaited
    <3>4. CASE active /\ "network" \notin Restarted
      <4>1. ~Switched /\ "network" \notin bumped
        BY <3>4 DEF Restarted, Timers
      <4>2. "network" \in timers
        BY <2>6, <3>1, <3>4, <4>1 DEF NetworkAwaited, Switched
      <4>3. "network" \in timers'
        BY <1>1, <1>2, <3>4, <4>2, BodiesRun
      <4> QED BY <1>2, <3>1, <4>3 DEF NetworkAwaited
    <3> QED BY <3>2, <3>3, <3>4
  <2> QED BY <2>1, <2>3, <2>4, <2>5, <2>6 DEF WaitInv, TryInv
<1>9. TabInv'
  BY ComposeTab DEF WaitInv
<1> QED BY <1>5, <1>7, <1>8, <1>9 DEF WaitInv

LEMMA EffectsWait ==
  ASSUME WaitInv, Effects
  PROVE  WaitInv'
<1>1. /\ tab \in Tab /\ published \in 0..gen /\ gen \in 1..MaxGen
  BY DEF WaitInv, TabInv, PaneOK
<1>2. published # NoRendezvous
  BY <1>1, TabPaneAssumption DEF NoRendezvous
<1>3. /\ UNCHANGED <<seen, holder, world>> /\ bumped \subseteq bumped'
  BY DEF Effects, FetchSucceeds, FetchFails, Reconnect, NetworkRetry, Refetch
<1>4. /\ seen' = seen /\ net' = net /\ view' = view /\ conn' = conn /\ owes' = owes
  BY <1>3 DEF holder, world
<1> USE DEF WaitInv
<1>5. AskInv' /\ AttachedAttended' /\ TryInv'
  <2>1. CASE FetchSucceeds
    <3>1. /\ tab' = [tab EXCEPT !.rend = published] /\ timers' = timers \ {"fetch"}
          /\ seen.tab.rend = NoRendezvous /\ bumped' = bumped
      BY <2>1 DEF FetchSucceeds
    <3>2. tab'.rend = published /\ tab'.error = tab.error /\ tab'.state = tab.state
      BY <1>1, <3>1 DEF Tab
    <3>3. Fetched'
      BY <1>2, <3>2 DEF Fetched
    <3>4. AskInv'
      BY <1>4, <3>1, <3>2, <3>3 DEF AskInv
    <3>5. AttachedAttended' /\ TryInv'
      BY <1>4, <3>1, <3>2, <3>3 DEF AttachedAttended, TryInv
    <3> QED BY <3>4, <3>5
  <2>2. CASE FetchFails
    <3>1. /\ tab' = [tab EXCEPT !.error = TRUE, !.connError = TRUE, !.state = "disconnected"]
          /\ ~seen.tab.error
      BY <2>2 DEF FetchFails
    <3>2. tab'.rend = tab.rend /\ tab'.error = TRUE /\ tab'.state = "disconnected"
      BY <1>1, <3>1 DEF Tab
    <3>3. AskInv'
      BY <1>4, <3>1, <3>2 DEF AskInv
    <3> QED BY <3>2, <3>3 DEF AttachedAttended, TryInv
  <2>3. CASE Reconnect
    <3>1. /\ tab' = [tab EXCEPT !.connError = FALSE] /\ timers' = timers \ {"reconnect"}
      BY <2>3 DEF Reconnect
    <3>2. tab'.rend = tab.rend /\ tab'.error = tab.error /\ tab'.state = tab.state
      BY <1>1, <3>1 DEF Tab
    <3>3. AskInv'
      BY <1>3, <1>4, <3>1, <3>2 DEF AskInv, Fetched
    <3>4. AttachedAttended' /\ TryInv'
      BY <1>3, <1>4, <3>1, <3>2 DEF AttachedAttended, TryInv, Fetched, NetworkAwaited
    <3> QED BY <3>3, <3>4
  <2>4. CASE NetworkRetry
    <3>1. tab' = [tab EXCEPT !.error = FALSE, !.connError = FALSE, !.state = "connecting"]
          /\ "retry" \in bumped'
      BY <2>4 DEF NetworkRetry
    <3>2. tab'.rend = tab.rend /\ tab'.error = FALSE /\ tab'.state = "connecting"
      BY <1>1, <3>1 DEF Tab
    <3> QED BY <3>1, <3>2 DEF AskInv, AttachedAttended, TryInv
  <2>5. CASE Refetch
    <3>1. tab' = tab /\ timers' = timers \ {"refetch"} /\ "retry" \in bumped'
      BY <2>5 DEF Refetch
    <3>2. AskInv'
      BY <1>4, <3>1 DEF AskInv, Fetched
    <3> QED BY <1>4, <3>1, <3>2 DEF AttachedAttended, TryInv
  <2> QED BY <2>1, <2>2, <2>3, <2>4, <2>5 DEF Effects
<1> QED BY <1>5, EffectsTab

LEMMA OutsideWait ==
  ASSUME WaitInv, AgentRestarts \/ Publish \/ Select \/ Retry
                    \/ \E ready \in BOOLEAN : NetworkChanges(ready)
  PROVE  WaitInv'
<1>1. tab \in Tab
  BY DEF WaitInv, TabInv, PaneOK
<1>2. /\ UNCHANGED <<seen, holder, timers>> /\ bumped \subseteq bumped'
  BY DEF AgentRestarts, Publish, Select, Retry, NetworkChanges, pane
<1>3. /\ seen' = seen /\ timers' = timers /\ view' = view /\ conn' = conn /\ owes' = owes
  BY <1>2 DEF holder
<1> USE DEF WaitInv
<1>4. AskInv' /\ AttachedAttended' /\ TryInv'
  <2>1. CASE AgentRestarts \/ Publish \/ Select
    <3>1. tab' = tab /\ net' = net
      BY <2>1 DEF AgentRestarts, Publish, Select, pane
    <3>2. AskInv'
      BY <1>2, <1>3, <3>1 DEF AskInv, Fetched
    <3>3. AttachedAttended' /\ TryInv'
      BY <1>2, <1>3, <3>1 DEF AttachedAttended, TryInv, Fetched, NetworkAwaited
    <3> QED BY <3>2, <3>3
  <2>2. CASE Retry
    <3>1. /\ tab' = [tab EXCEPT !.error = FALSE, !.connError = FALSE, !.state = "connecting"]
          /\ \/ "retry" \in bumped'
             \/ Fetched /\ "reconnect" \in bumped'
      BY <2>2 DEF Retry
    <3>2. tab'.rend = tab.rend /\ tab'.error = FALSE /\ tab'.state = "connecting"
      BY <1>1, <3>1 DEF Tab
    <3>3. Fetched' = Fetched
      BY <3>2 DEF Fetched
    <3>4. AskInv'
      BY <3>1, <3>2, <3>3 DEF AskInv
    <3>5. AttachedAttended' /\ TryInv'
      BY <3>1, <3>2, <3>3 DEF AttachedAttended, TryInv
    <3> QED BY <3>4, <3>5
  <2>3. CASE \E ready \in BOOLEAN : NetworkChanges(ready)
    <3>1. tab' = tab /\ net'.changed = TRUE /\ "network" \in bumped'
      BY <2>3 DEF NetworkChanges
    <3>2. AskInv'
      BY <1>2, <1>3, <3>1 DEF AskInv, Fetched
    <3>3. AttachedAttended' /\ TryInv'
      BY <1>3, <3>1 DEF AttachedAttended, TryInv, NetworkAwaited
    <3> QED BY <3>2, <3>3
  <2> QED BY <2>1, <2>2, <2>3
<1> QED BY <1>4, OutsideTab

\* Reports leave alone what the effects read, except for the tab's state.
LEMMA ReportsWait ==
  ASSUME WaitInv, TabInv', UNCHANGED <<world, seen, bumped, timers, view>>,
         tab'.rend = tab.rend, tab'.error = tab.error,
         tab'.state = "attached" => conn' = "attached" \/ owes' # {},
         tab'.state = "connecting" =>
           \/ conn' = "connecting" \/ owes' # {}
           \/ tab.state = "connecting" /\ owes' = owes
                /\ (conn' = conn \/ (conn' = "new" /\ conn # "connecting"))
  PROVE  WaitInv'
<1>1. net' = net
  BY DEF world
<1>2. AskInv'
  BY DEF WaitInv, AskInv, Fetched
<1>3. AttachedAttended'
  BY DEF AttachedAttended
<1>4. TryInv'
  <2>1. Fetched' = Fetched /\ NetworkAwaited' = NetworkAwaited
    BY <1>1 DEF Fetched, NetworkAwaited
  <2>2. TryInv
    BY DEF WaitInv
  <2> QED BY <2>1, <2>2 DEF TryInv
<1> QED BY <1>2, <1>3, <1>4 DEF WaitInv

\* A report says one thing of the state, and nothing of the address.
LEMMA Told ==
  ASSUME tab \in Tab
  PROVE  /\ Fails => tab'.rend = tab.rend /\ tab'.error = tab.error /\ tab'.state = "disconnected"
         /\ \A s \in States :
              Says(s) => tab'.rend = tab.rend /\ tab'.error = tab.error /\ tab'.state = s
<1>1. ASSUME Fails
      PROVE  tab'.rend = tab.rend /\ tab'.error = tab.error /\ tab'.state = "disconnected"
  BY <1>1 DEF Fails, Tab
<1>2. ASSUME NEW s \in States, Says(s)
      PROVE  tab'.rend = tab.rend /\ tab'.error = tab.error /\ tab'.state = s
  BY <1>2 DEF Says, Tab
<1> QED BY <1>1, <1>2

LEMMA ConnWait ==
  ASSUME WaitInv, ConnStarts \/ ConnAttaches \/ ConnFails \/ ConnTimesOut \/ ConnEnds \/ ConnErrs
  PROVE  WaitInv'
<1>1. tab \in Tab
  BY DEF WaitInv, TabInv, PaneOK
<1>2. UNCHANGED <<world, seen, bumped, timers, view>>
  BY DEF ConnStarts, ConnAttaches, ConnFails, ConnTimesOut, ConnEnds, ConnErrs
<1>3. \/ Fails \/ Says("disconnected")
      \/ Says("connecting") /\ conn' = "connecting"
      \/ Says("attached") /\ conn' = "attached"
  BY DEF ConnStarts, ConnAttaches, ConnFails, ConnTimesOut, ConnEnds, ConnErrs
<1>4. /\ tab'.rend = tab.rend /\ tab'.error = tab.error
      /\ \/ tab'.state = "disconnected"
         \/ tab'.state = "connecting" /\ conn' = "connecting"
         \/ tab'.state = "attached" /\ conn' = "attached"
  BY <1>1, <1>3, Told DEF States
<1>5. TabInv'
  BY ConnTab DEF WaitInv
<1> QED BY <1>2, <1>4, <1>5, ReportsWait

LEMMA LateWait ==
  ASSUME WaitInv, NEW g \in {"this", "old"}, Late(g) \/ LateOver(g)
  PROVE  WaitInv'
<1>1. tab \in Tab
  BY DEF WaitInv, TabInv, PaneOK
<1>2. UNCHANGED <<world, seen, bumped, timers, view, conn>>
  BY DEF Late, LateOver
<1>3. TabInv'
  BY LateTab DEF WaitInv
<1>4. CASE Late(g)
  <2>1. owes' # {} /\ (Says("connecting") \/ Says("attached"))
    BY <1>4 DEF Late, LateSays
  <2>2. tab'.rend = tab.rend /\ tab'.error = tab.error
    BY <1>1, <2>1, Told DEF States
  <2> QED BY <1>2, <1>3, <2>1, <2>2, ReportsWait
<1>5. CASE LateOver(g) /\ (Says("disconnected") \/ Fails)
  <2>1. tab'.rend = tab.rend /\ tab'.error = tab.error /\ tab'.state = "disconnected"
    BY <1>1, <1>5, Told DEF States
  <2> QED BY <1>2, <1>3, <2>1, ReportsWait
<1>6. CASE LateOver(g) /\ g \notin owes /\ tab' = tab
  <2>1. owes' = owes
    BY <1>6 DEF LateOver
  <2>2. tab.state = "attached" => conn = "attached" \/ owes # {}
    BY DEF WaitInv, AttachedAttended
  <2> QED BY <1>2, <1>3, <1>6, <2>1, <2>2, ReportsWait
<1> QED BY <1>4, <1>5, <1>6 DEF LateOver, LateSays, LateFails

LEMMA ResumeWait ==
  ASSUME WaitInv, Resume
  PROVE  WaitInv'
<1>1. tab \in Tab
  BY DEF WaitInv, TabInv, PaneOK
<1>2. UNCHANGED <<world, seen, bumped, timers, view>>
  BY DEF Resume
<1>3. TabInv'
  BY ResumeTab DEF WaitInv
<1>4. tab.state = "attached" => conn = "attached" \/ owes # {}
  BY DEF WaitInv, AttachedAttended
<1>5. CASE view = "held" /\ lost
  <2>1. /\ conn' = "new"
        /\ owes' = IF Started THEN owes \cup {"this"} ELSE owes
        /\ tab' = IF seen.tab.rend = NoAddress
                  THEN [tab EXCEPT !.state = "disconnected"] ELSE tab
    BY <1>5 DEF Resume
  <2>2. /\ tab'.rend = tab.rend /\ tab'.error = tab.error
        /\ tab'.state \in {tab.state, "disconnected"}
    BY <1>1, <2>1 DEF Tab
  <2>3. /\ Started => owes' # {}
        /\ ~Started => owes' = owes /\ conn # "connecting" /\ conn # "attached"
    BY <2>1 DEF Started
  <2> QED BY <1>2, <1>3, <1>4, <2>1, <2>2, <2>3, ReportsWait
<1>6. CASE ~(view = "held" /\ lost)
  <2>1. UNCHANGED <<conn, lost, late, owes, tab>>
    BY <1>6 DEF Resume
  <2> QED BY <1>2, <1>3, <1>4, <2>1, ReportsWait
<1> QED BY <1>5, <1>6

LEMMA WaitIsInvariant == TabSpec => []WaitInv
<1>1. ASSUME WaitInv, TabInv', [TabNext]_tabVars PROVE WaitInv'
  <2>1. CASE Compose
    BY <1>1, <2>1, ComposeWait
  <2>2. CASE Effects
    BY <1>1, <2>2, EffectsWait
  <2>3. CASE Reports
    BY <1>1, <2>3, ConnWait, LateWait DEF Reports
  <2>4. CASE Outside
    BY <1>1, <2>4, OutsideWait, ResumeWait DEF Outside
  <2>5. CASE UNCHANGED tabVars
    <3>1. UNCHANGED <<world, seen, bumped, timers, view, tab, conn, owes>>
      BY <2>5 DEF tabVars, world
    <3>2. tab.state = "attached" => conn = "attached" \/ owes # {}
      BY <1>1 DEF WaitInv, AttachedAttended
    <3> QED BY <1>1, <3>1, <3>2, ReportsWait
  <2> QED BY <1>1, <2>1, <2>2, <2>3, <2>4, <2>5 DEF TabNext
<1> QED BY <1>1, InitWait, TabIsInvariant, PTL DEF TabSpec

\* A tab without an address never stops asking for it while it is selected,
\* whatever failed, was retried or hidden meanwhile.
THEOREM FetchNeverStops == TabSpec => []FetchAttended
<1>1. ASSUME WaitInv, ~Fetched, active, ~Recompose
      PROVE  timers \cap {"fetch", "refetch"} # {}
  <2>1. /\ bumped = {} /\ seen.active = active
        /\ seen.tab.rend = tab.rend /\ seen.tab.error = tab.error
    BY <1>1 DEF Recompose
  <2>2. tab.rend = NoRendezvous
    BY <1>1 DEF Fetched
  <2>3. "fetch" \in timers \/ tab.error
    BY <1>1, <2>1 DEF WaitInv, AskInv
  <2>4. tab.error => "refetch" \in timers
    BY <1>1, <2>1, <2>2 DEF WaitInv, AskInv
  <2> QED BY <2>3, <2>4
<1>2. WaitInv => FetchAttended
  BY <1>1 DEF FetchAttended
<1> QED BY <1>2, WaitIsInvariant, PTL

\* A tab that cannot be used because it is connecting has something under way
\* that ends this, unless the holder was replaced under its view.
THEOREM ConnectingNeverHangs == TabSpec => []ConnectingAttended
<1>1. ASSUME WaitInv, tab.state = "connecting", active, net.ready, view # "empty", ~Recompose
      PROVE  \/ timers \cap {"fetch", "network"} # {}
             \/ conn \in {"new", "connecting"} \/ owes # {}
  <2>1. bumped = {} /\ seen.active = active /\ seen.tab.rend = tab.rend
    BY <1>1 DEF Recompose
  <2>2. Fetched => seen.tab.rend # NoRendezvous
    BY <2>1 DEF Fetched
  <2>3. NetworkAwaited => "network" \in timers
    BY <1>1, <2>1 DEF NetworkAwaited
  <2>4. TryInv
    BY <1>1 DEF WaitInv
  <2> QED BY <1>1, <2>1, <2>2, <2>3, <2>4 DEF TryInv
<1>2. WaitInv => ConnectingAttended
  BY <1>1 DEF ConnectingAttended
<1> QED BY <1>2, WaitIsInvariant, PTL

\* Whatever closed connections report, and in whatever order, a tab that shows
\* as attached what is not will be told.
THEOREM AttachedIsTold == TabSpec => []AttachedAttended
<1>1. WaitInv => AttachedAttended
  BY DEF WaitInv
<1> QED BY <1>1, WaitIsInvariant, PTL
=============================================================================
