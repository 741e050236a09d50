------------------------------ MODULE TabPane ------------------------------
(***************************************************************************)
(* A terminal tab of the app (TerminalTabPane of TerminalScreen.kt): the   *)
(* daemon's address it fetched, what it says of its connection, the        *)
(* effects that fetch and reconnect, the view, and the holder of the       *)
(* connection (TermuxTerminalHolder of WispTermuxTerminalView.kt).         *)
(*                                                                         *)
(* Effects and holder are remembered under keys.  When a key has changed   *)
(* the next composition cancels an effect and starts it again, or replaces *)
(* the holder, whose connection is closed.  The factory that gives a       *)
(* holder its view, and with it a connection, runs only when the view is   *)
(* put on the screen: that is how Compose's AndroidView works.             *)
(***************************************************************************)
EXTENDS Naturals, FiniteSets

CONSTANTS
  MaxGen,      \* bound on the addresses the agent has: a new one at each start
  MaxEvents    \* bound on what the network, the user and the system do

ASSUME TabPaneAssumption == MaxGen \in Nat \ {0} /\ MaxEvents \in Nat

NoRendezvous == MaxGen + 1
\* A rendezvous without one: the app falls back to TCP, at 127.0.0.1:7777.  There
\* is nothing on a phone, so this connection is refused, without an error text.
NoAddress == 0

States == {"connecting", "attached", "disconnected"}
Tab == [rend: 0..(MaxGen + 1), error: BOOLEAN, connError: BOOLEAN, state: States]
Timers == {"fetch", "reconnect", "network", "refetch"}

VARIABLES
  gen,         \* the agent's address
  published,   \* the address the cloud has of it, or NoAddress
  net,         \* the network: ready, and changed since the tab was opened
  active,      \* the tab is the selected one
  tab,         \* rendezvous, error, connectionError, connectionState
  seen,        \* tab and active as they were composed last
  bumped,      \* keys changed since: the nonces "retry", "reconnect", "network"
  timers,      \* the effects that are waiting: for the cloud, or for a delay
  view,        \* "none" on the screen; "held" by its holder; "empty": the holder
               \* of the composition has no view, the view's holder is closed
  conn,        \* the connection of the view's holder
  lost,        \* the holder's own connectionState is Disconnected
  late,        \* whose closed connections may still report: "this" or an "old" holder's
  owes,        \* which of them had begun to, and will report their end
  resumed,     \* history: the app was resumed with a network and this tab, not
               \* attached, before the user; nothing was reported since
  events       \* history: what the network, the user and the system did

world == <<gen, published, net, active>>
pane == <<tab, seen, bumped, timers>>
holder == <<view, conn, lost, late, owes>>
history == <<resumed, events>>
tabVars == <<gen, published, net, active, tab, seen, bumped, timers,
          view, conn, lost, late, owes, resumed, events>>

Fresh == [rend |-> NoRendezvous, error |-> FALSE, connError |-> FALSE, state |-> "connecting"]

TabInit ==
  /\ gen = 1 /\ published \in {NoAddress, 1}
  /\ net = [ready |-> TRUE, changed |-> FALSE]
  /\ active = TRUE
  /\ tab = Fresh
  /\ seen = [tab |-> Fresh, active |-> TRUE]
  /\ bumped = {}
  /\ timers = {"fetch"}
  /\ view = "none" /\ conn = "none" /\ lost = FALSE /\ late = {} /\ owes = {}
  /\ resumed = FALSE /\ events = 0

Fetched == tab.rend # NoRendezvous
Started == conn \in {"connecting", "attached"}
Open == conn = "new" \/ Started
-----------------------------------------------------------------------------
(* A composition.  Effects whose keys changed are cancelled and their bodies *)
(* run, in the order of the source, up to the first delay; what they write   *)
(* is for the next composition.                                              *)

Recompose == bumped # {} \/ seen.active # active
               \/ seen.tab.rend # tab.rend \/ seen.tab.error # tab.error
               \/ seen.tab.state # tab.state

Switched == seen.active # active

\* Variant for testing: an effect that gave up while the tab was not selected
\* is not started again when it is.
RestartedUnselected ==
  {e \in Timers :
     CASE e = "fetch" -> "retry" \in bumped
       [] e = "reconnect" -> "reconnect" \in bumped \/ seen.tab.state # tab.state
       [] e = "network" -> "network" \in bumped
       [] e = "refetch" -> "retry" \in bumped \/ seen.tab.error # tab.error}

\* The effects that are started again.
Restarted ==
  {e \in Timers :
     CASE e = "fetch" -> "retry" \in bumped
       [] e = "reconnect" -> Switched \/ "reconnect" \in bumped \/ seen.tab.state # tab.state
       [] e = "network" -> Switched \/ "network" \in bumped
       [] e = "refetch" -> Switched \/ "retry" \in bumped \/ seen.tab.error # tab.error}

HolderReplaced == "reconnect" \in bumped \/ seen.tab.rend # tab.rend

\* Closing a TCP connection reports it as disconnected, even if it ended before.
AfterClose(t) ==
  IF view = "held" /\ HolderReplaced /\ seen.tab.rend = NoAddress
  THEN [t EXCEPT !.state = "disconnected"] ELSE t

\* The first effect's body: everything anew.
AfterFetch(t) == IF "fetch" \in Restarted THEN Fresh ELSE t

\* The network effect's: without a network the tab is connecting.
AfterNetwork(t) ==
  IF "network" \in Restarted /\ active /\ net.changed /\ ~net.ready
  THEN [t EXCEPT !.connError = FALSE, !.state = "connecting"] ELSE t

\* Whether an effect comes to its delay, or to its request.
Waits(e, afterFetch, t) ==
  CASE e = "fetch" -> TRUE
    [] e = "reconnect" -> active /\ afterFetch.state = "disconnected"
                            /\ ~afterFetch.connError /\ afterFetch.rend # NoRendezvous
    [] e = "network" -> active /\ net.changed /\ net.ready
    [] e = "refetch" -> active /\ t.error /\ t.rend = NoRendezvous

RunEffects ==
  LET afterFetch == AfterFetch(AfterClose(tab))
      t == AfterNetwork(afterFetch)
  IN  /\ tab' = t
      /\ timers' = (timers \ Restarted) \cup {e \in Restarted : Waits(e, afterFetch, t)}

\* A connection that is closed now may have something to say still.
CloseHeld ==
  /\ conn' = "none" /\ lost' = FALSE
  /\ late' = IF Open \/ late # {} THEN {"old"} ELSE {}
  /\ owes' = IF Started \/ owes # {} THEN {"old"} ELSE {}

NewHolder ==
  /\ view' = "held" /\ conn' = "new" /\ lost' = FALSE
  /\ UNCHANGED <<late, owes>>

\* Variant for testing: a view that is taken away leaves its holder open.
ComposeViewLeaving ==
  CASE ~Fetched -> view' = "none" /\ UNCHANGED <<conn, lost, late, owes>>
    [] Fetched /\ view = "none" -> NewHolder
    [] OTHER -> UNCHANGED holder

ComposeView ==
  CASE ~Fetched -> view' = "none" /\ CloseHeld
    [] Fetched /\ view = "none" -> NewHolder
    [] Fetched /\ view # "none" /\ HolderReplaced -> view' = "empty" /\ CloseHeld
    [] OTHER -> UNCHANGED holder

Compose ==
  /\ Recompose
  /\ ComposeView
  /\ RunEffects
  /\ seen' = [tab |-> tab, active |-> active]
  /\ bumped' = {}
  /\ UNCHANGED <<world, resumed, events>>
-----------------------------------------------------------------------------
(* The effects after their delays and requests. *)

\* One of three requests was answered.  (Not before the frame is composed that
\* takes the old view away: that would need an answer within milliseconds.)
FetchSucceeds ==
  /\ "fetch" \in timers /\ seen.tab.rend = NoRendezvous
  /\ net.ready
  /\ tab' = [tab EXCEPT !.rend = published]
  /\ timers' = timers \ {"fetch"}
  /\ UNCHANGED <<world, seen, bumped, holder, history>>

\* None of them was: two delays later, when what the body wrote is long composed.
FetchFails ==
  /\ "fetch" \in timers /\ ~seen.tab.error
  /\ tab' = [tab EXCEPT !.error = TRUE, !.connError = TRUE, !.state = "disconnected"]
  /\ timers' = timers \ {"fetch"}
  /\ resumed' = FALSE
  /\ UNCHANGED <<world, seen, bumped, holder, events>>

\* Two seconds after a connection ended without an error.
Reconnect ==
  /\ "reconnect" \in timers
  /\ tab' = [tab EXCEPT !.connError = FALSE]
  /\ bumped' = bumped \cup {"reconnect"}
  /\ timers' = timers \ {"reconnect"}
  /\ UNCHANGED <<world, seen, holder, history>>

\* A second and a half after the network changed.
NetworkRetry ==
  /\ "network" \in timers
  /\ tab' = [tab EXCEPT !.error = FALSE, !.connError = FALSE, !.state = "connecting"]
  /\ bumped' = bumped \cup {"retry"}
  /\ timers' = timers \ {"network"}
  /\ UNCHANGED <<world, seen, holder, resumed, events>>

\* Five seconds after the cloud gave no answer.
Refetch ==
  /\ "refetch" \in timers
  /\ bumped' = bumped \cup {"retry"}
  /\ timers' = timers \ {"refetch"}
  /\ UNCHANGED <<world, tab, seen, holder, history>>
-----------------------------------------------------------------------------
(* What happens to the tab. *)

Event == events < MaxEvents /\ events' = events + 1

AgentRestarts ==
  /\ Event
  /\ gen < MaxGen
  /\ gen' = gen + 1
  /\ resumed' = FALSE
  /\ UNCHANGED <<published, net, active, pane, holder>>

\* publish_presence, now and then.
Publish ==
  /\ published # gen
  /\ published' = gen
  /\ UNCHANGED <<gen, net, active, pane, holder, history>>

\* Variant for testing: the effect is not keyed by whether the network is back.
NetworkChangesUnkeyed(ready) ==
  /\ Event
  /\ net' = [ready |-> ready, changed |-> TRUE]
  /\ bumped' = IF ready THEN bumped ELSE bumped \cup {"network"}
  /\ resumed' = FALSE
  /\ UNCHANGED <<gen, published, active, tab, seen, timers, holder>>

NetworkChanges(ready) ==
  /\ Event
  /\ net' = [ready |-> ready, changed |-> TRUE]
  /\ bumped' = bumped \cup {"network"}
  /\ resumed' = FALSE
  /\ UNCHANGED <<gen, published, active, tab, seen, timers, holder>>

Select ==
  /\ Event
  /\ active' = ~active
  /\ resumed' = FALSE
  /\ UNCHANGED <<gen, published, net, pane, holder>>

\* Retry of the dialog, which offers it with an error or a lost connection.
Retry ==
  /\ Event
  /\ active
  /\ tab.connError \/ tab.state = "disconnected"
  /\ tab' = [tab EXCEPT !.error = FALSE, !.connError = FALSE, !.state = "connecting"]
  /\ bumped' = bumped \cup {IF ~Fetched \/ tab.error THEN "retry" ELSE "reconnect"}
  /\ resumed' = FALSE
  /\ UNCHANGED <<world, seen, timers, holder>>

\* Variant for testing: only a holder whose connection is still open reconnects.
ResumeOpen ==
  /\ Event
  /\ resumed' = (active /\ net.ready /\ (conn = "attached" => lost))
  /\ IF view = "held" /\ lost /\ Open
     THEN conn' = "new" /\ lost' = FALSE /\ UNCHANGED <<late, owes, tab>>
     ELSE UNCHANGED <<conn, lost, late, owes, tab>>
  /\ UNCHANGED <<world, seen, bumped, timers, view>>

\* ON_RESUME: reconnectIfDisconnected of the composed holder, if it has a view;
\* in hidden tabs too, and without a network.
Resume ==
  /\ Event
  /\ resumed' = (active /\ net.ready /\ (conn = "attached" => lost))
  /\ IF view = "held" /\ lost
     THEN /\ conn' = "new" /\ lost' = FALSE
          /\ late' = IF Open THEN late \cup {"this"} ELSE late
          /\ owes' = IF Started THEN owes \cup {"this"} ELSE owes
          /\ tab' = IF seen.tab.rend = NoAddress
                    THEN [tab EXCEPT !.state = "disconnected"] ELSE tab
     ELSE UNCHANGED <<conn, lost, late, owes, tab>>
  /\ UNCHANGED <<world, seen, bumped, timers, view>>
-----------------------------------------------------------------------------
(* Reports of the connection: onConnectionState and onConnectionError. *)

Says(state) ==
  tab' = [tab EXCEPT !.state = state,
                     !.connError = IF state = "disconnected" THEN @ ELSE FALSE]

\* Variant for testing: an error is reported without the end.
FailsOnly == tab' = [tab EXCEPT !.connError = TRUE]

Fails == tab' = [tab EXCEPT !.connError = TRUE, !.state = "disconnected"]

ConnStarts ==
  /\ conn = "new"
  /\ conn' = "connecting" /\ lost' = FALSE
  /\ Says("connecting")
  /\ UNCHANGED <<world, seen, bumped, timers, view, late, owes, resumed, events>>

Reachable == net.ready /\ seen.tab.rend = gen

ConnAttaches ==
  /\ conn = "connecting" /\ Reachable
  /\ conn' = "attached" /\ lost' = FALSE
  /\ Says("attached")
  /\ resumed' = FALSE
  /\ UNCHANGED <<world, seen, bumped, timers, view, late, owes, events>>

\* Connecting failed, or the connection was lost.
ConnFails ==
  /\ Started
  /\ conn' = "gone" /\ lost' = TRUE
  /\ IF seen.tab.rend = NoAddress THEN Says("disconnected") ELSE Fails
  /\ resumed' = FALSE
  /\ UNCHANGED <<world, seen, bumped, timers, view, late, owes, events>>

\* The agent ended it: Ok(None) is no error.
ConnEnds ==
  /\ Event
  /\ Started /\ seen.tab.rend # NoAddress
  /\ conn' = "gone" /\ lost' = TRUE
  /\ Says("disconnected")
  /\ resumed' = FALSE
  /\ UNCHANGED <<world, seen, bumped, timers, view, late, owes>>

\* The timer of twenty seconds reports, and closes what is still connecting.
ConnTimesOut ==
  /\ conn = "connecting" /\ seen.tab.rend # NoAddress
  /\ conn' = "gone" /\ lost' = TRUE
  /\ late' = late \cup {"this"} /\ owes' = owes \cup {"this"}
  /\ Fails
  /\ resumed' = FALSE
  /\ UNCHANGED <<world, seen, bumped, timers, view, events>>

\* The writer task or the heartbeat reports the end; the reader goes on.
ConnErrs ==
  /\ Event
  /\ conn = "attached" /\ ~lost /\ seen.tab.rend # NoAddress
  /\ lost' = TRUE
  /\ Fails
  /\ resumed' = FALSE
  /\ UNCHANGED <<world, seen, bumped, timers, view, conn, late, owes>>

LateSays(g, state) == Says(state) /\ lost' = IF g = "this" THEN state = "disconnected" ELSE lost
LateFails(g) == Fails /\ lost' = (g = "this" \/ lost)

\* A closed connection reports, to the tab and to its holder.
Late(g) ==
  /\ g \in late
  /\ LateSays(g, "connecting") \/ LateSays(g, "attached")
  /\ owes' = owes \cup {g}
  /\ UNCHANGED <<world, seen, bumped, timers, view, conn, late, resumed, events>>

\* Its last report, which only one that was closed before it began need not make.
LateOver(g) ==
  /\ g \in late
  /\ late' = late \ {g} /\ owes' = owes \ {g}
  /\ \/ (LateSays(g, "disconnected") \/ LateFails(g)) /\ resumed' = FALSE
     \/ g \notin owes /\ UNCHANGED <<tab, lost, resumed>>
  /\ UNCHANGED <<world, seen, bumped, timers, view, conn, events>>
-----------------------------------------------------------------------------
Effects == FetchSucceeds \/ FetchFails \/ Reconnect \/ NetworkRetry \/ Refetch

Reports == ConnStarts \/ ConnAttaches \/ ConnFails \/ ConnTimesOut \/ ConnEnds
             \/ ConnErrs \/ \E g \in {"this", "old"} : Late(g) \/ LateOver(g)

Outside == AgentRestarts \/ Publish \/ Select \/ Retry \/ Resume
             \/ \E ready \in BOOLEAN : NetworkChanges(ready)

TabNext == Compose \/ Effects \/ Reports \/ Outside

TabSpec == TabInit /\ [][TabNext]_tabVars

\* Frames are composed and delays end; a request is answered or fails, and not
\* every time it fails; connecting ends within twenty seconds; what was closed
\* falls silent; the agent publishes its address every thirty seconds.
TabFairness ==
  /\ WF_tabVars(Compose)
  /\ WF_tabVars(FetchSucceeds \/ FetchFails) /\ SF_tabVars(FetchSucceeds)
  /\ WF_tabVars(Reconnect) /\ WF_tabVars(NetworkRetry) /\ WF_tabVars(Refetch)
  /\ WF_tabVars(ConnStarts) /\ WF_tabVars(conn = "connecting" /\ (ConnAttaches \/ ConnFails \/ ConnTimesOut))
  /\ \A g \in {"this", "old"} : WF_tabVars(LateOver(g))
  /\ WF_tabVars(Publish)

FairTabSpec == TabSpec /\ TabFairness
-----------------------------------------------------------------------------
(* Properties *)

\* The view, its holder and the holder's connection come and go together.
TabTypeOK ==
  /\ gen \in 1..MaxGen /\ published \in 0..gen
  /\ net \in [ready: BOOLEAN, changed: BOOLEAN] /\ active \in BOOLEAN
  /\ tab \in Tab /\ seen \in [tab: Tab, active: BOOLEAN]
  /\ bumped \subseteq {"retry", "reconnect", "network"} /\ timers \subseteq Timers
  /\ view \in {"none", "held", "empty"}
  /\ (view = "none") = (seen.tab.rend = NoRendezvous)
  /\ conn \in (IF view = "held" THEN {"new", "connecting", "attached", "gone"} ELSE {"none"})
  /\ lost \in BOOLEAN /\ (lost => view = "held")
  /\ late \subseteq {"this", "old"}
  /\ owes \subseteq late
  /\ resumed \in BOOLEAN /\ events \in 0..MaxEvents

\* A tab that is shown as attached has an attached connection, or soon says
\* otherwise: whatever a closed connection still reported, and in whatever order
\* reports, effects, compositions and the user came.
AttachedIsTrue ==
  (tab.state = "attached" /\ conn # "attached")
    ~> (tab.state # "attached" \/ conn = "attached")

\* The dialog of a connecting tab cannot be dismissed.  With a network it does
\* not stay: the tab attaches or offers another try, unless the holder was
\* replaced under its view.
ConnectingEnds ==
  (tab.state = "connecting" /\ active /\ net.ready)
    ~> (tab.state # "connecting" \/ ~active \/ ~net.ready \/ view = "empty")

\* A selected tab without the daemon's address keeps asking until the cloud
\* answers, also after errors, retries, network changes and having been hidden.
FetchRecovers ==
  (~Fetched /\ active /\ net.ready) ~> (Fetched \/ ~active \/ ~net.ready)

\* Handoff, section 16: "App resumed: reconnect and reattach to main".  After a
\* resume with a network the selected tab attaches, or says that it could not.
ResumeReconnects == resumed ~> ~resumed

\* It does, unless a holder without a view has taken the view's place.
ResumeReconnectsHeld == resumed ~> (~resumed \/ view = "empty")
=============================================================================
