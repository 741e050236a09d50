----------------------------- MODULE TrustStore -----------------------------
(***************************************************************************)
(* agent-state.json, the daemon's identity and trusted clients, as the     *)
(* processes that share it see it: the running daemon and the wispshelld   *)
(* commands a user types next to it (state.rs, pairing.rs, main.rs and the *)
(* trust check of transport_iroh.rs).                                      *)
(*                                                                         *)
(* There is no lock.  A command reads the whole file, computes (pair asks  *)
(* the cloud twice on the way), and writes the whole file back with        *)
(* std::fs::write, which truncates the file before it writes.              *)
(***************************************************************************)
EXTENDS Naturals, FiniteSets

CONSTANTS
  Cmds,      \* command invocations: each runs once
  Daemon,    \* the process of `wispshelld run`
  Clients,
  Ids,       \* identities that can be generated
  None, Torn

Procs == Cmds \cup {Daemon}
State == [id: Ids, trusted: SUBSET Clients]

ASSUME TrustAssumption ==
  /\ Daemon \notin Cmds
  /\ None \notin State /\ Torn \notin State /\ None # Torn
  /\ IsFiniteSet(Clients)

VARIABLES
  file,      \* [text, len]; text is None (absent), Torn (not JSON) or a State
  proc,      \* the processes
  newIds,    \* identities not generated yet
  bound,     \* cloud: the (daemon id, client) pairs ever approved
  claim,     \* history: what the last command about a client reported
  conn,      \* how far a client's connection is (see ConnState)
  orderly    \* history: every command began after the one before had ended,
             \* and none was killed

vars == <<file, proc, newIds, bound, claim, conn, orderly>>

Proc == [pc: {"idle", "start", "loaded", "create", "creating", "save", "saving",
              "up", "ended", "failed"},
         op: {"pair", "revoke", "list", "run"},
         client: Clients,
         st: State \cup {None}]

\* "reread" and "fallback": the daemon trusts the client by the file, or by what
\* it read at startup, and waits for its ClientAuth.  "overtaken" is history: it
\* waits after "reread", and a revocation of the client was reported since.
ConnState == {"none", "reread", "fallback", "overtaken", "in"}

\* An entry of the file is about as long as another; the rest has one length.
Length(st) == Cardinality(st.trusted) + 1

Init ==
  /\ newIds = Ids
  /\ file = [text |-> None, len |-> 0]
  /\ proc \in [Procs -> {q \in Proc : q.pc = "idle" /\ q.st = None}]
  /\ proc[Daemon].op = "run" /\ \A c \in Cmds : proc[c].op # "run"
  /\ bound = {}
  /\ claim = [k \in Clients |-> "none"]
  /\ conn = [k \in Clients |-> "none"]
  /\ orderly = TRUE

Pc(p, pc) == proc[p].pc = pc
Step(p, pc) == [proc EXCEPT ![p].pc = pc]
Busy(p) == proc[p].pc \notin {"idle", "up", "ended", "failed"}
-----------------------------------------------------------------------------
\* A command is typed, or systemd (re)starts the daemon: nobody waits for the
\* others to end.
Begin(p) ==
  /\ Pc(p, "idle") \/ (p = Daemon /\ proc[p].pc \in {"up", "failed"})
  /\ orderly' = (orderly /\ \A q \in Procs : ~Busy(q))
  /\ proc' = [proc EXCEPT ![p].pc = "start", ![p].st = None]
  /\ conn' = IF p = Daemon THEN [k \in Clients |-> "none"] ELSE conn
  /\ UNCHANGED <<file, newIds, bound, claim>>

\* load_or_create: the file is there and parses ...
Load(p) ==
  /\ Pc(p, "start")
  /\ file.text \in State
  /\ proc' = [proc EXCEPT ![p].pc = "loaded", ![p].st = file.text]
  /\ UNCHANGED <<file, newIds, bound, claim, conn, orderly>>

\* ... or it does not parse, and the process gives up ...
LoadFails(p) ==
  /\ Pc(p, "start")
  /\ file.text = Torn
  /\ proc' = Step(p, "failed")
  /\ UNCHANGED <<file, newIds, bound, claim, conn, orderly>>

\* Variant for testing: the new identity is not saved.
GenerateUnsaved(p, i) ==
  /\ Pc(p, "start")
  /\ file.text = None
  /\ i \in newIds
  /\ newIds' = newIds \ {i}
  /\ proc' = [proc EXCEPT ![p].pc = "loaded", ![p].st = [id |-> i, trusted |-> {}]]
  /\ UNCHANGED <<file, bound, claim, conn, orderly>>

\* ... or it is not there: a new identity is generated and saved.
Generate(p, i) ==
  /\ Pc(p, "start")
  /\ file.text = None
  /\ i \in newIds
  /\ newIds' = newIds \ {i}
  /\ proc' = [proc EXCEPT ![p].pc = "create", ![p].st = [id |-> i, trusted |-> {}]]
  /\ UNCHANGED <<file, bound, claim, conn, orderly>>

\* Variant for testing: the file is opened without truncating it.
Open(p) ==
  /\ proc[p].pc \in {"create", "save"}
  /\ proc' = Step(p, IF Pc(p, "create") THEN "creating" ELSE "saving")
  /\ UNCHANGED <<file, newIds, bound, claim, conn, orderly>>

\* save, first half of std::fs::write: open and truncate.
Truncate(p) ==
  /\ proc[p].pc \in {"create", "save"}
  /\ file' = [text |-> Torn, len |-> 0]
  /\ proc' = Step(p, IF Pc(p, "create") THEN "creating" ELSE "saving")
  /\ UNCHANGED <<newIds, bound, claim, conn, orderly>>

\* Variant for testing: the text is appended to what is there.
AppendText(p) ==
  /\ proc[p].pc \in {"creating", "saving"}
  /\ file' = [text |-> proc[p].st, len |-> file.len + Length(proc[p].st)]
  /\ proc' = Step(p, IF Pc(p, "creating") THEN "loaded" ELSE "ended")
  /\ UNCHANGED <<newIds, bound, claim, conn, orderly>>

\* save, second half: the text goes over whatever is there by now.  If that
\* is longer, its tail stays and the file is not JSON.
Write(p) ==
  LET st == proc[p].st
      k == proc[p].client
  IN
  /\ proc[p].pc \in {"creating", "saving"}
  /\ file' = IF file.len <= Length(st) THEN [text |-> st, len |-> Length(st)]
                                       ELSE [file EXCEPT !.text = Torn]
  /\ proc' = Step(p, IF Pc(p, "creating") THEN "loaded" ELSE "ended")
  /\ claim' = IF Pc(p, "saving") THEN [claim EXCEPT ![k] = proc[p].op] ELSE claim
  /\ conn' = IF Pc(p, "saving") /\ proc[p].op = "revoke" /\ conn[k] = "reread"
             THEN [conn EXCEPT ![k] = "overtaken"] ELSE conn
  /\ UNCHANGED <<newIds, bound, orderly>>

\* Variant for testing: the client replaces those trusted before.
ApproveInstead(p) ==
  /\ Pc(p, "loaded") /\ proc[p].op = "pair"
  /\ bound' = bound \cup {<<proc[p].st.id, proc[p].client>>}
  /\ proc' = [proc EXCEPT ![p].pc = "save", ![p].st.trusted = {proc[p].client}]
  /\ UNCHANGED <<file, newIds, claim, conn, orderly>>

\* approve_pairing_code: the cloud approves, and the client is added to the
\* state that was read at the start.  The answer may be lost.
Approve(p) ==
  LET st == proc[p].st
      k == proc[p].client
  IN
  /\ Pc(p, "loaded") /\ proc[p].op = "pair"
  /\ bound' = bound \cup {<<st.id, k>>}
  /\ \/ proc' = [proc EXCEPT ![p].pc = "save", ![p].st.trusted = @ \cup {k}]
     \/ proc' = Step(p, "failed")
  /\ UNCHANGED <<file, newIds, claim, conn, orderly>>

\* Variant for testing: the client is trusted before the cloud has agreed.
TrustFirst(p) ==
  /\ Pc(p, "loaded") /\ proc[p].op = "pair"
  /\ proc' = [proc EXCEPT ![p].pc = "save", ![p].st.trusted = @ \cup {proc[p].client}]
  /\ UNCHANGED <<file, newIds, bound, claim, conn, orderly>>

\* The cloud refuses the code, or cannot be reached.
ApproveRefused(p) ==
  /\ Pc(p, "loaded") /\ proc[p].op = "pair"
  /\ proc' = Step(p, "failed")
  /\ UNCHANGED <<file, newIds, bound, claim, conn, orderly>>

\* devices revoke: only this file; the cloud keeps its binding.
RevokeClient(p) ==
  /\ Pc(p, "loaded") /\ proc[p].op = "revoke"
  /\ proc' = [proc EXCEPT ![p].pc = "save", ![p].st.trusted = @ \ {proc[p].client}]
  /\ UNCHANGED <<file, newIds, bound, claim, conn, orderly>>

\* status and devices list only load; the daemon goes on to serve.
Serve(p) ==
  /\ Pc(p, "loaded") /\ proc[p].op \in {"list", "run"}
  /\ proc' = Step(p, IF p = Daemon THEN "up" ELSE "ended")
  /\ UNCHANGED <<file, newIds, bound, claim, conn, orderly>>

\* A process is killed, or refused its write.
Die(p) ==
  /\ Busy(p)
  /\ proc' = Step(p, "failed")
  /\ orderly' = FALSE
  /\ UNCHANGED <<file, newIds, bound, claim, conn>>

\* The state the daemon's handshake judges a client by: the file, read again,
\* unless that fails or is another identity's: then the one read at startup.
Rereads ==
  /\ file.text \in State
  /\ file.text.id = proc[Daemon].st.id

\* Variant for testing: the file is never read again.
JudgeAtStartup == proc[Daemon].st

Judge == IF Rereads THEN file.text ELSE proc[Daemon].st

\* A bound client connects and is found trusted: the daemon sends its challenge
\* and waits, as long as it takes, for the client's answer ...
JudgeClient(k) ==
  /\ Pc(Daemon, "up")
  /\ conn[k] = "none"
  /\ <<proc[Daemon].st.id, k>> \in bound
  /\ k \in Judge.trusted
  /\ conn' = [conn EXCEPT ![k] = IF Rereads THEN "reread" ELSE "fallback"]
  /\ UNCHANGED <<file, proc, newIds, bound, claim, orderly>>

\* ... which it checks against the nonces, and lets the client in.  It looks at
\* the file no more, neither now nor while the connection lives.
EnterSession(k) ==
  /\ conn[k] \in {"reread", "fallback", "overtaken"}
  /\ conn' = [conn EXCEPT ![k] = "in"]
  /\ UNCHANGED <<file, proc, newIds, bound, claim, orderly>>

Disconnect(k) ==
  /\ conn[k] # "none"
  /\ conn' = [conn EXCEPT ![k] = "none"]
  /\ UNCHANGED <<file, proc, newIds, bound, claim, orderly>>

Next ==
  \/ \E p \in Procs :
       \/ Begin(p) \/ Load(p) \/ LoadFails(p) \/ (\E i \in Ids : Generate(p, i))
       \/ Truncate(p) \/ Write(p)
       \/ Approve(p) \/ ApproveRefused(p) \/ RevokeClient(p) \/ Serve(p) \/ Die(p)
  \/ \E k \in Clients : JudgeClient(k) \/ EnterSession(k) \/ Disconnect(k)

Spec == Init /\ [][Next]_vars
-----------------------------------------------------------------------------
(* Properties *)

TypeOK ==
  /\ file \in [text: State \cup {None, Torn}, len: 0..(Cardinality(Clients) + 1)]
  /\ proc \in [Procs -> Proc]
  /\ newIds \subseteq Ids
  /\ bound \subseteq Ids \X Clients
  /\ claim \in [Clients -> {"none", "pair", "revoke"}]
  /\ conn \in [Clients -> ConnState]
  /\ orderly \in BOOLEAN

InHand(p) == Busy(p) /\ proc[p].op \in {"pair", "revoke"}

\* Whatever commands overlap and whichever of them die, the file, the daemon
\* and every command in flight trust only clients the cloud approved for the
\* very identity they trust them under.
TrustsOnlyBound ==
  \A st \in {file.text} \cup {proc[p].st : p \in Procs} :
    st \in State =>
      \A k \in st.trusted : <<st.id, k>> \in bound

\* While commands run one at a time: once a daemon is up, a file that parses
\* has the daemon's identity, so what a pair command signs and registers is
\* what the daemon will answer for.
DaemonOwnsFile ==
  orderly /\ Pc(Daemon, "up") /\ file.text \in State => file.text.id = proc[Daemon].st.id

\* While commands run one at a time, the file parses between them: the next
\* command and the next restart of the daemon can read it.
ParsesAtRest ==
  orderly /\ (\A p \in Procs : ~Busy(p)) => file.text # Torn

\* The last command about k has ended, and it reported this.
Reported(k, op) ==
  claim[k] = op /\ ~\E p \in Procs : InHand(p) /\ proc[p].client = k

\* A client that was reported as paired is trusted by a file that parses
\* (pairing.rs: "Approved and stored trusted Android client.").
PairedIsStored ==
  \A k \in Clients :
    Reported(k, "pair") /\ file.text \in State => k \in file.text.trusted

\* That holds while commands run one at a time.
PairedIsStoredInTurn == orderly => PairedIsStored

LetsIn(k) == conn[k] # "in" /\ conn'[k] = "in"

\* While commands run one at a time, a client that was revoked, and is not
\* being paired again, gets in only in two ways: its handshake was judged before
\* the revocation was reported and ends after it, or it was judged while the file
\* could not be read, by what the daemon read at startup.
RevokedGetsInOnlyLate ==
  [][\A k \in Clients :
       orderly /\ Reported(k, "revoke") /\ LetsIn(k) => conn[k] \in {"overtaken", "fallback"}]_vars
=============================================================================
