--------------------------- MODULE CloudRegistry ---------------------------
(***************************************************************************)
(* The cloud register: the tables of components/cloud, the HTTP handlers   *)
(* that change them, and the SQLite file they are written behind to.       *)
(*                                                                         *)
(* Every mutating handler has the same shape.  It checks and changes the   *)
(* tables under one lock, releases it, takes it again to write the WHOLE   *)
(* current database to disk (a failure is only logged), and replies.       *)
(* Handlers contain no await, so once started only a crash of the process  *)
(* stops one between those steps; but several run at once.  A rejected     *)
(* request changes nothing, so it is no step here.                         *)
(*                                                                         *)
(* The caller chooses the identifiers of what a request makes.  No handler *)
(* looks whether a row has that identifier: it puts its own in its place.  *)
(***************************************************************************)
EXTENDS Naturals

CONSTANTS
  Workers,     \* requests the server can be serving at one time
  Daemons,     \* device ids of Linux agents
  Clients,     \* device ids of Android clients
  PairIds,     \* ids of QR pairing sessions
  Codes,       \* hashes of typed pairing codes
  BindingIds,
  None,        \* an empty row
  MaxTime,     \* bound on the clock
  SaveCanFail  \* whether SQLite may refuse a write

Times == 0..MaxTime
Sessions == PairIds \cup Codes

\* Rows of the tables.  via, a history field, is the session a binding was
\* made from; used is None or the binding that a code was used for (the time,
\* in the code).  Keys, names, certificates and addresses are left out.
PairingSession == [daemon: Daemons, used: BOOLEAN]
CodePairingSession == [client: Clients, expires: Times, used: BindingIds \cup {None}]
Binding == [daemon: Daemons, client: Clients, via: Sessions, revoked: BOOLEAN]

Db == [devices: SUBSET Daemons,
       presence: SUBSET Daemons,
       pairings: [PairIds -> PairingSession \cup {None}],
       codes: [Codes -> CodePairingSession \cup {None}],
       bindings: [BindingIds -> Binding \cup {None}]]

\* What a successful reply tells its caller, and a reader can find in a Db.
\* The second element of a fact is what the fact is about.
Fact == ({"bound"} \X BindingIds \X Sessions)
          \cup ({"revoked"} \X BindingIds)
          \cup ({"used"} \X Codes \X BindingIds)
          \cup ({"started"} \X Sessions)
          \cup ({"registered"} \X Daemons)

About(ids) == {f \in Fact : f[2] \in ids}

ASSUME ConstantsAssumption ==
  /\ None \notin PairingSession \cup CodePairingSession \cup Binding \cup BindingIds
  /\ PairIds \cap Codes = {}
  /\ MaxTime \in Nat
  /\ SaveCanFail \in BOOLEAN

VARIABLES
  db,        \* the tables in memory (AppState.inner)
  disk,      \* what SQLite holds
  work,      \* where each worker is in its handler
  now,       \* Utc::now()
  approved,  \* history: the approvals of codes ("used" facts) that were reported
  durable    \* history: all facts that were reported after a successful save.
             \* Both without what a later request on the same identifier replaced

vars == <<db, disk, work, now, approved, durable>>
-----------------------------------------------------------------------------
EmptyDb == [devices  |-> {},
            presence |-> {},
            pairings |-> [p \in PairIds |-> None],
            codes    |-> [c \in Codes |-> None],
            bindings |-> [b \in BindingIds |-> None]]

Idle == [pc |-> "idle", promise |-> {}, saved |-> FALSE]

Init ==
  /\ db = EmptyDb
  /\ disk = EmptyDb
  /\ work = [w \in Workers |-> Idle]
  /\ now = 0
  /\ approved = {}
  /\ durable = {}

Exists(table, i) == table[i] # None

\* Variant for testing: revoked bindings are not filtered out.
StoredFor(bs, b, d, k) == Exists(bs, b) /\ bs[b].daemon = d /\ bs[b].client = k

ActiveFor(bs, b, d, k) ==
  Exists(bs, b) /\ bs[b].daemon = d /\ bs[b].client = k /\ ~bs[b].revoked

\* Variant for testing: replaced bindings are deleted, not revoked.
DeleteExisting(bs, d, k, replacement) ==
  [b \in BindingIds |-> IF b # replacement /\ ActiveFor(bs, b, d, k) THEN None ELSE bs[b]]

\* revoke_existing_active_bindings: every other active binding of the pair.
RevokeExisting(bs, d, k, replacement) ==
  [b \in BindingIds |-> IF b # replacement /\ ActiveFor(bs, b, d, k)
                        THEN [bs[b] EXCEPT !.revoked = TRUE]
                        ELSE bs[b]]

\* Variants for testing: nothing is replaced; the two device ids are swapped.
BindBeside(bs, b, d, k, via) ==
  [bs EXCEPT ![b] = [daemon |-> d, client |-> k, via |-> via, revoked |-> FALSE]]
BindSwapped(bs, b, d, k, via) ==
  [RevokeExisting(bs, d, k, b) EXCEPT
     ![b] = [daemon |-> k, client |-> d, via |-> via, revoked |-> FALSE]]

\* The bindings after b is inserted as the replacement for its pair.
Bind(bs, b, d, k, via) ==
  [RevokeExisting(bs, d, k, b) EXCEPT
     ![b] = [daemon |-> d, client |-> k, via |-> via, revoked |-> FALSE]]

\* The facts a database holds.
Facts(m) ==
  {<<"bound", b, m.bindings[b].via>> : b \in {x \in BindingIds : Exists(m.bindings, x)}}
    \cup {<<"revoked", b>> :
            b \in {x \in BindingIds : Exists(m.bindings, x) /\ m.bindings[x].revoked}}
    \cup {<<"started", s>> : s \in {p \in PairIds : Exists(m.pairings, p)}
                                     \cup {c \in Codes : Exists(m.codes, c)}}
    \cup {<<"used", c, m.codes[c].used>> :
            c \in {x \in Codes : Exists(m.codes, x) /\ m.codes[x].used # None}}
    \cup {<<"registered", d>> : d \in m.devices}
-----------------------------------------------------------------------------
\* Variant for testing: a handler that forgets to save.
ChangeUnsaved(w, newDb, ids, promise) ==
  /\ work[w].pc = "idle"
  /\ db' = newDb
  /\ work' = [work EXCEPT ![w] = [pc |-> "reply", promise |-> promise, saved |-> FALSE]]
  /\ UNCHANGED <<disk, now, approved, durable>>

\* The locked section of worker w's handler: it installs newDb, with new rows
\* for ids, and will reply that the facts in promise hold.  What was reported,
\* or is about to be, of the rows it replaces was true until now.
Change(w, newDb, ids, promise) ==
  /\ work[w].pc = "idle"
  /\ db' = newDb
  /\ work' = [v \in Workers |->
                IF v = w THEN [pc |-> "persist", promise |-> promise, saved |-> FALSE]
                         ELSE [work[v] EXCEPT !.promise = @ \ About(ids)]]
  /\ approved' = approved \ About(ids)
  /\ durable' = durable \ About(ids)
  /\ UNCHANGED <<disk, now>>

Register(w, d) ==
  Change(w, [db EXCEPT !.devices = @ \cup {d}], {}, {<<"registered", d>>})

UpdatePresence(w, d) ==
  Change(w, [db EXCEPT !.presence = @ \cup {d}], {}, {})

Start(w, p, d) ==
  Change(w,
         [db EXCEPT !.pairings[p] = [daemon |-> d, used |-> FALSE]],
         {p}, {<<"started", p>>})

\* The QR approval looks at nothing it is told: not whether the session
\* exists, expired or was used, nor whether the binding is there and revoked.
Approve(w, p, b, d, k) ==
  Change(w,
         [db EXCEPT !.pairings[p] = IF @ = None THEN None ELSE [@ EXCEPT !.used = TRUE],
                    !.bindings = Bind(@, b, d, k, p)],
         {b}, {<<"bound", b, p>>})

StartCode(w, c, k, expires) ==
  /\ expires > now
  /\ Change(w,
            [db EXCEPT !.codes[c] = [client |-> k, expires |-> expires, used |-> None]],
            {c}, {<<"started", c>>})

\* Variant for testing: a used code can be redeemed again.
Unexpired(c) == Exists(db.codes, c) /\ db.codes[c].expires > now

\* The same three checks are made by resolve_code and by approve_code.
Redeemable(c) ==
  /\ Exists(db.codes, c)
  /\ db.codes[c].used = None
  /\ db.codes[c].expires > now

\* Variant for testing: no device row is made for the daemon.
ApproveCodeOnly(w, c, b, d, k) ==
  /\ Redeemable(c)
  /\ db.codes[c].client = k
  /\ Change(w,
            [db EXCEPT !.codes[c].used = b, !.bindings = Bind(@, b, d, k, c)],
            {b}, {<<"bound", b, c>>, <<"used", c, b>>})

\* The certificate names the client the agent was given when it resolved the
\* code; it has to be the client of the session as it is now.
ApproveCode(w, c, b, d, k) ==
  /\ Redeemable(c)
  /\ db.codes[c].client = k
  /\ Change(w,
            [db EXCEPT !.codes[c].used = b,
                       !.devices = @ \cup {d},
                       !.bindings = Bind(@, b, d, k, c)],
            {b}, {<<"bound", b, c>>, <<"used", c, b>>})

Revoke(w, b) ==
  /\ Exists(db.bindings, b)
  /\ Change(w, [db EXCEPT !.bindings[b].revoked = TRUE], {}, {<<"revoked", b>>})

\* persist_or_log: the lock is taken again, so what is saved is the database
\* as it is now, with the changes other handlers made in between.
Save(w) ==
  /\ work[w].pc = "persist"
  /\ disk' = db
  /\ work' = [work EXCEPT ![w].pc = "reply", ![w].saved = TRUE]
  /\ UNCHANGED <<db, now, approved, durable>>

SaveFails(w) ==
  /\ SaveCanFail
  /\ work[w].pc = "persist"
  /\ work' = [work EXCEPT ![w].pc = "reply"]
  /\ UNCHANGED <<db, disk, now, approved, durable>>

Reply(w) ==
  /\ work[w].pc = "reply"
  /\ approved' = approved \cup {f \in work[w].promise : f[1] = "used"}
  /\ durable' = IF work[w].saved THEN durable \cup work[w].promise ELSE durable
  /\ work' = [work EXCEPT ![w] = Idle]
  /\ UNCHANGED <<db, disk, now>>

\* Variant for testing: the codes are saved, but not loaded.
CrashLosesCodes ==
  /\ db' = [disk EXCEPT !.codes = EmptyDb.codes]
  /\ work' = [w \in Workers |-> Idle]
  /\ UNCHANGED <<disk, now, approved, durable>>

\* The process dies and starts again: the tables are loaded from disk.
Crash ==
  /\ db' = disk
  /\ work' = [w \in Workers |-> Idle]
  /\ UNCHANGED <<disk, now, approved, durable>>

Tick ==
  /\ now < MaxTime
  /\ now' = now + 1
  /\ UNCHANGED <<db, disk, work, approved, durable>>

Handle(w) ==
  \/ \E d \in Daemons : Register(w, d)
  \/ \E d \in Daemons : UpdatePresence(w, d)
  \/ \E p \in PairIds, d \in Daemons : Start(w, p, d)
  \/ \E p \in PairIds, b \in BindingIds, d \in Daemons, k \in Clients :
       Approve(w, p, b, d, k)
  \/ \E c \in Codes, k \in Clients, e \in Times : StartCode(w, c, k, e)
  \/ \E c \in Codes, b \in BindingIds, d \in Daemons, k \in Clients :
       ApproveCode(w, c, b, d, k)
  \/ \E b \in BindingIds : Revoke(w, b)

Next ==
  \/ \E w \in Workers : Handle(w) \/ Save(w) \/ SaveFails(w) \/ Reply(w)
  \/ Crash
  \/ Tick

Spec == Init /\ [][Next]_vars

\* A handler that was started is run to its end by the runtime.
FairSpec == Spec /\ \A w \in Workers : WF_vars(Save(w)) /\ WF_vars(Reply(w))
-----------------------------------------------------------------------------
(* The read-only handlers, as predicates on the tables. *)

\* rendezvous::get answers 200 for this request.
RendezvousOk(d, k, b) ==
  /\ d \in db.devices
  /\ ActiveFor(db.bindings, b, d, k)

\* bindings_for_client: the rows the Android device list is built from.
BindingsForClient(k) == {b \in BindingIds : \E d \in Daemons : ActiveFor(db.bindings, b, d, k)}
-----------------------------------------------------------------------------
(* Properties *)

TypeOK ==
  /\ db \in Db
  /\ disk \in Db
  /\ work \in [Workers -> [pc: {"idle", "persist", "reply"},
                           promise: SUBSET Fact,
                           saved: BOOLEAN]]
  /\ now \in Times
  /\ approved \subseteq Fact
  /\ durable \subseteq Fact

OneActive(m) ==
  \A b1, b2 \in BindingIds, d \in Daemons, k \in Clients :
    ActiveFor(m.bindings, b1, d, k) /\ ActiveFor(m.bindings, b2, d, k) => b1 = b2

\* A daemon and a client share at most one active binding, however approvals,
\* revocations, saves and crashes interleave: in memory and on disk, so also
\* right after a restart (revoke_existing_active_bindings).
AtMostOneActive == OneActive(db) /\ OneActive(disk)

\* A reply sent after a successful save is not taken back: whatever it
\* reported (a binding made, a code used, a binding revoked) stays true in
\* memory and on disk through later requests, other workers' saves and crashes,
\* until a request makes a new row with the identifier it is about.
DurableKept == durable \subseteq Facts(db) /\ durable \subseteq Facts(disk)

\* A binding whose revocation was reported and saved is not listed to its client
\* or accepted by rendezvous again, unless an approval with its id comes later:
\* that is the only request which puts it back, and no crash or save does.
RevokedNotServed ==
  \A b \in BindingIds, d \in Daemons, k \in Clients :
    <<"revoked", b>> \in durable =>
      b \notin BindingsForClient(k) /\ ~RendezvousOk(d, k, b)

\* A binding made from a typed code, reported and saved, is served by
\* rendezvous until it is revoked or replaced: the daemon's device row that
\* rendezvous wants is there even if the agent never registered.
BoundIsServed ==
  \A b \in BindingIds, c \in Codes :
    <<"bound", b, c>> \in durable =>
      LET row == db.bindings[b]
      IN  row.revoked \/ RendezvousOk(row.daemon, row.client, b)

\* TASK.md: single-use approval.  Unless a typed code is started again, no two
\* approvals of it are ever reported as successful.
CodeSingleUse ==
  \A c \in Codes, b1, b2 \in BindingIds :
    <<"used", c, b1>> \in approved /\ <<"used", c, b2>> \in approved => b1 = b2

\* The same, of the approvals that were reported after a successful save:
\* this holds whatever saves fail and whenever the server restarts.
SavedCodeSingleUse ==
  \A c \in Codes, b1, b2 \in BindingIds :
    <<"used", c, b1>> \in durable /\ <<"used", c, b2>> \in durable => b1 = b2

\* While SQLite accepts writes, a change in memory does not stay unsaved for
\* ever: at some point the file holds everything the readers see.
EventuallySaved == (disk # db) ~> (disk = db)

\* The register is a write-behind store: its readers see the tables, a crash
\* takes them back to the file, and promises are kept in both.
Store == INSTANCE DurableFacts
           WITH visible <- Facts(db), stored <- Facts(disk), promised <- durable,
                Ids <- Sessions \cup BindingIds
StoreSpec == Store!Spec
=============================================================================
