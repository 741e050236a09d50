------------------------- MODULE CloudRegistryProofs -------------------------
(***************************************************************************)
(* Proofs about CloudRegistry, for any number of workers, devices,         *)
(* sessions and bindings, and any length of the clock.                     *)
(*                                                                         *)
(* One argument carries all of them.  Between two requests that name the   *)
(* same identifier the rows about it only GROW: they stay, and so do their *)
(* "used" and "revoked".  A request withdraws what was promised about the  *)
(* identifiers it names, and keeps every other fact.  So a fact that is in *)
(* memory and on disk when it is promised stays in both, whatever is saved *)
(* or lost in a crash.                                                     *)
(*                                                                         *)
(* That rendezvous serves a saved approval does not follow from this.  The *)
(* argument there is that, in memory as on disk, a binding made from a     *)
(* code stands next to the daemon's device row: both are written under one *)
(* lock and saved in one transaction.                                      *)
(***************************************************************************)
EXTENDS CloudRegistry, TLAPS

\* m may turn into n by a request that names the identifiers ids: nothing
\* recorded in m of another identifier is missing or undone in n.
Grows(m, n, ids) ==
  /\ m.devices \subseteq n.devices
  /\ \A p \in PairIds \ ids : Exists(m.pairings, p) => Exists(n.pairings, p)
  /\ \A c \in Codes \ ids : Exists(m.codes, c) =>
       /\ Exists(n.codes, c)
       /\ m.codes[c].used # None => n.codes[c].used = m.codes[c].used
  /\ \A b \in BindingIds \ ids : Exists(m.bindings, b) =>
       /\ Exists(n.bindings, b)
       /\ n.bindings[b].via = m.bindings[b].via
       /\ m.bindings[b].revoked => n.bindings[b].revoked

\* The inductive invariant.
IInv ==
  /\ TypeOK
  /\ AtMostOneActive
  /\ durable \subseteq Facts(db)
  /\ durable \subseteq Facts(disk)
  /\ \A w \in Workers : work[w].promise \subseteq Facts(db)
  /\ \A w \in Workers : work[w].saved => work[w].promise \subseteq Facts(disk)

\* What the locked section of each handler has to establish.
GoodChange(newDb, ids, promise) ==
  /\ newDb \in Db
  /\ OneActive(newDb)
  /\ Grows(db, newDb, ids)
  /\ promise \subseteq Fact
  /\ promise \subseteq Facts(newDb)

\* What a locked section then does, seen from outside.
Learns(ids) ==
  /\ IInv'
  /\ Facts(db) \ About(ids) \subseteq Facts(db')
  /\ durable' = durable \ About(ids)
-----------------------------------------------------------------------------
\* An empty row is not a row.
LEMMA NoneIsNoRow ==
  /\ \A r \in PairingSession : r # None
  /\ \A r \in CodePairingSession : r # None
  /\ \A r \in Binding : r # None
BY ConstantsAssumption DEF ConstantsAssumption

\* Facts of a well-typed database are facts.
LEMMA FactsTyped ==
  ASSUME NEW m \in Db
  PROVE  Facts(m) \subseteq Fact
<1> SUFFICES ASSUME NEW f \in Facts(m)
             PROVE  f \in Fact
  OBVIOUS
<1>1. ASSUME NEW b \in BindingIds, Exists(m.bindings, b)
      PROVE  <<"bound", b, m.bindings[b].via>> \in Fact /\ <<"revoked", b>> \in Fact
  BY <1>1 DEF Db, Exists, Binding, Fact
<1>2. ASSUME NEW c \in Codes, Exists(m.codes, c), m.codes[c].used # None
      PROVE  <<"used", c, m.codes[c].used>> \in Fact
  BY <1>2 DEF Db, Exists, CodePairingSession, Fact
<1>3. /\ \A s \in PairIds \cup Codes : <<"started", s>> \in Fact
      /\ \A d \in m.devices : <<"registered", d>> \in Fact
  BY DEF Db, Fact, Sessions
<1> QED BY <1>1, <1>2, <1>3 DEF Facts

\* A database that grows keeps every fact it held of other identifiers.
LEMMA GrowsKeepsFacts ==
  ASSUME NEW m \in Db, NEW n, NEW ids, Grows(m, n, ids)
  PROVE  Facts(m) \ About(ids) \subseteq Facts(n)
<1> SUFFICES ASSUME NEW f \in Facts(m), f \notin About(ids)
             PROVE  f \in Facts(n)
  OBVIOUS
<1>1. f[2] \notin ids
  BY FactsTyped DEF About
<1> QED BY <1>1 DEF Grows, Facts

\* Rows that exist have their type.
LEMMA RowType ==
  ASSUME NEW m \in Db
  PROVE  /\ \A p \in PairIds : Exists(m.pairings, p) => m.pairings[p] \in PairingSession
         /\ \A c \in Codes : Exists(m.codes, c) => m.codes[c] \in CodePairingSession
         /\ \A b \in BindingIds : Exists(m.bindings, b) => m.bindings[b] \in Binding
BY DEF Db, Exists

\* Inserting binding b as a replacement revokes the pair's other
\* active bindings, keeps the other rows, and leaves b the only active one.
LEMMA BindReplaces ==
  ASSUME NEW bs \in [BindingIds -> Binding \cup {None}],
         NEW b \in BindingIds, NEW d \in Daemons, NEW k \in Clients,
         NEW via \in Sessions,
         \A b1, b2 \in BindingIds, e \in Daemons, j \in Clients :
           ActiveFor(bs, b1, e, j) /\ ActiveFor(bs, b2, e, j) => b1 = b2
  PROVE  LET new == Bind(bs, b, d, k, via)
         IN  /\ new \in [BindingIds -> Binding \cup {None}]
             /\ \A b1, b2 \in BindingIds, e \in Daemons, j \in Clients :
                  ActiveFor(new, b1, e, j) /\ ActiveFor(new, b2, e, j) => b1 = b2
             /\ Exists(new, b) /\ new[b].via = via
             /\ \A x \in BindingIds \ {b} :
                  /\ Exists(new, x) <=> Exists(bs, x)
                  /\ Exists(bs, x) => /\ new[x].via = bs[x].via
                                      /\ bs[x].revoked => new[x].revoked
<1> DEFINE row == [daemon |-> d, client |-> k, via |-> via, revoked |-> FALSE]
           new == Bind(bs, b, d, k, via)
<1>0. row \in Binding /\ row # None
  <2>1. row \in Binding
    BY DEF Binding
  <2> QED BY <2>1, NoneIsNoRow
<1>1. /\ new[b] = row
      /\ \A x \in BindingIds \ {b} :
           new[x] = IF ActiveFor(bs, x, d, k)
                    THEN [bs[x] EXCEPT !.revoked = TRUE]
                    ELSE bs[x]
  BY DEF Bind, RevokeExisting
<1>2. \A x \in BindingIds \ {b} : ActiveFor(bs, x, d, k) =>
        /\ new[x] \in Binding
        /\ new[x] # None
        /\ new[x].via = bs[x].via
        /\ new[x].revoked
  <2> SUFFICES ASSUME NEW x \in BindingIds \ {b}, ActiveFor(bs, x, d, k)
               PROVE  /\ new[x] \in Binding
                      /\ new[x].via = bs[x].via
                      /\ new[x].revoked
    BY NoneIsNoRow
  <2>1. bs[x] \in Binding
    BY DEF ActiveFor, Exists
  <2>2. new[x] = [bs[x] EXCEPT !.revoked = TRUE]
    BY <1>1
  <2> HIDE DEF new
  <2> QED BY <2>1, <2>2 DEF Binding
<1>3. new \in [BindingIds -> Binding \cup {None}]
  <2>1. DOMAIN new = BindingIds /\ new = [x \in BindingIds |-> new[x]]
    BY DEF Bind, RevokeExisting
  <2>2. \A x \in BindingIds : new[x] \in Binding \cup {None}
    BY <1>0, <1>1, <1>2
  <2> HIDE DEF new
  <2> QED BY <2>1, <2>2
<1> HIDE DEF new
<1>4. \A x \in BindingIds \ {b} :
        /\ Exists(new, x) <=> Exists(bs, x)
        /\ Exists(bs, x) => /\ new[x].via = bs[x].via
                            /\ bs[x].revoked => new[x].revoked
  BY <1>1, <1>2 DEF Exists, ActiveFor
<1>5. \A x \in BindingIds \ {b}, e \in Daemons, j \in Clients :
        ActiveFor(new, x, e, j) => ActiveFor(bs, x, e, j) /\ ~(e = d /\ j = k)
  BY <1>1, <1>2 DEF ActiveFor, Exists
<1>6. \A e \in Daemons, j \in Clients : ActiveFor(new, b, e, j) => e = d /\ j = k
  BY <1>1 DEF ActiveFor
<1>7. \A b1, b2 \in BindingIds, e \in Daemons, j \in Clients :
        ActiveFor(new, b1, e, j) /\ ActiveFor(new, b2, e, j) => b1 = b2
  BY <1>5, <1>6
<1> QED BY <1>0, <1>1, <1>3, <1>4, <1>7 DEF Exists, new
-----------------------------------------------------------------------------
\* A good change under the lock preserves the invariant: disk stands still, and
\* the tables grow but for what is withdrawn.
LEMMA ChangeStep ==
  ASSUME IInv, NEW w \in Workers, NEW newDb, NEW ids, NEW promise,
         Change(w, newDb, ids, promise), GoodChange(newDb, ids, promise)
  PROVE  Learns(ids)
<1>1. Facts(db) \ About(ids) \subseteq Facts(db')
  BY GrowsKeepsFacts DEF IInv, TypeOK, GoodChange, Change
<1>2. \A v \in Workers \ {w} :
        /\ work'[v].promise = work[v].promise \ About(ids)
        /\ work'[v].saved = work[v].saved
  BY DEF IInv, TypeOK, Change
<1>3. work'[w].promise = promise /\ ~work'[w].saved
  BY DEF Change
<1>4. TypeOK'
  BY DEF IInv, TypeOK, Change, GoodChange
<1>5. AtMostOneActive'
  BY DEF IInv, AtMostOneActive, OneActive, ActiveFor, Exists, Change, GoodChange
<1>6. Facts(disk)' = Facts(disk) /\ durable' = durable \ About(ids)
  BY DEF Change
<1>7. \A v \in Workers : /\ work'[v].promise \subseteq Facts(db')
                         /\ work'[v].saved => work'[v].promise \subseteq Facts(disk')
  <2>1. promise \subseteq Facts(db')
    BY DEF Change, GoodChange
  <2>2. Facts(disk') = Facts(disk)
    BY <1>6
  <2> QED BY <1>1, <1>2, <1>3, <2>1, <2>2 DEF IInv
<1> QED BY <1>1, <1>4, <1>5, <1>6, <1>7 DEF IInv, Learns

LEMMA InitIInv == Init => IInv
<1> SUFFICES ASSUME Init PROVE IInv
  OBVIOUS
<1>1. EmptyDb \in Db
  BY DEF EmptyDb, Db
<1>2. TypeOK
  BY <1>1, ConstantsAssumption DEF Init, TypeOK, Idle, Times
<1>3. AtMostOneActive
  BY DEF Init, AtMostOneActive, OneActive, ActiveFor, Exists, EmptyDb
<1> QED BY <1>2, <1>3 DEF Init, IInv, Idle
-----------------------------------------------------------------------------
(* Each handler's locked section is a good change. *)

LEMMA RegisterGood ==
  ASSUME IInv, NEW w \in Workers, NEW d \in Daemons, Register(w, d)
  PROVE  Learns({})
<1> DEFINE new == [db EXCEPT !.devices = @ \cup {d}]
<1>1. new \in Db
  BY DEF IInv, TypeOK, Db
<1>2. /\ new.pairings = db.pairings /\ new.codes = db.codes
      /\ new.bindings = db.bindings /\ new.devices = db.devices \cup {d}
  BY DEF IInv, TypeOK, Db
<1>3. <<"registered", d>> \in Fact \cap Facts(new)
  BY <1>2 DEF Fact, Facts
<1>4. GoodChange(new, {}, {<<"registered", d>>})
  <2> HIDE DEF new
  <2> QED BY <1>1, <1>2, <1>3
          DEF GoodChange, Grows, IInv, AtMostOneActive, OneActive
<1> QED BY <1>4, ChangeStep DEF Register

LEMMA UpdatePresenceGood ==
  ASSUME IInv, NEW w \in Workers, NEW d \in Daemons, UpdatePresence(w, d)
  PROVE  Learns({})
<1> DEFINE new == [db EXCEPT !.presence = @ \cup {d}]
<1>1. new \in Db
  BY DEF IInv, TypeOK, Db
<1>2. /\ new.pairings = db.pairings /\ new.codes = db.codes
      /\ new.bindings = db.bindings /\ new.devices = db.devices
  BY DEF IInv, TypeOK, Db
<1>3. GoodChange(new, {}, {})
  <2> HIDE DEF new
  <2> QED BY <1>1, <1>2 DEF GoodChange, Grows, IInv, AtMostOneActive, OneActive
<1> QED BY <1>3, ChangeStep DEF UpdatePresence

LEMMA StartGood ==
  ASSUME IInv, NEW w \in Workers, NEW p \in PairIds, NEW d \in Daemons, Start(w, p, d)
  PROVE  Learns({p})
<1> DEFINE new == [db EXCEPT !.pairings[p] = [daemon |-> d, used |-> FALSE]]
<1>1. new \in Db
  BY DEF IInv, TypeOK, Db, PairingSession
<1>2. /\ new.codes = db.codes /\ new.bindings = db.bindings /\ new.devices = db.devices
      /\ new.pairings[p] \in PairingSession
      /\ \A q \in PairIds \ {p} : new.pairings[q] = db.pairings[q]
  BY DEF IInv, TypeOK, Db, PairingSession
<1>3. Exists(new.pairings, p)
  BY <1>2, NoneIsNoRow DEF Exists
<1>4. <<"started", p>> \in Fact \cap Facts(new)
  BY <1>3 DEF Fact, Facts, Sessions
<1>5. GoodChange(new, {p}, {<<"started", p>>})
  <2> HIDE DEF new
  <2> QED BY <1>1, <1>2, <1>3, <1>4
          DEF GoodChange, Grows, Exists, IInv, AtMostOneActive, OneActive
<1> QED BY <1>5, ChangeStep DEF Start

LEMMA StartCodeGood ==
  ASSUME IInv, NEW w \in Workers, NEW c \in Codes, NEW k \in Clients, NEW e \in Times,
         StartCode(w, c, k, e)
  PROVE  Learns({c})
<1> DEFINE new == [db EXCEPT !.codes[c] = [client |-> k, expires |-> e, used |-> None]]
<1>1. new \in Db
  BY DEF IInv, TypeOK, Db, CodePairingSession
<1>2. /\ new.pairings = db.pairings /\ new.bindings = db.bindings /\ new.devices = db.devices
      /\ new.codes[c] \in CodePairingSession
      /\ \A x \in Codes \ {c} : new.codes[x] = db.codes[x]
  BY DEF IInv, TypeOK, Db, CodePairingSession
<1>3. Exists(new.codes, c)
  BY <1>2, NoneIsNoRow DEF Exists
<1>4. <<"started", c>> \in Fact \cap Facts(new)
  BY <1>3 DEF Fact, Facts, Sessions
<1>5. GoodChange(new, {c}, {<<"started", c>>})
  <2> HIDE DEF new
  <2> QED BY <1>1, <1>2, <1>3, <1>4
          DEF GoodChange, Grows, Exists, IInv, AtMostOneActive, OneActive
<1> QED BY <1>5, ChangeStep DEF StartCode

LEMMA RevokeGood ==
  ASSUME IInv, NEW w \in Workers, NEW b \in BindingIds, Revoke(w, b)
  PROVE  Learns({})
<1> DEFINE new == [db EXCEPT !.bindings[b].revoked = TRUE]
<1>0. Exists(db.bindings, b) /\ db.bindings[b] \in Binding
  BY RowType DEF Revoke, IInv, TypeOK
<1>1. /\ new.pairings = db.pairings /\ new.codes = db.codes /\ new.devices = db.devices
      /\ new.bindings = [db.bindings EXCEPT ![b] = [@ EXCEPT !.revoked = TRUE]]
      /\ new.presence = db.presence
  BY DEF IInv, TypeOK, Db
<1>2. /\ new.bindings[b] \in Binding
      /\ new.bindings[b].revoked
      /\ new.bindings[b].via = db.bindings[b].via
      /\ \A x \in BindingIds \ {b} : new.bindings[x] = db.bindings[x]
  BY <1>0, <1>1 DEF Binding, IInv, TypeOK, Db
<1>3. new \in Db
  BY <1>0 DEF IInv, TypeOK, Db, Binding
<1>4. Exists(new.bindings, b)
  BY <1>2, NoneIsNoRow DEF Exists
<1> HIDE DEF new
<1>5. <<"revoked", b>> \in Fact \cap Facts(new)
  BY <1>2, <1>4 DEF Fact, Facts
<1>6. OneActive(new)
  BY <1>2 DEF OneActive, ActiveFor, Exists, IInv, AtMostOneActive
<1>7. Grows(db, new, {})
  BY <1>0, <1>1, <1>2, <1>4 DEF Grows, Exists
<1>8. GoodChange(new, {}, {<<"revoked", b>>})
  BY <1>3, <1>5, <1>6, <1>7 DEF GoodChange
<1> QED BY <1>8, ChangeStep DEF Revoke, new

LEMMA ApproveGood ==
  ASSUME IInv, NEW w \in Workers, NEW p \in PairIds, NEW b \in BindingIds,
         NEW d \in Daemons, NEW k \in Clients, Approve(w, p, b, d, k)
  PROVE  Learns({b})
<1> DEFINE session == IF db.pairings[p] = None THEN None
                                               ELSE [db.pairings[p] EXCEPT !.used = TRUE]
           bs == Bind(db.bindings, b, d, k, p)
           new == [db EXCEPT !.pairings[p] = IF @ = None THEN None ELSE [@ EXCEPT !.used = TRUE],
                             !.bindings = Bind(@, b, d, k, p)]
<1>1. /\ new.pairings = [db.pairings EXCEPT ![p] = session]
      /\ new.codes = db.codes /\ new.devices = db.devices /\ new.presence = db.presence
      /\ new.bindings = bs
  <2> HIDE DEF bs
  <2> QED BY DEF IInv, TypeOK, Db, bs
<1>form. new = [db EXCEPT !.pairings = [db.pairings EXCEPT ![p] = session], !.bindings = bs]
  OBVIOUS
<1> HIDE DEF new
<1>2. /\ db.bindings \in [BindingIds -> Binding \cup {None}]
      /\ db.pairings \in [PairIds -> PairingSession \cup {None}]
      /\ p \in Sessions
      /\ OneActive(db)
  BY DEF IInv, TypeOK, Db, AtMostOneActive, Sessions
<1>3. /\ bs \in [BindingIds -> Binding \cup {None}]
      /\ OneActive(new)
      /\ Exists(bs, b) /\ bs[b].via = p
      /\ \A x \in BindingIds \ {b} :
           /\ Exists(bs, x) <=> Exists(db.bindings, x)
           /\ Exists(db.bindings, x) =>
                /\ bs[x].via = db.bindings[x].via
                /\ db.bindings[x].revoked => bs[x].revoked
  <2> HIDE DEF bs
  <2> QED BY <1>1, <1>2, BindReplaces DEF OneActive, bs
<1> HIDE DEF bs
<1>4. /\ session \in PairingSession \cup {None}
      /\ session = None <=> db.pairings[p] = None
  <2>1. CASE db.pairings[p] = None
    BY <2>1
  <2>2. CASE db.pairings[p] # None
    <3>1. db.pairings[p] \in PairingSession
      BY <1>2, <2>2
    <3>2. session \in PairingSession /\ session.used
      BY <2>2, <3>1 DEF PairingSession
    <3> QED BY <2>2, <3>2, NoneIsNoRow
  <2> QED BY <2>1, <2>2
<1> HIDE DEF session
<1>5. new.pairings \in [PairIds -> PairingSession \cup {None}]
  BY <1>1, <1>2, <1>4
<1>6. new \in Db
  BY <1>1, <1>form, <1>3, <1>5 DEF IInv, TypeOK, Db
<1>7. /\ new.pairings[p] = session
      /\ \A q \in PairIds \ {p} : new.pairings[q] = db.pairings[q]
  BY <1>1, <1>2
<1>8. Grows(db, new, {b})
  BY <1>1, <1>3, <1>4, <1>7 DEF Grows, Exists
<1>9. <<"bound", b, p>> \in Fact \cap Facts(new)
  BY <1>1, <1>2, <1>3 DEF Fact, Facts
<1>10. GoodChange(new, {b}, {<<"bound", b, p>>})
  BY <1>3, <1>6, <1>8, <1>9 DEF GoodChange
<1> QED BY <1>10, ChangeStep DEF Approve, new

LEMMA ApproveCodeGood ==
  ASSUME IInv, NEW w \in Workers, NEW c \in Codes, NEW b \in BindingIds,
         NEW d \in Daemons, NEW k \in Clients, ApproveCode(w, c, b, d, k)
  PROVE  Learns({b})
<1> DEFINE session == [db.codes[c] EXCEPT !.used = b]
           bs == Bind(db.bindings, b, d, k, c)
           new == [db EXCEPT !.codes[c].used = b,
                             !.devices = @ \cup {d},
                             !.bindings = Bind(@, b, d, k, c)]
           promise == {<<"bound", b, c>>, <<"used", c, b>>}
<1>0. Exists(db.codes, c) /\ db.codes[c].used = None
  BY DEF ApproveCode, Redeemable
<1>1. /\ new.codes = [db.codes EXCEPT ![c] = session]
      /\ new.pairings = db.pairings /\ new.presence = db.presence
      /\ new.devices = db.devices \cup {d}
      /\ new.bindings = bs
  <2> HIDE DEF bs
  <2> QED BY DEF IInv, TypeOK, Db, bs
<1>form. new = [db EXCEPT !.codes = [db.codes EXCEPT ![c] = session],
                       !.devices = db.devices \cup {d}, !.bindings = bs]
  OBVIOUS
<1> HIDE DEF new
<1>2. /\ db.bindings \in [BindingIds -> Binding \cup {None}]
      /\ db.codes \in [Codes -> CodePairingSession \cup {None}]
      /\ c \in Sessions
      /\ OneActive(db)
  BY DEF IInv, TypeOK, Db, AtMostOneActive, Sessions
<1>3. /\ bs \in [BindingIds -> Binding \cup {None}]
      /\ OneActive(new)
      /\ Exists(bs, b) /\ bs[b].via = c
      /\ \A x \in BindingIds \ {b} :
           /\ Exists(bs, x) <=> Exists(db.bindings, x)
           /\ Exists(db.bindings, x) =>
                /\ bs[x].via = db.bindings[x].via
                /\ db.bindings[x].revoked => bs[x].revoked
  <2> HIDE DEF bs
  <2> QED BY <1>1, <1>2, BindReplaces DEF OneActive, bs
<1> HIDE DEF bs
<1>4. session \in CodePairingSession /\ session # None /\ session.used = b /\ b # None
  <2>1. db.codes[c] \in CodePairingSession
    BY <1>0, <1>2 DEF Exists
  <2>2. session \in CodePairingSession /\ session.used = b
    BY <2>1 DEF CodePairingSession
  <2> QED BY <2>2, NoneIsNoRow, ConstantsAssumption DEF ConstantsAssumption
<1> HIDE DEF session
<1>5. new.codes \in [Codes -> CodePairingSession \cup {None}]
  BY <1>1, <1>2, <1>4
<1>6. new \in Db
  BY <1>1, <1>form, <1>3, <1>5 DEF IInv, TypeOK, Db
<1>7. /\ new.codes[c] = session
      /\ \A x \in Codes \ {c} : new.codes[x] = db.codes[x]
  BY <1>1, <1>2
<1>8. Grows(db, new, {b})
  BY <1>0, <1>1, <1>3, <1>4, <1>7 DEF Grows, Exists
<1>9. promise \subseteq Fact /\ promise \subseteq Facts(new)
  <2>1. <<"bound", b, c>> \in Fact \cap Facts(new)
    BY <1>1, <1>2, <1>3 DEF Fact, Facts
  <2>2. <<"used", c, b>> \in Fact \cap Facts(new)
    BY <1>2, <1>4, <1>7 DEF Fact, Facts, Exists
  <2> QED BY <2>1, <2>2
<1>10. GoodChange(new, {b}, promise)
  BY <1>3, <1>6, <1>8, <1>9 DEF GoodChange
<1>11. Change(w, new, {b}, promise)
  BY DEF ApproveCode, new
<1> QED BY <1>10, <1>11, ChangeStep

LEMMA HandleLearns ==
  ASSUME IInv, NEW w \in Workers, Handle(w)
  PROVE  Learns({}) \/ \E i \in Sessions \cup BindingIds : Learns({i})
BY RegisterGood, UpdatePresenceGood, StartGood, ApproveGood, StartCodeGood,
   ApproveCodeGood, RevokeGood DEF Handle, Sessions
-----------------------------------------------------------------------------
(* The rest of a handler, and the environment. *)

LEMMA SaveStep ==
  ASSUME IInv, NEW w \in Workers, Save(w)
  PROVE  IInv'
<1>1. TypeOK'
  BY DEF IInv, TypeOK, Save
<1>2. AtMostOneActive'
  BY DEF IInv, AtMostOneActive, OneActive, ActiveFor, Exists, Save
<1>3. Facts(disk') = Facts(db) /\ Facts(db') = Facts(db)
  BY DEF Save
<1>4. durable' \subseteq Facts(db') /\ durable' \subseteq Facts(disk')
  BY <1>3 DEF IInv, Save
<1>5. \A v \in Workers : work'[v].promise = work[v].promise
  BY DEF IInv, TypeOK, Save
<1> QED BY <1>1, <1>2, <1>3, <1>4, <1>5 DEF IInv

LEMMA SaveFailsStep ==
  ASSUME IInv, NEW w \in Workers, SaveFails(w)
  PROVE  IInv'
<1>1. TypeOK'
  BY DEF IInv, TypeOK, SaveFails
<1>2. AtMostOneActive'
  BY DEF IInv, AtMostOneActive, OneActive, ActiveFor, Exists, SaveFails
<1>3. Facts(disk') = Facts(disk) /\ Facts(db') = Facts(db) /\ durable' = durable
  BY DEF SaveFails
<1>4. \A v \in Workers : work'[v].promise = work[v].promise /\ work'[v].saved = work[v].saved
  BY DEF IInv, TypeOK, SaveFails
<1> QED BY <1>1, <1>2, <1>3, <1>4 DEF IInv

LEMMA ReplyStep ==
  ASSUME IInv, NEW w \in Workers, Reply(w)
  PROVE  IInv'
<1>1. TypeOK'
  BY DEF IInv, TypeOK, Reply, Idle
<1>2. AtMostOneActive'
  BY DEF IInv, AtMostOneActive, OneActive, ActiveFor, Exists, Reply
<1>3. Facts(disk') = Facts(disk) /\ Facts(db') = Facts(db)
  BY DEF Reply
<1>4. durable' \subseteq Facts(db') /\ durable' \subseteq Facts(disk')
  BY <1>3 DEF IInv, Reply
<1>5. \A v \in Workers : work'[v] = Idle \/ work'[v] = work[v]
  BY DEF IInv, TypeOK, Reply
<1>6. \A v \in Workers : /\ work'[v].promise \subseteq Facts(db')
                         /\ work'[v].saved => work'[v].promise \subseteq Facts(disk')
  BY <1>3, <1>5 DEF IInv, Idle
<1> QED BY <1>1, <1>2, <1>3, <1>4, <1>6 DEF IInv

LEMMA CrashStep ==
  ASSUME IInv, Crash
  PROVE  IInv'
<1>1. TypeOK'
  BY DEF IInv, TypeOK, Crash, Idle
<1>2. AtMostOneActive'
  BY DEF IInv, AtMostOneActive, OneActive, ActiveFor, Exists, Crash
<1>3. Facts(disk') = Facts(disk) /\ Facts(db') = Facts(disk) /\ durable' = durable
  BY DEF Crash
<1>4. \A v \in Workers : work'[v].promise = {}
  BY DEF Crash, Idle
<1> QED BY <1>1, <1>2, <1>3, <1>4 DEF IInv

LEMMA QuietStep ==
  ASSUME IInv, Tick \/ UNCHANGED vars
  PROVE  IInv'
<1>1. TypeOK'
  BY ConstantsAssumption DEF ConstantsAssumption, IInv, TypeOK, Tick, vars, Times
<1>2. /\ AtMostOneActive'
      /\ Facts(disk') = Facts(disk) /\ Facts(db') = Facts(db)
      /\ durable' = durable /\ work' = work
  BY DEF IInv, AtMostOneActive, OneActive, ActiveFor, Exists, Tick, vars
<1> QED BY <1>1, <1>2 DEF IInv

LEMMA NextIInv == IInv /\ [Next]_vars => IInv'
<1> SUFFICES ASSUME IInv, [Next]_vars PROVE IInv'
  OBVIOUS
<1>1. ASSUME NEW w \in Workers, Handle(w) PROVE IInv'
  BY <1>1, HandleLearns DEF Learns
<1>2. ASSUME NEW w \in Workers, Save(w) \/ SaveFails(w) \/ Reply(w) PROVE IInv'
  BY <1>2, SaveStep, SaveFailsStep, ReplyStep
<1>3. CASE Crash
  BY <1>3, CrashStep
<1>4. CASE Tick \/ UNCHANGED vars
  BY <1>4, QuietStep
<1> QED BY <1>1, <1>2, <1>3, <1>4 DEF Next

\* The inductive invariant holds in every behaviour of the register.
THEOREM Inductive == Spec => []IInv
BY InitIInv, NextIInv, PTL DEF Spec
-----------------------------------------------------------------------------
(* The theorems. *)

\* Every variable keeps its type: in particular a crash reloads a well-formed
\* database.
THEOREM TypeCorrect == Spec => []TypeOK
<1>1. IInv => TypeOK
  BY DEF IInv
<1> QED BY <1>1, Inductive, PTL

\* A daemon and a client share at most one active binding, in memory and on
\* disk, whichever handlers run at once and wherever the server crashes.
THEOREM OneActiveBinding == Spec => []AtMostOneActive
<1>1. IInv => AtMostOneActive
  BY DEF IInv
<1> QED BY <1>1, Inductive, PTL

\* What a reply reported after a successful save stays true, through other
\* requests, saves and crashes, until a request names its identifier anew.
THEOREM RepliesAreDurable == Spec => []DurableKept
<1>1. IInv => DurableKept
  BY DEF IInv, DurableKept
<1> QED BY <1>1, Inductive, PTL

\* A binding whose revocation was reported and saved is neither listed nor
\* accepted by rendezvous, unless an approval with its id was made later: no
\* crash, save or other request brings it back.
THEOREM RevokedUntilApprovedAgain == Spec => []RevokedNotServed
<1>1. ASSUME IInv PROVE RevokedNotServed
  <2> SUFFICES ASSUME NEW b \in BindingIds, <<"revoked", b>> \in durable
               PROVE  db.bindings[b].revoked
    BY DEF RevokedNotServed, BindingsForClient, RendezvousOk, ActiveFor
  <2>1. <<"revoked", b>> \in Facts(db)
    BY <1>1 DEF IInv
  <2> QED BY <2>1 DEF Facts
<1> QED BY <1>1, Inductive, PTL

\* However saves fail and the server restarts, no two approvals of one start of
\* a typed code are both reported after a successful save.
THEOREM SavedApprovalIsOnly == Spec => []SavedCodeSingleUse
<1>1. ASSUME IInv PROVE SavedCodeSingleUse
  <2> SUFFICES ASSUME NEW c \in Codes, NEW b \in BindingIds,
                      <<"used", c, b>> \in Facts(db)
               PROVE  db.codes[c].used = b
    BY <1>1 DEF IInv, SavedCodeSingleUse
  <2> QED BY DEF Facts
<1> QED BY <1>1, Inductive, PTL

\* The register implements the store of DurableFacts: a request learns facts or
\* starts over with one identifier, replies promise what is visible and stored,
\* and a crash goes back to what is stored.
THEOREM RegisterImplementsStore == Spec => StoreSpec
<1>1. Init => Store!Init
  BY DEF Init, EmptyDb, Facts, Exists, Store!Init
<1>2. IInv /\ IInv' /\ [Next]_vars => [Store!Next]_(Store!vars)
  <2> SUFFICES ASSUME IInv, IInv', [Next]_vars
               PROVE  Store!Next \/ UNCHANGED Store!vars
    OBVIOUS
  <2>1. Facts(db) \subseteq Fact /\ Facts(db') \subseteq Fact
    BY FactsTyped DEF IInv, TypeOK
  <2>2. ASSUME NEW w \in Workers, Handle(w)
        PROVE  Store!Next
    <3>1. disk' = disk
      BY <2>2 DEF Handle, Register, UpdatePresence, Start, Approve, StartCode,
                 ApproveCode, Revoke, Change
    <3>2. CASE Learns({})
      <4>1. About({}) = {}
        BY DEF About
      <4> QED BY <2>1, <3>1, <3>2, <4>1 DEF Store!Next, Store!Learn, Learns
    <3>3. ASSUME NEW i \in Sessions \cup BindingIds, Learns({i})
          PROVE  Store!Replace(i)
      <4>1. About({i}) = Store!Of(i)
        BY DEF About, Store!Of
      <4> QED BY <2>1, <3>1, <3>3, <4>1 DEF Store!Replace, Learns
    <3> QED BY <2>2, <3>2, <3>3, HandleLearns DEF Store!Next
  <2>3. ASSUME NEW w \in Workers, Save(w)
        PROVE  Store!Save
    BY <2>3 DEF Store!Save, Save
  <2>4. ASSUME NEW w \in Workers, Reply(w)
        PROVE  Store!Promise
    BY <2>4 DEF Store!Promise, Reply, IInv
  <2>5. CASE Crash
    BY <2>5 DEF Store!Next, Store!Crash, Crash
  <2>6. ASSUME Tick \/ UNCHANGED vars \/ \E w \in Workers : SaveFails(w)
        PROVE  UNCHANGED Store!vars
    BY <2>6 DEF Tick, SaveFails, vars, Store!vars
  <2> QED BY <2>2, <2>3, <2>4, <2>5, <2>6 DEF Next, Store!Next
<1> QED BY <1>1, <1>2, Inductive, PTL DEF Spec, StoreSpec, Store!Spec
-----------------------------------------------------------------------------
(* Typed codes: a saved approval is served. *)

\* Binding b of m was made from a typed code.
FromCode(m, b) == Exists(m.bindings, b) /\ m.bindings[b].via \in Codes

DevicesThere(m) ==
  \A b \in BindingIds : FromCode(m, b) => m.bindings[b].daemon \in m.devices

\* The inductive invariant, next to IInv.
CodesInv == DevicesThere(db) /\ DevicesThere(disk)

\* n has no binding from a code that m does not have too.
NoNewFromCode(m, n) ==
  \A b \in BindingIds : FromCode(n, b) =>
    /\ FromCode(m, b)
    /\ n.bindings[b].daemon = m.bindings[b].daemon
-----------------------------------------------------------------------------
\* A change that makes no binding from a code.
LEMMA DevicesKept ==
  ASSUME NEW m, NEW n, DevicesThere(m), NoNewFromCode(m, n),
         m.devices \subseteq n.devices
  PROVE  DevicesThere(n)
BY DEF DevicesThere, NoNewFromCode, FromCode

\* Making a binding leaves the daemons of the others alone.
LEMMA BindKeepsDaemons ==
  ASSUME NEW bs \in [BindingIds -> Binding \cup {None}],
         NEW b \in BindingIds, NEW d \in Daemons, NEW k \in Clients,
         NEW via \in Sessions
  PROVE  LET new == Bind(bs, b, d, k, via)
         IN  /\ new[b].daemon = d
             /\ \A x \in BindingIds \ {b} :
                  Exists(new, x) => new[x].daemon = bs[x].daemon
<1> DEFINE new == Bind(bs, b, d, k, via)
<1>1. /\ new[b].daemon = d
      /\ \A x \in BindingIds \ {b} :
           new[x] = IF ActiveFor(bs, x, d, k)
                    THEN [bs[x] EXCEPT !.revoked = TRUE]
                    ELSE bs[x]
  BY DEF Bind, RevokeExisting
<1>2. \A x \in BindingIds \ {b} : ActiveFor(bs, x, d, k) => new[x].daemon = bs[x].daemon
  <2> SUFFICES ASSUME NEW x \in BindingIds \ {b}, ActiveFor(bs, x, d, k)
               PROVE  new[x].daemon = bs[x].daemon
    OBVIOUS
  <2>1. bs[x] \in Binding
    BY DEF ActiveFor, Exists
  <2>2. new[x] = [bs[x] EXCEPT !.revoked = TRUE]
    BY <1>1
  <2> HIDE DEF new
  <2> QED BY <2>1, <2>2 DEF Binding
<1> HIDE DEF new
<1>3. \A x \in BindingIds \ {b} : new[x].daemon = bs[x].daemon
  BY <1>1, <1>2
<1> QED BY <1>1, <1>3 DEF new

\* An approval of session s, by QR or by code: every other binding from a code
\* was there before.
LEMMA OnlyTheNewBinding ==
  ASSUME IInv, NEW b \in BindingIds, NEW d \in Daemons, NEW k \in Clients,
         NEW s \in Sessions, NEW n,
         n.bindings = Bind(db.bindings, b, d, k, s)
  PROVE  /\ Exists(n.bindings, b) /\ n.bindings[b].via = s /\ n.bindings[b].daemon = d
         /\ \A x \in BindingIds \ {b} : FromCode(n, x) =>
              /\ FromCode(db, x)
              /\ n.bindings[x].daemon = db.bindings[x].daemon
<1> DEFINE bs == Bind(db.bindings, b, d, k, s)
<1>1. /\ db.bindings \in [BindingIds -> Binding \cup {None}]
      /\ OneActive(db)
  BY DEF IInv, TypeOK, Db, AtMostOneActive
<1>2. /\ Exists(bs, b) /\ bs[b].via = s
      /\ \A x \in BindingIds \ {b} :
           /\ Exists(bs, x) <=> Exists(db.bindings, x)
           /\ Exists(db.bindings, x) => bs[x].via = db.bindings[x].via
  <2> HIDE DEF bs
  <2> QED BY <1>1, BindReplaces DEF OneActive, bs
<1>3. /\ bs[b].daemon = d
      /\ \A x \in BindingIds \ {b} : Exists(bs, x) => bs[x].daemon = db.bindings[x].daemon
  BY <1>1, BindKeepsDaemons
<1>4. n.bindings = bs
  OBVIOUS
<1> HIDE DEF bs
<1> QED BY <1>2, <1>3, <1>4 DEF FromCode
-----------------------------------------------------------------------------
(* One lemma per handler: the tables it installs have the device rows. *)

\* Handlers that leave the bindings alone.
LEMMA OtherHandlersKeep ==
  ASSUME IInv, CodesInv, NEW w \in Workers,
         \/ \E d \in Daemons : Register(w, d) \/ UpdatePresence(w, d)
         \/ \E p \in PairIds, d \in Daemons : Start(w, p, d)
         \/ \E c \in Codes, k \in Clients, e \in Times : StartCode(w, c, k, e)
  PROVE  DevicesThere(db')
<1>1. db'.bindings = db.bindings /\ db.devices \subseteq db'.devices
  <2>1. ASSUME NEW d \in Daemons, Register(w, d) \/ UpdatePresence(w, d)
        PROVE  db'.bindings = db.bindings /\ db.devices \subseteq db'.devices
    BY <2>1 DEF IInv, TypeOK, Db, Register, UpdatePresence, Change
  <2>2. ASSUME NEW p \in PairIds, NEW d \in Daemons, Start(w, p, d)
        PROVE  db'.bindings = db.bindings /\ db'.devices = db.devices
    BY <2>2 DEF IInv, TypeOK, Db, Start, Change
  <2>3. ASSUME NEW c \in Codes, NEW k \in Clients, NEW e \in Times, StartCode(w, c, k, e)
        PROVE  db'.bindings = db.bindings /\ db'.devices = db.devices
    BY <2>3 DEF IInv, TypeOK, Db, StartCode, Change
  <2> QED BY <2>1, <2>2, <2>3
<1>2. NoNewFromCode(db, db')
  BY <1>1 DEF NoNewFromCode, FromCode
<1> QED BY <1>1, <1>2, DevicesKept DEF CodesInv

LEMMA RevokeKeeps ==
  ASSUME IInv, CodesInv, NEW w \in Workers, NEW b \in BindingIds, Revoke(w, b)
  PROVE  DevicesThere(db')
<1>1. Exists(db.bindings, b) /\ db.bindings[b] \in Binding
  BY RowType DEF Revoke, IInv, TypeOK
<1>2. /\ db'.devices = db.devices
      /\ db'.bindings = [db.bindings EXCEPT ![b] = [@ EXCEPT !.revoked = TRUE]]
  BY DEF IInv, TypeOK, Db, Revoke, Change
<1>3. /\ db'.bindings[b].via = db.bindings[b].via
      /\ db'.bindings[b].daemon = db.bindings[b].daemon
      /\ \A x \in BindingIds \ {b} : db'.bindings[x] = db.bindings[x]
  BY <1>1, <1>2 DEF Binding, IInv, TypeOK, Db
<1>4. NoNewFromCode(db, db')
  BY <1>1, <1>2, <1>3 DEF NoNewFromCode, FromCode, Exists
<1> QED BY <1>2, <1>4, DevicesKept DEF CodesInv

LEMMA ApproveKeeps ==
  ASSUME IInv, CodesInv, NEW w \in Workers, NEW p \in PairIds, NEW b \in BindingIds,
         NEW d \in Daemons, NEW k \in Clients, Approve(w, p, b, d, k)
  PROVE  DevicesThere(db')
<1>1. /\ db'.devices = db.devices
      /\ db'.bindings = Bind(db.bindings, b, d, k, p)
  BY DEF IInv, TypeOK, Db, Approve, Change
<1>2. p \in Sessions /\ p \notin Codes
  BY ConstantsAssumption DEF ConstantsAssumption, Sessions
<1>3. ~FromCode(db', b)
  BY <1>1, <1>2, OnlyTheNewBinding DEF FromCode
<1>4. NoNewFromCode(db, db')
  BY <1>1, <1>2, <1>3, OnlyTheNewBinding DEF NoNewFromCode
<1> QED BY <1>1, <1>4, DevicesKept DEF CodesInv

LEMMA ApproveCodeKeeps ==
  ASSUME IInv, CodesInv, NEW w \in Workers, NEW c \in Codes, NEW b \in BindingIds,
         NEW d \in Daemons, NEW k \in Clients, ApproveCode(w, c, b, d, k)
  PROVE  DevicesThere(db')
<1>1. /\ db'.devices = db.devices \cup {d}
      /\ db'.bindings = Bind(db.bindings, b, d, k, c)
  BY DEF IInv, TypeOK, Db, ApproveCode, Change
<1>2. c \in Sessions
  BY DEF Sessions
<1>3. /\ db'.bindings[b].daemon = d
      /\ \A x \in BindingIds \ {b} : FromCode(db', x) =>
           /\ FromCode(db, x)
           /\ db'.bindings[x].daemon = db.bindings[x].daemon
  BY <1>1, <1>2, OnlyTheNewBinding
<1> QED BY <1>1, <1>3 DEF CodesInv, DevicesThere
-----------------------------------------------------------------------------
LEMMA NextCodesInv == IInv /\ CodesInv /\ [Next]_vars => CodesInv'
<1> SUFFICES ASSUME IInv, CodesInv, [Next]_vars PROVE CodesInv'
  OBVIOUS
<1>1. ASSUME NEW w \in Workers, Handle(w) PROVE CodesInv'
  <2>1. DevicesThere(db')
    BY <1>1, OtherHandlersKeep, RevokeKeeps, ApproveKeeps, ApproveCodeKeeps DEF Handle
  <2>2. disk' = disk
    BY <1>1 DEF Handle, Register, UpdatePresence, Start, Approve, StartCode,
               ApproveCode, Revoke, Change
  <2> QED BY <2>1, <2>2 DEF CodesInv
<1>2. ASSUME NEW w \in Workers, Save(w) PROVE CodesInv'
  <2>1. disk' = db /\ db' = db
    BY <1>2 DEF Save
  <2> QED BY <2>1 DEF CodesInv
<1>3. CASE Crash
  <2>1. disk' = disk /\ db' = disk
    BY <1>3 DEF Crash
  <2> QED BY <2>1 DEF CodesInv
<1>4. ASSUME Tick \/ UNCHANGED vars \/ \E w \in Workers : SaveFails(w) \/ Reply(w)
      PROVE  CodesInv'
  <2>1. disk' = disk /\ db' = db
    BY <1>4 DEF Tick, vars, SaveFails, Reply
  <2> QED BY <2>1 DEF CodesInv
<1> QED BY <1>1, <1>2, <1>3, <1>4 DEF Next

\* In memory and on disk, a binding made from a code has its daemon's device row
\* next to it.
THEOREM CodesStayServable == Spec => []CodesInv
<1>1. Init => CodesInv
  BY DEF Init, EmptyDb, CodesInv, DevicesThere, FromCode, Exists
<1> QED BY <1>1, NextCodesInv, Inductive, PTL DEF Spec

\* Rendezvous serves a reported and saved binding from a code until it is
\* revoked or replaced: no restart loses the device row it wants.
THEOREM SavedBindingIsServed == Spec => []BoundIsServed
<1>1. ASSUME IInv, CodesInv PROVE BoundIsServed
  <2> SUFFICES ASSUME NEW b \in BindingIds, NEW c \in Codes,
                      <<"bound", b, c>> \in Facts(db),
                      ~db.bindings[b].revoked
               PROVE  RendezvousOk(db.bindings[b].daemon, db.bindings[b].client, b)
    BY <1>1 DEF IInv, BoundIsServed
  <2>1. FromCode(db, b)
    BY DEF Facts, FromCode
  <2> QED BY <1>1, <2>1 DEF RendezvousOk, ActiveFor, FromCode, CodesInv, DevicesThere
<1> QED BY <1>1, Inductive, CodesStayServable, PTL
=============================================================================
