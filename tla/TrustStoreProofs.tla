-------------------------- MODULE TrustStoreProofs --------------------------
(***************************************************************************)
(* The safety properties of TrustStore, for any commands, clients and      *)
(* identities.                                                             *)
(*                                                                         *)
(* TrustsOnlyBound holds whatever the processes do, once it is known which *)
(* of them hold a state (StateInv).  The other properties are promised     *)
(* only while commands run one at a time.  What holds then depends on      *)
(* where the one busy process is: the file is not JSON exactly while it is *)
(* between Truncate and Write, and what it holds or is about to write      *)
(* agrees with the daemon's identity and with what was reported (TurnInv). *)
(***************************************************************************)
EXTENDS TrustStore, FiniteSetTheorems, TLAPS

HasState == {"loaded", "create", "creating", "save", "saving"}

StateInv ==
  \A p \in Procs :
    /\ proc[p].pc \in HasState \cup {"up"} => proc[p].st \in State
    /\ proc[p].pc \in {"save", "saving"} =>
         /\ proc[p].op \in {"pair", "revoke"}
         /\ proc[p].client \in proc[p].st.trusted <=> proc[p].op = "pair"

Up == Pc(Daemon, "up")
Unclaimed == \A k \in Clients : claim[k] = "none"

Alone == \A p, q \in Procs : Busy(p) /\ Busy(q) => p = q

\* What the busy process knows of the file, and is about to make of it.
InTurn(p) ==
  LET me == proc[p] IN
  /\ me.pc \in {"creating", "saving"} => file.text = Torn /\ file.len = 0
  /\ me.pc = "create" => file.text = None
  /\ me.pc = "creating" => ~Up /\ Unclaimed
  /\ me.pc = "loaded" => file.text = me.st
  /\ me.pc = "save" =>
       /\ file.text \in State /\ file.text.id = me.st.id
       /\ \A k \in Clients \ {me.client} : k \in me.st.trusted <=> k \in file.text.trusted
  /\ me.pc = "saving" =>
       /\ Up => proc[Daemon].st.id = me.st.id
       /\ \A k \in Clients \ {me.client} :
            claim[k] # "none" => (k \in me.st.trusted <=> claim[k] = "pair")

FileInTurn ==
  /\ file.text = None => ~Up /\ Unclaimed
  /\ file.text = Torn => \E p \in Procs : proc[p].pc \in {"creating", "saving"}
  /\ file.text \in State =>
       /\ Up => file.text.id = proc[Daemon].st.id
       /\ \A k \in Clients : claim[k] # "none" => (k \in file.text.trusted <=> claim[k] = "pair")

TurnInv == orderly => Alone /\ (\A p \in Procs : InTurn(p)) /\ FileInTurn

IInv == TypeOK /\ StateInv /\ TrustsOnlyBound /\ TurnInv
-----------------------------------------------------------------------------
\* A text fits the longest length.
LEMMA LengthBound ==
  ASSUME NEW st \in State
  PROVE  Length(st) \in 1..(Cardinality(Clients) + 1)
<1>1. /\ st.trusted \subseteq Clients /\ IsFiniteSet(Clients)
      /\ Cardinality(Clients) \in Nat
  BY TrustAssumption, FS_CardinalityType DEF State
<1>2. /\ Cardinality(st.trusted) \in Nat
      /\ Cardinality(st.trusted) <= Cardinality(Clients)
  BY <1>1, FS_Subset, FS_CardinalityType
<1> QED BY <1>1, <1>2 DEF Length

LEMMA InitIInv == Init => IInv
<1> SUFFICES ASSUME Init PROVE IInv
  OBVIOUS
<1>1. \A p \in Procs : proc[p] \in Proc /\ proc[p].pc = "idle" /\ proc[p].st = None
  BY DEF Init
<1>2. TypeOK
  <2>1. Cardinality(Clients) \in Nat
    BY TrustAssumption, FS_CardinalityType
  <2>2. proc \in [Procs -> Proc]
    BY DEF Init
  <2>3. file \in [text: State \cup {None, Torn}, len: 0..(Cardinality(Clients) + 1)]
    BY <2>1 DEF Init
  <2> QED BY <2>2, <2>3 DEF Init, TypeOK, ConnState
<1>3. StateInv
  BY <1>1 DEF StateInv, HasState
<1>4. TrustsOnlyBound
  BY <1>1, TrustAssumption DEF TrustsOnlyBound, Init
<1>5. TurnInv
  <2>1. \A p \in Procs : InTurn(p) /\ ~Busy(p)
    BY <1>1 DEF InTurn, Busy
  <2>2. Daemon \in Procs
    BY DEF Procs
  <2>3. FileInTurn
    BY <1>1, <2>2, TrustAssumption DEF FileInTurn, Init, Up, Pc, Unclaimed
  <2> QED BY <2>1, <2>3 DEF TurnInv, Alone
<1> QED BY <1>2, <1>3, <1>4, <1>5 DEF IInv
-----------------------------------------------------------------------------
(* A step of process p, which goes to the record r. *)

Goes(p, r) == r \in Proc /\ proc' = [proc EXCEPT ![p] = r]

LEMMA StateStep ==
  ASSUME IInv, NEW p \in Procs, NEW r, Goes(p, r),
         r.pc \in HasState \cup {"up"} => r.st \in State,
         r.pc \in {"save", "saving"} =>
           r.op \in {"pair", "revoke"} /\ (r.client \in r.st.trusted <=> r.op = "pair")
  PROVE  StateInv'
<1>1. \A q \in Procs : proc'[q] = IF q = p THEN r ELSE proc[q]
  BY DEF Goes, IInv, TypeOK
<1> QED BY <1>1 DEF StateInv, IInv

LEMMA BoundStep ==
  ASSUME IInv, NEW p \in Procs, NEW r, Goes(p, r),
         bound \subseteq bound',
         file'.text \in State => file'.text = file.text \/ file'.text \in {proc[q].st : q \in Procs},
         r.st \in State => \A k \in r.st.trusted : <<r.st.id, k>> \in bound'
  PROVE  TrustsOnlyBound'
<1>1. \A q \in Procs : proc'[q] = IF q = p THEN r ELSE proc[q]
  BY DEF Goes, IInv, TypeOK
<1>2. TrustsOnlyBound
  BY DEF IInv
<1> SUFFICES ASSUME NEW st \in {file'.text} \cup {proc'[q].st : q \in Procs}, st \in State,
                    NEW k \in st.trusted
             PROVE  <<st.id, k>> \in bound'
  BY DEF TrustsOnlyBound
<1>3. CASE st = file'.text
  BY <1>2, <1>3 DEF TrustsOnlyBound
<1>4. ASSUME NEW q \in Procs, st = proc'[q].st PROVE <<st.id, k>> \in bound'
  <2>1. CASE q = p
    BY <1>1, <1>4, <2>1
  <2>2. CASE q # p
    BY <1>1, <1>2, <1>4, <2>2 DEF TrustsOnlyBound
  <2> QED BY <2>1, <2>2
<1> QED BY <1>3, <1>4
-----------------------------------------------------------------------------
(* Steps while nothing is written: the file stays as it is. *)

\* What changes for the other processes when only p moves.
LEMMA OthersStay ==
  ASSUME IInv, NEW p \in Procs, NEW r, Goes(p, r)
  PROVE  /\ proc'[p] = r
         /\ \A q \in Procs \ {p} : proc'[q] = proc[q]
         /\ Daemon \in Procs
BY DEF Goes, IInv, TypeOK, Procs

\* In turn, whoever is busy is alone, and stays alone.
LEMMA AloneStep ==
  ASSUME IInv, NEW p \in Procs, NEW r, Goes(p, r), orderly, orderly', Busy(p)
  PROVE  Alone' /\ \A q \in Procs \ {p} : ~Busy(q) /\ ~Busy(q)'
<1>1. /\ proc'[p] = r
      /\ \A q \in Procs \ {p} : proc'[q] = proc[q]
  BY OthersStay
<1>2. Alone
  BY DEF IInv, TurnInv
<1>3. \A q \in Procs \ {p} : ~Busy(q)
  BY <1>2 DEF Alone
<1>4. \A q \in Procs \ {p} : ~Busy(q)'
  BY <1>1, <1>3 DEF Busy
<1> QED BY <1>3, <1>4 DEF Alone

\* Who is not busy makes no claim on the file.
LEMMA IdleInTurn ==
  ASSUME NEW q \in Procs, ~Busy(q)
  PROVE  InTurn(q)
BY DEF Busy, InTurn

\* The same of the next state.
LEMMA IdleInTurnNext ==
  ASSUME NEW q \in Procs, ~Busy(q)'
  PROVE  InTurn(q)'
BY DEF Busy, InTurn

\* A busy process moves: what is left to show is its own part and the file's.
LEMMA TurnStep ==
  ASSUME IInv, NEW p \in Procs, NEW r, Goes(p, r), Busy(p), orderly' => orderly,
         orderly' => InTurn(p)' /\ FileInTurn'
  PROVE  TurnInv'
<1> SUFFICES ASSUME orderly' PROVE Alone' /\ (\A q \in Procs : InTurn(q)') /\ FileInTurn'
  BY DEF TurnInv
<1>1. Alone' /\ \A q \in Procs \ {p} : ~Busy(q)'
  BY AloneStep
<1>2. \A q \in Procs \ {p} : InTurn(q)'
  BY <1>1, IdleInTurnNext
<1> QED BY <1>1, <1>2

\* The types, when the file stays.
LEMMA TypeStep ==
  ASSUME IInv, NEW p \in Procs, NEW r, Goes(p, r),
         file' \in [text: State \cup {None, Torn}, len: 0..(Cardinality(Clients) + 1)],
         newIds' \subseteq Ids, bound' \subseteq Ids \X Clients,
         claim' \in [Clients -> {"none", "pair", "revoke"}], conn' \in [Clients -> ConnState],
         orderly' \in BOOLEAN
  PROVE  TypeOK'
<1>1. proc' \in [Procs -> Proc]
  BY DEF Goes, IInv, TypeOK
<1> QED BY <1>1 DEF TypeOK

\* In turn, p being busy is where the file's state comes from.
LEMMA TheBusyOne ==
  ASSUME IInv, orderly, NEW p \in Procs, Busy(p)
  PROVE  /\ InTurn(p) /\ FileInTurn
         /\ file.text = Torn => proc[p].pc \in {"creating", "saving"}
         /\ Up => p # Daemon
<1>1. InTurn(p) /\ FileInTurn /\ Alone
  BY DEF IInv, TurnInv
<1>2. \A q \in Procs : proc[q].pc \in {"creating", "saving"} => Busy(q)
  BY DEF Busy
<1>3. file.text = Torn => proc[p].pc \in {"creating", "saving"}
  BY <1>1, <1>2 DEF FileInTurn, Alone
<1>4. Up => p # Daemon
  BY DEF Up, Pc, Busy
<1> QED BY <1>1, <1>3, <1>4
-----------------------------------------------------------------------------
LEMMA BeginStep ==
  ASSUME IInv, NEW p \in Procs, Begin(p)
  PROVE  IInv'
<1> DEFINE r == [proc[p] EXCEPT !.pc = "start", !.st = None]
<1>1. proc[p] \in Proc /\ proc \in [Procs -> Proc]
  BY DEF IInv, TypeOK
<1>2. Goes(p, r) /\ r.pc = "start" /\ r.st = None
  BY <1>1 DEF Begin, Goes, Proc
<1> HIDE DEF r
<1>3. UNCHANGED <<file, newIds, bound, claim>>
  BY DEF Begin
<1>4. TypeOK'
  <2>1. conn' \in [Clients -> ConnState]
    BY DEF Begin, IInv, TypeOK, ConnState
  <2> QED BY <1>2, <1>3, <2>1, TypeStep DEF Begin, IInv, TypeOK
<1>5. StateInv'
  BY <1>2, StateStep DEF HasState
<1>6. TrustsOnlyBound'
  BY <1>2, <1>3, BoundStep, TrustAssumption
<1>7. TurnInv'
  <2> SUFFICES ASSUME orderly' PROVE Alone' /\ (\A q \in Procs : InTurn(q)') /\ FileInTurn'
    BY DEF TurnInv
  <2>1. orderly /\ \A q \in Procs : ~Busy(q)
    BY DEF Begin
  <2>2. proc'[p] = r /\ (\A q \in Procs \ {p} : proc'[q] = proc[q]) /\ Daemon \in Procs
    BY <1>2, OthersStay
  <2>3. \A q \in Procs \ {p} : ~Busy(q)'
    BY <2>1, <2>2 DEF Busy
  <2>4. \A q \in Procs : InTurn(q)'
    <3>1. InTurn(p)'
      BY <1>2, <2>2 DEF InTurn
    <3> QED BY <2>3, <3>1, IdleInTurnNext
  <2>5. FileInTurn
    BY <2>1 DEF IInv, TurnInv
  <2>6. file.text # Torn
    BY <2>1, <2>5 DEF FileInTurn, Busy
  <2>7. Up' => Up /\ proc'[Daemon] = proc[Daemon]
    BY <1>2, <2>2 DEF Up, Pc
  <2>8. FileInTurn'
    BY <1>3, <2>5, <2>6, <2>7 DEF FileInTurn, Unclaimed
  <2> QED BY <2>3, <2>4, <2>8 DEF Alone
<1> QED BY <1>4, <1>5, <1>6, <1>7 DEF IInv

\* Whatever is not written anew trusts only clients that are bound.
LEMMA HeldBound ==
  ASSUME IInv, NEW p \in Procs, proc[p].st \in State
  PROVE  \A k \in proc[p].st.trusted : <<proc[p].st.id, k>> \in bound
BY DEF IInv, TrustsOnlyBound

\* In turn, a file that parses or is absent stays in order if it stays as it is.
LEMMA FileKept ==
  ASSUME IInv, orderly, NEW p \in Procs, NEW r, Goes(p, r), Busy(p),
         proc[p].pc \notin {"creating", "saving"}, r.pc # "up", UNCHANGED <<file, claim>>
  PROVE  FileInTurn'
<1>1. proc'[p] = r /\ (\A q \in Procs \ {p} : proc'[q] = proc[q]) /\ Daemon \in Procs
  BY OthersStay
<1>2. FileInTurn /\ file.text # Torn
  BY TheBusyOne
<1>3. Up' => Up /\ proc'[Daemon] = proc[Daemon]
  BY <1>1 DEF Up, Pc
<1> QED BY <1>2, <1>3 DEF FileInTurn, Unclaimed

LEMMA LoadStep ==
  ASSUME IInv, NEW p \in Procs, Load(p)
  PROVE  IInv'
<1> DEFINE r == [proc[p] EXCEPT !.pc = "loaded", !.st = file.text]
<1>1. proc[p] \in Proc /\ proc \in [Procs -> Proc]
  BY DEF IInv, TypeOK
<1>2. /\ Goes(p, r) /\ r.pc = "loaded" /\ r.st = file.text /\ file.text \in State
      /\ Busy(p) /\ proc[p].pc = "start"
  BY <1>1 DEF Load, Goes, Proc, Busy, Pc
<1> HIDE DEF r
<1>3. UNCHANGED <<file, newIds, bound, claim, conn, orderly>>
  BY DEF Load
<1>4. TypeOK'
  BY <1>2, <1>3, TypeStep DEF IInv, TypeOK
<1>5. StateInv'
  BY <1>2, StateStep
<1>6. TrustsOnlyBound'
  <2>1. \A k \in r.st.trusted : <<r.st.id, k>> \in bound
    BY <1>2 DEF IInv, TrustsOnlyBound
  <2> QED BY <1>2, <1>3, <2>1, BoundStep
<1>7. TurnInv'
  <2>1. orderly' => InTurn(p)' /\ FileInTurn'
    <3> SUFFICES ASSUME orderly' PROVE InTurn(p)' /\ FileInTurn'
      OBVIOUS
    <3>1. proc'[p] = r
      BY <1>2, OthersStay
    <3>2. InTurn(p)'
      BY <1>2, <1>3, <3>1 DEF InTurn
    <3>3. FileInTurn'
      BY <1>2, <1>3, FileKept
    <3> QED BY <3>2, <3>3
  <2> QED BY <1>2, <1>3, <2>1, TurnStep
<1> QED BY <1>4, <1>5, <1>6, <1>7 DEF IInv

\* A process that gives up, or has nothing to save, leaves the file alone.
LEMMA EndStep ==
  ASSUME IInv, NEW p \in Procs, NEW pc \in {"ended", "failed"}, Busy(p),
         proc[p].pc \notin {"creating", "saving"}, proc' = Step(p, pc),
         bound \subseteq bound', bound' \subseteq Ids \X Clients,
         UNCHANGED <<file, newIds, claim, conn, orderly>>
  PROVE  IInv'
<1> DEFINE r == [proc[p] EXCEPT !.pc = pc]
<1>1. proc[p] \in Proc /\ proc \in [Procs -> Proc]
  BY DEF IInv, TypeOK
<1>2. Goes(p, r) /\ r.pc \in {"ended", "failed"} /\ r.st = proc[p].st
  BY <1>1 DEF Step, Goes, Proc
<1> HIDE DEF r
<1>4. TypeOK'
  BY <1>2, TypeStep DEF IInv, TypeOK
<1>5. StateInv'
  BY <1>2, StateStep DEF HasState
<1>6. TrustsOnlyBound'
  BY <1>2, HeldBound, BoundStep
<1>7. TurnInv'
  <2>1. orderly' => InTurn(p)' /\ FileInTurn'
    <3> SUFFICES ASSUME orderly' PROVE InTurn(p)' /\ FileInTurn'
      OBVIOUS
    <3>1. proc'[p] = r
      BY <1>2, OthersStay
    <3>2. InTurn(p)'
      BY <1>2, <3>1 DEF InTurn
    <3>3. FileInTurn'
      BY <1>2, FileKept
    <3> QED BY <3>2, <3>3
  <2> QED BY <1>2, <2>1, TurnStep
<1> QED BY <1>4, <1>5, <1>6, <1>7 DEF IInv

LEMMA GenerateStep ==
  ASSUME IInv, NEW p \in Procs, NEW i \in Ids, Generate(p, i)
  PROVE  IInv'
<1> DEFINE st == [id |-> i, trusted |-> {}]
           r == [proc[p] EXCEPT !.pc = "create", !.st = st]
<1>1. proc[p] \in Proc /\ proc \in [Procs -> Proc]
  BY DEF IInv, TypeOK
<1>2. st \in State /\ st.trusted = {}
  BY DEF State
<1>3. /\ Goes(p, r) /\ r.pc = "create" /\ r.st = st
      /\ Busy(p) /\ proc[p].pc = "start" /\ file.text = None
  BY <1>1, <1>2 DEF Generate, Goes, Proc, Busy, Pc
<1> HIDE DEF st, r
<1>4. UNCHANGED <<file, bound, claim, conn, orderly>> /\ newIds' \subseteq Ids
  BY DEF Generate, IInv, TypeOK
<1>5. TypeOK'
  BY <1>3, <1>4, TypeStep DEF IInv, TypeOK
<1>6. StateInv'
  BY <1>2, <1>3, StateStep
<1>7. TrustsOnlyBound'
  BY <1>2, <1>3, <1>4, BoundStep
<1>8. TurnInv'
  <2>1. orderly' => InTurn(p)' /\ FileInTurn'
    <3> SUFFICES ASSUME orderly' PROVE InTurn(p)' /\ FileInTurn'
      OBVIOUS
    <3>1. proc'[p] = r
      BY <1>3, OthersStay
    <3>2. InTurn(p)'
      BY <1>3, <1>4, <3>1 DEF InTurn
    <3>3. FileInTurn'
      BY <1>3, <1>4, FileKept
    <3> QED BY <3>2, <3>3
  <2> QED BY <1>3, <1>4, <2>1, TurnStep
<1> QED BY <1>5, <1>6, <1>7, <1>8 DEF IInv

\* The file is emptied: in turn, what it held is as p is about to write it but
\* for p's own client.
LEMMA TruncateStep ==
  ASSUME IInv, NEW p \in Procs, Truncate(p)
  PROVE  IInv'
<1> DEFINE pc == IF Pc(p, "create") THEN "creating" ELSE "saving"
           r == [proc[p] EXCEPT !.pc = pc]
<1>1. proc[p] \in Proc /\ proc \in [Procs -> Proc]
  BY DEF IInv, TypeOK
<1>2. /\ Goes(p, r) /\ r.st = proc[p].st
      /\ r.op = proc[p].op /\ r.client = proc[p].client
      /\ \/ proc[p].pc = "create" /\ r.pc = "creating"
         \/ proc[p].pc = "save" /\ r.pc = "saving"
  BY <1>1 DEF Truncate, Step, Goes, Proc, Pc
<1>3. Busy(p)
  BY <1>2 DEF Busy
<1> HIDE DEF pc, r
<1>4. /\ UNCHANGED <<newIds, bound, claim, conn, orderly>>
      /\ file' = [text |-> Torn, len |-> 0]
  BY DEF Truncate
<1>5. TypeOK'
  <2>1. Cardinality(Clients) \in Nat
    BY TrustAssumption, FS_CardinalityType
  <2>2. file' \in [text: State \cup {None, Torn}, len: 0..(Cardinality(Clients) + 1)]
    BY <1>4, <2>1
  <2> QED BY <1>2, <1>4, <2>2, TypeStep DEF IInv, TypeOK
<1>6. StateInv'
  BY <1>2, StateStep DEF IInv, StateInv, HasState
<1>7. TrustsOnlyBound'
  BY <1>2, <1>4, HeldBound, BoundStep, TrustAssumption
<1>8. TurnInv'
  <2>1. orderly' => InTurn(p)' /\ FileInTurn'
    <3> SUFFICES ASSUME orderly' PROVE InTurn(p)' /\ FileInTurn'
      OBVIOUS
    <3>1. proc'[p] = r /\ (\A q \in Procs \ {p} : proc'[q] = proc[q]) /\ Daemon \in Procs
      BY <1>2, OthersStay
    <3>2. InTurn(p) /\ FileInTurn /\ file'.text = Torn /\ file'.len = 0
      BY <1>3, <1>4, TheBusyOne
    <3>3. Up' => Up /\ proc'[Daemon] = proc[Daemon]
      BY <1>2, <3>1 DEF Up, Pc
    <3>4. FileInTurn'
      BY <1>2, <3>1, <3>2, TrustAssumption DEF FileInTurn
    <3>5. CASE proc[p].pc = "create"
      <4>1. ~Up /\ Unclaimed
        BY <3>2, <3>5 DEF InTurn, FileInTurn
      <4>2. ~Up' /\ Unclaimed' /\ proc'[p].pc = "creating"
        BY <1>2, <1>4, <3>1, <3>3, <3>5, <4>1 DEF Unclaimed
      <4> QED BY <3>2, <3>4, <4>2 DEF InTurn
    <3>6. CASE proc[p].pc = "save"
      <4>1. /\ file.text \in State /\ file.text.id = r.st.id
            /\ \A k \in Clients \ {r.client} :
                 k \in r.st.trusted <=> k \in file.text.trusted
        BY <1>2, <3>2, <3>6 DEF InTurn
      <4>2. /\ Up => proc[Daemon].st.id = r.st.id
            /\ \A k \in Clients \ {r.client} :
                 claim[k] # "none" => (k \in r.st.trusted <=> claim[k] = "pair")
        BY <3>2, <4>1 DEF FileInTurn
      <4>3. r.pc = "saving" /\ proc'[p] = r /\ claim' = claim
        BY <1>2, <1>4, <3>1, <3>6
      <4>4. Up' => proc'[Daemon].st.id = r.st.id
        BY <3>3, <4>2
      <4> QED BY <3>2, <3>4, <4>2, <4>3, <4>4 DEF InTurn
    <3> QED BY <1>2, <3>5, <3>6
  <2> QED BY <1>2, <1>3, <1>4, <2>1, TurnStep
<1> QED BY <1>5, <1>6, <1>7, <1>8 DEF IInv

\* The file is written: in turn it was empty, and now it is p's state.
LEMMA WriteStep ==
  ASSUME IInv, NEW p \in Procs, Write(p)
  PROVE  IInv'
<1> DEFINE pc == IF Pc(p, "creating") THEN "loaded" ELSE "ended"
           r == [proc[p] EXCEPT !.pc = pc]
           st == proc[p].st
<1>1. proc[p] \in Proc /\ proc \in [Procs -> Proc]
  BY DEF IInv, TypeOK
<1>2. /\ Goes(p, r) /\ r.st = st
      /\ \/ proc[p].pc = "creating" /\ r.pc = "loaded"
         \/ proc[p].pc = "saving" /\ r.pc = "ended"
  BY <1>1 DEF Write, Step, Goes, Proc, Pc
<1>3. Busy(p) /\ st \in State
  BY <1>2 DEF Busy, IInv, StateInv, HasState
<1> HIDE DEF pc, r, st
<1>4. UNCHANGED <<newIds, bound, orderly>> /\ conn' \in [Clients -> ConnState]
  BY DEF Write, IInv, TypeOK, ConnState
<1>5. file' = IF file.len <= Length(st) THEN [text |-> st, len |-> Length(st)]
                                        ELSE [file EXCEPT !.text = Torn]
  BY DEF Write, st
<1>6. /\ proc[p].pc = "creating" => claim' = claim
      /\ proc[p].pc = "saving" =>
           /\ claim' = [claim EXCEPT ![proc[p].client] = proc[p].op]
           /\ proc[p].op \in {"pair", "revoke"}
           /\ proc[p].client \in st.trusted <=> proc[p].op = "pair"
  BY DEF Write, Pc, IInv, StateInv, st
<1>7. file'.text = st \/ file'.text = Torn
  BY <1>5 DEF IInv, TypeOK
<1>8. TypeOK'
  <2>1. Cardinality(Clients) \in Nat /\ Length(st) \in 1..(Cardinality(Clients) + 1)
    BY <1>3, LengthBound, TrustAssumption, FS_CardinalityType
  <2>2. file \in [text: State \cup {None, Torn}, len: 0..(Cardinality(Clients) + 1)]
    BY DEF IInv, TypeOK
  <2>3. file' \in [text: State \cup {None, Torn}, len: 0..(Cardinality(Clients) + 1)]
    <3>1. CASE file.len <= Length(st)
      BY <1>3, <1>5, <2>1, <3>1
    <3>2. CASE ~(file.len <= Length(st))
      BY <1>5, <2>2, <3>2
    <3> QED BY <3>1, <3>2
  <2>4. claim' \in [Clients -> {"none", "pair", "revoke"}]
    BY <1>1, <1>2, <1>6 DEF IInv, TypeOK, Proc
  <2> QED BY <1>2, <1>4, <2>3, <2>4, TypeStep DEF IInv, TypeOK
<1>9. StateInv'
  BY <1>2, <1>3, StateStep DEF HasState
<1>10. TrustsOnlyBound'
  BY <1>2, <1>3, <1>4, <1>7, HeldBound, BoundStep, TrustAssumption DEF st
<1>11. TurnInv'
  <2>1. orderly' => InTurn(p)' /\ FileInTurn'
    <3> SUFFICES ASSUME orderly' PROVE InTurn(p)' /\ FileInTurn'
      OBVIOUS
    <3>1. proc'[p] = r /\ (\A q \in Procs \ {p} : proc'[q] = proc[q]) /\ Daemon \in Procs
      BY <1>2, OthersStay
    <3>2. InTurn(p) /\ FileInTurn
      BY <1>3, <1>4, TheBusyOne
    <3>3. file.len = 0
      BY <1>2, <3>2 DEF InTurn
    <3>4. file'.text = st /\ st # None /\ st # Torn
      <4>1. 0 <= Length(st)
        BY <1>3, LengthBound, TrustAssumption, FS_CardinalityType
      <4> QED BY <1>3, <1>5, <3>3, <4>1, TrustAssumption
    <3>5. Up' => Up /\ proc'[Daemon] = proc[Daemon]
      BY <1>2, <3>1 DEF Up, Pc
    <3>6. InTurn(p)'
      BY <1>2, <3>1, <3>4 DEF InTurn
    <3>7. CASE proc[p].pc = "creating"
      <4>1. ~Up /\ Unclaimed
        BY <3>2, <3>7 DEF InTurn
      <4> QED BY <1>3, <1>6, <3>4, <3>5, <3>6, <3>7, <4>1 DEF FileInTurn, Unclaimed
    <3>8. CASE proc[p].pc = "saving"
      <4>1. /\ Up => proc[Daemon].st.id = st.id
            /\ \A k \in Clients \ {proc[p].client} :
                 claim[k] # "none" => (k \in st.trusted <=> claim[k] = "pair")
        BY <3>2, <3>8 DEF InTurn, st
      <4>2. \A k \in Clients : claim'[k] # "none" => (k \in st.trusted <=> claim'[k] = "pair")
        BY <1>6, <3>8, <4>1 DEF IInv, TypeOK
      <4> QED BY <1>3, <3>4, <3>5, <3>6, <4>1, <4>2 DEF FileInTurn
    <3> QED BY <1>2, <3>7, <3>8
  <2> QED BY <1>2, <1>3, <1>4, <2>1, TurnStep
<1> QED BY <1>8, <1>9, <1>10, <1>11 DEF IInv

\* A command has computed what it will save: the file's state, but for its own
\* client, whom it trusts if and only if it pairs.
LEMMA SaveStep ==
  ASSUME IInv, NEW p \in Procs, NEW T \in SUBSET Clients,
         Pc(p, "loaded"), proc[p].op \in {"pair", "revoke"},
         proc[p].client \in T <=> proc[p].op = "pair",
         \A k \in Clients \ {proc[p].client} : k \in T <=> k \in proc[p].st.trusted,
         proc' = [proc EXCEPT ![p].pc = "save", ![p].st.trusted = T],
         bound \subseteq bound', bound' \subseteq Ids \X Clients,
         \A k \in T : <<proc[p].st.id, k>> \in bound',
         UNCHANGED <<file, newIds, claim, conn, orderly>>
  PROVE  IInv'
<1> DEFINE st == [proc[p].st EXCEPT !.trusted = T]
           r == [proc[p] EXCEPT !.pc = "save", !.st = st]
<1>1. proc[p] \in Proc /\ proc \in [Procs -> Proc] /\ proc[p].pc = "loaded"
  BY DEF IInv, TypeOK, Pc
<1>2. proc[p].st \in State
  BY <1>1 DEF IInv, StateInv, HasState
<1>3. st \in State /\ st.id = proc[p].st.id /\ st.trusted = T
  BY <1>2 DEF State
<1>4. /\ Goes(p, r) /\ r.pc = "save" /\ r.st = st
      /\ r.op = proc[p].op /\ r.client = proc[p].client
  <2>1. proc' = [proc EXCEPT ![p] = r]
    BY <1>1
  <2>2. r \in Proc
    BY <1>1, <1>3 DEF Proc
  <2> HIDE DEF st
  <2> QED BY <1>1, <2>1, <2>2 DEF Goes, Proc
<1>5. Busy(p)
  BY <1>1 DEF Busy
<1> HIDE DEF st, r
<1>6. TypeOK'
  BY <1>4, TypeStep DEF IInv, TypeOK
<1>7. StateInv'
  BY <1>3, <1>4, StateStep
<1>8. TrustsOnlyBound'
  BY <1>3, <1>4, BoundStep
<1>9. TurnInv'
  <2>1. orderly' => InTurn(p)' /\ FileInTurn'
    <3> SUFFICES ASSUME orderly' PROVE InTurn(p)' /\ FileInTurn'
      OBVIOUS
    <3>1. proc'[p] = r
      BY <1>4, OthersStay
    <3>2. file.text = proc[p].st
      BY <1>1, <1>5, TheBusyOne DEF InTurn
    <3>3. InTurn(p)'
      BY <1>2, <1>3, <1>4, <3>1, <3>2 DEF InTurn
    <3>4. FileInTurn'
      BY <1>1, <1>4, <1>5, FileKept
    <3> QED BY <3>3, <3>4
  <2> QED BY <1>4, <1>5, <2>1, TurnStep
<1> QED BY <1>6, <1>7, <1>8, <1>9 DEF IInv

LEMMA ApproveStep ==
  ASSUME IInv, NEW p \in Procs, Approve(p)
  PROVE  IInv'
<1> DEFINE st == proc[p].st
           k == proc[p].client
           T == st.trusted \cup {k}
<1>1. /\ Pc(p, "loaded") /\ proc[p].op = "pair" /\ bound' = bound \cup {<<st.id, k>>}
      /\ UNCHANGED <<file, newIds, claim, conn, orderly>>
  BY DEF Approve
<1>2. proc[p] \in Proc /\ k \in Clients /\ st \in State
  <2>1. proc[p] \in Proc
    BY DEF IInv, TypeOK
  <2>2. st \in State
    BY <1>1 DEF IInv, StateInv, HasState, Pc
  <2> QED BY <2>1, <2>2 DEF Proc
<1>3. /\ st.id \in Ids /\ T \in SUBSET Clients
  BY <1>2 DEF State
<1>4. bound \subseteq bound' /\ bound' \subseteq Ids \X Clients
  BY <1>1, <1>2, <1>3 DEF IInv, TypeOK
<1>5. \A c \in T : <<st.id, c>> \in bound'
  BY <1>1, <1>2, HeldBound
<1>6. CASE proc' = [proc EXCEPT ![p].pc = "save", ![p].st.trusted = @ \cup {k}]
  <2>1. proc' = [proc EXCEPT ![p].pc = "save", ![p].st.trusted = T]
    BY <1>6 DEF IInv, TypeOK
  <2> HIDE DEF T
  <2>2. k \in T /\ \A c \in Clients \ {k} : c \in T <=> c \in st.trusted
    BY DEF T
  <2> QED BY <1>1, <1>3, <1>4, <1>5, <2>1, <2>2, SaveStep
<1>7. CASE proc' = Step(p, "failed")
  BY <1>1, <1>4, <1>7, EndStep DEF Pc, Busy
<1> QED BY <1>6, <1>7 DEF Approve

LEMMA RevokeStep ==
  ASSUME IInv, NEW p \in Procs, RevokeClient(p)
  PROVE  IInv'
<1> DEFINE st == proc[p].st
           k == proc[p].client
           T == st.trusted \ {k}
<1>1. /\ Pc(p, "loaded") /\ proc[p].op = "revoke"
      /\ UNCHANGED <<file, newIds, bound, claim, conn, orderly>>
  BY DEF RevokeClient
<1>2. st \in State
  BY <1>1 DEF IInv, StateInv, HasState, Pc
<1>3. T \in SUBSET Clients
  BY <1>2 DEF State
<1>4. \A c \in T : <<st.id, c>> \in bound'
  BY <1>1, <1>2, HeldBound
<1>5. bound \subseteq bound' /\ bound' \subseteq Ids \X Clients
  BY <1>1 DEF IInv, TypeOK
<1>6. proc' = [proc EXCEPT ![p].pc = "save", ![p].st.trusted = T]
  BY DEF RevokeClient, IInv, TypeOK
<1>7. k \notin T /\ \A c \in Clients \ {k} : c \in T <=> c \in st.trusted
  OBVIOUS
<1> HIDE DEF T
<1> QED BY <1>1, <1>3, <1>4, <1>5, <1>6, <1>7, SaveStep

\* The daemon comes up with what it has just read; a list command ends.
LEMMA ServeStep ==
  ASSUME IInv, NEW p \in Procs, Serve(p)
  PROVE  IInv'
<1>1. /\ proc[p].pc = "loaded" /\ Busy(p)
      /\ UNCHANGED <<file, newIds, bound, claim, conn, orderly>>
  BY DEF Serve, Pc, Busy
<1>2. bound \subseteq bound' /\ bound' \subseteq Ids \X Clients
  BY <1>1 DEF IInv, TypeOK
<1>3. CASE p # Daemon
  <2>1. proc' = Step(p, "ended")
    BY <1>3 DEF Serve
  <2> QED BY <1>1, <1>2, <2>1, EndStep
<1>4. CASE p = Daemon
  <2> DEFINE r == [proc[p] EXCEPT !.pc = "up"]
  <2>1. proc[p] \in Proc /\ proc \in [Procs -> Proc]
    BY DEF IInv, TypeOK
  <2>2. Goes(p, r) /\ r.pc = "up" /\ r.st = proc[p].st
    BY <1>4, <2>1 DEF Serve, Step, Goes, Proc
  <2>3. proc[p].st \in State
    BY <1>1 DEF IInv, StateInv, HasState
  <2> HIDE DEF r
  <2>4. TypeOK'
    BY <1>1, <2>2, TypeStep DEF IInv, TypeOK
  <2>5. StateInv'
    BY <2>2, <2>3, StateStep
  <2>6. TrustsOnlyBound'
    BY <1>1, <2>2, HeldBound, BoundStep
  <2>7. orderly' => InTurn(p)' /\ FileInTurn'
    <3> SUFFICES ASSUME orderly' PROVE InTurn(p)' /\ FileInTurn'
      OBVIOUS
    <3>1. proc'[p] = r
      BY <2>2, OthersStay
    <3>2. InTurn(p)'
      BY <2>2, <3>1 DEF InTurn
    <3>3. file.text = proc[p].st /\ FileInTurn
      BY <1>1, TheBusyOne DEF InTurn
    <3>4. FileInTurn'
      BY <1>1, <1>4, <2>2, <2>3, <3>1, <3>3, TrustAssumption DEF FileInTurn
    <3> QED BY <3>2, <3>4
  <2>8. TurnInv'
    BY <1>1, <2>2, <2>7, TurnStep
  <2> QED BY <2>4, <2>5, <2>6, <2>8 DEF IInv
<1> QED BY <1>3, <1>4

\* A death ends the promise of one at a time.
LEMMA DieStep ==
  ASSUME IInv, NEW p \in Procs, Die(p)
  PROVE  IInv'
<1> DEFINE r == [proc[p] EXCEPT !.pc = "failed"]
<1>1. proc[p] \in Proc /\ proc \in [Procs -> Proc]
  BY DEF IInv, TypeOK
<1>2. Goes(p, r) /\ r.pc = "failed" /\ r.st = proc[p].st
  BY <1>1 DEF Die, Step, Goes, Proc
<1> HIDE DEF r
<1>3. ~orderly' /\ orderly' \in BOOLEAN /\ UNCHANGED <<file, newIds, bound, claim, conn>>
  BY DEF Die
<1>4. TypeOK'
  BY <1>2, <1>3, TypeStep DEF IInv, TypeOK
<1>5. StateInv'
  BY <1>2, StateStep DEF HasState
<1>6. TrustsOnlyBound'
  BY <1>2, <1>3, HeldBound, BoundStep
<1> QED BY <1>3, <1>4, <1>5, <1>6 DEF IInv, TurnInv

\* Connections come and go over state that stays.
LEMMA ConnStep ==
  ASSUME IInv, conn' \in [Clients -> ConnState],
         UNCHANGED <<file, proc, newIds, bound, claim, orderly>>
  PROVE  IInv'
<1>1. TypeOK'
  BY DEF IInv, TypeOK
<1>2. StateInv'
  BY DEF IInv, StateInv
<1>3. TrustsOnlyBound'
  BY DEF IInv, TrustsOnlyBound
<1>4. TurnInv'
  BY DEF IInv, TurnInv, Alone, InTurn, FileInTurn, Busy, Up, Pc, Unclaimed
<1> QED BY <1>1, <1>2, <1>3, <1>4 DEF IInv
-----------------------------------------------------------------------------
LEMMA IInvStep == IInv /\ [Next]_vars => IInv'
<1> SUFFICES ASSUME IInv, [Next]_vars PROVE IInv'
  OBVIOUS
<1>1. ASSUME NEW p \in Procs,
             \/ Begin(p) \/ Load(p) \/ LoadFails(p) \/ (\E i \in Ids : Generate(p, i))
             \/ Truncate(p) \/ Write(p)
             \/ Approve(p) \/ ApproveRefused(p) \/ RevokeClient(p) \/ Serve(p) \/ Die(p)
      PROVE  IInv'
  <2>1. CASE Begin(p)
    BY <2>1, BeginStep
  <2>2. CASE Load(p)
    BY <2>2, LoadStep
  <2>3. CASE LoadFails(p)
    BY <2>3, EndStep DEF LoadFails, Pc, Busy, IInv, TypeOK
  <2>4. ASSUME NEW i \in Ids, Generate(p, i) PROVE IInv'
    BY <2>4, GenerateStep
  <2>5. CASE Truncate(p)
    BY <2>5, TruncateStep
  <2>6. CASE Write(p)
    BY <2>6, WriteStep
  <2>7. CASE Approve(p)
    BY <2>7, ApproveStep
  <2>8. CASE ApproveRefused(p)
    BY <2>8, EndStep DEF ApproveRefused, Pc, Busy, IInv, TypeOK
  <2>9. CASE RevokeClient(p)
    BY <2>9, RevokeStep
  <2>10. CASE Serve(p)
    BY <2>10, ServeStep
  <2>11. CASE Die(p)
    BY <2>11, DieStep
  <2> QED BY <1>1, <2>1, <2>2, <2>3, <2>4, <2>5, <2>6, <2>7, <2>8, <2>9, <2>10, <2>11
<1>2. ASSUME NEW k \in Clients, JudgeClient(k) \/ EnterSession(k) \/ Disconnect(k)
      PROVE  IInv'
  <2>1. conn' \in [Clients -> ConnState]
    BY <1>2 DEF JudgeClient, EnterSession, Disconnect, IInv, TypeOK, ConnState
  <2> QED BY <1>2, <2>1, ConnStep DEF JudgeClient, EnterSession, Disconnect
<1>3. CASE UNCHANGED vars
  <2>1. conn' \in [Clients -> ConnState]
    BY <1>3 DEF vars, IInv, TypeOK
  <2> QED BY <1>3, <2>1, ConnStep DEF vars
<1> QED BY <1>1, <1>2, <1>3 DEF Next

\* The invariant of the processes and their file.
THEOREM Inductive == Spec => []IInv
<1> QED BY InitIInv, IInvStep, PTL DEF Spec

\* Every reachable state has its type.
THEOREM TypeCorrect == Spec => []TypeOK
<1>1. IInv => TypeOK
  BY DEF IInv
<1> QED BY <1>1, Inductive, PTL

\* However commands overlap and die, nobody is trusted whom the cloud has not
\* approved for that identity.
THEOREM OnlyBoundTrusted == Spec => []TrustsOnlyBound
<1>1. IInv => TrustsOnlyBound
  BY DEF IInv
<1> QED BY <1>1, Inductive, PTL

\* One at a time, the file is the running daemon's.
THEOREM FileIsDaemons == Spec => []DaemonOwnsFile
<1>1. IInv => DaemonOwnsFile
  BY DEF IInv, TurnInv, FileInTurn, DaemonOwnsFile, Up
<1> QED BY <1>1, Inductive, PTL

\* One at a time, the file can be read by the next process.
THEOREM AtRestItParses == Spec => []ParsesAtRest
<1>1. IInv => ParsesAtRest
  BY DEF IInv, TurnInv, FileInTurn, ParsesAtRest, Busy
<1> QED BY <1>1, Inductive, PTL

\* One at a time, a client reported as paired is in the file.
THEOREM PairedStays == Spec => []PairedIsStoredInTurn
<1>1. IInv => PairedIsStoredInTurn
  BY DEF IInv, TurnInv, FileInTurn, PairedIsStoredInTurn, PairedIsStored, Reported
<1> QED BY <1>1, Inductive, PTL

-----------------------------------------------------------------------------
(* Handshakes and revocations. *)

\* In turn, who waits after being judged by the file was not reported as revoked
\* since: the report would have overtaken it.
LateInv ==
  orderly => \A k \in Clients : claim[k] = "revoke" => conn[k] # "reread"

LEMMA LateStep == IInv /\ LateInv /\ [Next]_vars => LateInv'
<1> SUFFICES ASSUME IInv, LateInv, [Next]_vars, orderly', NEW k \in Clients,
                    claim'[k] = "revoke"
             PROVE  conn'[k] # "reread"
  BY DEF LateInv
<1>1. ASSUME NEW p \in Procs,
             \/ Load(p) \/ LoadFails(p) \/ (\E i \in Ids : Generate(p, i))
             \/ Truncate(p) \/ Approve(p) \/ ApproveRefused(p) \/ RevokeClient(p)
             \/ Serve(p) \/ Die(p)
      PROVE  conn'[k] # "reread"
  BY <1>1 DEF LateInv, Load, LoadFails, Generate, Truncate, Approve, ApproveRefused,
              RevokeClient, Serve, Die
<1>2. ASSUME NEW p \in Procs, Begin(p) PROVE conn'[k] # "reread"
  BY <1>2 DEF LateInv, Begin
\* The write that reports a revocation of k overtakes k's handshake.
<1>3. ASSUME NEW p \in Procs, Write(p) PROVE conn'[k] # "reread"
  <2>1. orderly /\ claim \in [Clients -> {"none", "pair", "revoke"}]
        /\ conn \in [Clients -> ConnState] /\ proc[p].client \in Clients
    BY <1>3 DEF Write, IInv, TypeOK, Proc
  <2>2. CASE claim[k] = "revoke"
    BY <1>3, <2>1, <2>2 DEF LateInv, Write, ConnState
  <2>3. CASE claim[k] # "revoke"
    <3>1. Pc(p, "saving") /\ k = proc[p].client /\ proc[p].op = "revoke"
      BY <1>3, <2>1, <2>3 DEF Write
    <3> QED BY <1>3, <2>1, <3>1 DEF Write
  <2> QED BY <2>2, <2>3
\* Whom the file is said to trust no more is not found trusted by it.
<1>4. ASSUME NEW c \in Clients, JudgeClient(c) PROVE conn'[k] # "reread"
  <2>1. /\ orderly /\ claim[k] = "revoke" /\ conn[k] # "reread"
        /\ conn \in [Clients -> ConnState]
    BY <1>4 DEF JudgeClient, LateInv, IInv, TypeOK
  <2>2. CASE c # k
    BY <1>4, <2>1, <2>2 DEF JudgeClient
  <2>3. CASE c = k
    <3>1. Rereads => k \notin file.text.trusted
      BY <2>1 DEF Rereads, IInv, TurnInv, FileInTurn
    <3>2. ~Rereads
      BY <1>4, <2>3, <3>1 DEF JudgeClient, Judge
    <3> QED BY <1>4, <2>1, <2>3, <3>2 DEF JudgeClient
  <2> QED BY <2>2, <2>3
<1>5. ASSUME NEW c \in Clients, EnterSession(c) \/ Disconnect(c)
      PROVE  conn'[k] # "reread"
  BY <1>5 DEF LateInv, EnterSession, Disconnect, IInv, TypeOK
<1>6. CASE UNCHANGED vars
  BY <1>6 DEF LateInv, vars
<1> QED BY <1>1, <1>2, <1>3, <1>4, <1>5, <1>6 DEF Next

\* Only an answered challenge lets a client in.
LEMMA LetInByEntering ==
  ASSUME IInv, Next, NEW k \in Clients, LetsIn(k)
  PROVE  EnterSession(k)
<1>1. ASSUME NEW p \in Procs,
             \/ Begin(p) \/ Load(p) \/ LoadFails(p) \/ (\E i \in Ids : Generate(p, i))
             \/ Truncate(p) \/ Write(p)
             \/ Approve(p) \/ ApproveRefused(p) \/ RevokeClient(p) \/ Serve(p) \/ Die(p)
      PROVE  FALSE
  <2>1. CASE Begin(p)
    BY <2>1 DEF LetsIn, Begin
  <2>2. CASE Write(p)
    BY <2>2 DEF LetsIn, Write, IInv, TypeOK
  <2>3. CASE ~Begin(p) /\ ~Write(p)
    BY <1>1, <2>3 DEF LetsIn, Load, LoadFails, Generate, Truncate, Approve,
                     ApproveRefused, RevokeClient, Serve, Die
  <2> QED BY <2>1, <2>2, <2>3
<1>2. PICK c \in Clients : JudgeClient(c) \/ EnterSession(c) \/ Disconnect(c)
  BY <1>1 DEF Next
<1>3. conn \in [Clients -> ConnState]
  BY DEF IInv, TypeOK
<1>4. CASE JudgeClient(c)
  BY <1>3, <1>4 DEF JudgeClient, LetsIn
<1>5. CASE Disconnect(c)
  BY <1>3, <1>5 DEF Disconnect, LetsIn
<1>6. CASE EnterSession(c)
  BY <1>3, <1>6 DEF EnterSession, LetsIn
<1> QED BY <1>2, <1>4, <1>5, <1>6

\* One at a time, a revoked client gets in only late: by a handshake that was
\* judged before the revocation was reported, or by the daemon's fallback to what
\* it read at startup.
THEOREM RevokedJudgedOut == Spec => RevokedGetsInOnlyLate
<1>1. Init => LateInv
  BY DEF Init, LateInv
<1>2. IInv /\ LateInv /\ [Next]_vars =>
        [\A k \in Clients : orderly /\ Reported(k, "revoke") /\ LetsIn(k)
                             => conn[k] \in {"overtaken", "fallback"}]_vars
  <2> SUFFICES ASSUME IInv, LateInv, Next, NEW k \in Clients, orderly,
                      claim[k] = "revoke", LetsIn(k)
               PROVE  conn[k] \in {"overtaken", "fallback"}
    BY DEF Reported
  <2>1. EnterSession(k)
    BY LetInByEntering
  <2> QED BY <2>1 DEF EnterSession, LateInv
<1> QED BY <1>1, <1>2, LateStep, Inductive, PTL DEF Spec, RevokedGetsInOnlyLate
=============================================================================
