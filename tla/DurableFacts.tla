---------------------------- MODULE DurableFacts ----------------------------
(***************************************************************************)
(* What a write-behind store promises, with nothing of who writes to it    *)
(* and when.  A fact ("binding b is revoked", "code c is used by b") is    *)
(* about the identifier that is its second element.  It becomes visible to *)
(* readers, is stored with all that is visible by then, and may be promised*)
(* to a caller when it is both.  A request that names an identifier anew   *)
(* starts over with it; nothing else takes back what was promised.         *)
(*                                                                         *)
(* CloudRegistry implements this specification: see the instance there.    *)
(***************************************************************************)
CONSTANTS Fact, Ids

VARIABLES visible,   \* what a reader of the store sees now
          stored,    \* what is left after a crash
          promised   \* what some caller was told is there for good

vars == <<visible, stored, promised>>

Of(i) == {f \in Fact : f[2] = i}

Init == visible = {} /\ stored = {} /\ promised = {}

\* A request makes some facts true, and none false.
Learn ==
  /\ visible' \subseteq Fact /\ visible \subseteq visible'
  /\ UNCHANGED <<stored, promised>>

\* A request makes a new row for i.
Replace(i) ==
  /\ visible' \subseteq Fact /\ visible \ Of(i) \subseteq visible'
  /\ promised' = promised \ Of(i)
  /\ UNCHANGED stored

Save ==
  /\ stored' = visible
  /\ UNCHANGED <<visible, promised>>

\* A caller is told of facts that are visible and stored.
Promise ==
  /\ promised' \subseteq promised \cup (visible \cap stored)
  /\ promised \subseteq promised'
  /\ UNCHANGED <<visible, stored>>

Crash ==
  /\ visible' = stored
  /\ UNCHANGED <<stored, promised>>

Next == Learn \/ (\E i \in Ids : Replace(i)) \/ Save \/ Promise \/ Crash

Spec == Init /\ [][Next]_vars
=============================================================================
