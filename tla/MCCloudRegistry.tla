-------------------------- MODULE MCCloudRegistry --------------------------
(* Small instances of CloudRegistry for TLC: every behaviour of the register *)
(* with at most MaxRequests changing requests, and any number of failed      *)
(* saves and restarts.                                                       *)
EXTENDS CloudRegistry, TLC

CONSTANT MaxRequests  \* bound on the requests that change the tables

ASSUME MaxRequestsAssumption == MaxRequests \in Nat

VARIABLE requests

MCInit == Init /\ requests = 0

MCNext ==
  \/ /\ requests < MaxRequests
     /\ \E w \in Workers : Handle(w)
     /\ requests' = requests + 1
  \/ /\ \/ \E w \in Workers : Save(w) \/ SaveFails(w) \/ Reply(w)
        \/ Crash
        \/ Tick
     /\ UNCHANGED requests

MCSpec == MCInit /\ [][MCNext]_<<vars, requests>>

\* Workers, clients and identifiers are interchangeable.  Only used in
\* runs that check no liveness property.
Symmetry == Permutations(Workers) \cup Permutations(Clients)
              \cup Permutations(Codes) \cup Permutations(BindingIds)
=============================================================================
