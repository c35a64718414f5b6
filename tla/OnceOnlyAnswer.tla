---------------------------- MODULE OnceOnlyAnswer ----------------------------
(***************************************************************************)
(* What retry identity promises, without leases, tokens or transactions:   *)
(* each key has at most one stored answer at a time; an interaction is     *)
(* recorded only together with the answer it belongs to; what a client     *)
(* receives is the stored answer, and it receives one at most.             *)
(***************************************************************************)
CONSTANTS Requests, Keys, Nobody

VARIABLES
  stored,    \* the answer each key replays, by the request that made it
  recorded,  \* requests whose interaction is in the event log
  received   \* the answer each client was given

vars == <<stored, recorded, received>>

Init ==
  /\ stored = [k \in Keys |-> Nobody]
  /\ recorded = {}
  /\ received = [r \in Requests |-> Nobody]

(* The first answer under a free key; its author may miss the reply. *)
Store(r, k) ==
  /\ stored[k] = Nobody
  /\ \A j \in Keys : stored[j] # r
  /\ r \notin recorded
  /\ stored' = [stored EXCEPT ![k] = r]
  /\ \E log \in {recorded, recorded \cup {r}} : recorded' = log
  /\ received[r] = Nobody
  /\ \E a \in {r, Nobody} : received' = [received EXCEPT ![r] = a]

Replay(r, k) ==
  /\ stored[k] # Nobody
  /\ received[r] = Nobody
  /\ received' = [received EXCEPT ![r] = stored[k]]
  /\ UNCHANGED <<stored, recorded>>

Forget(K) ==
  /\ \A k \in K : stored[k] # Nobody
  /\ stored' = [k \in Keys |-> IF k \in K THEN Nobody ELSE stored[k]]
  /\ UNCHANGED <<recorded, received>>

Next ==
  \/ \E r \in Requests, k \in Keys : Store(r, k) \/ Replay(r, k)
  \/ \E K \in (SUBSET Keys) \ {{}} : Forget(K)

Spec == Init /\ [][Next]_vars
=============================================================================
