--------------------------- MODULE ProviderLedger ---------------------------
(***************************************************************************)
(* ProviderAttemptLedger: the limits of one process on calls to the        *)
(* language model, shared by the question classifier and the answer        *)
(* generator.  A call waits for the one semaphore, takes an attempt if the *)
(* caps and the worst case of its cost allow it, talks to the provider     *)
(* under a timeout and, however that ends, pays on leaving: the usage that *)
(* was recorded, or else the worst case.                                   *)
(*                                                                         *)
(* A call is one use of reserve_classifier or reserve_generator.  Money is *)
(* counted in integral units.  The ledger lives as long as the process.    *)
(***************************************************************************)
EXTENDS Integers, FiniteSets

CONSTANTS
  Calls,           \* uses of the ledger
  ClassifierCap,   \* attempts of the classifier
  GeneratorCap,    \* attempts of the generator
  CombinedCap,     \* attempts of both
  CostCap,         \* money the process may spend
  ClassifierWorst, \* what one classifier call can cost at most
  GeneratorWorst,  \* what one generator call can cost at most
  Nobody           \* no call

Lanes == {"CLASSIFIER", "GENERATOR"}
Cap(l) == IF l = "CLASSIFIER" THEN ClassifierCap ELSE GeneratorCap
Worst(l) == IF l = "CLASSIFIER" THEN ClassifierWorst ELSE GeneratorWorst

ASSUME LedgerAssumption ==
  /\ {ClassifierCap, GeneratorCap, CombinedCap, CostCap} \subseteq Nat \ {0}
  /\ {ClassifierWorst, GeneratorWorst} \subseteq Nat \ {0}
  /\ CombinedCap =< ClassifierCap + GeneratorCap
  /\ IsFiniteSet(Calls) /\ Nobody \notin Calls

VARIABLES
  attempts,  \* attempts used by each lane
  cost,      \* _actual_cost_usd
  holder,    \* the call that holds the semaphore
  pc,        \* where each call is
  lane,      \* the lane of each call
  usage,     \* what the reservation of each call recorded, -1 if nothing
  due,       \* what the provider charges for the call in flight (history)
  billed     \* what the provider has charged so far (history)

vars == <<attempts, cost, holder, pc, lane, usage, due, billed>>
money == <<due, billed>>

Steps == {"idle", "waiting", "reserved", "sent", "done", "refused", "gone"}
InFlight == {"reserved", "sent"}
Ended == {"done", "refused", "gone"}

(* Variables have their types, and a call spends no more than its worst case. *)
TypeOK ==
  /\ attempts \in [Lanes -> Nat]
  /\ {cost, due, billed} \subseteq Nat
  /\ holder \in Calls \cup {Nobody}
  /\ pc \in [Calls -> Steps]
  /\ lane \in [Calls -> Lanes]
  /\ usage \in [Calls -> Nat \cup {-1}]
  /\ \A c \in Calls : usage[c] =< Worst(lane[c])

Init ==
  /\ attempts = [l \in Lanes |-> 0]
  /\ cost = 0 /\ due = 0 /\ billed = 0
  /\ holder = Nobody
  /\ pc = [c \in Calls |-> "idle"]
  /\ lane = [c \in Calls |-> "CLASSIFIER"]
  /\ usage = [c \in Calls |-> -1]

Go(c, step) == pc' = [pc EXCEPT ![c] = step]

-----------------------------------------------------------------------------
(* A classifier or a generator starts to wait for the semaphore. *)
Arrive(c, l) ==
  /\ pc[c] = "idle"
  /\ lane' = [lane EXCEPT ![c] = l]
  /\ Go(c, "waiting")
  /\ UNCHANGED <<attempts, cost, holder, usage, money>>

Affordable(l) == cost + Worst(l) =< CostCap

\* FAULTY VARIANT: one attempt too many.
Admits_OneMore(l) ==
  /\ attempts["CLASSIFIER"] + attempts["GENERATOR"] =< CombinedCap
  /\ Affordable(l)
  /\ attempts[l] < Cap(l)

(* The checks of _reserve, in its order. *)
Admits(l) ==
  /\ attempts["CLASSIFIER"] + attempts["GENERATOR"] < CombinedCap
  /\ Affordable(l)
  /\ attempts[l] < Cap(l)

\* FAULTY VARIANT: an attempt is counted by the lane that answers, later.
Counted_Later(l) == UNCHANGED attempts

Counted(l) == attempts' = [attempts EXCEPT ![l] = @ + 1]

(* The semaphore is free; nothing is awaited between taking it and the end *)
(* of the checks.                                                          *)
Reserve(c) ==
  /\ pc[c] = "waiting" /\ holder = Nobody
  /\ Admits(lane[c])
  /\ Counted(lane[c])
  /\ holder' = c
  /\ Go(c, "reserved")
  /\ UNCHANGED <<cost, lane, usage, money>>

\* FAULTY VARIANT: the semaphore is not released when the caps refuse.
Release_NotRefused(c) == holder' = c

(* AttemptCapReached leaves through the finally clause. *)
Release(c) == holder' = Nobody

Refuse(c) ==
  /\ pc[c] = "waiting" /\ holder = Nobody
  /\ ~Admits(lane[c])
  /\ Release(c)
  /\ Go(c, "refused")
  /\ UNCHANGED <<attempts, cost, lane, usage, money>>

(* The request's deadline passes or it is cancelled while it waits. *)
Leave(c) ==
  /\ pc[c] = "waiting"
  /\ Go(c, "gone")
  /\ UNCHANGED <<attempts, cost, holder, lane, usage, money>>

(* The request reaches the provider, who charges for it whether or not an  *)
(* answer arrives; the limits on tokens bound the charge.                  *)
Send(c) ==
  /\ pc[c] = "reserved"
  /\ \E b \in 0 .. Worst(lane[c]) : due' = b /\ billed' = billed + b
  /\ Go(c, "sent")
  /\ UNCHANGED <<attempts, cost, holder, lane, usage>>

(* record_usage: an answer came whose usage envelope is valid.  It raises  *)
(* when usage was recorded already.                                        *)
Record(c) ==
  /\ pc[c] = "sent" /\ usage[c] = -1
  /\ usage' = [usage EXCEPT ![c] = due]
  /\ UNCHANGED <<attempts, cost, holder, pc, lane, money>>

-----------------------------------------------------------------------------
(* What the call pays when it leaves. *)
\* FAULTY VARIANT: a call that recorded no usage is free.
FinalCost_Actual(c) == IF usage[c] = -1 THEN 0 ELSE usage[c]

FinalCost(c) == IF usage[c] = -1 THEN Worst(lane[c]) ELSE usage[c]

Charged(c) == cost' = cost + FinalCost(c)

(* _finalize: the body of the reservation ended, by an answer, a rejected  *)
(* or unreadable answer, a timeout, a cancellation or before it was sent.  *)
Finalize(c) ==
  /\ pc[c] \in InFlight
  /\ Charged(c)
  /\ Release(c)
  /\ Go(c, "done")
  /\ UNCHANGED <<attempts, lane, usage, money>>

Queue(c) == Reserve(c) \/ Refuse(c)

Next ==
  \E c \in Calls :
    \/ \E l \in Lanes : Arrive(c, l)
    \/ Queue(c) \/ Leave(c) \/ Send(c) \/ Record(c) \/ Finalize(c)

Spec == Init /\ [][Next]_vars

(* The event loop wakes the waiters of a free semaphore, and the provider  *)
(* timeout ends every reservation's body.  No call has to arrive.          *)
FairSpec == Spec /\ \A c \in Calls : WF_vars(Queue(c)) /\ WF_vars(Finalize(c))

-----------------------------------------------------------------------------
(* What the call in flight can still cost. *)
Outstanding ==
  IF holder = Nobody THEN 0
  ELSE IF usage[holder] = -1 THEN Worst(lane[holder]) ELSE usage[holder]

(* The provider is never asked by two calls at once, and the semaphore is  *)
(* held exactly by the call that is between its reservation and its        *)
(* payment: no exit leaks it.                                              *)
OneInFlight ==
  \A c \in Calls : pc[c] \in InFlight <=> holder = c

(* Attempts stay within each lane's cap and the combined one.              *)
WithinCaps ==
  /\ \A l \in Lanes : attempts[l] =< Cap(l)
  /\ attempts["CLASSIFIER"] + attempts["GENERATOR"] =< CombinedCap

(* The ledger accounts for whatever the provider charged, answered or not: *)
(* the real bill is never more than the cost and what is outstanding, and  *)
(* those never exceed the cost cap.                                        *)
BillIsCovered ==
  /\ billed =< cost + Outstanding
  /\ cost + Outstanding =< CostCap

(* Every call that was let through used one attempt of its lane, refused   *)
(* or impatient ones none, and none is given back.                         *)
AttemptPerCall ==
  \A l \in Lanes :
    attempts[l] = Cardinality({c \in Calls : lane[c] = l /\ pc[c] \in InFlight \cup {"done"}})

(* A lane that the caps refuse stays refused: nothing a call in flight     *)
(* does, not even a cheap answer or a failure, reopens it.                 *)
LaneStaysClosed ==
  [][\A l \in Lanes : ~Admits(l) => ~Admits(l)']_vars

(* Every call that waits is let through and pays, is refused or has left.  *)
EveryCallEnds ==
  \A c \in Calls : pc[c] = "waiting" ~> pc[c] \in Ended
=============================================================================
