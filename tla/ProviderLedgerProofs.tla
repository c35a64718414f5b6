------------------------ MODULE ProviderLedgerProofs ------------------------
(***************************************************************************)
(* Theorems about ProviderLedger for every finite set of calls, all caps   *)
(* and all prices.                                                         *)
(***************************************************************************)
EXTENDS ProviderLedger, FiniteSetTheorems, TLAPS

(* A call that has left or never arrived recorded nothing it did not pay;  *)
(* what the call in flight recorded is what it owes.                       *)
Owed ==
  \A c \in Calls :
    /\ pc[c] \in {"idle", "waiting", "reserved"} => usage[c] = -1
    /\ pc[c] = "reserved" => billed =< cost
    /\ pc[c] = "sent" => /\ due =< Worst(lane[c])
                         /\ billed =< cost + due
                         /\ usage[c] # -1 => usage[c] = due

(* Whoever holds nothing owes nothing.                                     *)
Settled == holder = Nobody => billed =< cost

Accounts == OneInFlight /\ WithinCaps /\ BillIsCovered /\ Owed /\ Settled

-----------------------------------------------------------------------------
(* Caps and prices are positive numbers.                                   *)
LEMMA Amounts == \A l \in Lanes : Cap(l) \in Nat /\ Worst(l) \in Nat /\ Worst(l) > 0
BY LedgerAssumption DEF Lanes, Cap, Worst

(* The initial state has its types.                                        *)
LEMMA TypeInit == Init => TypeOK
BY Amounts, LedgerAssumption DEF Init, TypeOK, Steps, Lanes

(* Every step keeps the types, when what is recorded is what is owed.      *)
LEMMA TypeStep == TypeOK /\ Owed /\ [Next]_vars => TypeOK'
<1> SUFFICES ASSUME TypeOK, Owed, [Next]_vars PROVE TypeOK'
  OBVIOUS
<1> USE Amounts, LedgerAssumption DEF TypeOK, Go, money, Steps
<1>1. ASSUME NEW c \in Calls, NEW l \in Lanes, Arrive(c, l) PROVE TypeOK'
  BY <1>1 DEF Arrive, Owed
<1>2. ASSUME NEW c \in Calls, Reserve(c) PROVE TypeOK'
  BY <1>2 DEF Reserve, Counted
<1>3. ASSUME NEW c \in Calls, Refuse(c) PROVE TypeOK'
  BY <1>3 DEF Refuse, Release
<1>4. ASSUME NEW c \in Calls, Leave(c) PROVE TypeOK'
  BY <1>4 DEF Leave
<1>5. ASSUME NEW c \in Calls, Send(c) PROVE TypeOK'
  BY <1>5 DEF Send
<1>6. ASSUME NEW c \in Calls, Record(c) PROVE TypeOK'
  BY <1>6 DEF Record, Owed
<1>7. ASSUME NEW c \in Calls, Finalize(c) PROVE TypeOK'
  BY <1>7 DEF Finalize, Charged, FinalCost, Release
<1>8. CASE UNCHANGED vars
  BY <1>8 DEF vars
<1> QED
  BY <1>1, <1>2, <1>3, <1>4, <1>5, <1>6, <1>7, <1>8 DEF Next, Queue

(* At first nothing is used, held or owed.                                 *)
LEMMA AccountsInit == Init => Accounts
BY Amounts, LedgerAssumption
   DEF Init, Accounts, OneInFlight, InFlight, WithinCaps, BillIsCovered, Outstanding,
       Owed, Settled, Lanes

(* Every step keeps the accounts.                                          *)
LEMMA AccountsStep == TypeOK /\ Accounts /\ [Next]_vars => Accounts'
<1> SUFFICES ASSUME TypeOK, Accounts, [Next]_vars PROVE Accounts'
  OBVIOUS
<1> USE Amounts, LedgerAssumption DEF TypeOK, Go, money, Accounts
<1>1. ASSUME NEW c \in Calls,
             \/ \E l \in Lanes : Arrive(c, l)
             \/ Refuse(c) \/ Leave(c)
      PROVE  Accounts'
  <2>1. /\ UNCHANGED <<attempts, cost, holder, usage, money>>
        /\ \A d \in Calls : d # c => pc'[d] = pc[d] /\ lane'[d] = lane[d]
        /\ pc[c] \in {"idle", "waiting"}
        /\ pc'[c] \in {"waiting", "refused", "gone"}
    BY <1>1 DEF Arrive, Refuse, Leave, Release
  <2>2. holder # c
    BY <2>1 DEF OneInFlight, InFlight
  <2>3. OneInFlight' /\ WithinCaps'
    BY <2>1 DEF OneInFlight, InFlight, WithinCaps
  <2>4. BillIsCovered'
    BY <2>1, <2>2 DEF BillIsCovered, Outstanding
  <2>5. Owed' /\ Settled'
    BY <2>1 DEF Owed, Settled
  <2> QED
    BY <2>3, <2>4, <2>5
<1>2. ASSUME NEW c \in Calls, Reserve(c)
      PROVE  Accounts'
  <2>1. OneInFlight'
    BY <1>2 DEF Reserve, OneInFlight, InFlight
  <2>2. WithinCaps'
    BY <1>2 DEF Reserve, Admits, Counted, WithinCaps, Lanes
  <2>3. BillIsCovered'
    BY <1>2 DEF Reserve, Admits, Affordable, BillIsCovered, Outstanding, Owed, Settled
  <2>4. Owed' /\ Settled'
    BY <1>2 DEF Reserve, Owed, Settled, OneInFlight, InFlight
  <2> QED
    BY <2>1, <2>2, <2>3, <2>4
<1>3. ASSUME NEW c \in Calls, Send(c)
      PROVE  Accounts'
  <2>1. holder = c
    BY <1>3 DEF Send, OneInFlight, InFlight
  <2>2. OneInFlight' /\ WithinCaps'
    BY <1>3 DEF Send, OneInFlight, InFlight, WithinCaps
  <2>3. PICK b \in 0 .. Worst(lane[c]) : due' = b /\ billed' = billed + b
    BY <1>3 DEF Send
  <2>4. BillIsCovered'
    BY <1>3, <2>1, <2>3 DEF Send, BillIsCovered, Outstanding, Owed
  <2>5. Owed' /\ Settled'
    BY <1>3, <2>1, <2>3 DEF Send, Owed, Settled, OneInFlight, InFlight
  <2> QED
    BY <2>2, <2>4, <2>5
<1>4. ASSUME NEW c \in Calls, Record(c)
      PROVE  Accounts'
  <2>1. holder = c
    BY <1>4 DEF Record, OneInFlight, InFlight
  <2>2. OneInFlight' /\ WithinCaps'
    BY <1>4 DEF Record, OneInFlight, WithinCaps
  <2>3. BillIsCovered'
    BY <1>4, <2>1 DEF Record, BillIsCovered, Outstanding, Owed
  <2>4. Owed' /\ Settled'
    BY <1>4, <2>1 DEF Record, Owed, Settled, OneInFlight, InFlight
  <2> QED
    BY <2>2, <2>3, <2>4
<1>5. ASSUME NEW c \in Calls, Finalize(c)
      PROVE  Accounts'
  <2>1. holder = c /\ holder' = Nobody
    BY <1>5 DEF Finalize, OneInFlight, Release
  <2>2. OneInFlight' /\ WithinCaps'
    BY <1>5, <2>1 DEF Finalize, OneInFlight, InFlight, WithinCaps
  <2>3. cost' = cost + FinalCost(c) /\ billed' = billed
    BY <1>5 DEF Finalize, Charged
  <2>4. billed =< cost + FinalCost(c)
    BY <1>5 DEF Finalize, InFlight, FinalCost, Owed
  <2>5. cost + FinalCost(c) =< CostCap
    BY <2>1 DEF FinalCost, BillIsCovered, Outstanding
  <2>6. BillIsCovered' /\ Settled'
    BY <2>1, <2>3, <2>4, <2>5 DEF BillIsCovered, Settled, Outstanding, FinalCost
  <2>7. Owed'
    BY <1>5, <2>1 DEF Finalize, Owed, OneInFlight, InFlight
  <2> QED
    BY <2>2, <2>6, <2>7
<1>6. CASE UNCHANGED vars
  BY <1>6 DEF vars, OneInFlight, WithinCaps, BillIsCovered, Outstanding, Owed, Settled
<1> QED
  BY <1>1, <1>2, <1>3, <1>4, <1>5, <1>6 DEF Next, Queue

LEMMA AlwaysAccounts == Spec => [](TypeOK /\ Accounts)
<1>1. Init => TypeOK /\ Accounts
  BY TypeInit, AccountsInit
<1>2. (TypeOK /\ Accounts) /\ [Next]_vars => (TypeOK /\ Accounts)'
  BY TypeStep, AccountsStep DEF Accounts
<1> QED
  BY <1>1, <1>2, PTL DEF Spec

(* Every counter is a number, and no call records more than its worst case. *)
THEOREM TypeCorrect == Spec => []TypeOK
BY AlwaysAccounts, PTL

(* One call at a time is with the provider, and the semaphore never leaks. *)
THEOREM OneAtATime == Spec => []OneInFlight
<1>1. Accounts => OneInFlight
  BY DEF Accounts
<1> QED
  BY <1>1, AlwaysAccounts, PTL

(* No cap on attempts is ever passed.                                      *)
THEOREM CapsHold == Spec => []WithinCaps
<1>1. Accounts => WithinCaps
  BY DEF Accounts
<1> QED
  BY <1>1, AlwaysAccounts, PTL

(* The provider's bill is covered by the ledger and within the cost cap,   *)
(* whatever is lost, late or cancelled.                                    *)
THEOREM BillCovered == Spec => []BillIsCovered
<1>1. Accounts => BillIsCovered
  BY DEF Accounts
<1> QED
  BY <1>1, AlwaysAccounts, PTL

(* A closed lane stays closed: attempts and cost only grow.                *)
THEOREM ClosedForGood == Spec => LaneStaysClosed
<1> DEFINE Step == \A l \in Lanes : ~Admits(l) => ~Admits(l)'
<1>1. ASSUME TypeOK, [Next]_vars PROVE [Step]_vars
  <2> DEFINE Grows ==
        /\ cost' >= cost /\ cost' \in Int
        /\ \A l \in Lanes : attempts'[l] >= attempts[l] /\ attempts'[l] \in Int
  <2>1. ASSUME NEW c \in Calls, Reserve(c) PROVE Grows
    BY <1>1, <2>1 DEF Reserve, Counted, TypeOK
  <2>2. ASSUME NEW c \in Calls, Finalize(c) PROVE Grows
    BY <1>1, <2>2, Amounts DEF Finalize, Charged, FinalCost, TypeOK
  <2>3. UNCHANGED <<attempts, cost>> => Grows
    BY <1>1 DEF TypeOK
  <2>4. Grows
    BY <1>1, <2>1, <2>2, <2>3
       DEF Next, Queue, Arrive, Refuse, Leave, Send, Record, vars
  <2> QED
    BY <2>4, <1>1, Amounts, LedgerAssumption DEF Admits, Affordable, TypeOK, Lanes
<1> QED
  BY <1>1, AlwaysAccounts, PTL DEF Spec, LaneStaysClosed


-----------------------------------------------------------------------------
(* The calls of a lane that were let through. *)
LetThrough(l) == {c \in Calls : lane[c] = l /\ pc[c] \in InFlight \cup {"done"}}

LEMMA PerCallInit == Init => AttemptPerCall
<1> SUFFICES ASSUME Init, NEW l \in Lanes PROVE attempts[l] = Cardinality(LetThrough(l))
  BY DEF AttemptPerCall, LetThrough
<1>1. LetThrough(l) = {}
  BY DEF Init, LetThrough, InFlight
<1> QED
  BY <1>1, FS_EmptySet DEF Init

(* Only a reservation lets a call through, and no call is let through twice. *)
LEMMA PerCallStep == TypeOK /\ AttemptPerCall /\ [Next]_vars => AttemptPerCall'
<1> SUFFICES ASSUME TypeOK, AttemptPerCall, [Next]_vars, NEW l \in Lanes
             PROVE  attempts'[l] = Cardinality(LetThrough(l)')
  BY DEF AttemptPerCall, LetThrough
<1>1. attempts[l] = Cardinality(LetThrough(l))
  BY DEF AttemptPerCall, LetThrough
<1>2. IsFiniteSet(LetThrough(l)) /\ Cardinality(LetThrough(l)) \in Nat
  BY LedgerAssumption, FS_Subset, FS_CardinalityType DEF LetThrough
<1>3. ASSUME attempts'[l] = attempts[l], LetThrough(l)' = LetThrough(l)
      PROVE  attempts'[l] = Cardinality(LetThrough(l)')
  BY <1>1, <1>3
<1>4. ASSUME NEW c \in Calls,
             \/ \E k \in Lanes : Arrive(c, k)
             \/ Refuse(c) \/ Leave(c) \/ Send(c) \/ Record(c) \/ Finalize(c)
      PROVE  attempts'[l] = Cardinality(LetThrough(l)')
  <2>1. /\ attempts' = attempts
        /\ \A d \in Calls : d # c => pc'[d] = pc[d] /\ lane'[d] = lane[d]
    BY <1>4 DEF TypeOK, Arrive, Refuse, Leave, Send, Record, Finalize, Go
  <2>2. \/ /\ pc[c] \in {"idle", "waiting"}
           /\ pc'[c] \in {"waiting", "refused", "gone"}
        \/ /\ lane'[c] = lane[c] /\ pc[c] \in InFlight
           /\ pc'[c] \in InFlight \cup {"done"}
    BY <1>4 DEF TypeOK, Arrive, Refuse, Leave, Send, Record, Finalize, Go, InFlight
  <2>3. LetThrough(l)' = LetThrough(l)
    BY <2>1, <2>2 DEF LetThrough, InFlight
  <2> QED
    BY <1>3, <2>1, <2>3
<1>5. ASSUME NEW c \in Calls, Reserve(c)
      PROVE  attempts'[l] = Cardinality(LetThrough(l)')
  <2>1. CASE lane[c] = l
    <3>1. c \notin LetThrough(l)
      BY <1>5 DEF LetThrough, Reserve, InFlight
    <3>2. LetThrough(l)' = LetThrough(l) \cup {c}
      BY <1>5, <2>1 DEF LetThrough, Reserve, Go, InFlight, TypeOK
    <3>3. Cardinality(LetThrough(l)') = Cardinality(LetThrough(l)) + 1
      BY <1>2, <3>1, <3>2, FS_AddElement
    <3>4. attempts'[l] = attempts[l] + 1
      BY <1>5, <2>1 DEF Reserve, Counted, TypeOK
    <3> QED
      BY <1>1, <3>3, <3>4
  <2>2. CASE lane[c] # l
    <3>1. LetThrough(l)' = LetThrough(l)
      BY <1>5, <2>2 DEF LetThrough, Reserve, Go, TypeOK
    <3>2. attempts'[l] = attempts[l]
      BY <1>5, <2>2 DEF Reserve, Counted, TypeOK
    <3> QED
      BY <1>3, <3>1, <3>2
  <2> QED
    BY <2>1, <2>2
<1>6. CASE UNCHANGED vars
  <2>1. attempts'[l] = attempts[l] /\ LetThrough(l)' = LetThrough(l)
    BY <1>6 DEF vars, LetThrough
  <2> QED
    BY <1>3, <2>1
<1> QED
  BY <1>4, <1>5, <1>6 DEF Next, Queue

(* The attempts of a lane are the calls it let through: none is lost and   *)
(* none is counted twice, however calls end.                               *)
THEOREM OneAttemptEach == Spec => []AttemptPerCall
<1>1. TypeOK /\ AttemptPerCall /\ [Next]_vars => AttemptPerCall'
  BY PerCallStep
<1> QED
  BY PerCallInit, <1>1, TypeCorrect, PTL DEF Spec
=============================================================================
