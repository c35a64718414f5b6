------------------------- MODULE LocalRuntimeProofs -------------------------
(***************************************************************************)
(* Proofs about LocalRuntime, for any number of requests and of parts.     *)
(*                                                                         *)
(* Lifecycle ties the phase of the process to its latch and its purge      *)
(* task, Connected its users to the pool, Inherited the phase to the text  *)
(* the process inherited; Checked says what a check in flight has seen so  *)
(* far.  Together with the types they are inductive, and every safety      *)
(* property of the runs follows from them.                                 *)
(***************************************************************************)
EXTENDS LocalRuntime, TLAPS

Starting == phase \in {"opening", "purging", "probing"}

Ending == phase \in {"draining", "releasing", "closing", "disabling", "stopped"}

(* What start-up, failures and shutdown keep true. *)
Lifecycle ==
  /\ Starting => enabled /\ worker = "none"
  /\ Starting => \A r \in Requests : pc[r] = "idle"
  /\ broken => ~enabled
  /\ phase = "serving" /\ enabled => worker \in {"sleeping", "purging"}
  /\ Ending /\ phase # "draining" => worker \in {"none", "ended"}
  /\ Ending => \A r \in Requests : pc[r] \notin InFlight

(* Who needs the pool, and that it is open then. *)
Connected ==
  /\ phase \in {"purging", "probing"} => pool
  /\ phase = "serving" /\ enabled => pool
  /\ worker \in {"sleeping", "purging"} => pool
  /\ pc[Startup] \in InFlight => phase = "probing"
  /\ \A r \in Requests : pc[r] \in InFlight => pool

(* What is left of the text that was overdue when the process started. *)
Inherited ==
  /\ phase = "purging" => \A j \in 1 .. Last : j < at => Purge[j] \notin inherited
  /\ phase = "probing" => inherited = {}
  /\ phase = "serving" /\ enabled => inherited = {}
  /\ \A r \in Requests : pc[r] \notin {"idle", "refused"} => inherited = {}

(* What a check has read so far was exact since it began. *)
Checked ==
  \A r \in Probers :
    /\ pc[r] = "checking" =>
         /\ stale[r] \cap exact = {}
         /\ done[r] < Parts
         /\ \A p \in 1 .. done[r] : p \notin stale[r]
    /\ r \in Requests /\ pc[r] \in {"serving", "answered"} => stale[r] = {}

Inv == TypeOK /\ Lifecycle /\ Connected /\ Inherited /\ Checked /\ FailureCloses

-----------------------------------------------------------------------------
(* The purges of a round visit every table.                                *)
LEMMA PurgeFacts ==
  /\ Last \in Nat /\ Last > 1
  /\ \A i \in 1 .. Last : Purge[i] \in Tables
  /\ \A t \in Tables : \E i \in 1 .. Last : t = Purge[i]
BY DEF Tables, Last

(* The types and the invariant hold at the start. *)
LEMMA InvInit == Init => Inv
<1> SUFFICES ASSUME Init PROVE Inv
  OBVIOUS
<1> USE RuntimeAssumption, PurgeFacts DEF Init
<1>1. TypeOK
  <2>1. /\ pool \in BOOLEAN /\ enabled \in BOOLEAN
        /\ ready \in BOOLEAN /\ broken \in BOOLEAN
    OBVIOUS
  <2>2. stale \in [Probers -> SUBSET (1 .. Parts)]
    OBVIOUS
  <2>3. pc \in [Probers -> {"idle", "answered", "refused"} \cup InFlight]
    OBVIOUS
  <2>4. done \in [Probers -> 0 .. Parts]
    OBVIOUS
  <2> QED BY <2>1, <2>2, <2>3, <2>4 DEF TypeOK, Phases
<1>2. Lifecycle BY DEF Lifecycle, Starting, Ending, Probers
<1>6. Connected BY DEF Connected, InFlight, Probers
<1>3. Inherited BY DEF Inherited, Probers
<1>4. Checked BY DEF Checked, Probers
<1>5. FailureCloses BY DEF FailureCloses
<1> QED BY <1>1, <1>2, <1>3, <1>4, <1>5, <1>6 DEF Inv

(* Every step keeps the types. *)
LEMMA TypeStep == Inv /\ [Next]_vars => TypeOK'
<1> SUFFICES ASSUME Inv, [Next]_vars PROVE TypeOK'
  OBVIOUS
<1> USE RuntimeAssumption, PurgeFacts
<1> USE DEF Inv, TypeOK, Phases, InFlight, Probers, probe, checks, janitor, text
<1>1. CASE World
  <2>1. ASSUME NEW t \in Tables, Expire(t) PROVE TypeOK'
    BY <2>1 DEF Expire
  <2>2. ASSUME NEW parts \in SUBSET (1 .. Parts), Change(parts) PROVE TypeOK'
    <3>1. stale' \in [Probers -> SUBSET (1 .. Parts)]
      BY <2>2 DEF Change
    <3> QED BY <2>2, <3>1 DEF Change
  <2> QED BY <1>1, <2>1, <2>2 DEF World
<1>2. CASE Open BY <1>2 DEF Open
<1>3. CASE OpenFails BY <1>3 DEF OpenFails, Disable
<1>4. CASE StartupPurge BY <1>4 DEF StartupPurge, Purges, Begin, EndsRound
<1>5. CASE StartupPurgeFails BY <1>5 DEF StartupPurgeFails, Fails, Purges, Disable
<1>6. CASE StartupEnds BY <1>6 DEF StartupEnds
<1>7. CASE Drained \/ CloseClients \/ ClosePool \/ Stop
  BY <1>7 DEF Drained, CloseClients, ClosePool, Stop
<1>8. CASE Shutdown BY <1>8 DEF Shutdown
<1>9. CASE Wake BY <1>9 DEF Wake
<1>10. CASE WorkerPurge BY <1>10 DEF WorkerPurge, Purges, EndsRound
<1>11. CASE WorkerPurgeFails BY <1>11 DEF WorkerPurgeFails, Fails, Purges, Disable
<1>12. CASE WorkerStops BY <1>12 DEF WorkerStops
<1>13. ASSUME NEW r \in Probers, Checks(r) PROVE TypeOK'
  <2>1. CASE Read(r)
    <3>1. done' \in [Probers -> 0 .. Parts]
      BY <2>1 DEF Read
    <3>2. pc' \in [Probers -> {"idle", "answered", "refused"} \cup InFlight]
      BY <2>1 DEF Read
    <3>3. ready' \in BOOLEAN
      BY <2>1 DEF Read
    <3> QED BY <2>1, <3>1, <3>2, <3>3 DEF Read
  <2>2. CASE ReadFails(r) BY <2>2 DEF ReadFails
  <2> QED BY <1>13, <2>1, <2>2 DEF Checks
<1>14. ASSUME NEW r \in Requests, Arrive(r) PROVE TypeOK'
  BY <1>14 DEF Arrive, Begin
<1>15. ASSUME NEW r \in Requests, Serve(r) PROVE TypeOK'
  BY <1>15 DEF Serve
<1>16. ASSUME NEW r \in Requests, ServeFails(r) PROVE TypeOK'
  BY <1>16 DEF ServeFails
<1>17. CASE UNCHANGED vars BY <1>17 DEF vars
<1> QED
  BY <1>1, <1>2, <1>3, <1>4, <1>5, <1>6, <1>7, <1>8, <1>9, <1>10, <1>11, <1>12,
     <1>13, <1>14, <1>15, <1>16, <1>17 DEF Next, Lifespan, Janitor

-----------------------------------------------------------------------------
(* Every step keeps what start-up, failures and shutdown guarantee.        *)
LEMMA LifecycleStep == Inv /\ [Next]_vars => Lifecycle'
<1> SUFFICES ASSUME Inv, [Next]_vars PROVE Lifecycle'
  OBVIOUS
<1> USE RuntimeAssumption, PurgeFacts
<1> USE DEF Inv, Lifecycle, Starting, Ending, TypeOK, Phases, InFlight, Probers, probe, checks, janitor, text
<1>1. CASE World BY <1>1 DEF World, Expire, Change
<1>2. CASE Open BY <1>2 DEF Open
<1>3. CASE OpenFails BY <1>3 DEF OpenFails, Disable
<1>4. CASE StartupPurge BY <1>4 DEF StartupPurge, Begin
<1>5. CASE StartupPurgeFails BY <1>5 DEF StartupPurgeFails, Disable
<1>6. CASE StartupEnds BY <1>6 DEF StartupEnds
<1>7. CASE Drained \/ CloseClients \/ ClosePool \/ Stop
  BY <1>7 DEF Drained, CloseClients, ClosePool, Stop, Awaited
<1>8. CASE Shutdown BY <1>8 DEF Shutdown
<1>9. CASE Wake BY <1>9 DEF Wake
<1>10. CASE WorkerPurge BY <1>10 DEF WorkerPurge
<1>11. CASE WorkerPurgeFails BY <1>11 DEF WorkerPurgeFails, Disable
<1>12. CASE WorkerStops BY <1>12 DEF WorkerStops
<1>13. ASSUME NEW r \in Probers, Checks(r) PROVE Lifecycle'
  BY <1>13 DEF Checks, Read, ReadFails
<1>14. ASSUME NEW r \in Requests, Arrive(r) PROVE Lifecycle'
  BY <1>14 DEF Arrive, Begin
<1>15. ASSUME NEW r \in Requests, Serve(r) PROVE Lifecycle'
  BY <1>15 DEF Serve
<1>16. ASSUME NEW r \in Requests, ServeFails(r) PROVE Lifecycle'
  BY <1>16 DEF ServeFails
<1>17. CASE UNCHANGED vars BY <1>17 DEF vars
<1> QED
  BY <1>1, <1>2, <1>3, <1>4, <1>5, <1>6, <1>7, <1>8, <1>9, <1>10, <1>11, <1>12,
     <1>13, <1>14, <1>15, <1>16, <1>17 DEF Next, Lifespan, Janitor

(* Every step keeps the pool open for whoever may use it.                  *)
LEMMA ConnectedStep == Inv /\ [Next]_vars => Connected'
<1> SUFFICES ASSUME Inv, [Next]_vars PROVE Connected'
  OBVIOUS
<1> USE RuntimeAssumption, PurgeFacts
<1> USE DEF Inv, Lifecycle, Connected, Ending, TypeOK, InFlight, Probers, probe, checks, janitor, text
<1>1. CASE World BY <1>1 DEF World, Expire, Change
<1>2. CASE Open BY <1>2 DEF Open
<1>3. CASE OpenFails BY <1>3 DEF OpenFails, Disable
<1>4. CASE StartupPurge BY <1>4 DEF StartupPurge, Begin
<1>5. CASE StartupPurgeFails BY <1>5 DEF StartupPurgeFails, Disable
<1>6. CASE StartupEnds BY <1>6 DEF StartupEnds
<1>7. CASE Drained \/ CloseClients \/ ClosePool \/ Stop
  BY <1>7 DEF Drained, CloseClients, ClosePool, Stop, Awaited
<1>8. CASE Shutdown BY <1>8 DEF Shutdown
<1>9. CASE Wake BY <1>9 DEF Wake
<1>10. CASE WorkerPurge BY <1>10 DEF WorkerPurge
<1>11. CASE WorkerPurgeFails BY <1>11 DEF WorkerPurgeFails, Disable
<1>12. CASE WorkerStops BY <1>12 DEF WorkerStops
<1>13. ASSUME NEW r \in Probers, Checks(r) PROVE Connected'
  BY <1>13 DEF Checks, Read, ReadFails
<1>14. ASSUME NEW r \in Requests, Arrive(r) PROVE Connected'
  BY <1>14 DEF Arrive, Begin
<1>15. ASSUME NEW r \in Requests, Serve(r) PROVE Connected'
  BY <1>15 DEF Serve
<1>16. ASSUME NEW r \in Requests, ServeFails(r) PROVE Connected'
  BY <1>16 DEF ServeFails
<1>17. CASE UNCHANGED vars BY <1>17 DEF vars
<1> QED
  BY <1>1, <1>2, <1>3, <1>4, <1>5, <1>6, <1>7, <1>8, <1>9, <1>10, <1>11, <1>12,
     <1>13, <1>14, <1>15, <1>16, <1>17 DEF Next, Lifespan, Janitor

(* A round of purges leaves nothing of what the process inherited, and     *)
(* later steps add nothing to it.                                          *)
LEMMA InheritedStep == Inv /\ [Next]_vars => Inherited'
<1> SUFFICES ASSUME Inv, [Next]_vars PROVE Inherited'
  OBVIOUS
<1> USE RuntimeAssumption, PurgeFacts
<1> USE DEF Inv, Inherited, TypeOK, Probers, probe, checks, janitor, text
<1>1. CASE World BY <1>1 DEF World, Expire, Change
<1>2. CASE Open BY <1>2 DEF Open
<1>3. CASE OpenFails BY <1>3 DEF OpenFails, Disable
<1>4. CASE StartupPurge
  <2>1. inherited' \subseteq inherited
    BY <1>4 DEF StartupPurge, Purges
  <2>2. CASE EndsRound
    BY <1>4, <2>2 DEF StartupPurge, Purges, EndsRound, Begin, Lifecycle, Starting
  <2>3. CASE ~EndsRound
    BY <1>4, <2>1, <2>3 DEF StartupPurge, Purges, EndsRound, Lifecycle, Starting
  <2> QED BY <2>2, <2>3
<1>5. CASE StartupPurgeFails BY <1>5 DEF StartupPurgeFails, Disable, Fails, Purges, Lifecycle, Starting
<1>6. CASE StartupEnds BY <1>6 DEF StartupEnds
<1>7. CASE Drained \/ CloseClients \/ ClosePool \/ Stop
  BY <1>7 DEF Drained, CloseClients, ClosePool, Stop
<1>8. CASE Shutdown BY <1>8 DEF Shutdown
<1>9. CASE Wake BY <1>9 DEF Wake, Lifecycle, Starting
<1>10. CASE WorkerPurge BY <1>10 DEF WorkerPurge, Purges, Lifecycle, Starting
<1>11. CASE WorkerPurgeFails BY <1>11 DEF WorkerPurgeFails, Disable, Fails, Purges, Lifecycle, Starting
<1>12. CASE WorkerStops BY <1>12 DEF WorkerStops
<1>13. ASSUME NEW r \in Probers, Checks(r) PROVE Inherited'
  <2>1. \A q \in Requests : pc'[q] \notin {"idle", "refused"} => pc[q] \notin {"idle", "refused"}
    BY <1>13 DEF Checks, Read, ReadFails
  <2> QED BY <1>13, <2>1 DEF Checks, Read, ReadFails
<1>14. ASSUME NEW r \in Requests, Arrive(r) PROVE Inherited'
  BY <1>14 DEF Arrive, Begin
<1>15. ASSUME NEW r \in Requests, Serve(r) PROVE Inherited'
  BY <1>15 DEF Serve
<1>16. ASSUME NEW r \in Requests, ServeFails(r) PROVE Inherited'
  BY <1>16 DEF ServeFails
<1>17. CASE UNCHANGED vars BY <1>17 DEF vars
<1> QED
  BY <1>1, <1>2, <1>3, <1>4, <1>5, <1>6, <1>7, <1>8, <1>9, <1>10, <1>11, <1>12,
     <1>13, <1>14, <1>15, <1>16, <1>17 DEF Next, Lifespan, Janitor

-----------------------------------------------------------------------------
(* A step that moves no prober and reads nothing keeps what was checked.   *)
LEMMA QuietChecks ==
  ASSUME Inv, UNCHANGED <<pc, done, stale, exact>>
  PROVE  Checked'
BY DEF Inv, Checked

(* Every step keeps what the checks have seen.                             *)
LEMMA CheckedStep == Inv /\ [Next]_vars => Checked'
<1> SUFFICES ASSUME Inv, [Next]_vars PROVE Checked'
  OBVIOUS
<1> USE RuntimeAssumption
<1> USE DEF Inv, TypeOK, Probers, probe, checks, janitor, text
<1>1. CASE World
  <2>1. ASSUME NEW t \in Tables, Expire(t) PROVE Checked'
    BY <2>1, QuietChecks DEF Expire
  <2>2. ASSUME NEW parts \in SUBSET (1 .. Parts), Change(parts) PROVE Checked'
    BY <2>2 DEF Change, Checked
  <2> QED BY <1>1, <2>1, <2>2 DEF World
<1>2. CASE Open BY <1>2, QuietChecks DEF Open
<1>3. CASE OpenFails BY <1>3, QuietChecks DEF OpenFails
<1>4. CASE StartupPurge
  <2>1. CASE EndsRound BY <1>4, <2>1 DEF StartupPurge, Begin, Checked
  <2>2. CASE ~EndsRound BY <1>4, <2>2, QuietChecks DEF StartupPurge
  <2> QED BY <2>1, <2>2
<1>5. CASE StartupPurgeFails BY <1>5, QuietChecks DEF StartupPurgeFails
<1>6. CASE StartupEnds BY <1>6, QuietChecks DEF StartupEnds
<1>7. CASE Drained \/ CloseClients \/ ClosePool \/ Stop
  BY <1>7, QuietChecks DEF Drained, CloseClients, ClosePool, Stop
<1>8. CASE Shutdown BY <1>8, QuietChecks DEF Shutdown
<1>9. CASE Wake BY <1>9, QuietChecks DEF Wake
<1>10. CASE WorkerPurge BY <1>10, QuietChecks DEF WorkerPurge
<1>11. CASE WorkerPurgeFails BY <1>11, QuietChecks DEF WorkerPurgeFails
<1>12. CASE WorkerStops BY <1>12, QuietChecks DEF WorkerStops
<1>13. ASSUME NEW r \in Probers, Checks(r) PROVE Checked'
  <2>1. CASE Read(r)
    <3>1. CASE done[r] + 1 = Parts
      BY <2>1, <3>1 DEF Read, Checked
    <3>2. CASE done[r] + 1 # Parts
      BY <2>1, <3>2 DEF Read, Checked
    <3> QED BY <3>1, <3>2
  <2>2. CASE ReadFails(r) BY <2>2 DEF ReadFails, Checked
  <2> QED BY <1>13, <2>1, <2>2 DEF Checks
<1>14. ASSUME NEW r \in Requests, Arrive(r) PROVE Checked'
  <2>1. CASE enabled BY <1>14, <2>1 DEF Arrive, Begin, Checked
  <2>2. CASE ~enabled BY <1>14, <2>2 DEF Arrive, Checked
  <2> QED BY <2>1, <2>2
<1>15. ASSUME NEW r \in Requests, Serve(r) PROVE Checked'
  BY <1>15 DEF Serve, Checked
<1>16. ASSUME NEW r \in Requests, ServeFails(r) PROVE Checked'
  BY <1>16 DEF ServeFails, Checked
<1>17. CASE UNCHANGED vars BY <1>17, QuietChecks DEF vars
<1> QED
  BY <1>1, <1>2, <1>3, <1>4, <1>5, <1>6, <1>7, <1>8, <1>9, <1>10, <1>11, <1>12,
     <1>13, <1>14, <1>15, <1>16, <1>17 DEF Next, Lifespan, Janitor

-----------------------------------------------------------------------------
(* Whoever arrives after a failure is refused, and stays so.               *)
LEMMA ClosedStep == Inv /\ [Next]_vars => FailureCloses'
<1> SUFFICES ASSUME Inv, [Next]_vars PROVE FailureCloses'
  OBVIOUS
<1> USE RuntimeAssumption
<1> USE DEF Inv, TypeOK, FailureCloses, Probers, probe, checks, janitor, text
<1>1. CASE World BY <1>1 DEF World, Expire, Change
<1>2. CASE Open \/ OpenFails BY <1>2 DEF Open, OpenFails
<1>3. CASE StartupPurge \/ StartupPurgeFails \/ StartupEnds
  BY <1>3 DEF StartupPurge, StartupPurgeFails, StartupEnds, Begin
<1>4. CASE Drained \/ CloseClients \/ ClosePool \/ Stop \/ Shutdown
  BY <1>4 DEF Drained, CloseClients, ClosePool, Stop, Shutdown
<1>5. CASE Janitor BY <1>5 DEF Janitor, Wake, WorkerPurge, WorkerPurgeFails, WorkerStops
<1>6. ASSUME NEW r \in Probers, Checks(r) PROVE FailureCloses'
  BY <1>6 DEF Checks, Read, ReadFails
<1>7. ASSUME NEW r \in Requests, Arrive(r) PROVE FailureCloses'
  BY <1>7 DEF Arrive, Begin, Lifecycle
<1>8. ASSUME NEW r \in Requests, Serve(r) \/ ServeFails(r) PROVE FailureCloses'
  BY <1>8 DEF Serve, ServeFails
<1>9. CASE UNCHANGED vars BY <1>9 DEF vars
<1> QED
  BY <1>1, <1>2, <1>3, <1>4, <1>5, <1>6, <1>7, <1>8, <1>9 DEF Next, Lifespan

(* The invariant holds in every reachable state.                           *)
THEOREM Invariance == Spec => []Inv
<1>1. Inv /\ [Next]_vars => Inv'
  BY TypeStep, LifecycleStep, ConnectedStep, InheritedStep, CheckedStep, ClosedStep DEF Inv
<1> QED BY InvInit, <1>1, PTL DEF Spec

-----------------------------------------------------------------------------
(* Every variable keeps its type.                                          *)
THEOREM TypeCorrect == Spec => []TypeOK
<1>1. Inv => TypeOK BY DEF Inv
<1> QED BY Invariance, <1>1, PTL

(* Nobody is let through or answered on a check older than its arrival.    *)
THEOREM FreshChecks == Spec => []ServedOnFreshCheck
<1>1. Inv => ServedOnFreshCheck
  BY DEF Inv, Checked, ServedOnFreshCheck, Probers
<1> QED BY Invariance, <1>1, PTL

(* A process that serves has its probe open only while its purge task      *)
(* lives.                                                                  *)
THEOREM JanitorLives == Spec => []OpenOnlyWithJanitor
<1>1. Inv => OpenOnlyWithJanitor
  BY DEF Inv, Lifecycle, OpenOnlyWithJanitor
<1> QED BY Invariance, <1>1, PTL

(* After a failure nobody who arrives is let through.                      *)
THEOREM ClosedAfterFailure == Spec => []FailureCloses
<1>1. Inv => FailureCloses BY DEF Inv
<1> QED BY Invariance, <1>1, PTL

(* The text the process found overdue is gone before it answers anybody.   *)
THEOREM InheritedTextGone == Spec => []PurgedBeforeServing
<1>1. Inv => PurgedBeforeServing
  BY DEF Inv, Inherited, PurgedBeforeServing
<1> QED BY Invariance, <1>1, PTL

(* Every purge and every read of the projection finds the pool open.       *)
THEOREM PoolWhileUsed == Spec => []UsersHavePool
<1>1. Inv => UsersHavePool
  BY DEF Inv, Connected, UsersHavePool, Probers
<1> QED BY Invariance, <1>1, PTL
=============================================================================
