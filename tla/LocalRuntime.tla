----------------------------- MODULE LocalRuntime -----------------------------
(***************************************************************************)
(* The life of one local API process: start-up, the readiness probe that   *)
(* guards the chat and the office directory, the worker that purges        *)
(* private text, and shutdown.                                             *)
(*                                                                         *)
(* The approved projection of the database is a row of parts, read one     *)
(* statement at a time; each is as approved ("exact") or not, and the      *)
(* database changes between two reads.  A request is one guarded call: its *)
(* check is also all that GET /ready does.  A table is overdue while it    *)
(* holds text that is past its retention time.                             *)
(***************************************************************************)
EXTENDS Integers

CONSTANTS
  Requests, \* guarded calls
  Startup,  \* the refresh that ends start-up
  Parts     \* how many reads the projection takes

ASSUME RuntimeAssumption == Parts \in Nat \ {0} /\ Startup \notin Requests

(* _purge_expired_private_records: the purges, in their order. *)
Purge == <<"failed_question", "chat_idempotency", "civic_scope_gap", "citizen_feedback">>
Last == 4
Tables == {Purge[i] : i \in 1 .. Last}
Probers == Requests \cup {Startup}

VARIABLES
  phase,     \* of the lifespan
  pool,      \* the pool of database connections is open
  worker,    \* the periodic purge task
  at,        \* the purge a round of purges comes to next
  overdue,   \* the tables with text past its retention time
  inherited, \* those of them overdue since before the process started (history)
  enabled,   \* _enabled of the probe
  ready,     \* _ready of the probe
  exact,     \* the parts of the projection that are as approved
  pc,        \* where each prober is
  done,      \* how many parts each prober has read
  stale,     \* the parts not once exact since a prober began (history)
  broken,    \* a start-up step or a purge has failed (history)
  after      \* requests that arrived after that (history)

probe == <<enabled, ready>>
checks == <<pc, done, stale, after>>
janitor == <<worker, at>>
text == <<overdue, inherited>>
vars == <<phase, pool, janitor, text, probe, exact, checks, broken>>

(* Start-up, service, and the steps of the teardown. *)
Phases == {"opening", "purging", "probing", "serving",
           "draining", "releasing", "closing", "disabling", "stopped"}
InFlight == {"checking", "serving"}

(* Variables have their types. *)
TypeOK ==
  /\ phase \in Phases /\ pool \in BOOLEAN
  /\ worker \in {"none", "sleeping", "purging", "ended"}
  /\ at \in 1 .. Last
  /\ overdue \subseteq Tables /\ inherited \subseteq overdue
  /\ enabled \in BOOLEAN /\ ready \in BOOLEAN /\ broken \in BOOLEAN
  /\ exact \subseteq 1 .. Parts
  /\ pc \in [Probers -> {"idle", "answered", "refused"} \cup InFlight]
  /\ done \in [Probers -> 0 .. Parts]
  /\ stale \in [Probers -> SUBSET (1 .. Parts)]
  /\ after \subseteq Requests

Init ==
  /\ phase = "opening" /\ pool = FALSE /\ worker = "none" /\ at = 1
  /\ overdue \in SUBSET Tables /\ inherited = overdue
  /\ enabled = TRUE /\ ready = FALSE /\ broken = FALSE
  /\ exact \in SUBSET (1 .. Parts)
  /\ pc = [r \in Probers |-> "idle"]
  /\ done = [r \in Probers |-> 0]
  /\ stale = [r \in Probers |-> {}]
  /\ after = {}

-----------------------------------------------------------------------------
(* The world: a text comes of age, the database changes. *)
Expire(t) ==
  /\ overdue' = overdue \cup {t}
  /\ UNCHANGED <<phase, pool, janitor, inherited, probe, exact, checks, broken>>

Change(parts) ==
  /\ exact' = parts
  /\ stale' = [r \in Probers |-> IF pc[r] = "checking" THEN stale[r] \ parts ELSE stale[r]]
  /\ UNCHANGED <<phase, pool, janitor, text, probe, pc, done, after, broken>>

-----------------------------------------------------------------------------
\* FAULTY VARIANT: a failure only marks the probe unavailable.
Disable_Marks == ready' = FALSE /\ UNCHANGED enabled /\ broken' = TRUE

(* disable: the latch. *)
Disable == ready' = FALSE /\ enabled' = FALSE /\ broken' = TRUE

Open ==
  /\ phase = "opening"
  /\ phase' = "purging" /\ pool' = TRUE /\ at' = 1
  /\ UNCHANGED <<worker, text, probe, exact, checks, broken>>

(* The pool does not open: the process serves, with the probe closed. *)
OpenFails ==
  /\ phase = "opening"
  /\ phase' = "serving"
  /\ Disable
  /\ UNCHANGED <<pool, janitor, text, exact, checks>>

(* check_ready and refresh begin: the first read is yet to come. *)
Begin(r) ==
  /\ pc' = [pc EXCEPT ![r] = "checking"]
  /\ done' = [done EXCEPT ![r] = 0]
  /\ stale' = [stale EXCEPT ![r] = (1 .. Parts) \ exact]

Purges(t) == overdue' = overdue \ {t} /\ inherited' = inherited \ {t}

\* FAULTY VARIANT: the last purge of a round is forgotten.
EndsRound_Early == at = Last - 1

EndsRound == at = Last

(* One purge of the round at start-up, which refresh follows. *)
StartupPurge ==
  /\ phase = "purging"
  /\ Purges(Purge[at])
  /\ IF EndsRound
     THEN phase' = "probing" /\ Begin(Startup) /\ at' = 1
     ELSE at' = at + 1 /\ UNCHANGED <<phase, pc, done, stale>>
  /\ UNCHANGED <<pool, worker, probe, exact, after, broken>>

(* A purge raises, whether or not its statement took effect. *)
Fails(t) == Purges(t) \/ UNCHANGED text

StartupPurgeFails ==
  /\ phase = "purging"
  /\ Fails(Purge[at])
  /\ phase' = "serving" /\ Disable
  /\ UNCHANGED <<pool, janitor, exact, checks>>

(* The periodic task is created after the refresh, whatever that found. *)
StartupEnds ==
  /\ phase = "probing" /\ pc[Startup] \notin InFlight
  /\ phase' = "serving" /\ worker' = "sleeping"
  /\ UNCHANGED <<pool, at, text, probe, exact, checks, broken>>

-----------------------------------------------------------------------------
(* The interval is over before the stop event. *)
Wake ==
  /\ worker = "sleeping"
  /\ worker' = "purging" /\ at' = 1
  /\ UNCHANGED <<phase, pool, text, probe, exact, checks, broken>>

WorkerPurge ==
  /\ worker = "purging"
  /\ Purges(Purge[at])
  /\ IF EndsRound
     THEN at' = 1 /\ worker' = IF phase = "serving" THEN "sleeping" ELSE "ended"
     ELSE at' = at + 1 /\ UNCHANGED worker
  /\ UNCHANGED <<phase, pool, probe, exact, checks, broken>>

\* FAULTY VARIANT: the task dies of the failure without closing the probe.
WorkerPurgeFails_Silently ==
  /\ worker = "purging"
  /\ Fails(Purge[at])
  /\ worker' = "ended"
  /\ UNCHANGED <<phase, pool, at, probe, exact, checks, broken>>

(* The rest of the round is skipped and the task returns for good. *)
WorkerPurgeFails ==
  /\ worker = "purging"
  /\ Fails(Purge[at])
  /\ worker' = "ended" /\ Disable
  /\ UNCHANGED <<phase, pool, at, exact, checks>>

(* The stop event ends the wait. *)
WorkerStops ==
  /\ worker = "sleeping" /\ phase = "draining"
  /\ worker' = "ended"
  /\ UNCHANGED <<phase, pool, at, text, probe, exact, checks, broken>>

(* The server leaves the lifespan when its requests have ended, and sends  *)
(* no more; the stop event is set.                                         *)
Shutdown ==
  /\ phase = "serving"
  /\ \A r \in Requests : pc[r] \notin InFlight
  /\ phase' = "draining"
  /\ UNCHANGED <<pool, janitor, text, probe, exact, checks, broken>>

\* FAULTY VARIANT: the purge task is not awaited.
Awaited_Not == TRUE

\* FAULTY VARIANT: shutdown waits for a task that start-up never created.
Awaited_Always == worker = "ended"

(* await purge_task: a round under way is finished first. *)
Awaited == worker \in {"none", "ended"}

Drained ==
  /\ phase = "draining" /\ Awaited
  /\ phase' = "releasing"
  /\ UNCHANGED <<pool, janitor, text, probe, exact, checks, broken>>

(* The clients of the answer and the classifier provider are closed; what  *)
(* raises is suppressed here and below.                                    *)
CloseClients ==
  /\ phase = "releasing"
  /\ phase' = "closing"
  /\ UNCHANGED <<pool, janitor, text, probe, exact, checks, broken>>

ClosePool ==
  /\ phase = "closing"
  /\ phase' = "disabling" /\ pool' = FALSE
  /\ UNCHANGED <<janitor, text, probe, exact, checks, broken>>

(* Only now the probe is closed. *)
Stop ==
  /\ phase = "disabling"
  /\ phase' = "stopped"
  /\ enabled' = FALSE /\ ready' = FALSE
  /\ UNCHANGED <<pool, janitor, text, exact, checks, broken>>

-----------------------------------------------------------------------------
\* FAULTY VARIANT: a request trusts what the last refresh found.
Arrive_Cached(r) ==
  /\ phase = "serving" /\ pc[r] = "idle"
  /\ after' = IF broken THEN after \cup {r} ELSE after
  /\ pc' = [pc EXCEPT ![r] = IF ready THEN "serving" ELSE "refused"]
  /\ stale' = [stale EXCEPT ![r] = (1 .. Parts) \ exact]
  /\ UNCHANGED <<phase, pool, janitor, text, probe, exact, broken, done>>

(* A guarded request asks the probe; the latch answers without a read. *)
Arrive(r) ==
  /\ phase = "serving" /\ pc[r] = "idle"
  /\ after' = IF broken THEN after \cup {r} ELSE after
  /\ IF enabled
     THEN Begin(r)
     ELSE pc' = [pc EXCEPT ![r] = "refused"] /\ UNCHANGED <<done, stale>>
  /\ UNCHANGED <<phase, pool, janitor, text, probe, exact, broken>>

(* One read of _read_exact_projection finds what is approved; the last one *)
(* makes the probe ready, and lets a request through to its service.       *)
Read(r) ==
  /\ pc[r] = "checking" /\ done[r] + 1 \in exact
  /\ done' = [done EXCEPT ![r] = @ + 1]
  /\ IF done[r] + 1 = Parts
     THEN ready' = TRUE /\ pc' = [pc EXCEPT ![r] = IF r = Startup THEN "answered" ELSE "serving"]
     ELSE UNCHANGED <<ready, pc>>
  /\ UNCHANGED <<phase, pool, janitor, text, enabled, exact, stale, after, broken>>

(* A part is not as approved, or its read raises. *)
ReadFails(r) ==
  /\ pc[r] = "checking"
  /\ ready' = FALSE
  /\ pc' = [pc EXCEPT ![r] = "refused"]
  /\ UNCHANGED <<phase, pool, janitor, text, enabled, exact, done, stale, after, broken>>

Serve(r) ==
  /\ pc[r] = "serving"
  /\ pc' = [pc EXCEPT ![r] = "answered"]
  /\ UNCHANGED <<phase, pool, janitor, text, probe, exact, done, stale, after, broken>>

(* The service is unavailable: mark_unavailable. *)
ServeFails(r) ==
  /\ pc[r] = "serving"
  /\ ready' = FALSE
  /\ pc' = [pc EXCEPT ![r] = "refused"]
  /\ UNCHANGED <<phase, pool, janitor, text, enabled, exact, done, stale, after, broken>>

-----------------------------------------------------------------------------
Checks(r) == Read(r) \/ ReadFails(r)
Lifespan ==
  \/ Open \/ OpenFails \/ StartupPurge \/ StartupPurgeFails \/ StartupEnds
  \/ Drained \/ CloseClients \/ ClosePool \/ Stop
Janitor == Wake \/ WorkerPurge \/ WorkerPurgeFails \/ WorkerStops
World == (\E t \in Tables : Expire(t)) \/ (\E parts \in SUBSET (1 .. Parts) : Change(parts))

Next ==
  \/ World \/ Lifespan \/ Shutdown \/ Janitor
  \/ \E r \in Probers : Checks(r)
  \/ \E r \in Requests : Arrive(r) \/ Serve(r) \/ ServeFails(r)

Spec == Init /\ [][Next]_vars

(* The event loop runs start-up, the timer, the purge task and the end of  *)
(* shutdown; every statement returns or raises.  Nobody has to send a      *)
(* request or to stop the process.                                         *)
FairSpec ==
  /\ Spec
  /\ WF_vars(Lifespan) /\ WF_vars(Janitor) /\ WF_vars(Checks(Startup))

-----------------------------------------------------------------------------
(* Whoever is let through saw every part of the projection as approved     *)
(* after it arrived: nobody is served on a stale check, its own or another *)
(* request's.  (The parts need not have been exact at one instant.)        *)
ServedOnFreshCheck ==
  \A r \in Requests : pc[r] \in {"serving", "answered"} => stale[r] = {}

(* While the process serves, the probe is open only as long as the purge   *)
(* task lives: whatever start-up step or purge fails, and however early,   *)
(* no path leaves a serving process open without it.  (In the teardown the *)
(* task ends first and the probe is closed last, when nobody asks it.)     *)
OpenOnlyWithJanitor ==
  phase = "serving" /\ enabled => worker \in {"sleeping", "purging"}

(* Once start-up or a purge has failed, no request that arrives is let     *)
(* through, however good the projection looks.                             *)
FailureCloses ==
  \A r \in after : pc[r] = "refused"

(* Text that was overdue when the process started is gone before the first *)
(* request is let through.                                                 *)
PurgedBeforeServing ==
  (\E r \in Requests : pc[r] \in {"serving", "answered"}) => inherited = {}

(* Whoever reads or purges has an open pool: a purge round that shutdown   *)
(* finds under way, start-up, and every guarded request, also in a process *)
(* whose pool never opened and which serves nevertheless.                  *)
UsersHavePool ==
  worker = "purging" \/ (\E r \in Probers : pc[r] \in InFlight) => pool

(* Text past its time is purged, or the guarded endpoints are closed.      *)
PurgedOrClosed ==
  \A t \in Tables : t \in overdue ~> (t \notin overdue \/ ~enabled)

(* Shutdown, which waits for a task that waits for a timer, an event or a  *)
(* purge, or that a failed start-up never created, comes to its end.       *)
ShutdownEnds == phase = "draining" ~> phase = "stopped"

(* "Latch closed": a disabled probe does not report itself ready again.    *)
LatchHolds == ~enabled => ~ready
=============================================================================
