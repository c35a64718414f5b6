--------------------------- MODULE ChatIdempotency ---------------------------
(***************************************************************************)
(* The durable retry identity of POST /api/v1/chat: the table              *)
(* app_private.chat_idempotency, the SQL functions that claim, complete,   *)
(* abandon and purge its rows, and ChatService._answer_idempotent, which   *)
(* runs once per HTTP request between them.                                *)
(*                                                                         *)
(* Every element of Requests is one HTTP request.  It is also its own      *)
(* request_id and its own claim token: both are fresh uuid4 values, and    *)
(* the service refuses to run when they coincide.  A stored response is    *)
(* named by the request that produced it.  A row version is named by the   *)
(* request whose INSERT created it (its ctid, so to speak): DELETE plus    *)
(* INSERT under the same key makes a new version.                          *)
(*                                                                         *)
(* now is the database clock in ticks of any length.  Row locks are held   *)
(* for the rest of a one-statement transaction, so a locked read and the   *)
(* write that follows it are one step; everything the code does outside    *)
(* the lock is a step of its own.                                          *)
(***************************************************************************)
EXTENDS Integers, FiniteSets

CONSTANTS
  Requests,  \* HTTP requests that carry an Idempotency-Key
  Keys,      \* Idempotency-Key values
  Digests,   \* HMAC fingerprints of request bodies
  Nobody,    \* SQL NULL
  Lease,     \* the 5 minute claim lease, in ticks
  TTL,       \* the 24 hour life of a row, in ticks
  MaxTime    \* bound on the clock

ASSUME TimeAssumption ==
  /\ Lease \in Nat \ {0}
  /\ TTL \in Nat \ {0}
  /\ MaxTime \in Nat

ASSUME NobodyAssumption == Nobody \notin Requests

VARIABLES
  now,        \* clock_timestamp()
  row,        \* app_private.chat_idempotency, one record per key
  events,     \* interaction_events: the request_ids recorded
  gaps,       \* civic scope gaps recorded, by the request that did it
  pc,         \* where each request is in _answer_idempotent
  key,        \* its Idempotency-Key
  digest,     \* its request_fingerprint
  version,    \* the row version it last saw (history once it has a claim)
  claimedAt,  \* the clock its claim is dated by (history)
  readClock,  \* v_now of the SQL function it is in
  started,    \* _GenerationAttemptState.started
  outcome,    \* what its execution asks to be persisted
  answer      \* the stored response its client received (history)

vars == <<now, row, events, gaps, pc, key, digest, version, claimedAt,
          readClock, started, outcome, answer>>

(* What a request keeps to itself, grouped for UNCHANGED. *)
tables   == <<row, events, gaps>>
identity == <<key, digest>>
claim    == <<version, claimedAt>>
work     == <<readClock, started, outcome>>

-----------------------------------------------------------------------------
States == {"NONE", "IN_PROGRESS", "COMPLETED", "ABANDONED"}

Row ==
  [state : States, digest : Digests \cup {Nobody},
   claim : Requests \cup {Nobody}, lease : Nat,
   response : Requests \cup {Nobody}, expires : Nat,
   creator : Requests \cup {Nobody}]

NoRow ==
  [state |-> "NONE", digest |-> Nobody, claim |-> Nobody, lease |-> 0,
   response |-> Nobody, expires |-> 0, creator |-> Nobody]

(* The table's CHECK, state by state; a lease of 0 is NULL. *)
Shaped(x) ==
  /\ x.state = "IN_PROGRESS" <=> x.claim # Nobody
  /\ x.state = "IN_PROGRESS" <=> x.lease # 0
  /\ x.state = "COMPLETED" <=> x.response # Nobody
  /\ x.state = "NONE" <=> x.creator = Nobody

(* A client sees one of these; the other values of pc are steps. *)
Ended == {"replied", "replayed", "unrecorded", "conflict", "unavailable",
          "crashed"}
Steps == {"idle", "claiming", "selecting", "executing", "template", "abandoning",
          "releasing", "executed", "committing", "gap"}

Outcomes == {"EVENT", "GAP", "NOTHING"}

(* Variables have their types, and no statement of the four SQL functions  *)
(* can trip the CHECK of the table.                                        *)
TypeOK ==
  /\ now \in Nat
  /\ row \in [Keys -> Row]
  /\ \A k \in Keys : Shaped(row[k])
  /\ events \subseteq Requests
  /\ gaps \subseteq Requests
  /\ pc \in [Requests -> Steps \cup Ended]
  /\ key \in [Requests -> Keys \cup {Nobody}]
  /\ digest \in [Requests -> Digests \cup {Nobody}]
  /\ version \in [Requests -> Requests \cup {Nobody}]
  /\ claimedAt \in [Requests -> Nat]
  /\ readClock \in [Requests -> Nat]
  /\ started \in [Requests -> BOOLEAN]
  /\ outcome \in [Requests -> Outcomes]
  /\ answer \in [Requests -> Requests \cup {Nobody}]

Init ==
  /\ now = 0
  /\ row = [k \in Keys |-> NoRow]
  /\ events = {}
  /\ gaps = {}
  /\ pc = [r \in Requests |-> "idle"]
  /\ key = [r \in Requests |-> Nobody]
  /\ digest = [r \in Requests |-> Nobody]
  /\ version = [r \in Requests |-> Nobody]
  /\ claimedAt = [r \in Requests |-> 0]
  /\ readClock = [r \in Requests |-> 0]
  /\ started = [r \in Requests |-> FALSE]
  /\ outcome = [r \in Requests |-> "NOTHING"]
  /\ answer = [r \in Requests |-> Nobody]

-----------------------------------------------------------------------------
(* Row predicates the SQL functions branch on. *)

Present(k) == row[k].state # "NONE"

Expired(k) == Present(k) /\ row[k].expires <= now

(* IN_PROGRESS under a lease that has not lapsed. *)
LiveClaim(k) == row[k].state = "IN_PROGRESS" /\ row[k].lease > now

(* The row an INSERT at clock t leaves behind. *)
Fresh(r, t) ==
  [state |-> "IN_PROGRESS", digest |-> digest[r], claim |-> r,
   lease |-> t + Lease, response |-> Nobody, expires |-> t + TTL, creator |-> r]

\* FAULTY VARIANT: the claim that is taken over keeps its old lease.
Retaken_OldLease(k, r) ==
  [row[k] EXCEPT !.state = "IN_PROGRESS", !.claim = r, !.response = Nobody,
                 !.lease = IF @ = 0 THEN now + Lease ELSE @]

(* A claim taken over: new token, new lease, same expiry. *)
Retaken(k, r) ==
  [row[k] EXCEPT !.state = "IN_PROGRESS", !.claim = r, !.lease = now + Lease,
                 !.response = Nobody]

(* A claim that ended in state st, with the response a or none. *)
Released(k, st, a) ==
  [row[k] EXCEPT !.state = st, !.claim = Nobody, !.lease = 0, !.response = a]

(* The WHERE clause of complete_ and abandon_chat_idempotency at clock t. *)
Holds(r, t) ==
  LET x == row[key[r]] IN
  /\ x.state = "IN_PROGRESS" /\ x.digest = digest[r] /\ x.claim = r
  /\ x.lease > t /\ x.expires > t

-----------------------------------------------------------------------------
(* claim_chat_idempotency.                                                 *)

(* The claim committed, dated by clock t.  The reply may still be lost     *)
(* with the connection: the service then answers 503 and the lease runs on *)
(* without a worker.                                                       *)
Acquire(r, v, t) ==
  /\ \E at \in {"executing", "unavailable"} : pc' = [pc EXCEPT ![r] = at]
  /\ version' = [version EXCEPT ![r] = v]
  /\ claimedAt' = [claimedAt EXCEPT ![r] = t]

(* The DECLARE section reads the clock; the INSERT below it may then wait  *)
(* for another transaction on the same key.                                *)
ClaimReadsClock(r, k, d) ==
  /\ pc[r] = "idle"
  /\ key' = [key EXCEPT ![r] = k]
  /\ digest' = [digest EXCEPT ![r] = d]
  /\ readClock' = [readClock EXCEPT ![r] = now]
  /\ pc' = [pc EXCEPT ![r] = "claiming"]
  /\ UNCHANGED <<now, tables, claim, started, outcome, answer>>

(* INSERT ... ON CONFLICT DO NOTHING finds no row: ACQUIRED, with a lease  *)
(* and an expiry counted from the clock that was read.                     *)
ClaimInsert(r) ==
  /\ pc[r] = "claiming"
  /\ ~Present(key[r])
  /\ row' = [row EXCEPT ![key[r]] = Fresh(r, readClock[r])]
  /\ Acquire(r, r, readClock[r])
  /\ UNCHANGED <<now, events, gaps, identity, work, answer>>

(* The INSERT does nothing; the locking SELECT comes next. *)
ClaimSeesRow(r) ==
  /\ pc[r] = "claiming"
  /\ Present(key[r])
  /\ version' = [version EXCEPT ![r] = row[key[r]].creator]
  /\ pc' = [pc EXCEPT ![r] = "selecting"]
  /\ UNCHANGED <<now, tables, identity, claimedAt, work, answer>>

\* FAULTY VARIANT: a vanished row is waited for.
ClaimVanished_Waits(r) == FALSE /\ UNCHANGED vars

(* SELECT ... FOR UPDATE waited on a version that was deleted meanwhile by *)
(* the purge or by another claim: NOT FOUND, P1003, 503.                   *)
ClaimVanished(r) ==
  /\ pc[r] = "selecting"
  /\ row[key[r]].creator # version[r]
  /\ pc' = [pc EXCEPT ![r] = "unavailable"]
  /\ UNCHANGED <<now, tables, identity, claim, work, answer>>

(* The clock is read again under the row lock.  An expired row is deleted  *)
(* and inserted afresh: ACQUIRED.                                          *)
ClaimExpired(r) ==
  /\ pc[r] = "selecting"
  /\ Expired(key[r])
  /\ row' = [row EXCEPT ![key[r]] = Fresh(r, now)]
  /\ Acquire(r, r, now)
  /\ UNCHANGED <<now, events, gaps, identity, work, answer>>

(* The key is in use for another request body: CONFLICT, answered 422. *)
ClaimConflict(r) ==
  LET k == key[r] IN
  /\ pc[r] = "selecting"
  /\ Present(k) /\ ~Expired(k) /\ row[k].digest # digest[r]
  /\ pc' = [pc EXCEPT ![r] = "conflict"]
  /\ UNCHANGED <<now, tables, identity, claim, work, answer>>

\* FAULTY VARIANT: the stored digest is not compared.
Matches_AnyBody(r) ==
  /\ pc[r] = "selecting"
  /\ Present(key[r]) /\ ~Expired(key[r])

(* The locked row is unexpired and for this very request body. *)
Matches(r) ==
  /\ pc[r] = "selecting"
  /\ Present(key[r]) /\ ~Expired(key[r])
  /\ row[key[r]].digest = digest[r]

(* COMPLETED: the stored response is replayed with a new request_id. *)
ClaimReplay(r) ==
  LET k == key[r] IN
  /\ Matches(r)
  /\ row[k].state = "COMPLETED"
  /\ version' = [version EXCEPT ![r] = row[k].creator]
  /\ answer' = [answer EXCEPT ![r] = row[k].response]
  /\ pc' = [pc EXCEPT ![r] = "replayed"]
  /\ UNCHANGED <<now, tables, identity, claimedAt, work>>

(* IN_PROGRESS under a live lease: answer from the template, persist       *)
(* nothing.                                                                *)
ClaimBusy(r) ==
  /\ Matches(r)
  /\ LiveClaim(key[r])
  /\ pc' = [pc EXCEPT ![r] = "template"]
  /\ UNCHANGED <<now, tables, identity, claim, work, answer>>

\* FAULTY VARIANT: a COMPLETED row may be taken over too.
Claimable_Completed(k) == ~LiveClaim(k)

(* ABANDONED, or IN_PROGRESS under a lapsed lease. *)
Claimable(k) == row[k].state # "COMPLETED" /\ ~LiveClaim(k)

(* The claim is taken over: ACQUIRED. *)
ClaimTakeover(r) ==
  LET k == key[r] IN
  /\ Matches(r)
  /\ Claimable(k)
  /\ row' = [row EXCEPT ![k] = Retaken(k, r)]
  /\ Acquire(r, row[k].creator, now)
  /\ UNCHANGED <<now, events, gaps, identity, work, answer>>

(* The database is unreachable, or a rule refuses the interaction: the     *)
(* open transaction rolls back and the service answers 503.                *)
DatabaseError(r) ==
  /\ pc[r] \in {"claiming", "selecting", "executed", "committing"}
  /\ pc' = [pc EXCEPT ![r] = "unavailable"]
  /\ UNCHANGED <<now, tables, identity, claim, work, answer>>

-----------------------------------------------------------------------------
(* ChatService._execute_once under a claim, and what follows it.           *)

(* The generator is awaited, at most once per request. *)
Generate(r) ==
  /\ pc[r] = "executing"
  /\ ~started[r]
  /\ started' = [started EXCEPT ![r] = TRUE]
  /\ UNCHANGED <<now, tables, pc, identity, claim, readClock, outcome, answer>>

(* A response was composed.  Only grounded answers reach the generator,    *)
(* and those are always recorded.                                          *)
Execute(r) ==
  /\ pc[r] = "executing"
  /\ \E o \in IF started[r] THEN {"EVENT"} ELSE Outcomes :
       outcome' = [outcome EXCEPT ![r] = o]
  /\ pc' = [pc EXCEPT ![r] = "executed"]
  /\ UNCHANGED <<now, tables, identity, claim, readClock, started, answer>>

\* FAULTY VARIANT: the claim is given back after the provider was called.
AfterFailure_AlwaysAbandon(r) == "abandoning"

(* After an exception the claim is kept when the provider may have been    *)
(* called, and given back otherwise.                                       *)
AfterFailure(r) == IF started[r] THEN "unavailable" ELSE "abandoning"

ExecuteFails(r) ==
  /\ pc[r] = "executing"
  /\ pc' = [pc EXCEPT ![r] = AfterFailure(r)]
  /\ UNCHANGED <<now, tables, identity, claim, work, answer>>

(* abandon_chat_idempotency reads the clock before it waits for the row. *)
AbandonReadsClock(r) ==
  /\ pc[r] = "abandoning"
  /\ readClock' = [readClock EXCEPT ![r] = now]
  /\ pc' = [pc EXCEPT ![r] = "releasing"]
  /\ UNCHANGED <<now, tables, identity, claim, started, outcome, answer>>

(* The claim is given back, unless it was lost or the call fails; either   *)
(* way the service only re-raises.                                         *)
Abandon(r) ==
  /\ pc[r] = "releasing"
  /\ \/ /\ Holds(r, readClock[r])
        /\ row' = [row EXCEPT ![key[r]] = Released(key[r], "ABANDONED", Nobody)]
     \/ UNCHANGED row
  /\ pc' = [pc EXCEPT ![r] = "unavailable"]
  /\ UNCHANGED <<now, events, gaps, identity, claim, work, answer>>

(* commit_chat_idempotency opens its transaction, records the interaction  *)
(* (visible only at commit) and calls complete_chat_idempotency, which     *)
(* reads the clock before it waits for the row.                            *)
CommitReadsClock(r) ==
  /\ pc[r] = "executed"
  /\ readClock' = [readClock EXCEPT ![r] = now]
  /\ pc' = [pc EXCEPT ![r] = "committing"]
  /\ UNCHANGED <<now, tables, identity, claim, started, outcome, answer>>

\* FAULTY VARIANT: the interaction is recorded outside the transaction.
Recorded_Detached(r) == events

(* The interaction_events rows after r's transaction commits. *)
Recorded(r) == IF outcome[r] = "EVENT" THEN events \cup {r} ELSE events

(* The UPDATE finds its row and the transaction commits.  The reply to the *)
(* service, and so to the client, may be lost.                             *)
Commit(r) ==
  /\ pc[r] = "committing"
  /\ Holds(r, readClock[r])
  /\ row' = [row EXCEPT ![key[r]] = Released(key[r], "COMPLETED", r)]
  /\ events' = Recorded(r)
  /\ \/ /\ pc' = [pc EXCEPT ![r] = IF outcome[r] = "GAP" THEN "gap"
                                                         ELSE "replied"]
        /\ answer' = [answer EXCEPT ![r] = r]
     \/ /\ pc' = [pc EXCEPT ![r] = "unavailable"]
        /\ UNCHANGED answer
  /\ UNCHANGED <<now, gaps, identity, claim, work>>

\* FAULTY VARIANT: the interaction stays although the claim was lost.
CommitLost_KeepsInteraction(r) ==
  /\ pc[r] = "committing"
  /\ ~Holds(r, readClock[r])
  /\ events' = Recorded(r)
  /\ pc' = [pc EXCEPT ![r] = "unavailable"]
  /\ UNCHANGED <<now, row, gaps, identity, claim, work, answer>>

(* The claim was lost: P1003 rolls the interaction back, answered 503. *)
CommitLost(r) ==
  /\ pc[r] = "committing"
  /\ ~Holds(r, readClock[r])
  /\ pc' = [pc EXCEPT ![r] = "unavailable"]
  /\ UNCHANGED <<now, tables, identity, claim, work, answer>>

(* After the commit, best effort and in a transaction of its own. *)
RecordScopeGap(r) ==
  /\ pc[r] = "gap"
  /\ \E g \in {gaps, gaps \cup {r}} : gaps' = g
  /\ pc' = [pc EXCEPT ![r] = "replied"]
  /\ UNCHANGED <<now, row, events, identity, claim, work, answer>>

(* The busy path: no generator, no interaction, no scope gap, no row. *)
AnswerFromTemplate(r) ==
  /\ pc[r] = "template"
  /\ \E at \in {"unrecorded", "unavailable"} : pc' = [pc EXCEPT ![r] = at]
  /\ UNCHANGED <<now, tables, identity, claim, work, answer>>

(* The process dies or the handler is cancelled: nothing is abandoned.     *)
Crash(r) ==
  /\ pc[r] \in Steps \ {"idle"}
  /\ pc' = [pc EXCEPT ![r] = "crashed"]
  /\ UNCHANGED <<now, tables, identity, claim, work, answer>>

-----------------------------------------------------------------------------
(* purge_expired_chat_idempotency, at startup and every 60 seconds. *)
Purge ==
  /\ \E k \in Keys : Expired(k)
  /\ row' = [k \in Keys |-> IF Expired(k) THEN NoRow ELSE row[k]]
  /\ UNCHANGED <<now, events, gaps, pc, identity, claim, work, answer>>

Tick ==
  /\ now < MaxTime
  /\ now' = now + 1
  /\ UNCHANGED <<tables, pc, identity, claim, work, answer>>

Claim(r) ==
  \/ \E k \in Keys, d \in Digests : ClaimReadsClock(r, k, d)
  \/ ClaimInsert(r) \/ ClaimSeesRow(r)
  \/ ClaimVanished(r) \/ ClaimExpired(r) \/ ClaimConflict(r)
  \/ ClaimReplay(r) \/ ClaimBusy(r) \/ ClaimTakeover(r)

Answer(r) ==
  \/ Generate(r) \/ Execute(r) \/ ExecuteFails(r) \/ AbandonReadsClock(r)
  \/ Abandon(r)
  \/ CommitReadsClock(r) \/ Commit(r) \/ CommitLost(r) \/ RecordScopeGap(r)
  \/ AnswerFromTemplate(r)

Next ==
  \/ \E r \in Requests : Claim(r) \/ Answer(r) \/ DatabaseError(r) \/ Crash(r)
  \/ Purge
  \/ Tick

Spec == Init /\ [][Next]_vars

(* The event loop runs every handler on, and every database call returns or *)
(* raises.  Nothing makes a client arrive, a process crash or a call fail.  *)
Resume(r) == Answer(r) \/ (pc[r] \in {"claiming", "selecting"} /\ Claim(r))

FairSpec == Spec /\ \A r \in Requests : WF_vars(Resume(r))

-----------------------------------------------------------------------------
(* Retries under one key record at most one interaction for as long as the *)
(* key's row lives: whatever crashed, lapsed or was answered in between,   *)
(* statistics and the failed-question queue see the question once.         *)
RecordedOnce ==
  \A r1, r2 \in events : version[r1] = version[r2] => r1 = r2

(* The response and its interaction are stored by one transaction: a       *)
(* completed row has its event, and while a row version lives, an event    *)
(* recorded under it is the one of its stored response.                    *)
StoredWithEvent ==
  /\ \A k \in Keys : row[k].state = "COMPLETED" =>
       LET a == row[k].response IN
       /\ key[a] = k
       /\ outcome[a] = "EVENT" => a \in events
  /\ \A r \in events : row[key[r]].creator = version[r] =>
       row[key[r]].state = "COMPLETED" /\ row[key[r]].response = r

(* Every durable answer a client receives, first-hand or replayed, was     *)
(* produced for the same key and the same request body, and all those of   *)
(* one row version are the same answer.                                    *)
DurableAnswersAgree ==
  \A r \in Requests : answer[r] # Nobody =>
    /\ key[answer[r]] = key[r]
    /\ digest[answer[r]] = digest[r]
    /\ \A q \in Requests :
         answer[q] # Nobody /\ version[q] = version[r] => answer[q] = answer[r]

(* r's lease, as the claim it acquired was dated. *)
LeaseEnd(r) == claimedAt[r] + Lease

(* When the row version r claimed expires, by its creator's clock. *)
ExpiryOf(r) == claimedAt[version[r]] + TTL

(* A lease protects the claim it was given with.  Whatever retries, other  *)
(* bodies, late requests or the purge do, a request that is still within   *)
(* its lease, under a row that has not expired, holds the row: its         *)
(* complete_chat_idempotency, if it came now, would store the answer.      *)
LeaseProtects ==
  \A r \in Requests :
    pc[r] \in {"executing", "executed"} /\ now < LeaseEnd(r) /\ now < ExpiryOf(r)
      => Holds(r, now)

(* The generator is not called for a row while another request that called *)
(* it for the same row is within its lease - unless the caller is the late *)
(* one, whose own lease has lapsed: nothing keeps a holder that stalls     *)
(* past its lease from calling next to the retry that took over.           *)
OneCallerPerLease ==
  [][\A r, q \in Requests :
       /\ r # q /\ ~started[r] /\ started'[r]
       /\ started[q] /\ version[q] = version[r]
       => LeaseEnd(q) <= now \/ LeaseEnd(r) <= now]_vars

(* A stored response changes or disappears only once it has expired.       *)
CompletedUntilExpiry ==
  [][\A k \in Keys : row[k].state = "COMPLETED" =>
       row'[k] = row[k] \/ Expired(k)]_vars

(* Every request that entered the claim is answered or has died.           *)
EveryRequestEnds ==
  \A r \in Requests : pc[r] # "idle" ~> pc[r] \in Ended

-----------------------------------------------------------------------------
(* docs/08_TEST_STRATEGY.md, line 52: concurrent, replayed and             *)
(* commit-uncertain requests with the same key make at most one provider   *)
(* call (here: while the key's row lives).  A lapsed lease is taken over.  *)
OneProviderCallPerKey ==
  \A r1, r2 \in Requests :
    r1 # r2 /\ started[r1] /\ started[r2] => version[r1] # version[r2]

-----------------------------------------------------------------------------
(* The promise to callers: see OnceOnlyAnswer.                             *)
OnceOnly == INSTANCE OnceOnlyAnswer WITH
  stored <- [k \in Keys |-> IF row[k].state = "COMPLETED"
                              THEN row[k].response ELSE Nobody],
  recorded <- events,
  received <- answer

ImplementsOnceOnly == OnceOnly!Spec
=============================================================================
