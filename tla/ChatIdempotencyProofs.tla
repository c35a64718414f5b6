------------------------ MODULE ChatIdempotencyProofs ------------------------
(***************************************************************************)
(* Theorems about ChatIdempotency for every set of requests, keys and      *)
(* bodies, every lease, row life and clock bound.                          *)
(***************************************************************************)
EXTENDS ChatIdempotency, TLAPS

(* The steps of one request.                                               *)
RequestStep(r) == Claim(r) \/ Answer(r) \/ DatabaseError(r) \/ Crash(r)

(* Where a request has met no row of its key yet.                          *)
Early == {"idle", "claiming"}

(* A request that has arrived has a key and a body, and one that is past   *)
(* the INSERT has a row it once saw.                                       *)
Identified ==
  \A r \in Requests :
    /\ pc[r] # "idle" => key[r] \in Keys /\ digest[r] \in Digests
    /\ pc[r] = "idle" => version[r] = Nobody
    /\ pc[r] \in Steps \ Early => version[r] \in Requests

Typed == TypeOK /\ Identified

-----------------------------------------------------------------------------
(* A claim, fresh or taken over, leaves a row that passes the CHECK.       *)
LEMMA FreshIsRow ==
  ASSUME TypeOK, NEW r \in Requests, digest[r] \in Digests, NEW t \in Nat
  PROVE  Fresh(r, t) \in Row /\ Shaped(Fresh(r, t))
BY TimeAssumption, NobodyAssumption DEF TypeOK, Fresh, Row, Shaped, States

LEMMA RetakenIsRow ==
  ASSUME TypeOK, NEW r \in Requests, NEW k \in Keys, Present(k)
  PROVE  Retaken(k, r) \in Row /\ Shaped(Retaken(k, r))
<1>1. row[k] \in Row /\ Shaped(row[k]) /\ row[k].state # "NONE"
  BY DEF TypeOK, Present
<1>2. Retaken(k, r) \in Row
  <2>1. now + Lease \in Nat
    BY TimeAssumption DEF TypeOK
  <2> QED
    BY <1>1, <2>1 DEF Retaken, Row, States
<1>3. Shaped(Retaken(k, r))
  BY <1>1, TimeAssumption, NobodyAssumption DEF TypeOK, Retaken, Row, Shaped
<1> QED
  BY <1>2, <1>3

(* So does a claim that ends.                                              *)
LEMMA ReleasedIsRow ==
  ASSUME TypeOK, NEW k \in Keys, Present(k),
         NEW st, NEW a, \/ st = "COMPLETED" /\ a \in Requests
                        \/ st = "ABANDONED" /\ a = Nobody
  PROVE  Released(k, st, a) \in Row /\ Shaped(Released(k, st, a))
<1>1. row[k] \in Row /\ Shaped(row[k]) /\ row[k].state # "NONE"
  BY DEF TypeOK, Present
<1>2. Released(k, st, a) \in Row
  BY <1>1 DEF Released, Row, States
<1>3. Shaped(Released(k, st, a))
  BY <1>1, NobodyAssumption DEF Released, Row, Shaped
<1> QED
  BY <1>2, <1>3

(* Every claim step keeps the types.                                       *)
LEMMA TypedClaim ==
  ASSUME Typed, NEW r \in Requests, Claim(r)
  PROVE  Typed'
<1> USE NobodyAssumption DEF Typed, Early
<1>1. CASE ClaimInsert(r)
  <2>1. key[r] \in Keys /\ digest[r] \in Digests /\ readClock[r] \in Nat
    BY <1>1 DEF ClaimInsert, Identified, TypeOK
  <2>2. row' \in [Keys -> Row] /\ \A j \in Keys : Shaped(row'[j])
    BY <1>1, <2>1, FreshIsRow DEF ClaimInsert, TypeOK
  <2> QED
    BY <1>1, <2>1, <2>2 DEF ClaimInsert, Acquire, TypeOK, Identified, Steps, Early,
                            Ended, identity, work
<1>2. CASE ClaimSeesRow(r)
  <2>1. row[key[r]].creator \in Requests
    BY <1>2 DEF ClaimSeesRow, Present, TypeOK, Identified, Shaped, Row
  <2>2. TypeOK'
    BY <1>2, <2>1 DEF ClaimSeesRow, TypeOK, Steps, work, tables, identity, Shaped
  <2>3. Identified'
    BY <1>2, <2>1 DEF ClaimSeesRow, TypeOK, Identified, Steps, identity
  <2> QED
    BY <2>2, <2>3
<1>9. ASSUME NEW k \in Keys, NEW d \in Digests, ClaimReadsClock(r, k, d)
      PROVE  Typed'
  BY <1>9 DEF ClaimReadsClock, TypeOK, Identified, Steps, Early, tables, claim, Shaped
<1>3. CASE ClaimVanished(r)
  BY <1>3 DEF ClaimVanished, TypeOK, Identified, Ended, tables, identity, claim,
              work, Shaped
<1>4. CASE ClaimExpired(r)
  <2>1. key[r] \in Keys /\ digest[r] \in Digests
    BY <1>4 DEF ClaimExpired, Identified
  <2>2. row' \in [Keys -> Row] /\ \A j \in Keys : Shaped(row'[j])
    BY <1>4, <2>1, FreshIsRow DEF ClaimExpired, TypeOK
  <2> QED
    BY <1>4, <2>1, <2>2 DEF ClaimExpired, Acquire, TypeOK, Identified, Steps, Ended,
                            identity, work
<1>5. CASE ClaimConflict(r)
  BY <1>5 DEF ClaimConflict, TypeOK, Identified, Ended, tables, identity, claim,
              work, Shaped
<1>6. CASE ClaimReplay(r)
  <2>1. /\ row[key[r]].creator \in Requests
        /\ row[key[r]].response \in Requests \cup {Nobody}
    BY <1>6 DEF ClaimReplay, Matches, Present, TypeOK, Identified, Shaped, Row
  <2>2. TypeOK'
    BY <1>6, <2>1 DEF ClaimReplay, TypeOK, Ended, tables, identity, work, Shaped
  <2>3. Identified'
    BY <1>6, <2>1 DEF ClaimReplay, Matches, TypeOK, Identified, identity
  <2> QED
    BY <2>2, <2>3
<1>7. CASE ClaimBusy(r)
  BY <1>7 DEF ClaimBusy, Matches, TypeOK, Identified, Steps, tables, identity,
              claim, work, Shaped
<1>8. CASE ClaimTakeover(r)
  <2> DEFINE k == key[r]
  <2>1. k \in Keys /\ digest[r] \in Digests /\ row[k].creator \in Requests
    BY <1>8 DEF ClaimTakeover, Matches, Present, TypeOK, Identified, Shaped, Row
  <2>2. Present(k) /\ row' = [row EXCEPT ![k] = Retaken(k, r)]
    BY <1>8 DEF ClaimTakeover, Matches
  <2>3. row' \in [Keys -> Row] /\ \A j \in Keys : Shaped(row'[j])
    BY <2>1, <2>2, RetakenIsRow DEF TypeOK
  <2> QED
    BY <1>8, <2>1, <2>3 DEF ClaimTakeover, Acquire, TypeOK, Identified, Steps,
                            Ended, Matches, identity, work
<1> QED
  BY <1>1, <1>2, <1>3, <1>4, <1>5, <1>6, <1>7, <1>8, <1>9 DEF Claim

(* So does every step of the answer.                                       *)
LEMMA TypedAnswer ==
  ASSUME Typed, NEW r \in Requests, Answer(r)
  PROVE  Typed'
<1> USE NobodyAssumption DEF Typed, Early, tables, identity, claim, work, Steps, Ended
<1>1. CASE Generate(r)
  BY <1>1 DEF Generate, TypeOK, Identified, Shaped
<1>2. CASE Execute(r)
  <2>1. PICK o \in Outcomes : outcome' = [outcome EXCEPT ![r] = o]
    BY <1>2 DEF Execute, Outcomes
  <2> QED
    BY <1>2, <2>1 DEF Execute, TypeOK, Identified, Shaped
<1>3. CASE ExecuteFails(r)
  BY <1>3 DEF ExecuteFails, AfterFailure, TypeOK, Identified, Shaped
<1>4. CASE AbandonReadsClock(r)
  BY <1>4 DEF AbandonReadsClock, TypeOK, Identified, Shaped
<1>5. CASE Abandon(r)
  <2>1. pc[r] = "releasing" /\ key[r] \in Keys
    BY <1>5 DEF Abandon, Identified
  <2>2. row' \in [Keys -> Row] /\ \A j \in Keys : Shaped(row'[j])
    <3>1. CASE UNCHANGED row
      BY <3>1 DEF TypeOK, Shaped
    <3>2. CASE /\ Holds(r, readClock[r])
               /\ row' = [row EXCEPT ![key[r]] = Released(key[r], "ABANDONED", Nobody)]
      <4>1. Present(key[r])
        BY <3>2 DEF Holds, Present
      <4> QED
        BY <2>1, <3>2, <4>1, ReleasedIsRow DEF TypeOK
    <3> QED
      BY <1>5, <3>1, <3>2 DEF Abandon
  <2> QED
    BY <1>5, <2>2 DEF Abandon, TypeOK, Identified
<1>6. CASE CommitReadsClock(r)
  BY <1>6 DEF CommitReadsClock, TypeOK, Identified, Shaped
<1>7. CASE Commit(r)
  <2>1. key[r] \in Keys
    BY <1>7 DEF Commit, Identified
  <2>2. Present(key[r])
    BY <1>7 DEF Commit, Holds, Present
  <2>3. row' \in [Keys -> Row] /\ \A j \in Keys : Shaped(row'[j])
    BY <1>7, <2>1, <2>2, ReleasedIsRow DEF Commit, TypeOK
  <2> QED
    BY <1>7, <2>3 DEF Commit, Recorded, TypeOK, Identified
<1>8. CASE CommitLost(r)
  BY <1>8 DEF CommitLost, TypeOK, Identified, Shaped
<1>9. CASE RecordScopeGap(r)
  BY <1>9 DEF RecordScopeGap, TypeOK, Identified, Shaped
<1>10. CASE AnswerFromTemplate(r)
  BY <1>10 DEF AnswerFromTemplate, TypeOK, Identified, Shaped
<1> QED
  BY <1>1, <1>2, <1>3, <1>4, <1>5, <1>6, <1>7, <1>8, <1>9, <1>10 DEF Answer

LEMMA TypedStep ==
  ASSUME Typed, [Next]_vars
  PROVE  Typed'
<1> USE NobodyAssumption DEF Typed, Early, tables, identity, claim, work
<1>1. CASE UNCHANGED vars
  BY <1>1 DEF TypeOK, Identified, vars, Shaped
<1>2. CASE Purge
  <2>1. NoRow \in Row /\ Shaped(NoRow)
    BY DEF NoRow, Row, Shaped, States
  <2>2. row' \in [Keys -> Row] /\ \A k \in Keys : Shaped(row'[k])
    BY <1>2, <2>1 DEF Purge, TypeOK
  <2> QED
    BY <1>2, <2>2 DEF Purge, TypeOK, Identified
<1>3. CASE Tick
  BY <1>3 DEF Tick, TypeOK, Identified, Shaped
<1>4. ASSUME NEW r \in Requests, DatabaseError(r) \/ Crash(r)
      PROVE  Typed'
  BY <1>4 DEF DatabaseError, Crash, TypeOK, Identified, Steps, Ended, Shaped
<1> QED
  BY <1>1, <1>2, <1>3, <1>4, TypedClaim, TypedAnswer DEF Next

LEMMA TypedInit == Init => Typed
BY NobodyAssumption DEF Init, Typed, TypeOK, Identified, Early, NoRow, Row, Shaped, States,
                        Steps, Outcomes

(* Type correctness, and the CHECK of chat_idempotency is never tripped.   *)
THEOREM TypeCorrect == Spec => []TypeOK
<1>1. Spec => []Typed
  BY TypedInit, TypedStep, PTL DEF Spec
<1> QED
  BY <1>1, PTL DEF Typed

-----------------------------------------------------------------------------
(* Why an answer is recorded once.                                         *)
(*                                                                         *)
(* RecordedOnce is not inductive: a step that commits must know that the   *)
(* other requests of its row version have not.  They have not, because     *)
(* (1) only the holder of a row's claim commits, and it has not committed  *)
(* yet; (2) whoever committed under a version left it COMPLETED with its   *)
(* own response as long as the version lives, and a COMPLETED row has no   *)
(* claim; (3) a version is named by a request that never names another,    *)
(* so a key whose row was deleted cannot come back to an old version.      *)

(* The steps before a transaction that could commit.                       *)
BeforeCommit == Steps \ {"gap"}

(* r has left no trace of an answer anywhere.                              *)
Uncommitted(r) ==
  /\ r \notin events
  /\ answer[r] = Nobody
  /\ \A k \in Keys : row[k].response # r
  /\ \A q \in Requests : answer[q] # r

(* r has never acquired a claim, so no row version is named after it.      *)
Unborn(r) ==
  /\ \A k \in Keys : row[k].claim # r /\ row[k].creator # r
  /\ \A q \in Requests : version[q] # r

Progress ==
  \A r \in Requests :
    /\ pc[r] \in BeforeCommit => Uncommitted(r)
    /\ pc[r] \in {"idle", "claiming", "selecting"} => Unborn(r)

(* A row version belongs to the key of the request it is named after.      *)
VersionKey ==
  /\ \A k \in Keys : row[k].creator # Nobody => key[row[k].creator] = k
  /\ \A r \in Requests : version[r] # Nobody => key[version[r]] = key[r]

(* The holder of a claim works on that row and has not committed.          *)
Owner ==
  \A k \in Keys, c \in Requests : row[k].claim = c =>
    /\ key[c] = k /\ digest[c] = row[k].digest /\ version[c] = row[k].creator
    /\ Uncommitted(c)

(* A stored response is its request's, for this row version and body.      *)
Stored ==
  \A k \in Keys, a \in Requests : row[k].response = a =>
    /\ key[a] = k /\ digest[a] = row[k].digest /\ version[a] = row[k].creator
    /\ outcome[a] = "EVENT" => a \in events

(* Whoever has an event is the stored response of its living version.      *)
Logged ==
  \A r \in events :
    /\ version[r] # Nobody
    /\ row[key[r]].creator = version[r] => row[key[r]].response = r

(* So is whatever a client of that version was given.                      *)
Given ==
  \A q, a \in Requests : answer[q] = a =>
    /\ version[q] # Nobody
    /\ key[a] = key[q] /\ digest[a] = digest[q] /\ version[a] = version[q]
    /\ row[key[q]].creator = version[q] => row[key[q]].response = a

SameAnswer ==
  \A p, q \in Requests :
    answer[p] # Nobody /\ answer[q] # Nobody /\ version[p] = version[q] =>
      answer[p] = answer[q]

Once ==
  /\ Typed /\ Progress /\ VersionKey /\ Owner /\ Stored /\ Logged /\ Given
  /\ RecordedOnce /\ SameAnswer

(* A step that touches no table, answer or identity keeps Once, as long as *)
(* it moves no request back before its commit.                             *)
LEMMA QuietStep ==
  ASSUME Once, Typed', UNCHANGED <<row, events, identity, version, answer>>,
         \A r \in Requests :
           /\ pc[r] \notin BeforeCommit => pc'[r] \notin BeforeCommit
           /\ pc'[r] \in {"idle", "claiming", "selecting"} => pc'[r] = pc[r]
           /\ pc[r] \notin BeforeCommit => outcome'[r] = outcome[r]
  PROVE  Once'
<1> USE DEF Once, Early, identity
<1>1. \A r \in Requests : Uncommitted(r) => Uncommitted(r)'
  BY DEF Uncommitted
<1>2. Progress'
  BY <1>1 DEF Progress, Unborn
<1>3. VersionKey' /\ Logged' /\ Given' /\ RecordedOnce' /\ SameAnswer'
  <2>1. VersionKey'
    BY DEF VersionKey
  <2>2. Logged'
    BY DEF Logged, Typed, TypeOK
  <2>3. Given'
    BY DEF Given
  <2>4. RecordedOnce' /\ SameAnswer'
    BY DEF RecordedOnce, SameAnswer
  <2> QED
    BY <2>1, <2>2, <2>3, <2>4
<1>4. Owner'
  BY <1>1 DEF Owner
<1>5. Stored'
  BY DEF Stored, Progress, Uncommitted
<1> QED
  BY <1>2, <1>3, <1>4, <1>5

(* A claim that makes a new row version, by INSERT or by DELETE and INSERT.*)
LEMMA NewVersion ==
  ASSUME Once, Typed', NEW r \in Requests, NEW k \in Keys, NEW t \in Nat,
         pc[r] \in {"claiming", "selecting"}, k = key[r],
         row' = [row EXCEPT ![k] = Fresh(r, t)], Acquire(r, r, t),
         UNCHANGED <<events, identity, outcome, answer>>
  PROVE  Once'
<1> USE NobodyAssumption DEF Once, Early
<1>1. Uncommitted(r) /\ Unborn(r)
  BY DEF Progress, BeforeCommit, Steps
<1>2. \A q \in Requests : Uncommitted(q) => Uncommitted(q)'
  BY DEF Uncommitted, Fresh, Typed, TypeOK
<1>3. /\ \A q \in Requests : key'[q] = key[q] /\ digest'[q] = digest[q]
      /\ \A q \in Requests \ {r} : pc'[q] = pc[q] /\ version'[q] = version[q]
  BY DEF Acquire, Typed, TypeOK, identity
<1>4. /\ pc'[r] \in {"executing", "unavailable"} /\ version'[r] = r
  BY DEF Acquire, Typed, TypeOK
<1>5. /\ row'[k].creator = r /\ row'[k].claim = r /\ row'[k].digest = digest[r]
      /\ row'[k].response = Nobody
      /\ \A j \in Keys \ {k} : row'[j] = row[j]
  BY DEF Fresh, Typed, TypeOK
<1>6. Progress'
  BY <1>1, <1>2, <1>3, <1>4, <1>5 DEF Progress, Unborn
<1>7. VersionKey'
  <2>1. \A j \in Keys \ {k} : row'[j].creator # Nobody => key'[row'[j].creator] = j
    BY <1>3, <1>5 DEF VersionKey, Typed, TypeOK, Row
  <2>2. row'[k].creator # Nobody => key'[row'[k].creator] = k
    BY <1>3, <1>5
  <2>3. \A q \in Requests : version'[q] # Nobody => key'[version'[q]] = key'[q]
    BY <1>3, <1>4 DEF VersionKey, Typed, TypeOK
  <2> QED
    BY <2>1, <2>2, <2>3 DEF VersionKey
<1>8. Owner'
  BY <1>1, <1>2, <1>3, <1>4, <1>5 DEF Owner, Unborn
<1>9. Stored'
  BY <1>1, <1>3, <1>4, <1>5 DEF Stored, Uncommitted
<1>10. Logged'
  BY <1>1, <1>3, <1>4, <1>5 DEF Logged, Uncommitted, Unborn, Typed, TypeOK, Identified
<1>11. Given'
  BY <1>1, <1>3, <1>4, <1>5 DEF Given, Uncommitted, Unborn
<1>12. RecordedOnce'
  BY <1>1, <1>3, <1>4 DEF RecordedOnce, Uncommitted, Typed, TypeOK
<1>13. SameAnswer'
  BY <1>1, <1>3, <1>4 DEF SameAnswer, Uncommitted
<1> QED
  BY <1>6, <1>7, <1>8, <1>9, <1>10, <1>11, <1>12, <1>13

(* A retry that takes over an unfinished claim keeps the row's version.    *)
LEMMA TakeoverStep ==
  ASSUME Once, Typed', NEW r \in Requests, ClaimTakeover(r)
  PROVE  Once'
<1> USE NobodyAssumption DEF Once, Early
<1> DEFINE k == key[r]
<1>1. Uncommitted(r) /\ Unborn(r) /\ k \in Keys /\ row[k].response = Nobody
      /\ row[k].creator \in Requests /\ row[k].digest = digest[r]
      /\ pc[r] = "selecting"
  BY DEF ClaimTakeover, Claimable, LiveClaim, Matches, Present, Progress, BeforeCommit,
         Steps, Typed, TypeOK, Identified, Shaped, Row
<1>2. /\ row'[k].creator = row[k].creator /\ row'[k].claim = r
      /\ row'[k].digest = row[k].digest /\ row'[k].response = Nobody
      /\ \A j \in Keys \ {k} : row'[j] = row[j]
  BY <1>1 DEF ClaimTakeover, Retaken, Typed, TypeOK, Row
<1>3. /\ pc'[r] \in {"executing", "unavailable"} /\ version'[r] = row[k].creator
      /\ \A q \in Requests \ {r} : pc'[q] = pc[q] /\ version'[q] = version[q]
      /\ UNCHANGED <<events, outcome, answer, key, digest>>
  BY DEF ClaimTakeover, Acquire, Typed, TypeOK, identity, work
<1>4. \A q \in Requests : Uncommitted(q) => Uncommitted(q)'
  BY <1>2, <1>3 DEF Uncommitted
<1>5. Progress'
  BY <1>1, <1>2, <1>3, <1>4 DEF Progress, Unborn
<1>6. VersionKey'
  BY <1>1, <1>2, <1>3 DEF VersionKey
<1>7. Owner'
  BY <1>1, <1>2, <1>3, <1>4 DEF Owner, Unborn
<1>8. Stored'
  BY <1>1, <1>2, <1>3 DEF Stored, Uncommitted
<1>9. Logged'
  BY <1>1, <1>2, <1>3 DEF Logged, Uncommitted, Typed, TypeOK, Identified
<1>10. Given'
  BY <1>1, <1>2, <1>3 DEF Given, Uncommitted, Typed, TypeOK, Identified
<1>11. RecordedOnce' /\ SameAnswer'
  BY <1>1, <1>3 DEF RecordedOnce, SameAnswer, Uncommitted, Typed, TypeOK
<1> QED
  BY <1>5, <1>6, <1>7, <1>8, <1>9, <1>10, <1>11

(* A replay gives its client the response every client of the version has. *)
LEMMA ReplayStep ==
  ASSUME Once, Typed', NEW r \in Requests, ClaimReplay(r)
  PROVE  Once'
<1> USE NobodyAssumption DEF Once, Early
<1> DEFINE k == key[r]
           a == row[k].response
<1>1. /\ Uncommitted(r) /\ Unborn(r) /\ k \in Keys /\ a \in Requests
      /\ row[k].creator \in Requests /\ row[k].digest = digest[r]
      /\ pc[r] = "selecting"
  BY DEF ClaimReplay, Matches, Present, Progress, BeforeCommit, Steps, Typed, TypeOK,
         Identified, Shaped, Row
<1>2. /\ pc'[r] = "replayed" /\ version'[r] = row[k].creator /\ answer'[r] = a
      /\ \A q \in Requests \ {r} :
           pc'[q] = pc[q] /\ version'[q] = version[q] /\ answer'[q] = answer[q]
      /\ UNCHANGED <<row, events, outcome, key, digest>>
  BY DEF ClaimReplay, Typed, TypeOK, tables, identity, work
<1>3. \A q \in Requests \ {r} : Uncommitted(q) => Uncommitted(q)'
  BY <1>1, <1>2 DEF Uncommitted
<1>4. Progress'
  BY <1>1, <1>2, <1>3 DEF Progress, Unborn, BeforeCommit, Steps
<1>5. VersionKey'
  BY <1>1, <1>2 DEF VersionKey
<1>6. Owner'
  BY <1>1, <1>2, <1>3 DEF Owner, Unborn
<1>7. Stored'
  BY <1>1, <1>2 DEF Stored, Uncommitted
<1>8. Logged'
  BY <1>1, <1>2 DEF Logged, Uncommitted, Typed, TypeOK
<1>9. Given'
  BY <1>1, <1>2 DEF Given, Stored, Uncommitted
<1>10. RecordedOnce'
  BY <1>1, <1>2 DEF RecordedOnce, Uncommitted, Typed, TypeOK
<1>11. SameAnswer'
  <2>1. \A q \in Requests \ {r} :
          answer[q] # Nobody /\ version[q] = row[k].creator => answer[q] = a
    BY <1>1 DEF Given, VersionKey, Typed, TypeOK
  <2> QED
    BY <1>2, <2>1 DEF SameAnswer
<1> QED
  BY <1>4, <1>5, <1>6, <1>7, <1>8, <1>9, <1>10, <1>11

(* A commit by the holder of the claim is the version's first and last.    *)
LEMMA CommitStep ==
  ASSUME Once, Typed', NEW r \in Requests, Commit(r)
  PROVE  Once'
<1> USE NobodyAssumption DEF Once, Early
<1> DEFINE k == key[r]
<1>1. /\ Uncommitted(r) /\ k \in Keys /\ row[k].response = Nobody
      /\ row[k].creator = version[r] /\ version[r] \in Requests
      /\ row[k].digest = digest[r] /\ pc[r] = "committing"
      /\ row[k].state = "IN_PROGRESS" /\ row[k].claim = r
  BY DEF Commit, Holds, Owner, Progress, BeforeCommit, Steps, Typed, TypeOK,
         Identified, Shaped, Row
<1>2. /\ row'[k].creator = row[k].creator /\ row'[k].claim = Nobody
      /\ row'[k].digest = row[k].digest /\ row'[k].response = r
      /\ \A j \in Keys \ {k} : row'[j] = row[j]
  BY <1>1 DEF Commit, Released, Typed, TypeOK, Row
<1>3. /\ pc'[r] \in {"gap", "replied", "unavailable"} /\ answer'[r] \in {r, Nobody}
      /\ \A q \in Requests \ {r} : pc'[q] = pc[q] /\ answer'[q] = answer[q]
      /\ UNCHANGED <<version, outcome, key, digest>>
      /\ events' = IF outcome[r] = "EVENT" THEN events \cup {r} ELSE events
  <2>1. /\ pc'[r] \in {"gap", "replied", "unavailable"} /\ answer'[r] \in {r, Nobody}
        /\ \A q \in Requests \ {r} : pc'[q] = pc[q] /\ answer'[q] = answer[q]
    BY <1>1 DEF Commit, Uncommitted, Typed, TypeOK
  <2> QED
    BY <2>1 DEF Commit, Recorded, identity, claim, work
<1>4. \A q \in Requests \ {r} : Uncommitted(q) => Uncommitted(q)'
  BY <1>1, <1>2, <1>3 DEF Uncommitted
<1>5. \A q \in Requests : answer[q] # Nobody => version[q] # version[r]
  BY <1>1 DEF Given, VersionKey, Typed, TypeOK
<1>6. \A q \in events : version[q] # version[r]
  BY <1>1 DEF Logged, VersionKey, Typed, TypeOK
<1>7. Progress'
  BY <1>1, <1>2, <1>3, <1>4 DEF Progress, Unborn, BeforeCommit, Steps
<1>8. VersionKey'
  BY <1>1, <1>2, <1>3 DEF VersionKey
<1>9. Owner'
  BY <1>1, <1>2, <1>3, <1>4 DEF Owner
<1>10. Stored'
  BY <1>1, <1>2, <1>3 DEF Stored
<1>11. Logged'
  BY <1>1, <1>2, <1>3, <1>6 DEF Logged, Typed, TypeOK, Identified
<1>12. Given'
  BY <1>1, <1>2, <1>3, <1>5 DEF Given, Typed, TypeOK, Identified
<1>13. RecordedOnce'
  BY <1>3, <1>6 DEF RecordedOnce
<1>14. SameAnswer'
  BY <1>1, <1>3, <1>5 DEF SameAnswer
<1> QED
  BY <1>7, <1>8, <1>9, <1>10, <1>11, <1>12, <1>13, <1>14

(* Arriving, reading a row, losing it or giving it back changes no answer. *)
LEMMA ArrivalStep ==
  ASSUME Once, Typed', NEW r \in Requests, NEW k \in Keys, NEW d \in Digests,
         ClaimReadsClock(r, k, d)
  PROVE  Once'
<1> USE NobodyAssumption DEF Once, Early
<1>1. Uncommitted(r) /\ Unborn(r) /\ version[r] = Nobody /\ pc[r] = "idle"
  BY DEF ClaimReadsClock, Typed, Identified, Progress, BeforeCommit, Steps
<1>2. /\ pc'[r] = "claiming"
      /\ \A q \in Requests \ {r} :
           pc'[q] = pc[q] /\ key'[q] = key[q] /\ digest'[q] = digest[q]
      /\ UNCHANGED <<row, events, outcome, answer, version>>
  BY DEF ClaimReadsClock, Typed, TypeOK, tables, claim
<1>3. \A q \in Requests : Uncommitted(q) => Uncommitted(q)'
  BY <1>2 DEF Uncommitted
<1>4. Progress'
  BY <1>1, <1>2, <1>3 DEF Progress, Unborn
<1>5. VersionKey'
  <2>1. \A j \in Keys : row[j].creator \in (Requests \ {r}) \cup {Nobody}
    BY <1>1 DEF Unborn, Typed, TypeOK, Row
  <2>2. \A q \in Requests : version[q] # Nobody => version[q] \in Requests \ {r} /\ q # r
    BY <1>1 DEF Unborn, Typed, TypeOK
  <2> QED
    BY <1>2, <2>1, <2>2 DEF VersionKey
<1>6. Owner'
  BY <1>1, <1>2, <1>3 DEF Owner, Unborn
<1>7. Stored'
  BY <1>1, <1>2 DEF Stored, Uncommitted
<1>8. Logged'
  BY <1>1, <1>2 DEF Logged, Typed, TypeOK
<1>9. Given'
  BY <1>1, <1>2 DEF Given, Uncommitted
<1>10. RecordedOnce' /\ SameAnswer'
  BY <1>1, <1>2 DEF RecordedOnce, SameAnswer
<1> QED
  BY <1>4, <1>5, <1>6, <1>7, <1>8, <1>9, <1>10

LEMMA SeesRowStep ==
  ASSUME Once, Typed', NEW r \in Requests, ClaimSeesRow(r)
  PROVE  Once'
<1> USE NobodyAssumption DEF Once, Early
<1> DEFINE k == key[r]
<1>1. /\ Uncommitted(r) /\ Unborn(r) /\ row[k].creator \in Requests
      /\ pc[r] = "claiming" /\ k \in Keys
  BY DEF ClaimSeesRow, Present, Progress, BeforeCommit, Steps, Typed, TypeOK,
         Identified, Shaped, Row
<1>2. /\ pc'[r] = "selecting" /\ version'[r] = row[k].creator
      /\ \A q \in Requests \ {r} : pc'[q] = pc[q] /\ version'[q] = version[q]
      /\ UNCHANGED <<row, events, key, digest, outcome, answer>>
  BY DEF ClaimSeesRow, Typed, TypeOK, tables, identity, work
<1>3. \A q \in Requests : Uncommitted(q) => Uncommitted(q)'
  BY <1>2 DEF Uncommitted
<1>4. Progress'
  BY <1>1, <1>2, <1>3 DEF Progress, Unborn
<1>5. VersionKey'
  BY <1>1, <1>2 DEF VersionKey
<1>6. Owner' /\ Stored'
  BY <1>1, <1>2, <1>3 DEF Owner, Stored, Unborn, Uncommitted
<1>7. Logged'
  BY <1>1, <1>2 DEF Logged, Uncommitted, Typed, TypeOK
<1>8. Given'
  BY <1>1, <1>2 DEF Given, Uncommitted
<1>9. RecordedOnce' /\ SameAnswer'
  BY <1>1, <1>2 DEF RecordedOnce, SameAnswer, Uncommitted, Typed, TypeOK
<1> QED
  BY <1>4, <1>5, <1>6, <1>7, <1>8, <1>9

LEMMA AbandonStep ==
  ASSUME Once, Typed', NEW r \in Requests, Abandon(r)
  PROVE  Once'
<1> USE NobodyAssumption DEF Once, Early
<1>1. /\ pc[r] = "releasing" /\ key[r] \in Keys
      /\ pc' = [pc EXCEPT ![r] = "unavailable"]
      /\ UNCHANGED <<events, key, digest, version, outcome, answer>>
  BY DEF Abandon, Typed, Identified, identity, claim, work
<1>2. CASE UNCHANGED row
  BY <1>1, <1>2, QuietStep DEF Typed, TypeOK, BeforeCommit, Steps, identity
<1>3. CASE /\ Holds(r, readClock[r])
           /\ row' = [row EXCEPT ![key[r]] = Released(key[r], "ABANDONED", Nobody)]
  <2> DEFINE k == key[r]
  <2>1. /\ row[k].state = "IN_PROGRESS" /\ row[k].response = Nobody
        /\ row[k].creator # Nobody
    BY <1>1, <1>3 DEF Holds, Typed, TypeOK, Shaped
  <2>2. /\ row'[k].creator = row[k].creator /\ row'[k].claim = Nobody
        /\ row'[k].digest = row[k].digest /\ row'[k].response = Nobody
        /\ \A j \in Keys \ {k} : row'[j] = row[j]
    BY <1>1, <1>3 DEF Released, Typed, TypeOK, Row
  <2>3. \A q \in Requests : Uncommitted(q) => Uncommitted(q)'
    BY <1>1, <2>2 DEF Uncommitted
  <2>4. Progress'
    BY <1>1, <2>2, <2>3 DEF Progress, Unborn, BeforeCommit, Steps, Typed, TypeOK
  <2>5. VersionKey'
    BY <1>1, <2>2 DEF VersionKey, Typed, TypeOK
  <2>6. Owner' /\ Stored'
    BY <1>1, <2>2, <2>3 DEF Owner, Stored
  <2>7. Logged'
    BY <1>1, <2>1, <2>2 DEF Logged, Typed, TypeOK, Identified
  <2>8. Given'
    BY <1>1, <2>1, <2>2 DEF Given, Typed, TypeOK, Identified
  <2>9. RecordedOnce' /\ SameAnswer'
    BY <1>1 DEF RecordedOnce, SameAnswer
  <2> QED
    BY <2>4, <2>5, <2>6, <2>7, <2>8, <2>9
<1> QED
  BY <1>2, <1>3 DEF Abandon

(* A deleted row's version is gone for good; what it knew is history.      *)
LEMMA PurgeStep ==
  ASSUME Once, Typed', Purge
  PROVE  Once'
<1> USE NobodyAssumption DEF Once, Early
<1>1. /\ \A k \in Keys : row'[k] = row[k] \/ row'[k] = NoRow
      /\ UNCHANGED <<events, pc, key, digest, version, outcome, answer>>
  BY DEF Purge, identity, claim, work
<1>2. NoRow.creator = Nobody /\ NoRow.claim = Nobody /\ NoRow.response = Nobody
  BY DEF NoRow
<1>3. \A q \in Requests : Uncommitted(q) => Uncommitted(q)'
  BY <1>1, <1>2 DEF Uncommitted
<1>4. Progress'
  BY <1>1, <1>2, <1>3 DEF Progress, Unborn
<1>5. VersionKey'
  BY <1>1, <1>2 DEF VersionKey
<1>6. Owner' /\ Stored'
  BY <1>1, <1>2, <1>3 DEF Owner, Stored
<1>7. Logged'
  BY <1>1, <1>2 DEF Logged, Typed, TypeOK, Identified
<1>8. Given'
  BY <1>1, <1>2 DEF Given, Typed, TypeOK, Identified
<1>9. RecordedOnce' /\ SameAnswer'
  BY <1>1 DEF RecordedOnce, SameAnswer
<1> QED
  BY <1>4, <1>5, <1>6, <1>7, <1>8, <1>9

(* Every other step of a request only moves it on.                         *)
LEMMA OtherSteps ==
  ASSUME Once, Typed', NEW r \in Requests,
         \/ ClaimVanished(r) \/ ClaimConflict(r) \/ ClaimBusy(r)
         \/ DatabaseError(r) \/ Crash(r) \/ Generate(r) \/ Execute(r)
         \/ ExecuteFails(r) \/ AbandonReadsClock(r) \/ CommitReadsClock(r)
         \/ CommitLost(r) \/ RecordScopeGap(r) \/ AnswerFromTemplate(r)
  PROVE  Once'
<1> USE DEF Once, Typed, tables, identity, claim, work, BeforeCommit, Steps, TypeOK
<1>1. CASE ClaimVanished(r) \/ ClaimConflict(r) \/ ClaimBusy(r)
  BY <1>1, QuietStep DEF ClaimVanished, ClaimConflict, ClaimBusy, Matches
<1>2. CASE DatabaseError(r) \/ Crash(r)
  BY <1>2, QuietStep DEF DatabaseError, Crash
<1>3. CASE Generate(r) \/ ExecuteFails(r)
  BY <1>3, QuietStep DEF Generate, ExecuteFails, AfterFailure
<1>4. CASE Execute(r)
  <2>1. PICK o : outcome' = [outcome EXCEPT ![r] = o]
    BY <1>4 DEF Execute
  <2> QED
    BY <1>4, <2>1, QuietStep DEF Execute
<1>5. CASE AbandonReadsClock(r) \/ CommitReadsClock(r) \/ CommitLost(r)
  BY <1>5, QuietStep DEF AbandonReadsClock, CommitReadsClock, CommitLost
<1>6. CASE RecordScopeGap(r) \/ AnswerFromTemplate(r)
  BY <1>6, QuietStep DEF RecordScopeGap, AnswerFromTemplate
<1> QED
  BY <1>1, <1>2, <1>3, <1>4, <1>5, <1>6

LEMMA OnceStep ==
  ASSUME Once, [Next]_vars
  PROVE  Once'
<1>1. Typed'
  BY TypedStep DEF Once
<1>2. CASE UNCHANGED vars \/ Tick
  BY <1>1, <1>2, QuietStep DEF vars, Tick, tables, identity, claim, work
<1>3. CASE Purge
  BY <1>1, <1>3, PurgeStep
<1>4. ASSUME NEW r \in Requests, RequestStep(r)
      PROVE  Once'
  <2>1. CASE ClaimInsert(r)
    <3>1. key[r] \in Keys /\ readClock[r] \in Nat
      BY <2>1 DEF ClaimInsert, Once, Typed, TypeOK, Identified
    <3> QED
      BY <1>1, <2>1, <3>1, NewVersion DEF ClaimInsert, work
  <2>2. CASE ClaimExpired(r)
    <3>1. key[r] \in Keys /\ now \in Nat
      BY <2>2 DEF ClaimExpired, Once, Typed, TypeOK, Identified
    <3> QED
      BY <1>1, <2>2, <3>1, NewVersion DEF ClaimExpired, work
  <2> QED
    BY <1>1, <1>4, <2>1, <2>2, ArrivalStep, SeesRowStep, TakeoverStep, ReplayStep, CommitStep,
       AbandonStep, OtherSteps DEF RequestStep, Claim, Answer
<1> QED
  BY <1>2, <1>3, <1>4 DEF Next, RequestStep

LEMMA OnceInit == Init => Once
<1> SUFFICES ASSUME Init PROVE Once
  OBVIOUS
<1>1. Typed
  BY TypedInit
<1>2. \A r \in Requests : Uncommitted(r) /\ Unborn(r)
  BY NobodyAssumption DEF Init, Uncommitted, Unborn, NoRow
<1> QED
  BY <1>1, <1>2, NobodyAssumption DEF Init, Once, Progress, VersionKey, Owner, Stored,
     Logged, Given, RecordedOnce, SameAnswer, NoRow

LEMMA AlwaysOnce == Spec => []Once
BY OnceInit, OnceStep, PTL DEF Spec

(* However requests with one key race, retry, crash and lapse, the event   *)
(* log has at most one interaction per life of the key's row.              *)
THEOREM RecordsOnce == Spec => []RecordedOnce
<1>1. Once => RecordedOnce
  BY DEF Once
<1> QED
  BY <1>1, AlwaysOnce, PTL

(* A completed row has its event, and an event of a living row is the      *)
(* event of its stored response.                                           *)
THEOREM StoresWithEvent == Spec => []StoredWithEvent
<1>1. Once => StoredWithEvent
  BY NobodyAssumption DEF Once, Stored, Logged, StoredWithEvent, Typed, TypeOK,
     Identified, Shaped, Row
<1> QED
  BY <1>1, AlwaysOnce, PTL

(* First-hand or replayed, clients of one row version got one answer, and  *)
(* it was made for their key and their body.                               *)
THEOREM AnswersAgree == Spec => []DurableAnswersAgree
<1>1. Once => DurableAnswersAgree
  BY DEF Once, Given, SameAnswer, DurableAnswersAgree, Typed, TypeOK
<1> QED
  BY <1>1, AlwaysOnce, PTL

-----------------------------------------------------------------------------
(* What a step may never do to a stored response.                          *)

(* The five things a request can do to the table.                          *)
Inserts(r) == \E k \in Keys, t \in Nat :
  (~Present(k) \/ Expired(k)) /\ row' = [row EXCEPT ![k] = Fresh(r, t)]
TakesOver(r) == \E k \in Keys :
  Present(k) /\ Claimable(k) /\ row' = [row EXCEPT ![k] = Retaken(k, r)]
Ends(r) == \E k \in Keys :
  /\ row[k].state = "IN_PROGRESS" /\ row[k].claim = r
  /\ \/ row' = [row EXCEPT ![k] = Released(k, "COMPLETED", r)]
     \/ row' = [row EXCEPT ![k] = Released(k, "ABANDONED", Nobody)]

LEMMA RowSteps ==
  ASSUME Typed, NEW r \in Requests, RequestStep(r)
  PROVE  UNCHANGED row \/ Inserts(r) \/ TakesOver(r) \/ Ends(r)
<1> USE DEF Typed
<1>1. CASE ClaimInsert(r)
  BY <1>1 DEF ClaimInsert, Identified, TypeOK, Inserts
<1>2. CASE ClaimExpired(r)
  BY <1>2 DEF ClaimExpired, Identified, TypeOK, Inserts
<1>3. CASE ClaimTakeover(r)
  BY <1>3 DEF ClaimTakeover, Matches, Identified, TakesOver
<1>4. CASE Commit(r)
  BY <1>4 DEF Commit, Holds, Identified, Ends
<1>5. CASE Abandon(r)
  BY <1>5 DEF Abandon, Holds, Identified, Ends
<1>6. ASSUME NEW k \in Keys, NEW d \in Digests, ClaimReadsClock(r, k, d)
      PROVE  UNCHANGED row
  BY <1>6 DEF ClaimReadsClock, tables
<1>7. CASE ClaimSeesRow(r) \/ ClaimVanished(r) \/ ClaimConflict(r) \/ ClaimReplay(r)
           \/ ClaimBusy(r)
  BY <1>7 DEF ClaimSeesRow, ClaimVanished, ClaimConflict, ClaimReplay, ClaimBusy, tables
<1>8. CASE Generate(r) \/ Execute(r) \/ ExecuteFails(r) \/ AbandonReadsClock(r)
           \/ CommitReadsClock(r)
  BY <1>8 DEF Generate, Execute, ExecuteFails, AbandonReadsClock, CommitReadsClock,
              tables
<1>9. CASE CommitLost(r) \/ RecordScopeGap(r) \/ AnswerFromTemplate(r)
           \/ DatabaseError(r) \/ Crash(r)
  BY <1>9 DEF CommitLost, RecordScopeGap, AnswerFromTemplate, DatabaseError, Crash,
              tables
<1> QED
  BY <1>1, <1>2, <1>3, <1>4, <1>5, <1>6, <1>7, <1>8, <1>9
     DEF RequestStep, Claim, Answer

(* A stored response stays as it is until the 24 hours are over.           *)
THEOREM StoredUntilExpiry == Spec => CompletedUntilExpiry
<1> DEFINE Step == \A k \in Keys : row[k].state = "COMPLETED" =>
                     row'[k] = row[k] \/ Expired(k)
<1>1. ASSUME Typed, [Next]_vars
      PROVE  [Step]_vars
  <2>1. ASSUME NEW r \in Requests, RequestStep(r)
        PROVE  Step
    <3>1. CASE Inserts(r)
      BY <1>1, <3>1 DEF Inserts, Present, Typed, TypeOK
    <3>2. CASE TakesOver(r)
      BY <1>1, <3>2 DEF TakesOver, Claimable, Typed, TypeOK
    <3>3. CASE Ends(r)
      BY <1>1, <3>3 DEF Ends, Typed, TypeOK
    <3> QED
      BY <1>1, <2>1, <3>1, <3>2, <3>3, RowSteps
  <2>2. CASE Purge
    BY <2>2 DEF Purge
  <2>3. CASE Tick
    BY <2>3 DEF Tick, tables
  <2> QED
    BY <1>1, <2>1, <2>2, <2>3 DEF Next, RequestStep
<1>2. Spec => []Typed
  BY TypedInit, TypedStep, PTL DEF Spec
<1> QED
  BY <1>1, <1>2, PTL DEF Spec, CompletedUntilExpiry

-----------------------------------------------------------------------------
(* Why a provider call joins another only when a lease has lapsed.  A      *)
(* request keeps the right to call the generator while it executes, even   *)
(* after it lost its claim, so the argument is about everyone who has      *)
(* called it or still may.                                                 *)

(* No clock that was read is ahead of the clock.                           *)
ClocksPast == \A r \in Requests : readClock[r] <= now /\ claimedAt[r] <= now

LEMMA ClocksPastStep ==
  ASSUME Typed, ClocksPast, [Next]_vars
  PROVE  ClocksPast'
<1> USE DEF ClocksPast, Typed, TypeOK, tables, claim, work
<1>1. CASE UNCHANGED vars \/ Purge
  BY <1>1 DEF vars, Purge
<1>2. CASE Tick
  BY <1>2 DEF Tick
<1>3. ASSUME NEW r \in Requests, Claim(r)
      PROVE  ClocksPast'
  <2>1. ASSUME NEW k \in Keys, NEW d \in Digests, ClaimReadsClock(r, k, d)
        PROVE  ClocksPast'
    BY <2>1 DEF ClaimReadsClock
  <2>2. CASE ClaimInsert(r) \/ ClaimExpired(r) \/ ClaimTakeover(r)
    BY <2>2 DEF ClaimInsert, ClaimExpired, ClaimTakeover, Acquire
  <2>3. CASE ClaimSeesRow(r) \/ ClaimVanished(r) \/ ClaimConflict(r)
             \/ ClaimReplay(r) \/ ClaimBusy(r)
    BY <2>3 DEF ClaimSeesRow, ClaimVanished, ClaimConflict, ClaimReplay, ClaimBusy
  <2> QED
    BY <1>3, <2>1, <2>2, <2>3 DEF Claim
<1>4. ASSUME NEW r \in Requests, AbandonReadsClock(r) \/ CommitReadsClock(r)
      PROVE  ClocksPast'
  BY <1>4 DEF AbandonReadsClock, CommitReadsClock
<1>5. ASSUME NEW r \in Requests,
             \/ Generate(r) \/ Execute(r) \/ ExecuteFails(r) \/ Abandon(r)
             \/ Commit(r) \/ CommitLost(r) \/ RecordScopeGap(r)
             \/ AnswerFromTemplate(r) \/ DatabaseError(r) \/ Crash(r)
      PROVE  ClocksPast'
  BY <1>5 DEF Generate, Execute, ExecuteFails, Abandon, Commit, CommitLost,
              RecordScopeGap, AnswerFromTemplate, DatabaseError, Crash
<1> QED
  BY <1>1, <1>2, <1>3, <1>4, <1>5 DEF Next, Answer

MayGenerate(r) == started[r] \/ pc[r] = "executing"

LeaseBetween(s, r) == claimedAt[s] + Lease <= claimedAt[r]

(* Where a request has not called the generator.                           *)
BeforeCall == Early \cup {"selecting", "template", "abandoning", "releasing"}

(* The claims of one row version are dated a lease apart; whoever holds    *)
(* the row came last; when it is given back, every other lease is over.    *)
LeasesApart ==
  /\ \A r, s \in Requests :
       r # s /\ MayGenerate(r) /\ MayGenerate(s) /\ version[r] = version[s] =>
         LeaseBetween(r, s) \/ LeaseBetween(s, r)
  /\ \A k \in Keys, c \in Requests : row[k].claim = c =>
       /\ row[k].lease = claimedAt[c] + Lease /\ claimedAt[c] <= now
       /\ \A s \in Requests \ {c} :
            MayGenerate(s) /\ version[s] = row[k].creator => LeaseBetween(s, c)
  /\ \A k \in Keys, s \in Requests :
       row[k].state = "ABANDONED" /\ MayGenerate(s) /\ version[s] = row[k].creator =>
         claimedAt[s] + Lease <= now
  /\ \A r \in Requests :
       pc[r] \in BeforeCall => ~started[r]

(* A step that acquires nothing and starts nobody new.                     *)
LEMMA LeasesQuiet ==
  ASSUME Once, LeasesApart, UNCHANGED claimedAt, now' \in Nat, now <= now',
         \A k \in Keys : row'[k] = row[k] \/ row'[k].state \in {"NONE", "COMPLETED"},
         \A k \in Keys : row'[k] # row[k] => row'[k].claim = Nobody,
         \A r \in Requests :
           /\ MayGenerate(r)' => MayGenerate(r) /\ version'[r] = version[r]
           /\ pc'[r] \in BeforeCall => ~started'[r]
  PROVE  LeasesApart'
<1> USE NobodyAssumption DEF LeasesApart, LeaseBetween
<1>1. \A r, s \in Requests :
        r # s /\ MayGenerate(r)' /\ MayGenerate(s)' /\ version'[r] = version'[s] =>
          LeaseBetween(r, s)' \/ LeaseBetween(s, r)'
  OBVIOUS
<1>2. \A s \in Requests : claimedAt[s] \in Nat /\ now \in Nat /\ Lease \in Nat
  BY TimeAssumption DEF Once, Typed, TypeOK
<1>3. \A k \in Keys, c \in Requests : row'[k].claim = c =>
        /\ row'[k].lease = claimedAt'[c] + Lease /\ claimedAt'[c] <= now'
        /\ \A s \in Requests \ {c} :
             MayGenerate(s)' /\ version'[s] = row'[k].creator => LeaseBetween(s, c)'
  BY <1>2
<1>4. \A k \in Keys, s \in Requests :
        row'[k].state = "ABANDONED" /\ MayGenerate(s)' /\ version'[s] = row'[k].creator
          => claimedAt'[s] + Lease <= now'
  BY <1>2
<1> QED
  BY <1>1, <1>3, <1>4

(* A request that becomes the holder of row k, a lease after everyone who  *)
(* has called the generator under the version it now has.                  *)
LEMMA LeasesAcquire ==
  ASSUME Once, Once', LeasesApart, NEW r \in Requests, NEW k \in Keys, NEW v \in Requests,
         NEW t \in Nat, t <= now, pc[r] \in {"claiming", "selecting"}, Acquire(r, v, t),
         UNCHANGED <<now, started>>,
         \A j \in Keys \ {k} : row'[j] = row[j] /\ row[j].creator # v,
         row'[k].claim = r, row'[k].lease = t + Lease, row'[k].creator = v,
         row'[k].state = "IN_PROGRESS",
         \A s \in Requests \ {r} : MayGenerate(s) /\ version[s] = v =>
           claimedAt[s] + Lease <= t
  PROVE  LeasesApart'
<1> USE NobodyAssumption DEF LeaseBetween, BeforeCall, Early
<1>1. /\ version'[r] = v /\ claimedAt'[r] = t /\ now' = now
      /\ pc'[r] \in {"executing", "unavailable"} /\ ~started'[r]
      /\ \A s \in Requests \ {r} :
           /\ version'[s] = version[s] /\ claimedAt'[s] = claimedAt[s]
           /\ pc'[s] = pc[s] /\ started'[s] = started[s]
           /\ MayGenerate(s)' <=> MayGenerate(s)
  BY DEF Acquire, Once, Typed, TypeOK, LeasesApart, MayGenerate
<1>2. \A j \in Keys : row[j].claim # r
  BY DEF Once, Progress, Unborn
<1>3. \A s \in Requests : claimedAt[s] \in Nat /\ now \in Nat /\ Lease \in Nat
  BY TimeAssumption DEF Once, Typed, TypeOK
<1>4. \A q, s \in Requests :
        q # s /\ MayGenerate(q)' /\ MayGenerate(s)' /\ version'[q] = version'[s] =>
          LeaseBetween(q, s)' \/ LeaseBetween(s, q)'
  BY <1>1 DEF LeasesApart
<1>5. \A j \in Keys, c \in Requests : row'[j].claim = c =>
        /\ row'[j].lease = claimedAt'[c] + Lease /\ claimedAt'[c] <= now'
        /\ \A s \in Requests \ {c} :
             MayGenerate(s)' /\ version'[s] = row'[j].creator => LeaseBetween(s, c)'
  <2>1. ASSUME NEW j \in Keys \ {k}, NEW c \in Requests, row[j].claim = c
        PROVE  /\ row'[j].lease = claimedAt'[c] + Lease /\ claimedAt'[c] <= now'
                 /\ \A s \in Requests \ {c} :
                      MayGenerate(s)' /\ version'[s] = row'[j].creator =>
                        LeaseBetween(s, c)'
      BY <1>1, <1>2, <2>1 DEF LeasesApart
  <2>2. /\ row'[k].lease = claimedAt'[r] + Lease /\ claimedAt'[r] <= now'
          /\ \A s \in Requests \ {r} :
               MayGenerate(s)' /\ version'[s] = row'[k].creator => LeaseBetween(s, r)'
      BY <1>1, <1>3
  <2> QED
      BY <2>1, <2>2
<1>6. \A j \in Keys, s \in Requests :
        row'[j].state = "ABANDONED" /\ MayGenerate(s)' /\ version'[s] = row'[j].creator
          => claimedAt'[s] + Lease <= now'
  BY <1>1 DEF LeasesApart
<1>7. \A s \in Requests :
        pc'[s] \in BeforeCall => ~started'[s]
  BY <1>1 DEF LeasesApart
<1> QED
  BY <1>4, <1>5, <1>6, <1>7 DEF LeasesApart

(* Giving the claim back ends a lease nobody generated under.              *)
LEMMA LeasesAbandon ==
  ASSUME Once, LeasesApart, NEW r \in Requests, Abandon(r)
  PROVE  LeasesApart'
<1> USE NobodyAssumption DEF BeforeCall, Early
<1>1. /\ pc[r] = "releasing" /\ key[r] \in Keys /\ ~started[r]
      /\ pc' = [pc EXCEPT ![r] = "unavailable"]
      /\ UNCHANGED <<now, version, claimedAt, started>>
  BY DEF Abandon, Once, Typed, Identified, LeasesApart, claim, work
<1>2. \A s \in Requests : MayGenerate(s)' => s # r /\ MayGenerate(s)
  BY <1>1 DEF MayGenerate, Once, Typed, TypeOK
<1>3. CASE UNCHANGED row
  BY <1>1, <1>2, <1>3, LeasesQuiet DEF LeasesApart, Once, Typed, TypeOK
<1>4. CASE /\ Holds(r, readClock[r])
           /\ row' = [row EXCEPT ![key[r]] = Released(key[r], "ABANDONED", Nobody)]
  <2> DEFINE k == key[r]
  <2>1. /\ row[k].claim = r /\ row'[k].claim = Nobody
        /\ row'[k].creator = row[k].creator
        /\ \A j \in Keys \ {k} : row'[j] = row[j]
    BY <1>1, <1>4 DEF Holds, Released, Once, Typed, TypeOK, Row
  <2>2. \A s \in Requests : claimedAt[s] \in Nat /\ now \in Nat /\ Lease \in Nat
    BY TimeAssumption DEF Once, Typed, TypeOK
  <2>3. \A s \in Requests : MayGenerate(s)' /\ version[s] = row[k].creator =>
          claimedAt[s] + Lease <= now
    BY <1>1, <1>2, <2>1, <2>2 DEF LeasesApart, LeaseBetween
  <2>4. \A q \in Requests :
          pc'[q] \in BeforeCall => ~started'[q]
    BY <1>1 DEF LeasesApart, Once, Typed, TypeOK
  <2> QED
    BY <1>1, <1>2, <2>1, <2>3, <2>4 DEF LeasesApart, LeaseBetween
<1> QED
  BY <1>3, <1>4 DEF Abandon

LEMMA LeasesClaim ==
  ASSUME Once, Once', LeasesApart, ClocksPast, NEW r \in Requests, Claim(r)
  PROVE  LeasesApart'
<1> USE NobodyAssumption
<1>1. CASE ClaimInsert(r)
  <2> DEFINE k == key[r]
             t == readClock[r]
  <2>1. k \in Keys /\ pc[r] = "claiming" /\ t \in Nat /\ t <= now
    BY <1>1 DEF ClaimInsert, ClocksPast, Once, Typed, TypeOK, Identified
  <2>2. /\ \A j \in Keys \ {k} : row'[j] = row[j] /\ row[j].creator # r
        /\ \A s \in Requests : version[s] # r
        /\ row'[k] = Fresh(r, t)
    BY <1>1, <2>1 DEF ClaimInsert, Once, Typed, TypeOK, Progress, Unborn
  <2>3. /\ row'[k].claim = r /\ row'[k].lease = t + Lease /\ row'[k].creator = r
        /\ row'[k].state = "IN_PROGRESS"
    BY <2>2 DEF Fresh
  <2> QED
    BY <1>1, <2>1, <2>2, <2>3, LeasesAcquire DEF ClaimInsert, work
<1>2. CASE ClaimExpired(r)
  <2> DEFINE k == key[r]
  <2>1. k \in Keys /\ pc[r] = "selecting"
    BY <1>2 DEF ClaimExpired, Once, Typed, Identified
  <2>2. /\ \A j \in Keys \ {k} : row'[j] = row[j] /\ row[j].creator # r
        /\ \A s \in Requests : version[s] # r
        /\ row'[k] = Fresh(r, now)
    BY <1>2, <2>1 DEF ClaimExpired, Once, Typed, TypeOK, Progress, Unborn
  <2>3. /\ row'[k].claim = r /\ row'[k].lease = now + Lease /\ row'[k].creator = r
        /\ row'[k].state = "IN_PROGRESS" /\ now \in Nat /\ now <= now
    BY <2>2 DEF Fresh, Once, Typed, TypeOK
  <2> QED
    BY <1>2, <2>1, <2>2, <2>3, LeasesAcquire DEF ClaimExpired, work
<1>3. CASE ClaimTakeover(r)
  <2> DEFINE k == key[r]
  <2>1. /\ k \in Keys /\ pc[r] = "selecting" /\ row[k].creator \in Requests
        /\ row[k].state \in {"IN_PROGRESS", "ABANDONED"}
        /\ row[k].state = "IN_PROGRESS" => row[k].lease <= now
    BY <1>3 DEF ClaimTakeover, Claimable, LiveClaim, Matches, Present, Once, Typed,
                TypeOK, Identified, Shaped, Row, States
  <2>2. \A j \in Keys \ {k} : row'[j] = row[j] /\ row[j].creator # row[k].creator
    BY <1>3, <2>1 DEF ClaimTakeover, Once, VersionKey, Typed, TypeOK
  <2>3. row'[k] = Retaken(k, r)
    BY <1>3, <2>1 DEF ClaimTakeover, Once, Typed, TypeOK
  <2>4. /\ row'[k].claim = r /\ row'[k].lease = now + Lease
        /\ row'[k].creator = row[k].creator /\ row'[k].state = "IN_PROGRESS"
    BY <2>1, <2>3 DEF Retaken, Once, Typed, TypeOK, Row
  <2>5. \A s \in Requests : claimedAt[s] \in Nat /\ now \in Nat /\ Lease \in Nat
    BY TimeAssumption DEF Once, Typed, TypeOK
  <2>6. ASSUME NEW s \in Requests \ {r}, MayGenerate(s), version[s] = row[k].creator
        PROVE  claimedAt[s] + Lease <= now
    <3>1. CASE row[k].state = "ABANDONED"
      BY <2>1, <2>6, <3>1 DEF LeasesApart
    <3>2. CASE row[k].state = "IN_PROGRESS"
      <4>1. row[k].claim \in Requests
        BY <2>1, <3>2 DEF Once, Typed, TypeOK, Shaped, Row
      <4> QED
        BY <2>1, <2>5, <2>6, <3>2, <4>1 DEF LeasesApart, LeaseBetween
    <3> QED
      BY <2>1, <3>1, <3>2
  <2> QED
    BY <1>3, <2>1, <2>2, <2>4, <2>5, <2>6, LeasesAcquire DEF ClaimTakeover, work
<1>4. ASSUME NEW k \in Keys, NEW d \in Digests, ClaimReadsClock(r, k, d)
      PROVE  LeasesApart'
  BY <1>4, LeasesQuiet DEF ClaimReadsClock, tables, claim, MayGenerate, LeasesApart,
           BeforeCall, Early, Once, Typed, TypeOK
<1>5. CASE ClaimSeesRow(r) \/ ClaimReplay(r)
  BY <1>5, LeasesQuiet DEF ClaimSeesRow, ClaimReplay, Matches, tables, work,
           MayGenerate, LeasesApart, BeforeCall, Early, Once, Typed, TypeOK
<1>6. CASE ClaimVanished(r) \/ ClaimConflict(r) \/ ClaimBusy(r)
  BY <1>6, LeasesQuiet DEF ClaimVanished, ClaimConflict, ClaimBusy, Matches, tables,
           claim, work, MayGenerate, LeasesApart, BeforeCall, Early, Once, Typed, TypeOK
<1> QED
  BY <1>1, <1>2, <1>3, <1>4, <1>5, <1>6 DEF Claim

LEMMA LeasesAnswer ==
  ASSUME Once, LeasesApart, NEW r \in Requests,
         Answer(r) \/ DatabaseError(r) \/ Crash(r)
  PROVE  LeasesApart'
<1> USE DEF tables, claim, work, MayGenerate, BeforeCall, Early, Once, Typed, TypeOK
<1>1. CASE Generate(r)
  BY <1>1, LeasesQuiet DEF Generate, LeasesApart
<1>2. CASE Execute(r)
  BY <1>2, LeasesQuiet DEF Execute, LeasesApart
<1>3. CASE ExecuteFails(r)
  BY <1>3, LeasesQuiet DEF ExecuteFails, AfterFailure, LeasesApart
<1>4. CASE AbandonReadsClock(r)
  BY <1>4, LeasesQuiet DEF AbandonReadsClock, LeasesApart
<1>5. CASE Abandon(r)
  BY <1>5, LeasesAbandon
<1>6. CASE CommitReadsClock(r) \/ CommitLost(r)
  BY <1>6, LeasesQuiet DEF CommitReadsClock, CommitLost, LeasesApart
<1>7. CASE Commit(r)
  <2>1. key[r] \in Keys /\ pc[r] = "committing"
    BY <1>7 DEF Commit, Identified
  <2>2. /\ row'[key[r]].state = "COMPLETED" /\ row'[key[r]].claim = Nobody
        /\ \A k \in Keys \ {key[r]} : row'[k] = row[k]
    BY <1>7, <2>1 DEF Commit, Released, Row
  <2>3. \A q \in Requests : pc'[q] = pc[q] \/ pc'[q] \in {"gap", "replied", "unavailable"}
    BY <1>7 DEF Commit
  <2> QED
    BY <1>7, <2>1, <2>2, <2>3, LeasesQuiet DEF Commit, LeasesApart
<1>8. CASE RecordScopeGap(r) \/ AnswerFromTemplate(r) \/ DatabaseError(r)
  BY <1>8, LeasesQuiet DEF RecordScopeGap, AnswerFromTemplate, DatabaseError, LeasesApart
<1>9. CASE Crash(r)
  BY <1>9, LeasesQuiet DEF Crash, Steps, LeasesApart
<1> QED
  BY <1>1, <1>2, <1>3, <1>4, <1>5, <1>6, <1>7, <1>8, <1>9 DEF Answer

LEMMA LeasesStep ==
  ASSUME Once, LeasesApart, ClocksPast, [Next]_vars
  PROVE  LeasesApart'
<1>1. Once'
  BY OnceStep
<1>2. CASE UNCHANGED vars
  BY <1>2, LeasesQuiet DEF vars, MayGenerate, LeasesApart, BeforeCall, Early, Once, Typed, TypeOK
<1>3. CASE Purge
  BY <1>3, LeasesQuiet DEF Purge, NoRow, claim, work, MayGenerate, LeasesApart, BeforeCall, Early, Once,
                           Typed, TypeOK
<1>4. CASE Tick
  BY <1>4, LeasesQuiet DEF Tick, tables, claim, work, MayGenerate, LeasesApart, BeforeCall, Early, Once,
                           Typed, TypeOK
<1> QED
  BY <1>1, <1>2, <1>3, <1>4, LeasesClaim, LeasesAnswer DEF Next

(* Only Generate calls the generator.                                      *)
LEMMA OnlyGenerateStarts ==
  ASSUME Typed, [Next]_vars, NEW r \in Requests, ~started[r], started'[r]
  PROVE  pc[r] = "executing" /\ UNCHANGED <<now, claimedAt, version>>
<1> USE DEF Typed, TypeOK, tables, claim, work
<1>1. ASSUME NEW q \in Requests, Claim(q)
      PROVE  UNCHANGED started
  <2>1. ASSUME NEW k \in Keys, NEW d \in Digests, ClaimReadsClock(q, k, d)
        PROVE  UNCHANGED started
    BY <2>1 DEF ClaimReadsClock
  <2>2. CASE ClaimInsert(q) \/ ClaimSeesRow(q) \/ ClaimVanished(q) \/ ClaimExpired(q)
    BY <2>2 DEF ClaimInsert, ClaimSeesRow, ClaimVanished, ClaimExpired
  <2>3. CASE ClaimConflict(q) \/ ClaimReplay(q) \/ ClaimBusy(q) \/ ClaimTakeover(q)
    BY <2>3 DEF ClaimConflict, ClaimReplay, ClaimBusy, ClaimTakeover
  <2> QED
    BY <1>1, <2>1, <2>2, <2>3 DEF Claim
<1>2. ASSUME NEW q \in Requests,
             \/ Execute(q) \/ ExecuteFails(q) \/ AbandonReadsClock(q) \/ Abandon(q)
             \/ CommitReadsClock(q) \/ Commit(q) \/ CommitLost(q)
             \/ RecordScopeGap(q) \/ AnswerFromTemplate(q)
             \/ DatabaseError(q) \/ Crash(q)
      PROVE  UNCHANGED started
  BY <1>2 DEF Execute, ExecuteFails, AbandonReadsClock, Abandon, CommitReadsClock,
              Commit, CommitLost, RecordScopeGap, AnswerFromTemplate, DatabaseError,
              Crash
<1>3. ASSUME Purge \/ Tick \/ UNCHANGED vars
      PROVE  UNCHANGED started
  BY <1>3 DEF Purge, Tick, vars
<1>4. ~UNCHANGED started
  OBVIOUS
<1>5. PICK q \in Requests : Generate(q)
  <2> USE <1>4
  <2>1. PICK q \in Requests : Claim(q) \/ Answer(q) \/ DatabaseError(q) \/ Crash(q)
    BY <1>3 DEF Next
  <2>2. ~Claim(q)
    BY <1>1
  <2> QED
    BY <1>2, <2>1, <2>2 DEF Answer
<1> QED
  BY <1>5 DEF Generate

LEMMA AlwaysLeased == Spec => [](Once /\ ClocksPast /\ LeasesApart)
<1>1. Init => ClocksPast /\ LeasesApart
  BY NobodyAssumption DEF Init, ClocksPast, LeasesApart, MayGenerate, NoRow
<1>2. Once => Typed
  BY DEF Once
<1> QED
  BY <1>1, <1>2, OnceInit, OnceStep, ClocksPastStep, LeasesStep, PTL DEF Spec

(* No call of the generator joins another one of the same row unless one   *)
(* of the two requests is past its lease.                                  *)
THEOREM CallersApart == Spec => OneCallerPerLease
<1> DEFINE Step == \A r, q \in Requests :
             /\ r # q /\ ~started[r] /\ started'[r]
             /\ started[q] /\ version[q] = version[r]
             => LeaseEnd(q) <= now \/ LeaseEnd(r) <= now
<1>1. ASSUME Once, ClocksPast, LeasesApart, [Next]_vars
      PROVE  [Step]_vars
  <2>1. SUFFICES ASSUME NEW r \in Requests, NEW q \in Requests,
                        r # q, ~started[r], started'[r], started[q],
                        version[q] = version[r]
                 PROVE  LeaseEnd(q) <= now \/ LeaseEnd(r) <= now
    OBVIOUS
  <2>2. MayGenerate(r) /\ MayGenerate(q)
    BY <1>1, <2>1, OnlyGenerateStarts DEF Once, MayGenerate
  <2>3. LeaseBetween(r, q) \/ LeaseBetween(q, r)
    BY <1>1, <2>1, <2>2 DEF LeasesApart
  <2>4. /\ now \in Nat /\ Lease \in Nat
        /\ claimedAt[r] \in Nat /\ claimedAt[r] <= now
        /\ claimedAt[q] \in Nat /\ claimedAt[q] <= now
    BY <1>1, TimeAssumption DEF Once, Typed, TypeOK, ClocksPast
  <2> QED
    BY <2>3, <2>4 DEF LeaseBetween, LeaseEnd
<1> QED
  BY <1>1, AlwaysLeased, PTL DEF Spec, OneCallerPerLease

(* Why a lease protects.  A claim is taken from its holder by the holder   *)
(* itself, by a retry once the lease has lapsed, or with its whole row     *)
(* once that has expired; both dates are the ones the holder knows.        *)

Dated == \A k \in Keys : Present(k) => row[k].expires = claimedAt[row[k].creator] + TTL

Kept ==
  \A r \in Requests :
    pc[r] \in {"executing", "executed"} /\ now < LeaseEnd(r) /\ now < ExpiryOf(r)
      => row[key[r]].claim = r

(* A step that claims nothing and leaves the rows alone, except for the    *)
(* expired ones, or one of its own that it is done with.                   *)
LEMMA KeptQuiet ==
  ASSUME Once, Dated, Kept, NEW r \in Requests,
         UNCHANGED claimedAt, now' \in Nat, now <= now',
         \A q \in Requests : pc'[q] \in {"executing", "executed"} =>
           /\ pc[q] \in {"executing", "executed"}
           /\ version'[q] = version[q] /\ key'[q] = key[q],
         \A k \in Keys :
           \/ row'[k] = row[k]
           \/ Expired(k) /\ row'[k] = NoRow
           \/ /\ row[k].claim = r /\ pc'[r] \notin {"executing", "executed"}
              /\ row'[k].expires = row[k].expires
              /\ row'[k].creator = row[k].creator /\ Present(k)
  PROVE  Dated' /\ Kept'
<1> USE NobodyAssumption
<1>1. Dated'
  BY DEF Dated, Present, NoRow
<1>2. ASSUME NEW q \in Requests, pc'[q] \in {"executing", "executed"},
             now' < LeaseEnd(q)', now' < ExpiryOf(q)'
      PROVE  row'[key'[q]].claim = q
  <2> DEFINE k == key[q]
  <2>1. /\ pc[q] \in {"executing", "executed"} /\ key'[q] = k
        /\ version'[q] = version[q] /\ k \in Keys
    BY <1>2 DEF Once, Typed, Identified
  <2>2. now < LeaseEnd(q) /\ now < ExpiryOf(q)
    <3>1. LeaseEnd(q)' = LeaseEnd(q) /\ ExpiryOf(q)' = ExpiryOf(q)
      BY <2>1 DEF LeaseEnd, ExpiryOf
    <3>2. /\ now \in Nat /\ Lease \in Nat /\ TTL \in Nat /\ claimedAt[q] \in Nat
          /\ version[q] \in Requests /\ claimedAt[version[q]] \in Nat
      BY <2>1, TimeAssumption DEF Once, Typed, TypeOK, Identified, Steps, Early
    <3> QED
      BY <1>2, <3>1, <3>2 DEF LeaseEnd, ExpiryOf
  <2>3. row[k].claim = q
    BY <2>1, <2>2 DEF Kept
  <2>4. ~Expired(k)
    BY <2>1, <2>2, <2>3, TimeAssumption
       DEF Dated, Expired, Present, ExpiryOf, Once, Owner, Typed, TypeOK, Row
  <2> QED
    BY <1>2, <2>1, <2>3, <2>4
<1> QED
  BY <1>1, <1>2 DEF Kept

(* A request that makes or takes over row k, at clock t.                   *)
LEMMA KeptAcquire ==
  ASSUME Once, LeasesApart, Dated, Kept, NEW r \in Requests, NEW t \in Nat,
         NEW v \in Requests, NEW k \in Keys, k = key[r],
         pc[r] \in {"claiming", "selecting"}, Acquire(r, v, t),
         UNCHANGED <<now, identity>>,
         \A j \in Keys \ {k} : row'[j] = row[j],
         row'[k].claim = r, row'[k].creator = v,
         row'[k].expires = claimedAt'[v] + TTL,
         ~Present(k) \/ Expired(k) \/ (row[k].creator = v /\ Claimable(k))
  PROVE  Dated' /\ Kept'
<1> USE NobodyAssumption
<1>1. /\ claimedAt'[r] = t /\ version'[r] = v
      /\ \A q \in Requests \ {r} :
           claimedAt'[q] = claimedAt[q] /\ version'[q] = version[q] /\ pc'[q] = pc[q]
  BY DEF Acquire, Once, Typed, TypeOK
<1>2. Unborn(r)
  BY DEF Once, Progress
<1>3. Dated'
  <2>1. \A j \in Keys \ {k} : Present(j) => row[j].creator \in Requests \ {r}
    BY <1>2 DEF Unborn, Present, Once, Typed, TypeOK, Shaped, Row
  <2> QED
    BY <1>1, <2>1 DEF Dated, Present
<1>4. ASSUME NEW q \in Requests \ {r}, pc'[q] \in {"executing", "executed"},
             now' < LeaseEnd(q)', now' < ExpiryOf(q)'
      PROVE  row'[key'[q]].claim = q
  <2>1. /\ pc[q] \in {"executing", "executed"} /\ key'[q] = key[q]
        /\ version[q] \in Requests \ {r} /\ key[q] \in Keys
    BY <1>1, <1>2, <1>4 DEF Unborn, identity, Once, Typed, Identified, Steps, Early
  <2>2. now < LeaseEnd(q) /\ now < ExpiryOf(q)
    BY <1>1, <1>4, <2>1 DEF LeaseEnd, ExpiryOf
  <2>3. row[key[q]].claim = q
    BY <2>1, <2>2 DEF Kept
  <2>4. key[q] # k
    <3>1. SUFFICES ASSUME key[q] = k PROVE FALSE
      OBVIOUS
    <3>2. /\ row[k].claim = q /\ row[k].state = "IN_PROGRESS" /\ Present(k)
          /\ row[k].creator = version[q] /\ row[k].lease = LeaseEnd(q)
      BY <2>3, <3>1 DEF Once, Owner, Typed, TypeOK, Shaped, LeasesApart, LeaseEnd, Present
    <3>3. row[k].expires = ExpiryOf(q)
      BY <3>2 DEF Dated, ExpiryOf
    <3>4. LiveClaim(k) /\ ~Expired(k)
      BY <2>2, <3>2, <3>3, TimeAssumption
         DEF LiveClaim, Expired, LeaseEnd, ExpiryOf, Once, Typed, TypeOK, Row
    <3> QED
      BY <3>2, <3>4 DEF Claimable
  <2> QED
    BY <2>1, <2>3, <2>4
<1> QED
  BY <1>3, <1>4 DEF Kept, identity

LEMMA KeptStep ==
  ASSUME Once, ClocksPast, LeasesApart, Dated, Kept, [Next]_vars
  PROVE  Dated' /\ Kept'
<1> USE NobodyAssumption DEF tables, identity, claim, work
<1>1. now \in Nat /\ now <= now
  BY DEF Once, Typed, TypeOK
<1>2. CASE Requests = {}
  <2>1. CASE Purge
    BY <1>2, <2>1 DEF Purge, Dated, Present, Kept, NoRow
  <2>2. CASE Tick
    BY <1>2, <2>2 DEF Tick, Dated, Present, Kept
  <2> QED
    BY <1>2, <2>1, <2>2 DEF Next, vars, Dated, Present, Kept
<1>3. ASSUME NEW r \in Requests, Purge \/ Tick \/ UNCHANGED vars
      PROVE  Dated' /\ Kept'
  <2>1. /\ UNCHANGED <<claimedAt, pc, version, key>> /\ now' \in Nat /\ now <= now'
        /\ \A k \in Keys : row'[k] = row[k] \/ (Expired(k) /\ row'[k] = NoRow)
    BY <1>1, <1>3 DEF Purge, Tick, vars
  <2> QED
    BY <2>1, KeptQuiet
<1>4. ASSUME NEW r \in Requests, ClaimInsert(r)
      PROVE  Dated' /\ Kept'
  <2> DEFINE k == key[r]
             t == readClock[r]
  <2>1. k \in Keys /\ t \in Nat /\ pc[r] = "claiming" /\ Acquire(r, r, t) /\ ~Present(k)
    BY <1>4 DEF ClaimInsert, Once, Typed, TypeOK, Identified
  <2>2. /\ \A j \in Keys \ {k} : row'[j] = row[j]
        /\ row'[k] = Fresh(r, t) /\ claimedAt'[r] = t /\ UNCHANGED <<now, identity>>
    BY <1>4, <2>1 DEF ClaimInsert, Acquire, Once, Typed, TypeOK
  <2>3. row'[k].claim = r /\ row'[k].creator = r /\ row'[k].expires = claimedAt'[r] + TTL
    BY <2>2 DEF Fresh
  <2> QED
    BY <2>1, <2>2, <2>3, KeptAcquire
<1>5. ASSUME NEW r \in Requests, ClaimExpired(r)
      PROVE  Dated' /\ Kept'
  <2> DEFINE k == key[r]
  <2>1. k \in Keys /\ pc[r] = "selecting" /\ Acquire(r, r, now) /\ Expired(k)
    BY <1>5 DEF ClaimExpired, Once, Typed, Identified
  <2>2. /\ \A j \in Keys \ {k} : row'[j] = row[j]
        /\ row'[k] = Fresh(r, now) /\ claimedAt'[r] = now /\ UNCHANGED <<now, identity>>
    BY <1>5, <2>1 DEF ClaimExpired, Acquire, Once, Typed, TypeOK
  <2>3. row'[k].claim = r /\ row'[k].creator = r /\ row'[k].expires = claimedAt'[r] + TTL
    BY <2>2 DEF Fresh
  <2> QED
    BY <1>1, <2>1, <2>2, <2>3, KeptAcquire
<1>6. ASSUME NEW r \in Requests, ClaimTakeover(r)
      PROVE  Dated' /\ Kept'
  <2> DEFINE k == key[r]
             v == row[k].creator
  <2>1. /\ k \in Keys /\ pc[r] = "selecting" /\ Acquire(r, v, now) /\ Claimable(k)
        /\ v \in Requests /\ Present(k)
    BY <1>6 DEF ClaimTakeover, Matches, Present, Once, Typed, TypeOK, Identified,
                Shaped, Row
  <2>2. /\ \A j \in Keys \ {k} : row'[j] = row[j]
        /\ row'[k] = Retaken(k, r) /\ UNCHANGED <<now, identity>>
    BY <1>6, <2>1 DEF ClaimTakeover, Once, Typed, TypeOK
  <2>3. v # r /\ claimedAt'[v] = claimedAt[v]
    BY <2>1 DEF Acquire, Once, Progress, Unborn, Typed, TypeOK
  <2>4. row'[k].claim = r /\ row'[k].creator = v /\ row'[k].expires = row[k].expires
    BY <2>1, <2>2 DEF Retaken, Once, Typed, TypeOK, Row
  <2>5. row'[k].expires = claimedAt'[v] + TTL
    BY <2>1, <2>3, <2>4 DEF Dated
  <2> QED
    BY <1>1, <2>1, <2>2, <2>4, <2>5, KeptAcquire
<1>7. ASSUME NEW r \in Requests, Commit(r) \/ Abandon(r)
      PROVE  Dated' /\ Kept'
  <2> DEFINE k == key[r]
  <2>1. /\ k \in Keys /\ pc[r] \in {"committing", "releasing"}
        /\ pc'[r] \in {"gap", "replied", "unavailable"}
        /\ \A q \in Requests \ {r} : pc'[q] = pc[q]
        /\ UNCHANGED <<now, claimedAt, version, key>>
    BY <1>7 DEF Commit, Abandon, Once, Typed, TypeOK, Identified
  <2>2. CASE UNCHANGED row
    BY <1>1, <2>1, <2>2, KeptQuiet
  <2>3. CASE ~UNCHANGED row
    <3>1. PICK st, a : /\ row' = [row EXCEPT ![k] = Released(k, st, a)]
                       /\ row[k].claim = r /\ row[k].state = "IN_PROGRESS"
      BY <1>7, <2>3 DEF Commit, Abandon, Holds
    <3>2. /\ \A j \in Keys \ {k} : row'[j] = row[j]
          /\ row'[k].expires = row[k].expires /\ row'[k].creator = row[k].creator
          /\ Present(k)
      BY <2>1, <3>1 DEF Released, Present, Once, Typed, TypeOK, Row
    <3> QED
      BY <1>1, <2>1, <3>1, <3>2, KeptQuiet
  <2> QED
    BY <2>2, <2>3
<1>8. ASSUME NEW r \in Requests, NEW k \in Keys, NEW d \in Digests,
             ClaimReadsClock(r, k, d)
      PROVE  Dated' /\ Kept'
  BY <1>1, <1>8, KeptQuiet DEF ClaimReadsClock, Once, Typed, TypeOK
<1>9. ASSUME NEW r \in Requests,
             \/ ClaimSeesRow(r) \/ ClaimVanished(r) \/ ClaimConflict(r)
             \/ ClaimReplay(r) \/ ClaimBusy(r)
      PROVE  Dated' /\ Kept'
  BY <1>1, <1>9, KeptQuiet DEF ClaimSeesRow, ClaimVanished, ClaimConflict, ClaimReplay,
     ClaimBusy, Once, Typed, TypeOK
<1>10. ASSUME NEW r \in Requests,
              \/ Generate(r) \/ Execute(r) \/ ExecuteFails(r) \/ AbandonReadsClock(r)
              \/ CommitReadsClock(r)
       PROVE  Dated' /\ Kept'
  BY <1>1, <1>10, KeptQuiet DEF Generate, Execute, ExecuteFails, AfterFailure,
     AbandonReadsClock, CommitReadsClock, Once, Typed, TypeOK
<1>11. ASSUME NEW r \in Requests,
              \/ CommitLost(r) \/ RecordScopeGap(r) \/ AnswerFromTemplate(r)
              \/ DatabaseError(r) \/ Crash(r)
       PROVE  Dated' /\ Kept'
  BY <1>1, <1>11, KeptQuiet DEF CommitLost, RecordScopeGap, AnswerFromTemplate,
     DatabaseError, Crash, Once, Typed, TypeOK
<1>12. ASSUME NEW r \in Requests, Claim(r) \/ Answer(r) \/ DatabaseError(r) \/ Crash(r)
       PROVE  Dated' /\ Kept'
  BY <1>4, <1>5, <1>6, <1>7, <1>8, <1>9, <1>10, <1>11, <1>12 DEF Claim, Answer
<1> QED
  BY <1>2, <1>3, <1>12 DEF Next

(* Until its lease lapses or the row expires, a request that is answering  *)
(* holds its row, so its answer can still be stored.                       *)
THEOREM ProtectedByLease == Spec => []LeaseProtects
<1>1. Init => Dated /\ Kept
  BY DEF Init, Dated, Kept, Present, NoRow
<1>2. ASSUME Once, LeasesApart, Dated, Kept
      PROVE  LeaseProtects
  <2>1. SUFFICES ASSUME NEW r \in Requests, pc[r] \in {"executing", "executed"},
                        now < LeaseEnd(r), now < ExpiryOf(r)
                 PROVE  Holds(r, now)
    BY DEF LeaseProtects
  <2>2. key[r] \in Keys /\ row[key[r]].claim = r
    BY <1>2, <2>1 DEF Kept, Once, Typed, Identified
  <2>3. /\ row[key[r]].state = "IN_PROGRESS" /\ row[key[r]].digest = digest[r]
        /\ row[key[r]].lease = LeaseEnd(r) /\ row[key[r]].creator = version[r]
    BY <1>2, <2>2, NobodyAssumption DEF Once, Owner, Typed, TypeOK, Shaped,
       LeasesApart, LeaseEnd
  <2>4. row[key[r]].expires = ExpiryOf(r)
    BY <1>2, <2>2, <2>3 DEF Dated, Present, ExpiryOf
  <2>5. now \in Nat /\ LeaseEnd(r) \in Nat /\ ExpiryOf(r) \in Nat
    BY <1>2, <2>1, TimeAssumption
       DEF Once, Typed, TypeOK, Identified, Steps, Early, LeaseEnd, ExpiryOf
  <2> QED
    BY <2>1, <2>2, <2>3, <2>4, <2>5 DEF Holds
<1> QED
  BY <1>1, <1>2, AlwaysLeased, KeptStep, PTL DEF Spec

-----------------------------------------------------------------------------
(* The service implements the once-only store: a commit is Store, a replay *)
(* is Replay, expiry and purge are Forget, and everything else stutters.   *)

StoredAt(x) == IF x.state = "COMPLETED" THEN x.response ELSE Nobody

storedNow == [k \in Keys |-> StoredAt(row[k])]

LEMMA StoredNowStep ==
  ASSUME NEW k \in Keys, \A j \in Keys \ {k} : row'[j] = row[j]
  PROVE  storedNow' = [storedNow EXCEPT ![k] = StoredAt(row'[k])]
BY DEF storedNow, StoredAt

LEMMA CommitStores ==
  ASSUME Once, NEW r \in Requests, Commit(r), NEW k \in Keys, k = key[r]
  PROVE  OnceOnly!Store(r, k)
<1> USE NobodyAssumption
<1>1. /\ row[k].state = "IN_PROGRESS" /\ Uncommitted(r)
      /\ \A j \in Keys : storedNow[j] # r
  BY DEF Commit, Holds, Once, Typed, Identified, Progress, BeforeCommit, Steps,
         storedNow, StoredAt, Uncommitted
<1>2. /\ \A j \in Keys \ {k} : row'[j] = row[j]
      /\ row'[k].state = "COMPLETED" /\ row'[k].response = r
  BY <1>1 DEF Commit, Released, Once, Typed, TypeOK, Row
<1>3. storedNow[k] = Nobody /\ storedNow' = [storedNow EXCEPT ![k] = r]
  BY <1>1, <1>2, StoredNowStep DEF storedNow, StoredAt
<1>4. \E log \in {events, events \cup {r}} : events' = log
  BY DEF Commit, Recorded
<1>5. \E a \in {r, Nobody} : answer' = [answer EXCEPT ![r] = a]
  <2>1. answer = [answer EXCEPT ![r] = Nobody]
    BY <1>1 DEF Uncommitted, Once, Typed, TypeOK
  <2> QED
    BY <2>1 DEF Commit
<1> QED
  BY <1>1, <1>3, <1>4, <1>5 DEF OnceOnly!Store, Uncommitted, storedNow, StoredAt

LEMMA ForgetsExpired ==
  ASSUME Typed, UNCHANGED <<events, answer>>, NEW E \in SUBSET Keys,
         \A k \in Keys \ E : StoredAt(row'[k]) = StoredAt(row[k]),
         \A k \in E : StoredAt(row'[k]) = Nobody
  PROVE  OnceOnly!Next \/ UNCHANGED OnceOnly!vars
<1> PICK K \in SUBSET Keys : K = {k \in E : StoredAt(row[k]) # Nobody}
  OBVIOUS
<1>1. storedNow' = [k \in Keys |-> IF k \in K THEN Nobody ELSE storedNow[k]]
  BY DEF storedNow
<1>2. CASE K = {}
  <2>1. storedNow' = storedNow
    BY <1>1, <1>2 DEF storedNow
  <2> QED
    BY <2>1 DEF OnceOnly!vars, storedNow, StoredAt
<1>3. CASE K # {}
  <2>1. OnceOnly!Forget(K)
    BY <1>1 DEF OnceOnly!Forget, storedNow, StoredAt
  <2> QED
    BY <1>3, <2>1 DEF OnceOnly!Next
<1> QED
  BY <1>2, <1>3

LEMMA ImplementsStep ==
  ASSUME Once, [Next]_vars
  PROVE  OnceOnly!Next \/ UNCHANGED OnceOnly!vars
<1> USE NobodyAssumption DEF Once, Early
<1>1. ASSUME NEW r \in Requests, Commit(r)
      PROVE  OnceOnly!Next
  <2>1. PICK k \in Keys : k = key[r]
    BY <1>1 DEF Commit, Typed, Identified
  <2>2. OnceOnly!Store(r, k)
    BY <1>1, <2>1, CommitStores
  <2> QED
    BY <2>2 DEF OnceOnly!Next
<1>2. ASSUME NEW r \in Requests, ClaimReplay(r)
      PROVE  OnceOnly!Next
  <2> DEFINE k == key[r]
  <2>1. k \in Keys /\ row[k].response # Nobody /\ answer[r] = Nobody
    BY <1>2 DEF ClaimReplay, Matches, Typed, TypeOK, Identified, Shaped, Progress,
                BeforeCommit, Steps, Uncommitted
  <2>2. OnceOnly!Replay(r, k)
    BY <1>2, <2>1 DEF OnceOnly!Replay, ClaimReplay, tables
  <2> QED
    BY <2>1, <2>2 DEF OnceOnly!Next
<1>3. CASE Purge
  <2>1. \A k \in Keys : Expired(k) => StoredAt(row'[k]) = Nobody
    BY <1>3 DEF Purge, NoRow, StoredAt
  <2>2. \A k \in Keys : ~Expired(k) => StoredAt(row'[k]) = StoredAt(row[k])
    BY <1>3 DEF Purge
  <2>3. UNCHANGED <<events, answer>>
    BY <1>3 DEF Purge
  <2> QED
    BY <2>1, <2>2, <2>3, ForgetsExpired, {k \in Keys : Expired(k)} \in SUBSET Keys
<1>4. ASSUME NEW r \in Requests, NEW k \in Keys, k = key[r],
             ClaimInsert(r) \/ ClaimExpired(r)
      PROVE  OnceOnly!Next \/ UNCHANGED OnceOnly!vars
  <2>1. /\ \A j \in Keys \ {k} : row'[j] = row[j]
        /\ \E t : row'[k] = Fresh(r, t)
        /\ UNCHANGED <<events, answer>>
    BY <1>4 DEF ClaimInsert, ClaimExpired, Typed, TypeOK
  <2>2. StoredAt(row'[k]) = Nobody
    BY <2>1 DEF Fresh, StoredAt
  <2> QED
    BY <2>1, <2>2, ForgetsExpired, {k} \in SUBSET Keys
<1>5. ASSUME NEW r \in Requests, ClaimTakeover(r)
      PROVE  OnceOnly!Next \/ UNCHANGED OnceOnly!vars
  <2>1. \A k \in Keys : StoredAt(row'[k]) = StoredAt(row[k])
    BY <1>5 DEF ClaimTakeover, Claimable, Matches, Retaken, StoredAt, Typed, TypeOK,
                Identified, Row
  <2>2. UNCHANGED <<events, answer>>
    BY <1>5 DEF ClaimTakeover
  <2> QED
    BY <2>1, <2>2, ForgetsExpired, {} \in SUBSET Keys
<1>6. ASSUME NEW r \in Requests, Abandon(r)
      PROVE  OnceOnly!Next \/ UNCHANGED OnceOnly!vars
  <2>1. \A k \in Keys : StoredAt(row'[k]) = StoredAt(row[k])
    <3>1. CASE UNCHANGED row
      BY <3>1
    <3>2. CASE /\ Holds(r, readClock[r])
               /\ row' = [row EXCEPT ![key[r]] = Released(key[r], "ABANDONED", Nobody)]
      BY <1>6, <3>2 DEF Abandon, Holds, Released, StoredAt, Typed, TypeOK, Identified, Row
    <3> QED
      BY <1>6, <3>1, <3>2 DEF Abandon
  <2>2. UNCHANGED <<events, answer>>
    BY <1>6 DEF Abandon
  <2> QED
    BY <2>1, <2>2, ForgetsExpired, {} \in SUBSET Keys
<1>7. CASE UNCHANGED <<row, events, answer>>
  BY <1>7 DEF OnceOnly!vars
<1>8. ASSUME NEW r \in Requests, RequestStep(r)
      PROVE  OnceOnly!Next \/ UNCHANGED OnceOnly!vars
  <2>1. CASE ClaimInsert(r) \/ ClaimExpired(r)
    BY <1>4, <2>1 DEF ClaimInsert, ClaimExpired, Typed, Identified
  <2>2. ASSUME NEW k \in Keys, NEW d \in Digests, ClaimReadsClock(r, k, d)
        PROVE  UNCHANGED <<row, events, answer>>
    BY <2>2 DEF ClaimReadsClock, tables
  <2>3. CASE ClaimSeesRow(r) \/ ClaimVanished(r) \/ ClaimConflict(r) \/ ClaimBusy(r) \/ DatabaseError(r)
             \/ Crash(r)
    BY <1>7, <2>3 DEF ClaimSeesRow, ClaimVanished, ClaimConflict, ClaimBusy, DatabaseError, Crash,
                      tables
  <2>4. CASE Generate(r) \/ Execute(r) \/ ExecuteFails(r) \/ AbandonReadsClock(r)
             \/ CommitReadsClock(r)
    BY <1>7, <2>4 DEF Generate, Execute, ExecuteFails, AbandonReadsClock,
                      CommitReadsClock, tables
  <2>5. CASE CommitLost(r) \/ RecordScopeGap(r) \/ AnswerFromTemplate(r)
    BY <1>7, <2>5 DEF CommitLost, RecordScopeGap, AnswerFromTemplate, tables
  <2> QED
    BY <1>1, <1>2, <1>4, <1>5, <1>6, <1>7, <1>8, <2>1, <2>2, <2>3, <2>4, <2>5
       DEF RequestStep, Claim, Answer
<1> QED
  BY <1>3, <1>7, <1>8 DEF Next, RequestStep, vars, Tick, tables

(* Every behaviour of the service is one of the once-only store.           *)
THEOREM Implements == Spec => ImplementsOnceOnly
<1>1. Init => OnceOnly!Init
  BY NobodyAssumption DEF Init, OnceOnly!Init, NoRow
<1>2. Once /\ [Next]_vars => [OnceOnly!Next]_(OnceOnly!vars)
  BY ImplementsStep
<1> QED
  BY <1>1, <1>2, AlwaysOnce, PTL DEF Spec, ImplementsOnceOnly, OnceOnly!Spec
=============================================================================
