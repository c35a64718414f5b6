------------------------- MODULE RetainedTextProofs -------------------------
(***************************************************************************)
(* Proofs about RetainedText, for any questions, citizens, administrators, *)
(* retention and horizon.                                                  *)
(***************************************************************************)
EXTENDS RetainedText, FiniteSetTheorems, TLAPS

(* Between the purge and the read, everything the read may select was written
   or left by that purge: it expires after the call began. *)
PurgedIsFresh ==
  \A v \in Viewers : reads[v].stage = "purged" =>
    /\ reads[v].since <= now
    /\ \A r \in Requests :
         LET row == IF reads[v].what = "failures" THEN failures[r] ELSE gaps[r] IN
         row # NULL /\ row.text # NULL => row.expires > reads[v].since

(* A request that has yet to write its gap has none. *)
OneGapEach ==
  \A r \in Requests : requests[r].stage \in {"idle", "gap"} => gaps[r] = NULL

IInv == TypeOK /\ PurgedIsFresh /\ OneGapEach /\ NothingExpiredShown /\ ReviewIsStored

(* The invariant holds at first. *)
LEMMA InitIInv == Init => IInv
  BY RetainedAssumption
  DEF Init, IInv, TypeOK, Idle, PurgedIsFresh, OneGapEach, NothingExpiredShown, ReviewIsStored

(* The texts redaction let through are the ones a request may hold. *)
LEMMA RedactedIsText ==
  ASSUME NEW r \in Requests, NEW t \in Redactions[r] \ {NULL}
  PROVE  t \in Texts
  BY DEF Texts

(* Every step keeps the types. *)
LEMMA TypePreserved == TypeOK /\ [Next]_vars => TypeOK'
<1> SUFFICES ASSUME TypeOK, [Next]_vars PROVE TypeOK'
  OBVIOUS
<1> USE RetainedAssumption
<1>1. CASE Tick
  BY <1>1 DEF Tick, TypeOK
<1>2. CASE PeriodicPurge
  BY <1>2 DEF PeriodicPurge, PurgeFailures, PurgeGaps, WithoutText, Expired, TypeOK, Failure, Gap
<1>3. ASSUME NEW r \in Requests, AskUnresolved(r) PROVE TypeOK'
  BY <1>3 DEF AskUnresolved, Becomes, TypeOK
<1>4. ASSUME NEW r \in Requests, Ask(r) PROVE TypeOK'
  <2>1. PICK t \in Redactions[r] \ {NULL} :
          \/ Becomes(r, [stage |-> "answered"])
          \/ Becomes(r, IF Trimmed(t) THEN [stage |-> "failure", text |-> t] ELSE [stage |-> "failed"])
          \/ Becomes(r, IF Trimmed(t) THEN [stage |-> "gap", text |-> t] ELSE [stage |-> "answered"])
    BY <1>4 DEF Ask
  <2>2. t \in Texts
    BY <2>1, RedactedIsText
  <2> QED
    BY <2>1, <2>2 DEF Becomes, TypeOK
<1>5. ASSUME NEW r \in Requests, RecordFailure(r) PROVE TypeOK'
  BY <1>5 DEF RecordFailure, TypeOK, Failure
<1>6. ASSUME NEW r \in Requests, RecordGap(r) PROVE TypeOK'
  BY <1>6 DEF RecordGap, TypeOK, Gap
<1>7. ASSUME NEW r \in Requests, RecordFails(r) PROVE TypeOK'
  BY <1>7 DEF RecordFails, Becomes, TypeOK
<1>8. ASSUME NEW v \in Viewers, PurgeBeforeRead(v) PROVE TypeOK'
  <2>1. PICK w \in Wanted :
          /\ IF w.what = "failures" THEN PurgeFailures ELSE PurgeGaps
          /\ reads' = [reads EXCEPT ![v] =
                 [stage |-> "purged", what |-> w.what, rows |-> w.rows, since |-> now]]
    BY <1>8 DEF PurgeBeforeRead
  <2>2. w.what \in {"failures", "gaps"} /\ w.rows \in SUBSET Requests
    BY <2>1 DEF Wanted
  <2>3. failures' \in [Requests -> Failure \cup {NULL}] /\ gaps' \in [Requests -> Gap \cup {NULL}]
    BY <2>1 DEF PurgeFailures, PurgeGaps, WithoutText, Expired, TypeOK, Failure, Gap
  <2> QED
    BY <1>8, <2>1, <2>2, <2>3 DEF PurgeBeforeRead, TypeOK, Idle
<1>9. ASSUME NEW v \in Viewers, Read(v) PROVE TypeOK'
  <2>1. Select(reads[v].what, reads[v].rows) \in SUBSET [text : Texts \cup {NULL}, expires : Nat]
    BY <1>9 DEF Read, Select, TypeOK, Failure, Gap, Idle
  <2> QED
    BY <1>9, <2>1 DEF Read, TypeOK, Idle
<1>10. ASSUME NEW v \in Viewers, ReadEnds(v) PROVE TypeOK'
  BY <1>10 DEF ReadEnds, TypeOK, Idle
<1>11. ASSUME NEW a \in Approvers, CheckReview(a) PROVE TypeOK'
  BY <1>11 DEF CheckReview, TypeOK, Idle
<1>12. ASSUME NEW a \in Approvers, DecideReview(a) PROVE TypeOK'
  <2>1. reviews[a].gap \in Requests /\ reviews[a].decision \in Decisions
    BY <1>12 DEF DecideReview, TypeOK, Idle
  <2>2. gaps[reviews[a].gap] # NULL => gaps' \in [Requests -> Gap \cup {NULL}]
    BY <1>12, <2>1 DEF DecideReview, TypeOK, Gap, Decisions
  <2>3. gaps' \in [Requests -> Gap \cup {NULL}]
    BY <1>12, <2>1, <2>2 DEF DecideReview, TypeOK, StillNew
  <2> QED
    BY <1>12, <2>1, <2>3 DEF DecideReview, TypeOK, Idle
<1>13. ASSUME NEW a \in Approvers, ReviewFails(a) PROVE TypeOK'
  BY <1>13 DEF ReviewFails, TypeOK, Idle
<1>14. CASE UNCHANGED vars
  BY <1>14 DEF vars, TypeOK
<1> QED
  BY <1>1, <1>2, <1>3, <1>4, <1>5, <1>6, <1>7, <1>8, <1>9, <1>10, <1>11, <1>12, <1>13, <1>14
  DEF Next

-----------------------------------------------------------------------------
(* A row that holds text after a step held it, until the same time, before the
   step, or the step wrote it and its time is still to come. *)
Older(new, old) ==
  new # NULL /\ new.text # NULL =>
    \/ old # NULL /\ old.text # NULL /\ new.expires = old.expires
    \/ new.expires > now

LEMMA PurgeKeepsTimes ==
  ASSUME NEW rows \in [Requests -> Failure \cup Gap \cup {NULL}], NEW r \in Requests
  PROVE  Older(WithoutText(rows)[r], rows[r])
  BY DEF Older, WithoutText, Expired, Failure, Gap

LEMMA RowsOnlyAge ==
  ASSUME TypeOK, [Next]_vars, NEW r \in Requests
  PROVE  Older(failures'[r], failures[r]) /\ Older(gaps'[r], gaps[r])
<1> USE RetainedAssumption
<1>a. /\ failures \in [Requests -> Failure \cup Gap \cup {NULL}]
      /\ gaps \in [Requests -> Failure \cup Gap \cup {NULL}]
      /\ now \in Nat
  BY DEF TypeOK
<1>b. ASSUME UNCHANGED <<failures, gaps>>
      PROVE  Older(failures'[r], failures[r]) /\ Older(gaps'[r], gaps[r])
  BY <1>b DEF Older
<1>c. PurgeFailures \/ PurgeGaps => Older(failures'[r], failures[r]) /\ Older(gaps'[r], gaps[r])
  <2>1. Older(failures[r], failures[r]) /\ Older(gaps[r], gaps[r])
    BY DEF Older
  <2> QED
    BY <1>a, <2>1, PurgeKeepsTimes DEF PurgeFailures, PurgeGaps
<1>1. ASSUME NEW q \in Requests, RecordFailure(q)
      PROVE  Older(failures'[r], failures[r]) /\ Older(gaps'[r], gaps[r])
  BY <1>a, <1>1 DEF RecordFailure, Older
<1>2. ASSUME NEW q \in Requests, RecordGap(q)
      PROVE  Older(failures'[r], failures[r]) /\ Older(gaps'[r], gaps[r])
  BY <1>a, <1>2 DEF RecordGap, Older
<1>3. ASSUME NEW a \in Approvers, DecideReview(a)
      PROVE  Older(failures'[r], failures[r]) /\ Older(gaps'[r], gaps[r])
  <2>1. gaps[reviews[a].gap] \in Gap
    BY <1>3 DEF DecideReview, StillNew, TypeOK, Idle
  <2>2. failures' = failures
    BY <1>3 DEF DecideReview
  <2>3. CASE r = reviews[a].gap
    <3>1. gaps'[r] = [gaps[r] EXCEPT !.status = reviews[a].decision, !.by = a]
      BY <1>3, <2>3, <1>a DEF DecideReview
    <3>2. gaps[r] # NULL
      BY <1>3, <2>3 DEF DecideReview, StillNew
    <3>3. gaps'[r].text = gaps[r].text /\ gaps'[r].expires = gaps[r].expires
      BY <2>1, <2>3, <3>1 DEF Gap
    <3> QED
      BY <2>2, <3>2, <3>3 DEF Older
  <2>4. CASE r # reviews[a].gap
    <3>1. gaps'[r] = gaps[r]
      BY <1>3, <2>4, <1>a DEF DecideReview
    <3> QED
      BY <2>2, <3>1 DEF Older
  <2> QED
    BY <2>3, <2>4
<1>4. ASSUME NEW v \in Viewers, PurgeBeforeRead(v) PROVE PurgeFailures \/ PurgeGaps
  BY <1>4 DEF PurgeBeforeRead
<1> QED
  BY <1>b, <1>c, <1>1, <1>2, <1>3, <1>4
  DEF Next, Tick, PeriodicPurge, AskUnresolved, Ask, Becomes, RecordFails, Read, ReadEnds,
      CheckReview, ReviewFails, vars

(* Right after the purge of a call every text left in that table expires later. *)
LEMMA NothingExpiredLeft ==
  ASSUME TypeOK, NEW rows \in [Requests -> Failure \cup Gap \cup {NULL}], NEW r \in Requests,
         WithoutText(rows)[r] # NULL, WithoutText(rows)[r].text # NULL
  PROVE  WithoutText(rows)[r].expires > now
  BY DEF WithoutText, Expired, Failure, Gap, TypeOK

(* What a purge left for a call stays fresh until the call reads it. *)
LEMMA FreshPreserved == IInv /\ [Next]_vars => PurgedIsFresh'
<1> SUFFICES ASSUME IInv, [Next]_vars, NEW v \in Viewers, reads'[v].stage = "purged"
             PROVE  /\ reads'[v].since <= now'
                    /\ \A r \in Requests :
                         LET row == IF reads'[v].what = "failures" THEN failures'[r] ELSE gaps'[r] IN
                         row # NULL /\ row.text # NULL => row.expires > reads'[v].since
  BY DEF PurgedIsFresh
<1> USE RetainedAssumption
<1>a. TypeOK /\ TypeOK' /\ PurgedIsFresh
  BY TypePreserved DEF IInv
<1>b. now \in Nat /\ now' \in Nat /\ now <= now'
  <2>1. now' = now \/ now' = now + 1
    <3>1. ASSUME NEW r \in Requests, Ask(r) PROVE now' = now
      BY <3>1 DEF Ask, Becomes
    <3>2. ASSUME NEW u \in Viewers, PurgeBeforeRead(u) PROVE now' = now
      BY <3>2 DEF PurgeBeforeRead
    <3> QED
      BY <3>1, <3>2 DEF Next, Tick, PeriodicPurge, AskUnresolved, Becomes, RecordFailure, RecordGap,
        RecordFails, Read, ReadEnds, CheckReview, DecideReview, ReviewFails, vars
  <2> QED
    BY <1>a, <2>1 DEF TypeOK
<1>1. CASE reads'[v] = reads[v]
  <2>1. reads[v].since \in Nat /\ reads[v].since <= now
    BY <1>a, <1>1 DEF PurgedIsFresh, TypeOK, Idle
  <2>2. ASSUME NEW r \in Requests
        PROVE  LET row == IF reads[v].what = "failures" THEN failures'[r] ELSE gaps'[r] IN
               row # NULL /\ row.text # NULL => row.expires > reads[v].since
    <3>1. Older(failures'[r], failures[r]) /\ Older(gaps'[r], gaps[r])
      BY <1>a, RowsOnlyAge
    <3>2. /\ failures'[r] \in Failure \cup {NULL} /\ gaps'[r] \in Gap \cup {NULL}
          /\ failures[r] \in Failure \cup {NULL} /\ gaps[r] \in Gap \cup {NULL}
      BY <1>a DEF TypeOK
    <3>3. LET row == IF reads[v].what = "failures" THEN failures[r] ELSE gaps[r] IN
          row # NULL /\ row.text # NULL => row.expires > reads[v].since
      BY <1>a, <1>1 DEF PurgedIsFresh
    <3>4. CASE reads[v].what = "failures"
      BY <1>b, <2>1, <3>1, <3>2, <3>3, <3>4 DEF Older, Failure
    <3>5. CASE reads[v].what # "failures"
      BY <1>b, <2>1, <3>1, <3>2, <3>3, <3>5 DEF Older, Gap
    <3> QED
      BY <3>4, <3>5
  <2> QED
    BY <1>1, <1>b, <2>1, <2>2
<1>2. CASE reads'[v] # reads[v]
  <2>1. PurgeBeforeRead(v)
    <3>1. ASSUME NEW u \in Viewers, PurgeBeforeRead(u) PROVE u = v
      BY <1>2, <1>a, <3>1 DEF PurgeBeforeRead, TypeOK
    <3>2. ASSUME NEW u \in Viewers, Read(u) PROVE FALSE
      BY <1>2, <1>a, <3>2 DEF Read, TypeOK
    <3>3. ASSUME NEW u \in Viewers, ReadEnds(u) PROVE FALSE
      BY <1>2, <1>a, <3>3 DEF ReadEnds, TypeOK, Idle
    <3> QED
      BY <1>2, <3>1, <3>2, <3>3
      DEF Next, Tick, PeriodicPurge, AskUnresolved, Ask, Becomes, RecordFailure, RecordGap,
          RecordFails, CheckReview, DecideReview, ReviewFails, vars
  <2>2. PICK w \in Wanted :
          /\ IF w.what = "failures" THEN PurgeFailures ELSE PurgeGaps
          /\ reads' = [reads EXCEPT ![v] =
                 [stage |-> "purged", what |-> w.what, rows |-> w.rows, since |-> now]]
    BY <2>1 DEF PurgeBeforeRead
  <2>3. reads'[v].what = w.what /\ reads'[v].since = now
    BY <1>a, <2>2 DEF TypeOK
  <2>4. /\ failures \in [Requests -> Failure \cup Gap \cup {NULL}]
        /\ gaps \in [Requests -> Failure \cup Gap \cup {NULL}]
    BY <1>a DEF TypeOK
  <2>5. CASE w.what = "failures"
    <3>1. failures' = WithoutText(failures)
      BY <2>2, <2>5 DEF PurgeFailures
    <3> QED
      BY <1>a, <1>b, <2>3, <2>4, <2>5, <3>1, NothingExpiredLeft
  <2>6. CASE w.what # "failures"
    <3>1. gaps' = WithoutText(gaps)
      BY <2>2, <2>6 DEF PurgeGaps
    <3> QED
      BY <1>a, <1>b, <2>3, <2>4, <2>6, <3>1, NothingExpiredLeft
  <2> QED
    BY <2>5, <2>6
<1> QED
  BY <1>1, <1>2

(* What a call shows was fresh when it read it. *)
LEMMA ShownPreserved == IInv /\ [Next]_vars => NothingExpiredShown'
<1> SUFFICES ASSUME IInv, [Next]_vars, NEW v \in Viewers, reads'[v].stage = "shown",
                    NEW item \in reads'[v].items, item.text # NULL
             PROVE  item.expires > reads'[v].since
  BY DEF NothingExpiredShown
<1>a. TypeOK /\ PurgedIsFresh /\ NothingExpiredShown
  BY DEF IInv
<1>1. CASE reads'[v] = reads[v]
  BY <1>1, <1>a DEF NothingExpiredShown
<1>2. CASE reads'[v] # reads[v]
  <2>1. Read(v)
    <3>1. ASSUME NEW u \in Viewers, PurgeBeforeRead(u) PROVE FALSE
      BY <1>2, <1>a, <3>1 DEF PurgeBeforeRead, TypeOK
    <3>2. ASSUME NEW u \in Viewers, Read(u) PROVE u = v
      BY <1>2, <1>a, <3>2 DEF Read, TypeOK
    <3>3. ASSUME NEW u \in Viewers, ReadEnds(u) PROVE FALSE
      BY <1>2, <1>a, <3>3 DEF ReadEnds, TypeOK, Idle
    <3> QED
      BY <1>2, <3>1, <3>2, <3>3
      DEF Next, Tick, PeriodicPurge, AskUnresolved, Ask, Becomes, RecordFailure, RecordGap,
          RecordFails, CheckReview, DecideReview, ReviewFails, vars
  <2>2. /\ reads[v].stage = "purged"
        /\ reads'[v].items = Select(reads[v].what, reads[v].rows)
        /\ reads'[v].since = reads[v].since
    BY <1>a, <2>1 DEF Read, TypeOK
  <2>3. reads[v].rows \subseteq Requests
    BY <1>a, <2>2 DEF TypeOK, Idle
  <2>4. PICK r \in Requests :
          LET table == IF reads[v].what = "failures" THEN failures ELSE gaps IN
          table[r] # NULL /\ item = [text |-> table[r].text, expires |-> table[r].expires]
    BY <2>2, <2>3 DEF Select
  <2>5. LET row == IF reads[v].what = "failures" THEN failures[r] ELSE gaps[r] IN
        row # NULL /\ row.text # NULL => row.expires > reads[v].since
    BY <1>a, <2>2 DEF PurgedIsFresh
  <2> QED
    BY <2>2, <2>4, <2>5
<1> QED
  BY <1>1, <1>2

(* A gap that has been decided is never decided again, and only its text goes. *)
LEMMA ReviewPreserved == IInv /\ [Next]_vars => ReviewIsStored'
<1> SUFFICES ASSUME IInv, [Next]_vars, NEW d \in told'
             PROVE  gaps'[d.gap] # NULL /\ gaps'[d.gap].status = d.decision /\ gaps'[d.gap].by = d.by
  BY DEF ReviewIsStored
<1>a. TypeOK /\ TypeOK' /\ ReviewIsStored
  BY TypePreserved DEF IInv
<1>b. /\ d.gap \in Requests /\ d.decision \in Decisions /\ d.by \in Approvers
      /\ gaps \in [Requests -> Gap \cup {NULL}]
  BY <1>a DEF TypeOK
<1>c. d \in told => gaps[d.gap] \in Gap /\ gaps[d.gap] # NULL /\ gaps[d.gap].status = d.decision
                    /\ gaps[d.gap].by = d.by
  BY <1>a, <1>b DEF ReviewIsStored
<1>1. CASE gaps' = gaps /\ told' = told
  BY <1>1, <1>a DEF ReviewIsStored
<1>2. ASSUME gaps' = WithoutText(gaps), told' = told
      PROVE  gaps'[d.gap] # NULL /\ gaps'[d.gap].status = d.decision /\ gaps'[d.gap].by = d.by
  <2>1. \/ gaps'[d.gap] = gaps[d.gap]
        \/ gaps'[d.gap] = [gaps[d.gap] EXCEPT !.text = NULL] /\ gaps'[d.gap] \in Gap \cup {NULL}
    BY <1>2, <1>a, <1>b DEF WithoutText, TypeOK
  <2>2. gaps[d.gap] \in Gap /\ [gaps[d.gap] EXCEPT !.text = NULL] \in Gap
    BY <1>2, <1>c DEF Gap
  <2>3. gaps'[d.gap].status = gaps[d.gap].status /\ gaps'[d.gap].by = gaps[d.gap].by
    BY <2>1, <2>2 DEF Gap
  <2>4. gaps'[d.gap] # NULL
    BY <1>2, <1>c, <2>1, <2>2, NullAssumption
  <2> QED
    BY <1>2, <1>c, <2>3, <2>4
<1>3. ASSUME NEW r \in Requests, RecordGap(r)
      PROVE  gaps'[d.gap] # NULL /\ gaps'[d.gap].status = d.decision /\ gaps'[d.gap].by = d.by
  <2>1. told' = told /\ gaps[r] = NULL
    BY <1>3 DEF RecordGap, IInv, OneGapEach
  <2>2. gaps'[d.gap] = gaps[d.gap]
    BY <1>3, <1>b, <1>c, <2>1 DEF RecordGap
  <2> QED
    BY <1>c, <2>1, <2>2
<1>4. ASSUME NEW a \in Approvers, DecideReview(a)
      PROVE  gaps'[d.gap] # NULL /\ gaps'[d.gap].status = d.decision /\ gaps'[d.gap].by = d.by
  <2> DEFINE c == reviews[a]
  <2>1. c.gap \in Requests /\ c.decision \in Decisions
    BY <1>4, <1>a DEF DecideReview, TypeOK, Idle
  <2>2. gaps[c.gap] \in Gap /\ gaps[c.gap] # NULL /\ gaps[c.gap].status = "NEW"
    BY <1>4, <1>b, <2>1 DEF DecideReview, StillNew
  <2>3. CASE d = [by |-> a, gap |-> c.gap, decision |-> c.decision]
    <3>1. gaps'[c.gap] = [gaps[c.gap] EXCEPT !.status = c.decision, !.by = a]
      BY <1>4, <1>b, <2>1 DEF DecideReview
    <3>2. gaps'[c.gap].status = c.decision /\ gaps'[c.gap].by = a
      BY <2>2, <3>1 DEF Gap
    <3>3. gaps'[c.gap] \in Gap
      BY <2>1, <2>2, <3>1, RetainedAssumption DEF Gap, Decisions
    <3> QED
      BY <2>3, <3>2, <3>3, NullAssumption
  <2>4. CASE d # [by |-> a, gap |-> c.gap, decision |-> c.decision]
    <3>1. d \in told
      BY <1>4, <2>4 DEF DecideReview
    <3>2. gaps[d.gap].status # "NEW"
      BY <1>c, <3>1, <1>b DEF Decisions
    <3>3. gaps'[d.gap] = gaps[d.gap]
      BY <1>4, <1>b, <2>2, <3>2 DEF DecideReview
    <3> QED
      BY <1>c, <3>1, <3>3
  <2> QED
    BY <2>3, <2>4
<1> QED
  BY <1>1, <1>2, <1>3, <1>4
  DEF Next, Tick, PeriodicPurge, PurgeFailures, PurgeGaps, AskUnresolved, Ask, Becomes, RecordFailure,
      RecordFails, PurgeBeforeRead, Read, ReadEnds, CheckReview, ReviewFails, vars

(* A request has no gap until it writes it. *)
LEMMA OneGapPreserved == IInv /\ [Next]_vars => OneGapEach'
<1> SUFFICES ASSUME IInv, [Next]_vars, NEW q \in Requests, requests'[q].stage \in {"idle", "gap"}
             PROVE  gaps'[q] = NULL
  BY DEF OneGapEach
<1>a. TypeOK /\ OneGapEach
  BY DEF IInv
<1>b. gaps \in [Requests -> Gap \cup {NULL}] /\ DOMAIN requests = Requests
  BY <1>a DEF TypeOK
<1>1. ASSUME requests' = requests, gaps' \in {gaps, WithoutText(gaps)} PROVE gaps'[q] = NULL
  BY <1>1, <1>a, <1>b DEF OneGapEach, WithoutText, Expired
<1>2. ASSUME NEW r \in Requests, AskUnresolved(r) \/ Ask(r) \/ RecordFailure(r) \/ RecordFails(r)
      PROVE  gaps'[q] = NULL
  <2>1. gaps' = gaps
    BY <1>2 DEF AskUnresolved, Ask, RecordFailure, RecordFails, Becomes
  <2>2. CASE q = r
    BY <1>2, <1>a, <1>b, <2>1, <2>2
    DEF AskUnresolved, Ask, RecordFailure, RecordFails, Becomes, OneGapEach, Idle
  <2>3. CASE q # r
    <3>1. requests'[q] = requests[q]
      BY <1>2, <1>b, <2>3 DEF AskUnresolved, Ask, RecordFailure, RecordFails, Becomes
    <3> QED
      BY <1>a, <2>1, <3>1 DEF OneGapEach
  <2> QED
    BY <2>2, <2>3
<1>3. ASSUME NEW r \in Requests, RecordGap(r) PROVE gaps'[q] = NULL
  BY <1>3, <1>a, <1>b DEF RecordGap, OneGapEach
<1>4. ASSUME NEW a \in Approvers, DecideReview(a) PROVE gaps'[q] = NULL
  <2>1. gaps[q] = NULL
    BY <1>4, <1>a DEF DecideReview, OneGapEach
  <2> QED
    BY <1>4, <1>b, <2>1 DEF DecideReview, StillNew
<1> QED
  BY <1>1, <1>2, <1>3, <1>4
  DEF Next, Tick, PeriodicPurge, PurgeFailures, PurgeGaps, PurgeBeforeRead, Read, ReadEnds,
      CheckReview, ReviewFails, vars

-----------------------------------------------------------------------------
(* The invariant is inductive. *)
LEMMA StepIInv == IInv /\ [Next]_vars => IInv'
  BY TypePreserved, FreshPreserved, ShownPreserved, OneGapPreserved, ReviewPreserved DEF IInv

THEOREM Invariant == Spec => []IInv
<1>1. Init => IInv
  BY InitIInv
<1>2. IInv /\ [Next]_vars => IInv'
  BY StepIInv
<1> QED
  BY <1>1, <1>2, PTL DEF Spec

(* Every variable stays in its type. *)
THEOREM Typed == Spec => []TypeOK
<1>1. IInv => TypeOK
  BY DEF IInv
<1> QED
  BY <1>1, Invariant, PTL

(* The lists and the single failed question an administrator reads hold no text
   that had expired when the call began. *)
THEOREM FreshlyShown == Spec => []NothingExpiredShown
<1>1. IInv => NothingExpiredShown
  BY DEF IInv
<1> QED
  BY <1>1, Invariant, PTL

(* The decision an approver was told of is the one the gap holds for good. *)
THEOREM ReviewsStay == Spec => []ReviewIsStored
<1>1. IInv => ReviewIsStored
  BY DEF IInv
<1> QED
  BY <1>1, Invariant, PTL

-----------------------------------------------------------------------------
(***************************************************************************)
(* Scans.  What a scan keeps exists and is one set, by induction over the  *)
(* finite set scanned: a least counterexample, which WFMin gives, is cut   *)
(* down by its last element.                                               *)
(***************************************************************************)
StrictOrder(R, F) ==
  /\ \A f \in F : <<f, f>> \notin R
  /\ \A f, g, h \in F : <<f, g>> \in R /\ <<g, h>> \in R => <<f, h>> \in R

(* A finite set that is strictly ordered has a last element. *)
LEMMA LastOne ==
  ASSUME NEW F, IsFiniteSet(F), F # {}, NEW R, StrictOrder(R, F)
  PROVE  \E m \in F : \A f \in F : <<m, f>> \notin R
<1> DEFINE After(x) == {y \in F : <<x, y>> \in R}
           T == {After(x) : x \in F}
<1>1. T \subseteq FiniteSubsetsOf(F) /\ T # {}
  <2>1. \A x \in F : After(x) \in SUBSET F /\ IsFiniteSet(After(x))
    BY FS_Subset
  <2> QED
    BY <2>1 DEF FiniteSubsetsOf
<1>2. \E x \in T : \A y \in T : <<y, x>> \notin StrictSubsetOrdering(F)
  <2> HIDE DEF T
  <2> QED
    BY <1>1, FS_StrictSubsetOrderingWellFounded, WFMin
<1>3. PICK m \in F : \A x \in F : <<After(x), After(m)>> \notin StrictSubsetOrdering(F)
  BY <1>2
<1>4. ASSUME NEW f \in F, <<m, f>> \in R PROVE FALSE
  <2>1. After(f) \subseteq After(m) /\ f \in After(m) /\ f \notin After(f)
    BY <1>4 DEF StrictOrder
  <2>2. <<After(f), After(m)>> \in StrictSubsetOrdering(F)
    BY <2>1 DEF StrictSubsetOrdering
  <2> QED
    BY <1>3, <2>2
<1> QED
  BY <1>4

Greedy(S, F, before) ==
  \A f \in F : f \in S <=> ~ \E g \in S : <<g, f>> \in before /\ Overlaps(g, f)

(* A scan in a strict order keeps a set, ... *)
LEMMA GreedyExists ==
  ASSUME NEW F, IsFiniteSet(F), NEW R, StrictOrder(R, F)
  PROVE  \E S \in SUBSET F : Greedy(S, F, R)
<1> DEFINE Bad == {P \in SUBSET F : ~ \E S \in SUBSET P : Greedy(S, P, R)}
<1> SUFFICES ASSUME Bad # {} PROVE FALSE
  OBVIOUS
<1>1. Bad \subseteq FiniteSubsetsOf(F)
  BY FS_Subset DEF FiniteSubsetsOf
<1>2. \E P \in Bad : \A Q \in Bad : <<Q, P>> \notin StrictSubsetOrdering(F)
  <2> HIDE DEF Bad
  <2> QED
    BY <1>1, FS_StrictSubsetOrderingWellFounded, WFMin
<1>3. PICK P \in Bad : \A Q \in Bad : <<Q, P>> \notin StrictSubsetOrdering(F)
  BY <1>2
<1>4. P # {}
  <2>1. Greedy({}, {}, R)
    BY DEF Greedy
  <2> QED
    BY <2>1, <1>3
<1>5. PICK m \in P : \A f \in P : <<m, f>> \notin R
  <2>1. P \subseteq F /\ IsFiniteSet(P)
    BY FS_Subset, <1>3
  <2>2. StrictOrder(R, P)
    BY <2>1 DEF StrictOrder
  <2> QED
    BY <2>1, <2>2, <1>4, LastOne
<1>6. P \ {m} \notin Bad
  <2>1. <<P \ {m}, P>> \in StrictSubsetOrdering(F)
    BY <1>3 DEF StrictSubsetOrdering
  <2> QED
    BY <2>1, <1>3
<1>7. PICK S \in SUBSET (P \ {m}) : Greedy(S, P \ {m}, R)
  BY <1>3, <1>6
<1>8. CASE \E g \in S : <<g, m>> \in R /\ Overlaps(g, m)
  <2>1. Greedy(S, P, R)
    BY <1>7, <1>8 DEF Greedy
  <2> QED
    BY <2>1, <1>3, <1>7
<1>9. CASE ~ \E g \in S : <<g, m>> \in R /\ Overlaps(g, m)
  <2>1. <<m, m>> \notin R
    BY <1>5
  <2>2. Greedy(S \cup {m}, P, R)
    BY <1>5, <1>7, <1>9, <2>1 DEF Greedy
  <2> QED
    BY <2>2, <1>3, <1>7
<1> QED
  BY <1>8, <1>9

(* The set a scan keeps, by its definition, is one of those. *)
LEMMA ScanIsGreedy ==
  ASSUME NEW F, IsFiniteSet(F), NEW R, StrictOrder(R, F)
  PROVE  Scan(F, R) \in SUBSET F /\ Greedy(Scan(F, R), F, R)
BY GreedyExists DEF Scan, Greedy

(* ... and no other. *)
LEMMA GreedyUnique ==
  ASSUME NEW F, IsFiniteSet(F), NEW R, StrictOrder(R, F),
         NEW S \in SUBSET F, Greedy(S, F, R), NEW T \in SUBSET F, Greedy(T, F, R)
  PROVE  S = T
<1> DEFINE P == {f \in F : (f \in S) # (f \in T)}
           Back == {x \in F \X F : <<x[2], x[1]>> \in R}
<1> SUFFICES ASSUME P # {} PROVE FALSE
  OBVIOUS
<1>1. IsFiniteSet(P) /\ P \subseteq F
  BY FS_Subset
<1>2. StrictOrder(Back, P)
  BY <1>1 DEF StrictOrder
<1>3. PICK m \in P : \A f \in P : <<m, f>> \notin Back
  BY <1>1, <1>2, LastOne
<1>4. \A g \in F : <<g, m>> \in R => (g \in S <=> g \in T)
  BY <1>1, <1>3
<1>5. m \in S <=> m \in T
  BY <1>1, <1>3, <1>4 DEF Greedy
<1> QED
  BY <1>3, <1>5

-----------------------------------------------------------------------------
(***************************************************************************)
(* Findings.  What finditer and the choice among overlapping findings keep *)
(* of everything the rules fit, and what the text can hold when they keep  *)
(* nothing.                                                                *)
(***************************************************************************)
Categories == {Priority[i] : i \in 1..13}
Findings(t) == [cat : Categories, from : 1..Len(t), to : 1..Len(t)]

(* Every rule's category has a priority. *)
LEMMA RuleCategories == \A r \in Rules : r.cat \in Categories
<1> USE DEF Number, Labelled, Rule, Joined, Led
<1> DEFINE Has(RS, c) == \A r \in RS : r.cat = c
<1>1. /\ Has(ResidentRules, "RESIDENT") /\ Has(CardRules, "CARD") /\ Has(AccountRules, "ACCOUNT")
      /\ Has(SecretRules, "SECRET") /\ Has(PassportRules, "PASSPORT")
  BY DEF ResidentRules, CardRules, AccountRules, SecretRules, PassportRules
<1>2. /\ Has(PhoneRules, "PHONE") /\ Has(CaseRules, "CASE") /\ Has(AddressRules, "ADDRESS")
      /\ \A r \in PlaceRules : r.cat \in {"EMAIL", "LOCATION", "PLATE"}
  BY DEF PhoneRules, CaseRules, AddressRules, PlaceRules
<1>3. Has(NameRules, "NAME") /\ Has(HealthRules, "HEALTH")
  BY DEF NameRules, HealthRules
<1>4. Categories = {"RESIDENT", "CARD", "ACCOUNT", "SECRET", "PASSPORT", "PHONE", "EMAIL",
              "LOCATION", "PLATE", "CASE", "ADDRESS", "NAME", "HEALTH"}
  BY DEF Categories, Priority
<1> QED
  BY <1>1, <1>2, <1>3, <1>4 DEF Rules

(* The rank of a category is its place in the priorities. *)
LEMMA Ranked ==
  \A c \in Categories : Rank(c) \in 1..13 /\ Priority[Rank(c)] = c
<1> DOMAIN Priority = 1..13
  BY DEF Priority
<1> QED
  BY DEF Rank, Categories

(* A text has finitely many possible findings. *)
LEMMA FindingsFinite ==
  ASSUME NEW t, Len(t) \in Nat, NEW F \in SUBSET Findings(t)
  PROVE  IsFiniteSet(F)
<1>0. IsFiniteSet(1..13) /\ IsFiniteSet(1..Len(t))
  <2>1. 1 \in Int /\ 13 \in Int /\ Len(t) \in Int
    OBVIOUS
  <2> QED
    BY <2>1, FS_Interval
<1> DEFINE places == 1..Len(t)
           bounds == (1..13) \X (places \X places)
           name == [f \in F |-> <<Rank(f.cat), <<f.from, f.to>>>>]
<1>1. IsFiniteSet(bounds)
  <2>1. IsFiniteSet(places \X places)
    BY <1>0, FS_Product
  <2> QED
    BY <1>0, <2>1, FS_Product
<1>2. name \in Injection(F, bounds)
  <2>1. name \in [F -> bounds]
    BY Ranked DEF Findings
  <2>2. ASSUME NEW f \in F, NEW g \in F, name[f] = name[g] PROVE f = g
    <3>1. Rank(f.cat) = Rank(g.cat) /\ f.from = g.from /\ f.to = g.to
      BY <2>2
    <3>2. f.cat = g.cat
      BY <3>1, Ranked DEF Findings
    <3> QED
      BY <3>1, <3>2 DEF Findings
  <2> QED
    BY <2>1, <2>2 DEF Injection, IsInjective
<1> HIDE DEF bounds, name
<1> QED
  BY <1>1, <1>2, FS_Injection

(* A match is a finding of its rule's category where the rule fits. *)
LEMMA MatchesTyped ==
  ASSUME NEW t, Len(t) \in Nat, NEW r \in Rules
  PROVE  /\ Matches(r, t) \in SUBSET Findings(t)
         /\ \A f \in Matches(r, t) : f.cat = r.cat /\ f.from <= f.to /\ Recognises(r, t, f.from, f.to)
<1> SUFFICES ASSUME NEW f \in Matches(r, t)
             PROVE  /\ f \in Findings(t) /\ f.cat = r.cat /\ f.from <= f.to
                    /\ Recognises(r, t, f.from, f.to)
  OBVIOUS
<1>1. PICK s \in (1..Len(t)) \X (1..Len(t)) :
         /\ s[1] <= s[2] /\ Recognises(r, t, s[1], s[2])
         /\ f = [cat |-> r.cat, from |-> s[1], to |-> s[2]]
  BY DEF Matches
<1>2. f.cat = r.cat /\ f.from = s[1] /\ f.to = s[2]
  BY <1>1
<1> QED
  BY <1>1, <1>2, RuleCategories DEF Findings

(* Wherever a rule fits there is a match. *)
LEMMA IsMatch ==
  ASSUME NEW t, NEW r, NEW i \in 1..Len(t), NEW j \in 1..Len(t), i <= j, Recognises(r, t, i, j)
  PROVE  [cat |-> r.cat, from |-> i, to |-> j] \in Matches(r, t)
<1> DEFINE s == <<i, j>>
<1>1. s \in (1..Len(t)) \X (1..Len(t)) /\ s[1] = i /\ s[2] = j
  OBVIOUS
<1> QED
  BY <1>1 DEF Matches

Longest(r, t) == {f \in Matches(r, t) : ~ \E g \in Matches(r, t) : g.from = f.from /\ g.to > f.to}
FromLeft(F) == {p \in F \X F : p[1].from < p[2].from}

(* finditer keeps matches from the left. *)
LEMMA FindIterIsGreedy ==
  ASSUME NEW t, Len(t) \in Nat, NEW r \in Rules
  PROVE  /\ FindIter(r, t) \in SUBSET Longest(r, t)
         /\ Greedy(FindIter(r, t), Longest(r, t), FromLeft(Longest(r, t)))
<1>1. Longest(r, t) \in SUBSET Findings(t)
  BY MatchesTyped DEF Longest
<1>2. StrictOrder(FromLeft(Longest(r, t)), Longest(r, t))
  <2> DEFINE L == Longest(r, t)
  <2>1. \A f, g \in L : <<f, g>> \in FromLeft(L) <=> f.from < g.from
    BY DEF FromLeft
  <2>2. \A f \in L : f.from \in Int
    BY <1>1 DEF Findings
  <2> HIDE DEF L
  <2>3. StrictOrder(FromLeft(L), L)
    BY <2>1, <2>2 DEF StrictOrder
  <2> QED
    BY <2>3 DEF L
<1>3. FindIter(r, t) = Scan(Longest(r, t), FromLeft(Longest(r, t)))
  BY DEF FindIter, Longest, FromLeft
<1> QED
  BY <1>1, <1>2, <1>3, FindingsFinite, ScanIsGreedy

(* finditer passes no match by: each one gives way to a match kept at the same
   place, which is as long, or to one that began before it and reaches it. *)
LEMMA FindIterCovers ==
  ASSUME NEW t, Len(t) \in Nat, NEW r \in Rules, NEW f \in Matches(r, t)
  PROVE  \E g \in FindIter(r, t) :
           /\ g \in Matches(r, t)
           /\ \/ g.from = f.from /\ g.to >= f.to
              \/ g.from < f.from /\ f.from <= g.to
<1> DEFINE found == Matches(r, t)
<1>0. found \in SUBSET Findings(t) /\ \A x \in found : x.from \in Int /\ x.to \in Int
  BY MatchesTyped DEF Findings
<1>1. PICK x \in Longest(r, t) : x.from = f.from /\ x.to >= f.to
  <2> DEFINE here == {x \in found : x.from = f.from /\ x.to >= f.to}
             longer == {p \in found \X found : p[1].to < p[2].to}
  <2>0. f \in found
    OBVIOUS
  <2>1. IsFiniteSet(here) /\ here # {}
    BY <1>0, FindingsFinite
  <2>2. \A x, y \in found : <<x, y>> \in longer <=> x.to < y.to
    OBVIOUS
  <2>3. \A x \in here : x \in found /\ x.from = f.from /\ x.to >= f.to
    OBVIOUS
  <2>4. \A x \in found : x.from = f.from /\ x.to >= f.to => x \in here
    OBVIOUS
  <2> HIDE DEF here, longer, found
  <2>5. StrictOrder(longer, here)
    BY <1>0, <2>2, <2>3 DEF StrictOrder
  <2>6. PICK x \in here : \A y \in here : <<x, y>> \notin longer
    BY <2>1, <2>5, LastOne
  <2>7. ASSUME NEW g \in found, g.from = x.from, g.to > x.to PROVE FALSE
    <3>1. x \in found /\ x.from = f.from /\ x.to >= f.to
      BY <2>3
    <3>2. g.to \in Int /\ x.to \in Int /\ f.to \in Int
      BY <1>0, <2>0, <2>7, <3>1
    <3>3. g.to >= f.to
      BY <2>7, <3>1, <3>2
    <3>4. g \in here
      BY <2>4, <2>7, <3>1, <3>3
    <3> QED
      BY <2>2, <2>6, <2>7, <3>1, <3>4
  <2> QED
    BY <2>3, <2>7 DEF Longest, found
<1>2. \A y \in Longest(r, t) : y \in found
  BY DEF Longest
<1>3. CASE x \in FindIter(r, t)
  BY <1>1, <1>2, <1>3
<1>4. CASE x \notin FindIter(r, t)
  <2>1. PICK g \in FindIter(r, t) : <<g, x>> \in FromLeft(Longest(r, t)) /\ Overlaps(g, x)
    BY <1>1, <1>4, FindIterIsGreedy DEF Greedy
  <2>2. g \in found /\ g.from < x.from /\ x.from <= g.to
    BY <1>2, <2>1, FindIterIsGreedy DEF FromLeft, Overlaps
  <2> QED
    BY <1>1, <2>1, <2>2
<1> QED
  BY <1>3, <1>4

(* What is collected is a finite set of findings. *)
LEMMA CollectTyped ==
  ASSUME NEW t, Len(t) \in Nat
  PROVE  /\ CollectFindings(t) \in SUBSET Findings(t) /\ IsFiniteSet(CollectFindings(t))
         /\ \A f \in CollectFindings(t) : f.from <= f.to
<1>1. \A r \in Rules : FindIter(r, t) \subseteq Matches(r, t)
  BY FindIterIsGreedy DEF Longest
<1>2. \A r \in Rules : \A f \in FindIter(r, t) : f \in Findings(t) /\ f.from <= f.to
  BY <1>1, MatchesTyped
<1>3. CollectFindings(t) \in SUBSET Findings(t) /\ \A f \in CollectFindings(t) : f.from <= f.to
  BY <1>2 DEF CollectFindings
<1> QED
  BY <1>3, FindingsFinite

Winning(F) == {p \in F \X F : Wins(p[1], p[2])}

(* Winning is a strict order. *)
LEMMA WinsIsStrict ==
  ASSUME NEW t, Len(t) \in Nat, NEW F \in SUBSET Findings(t)
  PROVE  StrictOrder(Winning(F), F)
<1>1. \A f \in F : Rank(f.cat) \in Int /\ f.from \in Int /\ f.to \in Int
  BY Ranked DEF Findings
<1>2. \A f \in F : ~ Wins(f, f)
  BY <1>1 DEF Wins
<1>3. \A f, g, h \in F : Wins(f, g) /\ Wins(g, h) => Wins(f, h)
  BY <1>1 DEF Wins
<1>4. \A f, g \in F : <<f, g>> \in Winning(F) <=> Wins(f, g)
  BY DEF Winning
<1> QED
  BY <1>2, <1>3, <1>4 DEF StrictOrder

(* What is selected gives way only to what won over it. *)
LEMMA SelectIsGreedy ==
  ASSUME NEW t, Len(t) \in Nat
  PROVE  /\ SelectFindings(t) \in SUBSET CollectFindings(t)
         /\ Greedy(SelectFindings(t), CollectFindings(t), Winning(CollectFindings(t)))
  BY CollectTyped, WinsIsStrict, ScanIsGreedy DEF SelectFindings, Winning

(* Where nothing is selected, nothing was found. *)
LEMMA NothingFound ==
  ASSUME NEW t, Len(t) \in Nat, SelectFindings(t) = {}
  PROVE  CollectFindings(t) = {}
BY SelectIsGreedy DEF Greedy

(* Texts of at most one piece. *)
LEMMA AtMostOne == \A x : <<>> \in Seq({x}) /\ <<x>> \in Seq({x})
  OBVIOUS

AccountNumber ==
  Joined({"hyphen"},
    [Number("ACCOUNT", Heads,
       {<<D(3), D(6), D(2), D(3)>>, <<D(3), D(3), D(6)>>, <<D(6), D(2), D(6)>>,
        <<D(3), D(6), D(5)>>, <<D(4), D(4), D(4)>>, <<D(3), D(2), D(6)>>,
        <<D(4), D(2), D(6)>>, <<D(3), D(6), D(3)>>})
     EXCEPT !.but = {"personal", "messaging"} \X {<<D(4), D(4), D(4)>>}])
AccountLabelled ==
  Joined({"hyphen", "space"},
    Labelled("ACCOUNT", "account", UNION {[1..k -> {D(n) : n \in 2..6}] : k \in 2..5}))
CaseLabelled ==
  Joined({"hyphen"}, Led({"hyphen"},
    Labelled("CASE", "case", {<<D(4), D(6)>>, <<D(4), D(2), D(6)>>, <<D(6), D(7)>>,
                              <<W("latin"), D(6)>>, <<W("latin"), D(4), D(6)>>})))
CaseNumber ==
  Joined({"hyphen"}, Led({"hyphen"}, Number("CASE", Heads, {<<W("latin"), D(4), D(6)>>})))

(* No rule asks for a label or an enquiry first. *)
LEMMA ShapesStart == \A r \in Rules : \A s \in r.shapes : s[1][1] \notin {"label", "enquiry"}
<1> USE DEF Number, Labelled, Rule, Joined, Led, D, W
<1> DEFINE Fine(RS) == \A r \in RS : \A s \in r.shapes : s[1][1] \notin {"label", "enquiry"}
<1>1. Fine(ResidentRules) /\ Fine(SecretRules) /\ Fine(PassportRules)
  BY DEF ResidentRules, SecretRules, PassportRules
<1>2. Fine(CardRules)
  BY DEF CardRules
<1>3. Fine(AccountRules)
  <2>1. \A k \in 2..5 : \A s \in [1..k -> {D(n) : n \in 2..6}] : s[1][1] = "digits"
    OBVIOUS
  <2>2. /\ AccountLabelled.shapes = UNION {[1..k -> {D(n) : n \in 2..6}] : k \in 2..5}
        /\ \A s \in AccountNumber.shapes : s[1][1] = "digits"
        /\ AccountRules = {AccountLabelled, AccountNumber}
    BY DEF AccountRules, AccountLabelled, AccountNumber
  <2> QED
    <3> HIDE DEF Number, Labelled, Rule, Joined, Led, D, W
    <3> QED
      BY <2>1, <2>2
<1>4. Fine(PhoneRules)
  BY DEF PhoneRules
<1>5. Fine(PlaceRules)
  <2>1. /\ Led({"none", "space", "hyphen"}, Number("PLATE", Heads,
               {<<D(n), W("syllable"), D(4)>> : n \in {2, 3}})).shapes
             = {<<D(n), W("syllable"), D(4)>> : n \in {2, 3}}
        /\ Joined({"hyphen", "space"}, Number("PLATE", Heads, {<<W("mission"), D(3), D(3)>>})).shapes
             = {<<W("mission"), D(3), D(3)>>}
    OBVIOUS
  <2>2. \A r \in PlaceRules : r.shapes \in
          {{<<W("email")>>}, {<<W("coordinate"), W("coordinate")>>},
           {<<D(n), W("syllable"), D(4)>> : n \in {2, 3}}, {<<W("mission"), D(3), D(3)>>}}
    <3>1. Number("EMAIL", Heads, {<<W("email")>>}).shapes = {<<W("email")>>}
      OBVIOUS
    <3>2. Number("LOCATION", Heads, {<<W("coordinate"), W("coordinate")>>}).shapes
            = {<<W("coordinate"), W("coordinate")>>}
      OBVIOUS
    <3> HIDE DEF Number, Rule, Joined, Led, D, W
    <3> QED
      BY <2>1, <3>1, <3>2 DEF PlaceRules
  <2>3. \A shapes \in {{<<W("email")>>}, {<<W("coordinate"), W("coordinate")>>},
           {<<D(n), W("syllable"), D(4)>> : n \in {2, 3}}, {<<W("mission"), D(3), D(3)>>}} :
          \A s \in shapes : s[1][1] \notin {"label", "enquiry"}
    OBVIOUS
  <2> HIDE DEF Number, Rule, Joined, Led, D, W
  <2> QED
    BY <2>2, <2>3
<1>6. Fine(CaseRules)
  <2>1. /\ CaseLabelled.shapes = {<<D(4), D(6)>>, <<D(4), D(2), D(6)>>, <<D(6), D(7)>>,
                                  <<W("latin"), D(6)>>, <<W("latin"), D(4), D(6)>>}
        /\ CaseNumber.shapes = {<<W("latin"), D(4), D(6)>>}
    BY DEF CaseLabelled, CaseNumber
  <2>2. CaseRules = {CaseLabelled, CaseNumber}
    BY DEF CaseRules, CaseLabelled, CaseNumber
  <2> QED
    <3> HIDE DEF Number, Labelled, Rule, Joined, Led
    <3> QED
      BY <2>1, <2>2
<1>7. Fine(AddressRules)
  <2> DEFINE plot == {<<d>> : d \in Short(4)} \cup (Short(4) \X Short(4))
             units == {<<>>, <<W("unit")>>}
  <2>1. ASSUME NEW p \in plot PROVE p \in Seq(Short(4))
    <3>1. CASE \E d \in Short(4) : p = <<d>>
      BY <3>1
    <3>2. CASE \E c \in Short(4), d \in Short(4) : p = <<c, d>>
      BY <3>2
    <3> QED
      BY <3>1, <3>2
  <2>2. ASSUME NEW u \in units PROVE u \in Seq({W("unit")})
    <3> DEFINE e == W("unit")
    <3>1. u = <<>> \/ u = <<e>>
      OBVIOUS
    <3> QED
      BY <3>1, AtMostOne
  <2>3. \A p \in plot : \A u \in units : (<<W("road")>> \o p \o u)[1] = W("road")
    BY <2>1, <2>2
  <2>4. \A p \in plot : (<<W("village")>> \o p)[1] = W("village")
    BY <2>1
  <2> DEFINE shapes == {<<W("road")>> \o p \o u : p \in plot, u \in units}
                       \cup {<<W("village")>> \o p : p \in plot}
                       \cup {<<W("town"), W("building"), W("unit")>>}
             address == Joined({"hyphen"}, Number("ADDRESS", Heads, shapes))
  <2>5. \A s \in shapes : s[1] \in {W("road"), W("village"), W("town")}
    BY <2>3, <2>4
  <2>6. AddressRules = {address}
    BY DEF AddressRules
  <2>7. \A S : Joined({"hyphen"}, Number("ADDRESS", Heads, S)).shapes = S
    OBVIOUS
  <2>8. address.shapes = shapes
    <3> HIDE DEF shapes, Joined, Number
    <3> QED
      BY <2>7
  <2>9. \A w \in {W("road"), W("village"), W("town")} : w[1] \notin {"label", "enquiry"}
    OBVIOUS
  <2> HIDE DEF shapes, address, W
  <2> QED
    BY <2>5, <2>6, <2>8, <2>9
<1>8. Fine(NameRules) /\ Fine(HealthRules)
  BY DEF NameRules, HealthRules
<1> QED
  BY <1>1, <1>2, <1>3, <1>4, <1>5, <1>6, <1>7, <1>8 DEF Rules

(* A text in which nothing is found holds nothing the rules of the other
   categories fit, no account and no card that counts. *)
LEMMA OthersMatchNothing ==
  ASSUME NEW t, Len(t) \in Nat, CollectFindings(t) = {}, NEW r \in Rules,
         r.cat \notin {"ACCOUNT", "CARD"}
  PROVE  Matches(r, t) = {}
<1> SUFFICES ASSUME NEW f \in Matches(r, t) PROVE FALSE
  OBVIOUS
<1>1. PICK g \in FindIter(r, t) : g \in Matches(r, t)
  BY FindIterCovers
<1>2. g.cat = r.cat
  BY <1>1, MatchesTyped
<1> QED
  BY <1>1, <1>2 DEF CollectFindings, Counts

(* The rules of accounts, and the labelled case rule. *)
LEMMA NamedRules ==
  /\ {AccountNumber, AccountLabelled, CaseLabelled} \subseteq Rules
  /\ \A r \in Rules : r.cat = "ACCOUNT" => r \in {AccountNumber, AccountLabelled}
<1> USE DEF Number, Labelled, Rule, Joined, Led
<1> DEFINE Not(RS, c) == \A r \in RS : r.cat # c
<1>1. AccountRules = {AccountLabelled, AccountNumber}
  BY DEF AccountRules, AccountLabelled, AccountNumber
<1>2. CaseLabelled \in CaseRules
  BY DEF CaseRules, CaseLabelled
<1>3. /\ Not(ResidentRules, "ACCOUNT") /\ Not(CardRules, "ACCOUNT") /\ Not(SecretRules, "ACCOUNT")
      /\ Not(PassportRules, "ACCOUNT") /\ Not(PhoneRules, "ACCOUNT")
      /\ Not(PlaceRules, "ACCOUNT") /\ Not(CaseRules, "ACCOUNT")
      /\ Not(AddressRules, "ACCOUNT") /\ Not(NameRules, "ACCOUNT") /\ Not(HealthRules, "ACCOUNT")
  BY DEF ResidentRules, CardRules, SecretRules, PassportRules, PhoneRules, PlaceRules,
         CaseRules, AddressRules, NameRules, HealthRules
<1> QED
  BY <1>1, <1>2, <1>3 DEF Rules

(* An account left to the case rule is found by that rule, so no account is left. *)
LEMMA NoAccount ==
  ASSUME NEW t, Len(t) \in Nat, CollectFindings(t) = {}, NEW r \in Rules, r.cat = "ACCOUNT"
  PROVE  Matches(r, t) = {}
<1> SUFFICES ASSUME NEW f \in Matches(r, t) PROVE FALSE
  OBVIOUS
<1>1. PICK g \in FindIter(r, t) : g \in Matches(r, t)
  BY FindIterCovers
<1>2. /\ g.cat = "ACCOUNT" /\ g.from <= g.to /\ Recognises(r, t, g.from, g.to)
      /\ g.from \in 1..Len(t) /\ g.to \in 1..Len(t)
  BY <1>1, MatchesTyped DEF Findings
<1>3. /\ LabelBefore(t, g.from, {"case"})
      /\ [i \in 1..(g.to - g.from + 1) |-> t[g.from + i - 1].n] = <<4, 2, 6>>
  BY <1>1, <1>2 DEF CollectFindings, Counts
<1>4. CASE r = AccountLabelled
  BY <1>2, <1>3, <1>4 DEF LabelBefore, Recognises, AccountLabelled, Joined, Labelled, Rule
<1>5. CASE r = AccountNumber
  <2> DEFINE i == g.from
             j == g.to
             shape == [k \in 1..(j - i + 1) |-> ShapeOf(t[i + k - 1])]
  <2>1. /\ shape \in AccountNumber.shapes /\ (t[i].kind = "digits" => t[i].tag \in Heads)
        /\ JoinedAs(AccountNumber, t, i, j)
    BY <1>2, <1>5 DEF Recognises, AccountNumber, Joined, Number, Rule
  <2>2. j - i + 1 = 3
    <3>1. DOMAIN [k \in 1..(j - i + 1) |-> t[i + k - 1].n] = 1..(j - i + 1)
      OBVIOUS
    <3>2. DOMAIN <<4, 2, 6>> = 1..3
      OBVIOUS
    <3>3. 1..(j - i + 1) = 1..3
      BY <1>3, <3>1, <3>2
    <3>4. j - i + 1 \in Int /\ j - i + 1 >= 1
      BY <1>2
    <3>5. j - i + 1 \in 1..3 /\ 3 \in 1..(j - i + 1)
      BY <3>3, <3>4
    <3> QED
      BY <3>4, <3>5
  <2>3. t[i].n = 4 /\ t[i + 1].n = 2 /\ t[i + 2].n = 6
    <3> DEFINE lengths == [k \in 1..(j - i + 1) |-> t[i + k - 1].n]
    <3>1. lengths[1] = t[i + 1 - 1].n /\ lengths[2] = t[i + 2 - 1].n /\ lengths[3] = t[i + 3 - 1].n
      BY <2>2
    <3>2. lengths[1] = 4 /\ lengths[2] = 2 /\ lengths[3] = 6
      <4>1. lengths = <<4, 2, 6>>
        BY <1>3
      <4> HIDE DEF lengths
      <4> QED
        BY <4>1
    <3>3. i \in Int /\ i + 1 - 1 = i /\ i + 2 - 1 = i + 1 /\ i + 3 - 1 = i + 2
      BY <1>2
    <3> HIDE DEF lengths
    <3> QED
      BY <3>1, <3>2, <3>3
  <2>4. \A k \in 1..3 : shape[k][1] = "digits"
    <3> HIDE DEF shape
    <3> QED
      BY <2>1, <2>2 DEF AccountNumber, Joined, Number, Rule, D
  <2>5. i \in Int /\ i + 1 - 1 = i /\ i + 2 - 1 = i + 1 /\ i + 3 - 1 = i + 2
    BY <1>2
  <2>6. shape = [k \in 1..3 |-> ShapeOf(t[i + k - 1])]
    BY <2>2
  <2>7. shape[1] = ShapeOf(t[i]) /\ shape[2] = ShapeOf(t[i + 1]) /\ shape[3] = ShapeOf(t[i + 2])
    BY <2>5, <2>6
  <2>8. shape[1] = D(4) /\ shape[2] = D(2) /\ shape[3] = D(6)
    <3>1. shape[1][1] = "digits" /\ shape[2][1] = "digits" /\ shape[3][1] = "digits"
      BY <2>4
    <3> HIDE DEF shape
    <3> QED
      BY <2>3, <2>7, <3>1 DEF ShapeOf, D
  <2>9. shape = <<D(4), D(2), D(6)>>
    BY <2>6, <2>8
  <2>10. JoinedAs(CaseLabelled, t, i, j)
    <3>1. \A k \in (i + 1)..j : t[k].kind = "digits" /\ t[k - 1].kind = "digits"
      <4>1. /\ t[i].kind = "digits" /\ t[i + 1].kind = "digits" /\ t[i + 2].kind = "digits"
        <5> HIDE DEF shape
        <5> QED
          BY <2>4, <2>7 DEF ShapeOf
      <4>2. j = i + 2
        BY <1>2, <2>2, <2>5
      <4>3. \A k \in (i + 1)..j : k \in {i + 1, i + 2} /\ k - 1 \in {i, i + 1}
        BY <2>5, <4>2
      <4> QED
        BY <4>1, <4>3
    <3>2. AccountNumber.seps = {"hyphen"} /\ CaseLabelled.seps = {"hyphen"}
      BY DEF AccountNumber, CaseLabelled, Joined, Led, Number, Labelled, Rule
    <3> QED
      BY <2>1, <3>1, <3>2 DEF JoinedAs
  <2>11. /\ CaseLabelled.but = {} /\ CaseLabelled.next = {} /\ CaseLabelled.after = {"case"}
         /\ CaseLabelled.heads = Heads /\ <<D(4), D(2), D(6)>> \in CaseLabelled.shapes
         /\ CaseLabelled.cat = "CASE"
    BY DEF CaseLabelled, Joined, Led, Labelled, Rule
  <2>12. Recognises(CaseLabelled, t, i, j)
    <3> HIDE DEF shape
    <3>1. shape \in CaseLabelled.shapes /\ <<t[i].tag, shape>> \notin CaseLabelled.but
      BY <2>9, <2>11
    <3> QED
      BY <1>3, <2>1, <2>10, <2>11, <3>1 DEF Recognises, LabelBefore, shape
  <2> QED
    BY <1>2, <2>11, <2>12, IsMatch, NamedRules, OthersMatchNothing
<1> QED
  BY <1>4, <1>5, NamedRules

(* A card that counts is stepped over: its own match is not what finditer keeps
   there, and what it keeps does not count. *)
LEMMA NoCard ==
  ASSUME NEW t, Len(t) \in Nat, CollectFindings(t) = {}, NEW r \in Rules,
         NEW f \in Matches(r, t), Counts(t, f)
  PROVE  SteppedOver(r, t, f.from, f.to)
<1>1. PICK g \in FindIter(r, t) :
        /\ g \in Matches(r, t)
        /\ \/ g.from = f.from /\ g.to >= f.to
           \/ g.from < f.from /\ f.from <= g.to
  BY FindIterCovers
<1>2. ~ Counts(t, g)
  BY <1>1 DEF CollectFindings
<1>3. /\ f \in Findings(t) /\ g \in Findings(t) /\ f.cat = g.cat
      /\ f.to \in Int /\ g.to \in Int
  BY <1>1, MatchesTyped DEF Findings
<1>4. ~ (g.from = f.from /\ g.to = f.to)
  BY <1>2, <1>3 DEF Findings
<1>5. g.from = f.from /\ g.to >= f.to => g.to > f.to
  BY <1>3, <1>4
<1> QED
  BY <1>1, <1>2, <1>5 DEF SteppedOver

(* Where nothing is selected, no rule fits any part of the text, as it would were
   that part all there is, other than the card rule a card it steps over. *)
LEMMA NothingMissed ==
  ASSUME NEW t, Len(t) \in Nat, SelectFindings(t) = {},
         NEW r \in Rules, NEW i \in 1..Len(t), NEW j \in i..Len(t), Recognises(r, t, i, j),
         Counts(t, [cat |-> r.cat, from |-> i, to |-> j])
  PROVE  r.cat = "CARD" /\ SteppedOver(r, t, i, j)
<1> DEFINE f == [cat |-> r.cat, from |-> i, to |-> j]
<1>1. CollectFindings(t) = {}
  BY NothingFound
<1>2. j \in 1..Len(t) /\ i <= j
  OBVIOUS
<1>3. f \in Matches(r, t)
  BY <1>2, IsMatch
<1>4. r.cat = "CARD"
  BY <1>1, <1>3, OthersMatchNothing, NoAccount
<1>5. SteppedOver(r, t, f.from, f.to)
  <2>1. Counts(t, f)
    OBVIOUS
  <2> HIDE DEF f
  <2> QED
    BY <1>1, <1>3, <2>1, NoCard
<1> QED
  BY <1>4, <1>5

(* A question that only asks about a kind of data holds none. *)
LEMMA InquiryHoldsNothing ==
  ASSUME NEW t, IsSafeExplicitInquiry(t)
  PROVE  ~ Legible(t)
<1>1. /\ Len(t) \in Nat /\ DOMAIN t = 1..Len(t)
      /\ \A i \in DOMAIN t : t[i].kind \in {"label", "enquiry"}
  BY DEF IsSafeExplicitInquiry, Word, Piece
<1>2. ASSUME NEW r \in Rules, NEW i \in DOMAIN t, NEW j \in i..Len(t), Recognises(r, t, i, j)
      PROVE  FALSE
  <2> DEFINE shape == [k \in 1..(j - i + 1) |-> ShapeOf(t[i + k - 1])]
  <2>1. shape \in r.shapes
    BY <1>2 DEF Recognises
  <2>2. 1 \in 1..(j - i + 1) /\ i + 1 - 1 = i
    BY <1>1
  <2>3. shape[1] = ShapeOf(t[i])
    BY <2>2
  <2> HIDE DEF shape
  <2>4. shape[1][1] \in {"label", "enquiry"}
    BY <1>1, <2>3 DEF ShapeOf
  <2> QED
    BY <2>1, <2>4, ShapesStart
<1>3. NumericRuns(t) = {}
  BY <1>1 DEF NumericRuns
<1>4. RiskyNumbers(t) = {}
  BY <1>3 DEF RiskyNumbers
<1>5. RiskyWords(t) = {}
  <2>1. \A i \in DOMAIN t : t[i].kind \notin {"at", "email", "ext"}
    BY <1>1
  <2>2. Len(t) \in 1..2
    BY DEF IsSafeExplicitInquiry
  <2> QED
    BY <1>1, <2>1, <2>2 DEF RiskyWords
<1>6. "name" \notin Kinds(t)
  BY <1>1 DEF Kinds
<1> QED
  BY <1>2, <1>4, <1>5, <1>6 DEF Legible

-----------------------------------------------------------------------------
(***************************************************************************)
(* Masking, a place at a time from the last one back.                      *)
(***************************************************************************)
Step(t, F, m, i) ==
  IF i > Len(t) THEN <<>>
  ELSE IF \E f \in F : f.from = i
  THEN LET f == CHOOSE f \in F : f.from = i
       IN  <<Token(f.cat)>> \o m[f.to + 1]
  ELSE <<t[i]>> \o m[i + 1]

Forward(t, F) == \A f \in F : f \in Findings(t) /\ f.from <= f.to

(* A step looks only at places further on. *)
LEMMA StepLooksAhead ==
  ASSUME NEW t, Len(t) \in Nat, NEW F, Forward(t, F), NEW i \in 1..(Len(t) + 1), NEW m, NEW n,
         \A k \in (i + 1)..(Len(t) + 1) : m[k] = n[k]
  PROVE  Step(t, F, m, i) = Step(t, F, n, i)
<1>1. CASE i <= Len(t) /\ \E f \in F : f.from = i
  <2> DEFINE f == CHOOSE f \in F : f.from = i
  <2>1. f \in F /\ f.from = i
    BY <1>1
  <2> HIDE DEF f
  <2>2. f.to + 1 \in (i + 1)..(Len(t) + 1)
    BY <2>1 DEF Forward, Findings
  <2>3. m[f.to + 1] = n[f.to + 1]
    BY <2>2
  <2> QED
    BY <1>1, <2>3 DEF Step, f
<1>2. CASE i <= Len(t) /\ ~ \E f \in F : f.from = i
  <2>1. i + 1 \in (i + 1)..(Len(t) + 1)
    BY <1>2
  <2> QED
    BY <1>2, <2>1 DEF Step
<1>3. CASE i > Len(t)
  BY <1>3 DEF Step
<1> QED
  BY <1>1, <1>2, <1>3

Less(S) == {p \in S \X S : p[1] < p[2]}

(* A set of places has a last one. *)
LEMMA LastPlace ==
  ASSUME NEW n \in Nat, NEW S \in SUBSET (1..n), S # {}
  PROVE  \E k \in S : \A l \in S : l <= k
<1>1. IsFiniteSet(S)
  <2>1. 1 \in Int /\ n \in Int
    OBVIOUS
  <2>2. IsFiniteSet(1..n)
    BY <2>1, FS_Interval
  <2> QED
    BY <2>2, FS_Subset
<1>2. \A k, l \in S : <<k, l>> \in Less(S) <=> k < l
  BY DEF Less
<1>0. \A k \in S : k \in Int
  OBVIOUS
<1>3. StrictOrder(Less(S), S)
  BY <1>0, <1>2 DEF StrictOrder
<1>4. PICK k \in S : \A l \in S : <<k, l>> \notin Less(S)
  BY <1>1, <1>3, LastOne
<1>5. ASSUME NEW l \in S PROVE l <= k
  <2>1. ~ k < l
    BY <1>2, <1>4, <1>5
  <2>2. k \in Int /\ l \in Int
    BY <1>0
  <2> QED
    BY <2>1, <2>2
<1> QED
  BY <1>5

(* The masking is defined, from the last place back to the first, ... *)
LEMMA MaskingExists ==
  ASSUME NEW t, Len(t) \in Nat, NEW F, Forward(t, F)
  PROVE  \E m : m = [i \in 1..(Len(t) + 1) |-> Step(t, F, m, i)]
<1> DEFINE N == Len(t) + 1
           From(k) == \E m : m = [i \in k..N |-> Step(t, F, m, i)]
           Bad == {k \in 1..N : ~ From(k)}
<1>1. N \in Nat /\ N >= 1
  OBVIOUS
<1> SUFFICES ASSUME 1 \in Bad PROVE FALSE
  BY <1>1
<1>2. PICK k \in Bad : \A l \in Bad : l <= k
  <2>1. Bad \in SUBSET (1..N) /\ Bad # {}
    OBVIOUS
  <2> HIDE DEF Bad
  <2> QED
    BY <1>1, <2>1, LastPlace
<1>3. PICK m : m = [i \in (k + 1)..N |-> Step(t, F, m, i)]
  <2>1. CASE k = N
    <3>1. \A m : [i \in (k + 1)..N |-> Step(t, F, m, i)] = [i \in {} |-> 0]
      BY <2>1
    <3> DEFINE empty == [i \in {} |-> 0]
    <3>2. empty = [i \in (k + 1)..N |-> Step(t, F, empty, i)]
      BY <3>1
    <3> QED
      BY <3>2
  <2>2. CASE k # N
    <3>1. k + 1 \in 1..N /\ ~ k + 1 <= k
      BY <1>1, <2>2
    <3>2. k + 1 \notin Bad
      BY <1>2, <3>1
    <3> QED
      BY <3>1, <3>2
  <2> QED
    BY <2>1, <2>2
<1> DEFINE n == [i \in k..N |-> IF i = k THEN Step(t, F, m, k) ELSE m[i]]
<1>4. \A i \in (k + 1)..N : n[i] = m[i]
  BY <1>1
<1>5. ASSUME NEW i \in k..N PROVE n[i] = Step(t, F, n, i)
  <2>1. i \in 1..(Len(t) + 1)
    BY <1>1
  <2>2. \A l \in (i + 1)..(Len(t) + 1) : m[l] = n[l]
    BY <1>1, <1>4
  <2>3. Step(t, F, m, i) = Step(t, F, n, i)
    <3> HIDE DEF n
    <3> QED
      BY <2>1, <2>2, StepLooksAhead
  <2>4. CASE i = k
    <3>1. n[k] = Step(t, F, m, k)
      BY <1>1
    <3> HIDE DEF n
    <3> QED
      BY <2>3, <2>4, <3>1
  <2>5. CASE i # k
    <3>1. i \in (k + 1)..N
      BY <2>5
    <3>2. m[i] = Step(t, F, m, i)
      BY <1>3, <3>1
    <3> HIDE DEF n
    <3> QED
      BY <1>4, <2>3, <3>1, <3>2
  <2> QED
    BY <2>4, <2>5
<1>6. n = [i \in k..N |-> Step(t, F, n, i)]
  <2>1. n = [i \in k..N |-> n[i]]
    OBVIOUS
  <2> HIDE DEF n
  <2> QED
    BY <1>5, <2>1
<1> QED
  <2>1. From(k)
    <3> HIDE DEF n
    <3> QED
      BY <1>6
  <2> QED
    BY <2>1

Masking(t, F) ==
  CHOOSE m : m = [i \in 1..(Len(t) + 1) |-> Step(t, F, m, i)]

(* ApplyFindings returns what the first place becomes. *)
LEMMA MaskingIs ==
  ASSUME NEW t, Len(t) \in Nat, NEW F, Forward(t, F)
  PROVE  /\ ApplyFindings(t, F) = Masking(t, F)[1]
         /\ \A i \in 1..(Len(t) + 1) : Masking(t, F)[i] = Step(t, F, Masking(t, F), i)
<1>1. Masking(t, F) = [i \in 1..(Len(t) + 1) |-> Step(t, F, Masking(t, F), i)]
  BY MaskingExists DEF Masking
<1>2. ApplyFindings(t, F) = Masking(t, F)[1]
  BY DEF ApplyFindings, Masking, Step
<1> QED
  BY <1>1, <1>2


(* ... and is a text of tokens and of the pieces that nothing covers. *)
Apart(F) == \A f, g \in F : Overlaps(f, g) => f = g
Uncovered(t, F) == {i \in 1..Len(t) : ~ \E f \in F : f.from <= i /\ i <= f.to}
Left(t, F) == {t[i] : i \in Uncovered(t, F)} \cup {Token(f.cat) : f \in F}
Between(F, i) == ~ \E f \in F : f.from < i /\ i <= f.to

(* From a place no finding reaches over, only such pieces are put together. *)
LEMMA StepLeaves ==
  ASSUME NEW t, Len(t) \in Nat, NEW F, Forward(t, F), Apart(F),
         NEW i \in 1..(Len(t) + 1), Between(F, i), NEW m,
         \A k \in (i + 1)..(Len(t) + 1) : Between(F, k) => m[k] \in Seq(Left(t, F))
  PROVE  Step(t, F, m, i) \in Seq(Left(t, F))
<1>0. \A f \in F : f.from \in 1..Len(t) /\ f.to \in 1..Len(t) /\ f.from <= f.to
  BY DEF Forward, Findings
<1>1. CASE i <= Len(t) /\ \E f \in F : f.from = i
  <2> DEFINE f == CHOOSE f \in F : f.from = i
  <2>1. f \in F /\ f.from = i
    BY <1>1
  <2> HIDE DEF f
  <2>2. f.to + 1 \in (i + 1)..(Len(t) + 1)
    BY <1>0, <2>1
  <2>3. Between(F, f.to + 1)
    <3> SUFFICES ASSUME NEW g \in F, g.from < f.to + 1, f.to + 1 <= g.to PROVE FALSE
      BY DEF Between
    <3>1. Overlaps(f, g)
      BY <1>0, <2>1 DEF Overlaps
    <3>2. f = g
      BY <2>1, <3>1 DEF Apart
    <3> QED
      BY <1>0, <2>1, <3>2
  <2>4. m[f.to + 1] \in Seq(Left(t, F)) /\ Token(f.cat) \in Left(t, F)
    BY <2>1, <2>2, <2>3 DEF Left
  <2>5. <<Token(f.cat)>> \o m[f.to + 1] \in Seq(Left(t, F))
    BY <2>4
  <2> QED
    BY <1>1, <2>5 DEF Step, f
<1>2. CASE i <= Len(t) /\ ~ \E f \in F : f.from = i
  <2>1. i + 1 \in (i + 1)..(Len(t) + 1) /\ i \in 1..Len(t)
    BY <1>2
  <2>2. i \in Uncovered(t, F)
    BY <1>0, <1>2, <2>1 DEF Uncovered, Between
  <2>3. Between(F, i + 1)
    BY <1>0, <1>2, <2>1 DEF Between
  <2>4. m[i + 1] \in Seq(Left(t, F)) /\ t[i] \in Left(t, F)
    BY <2>1, <2>2, <2>3 DEF Left
  <2>5. <<t[i]>> \o m[i + 1] \in Seq(Left(t, F))
    BY <2>4
  <2> QED
    BY <1>2, <2>5 DEF Step
<1>3. CASE i > Len(t)
  BY <1>3 DEF Step
<1> QED
  BY <1>1, <1>2, <1>3

(* The whole text begins at such a place. *)
LEMMA MaskingLeaves ==
  ASSUME NEW t, Len(t) \in Nat, NEW F, Forward(t, F), Apart(F)
  PROVE  ApplyFindings(t, F) \in Seq(Left(t, F))
<1> DEFINE N == Len(t) + 1
           m == Masking(t, F)
           Bad == {k \in 1..N : Between(F, k) /\ m[k] \notin Seq(Left(t, F))}
<1>1. N \in Nat /\ 1 \in 1..N
  OBVIOUS
<1>2. ASSUME Bad # {} PROVE FALSE
  <2>1. PICK k \in Bad : \A l \in Bad : l <= k
    <3>1. Bad \in SUBSET (1..N) /\ Bad # {}
      BY <1>2
    <3> HIDE DEF Bad
    <3> QED
      BY <1>1, <3>1, LastPlace
  <2>2. \A l \in (k + 1)..(Len(t) + 1) : Between(F, l) => m[l] \in Seq(Left(t, F))
    BY <2>1
  <2> HIDE DEF m
  <2>3. Step(t, F, m, k) \in Seq(Left(t, F))
    BY <2>2, StepLeaves
  <2> QED
    BY <2>3, MaskingIs DEF m
<1>3. Between(F, 1)
  BY DEF Between, Forward, Findings
<1> QED
  BY <1>1, <1>2, <1>3, MaskingIs

(* Selected findings lie apart: of two that overlap one wins. *)
LEMMA SelectedApart ==
  ASSUME NEW t, Len(t) \in Nat
  PROVE  Forward(t, SelectFindings(t)) /\ Apart(SelectFindings(t))
<1> DEFINE F == CollectFindings(t)
           S == SelectFindings(t)
<1>1. S \in SUBSET F /\ Greedy(S, F, Winning(F))
  BY SelectIsGreedy
<1>2. F \in SUBSET Findings(t) /\ \A f \in F : f.from <= f.to
  BY CollectTyped
<1> HIDE DEF F, S
<1>3. ASSUME NEW f \in S, NEW g \in S, Overlaps(f, g), f # g PROVE FALSE
  <2>1. f \in Findings(t) /\ g \in Findings(t) /\ f \in F /\ g \in F
    BY <1>1, <1>2
  <2>2. Wins(f, g) \/ Wins(g, f)
    <3>1. /\ Rank(f.cat) \in Int /\ Rank(g.cat) \in Int
          /\ Rank(f.cat) = Rank(g.cat) => f.cat = g.cat
      BY <2>1, Ranked DEF Findings
    <3>2. f.from \in Int /\ g.from \in Int /\ f.to \in Int /\ g.to \in Int
      BY <2>1 DEF Findings
    <3>3. f.cat = g.cat /\ f.from = g.from /\ f.to = g.to => f = g
      BY <2>1 DEF Findings
    <3> QED
      BY <1>3, <3>1, <3>2, <3>3 DEF Wins
  <2>3. Overlaps(g, f)
    BY <1>3 DEF Overlaps
  <2>4. Wins(f, g) => <<f, g>> \in Winning(F)
    BY <2>1 DEF Winning
  <2>5. Wins(g, f) => <<g, f>> \in Winning(F)
    BY <2>1 DEF Winning
  <2> QED
    BY <1>1, <1>3, <2>1, <2>2, <2>3, <2>4, <2>5 DEF Greedy
<1>4. Apart(S)
  BY <1>3 DEF Apart
<1>5. Forward(t, S)
  BY <1>1, <1>2 DEF Forward
<1> QED
  BY <1>4, <1>5 DEF S

(* Of the findings in a text the selected ones lie apart, and each one that was
   not selected overlaps a selected one that wins over it: nothing found is
   dropped for nothing.  (select_findings) *)
THEOREM SelectionSettlesOverlaps ==
  ASSUME NEW t, Len(t) \in Nat
  PROVE  /\ SelectFindings(t) \subseteq CollectFindings(t)
         /\ \A f, g \in SelectFindings(t) : Overlaps(f, g) => f = g
         /\ \A f \in CollectFindings(t) \ SelectFindings(t) :
              \E g \in SelectFindings(t) : Wins(g, f) /\ Overlaps(g, f)
<1>1. ASSUME NEW f \in CollectFindings(t) \ SelectFindings(t)
      PROVE  \E g \in SelectFindings(t) : Wins(g, f) /\ Overlaps(g, f)
  <2>1. PICK g \in SelectFindings(t) :
          <<g, f>> \in Winning(CollectFindings(t)) /\ Overlaps(g, f)
    BY <1>1, SelectIsGreedy DEF Greedy
  <2>2. Wins(g, f)
    BY <2>1 DEF Winning
  <2> QED
    BY <2>1, <2>2
<1> QED
  BY <1>1, SelectIsGreedy, SelectedApart DEF Apart

(* No other choice would do: what the greedy loop over the sorted findings keeps
   depends on the text alone.  (select_findings) *)
THEOREM SelectionIsDetermined ==
  ASSUME NEW t, Len(t) \in Nat, NEW S \in SUBSET CollectFindings(t),
         \A f \in CollectFindings(t) :
           f \in S <=> ~ \E g \in S : Wins(g, f) /\ Overlaps(g, f)
  PROVE  S = SelectFindings(t)
<1> DEFINE F == CollectFindings(t)
<1>1. IsFiniteSet(F) /\ StrictOrder(Winning(F), F)
  BY CollectTyped, WinsIsStrict
<1>2. Greedy(S, F, Winning(F))
  BY DEF Greedy, Winning
<1> QED
  BY <1>1, <1>2, SelectIsGreedy, GreedyUnique

(* The masked text is put together from tokens of selected findings and pieces
   that no selected finding covers, whatever the text and however its findings
   overlapped: no piece of a finding is left beside its token.  (apply_findings) *)
THEOREM MaskingHidesFindings ==
  ASSUME NEW t, Len(t) \in Nat
  PROVE  LET F == SelectFindings(t) IN
         ApplyFindings(t, F) \in
           Seq({t[i] : i \in {i \in 1..Len(t) : ~ \E f \in F : f.from <= i /\ i <= f.to}}
               \cup {Token(f.cat) : f \in F})
<1>1. ApplyFindings(t, SelectFindings(t)) \in Seq(Left(t, SelectFindings(t)))
  BY SelectedApart, MaskingLeaves
<1> QED
  BY <1>1 DEF Left, Uncovered

-----------------------------------------------------------------------------
(* A text that redaction, shown it again, would leave as it is: it finds nothing
   in it, no number or word of a risky shape is left, and no full name. *)
LooksClean(t) ==
  \/ IsSafeExplicitInquiry(t)
  \/ SelectFindings(t) = {} /\ RiskyNumbers(t) \cup RiskyWords(t) = {} /\ "name" \notin Kinds(t)

(* What redaction lets through passed its second look. *)
LEMMA RedactedIsClean ==
  ASSUME NEW q, RedactQuestion(q) # NULL
  PROVE  LooksClean(RedactQuestion(q))
<1> DEFINE t == Normalize(q)
           F == SelectFindings(t)
           masked == ApplyFindings(t, F)
<1>1. t # NULL
  BY DEF RedactQuestion, RedactText
<1>2. CASE IsSafeExplicitInquiry(t)
  <2>1. RedactQuestion(q) = t
    BY <1>1, <1>2 DEF RedactQuestion, RedactText
  <2> QED
    BY <1>2, <2>1 DEF LooksClean
<1>3. CASE ~ IsSafeExplicitInquiry(t)
  <2>1. /\ RedactQuestion(q) = masked
        /\ ~ HasAmbiguousName(masked)
        /\ ~ SecondLook(masked)
    BY <1>1, <1>3 DEF RedactQuestion, RedactText
  <2> HIDE DEF masked
  <2>2. SelectFindings(masked) = {} /\ ~ HasUncoveredHighRiskSpan(masked, {})
    BY <2>1 DEF SecondLook
  <2>3. RiskyNumbers(masked) \cup RiskyWords(masked) = {}
    BY <2>2 DEF HasUncoveredHighRiskSpan, Covered
  <2>4. "name" \notin Kinds(masked)
    BY <2>1 DEF HasAmbiguousName
  <2> QED
    BY <2>1, <2>2, <2>3, <2>4 DEF LooksClean
<1> QED
  BY <1>2, <1>3

(* A text that looks clean gives nothing away. *)
LEMMA CleanIsIllegible ==
  ASSUME NEW S, NEW t \in Seq(S), SelectFindings(t) = {},
         RiskyNumbers(t) \cup RiskyWords(t) = {}, "name" \notin Kinds(t)
  PROVE  ~ Legible(t)
<1>1. Len(t) \in Nat /\ DOMAIN t = 1..Len(t)
  OBVIOUS
<1> QED
  BY <1>1, NothingMissed DEF Legible

(* What redaction lets through gives nothing away. *)
LEMMA RedactedIsIllegible ==
  ASSUME NEW q, RedactQuestion(q) # NULL
  PROVE  ~ Legible(RedactQuestion(q))
<1> DEFINE t == Normalize(q)
           F == SelectFindings(t)
           masked == ApplyFindings(t, F)
<1>1. t # NULL
  BY DEF RedactQuestion, RedactText
<1>2. CASE IsSafeExplicitInquiry(t)
  <2>1. RedactQuestion(q) = t
    BY <1>1, <1>2 DEF RedactQuestion, RedactText
  <2> QED
    BY <1>2, <2>1, InquiryHoldsNothing
<1>3. CASE ~ IsSafeExplicitInquiry(t)
  <2>1. RedactQuestion(q) = masked
    BY <1>1, <1>3 DEF RedactQuestion, RedactText
  <2>2. Len(t) \in Nat
    <3>1. Len(t) \in 1..MaxQuestion
      BY <1>1 DEF Normalize
    <3> QED
      BY <3>1, MaxQuestionAssumption
  <2>3. masked \in Seq(Left(t, F))
    BY <2>2, SelectedApart, MaskingLeaves
  <2>4. LooksClean(masked)
    BY <2>1, RedactedIsClean
  <2> HIDE DEF masked
  <2> QED
    BY <2>1, <2>3, <2>4, CleanIsIllegible, InquiryHoldsNothing DEF LooksClean
<1> QED
  BY <1>2, <1>3

(* Every text that waits to be stored, is stored or is shown. *)
Kept ==
  {requests[r].text : r \in {r \in Requests : requests[r].stage \in {"failure", "gap"}}}
  \cup {failures[r].text : r \in {r \in Requests : failures[r] # NULL}}
  \cup {gaps[r].text : r \in {r \in Requests : gaps[r] # NULL}}
  \cup {item.text : item \in UNION {reads[v].items : v \in {v \in Viewers : reads[v].stage = "shown"}}}

(* No step of the flow takes its text from anywhere but redaction. *)
LEMMA KeptIsRedacted == TypeOK => Kept \subseteq Texts \cup {NULL}
<1> SUFFICES ASSUME TypeOK, NEW t \in Kept PROVE t \in Texts \cup {NULL}
  OBVIOUS
<1>1. ASSUME NEW r \in Requests, requests[r].stage \in {"failure", "gap"}
      PROVE  requests[r].text \in Texts
  BY <1>1 DEF TypeOK
<1>2. ASSUME NEW r \in Requests, failures[r] # NULL PROVE failures[r].text \in Texts \cup {NULL}
  BY <1>2 DEF TypeOK, Failure
<1>3. ASSUME NEW r \in Requests, gaps[r] # NULL PROVE gaps[r].text \in Texts \cup {NULL}
  BY <1>3 DEF TypeOK, Gap
<1>4. ASSUME NEW v \in Viewers, reads[v].stage = "shown", NEW item \in reads[v].items
      PROVE  item.text \in Texts \cup {NULL}
  BY <1>4 DEF TypeOK, Idle
<1> QED
  BY <1>1, <1>2, <1>3, <1>4 DEF Kept

(* Nor does any text a request may hold. *)
LEMMA TextsAreClean == \A t \in Texts : LooksClean(t) /\ ~ Legible(t)
  BY RedactedIsClean, RedactedIsIllegible DEF Texts, Redactions

(* Whatever is asked, a kept text looks clean, and no personal data can be read
   in it other than a card the card rule steps over. *)
OnlyCleanTexts == \A t \in Kept \ {NULL} : LooksClean(t) /\ ~ Legible(t)

THEOREM KeptTextIsClean == Spec => []OnlyCleanTexts
<1>1. TypeOK => OnlyCleanTexts
  BY KeptIsRedacted, TextsAreClean DEF OnlyCleanTexts
<1> QED
  BY <1>1, Typed, PTL

(* No text that waits to be stored, is stored or is shown gives personal data
   away, whatever is asked and whichever findings overlapped: what redaction
   lets through holds nothing that any rule would fit, were that part all there
   is, so no finding that lost to another is left half masked.  The one exception
   is the card rule, which steps over a card that begins or ends a longer number
   of a card's shape: such a card may be kept. *)
THEOREM NothingSensitive == Spec => []NothingSensitiveStored
<1>1. LegibleTexts = {}
  BY TextsAreClean DEF LegibleTexts
<1>2. NothingSensitiveStored
  BY <1>1 DEF NothingSensitiveStored
<1> QED
  BY <1>2, PTL

=============================================================================
