----------------------- MODULE CandidateWorkflowProofs -----------------------
(***************************************************************************)
(* Theorems about CandidateWorkflow for every set of handlers, questions,  *)
(* candidates, actors and reasons.                                         *)
(***************************************************************************)
EXTENDS CandidateWorkflow, SequenceTheorems, TLAPS

(* A handler reads a row and checks it, or gives up its call: no table     *)
(* changes.                                                                *)
Quiet(h) == Fail(h) \/ \E a \in Actors : Check(h, a)

(* A candidate stands on a question confirmed as missing knowledge.        *)
Grounded ==
  \A c \in Candidates : Exists(c) =>
    /\ failure[candidate[c].failure].status = "REASON_CONFIRMED"
    /\ failure[candidate[c].failure].eligible

(* A reviewer is not the author.                                           *)
TwoPeople ==
  \A c \in Candidates : candidate[c].reviewer # Nobody =>
    candidate[c].reviewer # candidate[c].author

(* Exactly the approved candidates have a document.                        *)
Shown ==
  \A c \in Candidates : document[c] # "NONE" <=> candidate[c].status = "APPROVED"

(* What an approving handler decided about the reserved identity still is  *)
(* true of the candidate, whose content never changes.                     *)
Bound ==
  \A h \in Handlers : call[h].op = "APPROVE" =>
    /\ Exists(call[h].target)
    /\ candidate[call[h].target].content # "near"
    /\ call[h].reserved <=> candidate[call[h].target].content = "exact"

-----------------------------------------------------------------------------
(* A pending call has the fields of its operation.                         *)
LEMMA CallShape ==
  ASSUME NEW x \in Call
  PROVE  /\ x.op = "CONFIRM" => x.actor \in Operators /\ x.target \in Failures
                                  /\ x.reason \in Reasons
         /\ x.op = "CREATE" => x.actor \in Operators /\ x.target \in Failures
                                 /\ x.content \in Contents
         /\ x.op = "SUBMIT" => x.actor \in Operators /\ x.target \in Candidates
         /\ x.op = "APPROVE" => x.actor \in Approvers /\ x.target \in Candidates
                                  /\ x.reserved \in BOOLEAN
         /\ x.op = "REJECT" => x.actor \in Approvers /\ x.target \in Candidates
BY DEF Call, NoCall

(* The rows the functions write pass the CHECKs.                           *)
LEMMA RowsWritten ==
  ASSUME TypeOK, NEW x \in Call
  PROVE  /\ x.op = "CONFIRM" => Confirmed(x.reason) \in FailureRow
         /\ x.op = "CREATE" => Drafted(x) \in CandidateRow
         /\ \A c \in Candidates : candidate[c].status = "DRAFTED" =>
              [candidate[c] EXCEPT !.status = "PENDING_APPROVAL"] \in CandidateRow
         /\ \A c \in Candidates, a \in Approvers, st \in {"APPROVED", "REJECTED"} :
              candidate[c].status = "PENDING_APPROVAL" =>
                Reviewed(candidate[c], st, a) \in CandidateRow
<1>1. x.op = "CONFIRM" => Confirmed(x.reason) \in FailureRow
  BY CallShape, DistinctIds DEF Confirmed, FailureRow, Reasons
<1>2. x.op = "CREATE" => Drafted(x) \in CandidateRow
  BY CallShape, DistinctIds DEF Drafted, CandidateRow
<1>3. ASSUME NEW c \in Candidates, candidate[c].status = "DRAFTED"
      PROVE  [candidate[c] EXCEPT !.status = "PENDING_APPROVAL"] \in CandidateRow
  BY <1>3 DEF TypeOK, CandidateRow
<1>4. ASSUME NEW c \in Candidates, NEW a \in Approvers,
             NEW st \in {"APPROVED", "REJECTED"},
             candidate[c].status = "PENDING_APPROVAL"
      PROVE  Reviewed(candidate[c], st, a) \in CandidateRow
  BY <1>4, DistinctIds DEF TypeOK, CandidateRow, Reviewed
<1> QED
  BY <1>1, <1>2, <1>3, <1>4

(* A commit ends the handler's call and adds one well-formed audit row.    *)
LEMMA CommitTypes ==
  ASSUME TypeOK, NEW h \in Handlers, NEW t \in Targets, Committed(h, t),
         call[h].op \in Ops, call[h].actor \in Actors
  PROVE  /\ audit' \in [Targets -> Seq(Ops \X Actors)]
         /\ call' \in [Handlers -> Call]
<1>1. <<call[h].op, call[h].actor>> \in Ops \X Actors
  OBVIOUS
<1>2. Append(audit[t], <<call[h].op, call[h].actor>>) \in Seq(Ops \X Actors)
  BY <1>1 DEF TypeOK
<1> QED
  BY <1>2 DEF TypeOK, Committed, Logged, Call

(* The initial state has its types.                                        *)
LEMMA TypeInit == Init => TypeOK
BY DistinctIds DEF Init, TypeOK, FailureRow, CandidateRow, NoFailure, NoCandidate,
     Call, Contents, PublicIds

(* Every step keeps the types.                                             *)
LEMMA TypeStep == TypeOK /\ [Next]_vars => TypeOK'
<1> SUFFICES ASSUME TypeOK, [Next]_vars PROVE TypeOK'
  OBVIOUS
<1> USE DEF Ops, Actors, Targets
<1>1. ASSUME NEW f \in Failures, RecordFailure(f) PROVE TypeOK'
  BY <1>1, DistinctIds DEF RecordFailure, TypeOK, FailureRow, Reasons
<1>2. ASSUME NEW h \in Handlers, NEW a \in Actors, Check(h, a) PROVE TypeOK'
  <2>1. PICK c \in Call : Begin(h, c)
    <3>1. ASSUME NEW f \in Failures, NEW reason \in Reasons,
                 CheckConfirm(h, a, f, reason)
          PROVE  \E c \in Call : Begin(h, c)
      BY <3>1 DEF CheckConfirm, Call
    <3>2. ASSUME NEW f \in Failures, NEW content \in Contents,
                 CheckCreate(h, a, f, content)
          PROVE  \E c \in Call : Begin(h, c)
      BY <3>2 DEF CheckCreate, Call
    <3>3. ASSUME NEW c \in Candidates, CheckSubmit(h, a, c)
          PROVE  \E x \in Call : Begin(h, x)
      BY <3>3 DEF CheckSubmit, Call
    <3>4. ASSUME NEW c \in Candidates, CheckApprove(h, a, c)
          PROVE  \E x \in Call : Begin(h, x)
      BY <3>4 DEF CheckApprove, Call
    <3>5. ASSUME NEW c \in Candidates, CheckReject(h, a, c)
          PROVE  \E x \in Call : Begin(h, x)
      BY <3>5 DEF CheckReject, Call
    <3> QED
      BY <1>2, <3>1, <3>2, <3>3, <3>4, <3>5 DEF Check
  <2> QED
    BY <2>1 DEF Begin, tables, TypeOK
<1>3. ASSUME NEW h \in Handlers, Write(h) PROVE TypeOK'
  <2>0. call[h] \in Call
    BY DEF TypeOK
  <2>1. CASE Confirm(h)
    <3>1. audit' \in [Targets -> Seq(Ops \X Actors)] /\ call' \in [Handlers -> Call]
      BY <2>0, <2>1, CallShape, CommitTypes DEF Confirm
    <3> QED
      BY <2>0, <2>1, <3>1, CallShape, RowsWritten DEF Confirm, TypeOK
  <2>2. CASE Submit(h)
    <3>1. audit' \in [Targets -> Seq(Ops \X Actors)] /\ call' \in [Handlers -> Call]
      BY <2>0, <2>2, CallShape, CommitTypes DEF Submit
    <3> QED
      BY <2>0, <2>2, <3>1, CallShape, RowsWritten DEF Submit, Submittable, TypeOK
  <2>3. CASE Approve(h)
    <3>1. audit' \in [Targets -> Seq(Ops \X Actors)] /\ call' \in [Handlers -> Call]
      BY <2>0, <2>3, CallShape, CommitTypes DEF Approve
    <3> QED
      BY <2>0, <2>3, <3>1, CallShape, RowsWritten
         DEF Approve, Reviewable, TypeOK, PublicIds
  <2>4. CASE Reject(h)
    <3>1. audit' \in [Targets -> Seq(Ops \X Actors)] /\ call' \in [Handlers -> Call]
      BY <2>0, <2>4, CallShape, CommitTypes DEF Reject
    <3> QED
      BY <2>0, <2>4, <3>1, CallShape, RowsWritten DEF Reject, Reviewable, TypeOK
  <2>5. CASE Fail(h)
    BY <2>5 DEF Fail, tables, TypeOK, Call
  <2>6. ASSUME NEW c \in Candidates, Create(h, c) PROVE TypeOK'
    <3>1. audit' \in [Targets -> Seq(Ops \X Actors)] /\ call' \in [Handlers -> Call]
      BY <2>0, <2>6, CallShape, CommitTypes DEF Create
    <3> QED
      BY <2>0, <2>6, <3>1, CallShape, RowsWritten DEF Create, TypeOK
  <2> QED
    BY <1>3, <2>1, <2>2, <2>3, <2>4, <2>5, <2>6 DEF Write
<1>4. CASE UNCHANGED vars
  BY <1>4 DEF vars, TypeOK
<1> QED
  BY <1>1, <1>2, <1>3, <1>4 DEF Next

(* Every row passes the CHECKs of its table at every moment.               *)
THEOREM TypeCorrect == Spec => []TypeOK
BY TypeInit, TypeStep, PTL DEF Spec

-----------------------------------------------------------------------------
Linked == Grounded /\ TwoPeople /\ Shown /\ Bound

Sound == Linked /\ OneCandidatePerFailure /\ ReservedIdentity /\ AuditExplainsState

(* Reading and checking, or giving up, changes no row and binds nothing    *)
(* that is not so.                                                         *)
LEMMA QuietKeeps ==
  ASSUME TypeOK, Sound, NEW h \in Handlers, Quiet(h)
  PROVE  Sound' /\ UNCHANGED tables
<1>1. UNCHANGED tables
  BY DEF Quiet, Fail, Check, CheckConfirm, CheckCreate, CheckSubmit, CheckApprove,
         CheckReject, Begin
<1>2. Bound'
  <2>1. CASE Fail(h)
    BY <2>1 DEF Fail, tables, Bound, Sound, Linked, NoCall, TypeOK, Exists
  <2>2. ASSUME NEW c \in Candidates, NEW a \in Actors, CheckApprove(h, a, c)
        PROVE  Bound'
    BY <2>2 DEF CheckApprove, Begin, tables, Bound, Sound, Linked, TypeOK, Exists
  <2>3. ASSUME NEW x, x.op # "APPROVE", Begin(h, x)
        PROVE  Bound'
    BY <2>3 DEF Begin, tables, Bound, Sound, Linked, TypeOK, Exists
  <2>4. ASSUME NEW a \in Actors, Check(h, a)
        PROVE  Bound'
    BY <2>2, <2>3, <2>4 DEF Check, CheckConfirm, CheckCreate, CheckSubmit, CheckReject
  <2> QED
    BY <2>1, <2>4 DEF Quiet
<1>3. (Grounded /\ TwoPeople /\ Shown)'
  BY <1>1 DEF tables, Sound, Linked, Grounded, TwoPeople, Shown, Exists
<1>4. (OneCandidatePerFailure /\ ReservedIdentity)'
  BY <1>1 DEF tables, Sound, OneCandidatePerFailure, ReservedIdentity, Exists
<1>5. AuditExplainsState'
  BY <1>1 DEF tables, Sound, AuditExplainsState
<1> QED
  BY <1>1, <1>2, <1>3, <1>4, <1>5 DEF Sound, Linked

(* A commit leaves no approving call but those that were there.            *)
LEMMA CommitEndsCall ==
  ASSUME TypeOK, NEW h \in Handlers, NEW t, Committed(h, t),
         NEW g \in Handlers, call'[g].op = "APPROVE"
  PROVE  call'[g] = call[g]
BY DEF Committed, TypeOK, NoCall

(* Candidates stay grounded, reviewed by another, shown when approved, and *)
(* as the approving handlers saw them.                                     *)
LEMMA LinkedInit == Init => Linked
BY DEF Init, Linked, Grounded, TwoPeople, Shown, Bound, Exists, NoCandidate, NoCall

LEMMA LinkedStep ==
  ASSUME TypeOK, TypeOK', Linked, NEW h \in Handlers, NEW x \in Call, x = call[h],
         \/ Confirm(h) \/ Submit(h) \/ Approve(h) \/ Reject(h)
         \/ \E c \in Candidates : Create(h, c)
  PROVE  Linked'
<1> USE DEF Linked
<1>1. CASE Confirm(h)
  <2>1. x.target \in Failures
    BY <1>1, CallShape DEF Confirm
  <2>2. Grounded'
    BY <1>1, <2>1 DEF Confirm, KeepsCandidate, Confirmed, Grounded, Exists, TypeOK,
                      CandidateRow
  <2>3. TwoPeople' /\ Shown'
    BY <1>1 DEF Confirm, TwoPeople, Shown
  <2>4. Bound'
    BY <1>1, CommitEndsCall DEF Confirm, Bound, Exists
  <2> QED
    BY <2>2, <2>3, <2>4
<1>2. CASE Submit(h)
  <2>1. x.target \in Candidates
    BY <1>2, CallShape DEF Submit
  <2>2. Grounded'
    BY <1>2, <2>1 DEF Submit, Submittable, Grounded, Exists, TypeOK, CandidateRow
  <2>3. TwoPeople' /\ Shown'
    BY <1>2, <2>1 DEF Submit, Submittable, TwoPeople, Shown, TypeOK, CandidateRow
  <2>4. Bound'
    BY <1>2, <2>1, CommitEndsCall
       DEF Submit, Submittable, Bound, Exists, TypeOK, CandidateRow
  <2> QED
    BY <2>2, <2>3, <2>4
<1>3. ASSUME NEW st \in {"APPROVED", "REJECTED"}, x.target \in Candidates,
             x.actor \in Approvers, Reviewable(x.target, x.actor),
             candidate' = [candidate EXCEPT ![x.target] = Reviewed(@, st, x.actor)],
             UNCHANGED failure
      PROVE  Grounded' /\ TwoPeople'
  BY <1>3 DEF Reviewable, Reviewed, Grounded, TwoPeople, Exists, TypeOK, CandidateRow
<1>4. ASSUME NEW st \in {"APPROVED", "REJECTED"}, x.target \in Candidates,
             Reviewable(x.target, x.actor), Committed(h, x.target),
             candidate' = [candidate EXCEPT ![x.target] = Reviewed(@, st, x.actor)]
      PROVE  Bound'
  BY <1>4, CommitEndsCall DEF Reviewable, Reviewed, Bound, Exists, TypeOK, CandidateRow
<1>5. CASE Approve(h)
  <2>1. x.target \in Candidates /\ x.actor \in Approvers
    BY <1>5, CallShape DEF Approve
  <2>2. Shown'
    BY <1>5, <2>1 DEF Approve, Shown, Reviewed, TypeOK, CandidateRow
  <2> QED
    BY <1>3, <1>4, <1>5, <2>1, <2>2 DEF Approve
<1>6. CASE Reject(h)
  <2>1. x.target \in Candidates /\ x.actor \in Approvers
    BY <1>6, CallShape DEF Reject
  <2>2. Shown'
    BY <1>6, <2>1 DEF Reject, Reviewable, Shown, Reviewed, TypeOK, CandidateRow
  <2> QED
    BY <1>3, <1>4, <1>6, <2>1, <2>2 DEF Reject
<1>7. ASSUME NEW c \in Candidates, Create(h, c)
      PROVE  Linked'
  <2>1. x.target \in Failures
    BY <1>7, CallShape DEF Create
  <2>2. Grounded'
    BY <1>7, <2>1 DEF Create, Draftable, Drafted, Grounded, Exists, TypeOK, CandidateRow
  <2>3. TwoPeople' /\ Shown'
    BY <1>7 DEF Create, Drafted, TwoPeople, Shown, Exists, TypeOK, CandidateRow
  <2>4. Bound'
    BY <1>7, CommitEndsCall DEF Create, Bound, Exists, TypeOK
  <2> QED
    BY <2>2, <2>3, <2>4
<1> QED
  BY <1>1, <1>2, <1>5, <1>6, <1>7

-----------------------------------------------------------------------------
(* No step lets a second candidate onto a question: only Create makes one, *)
(* and no row changes its question.                                        *)
LEMMA OneCandidateStep ==
  ASSUME TypeOK, OneCandidatePerFailure, NEW h \in Handlers, NEW x \in Call, x = call[h],
         \/ Confirm(h) \/ Submit(h) \/ Approve(h) \/ Reject(h)
         \/ \E c \in Candidates : Create(h, c)
  PROVE  OneCandidatePerFailure'
<1> USE DEF OneCandidatePerFailure
<1>1. ASSUME \A c \in Candidates : /\ candidate'[c].failure = candidate[c].failure
                                   /\ candidate'[c].status # "NONE" => Exists(c)
      PROVE  OneCandidatePerFailure'
  BY <1>1 DEF Exists
<1>2. CASE Confirm(h)
  BY <1>1, <1>2 DEF Confirm, Exists
<1>3. ASSUME NEW c \in Candidates, NEW r, candidate' = [candidate EXCEPT ![c] = r],
             r.failure = candidate[c].failure, Exists(c)
      PROVE  OneCandidatePerFailure'
  <2>1. candidate'[c] = r /\ \A d \in Candidates : d # c => candidate'[d] = candidate[d]
    BY <1>3 DEF TypeOK
  <2> QED
    BY <1>1, <1>3, <2>1 DEF Exists
<1>5. CASE Submit(h)
  BY <1>3, <1>5, CallShape DEF Submit, Submittable, TypeOK, CandidateRow, Exists
<1>6. CASE Approve(h)
  BY <1>3, <1>6, CallShape
     DEF Approve, Reviewable, Reviewed, TypeOK, CandidateRow, Exists
<1>7. CASE Reject(h)
  BY <1>3, <1>7, CallShape
     DEF Reject, Reviewable, Reviewed, TypeOK, CandidateRow, Exists
<1>4. ASSUME NEW c \in Candidates, Create(h, c)
      PROVE  OneCandidatePerFailure'
  BY <1>4, CallShape DEF Create, Draftable, Drafted, TypeOK, CandidateRow, Exists
<1> QED
  BY <1>2, <1>4, <1>5, <1>6, <1>7

(* An approval publishes what its handler bound, and under the reserved    *)
(* identity only when nothing is yet.                                      *)
LEMMA ReservedStep ==
  ASSUME TypeOK, ReservedIdentity, Shown, Bound, NEW h \in Handlers,
         NEW x \in Call, x = call[h],
         \/ Confirm(h) \/ Submit(h) \/ Approve(h) \/ Reject(h)
         \/ \E c \in Candidates : Create(h, c)
  PROVE  ReservedIdentity'
<1> USE DEF ReservedIdentity
<1>1. ASSUME UNCHANGED document,
             \A c \in Candidates : document[c] # "NONE" =>
               candidate'[c].content = candidate[c].content
      PROVE  ReservedIdentity'
  BY <1>1
<1>2. CASE Confirm(h)
  BY <1>1, <1>2 DEF Confirm
<1>3. CASE Submit(h)
  BY <1>1, <1>3, CallShape DEF Submit, TypeOK, CandidateRow
<1>6. CASE Reject(h)
  BY <1>1, <1>6, CallShape DEF Reject, Reviewed, TypeOK, CandidateRow
<1>4. ASSUME NEW c \in Candidates, Create(h, c)
      PROVE  ReservedIdentity'
  BY <1>1, <1>4 DEF Create, Exists, Shown, TypeOK
<1>5. CASE Approve(h)
  <2>1. x.target \in Candidates /\ x.reserved \in BOOLEAN
    BY <1>5, CallShape DEF Approve
  <2>2. \A c \in Candidates : candidate'[c].content = candidate[c].content
    BY <1>5, <2>1 DEF Approve, Reviewed, TypeOK, CandidateRow
  <2>3. \A c \in Candidates : c # x.target => document'[c] = document[c]
    BY <1>5, <2>1 DEF Approve, TypeOK
  <2>4. document'[x.target] = IF x.reserved THEN "KB-WASTE-03" ELSE "GENERATED"
    BY <1>5, <2>1 DEF Approve, TypeOK
  <2>5. /\ candidate[x.target].content # "near"
        /\ x.reserved <=> candidate[x.target].content = "exact"
    BY <1>5 DEF Approve, Bound
  <2>6. x.reserved => \A c \in Candidates : document[c] # "KB-WASTE-03"
    BY <1>5 DEF Approve, Activatable
  <2>7. candidate[x.target].content \in {"other", "near", "exact"}
    BY <2>1 DEF TypeOK, CandidateRow, Contents
  <2>8. ASSUME NEW c \in Candidates, document'[c] # "NONE"
        PROVE  /\ candidate'[c].content = "other" <=> document'[c] = "GENERATED"
               /\ candidate'[c].content # "near"
    <3>1. CASE c = x.target
      BY <2>1, <2>2, <2>4, <2>5, <2>7, <3>1
    <3>2. CASE c # x.target
      BY <2>2, <2>3, <2>8, <3>2
    <3> QED
      BY <3>1, <3>2
  <2>9. ASSUME NEW c \in Candidates, NEW d \in Candidates,
               document'[c] = "KB-WASTE-03", document'[d] = "KB-WASTE-03", c # d
        PROVE  FALSE
    <3>1. CASE c # x.target /\ d # x.target
      BY <2>3, <2>9, <3>1
    <3>2. CASE c = x.target \/ d = x.target
      BY <2>1, <2>3, <2>4, <2>6, <2>9, <3>2
    <3> QED
      BY <3>1, <3>2
  <2> QED
    BY <2>8, <2>9
<1> QED
  BY <1>2, <1>3, <1>4, <1>5, <1>6

(* Appending to a log of one or two rows.                                  *)
LEMMA Appended ==
  ASSUME NEW a, NEW b, NEW c
  PROVE  /\ Append(<<>>, a) = <<a>>
         /\ Append(<<a>>, b) = <<a, b>>
         /\ Append(<<a, b>>, c) = <<a, b, c>>
<1> DEFINE S == {a, b, c}
<1>1. Append(<<>>, a) = <<a>>
  OBVIOUS
<1>2. /\ <<a>> \in Seq(S) /\ <<a, b>> \in Seq(S) /\ <<a, b, c>> \in Seq(S)
      /\ Len(<<a>>) = 1 /\ Len(<<a, b>>) = 2 /\ Len(<<a, b, c>>) = 3
  OBVIOUS
<1>3. Append(<<a>>, b) = <<a, b>>
  <2>1. Append(<<a>>, b) \in Seq(S) /\ Len(Append(<<a>>, b)) = 2
    BY <1>2
  <2>2. \A i \in 1 .. 2 : Append(<<a>>, b)[i] = <<a, b>>[i]
    BY <1>2
  <2> QED
    BY <1>2, <2>1, <2>2, SeqEqual
<1>4. Append(<<a, b>>, c) = <<a, b, c>>
  <2>1. Append(<<a, b>>, c) \in Seq(S) /\ Len(Append(<<a, b>>, c)) = 3
    BY <1>2
  <2>2. \A i \in 1 .. 3 : Append(<<a, b>>, c)[i] = <<a, b, c>>[i]
    BY <1>2
  <2> QED
    BY <1>2, <2>1, <2>2, SeqEqual
<1> QED
  BY <1>1, <1>3, <1>4

(* A commit writes the next audit row of the path behind the row's state.  *)
LEMMA AuditStep ==
  ASSUME TypeOK, AuditExplainsState, NEW h \in Handlers, NEW x \in Call, x = call[h],
         \/ Confirm(h) \/ Submit(h) \/ Approve(h) \/ Reject(h)
         \/ \E c \in Candidates : Create(h, c)
  PROVE  AuditExplainsState'
<1> DEFINE ForCandidates == \A c \in Candidates : audit[c] = Path(candidate[c])
           ForFailures == \A f \in Failures :
             IF failure[f].status = "REASON_CONFIRMED"
               THEN \E a \in Operators : audit[f] = <<<<"CONFIRM", a>>>>
               ELSE audit[f] = <<>>
<1>a. ForCandidates /\ ForFailures
  BY DEF AuditExplainsState
<1>b. ASSUME NEW t \in Targets, Committed(h, t)
      PROVE  /\ audit'[t] = Append(audit[t], <<x.op, x.actor>>)
             /\ \A u \in Targets : u # t => audit'[u] = audit[u]
  BY <1>b DEF Committed, Logged, TypeOK
<1>c. ASSUME NEW c \in Candidates, Committed(h, c), UNCHANGED failure
      PROVE  ForFailures'
  <2>1. \A f \in Failures : audit'[f] = audit[f]
    BY <1>b, <1>c, DistinctIds DEF Targets
  <2> QED
    BY <1>a, <1>c, <2>1
<1>d. ASSUME NEW c \in Candidates, Committed(h, c), NEW r,
             candidate' = [candidate EXCEPT ![c] = r],
             Append(Path(candidate[c]), <<x.op, x.actor>>) = Path(r)
      PROVE  ForCandidates'
  <2>1. audit'[c] = Append(audit[c], <<x.op, x.actor>>)
          /\ \A d \in Candidates : d # c => audit'[d] = audit[d]
    BY <1>b, <1>d DEF Targets
  <2>2. candidate'[c] = r /\ \A d \in Candidates : d # c => candidate'[d] = candidate[d]
    BY <1>d DEF TypeOK
  <2>3. audit'[c] = Path(candidate'[c])
    BY <1>a, <1>d, <2>1, <2>2
  <2>4. \A d \in Candidates : d # c => audit'[d] = Path(candidate'[d])
    BY <1>a, <2>1, <2>2
  <2> QED
    BY <2>3, <2>4
<1> HIDE DEF ForCandidates, ForFailures
<1>1. CASE Confirm(h)
  <2>1. x.target \in Failures /\ x.actor \in Operators
    BY <1>1, CallShape DEF Confirm
  <2>2. /\ audit'[x.target] = Append(audit[x.target], <<"CONFIRM", x.actor>>)
        /\ \A u \in Targets : u # x.target => audit'[u] = audit[u]
    BY <1>1, <1>b, <2>1 DEF Confirm, Targets
  <2>3. failure'[x.target].status = "REASON_CONFIRMED"
          /\ \A f \in Failures : f # x.target => failure'[f] = failure[f]
    BY <1>1, <2>1 DEF Confirm, Confirmed, TypeOK
  <2>4. audit[x.target] = <<>>
    BY <1>1, <1>a, <2>1 DEF Confirm, Confirmable, ForFailures
  <2>5. audit'[x.target] = <<<<"CONFIRM", x.actor>>>>
    BY <2>2, <2>4, Appended
  <2>6. ForFailures'
    BY <1>a, <2>1, <2>2, <2>3, <2>5 DEF ForFailures, Targets
  <2>7. ForCandidates'
    BY <1>1, <1>a, <2>1, <2>2, DistinctIds DEF Confirm, ForCandidates, Targets
  <2> QED
    BY <2>6, <2>7 DEF AuditExplainsState, ForCandidates, ForFailures
<1>2. CASE Submit(h)
  <2>1. x.target \in Candidates
    BY <1>2, CallShape DEF Submit
  <2> DEFINE r == [candidate[x.target] EXCEPT !.status = "PENDING_APPROVAL"]
  <2>2. Append(Path(candidate[x.target]), <<x.op, x.actor>>) = Path(r)
    <3>1. Path(candidate[x.target]) = <<<<"CREATE", x.actor>>>>
      BY <1>2 DEF Submit, Submittable, Path
    <3>2. Path(r) = <<<<"CREATE", x.actor>>, <<"SUBMIT", x.actor>>>>
      <4>1. r.status = "PENDING_APPROVAL" /\ r.author = x.actor
        BY <1>2, <2>1 DEF Submit, Submittable, TypeOK, CandidateRow
      <4> QED
        BY <4>1 DEF Path
    <3> QED
      BY <1>2, <3>1, <3>2, Appended DEF Submit
  <2> QED
    BY <1>2, <1>c, <1>d, <2>1, <2>2
       DEF Submit, AuditExplainsState, ForCandidates, ForFailures
<1>3. CASE Approve(h)
  <2>1. x.target \in Candidates /\ x.actor \in Approvers
    BY <1>3, CallShape DEF Approve
  <2> DEFINE r == Reviewed(candidate[x.target], "APPROVED", x.actor)
  <2>2. Append(Path(candidate[x.target]), <<x.op, x.actor>>) = Path(r)
    <3> DEFINE au == candidate[x.target].author
    <3>1. Path(candidate[x.target]) = <<<<"CREATE", au>>, <<"SUBMIT", au>>>>
      BY <1>3 DEF Approve, Reviewable, Path
    <3>2. Path(r) = <<<<"CREATE", au>>, <<"SUBMIT", au>>, <<"APPROVE", x.actor>>>>
      <4>1. r.status = "APPROVED" /\ r.author = au /\ r.reviewer = x.actor
        BY <2>1 DEF Reviewed, TypeOK, CandidateRow
      <4> QED
        BY <4>1 DEF Path
    <3> QED
      BY <1>3, <3>1, <3>2, Appended DEF Approve
  <2> QED
    BY <1>3, <1>c, <1>d, <2>1, <2>2
       DEF Approve, AuditExplainsState, ForCandidates, ForFailures
<1>4. CASE Reject(h)
  <2>1. x.target \in Candidates /\ x.actor \in Approvers
    BY <1>4, CallShape DEF Reject
  <2> DEFINE r == Reviewed(candidate[x.target], "REJECTED", x.actor)
  <2>2. Append(Path(candidate[x.target]), <<x.op, x.actor>>) = Path(r)
    <3> DEFINE au == candidate[x.target].author
    <3>1. Path(candidate[x.target]) = <<<<"CREATE", au>>, <<"SUBMIT", au>>>>
      BY <1>4 DEF Reject, Reviewable, Path
    <3>2. Path(r) = <<<<"CREATE", au>>, <<"SUBMIT", au>>, <<"REJECT", x.actor>>>>
      <4>1. r.status = "REJECTED" /\ r.author = au /\ r.reviewer = x.actor
        BY <2>1 DEF Reviewed, TypeOK, CandidateRow
      <4> QED
        BY <4>1 DEF Path
    <3> QED
      BY <1>4, <3>1, <3>2, Appended DEF Reject
  <2> QED
    BY <1>4, <1>c, <1>d, <2>1, <2>2
       DEF Reject, AuditExplainsState, ForCandidates, ForFailures
<1>5. ASSUME NEW c \in Candidates, Create(h, c)
      PROVE  AuditExplainsState'
  <2>1. Append(Path(candidate[c]), <<x.op, x.actor>>) = Path(Drafted(x))
    BY <1>5, Appended DEF Create, Exists, Drafted, Path
  <2> QED
    BY <1>5, <1>c, <1>d, <2>1
       DEF Create, AuditExplainsState, ForCandidates, ForFailures
<1> QED
  BY <1>1, <1>2, <1>3, <1>4, <1>5

-----------------------------------------------------------------------------
(* The invariant holds at first and every step keeps it.                   *)
LEMMA SoundInit == Init => Sound
<1>1. Init => OneCandidatePerFailure /\ ReservedIdentity
  BY DEF Init, OneCandidatePerFailure, ReservedIdentity, Exists, NoCandidate
<1>2. Init => AuditExplainsState
  BY DistinctIds DEF Init, AuditExplainsState, Path, NoCandidate, NoFailure, Targets
<1> QED
  BY <1>1, <1>2, LinkedInit DEF Sound

LEMMA SoundStep == TypeOK /\ TypeOK' /\ Sound /\ [Next]_vars => Sound'
<1> SUFFICES ASSUME TypeOK, TypeOK', Sound, [Next]_vars PROVE Sound'
  OBVIOUS
<1>1. ASSUME NEW f \in Failures, RecordFailure(f) PROVE Sound'
  <2>1. /\ UNCHANGED <<candidate, document, audit, call>>
        /\ failure[f].status = "NONE" /\ failure'[f].status = "NEW"
        /\ \A g \in Failures : g # f => failure'[g] = failure[g]
    BY <1>1 DEF RecordFailure, TypeOK
  <2>2. Linked'
    BY <2>1 DEF Sound, Linked, Grounded, TwoPeople, Shown, Bound, Exists, TypeOK,
                CandidateRow
  <2>3. OneCandidatePerFailure' /\ ReservedIdentity'
    BY <2>1 DEF Sound, OneCandidatePerFailure, ReservedIdentity, Exists
  <2>4. AuditExplainsState'
    BY <2>1 DEF Sound, AuditExplainsState
  <2> QED
    BY <2>2, <2>3, <2>4 DEF Sound
<1>2. ASSUME NEW h \in Handlers, Quiet(h) PROVE Sound'
  BY <1>2, QuietKeeps
<1>3. ASSUME NEW h \in Handlers,
             \/ Confirm(h) \/ Submit(h) \/ Approve(h) \/ Reject(h)
             \/ \E c \in Candidates : Create(h, c)
      PROVE  Sound'
  <2>1. PICK x \in Call : x = call[h]
    BY DEF TypeOK
  <2> QED
    BY <1>3, <2>1, LinkedStep, OneCandidateStep, ReservedStep, AuditStep
       DEF Sound, Linked
<1>4. CASE UNCHANGED vars
  <2>1. Linked'
    BY <1>4 DEF vars, Sound, Linked, Grounded, TwoPeople, Shown, Bound, Exists
  <2>2. (OneCandidatePerFailure /\ ReservedIdentity /\ AuditExplainsState)'
    BY <1>4 DEF vars, Sound, OneCandidatePerFailure, ReservedIdentity,
                AuditExplainsState, Exists
  <2> QED
    BY <2>1, <2>2 DEF Sound
<1> QED
  BY <1>1, <1>2, <1>3, <1>4 DEF Next, Write, Quiet

LEMMA AlwaysSound == Spec => [](TypeOK /\ Sound)
<1>1. Init => TypeOK /\ Sound
  BY TypeInit, SoundInit
<1>2. (TypeOK /\ Sound) /\ [Next]_vars => (TypeOK /\ Sound)'
  BY TypeStep, SoundStep
<1> QED
  BY <1>1, <1>2, PTL DEF Spec

(* The audit log tells exactly how every row came to its state, for every  *)
(* order of any number of handlers.                                        *)
THEOREM AuditIsComplete == Spec => []AuditExplainsState
<1>1. Sound => AuditExplainsState
  BY DEF Sound
<1> QED
  BY <1>1, AlwaysSound, PTL

(* What is shown was written and approved by two people, on a question     *)
(* that still is confirmed as missing knowledge.                           *)
THEOREM TwoPeoplePublish == Spec => []PublishedByTwo
<1>1. TypeOK /\ Sound => PublishedByTwo
  <2> SUFFICES ASSUME TypeOK, Sound, NEW c \in Candidates
               PROVE  /\ document[c] # "NONE" <=> candidate[c].status = "APPROVED"
                      /\ document[c] # "NONE" =>
                           /\ candidate[c].reviewer # candidate[c].author
                           /\ failure[candidate[c].failure].status = "REASON_CONFIRMED"
                           /\ failure[candidate[c].failure].reason = "INSUFFICIENT_GROUNDING"
    BY DEF PublishedByTwo
  <2>1. candidate[c] \in CandidateRow
    BY DEF TypeOK
  <2>2. candidate[c].status = "APPROVED" =>
          /\ candidate[c].reviewer # Nobody /\ Exists(c)
          /\ failure[candidate[c].failure] \in FailureRow
    BY <2>1 DEF TypeOK, CandidateRow, Exists
  <2> QED
    BY <2>2 DEF Sound, Linked, Shown, TwoPeople, Grounded, FailureRow
<1> QED
  BY <1>1, AlwaysSound, PTL

(* A failed question has at most one candidate.                            *)
THEOREM OneCandidate == Spec => []OneCandidatePerFailure
<1>1. Sound => OneCandidatePerFailure
  BY DEF Sound
<1> QED
  BY <1>1, AlwaysSound, PTL

(* KB-WASTE-03 is published once and only with its exact content.          *)
THEOREM ReservedOnce == Spec => []ReservedIdentity
<1>1. Sound => ReservedIdentity
  BY DEF Sound
<1> QED
  BY <1>1, AlwaysSound, PTL

(* No step, of any handler with any stale check, changes a decision.       *)
THEOREM Final == Spec => DecisionsAreFinal
<1> DEFINE Step ==
      /\ \A c \in Candidates : candidate[c].status \in {"APPROVED", "REJECTED"} =>
           candidate'[c] = candidate[c] /\ document'[c] = document[c]
      /\ \A f \in Failures : failure[f].status = "REASON_CONFIRMED" =>
           failure'[f] = failure[f]
<1>1. ASSUME TypeOK, Sound, [Next]_vars
      PROVE  [Step]_vars
  <2>1. ASSUME NEW f \in Failures, RecordFailure(f) PROVE Step
    BY <1>1, <2>1 DEF RecordFailure, TypeOK
  <2>2. ASSUME NEW h \in Handlers, Quiet(h) PROVE Step
    BY <1>1, <2>2, QuietKeeps DEF tables
  <2>3. ASSUME NEW h \in Handlers, Confirm(h) PROVE Step
    BY <1>1, <2>3 DEF Confirm, Confirmable, TypeOK
  <2>4. ASSUME NEW h \in Handlers, Submit(h) PROVE Step
    BY <1>1, <2>4 DEF Submit, Submittable, TypeOK
  <2>5. ASSUME NEW h \in Handlers, Approve(h) PROVE Step
    BY <1>1, <2>5 DEF Approve, Reviewable, TypeOK
  <2>6. ASSUME NEW h \in Handlers, Reject(h) PROVE Step
    BY <1>1, <2>6 DEF Reject, Reviewable, TypeOK
  <2>7. ASSUME NEW h \in Handlers, NEW c \in Candidates, Create(h, c) PROVE Step
    BY <1>1, <2>7 DEF Create, Exists, TypeOK
  <2>8. UNCHANGED vars => Step
    BY DEF vars
  <2> QED
    BY <1>1, <2>1, <2>2, <2>3, <2>4, <2>5, <2>6, <2>7, <2>8 DEF Next, Write, Quiet
<1> QED
  BY <1>1, AlwaysSound, PTL DEF Spec, DecisionsAreFinal
=============================================================================
