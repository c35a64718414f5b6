-------------------------- MODULE CandidateWorkflow --------------------------
(***************************************************************************)
(* From an unanswered question to a published answer: the tables           *)
(* failed_questions, kb_candidates, kb_documents and audit_logs, the SQL   *)
(* workflow functions that change them, and AdminService, which reads a    *)
(* row, checks it, and only then calls the function.                       *)
(*                                                                         *)
(* Handlers are the admin HTTP handlers that run at one time; each serves  *)
(* one call after another.  A workflow function takes its row FOR UPDATE   *)
(* and checks and writes it in one transaction, so it is one step; what    *)
(* the handler read before is a step of its own and may be stale by then.  *)
(*                                                                         *)
(* The allowlist of the local API gives each actor id one role.  The       *)
(* database takes id and role as arguments and compares ids, so the model  *)
(* lets an actor hold both roles.                                          *)
(***************************************************************************)
EXTENDS Naturals, FiniteSets, Sequences

CONSTANTS
  Handlers,    \* concurrent admin calls
  Failures,    \* failed_questions ids
  Candidates,  \* kb_candidates ids
  Operators,   \* actors that may act as OPERATOR
  Approvers,   \* actors that may act as APPROVER
  OtherReasons,\* reasons that make a failed question ineligible
  Nobody       \* SQL NULL

ASSUME DistinctIds ==
  /\ Failures \cap Candidates = {}
  /\ Nobody \notin Failures \cup Operators \cup Approvers
  /\ OtherReasons \cap {"INSUFFICIENT_GROUNDING", "NONE"} = {}

VARIABLES
  failure,    \* failed_questions
  candidate,  \* kb_candidates
  document,   \* kb_documents: the public id a candidate was activated under
  audit,      \* audit_logs of each row, oldest first
  call        \* what each handler has read and is about to do

vars == <<failure, candidate, document, audit, call>>
tables == <<failure, candidate, document, audit>>

Reasons == {"INSUFFICIENT_GROUNDING"} \cup OtherReasons

(* A candidate's text claims the reserved activation by its title and      *)
(* source ("near"), repeats all of it ("exact"), or is any other.          *)
Contents == {"other", "near", "exact"}

(* Public ids: one generated from the candidate's id, or KB-WASTE-03.      *)
PublicIds == {"GENERATED", "KB-WASTE-03"}

Actors == Operators \cup Approvers
Targets == Failures \cup Candidates
Ops == {"CONFIRM", "CREATE", "SUBMIT", "APPROVE", "REJECT"}

NoFailure == [status |-> "NONE", reason |-> "NONE", eligible |-> FALSE]
NoCandidate == [status |-> "NONE", failure |-> Nobody, content |-> "other",
                author |-> Nobody, reviewer |-> Nobody]
NoCall == [op |-> "NONE"]

Exists(c) == candidate[c].status # "NONE"

(* The rows of the two tables: their columns and their CHECKs. *)
FailureRow ==
  {r \in [status: {"NONE", "NEW", "REASON_CONFIRMED"},
          reason: Reasons \cup {"NONE"}, eligible: BOOLEAN] :
     /\ r.status # "NONE" <=> r.reason # "NONE"
     /\ r.eligible <=> r.reason = "INSUFFICIENT_GROUNDING"}

CandidateRow ==
  {r \in [status: {"NONE", "DRAFTED", "PENDING_APPROVAL", "APPROVED", "REJECTED"},
          failure: Failures \cup {Nobody}, content: Contents,
          author: Operators \cup {Nobody}, reviewer: Approvers \cup {Nobody}] :
     /\ r.status # "NONE" <=> r.failure # Nobody
     /\ r.status # "NONE" <=> r.author # Nobody
     /\ r.status \in {"APPROVED", "REJECTED"} <=> r.reviewer # Nobody}

(* What a handler remembers of its check until it calls the database.      *)
Call ==
  [op: {"CONFIRM"}, actor: Operators, target: Failures, reason: Reasons]
    \cup [op: {"CREATE"}, actor: Operators, target: Failures, content: Contents]
    \cup [op: {"SUBMIT"}, actor: Operators, target: Candidates]
    \cup [op: {"APPROVE"}, actor: Approvers, target: Candidates, reserved: BOOLEAN]
    \cup [op: {"REJECT"}, actor: Approvers, target: Candidates]
    \cup {NoCall}

(* Variables have their types and rows pass their tables' CHECKs.          *)
TypeOK ==
  /\ failure \in [Failures -> FailureRow]
  /\ candidate \in [Candidates -> CandidateRow]
  /\ document \in [Candidates -> PublicIds \cup {"NONE"}]
  /\ audit \in [Targets -> Seq(Ops \X Actors)]
  /\ call \in [Handlers -> Call]

Init ==
  /\ failure = [f \in Failures |-> NoFailure]
  /\ candidate = [c \in Candidates |-> NoCandidate]
  /\ document = [c \in Candidates |-> "NONE"]
  /\ audit = [t \in Targets |-> <<>>]
  /\ call = [h \in Handlers |-> NoCall]

-----------------------------------------------------------------------------
(* The chat service records a fallback it could not ground; record_        *)
(* interaction queues its masked question.                                 *)
RecordFailure(f) ==
  /\ failure[f].status = "NONE"
  /\ failure' = [failure EXCEPT ![f] =
       [status |-> "NEW", reason |-> "INSUFFICIENT_GROUNDING", eligible |-> TRUE]]
  /\ UNCHANGED <<candidate, document, audit, call>>

-----------------------------------------------------------------------------
(* AdminService: a handler reads the row and checks it.  A call that fails *)
(* the check changes nothing and leaves the handler idle, so only those    *)
(* that pass are steps.                                                    *)

Begin(h, c) ==
  /\ call[h] = NoCall
  /\ call' = [call EXCEPT ![h] = c]
  /\ UNCHANGED tables

CheckConfirm(h, a, f, reason) ==
  /\ a \in Operators
  /\ failure[f].status = "NEW"
  /\ Begin(h, [op |-> "CONFIRM", actor |-> a, target |-> f, reason |-> reason])

CheckCreate(h, a, f, content) ==
  /\ a \in Operators
  /\ failure[f].status = "REASON_CONFIRMED" /\ failure[f].eligible
  /\ Begin(h, [op |-> "CREATE", actor |-> a, target |-> f, content |-> content])

CheckSubmit(h, a, c) ==
  /\ a \in Operators
  /\ candidate[c].status = "DRAFTED" /\ candidate[c].author = a
  /\ Begin(h, [op |-> "SUBMIT", actor |-> a, target |-> c])

\* FAULTY VARIANT: a near match of the reserved candidate is not refused.
CheckApprove_NearMatch(h, a, c) ==
  /\ a \in Approvers
  /\ candidate[c].status = "PENDING_APPROVAL" /\ candidate[c].author # a
  /\ Begin(h, [op |-> "APPROVE", actor |-> a, target |-> c,
               reserved |-> candidate[c].content = "exact"])

(* A near match of the reserved candidate is refused; an exact one is      *)
(* approved under the reserved id.                                         *)
CheckApprove(h, a, c) ==
  /\ a \in Approvers
  /\ candidate[c].status = "PENDING_APPROVAL" /\ candidate[c].author # a
  /\ candidate[c].content # "near"
  /\ Begin(h, [op |-> "APPROVE", actor |-> a, target |-> c,
               reserved |-> candidate[c].content = "exact"])

CheckReject(h, a, c) ==
  /\ a \in Approvers
  /\ candidate[c].status = "PENDING_APPROVAL" /\ candidate[c].author # a
  /\ Begin(h, [op |-> "REJECT", actor |-> a, target |-> c])

-----------------------------------------------------------------------------
(* The workflow functions.  Each checks the row again under its lock.      *)

\* FAULTY VARIANT: the function trusts the service's check of the status.
Confirmable_Again(f) == failure[f].status # "NONE"

Confirmable(f) == failure[f].status = "NEW"

\* FAULTY VARIANT: neither the function nor the unique failed_question_id
\* looks at the candidates there are.
Draftable_Again(f) == failure[f].status = "REASON_CONFIRMED" /\ failure[f].eligible

Draftable(f) ==
  /\ failure[f].status = "REASON_CONFIRMED" /\ failure[f].eligible
  /\ \A c \in Candidates : candidate[c].failure # f

Submittable(c, a) == candidate[c].status = "DRAFTED" /\ candidate[c].author = a

\* FAULTY VARIANT: a reviewed candidate may be reviewed again.
Reviewable_Again(c, a) ==
  candidate[c].status \notin {"NONE", "DRAFTED"} /\ candidate[c].author # a

Reviewable(c, a) ==
  candidate[c].status = "PENDING_APPROVAL" /\ candidate[c].author # a

(* approve_kb_candidate_with_public_id insists on the exact content, and   *)
(* public_id is unique.                                                    *)
Activatable(x) ==
  x.reserved => /\ candidate[x.target].content = "exact"
                /\ \A c \in Candidates : document[c] # "KB-WASTE-03"

\* FAULTY VARIANT: the audit row is written by a transaction of its own.
Logged_Separately(x, t) == \E log \in {audit, [audit EXCEPT ![t] = Append(@, <<x.op, x.actor>>)]} :
                             audit' = log

(* The audit row belongs to the transaction. *)
Logged(x, t) == audit' = [audit EXCEPT ![t] = Append(@, <<x.op, x.actor>>)]

(* Whether the reply reaches the handler or not, its call is over.         *)
Committed(h, t) ==
  /\ Logged(call[h], t)
  /\ call' = [call EXCEPT ![h] = NoCall]

Confirmed(reason) ==
  [status |-> "REASON_CONFIRMED", reason |-> reason,
   eligible |-> reason = "INSUFFICIENT_GROUNDING"]

(* The trigger that keeps a failure with a candidate eligible. *)
KeepsCandidate(f, r) ==
  (\E c \in Candidates : candidate[c].failure = f) =>
     r.status = "REASON_CONFIRMED" /\ r.eligible

Confirm(h) ==
  LET x == call[h] IN
  /\ x.op = "CONFIRM"
  /\ Confirmable(x.target)
  /\ KeepsCandidate(x.target, Confirmed(x.reason))
  /\ failure' = [failure EXCEPT ![x.target] = Confirmed(x.reason)]
  /\ Committed(h, x.target)
  /\ UNCHANGED <<candidate, document>>

Drafted(x) ==
  [status |-> "DRAFTED", failure |-> x.target, content |-> x.content,
   author |-> x.actor, reviewer |-> Nobody]

Create(h, c) ==
  LET x == call[h] IN
  /\ x.op = "CREATE"
  /\ Draftable(x.target)
  /\ ~Exists(c)
  /\ candidate' = [candidate EXCEPT ![c] = Drafted(x)]
  /\ Committed(h, c)
  /\ UNCHANGED <<failure, document>>

Submit(h) ==
  LET x == call[h] IN
  /\ x.op = "SUBMIT"
  /\ Submittable(x.target, x.actor)
  /\ candidate' = [candidate EXCEPT ![x.target] =
       [@ EXCEPT !.status = "PENDING_APPROVAL"]]
  /\ Committed(h, x.target)
  /\ UNCHANGED <<failure, document>>

Reviewed(r, st, a) == [r EXCEPT !.status = st, !.reviewer = a]

(* The document, its question and the candidate change together. *)
Approve(h) ==
  LET x == call[h] IN
  /\ x.op = "APPROVE"
  /\ Reviewable(x.target, x.actor)
  /\ Activatable(x)
  /\ candidate' = [candidate EXCEPT ![x.target] = Reviewed(@, "APPROVED", x.actor)]
  /\ document' = [document EXCEPT ![x.target] =
       IF x.reserved THEN "KB-WASTE-03" ELSE "GENERATED"]
  /\ Committed(h, x.target)
  /\ UNCHANGED failure

Reject(h) ==
  LET x == call[h] IN
  /\ x.op = "REJECT"
  /\ Reviewable(x.target, x.actor)
  /\ candidate' = [candidate EXCEPT ![x.target] = Reviewed(@, "REJECTED", x.actor)]
  /\ Committed(h, x.target)
  /\ UNCHANGED <<failure, document>>

(* The function raises or the database is away: everything rolls back.     *)
Fail(h) ==
  /\ call[h] # NoCall
  /\ call' = [call EXCEPT ![h] = NoCall]
  /\ UNCHANGED tables

Check(h, a) ==
  \/ \E f \in Failures, reason \in Reasons : CheckConfirm(h, a, f, reason)
  \/ \E f \in Failures, content \in Contents : CheckCreate(h, a, f, content)
  \/ \E c \in Candidates : CheckSubmit(h, a, c) \/ CheckApprove(h, a, c)
                             \/ CheckReject(h, a, c)

Write(h) ==
  \/ Confirm(h) \/ Submit(h) \/ Approve(h) \/ Reject(h) \/ Fail(h)
  \/ \E c \in Candidates : Create(h, c)

Next ==
  \/ \E f \in Failures : RecordFailure(f)
  \/ \E h \in Handlers : Write(h) \/ \E a \in Actors : Check(h, a)

Spec == Init /\ [][Next]_vars

-----------------------------------------------------------------------------
(* The path of audit rows behind each state of a candidate. *)
Path(r) ==
  LET made == <<"CREATE", r.author>>
      sent == <<"SUBMIT", r.author>>
  IN CASE r.status = "NONE"             -> <<>>
       [] r.status = "DRAFTED"          -> <<made>>
       [] r.status = "PENDING_APPROVAL" -> <<made, sent>>
       [] r.status = "APPROVED"         -> <<made, sent, <<"APPROVE", r.reviewer>>>>
       [] r.status = "REJECTED"         -> <<made, sent, <<"REJECT", r.reviewer>>>>

(* The audit log tells exactly how each row came to its state: no state is *)
(* reached without its row, in order and by its actor, and none twice.     *)
AuditExplainsState ==
  /\ \A c \in Candidates : audit[c] = Path(candidate[c])
  /\ \A f \in Failures :
       IF failure[f].status = "REASON_CONFIRMED"
         THEN \E a \in Operators : audit[f] = <<<<"CONFIRM", a>>>>
         ELSE audit[f] = <<>>

(* What citizens are shown was written and approved by two people, exactly *)
(* the approved candidates are shown, and each answers a question that     *)
(* still is confirmed as missing knowledge, whoever else confirmed it.     *)
PublishedByTwo ==
  \A c \in Candidates :
    /\ document[c] # "NONE" <=> candidate[c].status = "APPROVED"
    /\ document[c] # "NONE" =>
         /\ candidate[c].reviewer # candidate[c].author
         /\ failure[candidate[c].failure].status = "REASON_CONFIRMED"
         /\ failure[candidate[c].failure].reason = "INSUFFICIENT_GROUNDING"

(* However many operators draft at once, a failed question has one         *)
(* candidate.                                                              *)
OneCandidatePerFailure ==
  \A c, d \in Candidates : Exists(c) /\ Exists(d) /\ candidate[c].failure = candidate[d].failure
                             => c = d

(* The reserved identity KB-WASTE-03 is published at most once, and content *)
(* that claims it is published under it or not at all.                     *)
ReservedIdentity ==
  \A c \in Candidates : document[c] # "NONE" =>
    /\ candidate[c].content = "other" <=> document[c] = "GENERATED"
    /\ candidate[c].content # "near"
    /\ \A d \in Candidates : document[c] = "KB-WASTE-03" /\ document[d] = "KB-WASTE-03"
                               => c = d

(* Decisions are final: a reviewed candidate, a confirmed reason and a     *)
(* published document never change.                                        *)
DecisionsAreFinal ==
  [][/\ \A c \in Candidates : candidate[c].status \in {"APPROVED", "REJECTED"} =>
          candidate'[c] = candidate[c] /\ document'[c] = document[c]
     /\ \A f \in Failures : failure[f].status = "REASON_CONFIRMED" =>
          failure'[f] = failure[f]]_vars
=============================================================================
