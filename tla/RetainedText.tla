---------------------------- MODULE RetainedText ----------------------------
(***************************************************************************)
(* What becomes of a citizen's words: a question is redacted, its masked   *)
(* text is kept for thirty days when no grounded answer was found, as a    *)
(* failed question or, for a service outside the four supported kinds, as  *)
(* a civic scope gap; administrators read both, and approvers decide what  *)
(* to do about the gaps.                                                   *)
(*                                                                         *)
(* A request without an idempotency key writes at most one row, so rows    *)
(* are named by their request.  Every database call is one transaction of  *)
(* its own; a call may fail before or after its transaction commits.       *)
(***************************************************************************)
EXTENDS Redaction, Integers

CONSTANTS
  Requests,   \* POSTs of the chat
  Questions,  \* what each of them may ask
  Viewers,    \* administrators who read
  Approvers,  \* administrators with the APPROVER role
  Retention,  \* 30 days
  Nobody,     \* no reviewer yet
  Horizon     \* bound: the clock stops here

ASSUME RetainedAssumption ==
  /\ Retention \in Nat \ {0} /\ Horizon \in Nat
  /\ Nobody \notin Approvers

Decisions == {"PLANNED", "DISMISSED"}

(* What the service may keep of each request: only what redaction let through. *)
Redactions == [r \in Requests |-> {RedactQuestion(q) : q \in Questions[r]}]
Texts == (UNION {Redactions[r] : r \in Requests}) \ {NULL}

VARIABLES
  now,       \* clock_timestamp()
  requests,  \* how far each request is, and the masked text it holds
  failures,  \* failed_questions: the row of each request
  gaps,      \* civic_scope_gaps: the row of each request
  reads,     \* what each viewer is reading or was last shown
  reviews,   \* the review each approver is making
  told       \* the decisions an approver was told are made

vars == <<now, requests, failures, gaps, reads, reviews, told>>

Idle == [stage |-> "idle"]
Failure == [text : Texts \cup {NULL}, expires : Nat]
Gap == {g \in [text : Texts \cup {NULL}, expires : Nat,
               status : {"NEW"} \cup Decisions, by : Approvers \cup {Nobody}] :
          (g.status = "NEW") <=> (g.by = Nobody)}

(* NULL is no row. *)
ASSUME NullAssumption == NULL \notin Gap

TypeOK ==
  /\ now \in 0..Horizon
  /\ requests \in [Requests -> [stage : {"idle", "answered", "failed"}]
                               \cup [stage : {"failure", "gap"}, text : Texts]]
  /\ failures \in [Requests -> Failure \cup {NULL}]
  /\ gaps \in [Requests -> Gap \cup {NULL}]
  /\ reads \in [Viewers -> {Idle}
        \cup [stage : {"purged"}, what : {"failures", "gaps"}, rows : SUBSET Requests, since : Nat]
        \cup [stage : {"shown"}, items : SUBSET [text : Texts \cup {NULL}, expires : Nat],
              since : Nat]]
  /\ reviews \in [Approvers -> {Idle}
        \cup [stage : {"checked"}, gap : Requests, decision : Decisions]]
  /\ told \subseteq [by : Approvers, gap : Requests, decision : Decisions]

Init ==
  /\ now = 0
  /\ requests = [r \in Requests |-> Idle]
  /\ failures = [r \in Requests |-> NULL]
  /\ gaps = [r \in Requests |-> NULL]
  /\ reads = [v \in Viewers |-> Idle]
  /\ reviews = [a \in Approvers |-> Idle]
  /\ told = {}

Tick ==
  /\ now < Horizon
  /\ now' = now + 1
  /\ UNCHANGED <<requests, failures, gaps, reads, reviews, told>>

-----------------------------------------------------------------------------
(* The chat. *)

(* InteractionWrite and record_civic_scope_gap want text without white space at
   its ends, which redaction does not see to. *)
Trimmed(t) == t[1].kind # "blank" /\ t[Len(t)].kind # "blank"

Becomes(r, state) ==
  /\ requests' = [requests EXCEPT ![r] = state]
  /\ UNCHANGED <<now, gaps, failures, reads, reviews, told>>

(* Nothing that cannot be masked goes further than this process. *)
AskUnresolved(r) ==
  /\ requests[r] = Idle
  /\ NULL \in Redactions[r]
  /\ Becomes(r, [stage |-> "answered"])

(* Answers and follow-ups keep no text; a topic without grounding does, and so
   does a question the classifier takes for another civic service. *)
Ask(r) ==
  /\ requests[r] = Idle
  /\ \E masked \in Redactions[r] \ {NULL} :
       \/ Becomes(r, [stage |-> "answered"])
       \/ Becomes(r, IF Trimmed(masked) THEN [stage |-> "failure", text |-> masked]
                     ELSE [stage |-> "failed"])
       \/ Becomes(r, IF Trimmed(masked) THEN [stage |-> "gap", text |-> masked]
                     ELSE [stage |-> "answered"])

(* record_interaction: the event and its text in one transaction.  The citizen
   is answered when the database is away, and not when it refuses the write. *)
RecordFailure(r) ==
  /\ requests[r].stage = "failure"
  /\ failures' = [failures EXCEPT ![r] =
                    [text |-> requests[r].text, expires |-> now + Retention]]
  /\ requests' = [requests EXCEPT ![r] = [stage |-> "answered"]]
  /\ UNCHANGED <<now, gaps, reads, reviews, told>>

RecordGap(r) ==
  /\ requests[r].stage = "gap"
  /\ gaps' = [gaps EXCEPT ![r] =
                [text |-> requests[r].text, expires |-> now + Retention,
                 status |-> "NEW", by |-> Nobody]]
  /\ requests' = [requests EXCEPT ![r] = [stage |-> "answered"]]
  /\ UNCHANGED <<now, failures, reads, reviews, told>>

RecordFails(r) ==
  \/ requests[r].stage \in {"failure", "gap"} /\ Becomes(r, [stage |-> "answered"])
  \/ requests[r].stage = "failure" /\ Becomes(r, [stage |-> "failed"])

-----------------------------------------------------------------------------
(* Retention. *)
\* FAULTY VARIANT: the purge leaves the text whose time is up this very moment.
Expired_Later(row) == row # NULL /\ row.text # NULL /\ row.expires < now

Expired(row) == row # NULL /\ row.text # NULL /\ row.expires <= now
WithoutText(rows) ==
  [r \in Requests |-> IF Expired(rows[r]) THEN [rows[r] EXCEPT !.text = NULL] ELSE rows[r]]

PurgeFailures == failures' = WithoutText(failures) /\ UNCHANGED gaps
PurgeGaps == gaps' = WithoutText(gaps) /\ UNCHANGED failures

(* One transaction of the periodic purge. *)
PeriodicPurge ==
  /\ PurgeFailures \/ PurgeGaps
  /\ UNCHANGED <<now, requests, reads, reviews, told>>

(* An administrator's list, or one failed question: the text whose time is up
   is purged first; the read itself does not look at the time. *)
Wanted == {[what |-> w, rows |-> Requests] : w \in {"failures", "gaps"}}
          \cup {[what |-> "failures", rows |-> {r}] : r \in Requests}

PurgeBeforeRead(v) ==
  /\ reads[v] = Idle
  /\ \E w \in Wanted :
       /\ IF w.what = "failures" THEN PurgeFailures ELSE PurgeGaps
       /\ reads' = [reads EXCEPT ![v] =
                     [stage |-> "purged", what |-> w.what, rows |-> w.rows, since |-> now]]
  /\ UNCHANGED <<now, requests, reviews, told>>

Select(what, rows) ==
  LET table == IF what = "failures" THEN failures ELSE gaps IN
  {[text |-> table[r].text, expires |-> table[r].expires] :
      r \in {r \in rows : table[r] # NULL}}

Read(v) ==
  /\ reads[v].stage = "purged"
  /\ reads' = [reads EXCEPT ![v] =
                [stage |-> "shown", items |-> Select(reads[v].what, reads[v].rows),
                 since |-> reads[v].since]]
  /\ UNCHANGED <<now, requests, failures, gaps, reviews, told>>

(* The database is away between the calls, or the viewer is done. *)
ReadEnds(v) ==
  /\ reads[v] # Idle
  /\ reads' = [reads EXCEPT ![v] = Idle]
  /\ UNCHANGED <<now, requests, failures, gaps, reviews, told>>

-----------------------------------------------------------------------------
(* review_civic_scope_gap: the service looks, the database decides. *)
CheckReview(a) ==
  /\ reviews[a] = Idle
  /\ \E g \in Requests, d \in Decisions :
       /\ gaps[g] # NULL /\ gaps[g].status = "NEW"
       /\ reviews' = [reviews EXCEPT ![a] = [stage |-> "checked", gap |-> g, decision |-> d]]
  /\ UNCHANGED <<now, requests, failures, gaps, reads, told>>

\* FAULTY VARIANT: the update takes the gap whatever became of it.
StillNew_Any(g) == gaps[g] # NULL

StillNew(g) == gaps[g] # NULL /\ gaps[g].status = "NEW"

(* The update takes a gap that is still NEW; the answer may be lost. *)
DecideReview(a) ==
  LET c == reviews[a] IN
  /\ c.stage = "checked"
  /\ StillNew(c.gap)
  /\ gaps' = [gaps EXCEPT ![c.gap].status = c.decision, ![c.gap].by = a]
  /\ told' \in {told, told \cup {[by |-> a, gap |-> c.gap, decision |-> c.decision]}}
  /\ reviews' = [reviews EXCEPT ![a] = Idle]
  /\ UNCHANGED <<now, requests, failures, reads>>

(* Another approver was first (ADMIN_INVALID_STATE), or the database is away. *)
ReviewFails(a) ==
  /\ reviews[a].stage = "checked"
  /\ reviews' = [reviews EXCEPT ![a] = Idle]
  /\ UNCHANGED <<now, requests, failures, gaps, reads, told>>

Next ==
  \/ Tick \/ PeriodicPurge
  \/ \E r \in Requests : AskUnresolved(r) \/ Ask(r) \/ RecordFailure(r) \/ RecordGap(r)
                           \/ RecordFails(r)
  \/ \E v \in Viewers : PurgeBeforeRead(v) \/ Read(v) \/ ReadEnds(v)
  \/ \E a \in Approvers : CheckReview(a) \/ DecideReview(a) \/ ReviewFails(a)

Spec == Init /\ [][Next]_vars

-----------------------------------------------------------------------------
(* The card rule keeps one match where several overlap, and when that one fails
   the card check nothing is found there: a card that ends a longer number, or
   begins one, is stepped over. *)
SteppedOver(rule, t, i, j) ==
  \E f \in Matches(rule, t) :
    /\ \/ f.from = i /\ f.to > j
       \/ f.from < i /\ i <= f.to
    /\ ~ Counts(t, f)

(* Personal data can be read in a text when some rule fits some part of it, as
   it would were that part all there is, other than a card stepped over, when a
   risky number or word is left, or when a full name is. *)
Legible(t) ==
  \/ \E rule \in Rules : \E i \in DOMAIN t : \E j \in i..Len(t) :
       /\ Recognises(rule, t, i, j) /\ Counts(t, [cat |-> rule.cat, from |-> i, to |-> j])
       /\ rule.cat = "CARD" => ~ SteppedOver(rule, t, i, j)
  \/ RiskyNumbers(t) \cup RiskyWords(t) # {}
  \/ "name" \in Kinds(t)

LegibleTexts == {t \in Texts : Legible(t)}

(* No text that waits to be stored, is stored or is shown still gives personal
   data away, whichever findings won where several overlapped: a finding that
   lost to another is not left half masked.  Only a card inside a longer number
   that is no card may be kept.  (redaction.py: the greedy choice of findings,
   their replacement and the second look at the result) *)
NothingSensitiveStored ==
  /\ \A r \in Requests :
       /\ requests[r].stage \in {"failure", "gap"} => requests[r].text \notin LegibleTexts
       /\ \A row \in {failures[r], gaps[r]} \ {NULL} : row.text \notin LegibleTexts
  /\ \A v \in Viewers : reads[v].stage = "shown" =>
       \A item \in reads[v].items : item.text \notin LegibleTexts

(* What an administrator is shown had not expired when the call began, though the
   function that reads it selects text without looking at the time and writers,
   the periodic purge and other readers run in between.  (admin/service.py and
   list_failed_questions, get_failed_question, list_civic_scope_gaps) *)
NothingExpiredShown ==
  \A v \in Viewers : reads[v].stage = "shown" =>
    \A item \in reads[v].items : item.text # NULL => item.expires > reads[v].since

(* A decision an approver was told is made is the one the gap holds, from then
   on, under that approver's name, whoever else had looked at it while it was
   NEW.  (review_civic_scope_gap: the look and the update are apart) *)
ReviewIsStored ==
  \A d \in told : gaps[d.gap] # NULL /\ gaps[d.gap].status = d.decision /\ gaps[d.gap].by = d.by

=============================================================================
