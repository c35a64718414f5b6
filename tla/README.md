# Sejong civic assistant: TLA+ models and proofs

This directory specifies the stateful core of the repository: the retry identity
of the chat endpoint, conversations of several turns over it, the limits on paid
provider calls, what is kept of a citizen's words, the admin workflow that
publishes knowledge, the life of the local API process, the citizens' feedback and
the release of the official data. Every definition is translated from the code it
names (the line ranges are in `PROJECT.json` under `map`); TLC checks the models
on small instances and TLAPS proves all their safety properties for all values of the
constants. Source paths below are relative to the repository.

## 1. Inventory of the system

One FastAPI process (`apps/api`) serves a Next.js application (`apps/web`).
It keeps nothing durable itself: all durable state is in PostgreSQL, reached only
through `SECURITY DEFINER` functions of the schema `app_api`
(`supabase/migrations`). Paid calls go to two language-model providers.

| component | state | operations | what makes it correct |
|---|---|---|---|
| Chat retry identity (`chat/service.py` `_answer_idempotent`, `db/repository.py`, migration 660) | `chat_idempotency`: state, digest, claim token, lease, stored response, expiry | claim, take over, complete with the interaction, abandon, replay, busy answer, purge | one interaction and one stored answer per key while its row lives; equal answers to equal retries; no second paid call next to a holder that is within its lease; every request ends |
| Chat answer pipeline (`chat/service.py` `_execute_once`, `retrieval`, `grounding`, `followup`, `classification`, `topic_catalog`, `response`) | none that is durable; reads the active knowledge and offices | redact, classify, retrieve, ground, generate or template, fall back | every answer is grounded in active knowledge; a fallback never claims to be an answer |
| Context token (`chat/context.py`) | signed token in the client's hands, 900 s | issue, verify, reissue on replay | a token carries over only what its turn established, and not for longer than its life |
| Provider ledger (`llm/limits.py`) | attempts per lane, cost, one semaphore | reserve, record usage, finalise | one call in flight; caps on attempts and money hold however a call ends |
| Provider adapters (`llm/upstage*.py`, `llm/deepseek*.py`, settings, prompts, facts) | HTTP clients | classify, generate | an answer that cannot be read is no answer, and is paid for |
| Lazy classifier (`local.py` `_LazyQuestionClassifier`) | client, delegate, disabled flag, lock | first use, failure, close | created at most once (in one step: no await lies in between) |
| Readiness and local runtime (`chat/readiness.py`, `local.py`, `api/health.py`) | enabled and ready flags, purge task, stop event, pool | start-up, probe, periodic purge, shutdown | nobody is served on a stale check, after a purge failure, or without a purge task |
| Candidate workflow (`admin/service.py`, migrations 200, 400, 670) | `failed_questions`, `kb_candidates`, `kb_documents`, `audit_logs` | confirm, resolve, create, submit, approve, reject | two people per publication, one candidate per question, final decisions, a complete audit |
| Failed-question text and scope gaps (migrations 300, 650, 680) | masked text, its expiry and purge time, review status | record, list, review, purge | no text is shown after its retention; a decision once told stays |
| Citizen feedback (`feedback/service.py`, `FeedbackButtons.tsx`, migration 710) | `citizen_feedback`; the buttons' state | record, purge, summarise | one opinion per answer, the first; what the citizen is thanked for is what is stored |
| Office directory (`office/`, `api/offices.py`) | reads only | list by region and topic | guarded by the probe |
| Admin API and roles (`api/admin.py`) | none | parse actor, call the service | roles and separation of duties |
| Database access (`db/`) | pool of four connections | one transaction per call, error map | a call commits, is refused by a rule, or is unavailable with either outcome |
| Redaction (`privacy/redaction.py`) | none | normalise, find, select, mask, refuse | a masked text gives nothing away, whichever of several overlapping findings won |
| Log filter (`core/logging.py`) | none | filter | string processing |
| Chat and admin screens (`apps/web/src/app`, `lib`) | retry key, pending question, token, lists | ask, retry, reset; list, decide | an answer is shown under its own question |
| Data release and staging (`scripts/validate_data_staging.py`, `data_staging_validation.py`, `data_seed_release.py`, `data_seed_sql.py`, `verify_data_seed_db.py`) | staged draft, review manifest, release directory; the four seeded tables | prepare, migrate, validate, load a release, seed, compensate | only the reviewed draft reaches the database; a review is not overwritten unseen; no document a recorded answer cites is taken away |
| Bootstrap and verification scripts, evaluation | files | batch | single process |

The components meet in a few places. A chat request asks the probe, claims its
key, executes (through the ledger when it needs a provider) and commits response
and interaction in one transaction. An interaction that could not be grounded
becomes a failed question, which feeds the candidate workflow; an approved
candidate changes the projection the probe and the retrieval read. The purge
task of the runtime calls the four purge functions of the tables above. All
admin handlers, the purge task, the chat and the feedback run concurrently on
one event loop and in separate database transactions.

What is hard: claims whose lease lapses under a slow worker; commits whose reply
is lost; cancellation between reservation and payment; reads of the admin service
that are stale when its workflow function runs; a readiness flag written after an
await; texts that expire between the reads of one summary; a double press of a
button that is not disabled; findings that overlap, of which one is masked; files
edited between two readings of one command; a script and a citizen's interaction
that lock the same tables in opposite orders. `PROJECT.json` lists each at its
line under `hazards`, with the properties that would catch it.

## 2. The modules

### ChatIdempotency and OnceOnlyAnswer

A request is one HTTP call with an Idempotency-Key, and is its own request id
and claim token. `row[k]` is the row of a key; a row version is named by the
request whose INSERT made it (`creator`). The four branches of
`claim_chat_idempotency` are `ClaimInsert` and, after the INSERT found a row,
`ClaimSeesRow` followed by `ClaimVanished`, `ClaimExpired`, `ClaimConflict`,
`ClaimReplay`, `ClaimBusy` or `ClaimTakeover`. `ClaimReadsClock` comes before
them: the function reads the clock when it begins, and its INSERT may then wait for
another transaction on the same key, so that a claim can be written with a lease,
and even an expiry, that have passed. The INSERT and the locking SELECT are two
steps, because the purge or another claim can delete the row between them; under
the row lock the clock is read again.
`complete_` and `abandon_chat_idempotency` read the clock before they wait for
the row lock, so `readClock` is a step before `Commit` and `Abandon`. `Generate`
marks the moment `_GenerationAttemptState.begin()` succeeds; `AfterFailure` is
the rule that a claim is given back only if it never did. `Acquire` and `Commit`
may lose their reply, `DatabaseError` covers rollback and unavailability, `Crash`
the death of the process and a cancelled handler.

`OnceOnlyAnswer` is the promise without the protocol: per key one stored answer
at a time, an interaction recorded only with it, and no other answer received.
`ImplementsOnceOnly` maps a COMPLETED row to a stored answer.

Left out: requests without a key (`service.py:300-306`), which never touch the
table, and what the answer says.

### ProviderLedger

`ProviderAttemptLedger` of one process. `Arrive`, `Reserve`, `Refuse`, `Leave`,
`Send`, `Record`, `Finalize` are the life of one use of `reserve_classifier` or
`reserve_generator`. No await lies between obtaining the semaphore and the end of
the checks of `_reserve`, hence one step. `due` and `billed` are history: what
the provider really charges, whether or not its answer arrives. Money is in
integer units. The charge is assumed to be at most the lane's worst case, which
the token limits sent with each call justify; the ledger cannot bound a provider
that charges more.

### CandidateWorkflow

Each element of `Handlers` is an admin call. `Check...` is the read and the
checks of `AdminService`; `Confirm`, `Create`, `Submit`, `Approve`, `Reject` are
the workflow functions, which check again under the row lock; between the two
anything may happen. `content` tells apart a candidate that repeats the reserved
activation KB-WASTE-03 exactly, one that only claims it, and all others.
`KeepsCandidate` and the constraints in `FailureRow` and `CandidateRow` are the
triggers and CHECKs of migration 200. An actor may hold both roles, since the
database compares ids and not roles.

### LocalRuntime

`phase` follows the lifespan of `create_local_app`; `worker` is the periodic
purge task; `at` the position in the fixed sequence of four purges, each its own
transaction. The projection is a row of parts read one at a time while `Change`
alters them. `Expire` makes text overdue. A guarded request is `Arrive`, reads,
`Serve`. `enabled` and `ready` are the probe's two flags; `refresh` writes
`ready` at its end, whatever happened in between. Shutdown is a step per await:
`Drained` (the purge task was stopped and has ended, or there is none), `CloseClients`,
`ClosePool` and `Stop`, which disables the probe last; `pool` says whether the
connection pool is open. While the process drains, the probe may be enabled although
its purge task has ended, as in the code; nobody is let in then.

### CitizenFeedback

`LikeIt`, `OpenSheet`, `CloseSheet`, `Complain`, `Hear`, `Lose` are
`FeedbackButtons` and its sheet; the submit button of the sheet is not disabled
while a call is under way, so one citizen can have several calls in flight.
`Refuse`, `Begin`, `Insert`, `Skip`, `Commit`, `Match`, `Abort` are the service
and `record_citizen_feedback`: the INSERT waits for an uncommitted row with the
same key (`owner`), and the comparison is a statement of its own. `Masked` and
`Altered` stand for the redaction of a detail. `AdminPurge`, `Summarize` and
`List` are the three transactions of `get_feedback_summary`.

`Tick` does not let a single transaction last as long as the retention time of
30 days (its row would be born expired). `List` returns the newest `Limit` rows, as
the query does with 100; `Earlier` are answers of an earlier visit, rated then or
not, so that the list can be full. A complaint carries what the sheet sends: a detail
only with the reason that asks for one. The contract takes a detail with any reason,
and what such a call would be told after a purge is not covered.

### ChatPipeline and Conversation

`ChatPipeline` has no variables. It is `_execute_once` without its awaits: what
the service concludes from a question, the region chosen on the screen, the
context of the last turn, the catalog it read and the verdict of the classifier.
A question is a record of what the deterministic rules find in its masked text;
the word lists and the ranking are data (`Questions` is a constant). `Select` is
`_select_topic` up to the classifier, `Verdicts` everything the classifier stage
may return (nothing, or a `ClassifierDecision` about the catalog it was given),
`Conclude` the answer with its token, `Replay` what a retry gets back.

`Conversation` puts the awaits between these functions and adds the chat screen
of one tab. A call is one POST; a retry is another call with the same key. The
screen's actions are `Ask`, `PickRegion` (`selectFollowup` with a region),
`ChangeRegion` (the region picker of any earlier answer), `SelectRegion`,
`Retry`, `NewConversation`, `Hear` and `Lose`; the server's `Acquire`, `Busy`,
`Completed`, `Read`, `Load` (one intent of the `gather` at a time), `Choose` or
`Consult` and `Classify`, `Store`, `Overtaken`, `AnswerOnly`, `Fail`. `Lose` may
strike at any time, so a call goes on after the screen gave it up, and its answer
is stored or not. `Change` publishes or withdraws a topic between any two steps.

Abstracted: a token is its claims, since nobody else can sign one, and it may be
past its life whenever it is read; leases lapse at any time; a stored answer does
not expire (ChatIdempotency has the clock). What is said of the answers "given" for
a key is said of those given from its stored row; a busy key is answered from the
template (`Busy`, `AnswerOnly`) and may be told something else. Left out: an
answer's office and text, 4xx answers to malformed requests, and the retry button
that is hidden for them.

`used`, `here` and `since` are history: the keys created so far and in this
conversation, and the topics active at some time since a key was created.

### PersonalData, Redaction and RetainedText

`Redaction` is `redact_question` and `redact_feedback_detail` as functions. A
question is a sequence of pieces, each a group of digits, a label, a token or a
word of a kind some pattern tells apart; `PersonalData` is the rule table over
these pieces. A group of digits carries how it is joined to what precedes it, and
each rule the separators it takes inside its value (an unlabelled account is written
with hyphens, a card with hyphens, spaces or dots). `CollectFindings`, `SelectFindings`, `ApplyFindings` are the search,
the greedy choice by category, length and place, and the replacement; the gates
after them (`HasAmbiguousAddress`, `HasUnsafeExplicitContext`, `HasUnsafeTail`, ...)
and `SecondLook` refuse a text that may still give something away (NULL). What a
regular expression does inside a piece (spellings, normal forms, the card's check
digit) is data. Of numbers whose separators may be left out, the model has those with
all of them and those with none. Left out are the rules for `+82`, for extensions after
a telephone number and for a passport number before the word, the region before a
licence number, and the plates written with a region.

`RetainedText` is what happens to the masked text: `Ask` decides between an
answer, a failure and a gap; `RecordFailure` and `RecordGap` store it with its
expiry, `RecordFails` is a database that is away or refuses; `PeriodicPurge`
blanks what has expired. `PurgeBeforeRead`, `Read` are the two transactions of
the admin's lists and of the single failed question. `CheckReview` and
`DecideReview` are the service's look at a gap and the guarded update, whose answer
may be lost (`told`). `Trimmed` is the check of `_require_text`: redaction leaves
white space at the ends of a question, and the write refuses such text.

### StagingRules, DataRelease and SeedDatabase

`StagingRules` is the validation of a staged draft, its sources and its review
manifest, and the projection a release carries; a file is its parsed content, or
absent, or not canonical. `DataRelease` is the commands: each reads one file at a
time (`Read`) and concludes only from what it has read (`Planned`, `Checked`,
`Exists`, `Compared`, `Write`, `SnapshotTaken`, `Verified`, `Loaded`), while `Edit`
changes a file between any two readings. The hashes the code names are the
constants `Pinned` and `PinnedMatrix`, so a hash that matches means the content is
the pinned one. `SeedDatabase` adds the transactions of the generated SQL: the
advisory lock, eight table locks one after the other, checks and changes with
commit, lock time-outs and the rollbacks and assertions of the verifier's commands,
next to other sessions and to citizens' `record_interaction`, which locks the event
table before the documents. PostgreSQL's queue of lock requests is left out, and so
are other writers of the knowledge base (the publication of a candidate; it takes row
locks on the same tables, which the scripts' table locks exclude) and the looks which
the evidence command takes, after the comparison of all rows, at counts, excluded ids
and the citizens' reads.

## 3. The runs

All runs use model values; symmetry is used only in runs without liveness
properties. `CHECK_DEADLOCK FALSE` is set where the system really comes to rest
(every request answered and the clock at its bound, every call over).

| run | instance | question |
|---|---|---|
| `chat_idempotency` | 2 requests, 1 key, 2 digests, Lease 2, TTL 3, clock to 3 | once-only recording and storing, agreeing answers; who is within the lease of an unexpired row holds it; nobody calls the generator next to a caller within its lease unless its own lease has lapsed; implements `OnceOnlyAnswer`; every request that claims ends |
| `chat_idempotency_provider_calls` | 2 requests, 1 key | violated: a lapsed lease leads to a second provider call (finding) |
| `provider_ledger` | 4 calls, lane caps 2 and 2, combined 3, cost cap 3, worst cases 1 and 2 | caps, cost, an attempt per call, one call in flight, every call ends |
| `candidate_workflow_safety` | 2 handlers, 2 questions, 2 candidates, an operator and an actor with both roles | audit, two people, one candidate, reserved identity, final decisions |
| `local_runtime` | 1 request besides the start-up probe, 2 parts | fresh checks, living purge task while serving, closed after failure, inherited text gone, pool open for whoever uses it, overdue text purged or endpoints closed, shutdown ends |
| `local_runtime_latch` | 2 requests, 2 parts | violated: a refresh in flight reopens a disabled probe (finding) |
| `feedback` | 2 calls, 2 answers, one of an earlier visit, a detail that is masked and one that is refused, a list of 1 row, retention 1, clock to 1, an administrator | what is acknowledged is stored, conflicts are real, the first opinion stays, no expired text is shown, a list that is not full covers the totals, calls end and buttons come back |
| `feedback_repeat` | 2 calls, 1 answer | violated: an equal repeat after the purge is a conflict (finding) |
| `conversation` | 2 calls, 2 keys, 2 topics of one intent, a second intent without any, 2 regions, 1 change of knowledge, three questions | answers grounded in knowledge active after they were asked; context is that of the last message; one answer per question |
| `conversation_replay` | 3 calls, 2 keys, 2 topics, no regions, one question | violated: a replayed question for the region names another topic (finding) |
| `data_release` | 1 command of any kind, 1 edit, 5 working copies, a draft of two documents (one withheld), one office and two mappings (one refused), a session that seeds or compensates, 1 citizen | only the reviewed draft reaches the database, recorded answers keep their documents, a review is lost only when it came after the look |
| `retained_text` | 2 requests, one asking any of some 150 questions in which addresses, plates and numbers overlap or that meet one gate each, written with hyphens or spaces, 2 approvers, a viewer, retention 1, clock to 2 | nothing kept or shown gives personal data away, but for a card inside a longer number that is none; nothing expired is shown, a decision once told stays |

The bounds and why they suffice. Two requests are a holder whose lease lapsed and
its successor, or a first answer and its replay or conflict; a row life longer
than the lease and a clock that reaches both allow takeover, expiry, purge and a new
version of the same row, and claims written with a clock read before any of them. A third request and a second key add nothing the theorems
do not cover, which hold for any number of both. In the ledger every cap is the
binding one in some interleaving: two cheap and one dear call fit, the fourth
never does. Two handlers race over one row, and two candidates over the reserved
id. Two parts are the least that make a torn read, and the start-up refresh is the
second prober of that run; requests never read each other's result, and the
theorems hold for any number of them. In the feedback runs a lost or doubled call
meets its repeat or a different one; the theorems hold for any number of calls.
Two calls make a conversation of two turns, or one turn and its retry; with the
withdrawal of a topic between them the remembered topic is gone when the second
turn asks for it. The three questions reach a lexical match, a context question
with and without a context (then any verdict of the classifier) and a refusal; the
other branches of `Select` are covered by the theorems, which hold for any set of
questions. The replay run needs a third call: a first turn, the question that is
lost, its retry. One edit suffices in `data_release` because every reading of a
command is a step of its own, so the edit falls between any two of them, and the
working copies begin with each kind of manifest; the theorems allow any number of
commands, edits and sessions. In `retained_text` the questions are chosen so that
each category of overlap and each gate of the redaction decides some of them (up
to eight pieces), and a clock of two retentions lets one row expire while another
is fresh.

All bounds are constants of a cfg: `MaxTime`, `Horizon`, `Parts`, `Changes`,
`MaxEdits`, `MaxQuestion` and the sets; the ledger's costs are
bounded by `CostCap`. Each property has a mutant: a faulty variant of one mapped
definition, kept next to it, under which TLC finds the property violated in the
same run.

The `conversation` run identifies states by `View` (`MCConversation`). It leaves out
what no later step and no invariant can read: the locals of a call that has its
result, the request of a call no screen awaits, who held a key once that cannot
matter, the token of a stored answer (a replay makes a new one), and region and
knowledge once no call is left to read them. A later change of knowledge
could then only enlarge `since`, which weakens GroundedWhileAsked.

### Fairness

- Chat: weak fairness of `Resume(r)`. Once a handler has started, the event loop
  resumes it, and each database call returns or raises (a connection error ends
  it). No fairness of claiming, crashing, purging or of the clock.
- Ledger: weak fairness of `Queue(c)` (a released `asyncio.Semaphore` wakes a
  waiter) and of `Finalize(c)` (the provider calls have timeouts). Weak fairness
  suffices for the queue because attempts are finite: a call can lose the
  semaphore to others only until the caps refuse everyone.
- Runtime: weak fairness of start-up and shutdown steps, of the purge task
  and of the start-up refresh. Requests and shutdown are not required to occur.
- Conversation, data release, retained text: none; their properties are safety
  properties.
- Feedback: weak fairness of `Serve(c)` and of `Hear(c) \/ Lose(c)`: a fetch
  settles. Nobody has to press a button. That an answer or a loss comes is thus
  assumed; what CallsEnd checks is that the transactions, which wait for each other's
  row, end, and that the buttons are enabled again whichever call ends last.

## 4. Findings

1. A key can cause two provider calls when a lease of five minutes lapses
   (`20260722000660_chat_idempotency.sql:183`), which `docs/08_TEST_STRATEGY.md:52`
   excludes. What the code gives is OneCallerPerLease, proved: nobody calls next to a
   caller that is within its lease, except a holder that stalled past its own lease.
2. A readiness refresh in flight during `disable()` sets the probe ready again
   (`chat/readiness.py:92`), against its docstring. Only the request whose refresh
   it was is let through: `FailureCloses` is proved for later ones.
3. The same feedback sent again after its text was purged is a conflict
   (`20260729000710_citizen_feedback.sql:171`), against `PRIVACY_POLICY.md:190`.
4. A replayed question for the region is reissued with the topic of the turn
   before it (`chat/service.py:661`), not with the topic it asks about. The run's
   trace: an answer about one topic; "어디…", which that record does not answer, so
   that the classifier picks the other topic, and the service asks for the region;
   the reply is lost; the retry's token names the first topic, and a region typed
   next is answered about it. `test_service.py:2149` promises that the replay
   "preserves the validated topic" and tests the case in which both agree.

Observed while modelling, without a run of their own:

- `1234 3056 9309 0259 04` is kept as it is, and its last fourteen digits pass the card
  check. The card rule takes all eighteen digits first (`redaction.py:217`), they fail
  the check, and `finditer` goes on behind them; the account rule wants hyphens, and the
  eighteen digits are no risky shape. NothingSensitiveStored therefore excepts a card
  that begins or ends a longer match of the card rule (`SteppedOver`); the run has this
  text among its questions.
- A question that ends in white space keeps it through redaction, and `_require_text`
  (`db/models.py:101`) refuses to write it: the ValueError is not one of the errors
  `_record_best_effort` handles, so a citizen whose question found no grounding gets
  an error instead of the fallback (`RetainedText`, the stage "failed"). A gap with
  such a text is not recorded.
- A PM's review saved while `prepare` or `migrate-pending` validates is overwritten by
  it (`validate_data_staging.py:104`): ReviewLostOnlyInRace is the bound that holds.
- A busy key is answered 200 from the template (`chat/service.py:626`, the action
  `Busy` of both modules), where `docs/05_API_AND_CONTRACTS.md:120` promises a
  retryable 503.
- A replay issues its token with the region of the request or of the old context
  (`service.py:651`); a region typed in the question itself is not in the token
  of the replayed answer.
- The region picker of an earlier answer asks that answer's question again with
  the token of the latest one (`chat-screen.tsx:306-314`), so an incomplete
  question ("수수료는요?") is then asked about the latest topic.

## 5. What is proved

Each `...Proofs` module holds the theorems of its component. Assumptions are the
named `ASSUME`s of the specification (positive lease and row life, caps in Nat and
consistent, distinct null values, finitely many responses); there is no bound on
requests, keys, handlers, calls, time or data.

- **ChatIdempotencyProofs.** `Typed` is TypeOK plus what a request past the
  claim knows (it has a key, a digest and a version). `Once` is the inductive
  invariant of the safety theorems: `Progress` (nothing of a request is recorded,
  stored or given before its commit), `VersionKey` and `Owner` (a version belongs
  to one key and one digest, and a live claim to its version), `Stored`, `Logged`,
  `Given`, `SameAnswer`. It is needed because RecordedOnce says nothing of
  who may still commit: the invariant says that only the holder of the
  current claim of a version whose row is not completed can.
  `LeasesApart` adds what OneCallerPerLease needs: of two requests that claimed the
  same version, the one that lost the claim is at least a lease older than the
  holder, who took over under the row lock with a clock read there. `Kept` adds what
  LeaseProtects needs (a row is not given away before its claim's lease has lapsed,
  nor dropped before its creator's time is up); a claim inserted with an old clock
  has less of both, and the theorem says no more than what it was written with.
  `Implements` is
  the refinement: initial states map to initial states (the tables are empty) and
  every step to a `Store`, `Replay`, `Forget` or a stutter.
- **ProviderLedgerProofs.** `Accounts`: the semaphore is held exactly by the
  call in flight, the usage of a call is at most its worst case, and what is
  billed is covered by cost plus what the call in flight may still cost
  (`Owed`, `Settled`). ClosedForGood follows since neither attempts nor cost
  plus outstanding ever fall. OneAttemptEach counts the calls a lane let through
  (`LetThrough`): only Reserve adds to that set, and it adds one call.
- **CandidateWorkflowProofs.** `Sound`: `Linked` (a candidate has an eligible
  confirmed question, author and reviewer differ, documents are the approved
  candidates, a handler's reserved flag came from exact content) with
  OneCandidatePerFailure, ReservedIdentity and AuditExplainsState, which are then
  inductive together.
- **LocalRuntimeProofs.** `Inv`: `Lifecycle` relates phase, task and flags,
  `Connected` says who needs the pool and that it is open for them (a purge task that
  is not over keeps shutdown from reaching the pool), `Inherited` says which tables the start-up round has yet to purge, `Checked`
  that parts a prober has read are not stale for it.
- **CitizenFeedbackProofs.** `Inv`: `Keyed` (the uncommitted row of a response
  belongs to one running call), `Sent` (what a call past the buttons sends has the
  shape the contract lets in), `Timely` (no text of a row is older than its
  expiry allows to be seen by the summary under way), `Told`, VoteIsStored and
  ShownWasUnexpired. ListCovers adds `StillStored`: what the totals counted is still
  among the rows, since no step removes a row or changes its rating; the newest `Limit`
  of them are all of them unless the list is full.
- **ConversationProofs.** `Verdict` and selection lemmas say that whatever is
  chosen is a topic of the catalog that was read (SelectSound, VerdictSound,
  ConcludeSound), and ReplaySound that a replay keeps the stored answer. The
  inductive invariant is TypeOK with `Called` (a call that was sent has a used key,
  and its result's token repeats its answer), `Turns` (an open call, the failed
  draft and the messages are of this conversation; the key that is open or in the
  draft has no message yet), `Matches` (the token is the last message's) and `Rests`
  (what a call has read, concluded or stored lies in the `since` of its key).
  `ConversationIsOnceOnly` is a second refinement of OnceOnlyAnswer, the promise that
  ChatIdempotency keeps too: an answer is known by the call that stored it
  (`StoredBy`); `Store` maps to the abstract `Store`, `Completed` to `Replay` and
  every other step to a stutter. It needs `Kept`: the call that holds the key of a
  stored answer has been answered, so it cannot store again and its claim can neither
  lapse nor be given back; and what was given under a key from the store is the
  answer stored for it, from which `RetriesAgree` follows. It speaks of the reply of
  the call that stored and of the replays, not of what a busy key is told.
- **SeedDatabaseProofs.** Two parts, inductive together: what a command holds of the
  draft it captured (a snapshot that passed is the pinned draft, so whatever it loads
  is what was reviewed, however files change afterwards), and what the locks exclude
  (a script in its commit holds every table alone, so no interaction is past its look
  at the documents). OnlyReviewedRows and SourcesKept follow. SeenReviewsAreKept is an
  action property with an invariant of its own, `WritersLooked`: a command that may
  write a manifest has looked at the one on disk (`prepare` just before, and found
  none; `migrate-pending` before it planned, and found the pending manifest it had
  just worked out), and no later reading of the checks replaces what it saw. Three
  results are about the rules alone, for any identifiers and refusals: ExcludedStayOut
  (what is withheld or refused is not in the projection) and GateKeepsPolicy (decisions
  that the release gate calls exact are a complete review that keeps the approval
  policy of the staging validator, so the two scripts do not disagree); `Typed` is the
  type invariant.
- **RetainedTextProofs.** `IInv`: TypeOK (every text is one redaction let through),
  `PurgedIsFresh` (between the purge of a call and its read every text the read may
  select expires after the call began: rows only age, lose their text or are new),
  `OneGapEach` (a request that has yet to write its gap has none, so no decided gap
  is written anew) and the two properties about time and reviews.
  The rest is about redaction, for every text of any length. *Scans:* what `Scan`
  keeps of a pattern's matches lies apart, and if there is a match there is a finding.
  *Selection:* the winner of two findings is a strict order, so among the findings
  that are left one beats all it overlaps; hence the greedy choice is the only set
  that keeps a finding exactly when no kept one beats it
  (SelectionSettlesOverlaps, SelectionIsDetermined). *Masking:* replaced from the
  right, the choice leaves tokens and uncovered pieces only (MaskingHidesFindings).
  *Gates:* a text that passes the second look has no finding, no risky number or word
  and no name, and in a text with a part that some rule fits, `finditer` keeps a match
  at that part or one that reaches into it from the left (FindIterCovers). For every
  rule but two that match is a finding; an account left to the case rule is found by
  that rule, as both want hyphens; and a card is found or stepped over. Together
  these give KeptTextIsClean and NothingSensitive, with that one exception. The two inductions, over the
  findings that are left and over the positions still to be replaced, are done by the
  minimal element of a well-founded order (`WFMin` with
  `FS_StrictSubsetOrderingWellFounded`, and the least number of a set), since the
  library's induction theorems take an operator.

Every invariant and every action property that a passing run checks is proved. Only
model-checked are the liveness properties (EveryRequestEnds, EveryCallEnds,
PurgedOrClosed, ShutdownEnds, CallsEnd), since liveness under fairness is out of the prover's reach.
Proved and not part of a run: the chat theorem StoredUntilExpiry, the ledger's
ClosedForGood, the results about operators, and the refinement AnswersOnceOnly of
Conversation. With `PROPERTY AnswersOnceOnly` in `Conversation.cfg`, and `StoredBy` and
`Received` added to `View` (the mapping reads them), TLC confirms it on 1.5 million
states of the same instance, in about twice the time; ChatIdempotency's refinement is
checked by its run.

## 6. What is not modelled, and the plan

Not modelled, and not meant to be: prompts, wire formats and their parsing, the
characters inside the pieces of a text, log patterns, grants and search paths,
generated contracts, bootstrap and verification scripts, offline evaluation, the
layout of screens, what the builder of a release writes besides its content. The
lazy classifier creates its client without an await between test and assignment,
and closes when the requests have ended, so that nothing interleaves in it. The
feedback and admin endpoints are not guarded by the probe; LocalRuntime speaks of
guarded requests only.

Left of the plan, in this order:

1. A composition of CandidateWorkflow with the readiness projection and with
   `Load`: a publication while the probe or a chat request reads.
2. Conversation over the full ChatIdempotency protocol. Both are proved to implement
   OnceOnlyAnswer; what is left is one state machine with leases and screens.
3. The admin screens: lists that are stale when a decision is sent.
4. The provider adapters' parsing of answers, as a decision table in front of
   `Record` and `Finalize` of the ledger.

Theorems worth adding: a call of Conversation that is not a replay answers from what
it read itself (an invariant that relates `result` to `sent`); that every manifest
which `prepare` writes passes a later `validate` of the same files; that a lock cycle
of SeedDatabase always contains an interaction.
