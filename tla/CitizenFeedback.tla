--------------------------- MODULE CitizenFeedback ---------------------------
(***************************************************************************)
(* What a citizen thinks of an answer: the buttons under the answer, the   *)
(* service that masks the detail, the function that stores one opinion per *)
(* answer, the purge of details past their retention and the summary an    *)
(* administrator reads in three calls.                                     *)
(*                                                                         *)
(* A call is one POST of the buttons; its transaction is READ COMMITTED,   *)
(* so the INSERT and the SELECT that follows a conflict see different      *)
(* states.  A payload is its rating, the codes chosen (category and reason *)
(* as one) and a detail; masking maps details to texts and may merge them. *)
(***************************************************************************)
EXTENDS Integers, FiniteSets

CONSTANTS
  Calls,      \* POSTs
  Responses,  \* answers, by their request_id; each has its buttons
  Earlier,    \* answers of an earlier visit, rated then or not; their buttons are gone
  Details,    \* what citizens write
  Texts,      \* masked details
  Masked,     \* redact_feedback_detail: the text of each detail ...
  Altered,    \* ... and the details in which it found something
  Unresolved, \* a detail that cannot be masked
  NoText,     \* no detail
  NoRow, Nobody,
  Retention,  \* 30 days
  Limit,      \* how many opinions the administrator's list has at most: 100
  Horizon,    \* bound: the clock stops here
  Watched     \* bound: whether an administrator asks for summaries

ASSUME FeedbackAssumption ==
  /\ Masked \in [Details -> Texts \cup {Unresolved}]
  /\ Altered \subseteq Details
  /\ NoText \notin Texts \cup Details /\ Unresolved \notin Texts \cup {NoText}
  /\ Nobody \notin Calls /\ IsFiniteSet(Responses) /\ Earlier \subseteq Responses
  /\ Retention \in Nat \ {0} /\ Limit \in Nat \ {0}
  /\ Horizon \in Nat /\ Watched \in BOOLEAN

Never == -1
Ratings == {"SATISFIED", "DISSATISFIED"}
Codes == {"NONE", "LISTED", "OTHER"}

(* FeedbackCreateRequest: the shapes the contract lets in. *)
Payload ==
  {p \in [rating : Ratings, code : Codes, detail : Details \cup {NoText}] :
     IF p.rating = "SATISFIED" THEN p.code = "NONE" /\ p.detail = NoText
     ELSE p.code # "NONE" /\ (p.code = "OTHER" => p.detail # NoText)}

(* CitizenFeedbackWrite: what the service asks the database to store. *)
Write(p) ==
  [rating |-> p.rating, code |-> p.code,
   text |-> IF p.detail = NoText THEN NoText ELSE Masked[p.detail],
   altered |-> p.detail \in Altered]

Satisfied == [rating |-> "SATISFIED", code |-> "NONE", detail |-> NoText]

(* A row of citizen_feedback, as its CHECKs allow. *)
Row ==
  {x \in [rating : Ratings, code : Codes, text : Texts \cup {NoText}, altered : BOOLEAN,
          created : Nat, expires : Nat \cup {Never}, purged : Nat \cup {Never}] :
     /\ x.rating = "SATISFIED" =>
          x.code = "NONE" /\ x.text = NoText /\ ~x.altered /\ x.expires = Never
     /\ x.rating = "DISSATISFIED" => x.code # "NONE"
     /\ x.code = "OTHER" \/ x.altered => x.text # NoText \/ x.purged # Never
     /\ x.text # NoText => x.expires # Never /\ x.purged = Never
     /\ x.purged # Never => x.text = NoText /\ x.expires # Never /\ x.purged >= x.expires
     /\ x.text = NoText /\ x.expires # Never => x.purged # Never}

ASSUME NoRowAssumption == NoRow \notin Row

VARIABLES
  now,     \* clock_timestamp()
  rows,    \* the committed row of each response
  owner,   \* the call whose INSERT for a response is not committed yet
  pc,      \* where each call is, or how it was answered
  about,   \* the response a call is about
  payload, \* what a call sends
  stamp,   \* v_now of a call
  heard,   \* the calls whose end the buttons have seen
  voted,   \* the rating the buttons of a response say thank you for
  saving,  \* the responses whose buttons are disabled
  sheet,   \* the responses whose reason sheet is open
  admin    \* the administrator's summary under way

database == <<rows, owner>>
calls == <<pc, about, payload, stamp>>
buttons == <<heard, voted, saving, sheet>>
vars == <<now, database, calls, buttons, admin>>

Answers == {"RECORDED", "CONFLICT", "UNRESOLVED", "UNAVAILABLE"}
Transaction == {"begun", "inserted", "skipped"}
Running == {"sent"} \cup Transaction
Summary ==
  [step : {"idle", "purge", "summarize", "list", "done"}, since : Nat,
   total : Nat, good : Nat, shown : SUBSET [id : Responses, row : Row]]

(* Variables have their types; stored rows have the shapes of the CHECKs. *)
TypeOK ==
  /\ now \in Nat
  /\ rows \in [Responses -> Row \cup {NoRow}]
  /\ owner \in [Responses -> Calls \cup {Nobody}]
  /\ pc \in [Calls -> {"idle"} \cup Running \cup Answers]
  /\ about \in [Calls -> Responses]
  /\ payload \in [Calls -> Payload]
  /\ stamp \in [Calls -> Nat]
  /\ heard \subseteq Calls /\ saving \subseteq Responses /\ sheet \subseteq Responses
  /\ voted \in [Responses -> Ratings \cup {"NONE"}]
  /\ admin \in Summary

NoSummary == [step |-> "idle", since |-> 0, total |-> 0, good |-> 0, shown |-> {}]

(* What was stored on an earlier visit. *)
EarlierOpinion ==
  [rating |-> "SATISFIED", code |-> "NONE", text |-> NoText, altered |-> FALSE,
   created |-> 0, expires |-> Never, purged |-> Never]

Init ==
  /\ now = 0
  /\ rows \in [Responses -> {NoRow, EarlierOpinion}]
  /\ \A w \in Responses \ Earlier : rows[w] = NoRow
  /\ owner = [w \in Responses |-> Nobody]
  /\ pc = [c \in Calls |-> "idle"]
  /\ about \in [Calls -> Responses \ Earlier] /\ payload = [c \in Calls |-> Satisfied]
  /\ stamp = [c \in Calls |-> 0]
  /\ heard = {} /\ saving = {} /\ sheet = {}
  /\ voted = [w \in Responses |-> "NONE"]
  /\ admin = NoSummary

(* Time passes, but no transaction is as long as the retention time.       *)
Tick ==
  /\ now < Horizon
  /\ \A c \in Calls : pc[c] \in Transaction => now + 1 < stamp[c] + Retention
  /\ now' = now + 1
  /\ UNCHANGED <<database, calls, buttons, admin>>

-----------------------------------------------------------------------------
(* The buttons.  While a call is under way the two buttons are disabled,   *)
(* but the sheet stays open and its own button is not.                     *)
Post(c, w, p) ==
  /\ pc[c] = "idle" /\ about[c] = w /\ voted[w] = "NONE"
  /\ pc' = [pc EXCEPT ![c] = "sent"]
  /\ payload' = [payload EXCEPT ![c] = p]
  /\ saving' = saving \cup {w}
  /\ UNCHANGED <<now, database, about, stamp, heard, voted, sheet, admin>>

LikeIt(c, w) == w \notin saving /\ Post(c, w, Satisfied)

(* The sheet asks for a detail with the reason OTHER and sends none with   *)
(* another.  (The contract takes one with any reason; nothing in this      *)
(* repository sends it.)                                                   *)
Complaint ==
  {p \in Payload : p.rating = "DISSATISFIED" /\ (p.code = "LISTED" => p.detail = NoText)}

Complain(c, w, p) == w \in sheet /\ Post(c, w, p)

OpenSheet(w) ==
  /\ voted[w] = "NONE" /\ w \notin saving /\ w \notin sheet
  /\ sheet' = sheet \cup {w}
  /\ UNCHANGED <<now, database, calls, heard, voted, saving, admin>>

CloseSheet(w) ==
  /\ w \in sheet
  /\ sheet' = sheet \ {w}
  /\ UNCHANGED <<now, database, calls, heard, voted, saving, admin>>

\* FAULTY VARIANT: the citizen is thanked whatever the server says.
Thanks_Always(c) == pc[c] \in Answers

(* Only a RECORDED answer counts as success. *)
Thanks(c) == pc[c] = "RECORDED"

(* The promise of fetch settles: success closes the sheet and replaces the *)
(* buttons, anything else only enables them again.                         *)
Hear(c) ==
  /\ pc[c] \in Answers /\ c \notin heard
  /\ heard' = heard \cup {c}
  /\ saving' = saving \ {about[c]}
  /\ IF Thanks(c)
     THEN /\ sheet' = sheet \ {about[c]}
          /\ voted' = [voted EXCEPT ![about[c]] = payload[c].rating]
     ELSE UNCHANGED <<sheet, voted>>
  /\ UNCHANGED <<now, database, calls, admin>>

(* The connection breaks: the buttons see an error, the server may go on. *)
Lose(c) ==
  /\ pc[c] \in Running \cup Answers /\ c \notin heard
  /\ heard' = heard \cup {c}
  /\ saving' = saving \ {about[c]}
  /\ UNCHANGED <<now, database, calls, voted, sheet, admin>>

-----------------------------------------------------------------------------
(* The service and its transaction. *)
Answer(c, a) == pc' = [pc EXCEPT ![c] = a]

(* The detail cannot be masked: nothing is sent to the database. *)
Refuse(c) ==
  /\ pc[c] = "sent" /\ Write(payload[c]).text = Unresolved
  /\ Answer(c, "UNRESOLVED")
  /\ UNCHANGED <<now, database, about, payload, stamp, buttons, admin>>

(* The function reads the clock; what it was given is valid. *)
Begin(c) ==
  /\ pc[c] = "sent" /\ Write(payload[c]).text # Unresolved
  /\ pc' = [pc EXCEPT ![c] = "begun"]
  /\ stamp' = [stamp EXCEPT ![c] = now]
  /\ UNCHANGED <<now, database, about, payload, buttons, admin>>

\* FAULTY VARIANT: no unique constraint makes the second writer wait.
Free_Always(w) == rows[w] = NoRow

(* An INSERT waits for an uncommitted row with its key. *)
Free(w) == rows[w] = NoRow /\ owner[w] = Nobody

Insert(c) ==
  /\ pc[c] = "begun" /\ Free(about[c])
  /\ owner' = [owner EXCEPT ![about[c]] = c]
  /\ pc' = [pc EXCEPT ![c] = "inserted"]
  /\ UNCHANGED <<now, rows, about, payload, stamp, buttons, admin>>

(* ON CONFLICT DO NOTHING. *)
Skip(c) ==
  /\ pc[c] = "begun" /\ rows[about[c]] # NoRow
  /\ pc' = [pc EXCEPT ![c] = "skipped"]
  /\ UNCHANGED <<now, database, about, payload, stamp, buttons, admin>>

NewRow(c) ==
  LET x == Write(payload[c])
  IN [rating |-> x.rating, code |-> x.code, text |-> x.text, altered |-> x.altered,
      created |-> stamp[c], expires |-> IF x.text = NoText THEN Never ELSE stamp[c] + Retention,
      purged |-> Never]

Commit(c) ==
  /\ pc[c] = "inserted"
  /\ rows' = [rows EXCEPT ![about[c]] = NewRow(c)]
  /\ owner' = [owner EXCEPT ![about[c]] = Nobody]
  /\ \E a \in {"RECORDED", "UNAVAILABLE"} : Answer(c, a)
  /\ UNCHANGED <<now, about, payload, stamp, buttons, admin>>

\* FAULTY VARIANT: a failed transaction keeps its key.
Released_Not(c) == UNCHANGED owner

Released(c) == owner' = [w \in Responses |-> IF owner[w] = c THEN Nobody ELSE owner[w]]

(* A database error rolls the transaction back, or no connection came. *)
Abort(c) ==
  /\ pc[c] \in Running
  /\ Released(c)
  /\ Answer(c, "UNAVAILABLE")
  /\ UNCHANGED <<now, rows, about, payload, stamp, buttons, admin>>

\* FAULTY VARIANT: a second opinion with the same rating counts as a repeat.
Same_Rating(x, y) == x.rating = y.rating

\* FAULTY VARIANT: a repeat without a text never matches, as with =.
Same_Equals(x, y) ==
  /\ x.rating = y.rating /\ x.code = y.code /\ x.altered = y.altered
  /\ x.text = y.text /\ x.text # NoText

(* The SELECT of the row that is the same as what was to be stored. *)
Same(x, y) ==
  /\ x.rating = y.rating /\ x.code = y.code
  /\ x.text = y.text /\ x.altered = y.altered

Match(c) ==
  /\ pc[c] = "skipped"
  /\ Answer(c, IF Same(rows[about[c]], Write(payload[c])) THEN "RECORDED" ELSE "CONFLICT")
  /\ UNCHANGED <<now, database, about, payload, stamp, buttons, admin>>

-----------------------------------------------------------------------------
(* purge_expired_citizen_feedback_detail, on one row. *)
Purged(x) ==
  IF x # NoRow /\ x.text # NoText /\ x.expires =< now
  THEN [x EXCEPT !.text = NoText, !.purged = now] ELSE x

Purge == rows' = [w \in Responses |-> Purged(rows[w])]

(* The periodic task comes by. *)
PeriodicPurge ==
  /\ Purge
  /\ UNCHANGED <<now, owner, calls, buttons, admin>>

Stored == {w \in Responses : rows[w] # NoRow}

\* FAULTY VARIANT: the list is read before what is listed is purged.
After_ListFirst(step) ==
  CASE step = "idle" -> "list" [] step = "list" -> "purge"
    [] step = "purge" -> "summarize" [] OTHER -> "done"

\* FAULTY VARIANT: the totals are read last.
After_TotalsLast(step) ==
  CASE step = "idle" -> "purge" [] step = "purge" -> "list"
    [] step = "list" -> "summarize" [] OTHER -> "done"

(* get_feedback_summary: purge, summarize, list. *)
After(step) ==
  CASE step = "idle" -> "purge" [] step = "purge" -> "summarize"
    [] step = "summarize" -> "list" [] OTHER -> "done"

Turns(changed) == admin' = [changed EXCEPT !.step = After(admin.step)]

AdminArrives ==
  /\ Watched /\ admin.step = "idle"
  /\ Turns([admin EXCEPT !.since = now])
  /\ UNCHANGED <<now, database, calls, buttons>>

AdminPurge ==
  /\ admin.step = "purge"
  /\ Purge /\ Turns(admin)
  /\ UNCHANGED <<now, owner, calls, buttons>>

(* summarize_citizen_feedback: its counts are one statement. *)
Summarize ==
  /\ admin.step = "summarize"
  /\ Turns([admin EXCEPT !.total = Cardinality(Stored),
              !.good = Cardinality({w \in Stored : rows[w].rating = "SATISFIED"})])
  /\ UNCHANGED <<now, database, calls, buttons>>

(* The newest opinions, as many as the limit lets through. *)
Newest(S) ==
  /\ S \subseteq Stored /\ Cardinality(S) =< Limit
  /\ Cardinality(S) < Limit => S = Stored
  /\ \A v \in S, w \in Stored \ S : rows[v].created >= rows[w].created

(* list_citizen_feedback. *)
List ==
  /\ admin.step = "list"
  /\ \E S \in SUBSET Responses :
       /\ Newest(S)
       /\ Turns([admin EXCEPT !.shown = {[id |-> w, row |-> rows[w]] : w \in S}])
  /\ UNCHANGED <<now, database, calls, buttons>>

(* The page is closed, or any of the three calls failed. *)
AdminLeaves ==
  /\ admin.step # "idle"
  /\ admin' = NoSummary
  /\ UNCHANGED <<now, database, calls, buttons>>

-----------------------------------------------------------------------------
Serve(c) == Refuse(c) \/ Begin(c) \/ Insert(c) \/ Skip(c) \/ Commit(c) \/ Match(c)
Admin == AdminArrives \/ AdminPurge \/ Summarize \/ List \/ AdminLeaves

Next ==
  \/ Tick \/ PeriodicPurge \/ Admin
  \/ \E w \in Responses \ Earlier : OpenSheet(w) \/ CloseSheet(w)
  \/ \E c \in Calls :
       \/ \E w \in Responses : LikeIt(c, w) \/ \E p \in Complaint : Complain(c, w, p)
       \/ Serve(c) \/ Abort(c) \/ Hear(c) \/ Lose(c)

Spec == Init /\ [][Next]_vars

(* Every request is processed, and its answer or the loss of it reaches    *)
(* the page.  Nobody has to press a button, and nothing has to fail.       *)
FairSpec == Spec /\ \A c \in Calls : WF_vars(Serve(c)) /\ WF_vars(Hear(c) \/ Lose(c))

-----------------------------------------------------------------------------
(* What a row still says of a write: all of it, or all but a purged text.  *)
Says(x, y) ==
  /\ x # NoRow
  /\ x.rating = y.rating /\ x.code = y.code /\ x.altered = y.altered
  /\ x.text = y.text \/ (x.text = NoText /\ x.purged # Never)

(* Whoever is told RECORDED finds just that opinion stored, then and ever  *)
(* after, up to a text whose time was up: a second opinion is never taken  *)
(* for the first, whatever was submitted and purged in between.            *)
RecordedIsStored ==
  \A c \in Calls : pc[c] = "RECORDED" => Says(rows[about[c]], Write(payload[c]))

(* Whoever is told CONFLICT differs from what is stored, or sent a text    *)
(* that has been purged meanwhile.                                         *)
ConflictIsReal ==
  \A c \in Calls :
    pc[c] = "CONFLICT" =>
      LET x == rows[about[c]]
          y == Write(payload[c])
      IN x # NoRow /\ <<x.rating, x.code, x.text, x.altered>> # <<y.rating, y.code, y.text, y.altered>>

(* The buttons thank for the rating that is stored, whatever was pressed   *)
(* twice, lost or answered late.                                           *)
VoteIsStored ==
  \A w \in Responses :
    voted[w] # "NONE" => rows[w] # NoRow /\ rows[w].rating = voted[w]

(* A stored opinion is never replaced: only its text goes, and only when   *)
(* its time is up.                                                         *)
FirstOpinionStays ==
  [][\A w \in Responses :
       rows[w] # NoRow /\ rows'[w] # rows[w] =>
         /\ rows[w].text # NoText /\ rows[w].expires =< now
         /\ rows'[w] = [rows[w] EXCEPT !.text = NoText, !.purged = now]]_vars

(* No administrator is shown a text that had expired when the summary was  *)
(* asked for.                                                              *)
ShownWasUnexpired ==
  \A x \in admin.shown : x.row.text # NoText => x.row.expires > admin.since

(* The three reads are of different moments, yet the list lacks an opinion *)
(* that the totals count only when it is full.                             *)
ListCoversTotals ==
  admin.step = "done" =>
    \/ Cardinality(admin.shown) = Limit
    \/ /\ admin.total =< Cardinality(admin.shown)
       /\ admin.good =< Cardinality({x \in admin.shown : x.row.rating = "SATISFIED"})

(* A call under way is answered, however long the others hold its key, and *)
(* no answer that is lost or late leaves the buttons disabled for good.    *)
CallsEnd ==
  \A c \in Calls : pc[c] = "sent" ~> (pc[c] \in Answers /\ about[c] \notin saving)

(* "The same payload sent again for the same request_id is idempotent."    *)
RepeatIsRecorded ==
  \A c, d \in Calls :
    about[c] = about[d] /\ payload[c] = payload[d] /\ pc[c] = "RECORDED" => pc[d] # "CONFLICT"
=============================================================================
