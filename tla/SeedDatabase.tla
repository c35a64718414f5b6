--------------------------- MODULE SeedDatabase ---------------------------
(***************************************************************************)
(* The database side of a data release: the transactions of seed.sql and   *)
(* compensation.sql (scripts/data_seed_sql.py) as the commands of          *)
(* scripts/verify_data_seed_db.py run them, beside sessions that apply the *)
(* committed copy of the same scripts and citizens whose interactions are  *)
(* recorded (record_interaction).                                          *)
(*                                                                         *)
(* A script takes the advisory lock and then locks eight tables one after  *)
(* the other, each in ACCESS EXCLUSIVE mode; an interaction locks the      *)
(* event table and then the documents it cites, so they can wait for each  *)
(* other.  The lock time-out of five seconds or the deadlock detector then *)
(* ends one of them.  With its locks a script checks, changes and commits  *)
(* alone, hence in one step.  PostgreSQL's queue of lock requests is left  *)
(* out: a request is granted at any time no held lock conflicts with it.   *)
(***************************************************************************)
EXTENDS DataRelease

CONSTANTS
  Appliers,   \* sessions that apply one of the release's two scripts
  Citizens    \* interactions to be recorded

Sessions == Commands \cup Appliers

ASSUME SessionsAssumption ==
  /\ Commands \cap Appliers = {}
  /\ None \notin Sessions

(* The code names a hash for each staged file and for nothing else.        *)
ASSUME PinnedAssumption == Pinned = [f \in Staged |-> Pinned[f]]

VARIABLES
  rows,       \* the committed rows of the four seed-owned tables
  events,     \* the committed interactions: who, citing which documents
  advisory,   \* the session that holds the advisory lock, or None
  exclusive,  \* [Tables -> the session that locked the table, or None]
  shared,     \* [Tables -> the citizens whose transaction uses the table]
  plan,       \* [Sessions -> what it has yet to do]
  at,         \* [Sessions -> tables locked, or read, in the present task]
  noted,      \* [Commands -> the rows it hashed before the second seed]
  where,      \* [Citizens -> where its transaction is]
  cites       \* [Citizens -> the ids of the documents its answer cites]

dbVars == <<rows, events, advisory, exclusive, shared, plan, at, noted,
            where, cites>>
vars == <<fileVars, dbVars>>

SeedTables == <<"kb_documents", "kb_question_examples", "offices",
                "office_service_mappings">>
LockTables == <<"kb_documents", "kb_question_examples", "offices",
                "office_service_mappings", "interaction_events",
                "failed_questions", "kb_candidates", "audit_logs">>

NoRows == [kb_documents |-> {}, kb_question_examples |-> {}, offices |-> {},
           office_service_mappings |-> {}]

KbRowsOf(r) == {row.id : row \in r.kb_documents}

(* The commands of the verifier: what they do with the database, in order. *)
(* The fourth, identity, asks for the session's roles alone; that question *)
(* and the second of two equal queries in a row are left out, and so are   *)
(* the further queries of the evidence command (the counts of records,     *)
(* offices and mappings, the excluded ids, the reads the citizens' role    *)
(* makes): they look again at the rows just compared, and no property      *)
(* rests on them.                                                          *)
Program(o) ==
  CASE o = "rollback" -> <<"empty", "forced", "empty">>
    [] o = "cycle" -> <<"empty", "seed", "exact", "note", "seed again", "same",
                        "blocked", "exact", "quiet", "compensation", "empty",
                        "seed", "exact">>
    [] o = "evidence" -> <<"exact", "quiet">>

Transactions == {"seed", "seed again", "forced", "compensation", "blocked"}

Init ==
  /\ FileInit
  /\ rows = NoRows
  /\ events = {}
  /\ advisory = None
  /\ exclusive = [t \in Elements(LockTables) |-> None]
  /\ shared = [t \in Elements(LockTables) |-> {}]
  /\ \E script \in [Appliers -> {"seed", "compensation"}] :
       plan = [s \in Sessions |-> IF s \in Appliers THEN <<script[s]>> ELSE <<>>]
  /\ at = [s \in Sessions |-> 0]
  /\ noted = [c \in Commands |-> NoRows]
  /\ where = [w \in Citizens |-> "idle"]
  /\ cites = [w \in Citizens |-> {}]

(* What a session's release carries: what it verified, or what the         *)
(* committed release has.                                                  *)
Committed == [seed |-> Reviewable, compensation |-> Reviewable,
              projection |-> Reviewable]
Carried(s) == IF s \in Commands THEN payload[s] ELSE Committed

Task(s) == IF plan[s] = <<>> THEN "none" ELSE Head(plan[s])

(***************************************************************************)
(* A session opens, does one task after the other and ends at the first    *)
(* that does not go as planned.                                            *)
(***************************************************************************)
Open(c) ==
  /\ stage[c] = "loaded"
  /\ stage' = [stage EXCEPT ![c] = "running"]
  /\ plan' = [plan EXCEPT ![c] = Program(op[c])]
  /\ UNCHANGED <<disk, edits, op, todo, got, made, payload, rows, events,
                 advisory, exclusive, shared, at, noted, where, cites>>

(* The task is over: the next one, or the end of the session.              *)
Over(s, ok) ==
  /\ plan' = [plan EXCEPT ![s] = IF ok THEN Tail(@) ELSE <<>>]
  /\ at' = [at EXCEPT ![s] = 0]
  /\ IF s \in Commands /\ plan'[s] = <<>>
       THEN stage' = [stage EXCEPT ![s] = IF ok THEN "passed" ELSE "failed"]
       ELSE UNCHANGED stage
  /\ UNCHANGED <<disk, edits, op, todo, got, made, payload>>

(***************************************************************************)
(* Transactions.                                                           *)
(***************************************************************************)
Advisory(s) ==
  /\ Task(s) \in Transactions
  /\ advisory = None
  /\ advisory' = s
  /\ UNCHANGED <<fileVars, rows, events, exclusive, shared, plan, at, noted,
                 where, cites>>

Lock(s) ==
  /\ advisory = s
  /\ at[s] < Len(LockTables)
  /\ LET t == LockTables[at[s] + 1] IN
       /\ shared[t] = {}
       /\ exclusive' = [exclusive EXCEPT ![t] = s]
  /\ at' = [at EXCEPT ![s] = @ + 1]
  /\ UNCHANGED <<fileVars, rows, events, advisory, shared, plan, noted,
                 where, cites>>

Unlocked(s) ==
  /\ advisory' = None
  /\ exclusive' = [t \in DOMAIN exclusive |->
                     IF exclusive[t] = s THEN None ELSE exclusive[t]]
  /\ UNCHANGED <<shared, events, noted, where, cites>>

AllEmpty == rows = NoRows /\ events = {}

(* FAULTY VARIANT: compensation asks for the exact rows only.              *)
CompensationAllowedAlways(s) == rows = Carried(s).compensation

(* What the guards of each script ask before its COMMIT: the forced        *)
(* failure and the injected event make the guards of theirs fail.          *)
SeedAllowed == AllEmpty
CompensationAllowed(s) == events = {} /\ rows = Carried(s).compensation

Execute(s) ==
  /\ advisory = s
  /\ at[s] = Len(LockTables)
  /\ LET task == Task(s)
         commits == \/ task \in {"seed", "seed again"} /\ SeedAllowed
                    \/ task = "compensation" /\ CompensationAllowed(s)
         planned == \/ task \in {"seed", "compensation"} /\ commits
                    \/ task = "seed again" /\ ~commits
                    \/ task = "forced" /\ SeedAllowed
                    \/ task = "blocked"
     IN /\ rows' = IF ~commits THEN rows
                   ELSE IF task = "compensation" THEN NoRows ELSE Carried(s).seed
        /\ Over(s, planned)
  /\ Unlocked(s)

(* The session role is wrong, a lock is not granted in time, or a deadlock *)
(* is resolved against the script: rollback.                               *)
GiveUp(s) ==
  /\ Task(s) \in Transactions
  /\ Over(s, FALSE)
  /\ IF advisory = s THEN Unlocked(s)
     ELSE UNCHANGED <<advisory, exclusive, shared, events, noted, where, cites>>
  /\ UNCHANGED rows

(***************************************************************************)
(* The verifier's assertions are single statements outside a transaction,  *)
(* one per table, each of which waits for an exclusive lock.               *)
(***************************************************************************)
Asserted(s) ==
  IF Task(s) \in {"exact", "note", "same"} THEN SeedTables ELSE LockTables

Holds(s, t) ==
  CASE Task(s) = "exact" -> rows[t] = Carried(s).projection[t]
    [] Task(s) = "note" -> TRUE
    [] Task(s) = "same" -> rows[t] = noted[s][t]
    [] Task(s) = "empty" -> IF t \in DOMAIN rows THEN rows[t] = {}
                            ELSE t # "interaction_events" \/ events = {}
    [] Task(s) = "quiet" -> t # "interaction_events" \/ events = {}

Observe(s) ==
  /\ Task(s) \in {"exact", "note", "same", "empty", "quiet"}
  /\ LET t == Asserted(s)[at[s] + 1] IN
       /\ exclusive[t] = None
       /\ noted' = IF Task(s) = "note" THEN [noted EXCEPT ![s][t] = rows[t]]
                   ELSE noted
       /\ IF Holds(s, t) /\ at[s] + 1 < Len(Asserted(s))
            THEN /\ at' = [at EXCEPT ![s] = @ + 1]
                 /\ UNCHANGED <<fileVars, plan>>
            ELSE Over(s, Holds(s, t))
  /\ UNCHANGED <<rows, events, advisory, exclusive, shared, where, cites>>

(***************************************************************************)
(* record_interaction: an answer that cites the documents the chat read,   *)
(* or a fallback.  It locks the events, then the cited documents, which    *)
(* must still be there, and inserts.                                       *)
(***************************************************************************)
Move(w, to) == where' = [where EXCEPT ![w] = to]

(* The chat reads the active records (list_active_kb, in a transaction of  *)
(* its own) and answers with any of them, or with none.                    *)
Answer(w) ==
  /\ where[w] = "idle"
  /\ exclusive["kb_documents"] = None
  /\ \E cited \in {{}} \cup {{k} : k \in KbRowsOf(rows)} :
       cites' = [cites EXCEPT ![w] = cited]
  /\ Move(w, "answered")
  /\ UNCHANGED <<fileVars, rows, events, advisory, exclusive, shared, plan,
                 at, noted>>

UseTable(w, t) ==
  /\ exclusive[t] = None
  /\ shared' = [shared EXCEPT ![t] = @ \cup {w}]

LockEvents(w) ==
  /\ where[w] = "answered"
  /\ UseTable(w, "interaction_events")
  /\ Move(w, "recording")
  /\ UNCHANGED <<fileVars, rows, events, advisory, exclusive, plan, at, noted,
                 cites>>

(* FAULTY VARIANT: what the chat read before is not looked up again.       *)
LockSourcesUnread(w) ==
  /\ where[w] = "recording"
  /\ UseTable(w, IF cites[w] = {} THEN "failed_questions" ELSE "kb_documents")
  /\ Move(w, "sound")
  /\ UNCHANGED <<fileVars, rows, events, advisory, exclusive, plan, at, noted,
                 cites>>

LockSources(w) ==
  /\ where[w] = "recording"
  /\ UseTable(w, IF cites[w] = {} THEN "failed_questions" ELSE "kb_documents")
  /\ Move(w, IF cites[w] \subseteq KbRowsOf(rows) THEN "sound" ELSE "unsound")
  /\ UNCHANGED <<fileVars, rows, events, advisory, exclusive, plan, at, noted,
                 cites>>

(* Commit, refusal (P1010), or the end of a deadlock's victim.             *)
Finish(w) ==
  /\ where[w] \in {"recording", "sound", "unsound"}
  /\ \/ /\ where[w] = "sound"
        /\ events' = events \cup {[by |-> w, cites |-> cites[w]]}
        /\ Move(w, "recorded")
     \/ UNCHANGED events /\ Move(w, "refused")
  /\ shared' = [t \in DOMAIN shared |-> shared[t] \ {w}]
  /\ UNCHANGED <<fileVars, rows, advisory, exclusive, plan, at, noted,
                 cites>>

SessionStep(s) ==
  \/ Advisory(s) \/ Lock(s) \/ Execute(s) \/ GiveUp(s) \/ Observe(s)

CitizenStep(w) == Answer(w) \/ LockEvents(w) \/ LockSources(w) \/ Finish(w)

Next ==
  \/ FileNext /\ UNCHANGED dbVars
  \/ \E c \in Commands : Open(c)
  \/ \E s \in Sessions : SessionStep(s)
  \/ \E w \in Citizens : CitizenStep(w)

Spec == Init /\ [][Next]_vars

(***************************************************************************)
(* Properties.                                                             *)
(***************************************************************************)
TypeOK ==
  /\ stage \in [Commands -> {"idle", "plan", "check", "exists", "compare", "write",
                           "release", "draft", "gate", "again", "regate", "loaded",
                           "running", "passed", "failed"}]
  /\ op \in [Commands -> Staging \cup Loading \cup {"none"}]
  /\ advisory \in Sessions \cup {None}
  /\ exclusive \in [Elements(LockTables) -> Sessions \cup {None}]
  /\ shared \in [Elements(LockTables) -> SUBSET Citizens]
  /\ at \in [Sessions -> 0..Len(LockTables)]
  /\ where \in [Citizens -> {"idle", "answered", "recording", "sound", "unsound",
                           "recorded", "refused"}]

(* What reaches the database is the draft that was reviewed, all of it and *)
(* nothing else, whatever is edited while a command reads, checks and      *)
(* reads again, and whoever else seeds or compensates at the same time.    *)
SeedIsReviewed ==
  /\ rows \in {NoRows, Reviewable}
  /\ \A c \in Commands : stage[c] \in {"loaded", "running"} => payload[c] = Committed

(* A recorded answer keeps the documents it cites: compensation never      *)
(* takes them away, and an answer whose documents were taken away between  *)
(* the retrieval and the recording is refused.                             *)
EventsHaveSources == \A e \in events : e.cites \subseteq KbRowsOf(rows)
=============================================================================
