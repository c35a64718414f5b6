---------------------------- MODULE Conversation ----------------------------
(***************************************************************************)
(* A conversation of several turns: the chat screen of one tab, the calls  *)
(* it makes with a retry key and the token of the last answer, and the     *)
(* server that executes each call (ChatPipeline) while administrators      *)
(* publish and withdraw knowledge.                                         *)
(*                                                                         *)
(* A call is one POST; a retry is another call with the same key.  Of the  *)
(* idempotency table only what a conversation can see is kept: who holds a *)
(* key and what is stored for it (ChatIdempotency has the rest).  A token  *)
(* is its claims, since only the server can sign it.                       *)
(***************************************************************************)
EXTENDS ChatPipeline, Sequences

CONSTANTS
  Calls,   \* POSTs
  Keys,    \* Idempotency-Keys, one per question asked
  Changes  \* bound: so many publications and withdrawals

ASSUME ConversationAssumption ==
  Changes \in Nat /\ None \notin Calls

VARIABLES
  active,  \* the topics that are ACTIVE and OFFICIAL
  \* the screen
  shown,   \* the bot messages
  token,   \* contextTokenRef
  region,  \* selectedRegion
  open,    \* inFlightRef: the calls whose answer the screen awaits
  draft,   \* failedDraft
  \* the server
  pc, sent, prior, todo, snapshot, result,
  holders, \* the calls that acquired their key
  claim,   \* the call that holds each key
  stored,  \* the completed answer of each key
  \* history
  used,    \* the keys created so far
  here,    \* ... and since the conversation began
  since,   \* the topics active at some time since a key was created
  changes  \* the changes of knowledge so far

screen == <<shown, token, region, open, draft>>
work == <<prior, todo, snapshot, result>>
server == <<pc, sent, work, holders, claim, stored>>
history == <<used, here, since, changes>>
vars == <<active, screen, server, history>>

Call ==
  [key : Keys, question : Questions, region : Regions \cup {None},
   context : Context \cup {None}]
Message == [key : Keys, question : Questions, region : Regions \cup {None}, answer : Answer]
Outcome == [answer : Answer, token : Context \cup {None}]

ASSUME NoneAssumption == None \notin Call \cup Outcome

Running == {"sent", "claimed", "loading", "classifying", "computed"}
Ended == {"answered", "replayed", "unavailable"}

(* Variables have their types. *)
TypeOK ==
  /\ active \subseteq Topics
  /\ shown \in Seq(Message) /\ token \in Context \cup {None}
  /\ region \in Regions \cup {None} /\ open \subseteq Calls /\ draft \in Call \cup {None}
  /\ pc \in [Calls -> {"idle"} \cup Running \cup Ended]
  /\ sent \in [Calls -> Call \cup {None}] /\ prior \in [Calls -> Context \cup {None}]
  /\ todo \in [Calls -> SUBSET Intents] /\ snapshot \in [Calls -> SUBSET Topics]
  /\ result \in [Calls -> Outcome \cup {None}]
  /\ holders \subseteq Calls /\ claim \in [Keys -> Calls \cup {None}]
  /\ stored \in [Keys -> Outcome \cup {None}]
  /\ used \subseteq Keys /\ here \subseteq Keys /\ since \in [Keys -> SUBSET Topics]
  /\ changes \in Nat

Init ==
  /\ active \in SUBSET Topics
  /\ shown = <<>> /\ token = None /\ region = None /\ open = {} /\ draft = None
  /\ pc = [c \in Calls |-> "idle"] /\ sent = [c \in Calls |-> None]
  /\ prior = [c \in Calls |-> None] /\ todo = [c \in Calls |-> {}]
  /\ snapshot = [c \in Calls |-> {}] /\ result = [c \in Calls |-> None]
  /\ holders = {} /\ claim = [k \in Keys |-> None] /\ stored = [k \in Keys |-> None]
  /\ used = {} /\ here = {} /\ since = [k \in Keys |-> {}] /\ changes = 0

(* A publication or a withdrawal. *)
Change(t) ==
  /\ changes < Changes /\ changes' = changes + 1
  /\ active' = IF t \in active THEN active \ {t} ELSE active \cup {t}
  /\ since' = [k \in Keys |-> IF k \in used THEN since[k] \cup active' ELSE since[k]]
  /\ UNCHANGED <<screen, server, used, here>>

-----------------------------------------------------------------------------
(* The screen.  One call at a time; sending forgets the failed draft.      *)
\* FAULTY VARIANT: no ref guards against a second call.
Free_Always == TRUE
Free == open = {}

Send(c, call) ==
  /\ Free /\ pc[c] = "idle"
  /\ open' = open \cup {c} /\ draft' = None
  /\ pc' = [pc EXCEPT ![c] = "sent"] /\ sent' = [sent EXCEPT ![c] = call]
  /\ UNCHANGED <<active, shown, token, work, holders, claim, stored>>

\* FAULTY VARIANT: one key for all the questions of the screen.
AskAbout_SameKey(c, k, q, r) ==
  /\ Send(c, [key |-> k, question |-> q, region |-> r, context |-> token])
  /\ used' = used \cup {k} /\ here' = here \cup {k}
  /\ since' = [since EXCEPT ![k] = active] /\ UNCHANGED changes

(* A new question gets a new key and the token of the last answer.         *)
AskAbout(c, k, q, r) ==
  /\ k \notin used
  /\ Send(c, [key |-> k, question |-> q, region |-> r, context |-> token])
  /\ used' = used \cup {k} /\ here' = here \cup {k}
  /\ since' = [since EXCEPT ![k] = active] /\ UNCHANGED changes

Ask(c, k, q) == AskAbout(c, k, q, region) /\ UNCHANGED region

(* The last message asks for the region: its question again, with one.     *)
PickRegion(c, k, r) ==
  /\ shown # <<>> /\ draft = None
  /\ shown[Len(shown)].answer.slot = "REGION"
  /\ AskAbout(c, k, shown[Len(shown)].question, r)
  /\ region' = r

(* Any answer that was asked for a region offers the others.               *)
ChangeRegion(c, k, i, r) ==
  /\ shown[i].answer.status = "SUCCESS" /\ shown[i].region \notin {None, r}
  /\ AskAbout(c, k, shown[i].question, r)
  /\ region' = r

SelectRegion(r) ==
  /\ region' = r /\ r # region
  /\ UNCHANGED <<active, shown, token, open, draft, server, history>>

Retry(c) ==
  /\ draft # None
  /\ Send(c, draft)
  /\ UNCHANGED <<region, history>>

Forget == shown' = <<>> /\ draft' = None /\ token' = None

NewConversation ==
  /\ Free
  /\ Forget
  /\ here' = {}
  /\ UNCHANGED <<active, region, open, server, used, since, changes>>

TokenAfter(c) == IF result[c].answer.status = "FALLBACK" THEN None ELSE result[c].token

(* The answer arrives. *)
Hear(c) ==
  /\ c \in open /\ pc[c] \in {"answered", "replayed"}
  /\ open' = open \ {c}
  /\ token' = TokenAfter(c)
  /\ shown' = Append(shown, [key |-> sent[c].key, question |-> sent[c].question,
                             region |-> sent[c].region, answer |-> result[c].answer])
  /\ UNCHANGED <<active, region, draft, server, history>>

(* A 503, or a broken connection whatever the server does or did.          *)
Lose(c) ==
  /\ c \in open
  /\ open' = open \ {c}
  /\ draft' = sent[c]
  /\ UNCHANGED <<active, shown, token, region, server, history>>

-----------------------------------------------------------------------------
(* The server. *)
Key(c) == sent[c].key
Goto(c, l) == pc' = [pc EXCEPT ![c] = l]

(* ContextTokenCodec.read: a token past its life is no token, and how long *)
(* a citizen takes is anyone's guess.                                      *)
Contexts(c) == {sent[c].context, None}

(* The key is free, or its lease has lapsed. *)
Acquire(c) ==
  /\ pc[c] = "sent" /\ stored[Key(c)] = None /\ claim[Key(c)] = None
  /\ Goto(c, "claimed")
  /\ holders' = holders \cup {c} /\ claim' = [claim EXCEPT ![Key(c)] = c]
  /\ UNCHANGED <<active, screen, sent, work, stored, history>>

(* Somebody executes the key: answer without storing. *)
Busy(c) ==
  /\ pc[c] = "sent" /\ stored[Key(c)] = None /\ claim[Key(c)] # None
  /\ Goto(c, "claimed")
  /\ UNCHANGED <<active, screen, sent, work, holders, claim, stored, history>>

Completed(c) ==
  /\ pc[c] = "sent" /\ stored[Key(c)] # None
  /\ Goto(c, "replayed")
  /\ \E ctx \in Contexts(c) :
       /\ prior' = [prior EXCEPT ![c] = ctx]
       /\ result' = [result EXCEPT ![c] = Replay(stored[Key(c)].answer, sent[c].region, ctx)]
  /\ UNCHANGED <<active, screen, sent, todo, snapshot, holders, claim, stored, history>>

(* The lease of a call that has not completed its key lapses. *)
Lapse(k) ==
  /\ claim[k] # None /\ stored[k] = None
  /\ claim' = [claim EXCEPT ![k] = None]
  /\ UNCHANGED <<active, screen, pc, sent, work, holders, stored, history>>

Refuse(c) ==
  /\ pc[c] = "claimed" /\ sent[c].question.kind \in Refused
  /\ Goto(c, "computed")
  /\ result' = [result EXCEPT ![c] = Fallback(None)]
  /\ UNCHANGED <<active, screen, sent, prior, todo, snapshot, holders, claim, stored,
                 history>>

Read(c) ==
  /\ pc[c] = "claimed" /\ sent[c].question.kind \notin Refused
  /\ Goto(c, "loading")
  /\ \E ctx \in Contexts(c) :
       /\ prior' = [prior EXCEPT ![c] = ctx]
       /\ todo' = [todo EXCEPT ![c] = Scope(sent[c].question, sent[c].region, ctx)]
  /\ UNCHANGED <<active, screen, sent, snapshot, result, holders, claim, stored, history>>

(* list_active_kb of one intent; the calls of gather end in any order.     *)
Load(c, i) ==
  /\ pc[c] = "loading" /\ i \in todo[c]
  /\ todo' = [todo EXCEPT ![c] = @ \ {i}]
  /\ snapshot' = [snapshot EXCEPT ![c] = @ \cup About(i, active)]
  /\ UNCHANGED <<active, screen, pc, sent, prior, result, holders, claim, stored, history>>

(* The answer and its token. *)
Decide(c, d) ==
  /\ Goto(c, "computed")
  /\ result' = [result EXCEPT ![c] =
       Conclude(sent[c].question, sent[c].region, prior[c], d)]
  /\ snapshot' = [snapshot EXCEPT ![c] = {}]
  /\ UNCHANGED <<active, screen, sent, prior, todo, holders, claim, stored, history>>

Selection(c) == Select(sent[c].question, sent[c].region, prior[c], snapshot[c])

Choose(c) ==
  /\ pc[c] = "loading" /\ todo[c] = {} /\ Selection(c) # Undecided
  /\ Decide(c, Selection(c))

Consult(c) ==
  /\ pc[c] = "loading" /\ todo[c] = {} /\ Selection(c) = Undecided
  /\ Goto(c, "classifying")
  /\ UNCHANGED <<active, screen, sent, work, holders, claim, stored, history>>

Classify(c) ==
  /\ pc[c] = "classifying"
  /\ \E d \in Verdicts(sent[c].question, sent[c].region, prior[c], snapshot[c]) : Decide(c, d)

(* Only who still holds the key may store; a busy call just answers.       *)
Store(c) ==
  /\ pc[c] = "computed" /\ c \in holders /\ claim[Key(c)] = c
  /\ stored' = [stored EXCEPT ![Key(c)] = result[c]]
  /\ Goto(c, "answered")
  /\ UNCHANGED <<active, screen, sent, work, holders, claim, history>>

Overtaken(c) ==
  /\ pc[c] = "computed" /\ c \in holders /\ claim[Key(c)] # c
  /\ Goto(c, "unavailable")
  /\ UNCHANGED <<active, screen, sent, work, holders, claim, stored, history>>

AnswerOnly(c) ==
  /\ pc[c] = "computed" /\ c \notin holders
  /\ Goto(c, "answered")
  /\ UNCHANGED <<active, screen, sent, work, holders, claim, stored, history>>

(* The database is unavailable, before or after the generator started: the *)
(* key is given back or left to its lease.                                 *)
Fail(c) ==
  /\ pc[c] \in Running
  /\ Goto(c, "unavailable")
  /\ claim' \in {claim, [k \in Keys |-> IF claim[k] = c THEN None ELSE claim[k]]}
  /\ UNCHANGED <<active, screen, sent, work, holders, stored, history>>

-----------------------------------------------------------------------------
Screen(c) ==
  \/ \E k \in Keys : \/ \E q \in Questions : Ask(c, k, q)
                     \/ \E r \in Regions : PickRegion(c, k, r)
                     \/ \E i \in DOMAIN shown, r \in Regions : ChangeRegion(c, k, i, r)
  \/ Retry(c) \/ Hear(c) \/ Lose(c)

Server(c) ==
  \/ Acquire(c) \/ Busy(c) \/ Completed(c)
  \/ Refuse(c) \/ Read(c) \/ Choose(c) \/ Consult(c) \/ Classify(c)
  \/ \E i \in Intents : Load(c, i)
  \/ Store(c) \/ Overtaken(c) \/ AnswerOnly(c) \/ Fail(c)

Next ==
  \/ NewConversation
  \/ \E t \in Topics : Change(t)
  \/ \E r \in Regions : SelectRegion(r)
  \/ \E k \in Keys : Lapse(k)
  \/ \E c \in Calls : Screen(c) \/ Server(c)

Spec == Init /\ [][Next]_vars

-----------------------------------------------------------------------------
Last == shown[Len(shown)]

(* An answer on the screen rests on a record that was active at some time  *)
(* after its question was first asked, whatever the token remembered, the  *)
(* classifier chose or a replay returned (ChatService._select_topic).      *)
GroundedWhileAsked ==
  \A i \in DOMAIN shown :
    shown[i].answer.status = "SUCCESS" => shown[i].answer.topic \in since[shown[i].key]

(* The context that the next question is sent with is that of the last     *)
(* message on the screen, and nothing of an earlier conversation returns   *)
(* (contextTokenRef and startNewConversation of chat-screen.tsx).          *)
ContextIsScreen ==
  /\ token # None =>
       /\ shown # <<>> /\ Last.answer.status # "FALLBACK"
       /\ token.intent = Last.answer.intent
       /\ Last.answer.status = "SUCCESS" => token.topic = Last.answer.topic
  /\ \A i \in DOMAIN shown : shown[i].key \in here
  /\ draft # None => draft.key \in here
  /\ \A c \in open : Key(c) \in here

(* However often a question is retried, one answer to it is shown          *)
(* (inFlightRef and failedDraft of chat-screen.tsx).                       *)
OneAnswerPerQuestion ==
  \A i, j \in DOMAIN shown : shown[i].key = shown[j].key => i = j

(* The promise to callers (OnceOnlyAnswer): a key has one stored answer,   *)
(* which its first call is given and every replay repeats, however leases  *)
(* lapse, calls are overtaken and replies are lost.  Answers that a busy   *)
(* key or a lost claim leaves unstored are outside of it.  An answer is    *)
(* known by the call that stored it.                                       *)
StoredBy == [k \in Keys |-> IF stored[k] = None THEN None ELSE claim[k]]
Received ==
  [c \in Calls |-> IF pc[c] = "answered" /\ c \in holders THEN c
                   ELSE IF pc[c] = "replayed" THEN StoredBy[Key(c)] ELSE None]

OnceOnly == INSTANCE OnceOnlyAnswer WITH
  Requests <- Calls, Nobody <- None,
  stored <- StoredBy,
  recorded <- {c \in Calls : \E k \in Keys : StoredBy[k] = c},
  received <- Received

AnswersOnceOnly == OnceOnly!Spec

(* A test name promises that a replayed question for the region keeps the  *)
(* topic it was asked about                                                *)
(* (test_completed_region_followup_replay_preserves_the_validated_topic).  *)
ReplayPreservesTopic ==
  \A c \in Calls :
    LET first == stored[Key(c)].token
    IN  (/\ pc[c] = "replayed" /\ prior[c] # None
         /\ result[c].answer.slot = "REGION" /\ first.topic # None)
          => result[c].token.topic = first.topic
=============================================================================
