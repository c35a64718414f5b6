---------------------------- MODULE ChatPipeline ----------------------------
(***************************************************************************)
(* What the chat service concludes from a question, the region chosen on   *)
(* the screen, the context of the last turn, the active knowledge it read  *)
(* and the verdict of the classifier: ChatService._execute_once without    *)
(* its awaits, which Conversation puts between these functions.            *)
(*                                                                         *)
(* A question is what the deterministic rules find in its masked text: the *)
(* class classify_question gives it, the words of a context turn, and, for *)
(* each topic, how well its record matches.                                *)
(***************************************************************************)
EXTENDS Integers, FiniteSets

CONSTANTS
  Topics,      \* knowledge with retrieval metadata (topic-coverage.v1.json)
  Intents,     \* the supported intents
  IntentOf,    \* the intent of each topic
  Certificate, \* CERTIFICATE_ISSUANCE
  Waste,       \* BULKY_WASTE
  CancelTopic, \* KB-WASTE-02
  Offers,      \* <<topic, facet>>: the record answers that facet
  Regions,
  Questions,
  None

Facets == {"FEE", "REQUIRED_DOCUMENTS", "PROCESSING_TIME", "OFFICE", "ONLINE"}
Slots == {"DOMAIN", "TOPIC_CHOICE", "CERTIFICATE_KIND", "REGION", "WASTE_ITEM"}
Refused == {"PRIVACY_UNRESOLVED", "PERSONAL_LOOKUP", "LEGAL_JUDGMENT", "OUT_OF_SCOPE"}

(* kind: refused for a reason, about one supported intent, a certificate   *)
(* of an unnamed kind, or open, which only context or a provider resolves. *)
Question ==
  {q \in [kind : Refused \cup {"SUPPORTED", "CERTIFICATE", "OPEN"},
          intent : Intents \cup {None},   \* of a SUPPORTED question
          detail : Intents \cup {None},   \* names a detail no record covers
          facet : Facets \cup {None},     \* consists of a facet word
          region : Regions \cup {None},   \* names a region ...
          moves : BOOLEAN,                \* ... and asks to change to it
          explicit : BOOLEAN,             \* has a term of _EXPLICIT_INTENT_TERMS
          cancel : BOOLEAN,               \* consists of a cancellation
          generic : Intents \cup {None},  \* a bare request about an intent
          score : [Topics -> Nat],        \* rank of its overlap, 0 for no shared word
          exact : SUBSET Topics,          \* equals an approved example
          anchored : SUBSET Topics,       \* shares an anchor term
          clash : SUBSET Topics,          \* names another exclusive identity
          lacks : SUBSET Topics] :        \* names a detail the record lacks
     (q.kind = "SUPPORTED") <=> (q.intent # None)}

Context ==
  [intent : Intents \cup {None}, region : Regions \cup {None},
   topic : Topics \cup {None}, slot : Slots \cup {None}]

ASSUME PipelineAssumption ==
  /\ IntentOf \in [Topics -> Intents]
  /\ Certificate \in Intents /\ Waste \in Intents
  /\ Offers \subseteq Topics \X Facets
  /\ Questions \subseteq Question
  /\ None \notin Intents \cup Topics \cup Regions \cup Slots \cup Facets
  /\ None \notin Context

-----------------------------------------------------------------------------
(* What the context adds to the question. *)
SelectedRegion(region, ctx) ==
  IF region # None \/ ctx = None THEN region ELSE ctx.region

ContextualRegion(q, ctx) ==
  IF ctx = None THEN None
  ELSE IF ctx.slot = "REGION" \/ q.moves THEN q.region ELSE None

ContextualAction(q, ctx) ==
  IF ctx = None \/ q.explicit THEN None
  ELSE IF ContextualRegion(q, ctx) # None THEN "CHANGING_REGION" ELSE q.facet

RegionOf(q, region, ctx) ==
  IF ContextualRegion(q, ctx) # None THEN ContextualRegion(q, ctx)
  ELSE SelectedRegion(region, ctx)

RegionChanged(q, region, ctx) ==
  \/ ContextualRegion(q, ctx) # None
  \/ ctx # None /\ region # None /\ region # ctx.region

ActionOf(q, region, ctx) ==
  IF RegionChanged(q, region, ctx) THEN "CHANGING_REGION" ELSE ContextualAction(q, ctx)

(* An incomplete question is about the intent of the last turn. *)
FromContext(q, region, ctx) ==
  /\ q.kind \in {"CERTIFICATE", "OPEN"} /\ ctx # None
  /\ ActionOf(q, region, ctx) # None
  /\ ctx.intent \in Intents

KnownIntent(q, region, ctx) ==
  IF q.detail # None THEN q.detail
  ELSE IF FromContext(q, region, ctx) THEN ctx.intent
  ELSE IF q.kind = "CERTIFICATE" THEN Certificate ELSE q.intent

(* The intents whose active knowledge is read. *)
Scope(q, region, ctx) ==
  IF KnownIntent(q, region, ctx) = None THEN Intents ELSE {KnownIntent(q, region, ctx)}

-----------------------------------------------------------------------------
(* Topic selection over a catalog, the topics read as active. *)
Decision(route, intent, topic, slot) ==
  [route |-> route, intent |-> intent, topic |-> topic, slot |-> slot]

Undecided == Decision("CLASSIFY", None, None, None)
Nothing == Decision("NONE", None, None, None)
Pick(t) == Decision("TOPIC", IntentOf[t], t, None)
NoMatch(i) == Decision("NO_TOPIC_MATCH", i, None, None)

About(i, catalog) == {t \in catalog : IntentOf[t] = i}

(* A follow-up question needs current knowledge to offer. *)
Plan(i, slot, catalog) ==
  IF slot = "DOMAIN" THEN Decision("FOLLOWUP", None, None, slot)
  ELSE IF About(i, catalog) # {} THEN Decision("FOLLOWUP", i, None, slot) ELSE Nothing

(* An approved example first, else one record that matches better than     *)
(* every other and shares an anchor with the question.                     *)
Best(q, S) == {t \in S : \A u \in S : q.score[u] <= q.score[t]}
Lexical(q, S) ==
  {t \in Best(q, S) : Best(q, S) = {t} /\ q.score[t] > 0 /\ t \in q.anchored}
Deterministic(q, i, catalog) ==
  LET exact == q.exact \cap About(i, catalog)
  IN  IF exact # {} THEN Best(q, exact) ELSE Lexical(q, About(i, catalog))

(* "Cancel it" after an answer about bulky waste. *)
CancelsWaste(q, ctx, catalog) ==
  /\ q.cancel /\ ctx # None
  /\ ctx.intent = Waste /\ {ctx.topic, CancelTopic} \subseteq About(Waste, catalog)

(* The topic of the last turn, if it is still active. *)
Remembered(ctx, catalog) == IF ctx.topic \in catalog THEN ctx.topic ELSE None

(* A facet or another region of the topic of the last turn. *)
Contextual(q, i, ctx, catalog) ==
  LET action == ContextualAction(q, ctx)
      topic == Remembered(ctx, catalog)
  IN  IF ctx = None \/ action = None THEN Undecided
      ELSE IF ctx.intent # i \/ ctx.topic = None THEN Undecided
      ELSE IF topic = None THEN NoMatch(i)
      ELSE IF action = "CHANGING_REGION" \/ <<topic, action>> \in Offers THEN Pick(topic)
      ELSE Undecided

(* _select_topic before the classifier.  Several equally good approved     *)
(* examples are told apart by public id, here by any choice.               *)
Select(q, region, ctx, catalog) ==
  LET i == KnownIntent(q, region, ctx)
  IN  IF q.detail # None THEN NoMatch(i)
      ELSE IF q.kind = "CERTIFICATE" /\ ~FromContext(q, region, ctx)
           THEN Plan(i, "CERTIFICATE_KIND", catalog)
      ELSE IF CancelsWaste(q, ctx, catalog) THEN Pick(CancelTopic)
      ELSE IF i = None THEN Undecided
      ELSE IF q.generic = i THEN Plan(i, "TOPIC_CHOICE", catalog)
      ELSE IF Deterministic(q, i, catalog) # {}
           THEN Pick(CHOOSE t \in Deterministic(q, i, catalog) : TRUE)
      ELSE Contextual(q, i, ctx, catalog)

\* FAULTY VARIANT: the topic the classifier names is not looked up.
Verdicts_AnyTopic(q, region, ctx, catalog) ==
  {Nothing} \cup {Pick(t) : t \in Topics}

(* What the classifier stage may return: nothing (no client, an error, a   *)
(* time-out), or a decision of ClassifierDecision's shapes about the       *)
(* catalog it was given, checked against the question.                     *)
Verdicts(q, region, ctx, catalog) ==
  LET i == KnownIntent(q, region, ctx)
      slots == {p \in Intents \X Slots :
                  /\ p[2] = "CERTIFICATE_KIND" => p[1] = Certificate
                  /\ p[2] = "WASTE_ITEM" => p[1] = Waste}
  IN  {Nothing} \cup
      IF catalog = {} THEN {}
      ELSE {IF t \in q.clash THEN NoMatch(IntentOf[t]) ELSE Pick(t) : t \in catalog}
           \cup {Plan(p[1], p[2], catalog) : p \in slots}
           \cup {NoMatch(j) : j \in {j \in Intents : i \in {None, j}}}
           \cup {Decision("CIVIC_SCOPE_GAP", None, None, None),
                 Decision("NON_CIVIC", None, None, None)}

-----------------------------------------------------------------------------
(* Answers, and the context a token issued with them carries. *)
Statuses == {"SUCCESS", "FOLLOWUP", "FALLBACK"}
Answer ==
  [status : Statuses, intent : Intents \cup {None}, topic : Topics \cup {None},
   slot : Slots \cup {None}]

Reply(status, intent, topic, slot, token) ==
  [answer |-> [status |-> status, intent |-> intent, topic |-> topic, slot |-> slot],
   token |-> token]

Issue(intent, region, topic, slot) ==
  [intent |-> intent, region |-> region, topic |-> topic, slot |-> slot]

Fallback(intent) == Reply("FALLBACK", intent, None, None, None)

Followup(intent, region, about, slot) ==
  Reply("FOLLOWUP", intent, None, slot, Issue(intent, region, about, slot))

Success(t, region) ==
  Reply("SUCCESS", IntentOf[t], t, None, Issue(IntentOf[t], region, t, None))

(* evaluate_grounding, and the region an office question still needs. *)
Grounded(q, region, ctx, t) ==
  LET here == RegionOf(q, region, ctx)
  IN  IF t \in q.lacks THEN Fallback(IntentOf[t])
      ELSE IF ActionOf(q, region, ctx) = "OFFICE" /\ here = None
           THEN Followup(IntentOf[t], None, t, "REGION")
      ELSE Success(t, here)

Conclude(q, region, ctx, d) ==
  LET here == RegionOf(q, region, ctx)
  IN  CASE d.route = "TOPIC" -> Grounded(q, region, ctx, d.topic)
        [] d.route = "FOLLOWUP" -> Followup(d.intent, here, None, d.slot)
        [] d.route = "NO_TOPIC_MATCH" -> Fallback(d.intent)
        [] d.route \in {"CIVIC_SCOPE_GAP", "NON_CIVIC"} -> Fallback(None)
        [] d.route = "NONE" -> Followup(None, here, None, "DOMAIN")

(* The slot a stored follow-up is taken to have asked for. *)
ReplayedSlot(a) ==
  IF a.intent = None THEN "DOMAIN"
  ELSE IF a.slot \in {"REGION", "WASTE_ITEM"} THEN a.slot
  ELSE IF a.intent = Certificate THEN "CERTIFICATE_KIND" ELSE "TOPIC_CHOICE"

(* A stored answer with a token made from it and from the context the      *)
(* retry brought along.                                                    *)
Replay(a, region, ctx) ==
  LET slot == ReplayedSlot(a)
      about == IF slot = "REGION" /\ ctx # None THEN ctx.topic ELSE None
      here == SelectedRegion(region, ctx)
  IN  CASE a.status = "SUCCESS" ->
             [answer |-> a, token |-> Issue(a.intent, here, a.topic, None)]
        [] a.status = "FOLLOWUP" ->
             [answer |-> a, token |-> Issue(a.intent, here, about, slot)]
        [] a.status = "FALLBACK" -> [answer |-> a, token |-> None]
=============================================================================
