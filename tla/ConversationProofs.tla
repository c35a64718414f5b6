------------------------- MODULE ConversationProofs -------------------------
(***************************************************************************)
(* Proofs about Conversation, for every question, catalog, verdict and     *)
(* number of calls.                                                        *)
(***************************************************************************)
EXTENDS Conversation, SequenceTheorems, TLAPS

(* A decision speaks of supported intents and of topics of the catalog.    *)
Sound(d, catalog) ==
  /\ d.route \in {"TOPIC", "FOLLOWUP", "NO_TOPIC_MATCH", "CIVIC_SCOPE_GAP", "NON_CIVIC", "NONE"}
  /\ d.intent \in Intents \cup {None}
  /\ d.slot \in Slots \cup {None}
  /\ d.route = "TOPIC" => d.topic \in catalog

(* A token repeats the answer it was issued with. *)
Coherent(r) ==
  r.token # None =>
    /\ r.token.intent = r.answer.intent
    /\ r.answer.status = "SUCCESS" => r.token.topic = r.answer.topic

(* The topic of a successful answer belongs to a set of topics. *)
RestsOn(a, S) == a.status = "SUCCESS" => a.topic \in S

(* Before the classifier, a decision names a topic of the catalog only.    *)
LEMMA SelectSound ==
  ASSUME NEW q \in Questions, NEW zone \in Regions \cup {None},
         NEW ctx \in Context \cup {None}, NEW catalog \in SUBSET Topics,
         Select(q, zone, ctx, catalog) # Undecided
  PROVE  Sound(Select(q, zone, ctx, catalog), catalog)
<1> DEFINE i == KnownIntent(q, zone, ctx)
<1>1. q \in Question
  BY PipelineAssumption
<1>2. i \in Intents \cup {None}
  BY <1>1, PipelineAssumption DEF KnownIntent, FromContext, Question, Context
<1>3. \A j \in Intents \cup {None}, s \in Slots : Sound(Plan(j, s, catalog), catalog)
  BY PipelineAssumption DEF Plan, Sound, Decision, Nothing, Slots
<1>4. \A t \in catalog : Sound(Pick(t), catalog)
  BY PipelineAssumption DEF Pick, Sound, Decision
<1>5. \A j \in Intents \cup {None} : Sound(NoMatch(j), catalog)
  BY PipelineAssumption DEF NoMatch, Sound, Decision
<1>6. Deterministic(q, i, catalog) # {} =>
        (CHOOSE t \in Deterministic(q, i, catalog) : TRUE) \in catalog
  <2>1. Deterministic(q, i, catalog) \subseteq catalog
    BY DEF Deterministic, Best, Lexical, About
  <2>. QED BY <2>1
<1>7. Contextual(q, i, ctx, catalog) = Undecided
      \/ Sound(Contextual(q, i, ctx, catalog), catalog)
  <2>1. Remembered(ctx, catalog) \in catalog \cup {None}
    BY DEF Remembered
  <2>. QED BY <1>2, <1>4, <1>5, <2>1 DEF Contextual
<1>8. CancelsWaste(q, ctx, catalog) => CancelTopic \in catalog
  BY DEF CancelsWaste, About
<1>. HIDE DEF i
<1>9. Select(q, zone, ctx, catalog) \in
        {NoMatch(i), Plan(i, "CERTIFICATE_KIND", catalog), Undecided,
         Plan(i, "TOPIC_CHOICE", catalog), Contextual(q, i, ctx, catalog)}
      \/ (CancelsWaste(q, ctx, catalog)
          /\ Select(q, zone, ctx, catalog) = Pick(CancelTopic))
      \/ (Deterministic(q, i, catalog) # {}
          /\ Select(q, zone, ctx, catalog)
             = Pick(CHOOSE t \in Deterministic(q, i, catalog) : TRUE))
  BY DEF Select, i
<1>10. "CERTIFICATE_KIND" \in Slots /\ "TOPIC_CHOICE" \in Slots
  BY DEF Slots
<1>. QED BY <1>2, <1>3, <1>4, <1>5, <1>6, <1>7, <1>8, <1>9, <1>10

(* So does what becomes of a verdict of the classifier. *)
LEMMA VerdictSound ==
  ASSUME NEW q \in Questions, NEW zone \in Regions \cup {None},
         NEW ctx \in Context \cup {None}, NEW catalog \in SUBSET Topics,
         NEW d \in Verdicts(q, zone, ctx, catalog)
  PROVE  Sound(d, catalog)
<1>3. \A j \in Intents \cup {None}, s \in Slots : Sound(Plan(j, s, catalog), catalog)
  BY PipelineAssumption DEF Plan, Sound, Decision, Nothing, Slots
<1>4. \A t \in catalog : Sound(Pick(t), catalog) /\ IntentOf[t] \in Intents
  BY PipelineAssumption DEF Pick, Sound, Decision
<1>5. \A j \in Intents : Sound(NoMatch(j), catalog)
  BY PipelineAssumption DEF NoMatch, Sound, Decision
<1>6. \/ d \in {Nothing, Decision("CIVIC_SCOPE_GAP", None, None, None),
                Decision("NON_CIVIC", None, None, None)}
      \/ \E t \in catalog : d = Pick(t) \/ d = NoMatch(IntentOf[t])
      \/ \E j \in Intents, s \in Slots : d = Plan(j, s, catalog)
      \/ \E j \in Intents : d = NoMatch(j)
  BY Zenon DEF Verdicts
<1>. QED BY <1>3, <1>4, <1>5, <1>6 DEF Sound, Nothing, Decision

(* What is concluded from a decision rests on its catalog, and the token   *)
(* repeats the answer.                                                     *)
LEMMA ConcludeSound ==
  ASSUME NEW q \in Questions, NEW zone \in Regions \cup {None},
         NEW ctx \in Context \cup {None}, NEW catalog \in SUBSET Topics,
         NEW d, Sound(d, catalog)
  PROVE  /\ Conclude(q, zone, ctx, d) \in Outcome
         /\ Coherent(Conclude(q, zone, ctx, d))
         /\ RestsOn(Conclude(q, zone, ctx, d).answer, catalog)
<1> DEFINE place == RegionOf(q, zone, ctx)
           r == Conclude(q, zone, ctx, d)
           Good(x) == x \in Outcome /\ Coherent(x) /\ RestsOn(x.answer, catalog)
<1>0. None \notin Context
  BY PipelineAssumption
<1>1. place \in Regions \cup {None}
  BY PipelineAssumption
  DEF RegionOf, ContextualRegion, SelectedRegion, Question, Context
<1>2. \A i \in Intents \cup {None} : Good(Fallback(i))
  BY DEF Fallback, Reply, Outcome, Answer, Statuses, Coherent, RestsOn
<1>3. \A i \in Intents \cup {None}, g \in Regions \cup {None}, t \in Topics \cup {None},
         s \in Slots \cup {None} : Good(Followup(i, g, t, s))
  BY <1>0 DEF Followup, Reply, Issue, Outcome, Answer, Statuses, Context, Coherent, RestsOn
<1>4. \A t \in catalog, g \in Regions \cup {None} : Good(Success(t, g))
  BY <1>0, PipelineAssumption
  DEF Success, Reply, Issue, Outcome, Answer, Statuses, Context, Coherent, RestsOn
<1>5. CASE d.route = "TOPIC"
  <2>1. d.topic \in catalog /\ IntentOf[d.topic] \in Intents /\ d.topic \in Topics
    BY <1>5, PipelineAssumption DEF Sound
  <2>2. r \in {Fallback(IntentOf[d.topic]),
               Followup(IntentOf[d.topic], None, d.topic, "REGION"), Success(d.topic, place)}
    BY <1>5 DEF Conclude, Grounded
  <2>. HIDE DEF place, r, Good
  <2>3. Good(Followup(IntentOf[d.topic], None, d.topic, "REGION"))
    BY <1>3, <2>1 DEF Slots
  <2>4. Good(r)
    BY <1>1, <1>2, <1>4, <2>1, <2>2, <2>3
  <2>. QED BY <2>4 DEF r, Good
<1>6. CASE d.route = "FOLLOWUP"
  <2>1. r = Followup(d.intent, place, None, d.slot)
    BY <1>6 DEF Conclude
  <2>. HIDE DEF place, r, Good
  <2>2. d.intent \in Intents \cup {None} /\ d.slot \in Slots \cup {None}
    BY DEF Sound
  <2>3. Good(r)
    BY <1>1, <1>3, <2>1, <2>2
  <2>. QED BY <2>3 DEF r, Good
<1>7. CASE d.route = "NO_TOPIC_MATCH"
  <2>1. r = Fallback(d.intent)
    BY <1>7 DEF Conclude
  <2>. HIDE DEF place, r, Good
  <2>2. d.intent \in Intents \cup {None}
    BY DEF Sound
  <2>3. Good(r)
    BY <1>2, <2>1, <2>2
  <2>. QED BY <2>3 DEF r, Good
<1>8. CASE d.route \in {"CIVIC_SCOPE_GAP", "NON_CIVIC"}
  <2>1. r = Fallback(None)
    BY <1>8 DEF Conclude
  <2>. HIDE DEF place, r, Good
  <2>2. Good(r)
    BY <1>2, <2>1
  <2>. QED BY <2>2 DEF r, Good
<1>9. CASE d.route = "NONE"
  <2>1. r = Followup(None, place, None, "DOMAIN")
    BY <1>9 DEF Conclude
  <2>. HIDE DEF place, r, Good
  <2>2. Good(r)
    BY <1>1, <1>3, <2>1 DEF Slots
  <2>. QED BY <2>2 DEF r, Good
<1>. QED BY <1>5, <1>6, <1>7, <1>8, <1>9 DEF Sound

(* A replay returns the stored answer, and its token repeats it. *)
LEMMA ReplaySound ==
  ASSUME NEW a \in Answer, NEW zone \in Regions \cup {None}, NEW ctx \in Context \cup {None}
  PROVE  /\ Replay(a, zone, ctx) \in Outcome
         /\ Coherent(Replay(a, zone, ctx))
         /\ Replay(a, zone, ctx).answer = a
<1>1. SelectedRegion(zone, ctx) \in Regions \cup {None}
  BY DEF SelectedRegion, Context
<1>2. ReplayedSlot(a) \in Slots
  BY DEF ReplayedSlot, Slots
<1>3. ctx # None => ctx.topic \in Topics \cup {None}
  BY DEF Context
<1>4. a.intent \in Intents \cup {None} /\ a.topic \in Topics \cup {None} /\ a.status \in Statuses
  BY DEF Answer
<1>. DEFINE about == IF ReplayedSlot(a) = "REGION" /\ ctx # None THEN ctx.topic ELSE None
            place == SelectedRegion(zone, ctx)
            slot == ReplayedSlot(a)
<1>5. about \in Topics \cup {None} /\ place \in Regions \cup {None} /\ slot \in Slots
  BY <1>1, <1>2, <1>3
<1>6. Replay(a, zone, ctx) =
        CASE a.status = "SUCCESS" -> [answer |-> a, token |-> Issue(a.intent, place, a.topic, None)]
          [] a.status = "FOLLOWUP" -> [answer |-> a, token |-> Issue(a.intent, place, about, slot)]
          [] a.status = "FALLBACK" -> [answer |-> a, token |-> None]
  BY DEF Replay
<1>. HIDE DEF about, place, slot
<1>7. CASE a.status = "SUCCESS"
  BY <1>4, <1>5, <1>6, <1>7 DEF Issue, Outcome, Context, Coherent
<1>8. CASE a.status = "FOLLOWUP"
  BY <1>4, <1>5, <1>6, <1>8 DEF Issue, Outcome, Context, Coherent
<1>9. CASE a.status = "FALLBACK"
  BY <1>4, <1>6, <1>9 DEF Outcome, Coherent
<1>. QED BY <1>4, <1>7, <1>8, <1>9 DEF Statuses

(* Knowledge is read for supported intents. *)
LEMMA ScopeType ==
  ASSUME NEW q \in Questions, NEW zone \in Regions \cup {None}, NEW ctx \in Context \cup {None}
  PROVE  Scope(q, zone, ctx) \subseteq Intents
<1>1. KnownIntent(q, zone, ctx) \in Intents \cup {None}
  BY PipelineAssumption DEF KnownIntent, FromContext, Question, Context
<1>. QED BY <1>1 DEF Scope

-----------------------------------------------------------------------------
Concluded == {"computed", "answered", "replayed"}

(* A call was asked under a used key, and its conclusion is an answer.     *)
Called ==
  /\ \A c \in Calls : pc[c] # "idle" => sent[c] \in Call /\ Key(c) \in used
  /\ \A c \in open : pc[c] # "idle"
  /\ \A c \in Calls : pc[c] \in Concluded => result[c] \in Outcome /\ Coherent(result[c])
  /\ here \subseteq used

(* The key of the call the screen waits for, or of the failed draft, has   *)
(* no answer on the screen yet.                                            *)
Turns ==
  /\ \A c, d \in open : c = d
  /\ open # {} => draft = None
  /\ \A c \in open : Key(c) \in here /\ \A i \in DOMAIN shown : shown[i].key # Key(c)
  /\ draft # None => draft.key \in here /\ \A i \in DOMAIN shown : shown[i].key # draft.key
  /\ \A i \in DOMAIN shown : shown[i].key \in here
  /\ OneAnswerPerQuestion

(* The token is the last message's. *)
Matches ==
  token # None =>
    /\ shown # <<>> /\ Last.answer.status # "FALLBACK"
    /\ token.intent = Last.answer.intent
    /\ Last.answer.status = "SUCCESS" => token.topic = Last.answer.topic

(* What a call read, concluded or stored was active while its key was used. *)
Rests ==
  /\ \A k \in used : active \subseteq since[k]
  /\ \A c \in Calls : pc[c] = "idle" => snapshot[c] = {}
  /\ \A c \in Calls : pc[c] # "idle" => snapshot[c] \subseteq since[Key(c)]
  /\ \A c \in Calls : pc[c] \in Concluded => RestsOn(result[c].answer, since[Key(c)])
  /\ \A k \in Keys : stored[k] # None => k \in used /\ RestsOn(stored[k].answer, since[k])
  /\ GroundedWhileAsked

Inv == TypeOK /\ Called /\ Turns /\ Matches /\ Rests

(* Nothing happened yet. *)
LEMMA InitInv == Init => Inv
<1>. SUFFICES ASSUME Init PROVE Inv
  OBVIOUS
<1>1. TypeOK
  BY DEF Init, TypeOK
<1>2. Called /\ Turns /\ Matches /\ Rests
  BY DEF Init, Called, Turns, Matches, Rests, OneAnswerPerQuestion, GroundedWhileAsked,
         Concluded
<1>. QED BY <1>1, <1>2 DEF Inv

(* A call is sent with a key and leaves the rest of the server alone. *)
LEMMA AskEffect ==
  ASSUME Inv, NEW c \in Calls, NEW k \in Keys, NEW q \in Questions, NEW r \in Regions \cup {None},
         AskAbout(c, k, q, r), region' \in Regions \cup {None}
  PROVE  Inv'
<1> DEFINE call == [key |-> k, question |-> q, region |-> r, context |-> token]
<1>1. call \in Call /\ call # None
  BY NoneAssumption DEF Inv, TypeOK, Call
<1>2. /\ open = {} /\ pc[c] = "idle" /\ k \notin used
      /\ open' = {c} /\ draft' = None
      /\ pc' = [pc EXCEPT ![c] = "sent"] /\ sent' = [sent EXCEPT ![c] = call]
      /\ used' = used \cup {k} /\ here' = here \cup {k}
      /\ since' = [since EXCEPT ![k] = active] /\ UNCHANGED changes
      /\ UNCHANGED <<active, shown, token, prior, todo, snapshot, result, holders, claim, stored>>
  BY DEF AskAbout, Send, Free, work
<1>. HIDE DEF call
<1>3. TypeOK'
  BY <1>1, <1>2 DEF Inv, TypeOK, Running
<1>4. sent'[c] = call /\ \A d \in Calls \ {c} : sent'[d] = sent[d] /\ pc'[d] = pc[d]
  BY <1>2 DEF Inv, TypeOK
<1>5. pc'[c] = "sent" /\ since'[k] = active /\ \A j \in Keys \ {k} : since'[j] = since[j]
  BY <1>2 DEF Inv, TypeOK
<1>6. call.key = k
  BY DEF call
<1>7. Called'
  BY <1>1, <1>2, <1>4, <1>5, <1>6 DEF Inv, Called, Key, Concluded
<1>8. Turns'
  BY <1>1, <1>2, <1>4, <1>6 DEF Inv, Called, Turns, Key, OneAnswerPerQuestion
<1>9. Matches'
  BY <1>2 DEF Inv, Matches, Last
<1>10. Rests'
  <2>1. \A d \in Calls \ {c} : pc[d] # "idle" => Key(d) # k /\ Key(d) \in Keys
    BY <1>2 DEF Inv, Called, Call, Key
  <2>2. \A i \in DOMAIN shown : shown[i].key # k /\ shown[i].key \in Keys
    BY <1>2 DEF Inv, Called, Turns, TypeOK
  <2>3. \A i \in DOMAIN shown : since'[shown[i].key] = since[shown[i].key]
    BY <2>2, <1>5
  <2>4. GroundedWhileAsked'
    BY <1>2, <2>3 DEF Inv, Rests, GroundedWhileAsked
  <2>5. \A j \in used' : active' \subseteq since'[j]
    BY <1>2, <1>5 DEF Inv, Rests, TypeOK
  <2>6. \A d \in Calls :
          /\ pc'[d] = "idle" => snapshot'[d] = {}
          /\ pc'[d] # "idle" => snapshot'[d] \subseteq since'[Key(d)']
          /\ pc'[d] \in Concluded => RestsOn(result'[d].answer, since'[Key(d)'])
    BY <1>2, <1>4, <1>5, <2>1 DEF Inv, Rests, Key, Concluded
  <2>7. \A j \in Keys : stored'[j] # None => j \in used' /\ RestsOn(stored'[j].answer, since'[j])
    BY <1>2, <1>5 DEF Inv, Rests
  <2>. QED BY <2>4, <2>5, <2>6, <2>7 DEF Rests
<1>. QED BY <1>3, <1>7, <1>8, <1>9, <1>10 DEF Inv

(* A retry is another call under the key of the failed draft. *)
LEMMA RetryEffect ==
  ASSUME Inv, NEW c \in Calls, Retry(c)
  PROVE  Inv'
<1>1. draft \in Call /\ draft # None /\ draft.key \in here /\ draft.key \in used
  BY DEF Inv, TypeOK, Retry, Turns, Called
<1>2. /\ open = {} /\ pc[c] = "idle" /\ open' = {c} /\ draft' = None
      /\ pc' = [pc EXCEPT ![c] = "sent"] /\ sent' = [sent EXCEPT ![c] = draft]
      /\ UNCHANGED <<active, shown, token, region, prior, todo, snapshot, result, holders, claim,
                     stored, used, here, since, changes>>
  BY DEF Retry, Send, Free, work, history
<1>3. TypeOK'
  BY <1>1, <1>2 DEF Inv, TypeOK, Running
<1>4. /\ sent'[c] = draft /\ \A d \in Calls \ {c} : sent'[d] = sent[d] /\ pc'[d] = pc[d]
      /\ pc'[c] = "sent"
  BY <1>2 DEF Inv, TypeOK
<1>5. Called'
  BY <1>1, <1>2, <1>4 DEF Inv, Called, Key, Concluded
<1>6. Turns'
  BY <1>1, <1>2, <1>4 DEF Inv, Turns, Key, OneAnswerPerQuestion
<1>7. Matches'
  BY <1>2 DEF Inv, Matches, Last
<1>8. Rests'
  BY <1>2, <1>4 DEF Inv, Rests, Key, Concluded, GroundedWhileAsked
<1>. QED BY <1>3, <1>5, <1>6, <1>7, <1>8 DEF Inv

(* The awaited answer is the last message, and the token is its. *)
LEMMA HearEffect ==
  ASSUME Inv, NEW c \in Calls, Hear(c)
  PROVE  Inv'
<1> DEFINE msg == [key |-> sent[c].key, question |-> sent[c].question,
                   region |-> sent[c].region, answer |-> result[c].answer]
<1>1. /\ c \in open /\ pc[c] \in Concluded /\ pc[c] # "idle" /\ open' = open \ {c}
      /\ token' = TokenAfter(c) /\ shown' = Append(shown, msg)
      /\ UNCHANGED <<active, region, draft, pc, sent, prior, todo, snapshot, result, holders,
                     claim, stored, used, here, since, changes>>
  BY DEF Hear, Concluded, server, work, history
<1>2. /\ sent[c] \in Call /\ result[c] \in Outcome /\ Coherent(result[c])
      /\ Key(c) \in here /\ RestsOn(result[c].answer, since[Key(c)])
      /\ draft = None /\ open' = {}
  BY <1>1 DEF Inv, Called, Turns, Rests
<1>3. msg \in Message /\ msg.key = Key(c) /\ msg.answer = result[c].answer
  BY <1>2 DEF Call, Message, Outcome, Key
<1>. HIDE DEF msg
<1>4. /\ shown' \in Seq(Message) /\ Len(shown') = Len(shown) + 1
      /\ DOMAIN shown' = 1 .. (Len(shown) + 1) /\ DOMAIN shown = 1 .. Len(shown)
      /\ \A i \in DOMAIN shown : shown'[i] = shown[i]
      /\ shown'[Len(shown) + 1] = msg /\ Len(shown) \in Nat
  BY <1>1, <1>3 DEF Inv, TypeOK
<1>5. TokenAfter(c) \in Context \cup {None}
  BY <1>2 DEF TokenAfter, Outcome
<1>6. TypeOK'
  BY <1>1, <1>4, <1>5 DEF Inv, TypeOK
<1>7. Called'
  BY <1>1 DEF Inv, Called, Key
<1>8. Turns'
  <2>1. \A i \in DOMAIN shown' : i \in DOMAIN shown \/ i = Len(shown) + 1
    BY <1>4
  <2>2. \A i \in DOMAIN shown : shown[i].key # Key(c) /\ shown[i].key \in here
    BY <1>1 DEF Inv, Turns
  <2>3. OneAnswerPerQuestion'
    BY <1>3, <1>4, <2>1, <2>2 DEF Inv, Turns, OneAnswerPerQuestion
  <2>. QED BY <1>1, <1>2, <1>3, <1>4, <2>1, <2>2, <2>3 DEF Turns
<1>9. Matches'
  <2>1. Last' = msg /\ shown' # <<>>
    BY <1>4 DEF Last
  <2>2. token' # None =>
          result[c].answer.status # "FALLBACK" /\ token' = result[c].token
    BY <1>1 DEF TokenAfter
  <2>. QED BY <1>2, <1>3, <2>1, <2>2 DEF Matches, Coherent
<1>10. Rests'
  <2>1. GroundedWhileAsked'
    <3>1. \A i \in DOMAIN shown' : i \in DOMAIN shown \/ i = Len(shown) + 1
      BY <1>4
    <3>. QED BY <1>1, <1>2, <1>3, <1>4, <3>1 DEF Inv, Rests, GroundedWhileAsked, RestsOn
  <2>. QED BY <1>1, <2>1 DEF Inv, Rests, Key
<1>. QED BY <1>6, <1>7, <1>8, <1>9, <1>10 DEF Inv

(* What else the citizen and the administrators do. *)
LEMMA LoseEffect ==
  ASSUME Inv, NEW c \in Calls, Lose(c)
  PROVE  Inv'
<1>1. /\ c \in open /\ pc[c] # "idle" /\ sent[c] \in Call /\ sent[c].key = Key(c)
      /\ open' = {} /\ draft' = sent[c]
      /\ UNCHANGED <<active, shown, token, region, pc, sent, prior, todo, snapshot, result,
                     holders, claim, stored, used, here, since, changes>>
  BY DEF Lose, Inv, Called, Turns, Key, server, work, history
<1>2. TypeOK'
  BY <1>1 DEF Inv, TypeOK
<1>3. Called' /\ Matches' /\ Rests'
  BY <1>1 DEF Inv, Called, Matches, Last, Rests, GroundedWhileAsked, Key
<1>4. Turns'
  BY <1>1 DEF Inv, Turns, OneAnswerPerQuestion
<1>. QED BY <1>2, <1>3, <1>4 DEF Inv

LEMMA NewConversationEffect ==
  ASSUME Inv, NewConversation
  PROVE  Inv'
<1>1. /\ open = {} /\ shown' = <<>> /\ draft' = None /\ token' = None /\ here' = {}
      /\ UNCHANGED <<active, region, open, pc, sent, prior, todo, snapshot, result,
                     holders, claim, stored, used, since, changes>>
  BY DEF NewConversation, Free, Forget, server, work
<1>2. TypeOK'
  BY <1>1 DEF Inv, TypeOK
<1>3. Called' /\ Matches' /\ Rests'
  BY <1>1 DEF Inv, Called, Matches, Rests, GroundedWhileAsked, Key
<1>4. Turns'
  BY <1>1 DEF Turns, OneAnswerPerQuestion
<1>. QED BY <1>2, <1>3, <1>4 DEF Inv

LEMMA SelectRegionEffect ==
  ASSUME Inv, NEW r \in Regions, SelectRegion(r)
  PROVE  Inv'
<1>1. /\ region' = r
      /\ UNCHANGED <<active, shown, token, open, draft, pc, sent, prior, todo, snapshot, result,
                     holders, claim, stored, used, here, since, changes>>
  BY DEF SelectRegion, server, work, history
<1>2. TypeOK'
  BY <1>1 DEF Inv, TypeOK
<1>3. Called' /\ Turns' /\ Matches' /\ Rests'
  BY <1>1 DEF Inv, Called, Turns, Matches, Last, Rests, GroundedWhileAsked, OneAnswerPerQuestion,
              Key
<1>. QED BY <1>2, <1>3 DEF Inv

LEMMA ChangeEffect ==
  ASSUME Inv, NEW t \in Topics, Change(t)
  PROVE  Inv'
<1>1. /\ active' \in SUBSET Topics /\ changes' = changes + 1
      /\ since' = [k \in Keys |-> IF k \in used THEN since[k] \cup active' ELSE since[k]]
      /\ UNCHANGED <<shown, token, region, open, draft, pc, sent, prior, todo, snapshot, result,
                     holders, claim, stored, used, here>>
  BY DEF Change, Inv, TypeOK, screen, server, work
<1>2. TypeOK'
  BY <1>1 DEF Inv, TypeOK
<1>3. \A k \in Keys : since[k] \subseteq since'[k]
  BY <1>1
<1>4. Called' /\ Turns' /\ Matches'
  BY <1>1 DEF Inv, Called, Turns, Matches, Last, OneAnswerPerQuestion, Key
<1>5. Rests'
  <2>1. \A d \in Calls : pc[d] # "idle" => Key(d) \in Keys
    BY DEF Inv, Called, Call, Key
  <2>2. \A i \in DOMAIN shown : shown[i].key \in Keys
    BY DEF Inv, Called, Turns, TypeOK
  <2>3. \A k \in used : active' \subseteq since'[k]
    BY <1>1 DEF Inv, TypeOK
  <2>. QED BY <1>1, <1>3, <2>1, <2>2, <2>3
           DEF Inv, Rests, GroundedWhileAsked, RestsOn, Key, Concluded
<1>. QED BY <1>2, <1>4, <1>5 DEF Inv

-----------------------------------------------------------------------------
(* A step of the server that lets one call read what is active, conclude   *)
(* from what it read, or store what it concluded, keeps the invariant.     *)
LEMMA ServerEffect ==
  ASSUME Inv, NEW c \in Calls, pc[c] # "idle", NEW l \in Running \cup Ended,
         pc' = [pc EXCEPT ![c] = l],
         UNCHANGED <<active, screen, sent, history>>,
         TypeOK',
         \A d \in Calls \ {c} : snapshot'[d] = snapshot[d] /\ result'[d] = result[d],
         snapshot'[c] \subseteq since[Key(c)],
         l \in Concluded => /\ result'[c] \in Outcome /\ Coherent(result'[c])
                           /\ RestsOn(result'[c].answer, since[Key(c)]),
         \A k \in Keys : stored'[k] # None =>
           k \in used /\ RestsOn(stored'[k].answer, since[k])
  PROVE  Inv'
<1>1. /\ pc'[c] = l /\ l # "idle" /\ \A d \in Calls \ {c} : pc'[d] = pc[d]
      /\ UNCHANGED <<shown, token, region, open, draft, used, here, since, changes>>
  BY DEF Inv, TypeOK, Running, Ended, screen, history
<1>2. Called'
  BY <1>1 DEF Inv, Called, Key, Coherent
<1>3. Turns' /\ Matches'
  BY <1>1 DEF Inv, Turns, Matches, Last, OneAnswerPerQuestion, Key
<1>4. Rests'
  <2>1. GroundedWhileAsked'
    BY <1>1 DEF Inv, Rests, GroundedWhileAsked
  <2>2. \A d \in Calls : Key(d)' = Key(d)
    BY DEF Key
  <2>3. \A d \in Calls :
          /\ pc'[d] = "idle" => snapshot'[d] = {}
          /\ pc'[d] # "idle" => snapshot'[d] \subseteq since'[Key(d)']
          /\ pc'[d] \in Concluded => RestsOn(result'[d].answer, since'[Key(d)'])
    BY <1>1, <2>2 DEF Inv, Rests
  <2>. QED BY <1>1, <2>1, <2>3 DEF Inv, Rests
<1>. QED BY <1>2, <1>3, <1>4 DEF Inv

(* What ServerEffect asks of a call that goes on and leaves its data alone. *)
LEMMA MoveEffect ==
  ASSUME Inv, NEW c \in Calls, NEW l \in Running \cup Ended,
         pc[c] # "idle", l \in Concluded => pc[c] \in Concluded,
         pc' = [pc EXCEPT ![c] = l],
         UNCHANGED <<active, screen, sent, snapshot, result, stored, history>>,
         prior' \in [Calls -> Context \cup {None}], todo' \in [Calls -> SUBSET Intents],
         holders' \subseteq Calls, claim' \in [Keys -> Calls \cup {None}]
  PROVE  Inv'
<1>1. TypeOK'
  BY DEF Inv, TypeOK, screen, history
<1>2. snapshot[c] \subseteq since[Key(c)]
      /\ (l \in Concluded => /\ result[c] \in Outcome /\ Coherent(result[c])
                             /\ RestsOn(result[c].answer, since[Key(c)]))
      /\ \A k \in Keys : stored[k] # None => k \in used /\ RestsOn(stored[k].answer, since[k])
  BY DEF Inv, Called, Rests
<1>. QED BY <1>1, <1>2, ServerEffect

(* A decision about the knowledge a call read. *)
LEMMA DecideEffect ==
  ASSUME Inv, NEW c \in Calls, pc[c] \in {"loading", "classifying"},
         NEW d, Sound(d, snapshot[c]), Decide(c, d)
  PROVE  Inv'
<1> DEFINE r == Conclude(sent[c].question, sent[c].region, prior[c], d)
<1>1. /\ sent[c].question \in Questions /\ sent[c].region \in Regions \cup {None}
      /\ prior[c] \in Context \cup {None} /\ snapshot[c] \in SUBSET Topics
  BY DEF Inv, TypeOK, Called, Call
<1>2. r \in Outcome /\ Coherent(r) /\ RestsOn(r.answer, snapshot[c])
  BY <1>1, ConcludeSound
<1>. HIDE DEF r
<1>3. snapshot[c] \subseteq since[Key(c)]
  BY DEF Inv, Rests
<1>4. /\ pc' = [pc EXCEPT ![c] = "computed"] /\ result' = [result EXCEPT ![c] = r]
      /\ snapshot' = [snapshot EXCEPT ![c] = {}]
      /\ UNCHANGED <<active, screen, sent, prior, todo, holders, claim, stored, history>>
  BY DEF Decide, Goto, r
<1>5. TypeOK'
  BY <1>2, <1>4 DEF Inv, TypeOK, screen, history, Running
<1>6. /\ result'[c] = r /\ snapshot'[c] = {}
      /\ \A e \in Calls \ {c} : snapshot'[e] = snapshot[e] /\ result'[e] = result[e]
  BY <1>4 DEF Inv, TypeOK
<1>7. RestsOn(r.answer, since[Key(c)])
  BY <1>2, <1>3 DEF RestsOn
<1>8. \A k \in Keys : stored'[k] # None => k \in used /\ RestsOn(stored'[k].answer, since[k])
  BY <1>4 DEF Inv, Rests
<1>9. pc[c] # "idle" /\ "computed" \in Running \cup Ended
  BY DEF Running
<1>. QED BY <1>2, <1>4, <1>5, <1>6, <1>7, <1>8, <1>9, ServerEffect

LEMMA ChooseEffect ==
  ASSUME Inv, NEW c \in Calls, Choose(c) \/ Classify(c)
  PROVE  Inv'
<1>1. pc[c] \in {"loading", "classifying"}
  BY DEF Choose, Classify
<1>2. /\ sent[c].question \in Questions /\ sent[c].region \in Regions \cup {None}
      /\ prior[c] \in Context \cup {None} /\ snapshot[c] \in SUBSET Topics
  BY <1>1 DEF Inv, TypeOK, Called, Call
<1>3. CASE Choose(c)
  <2>1. Sound(Selection(c), snapshot[c]) /\ Decide(c, Selection(c))
    BY <1>2, <1>3, SelectSound DEF Choose, Selection
  <2>. QED BY <1>1, <2>1, DecideEffect
<1>4. CASE Classify(c)
  <2>1. PICK d \in Verdicts(sent[c].question, sent[c].region, prior[c], snapshot[c]) : Decide(c, d)
    BY <1>4 DEF Classify
  <2>2. Sound(d, snapshot[c])
    BY <1>2, VerdictSound
  <2>. QED BY <1>1, <2>1, <2>2, DecideEffect
<1>. QED BY <1>3, <1>4

(* One step of the server for a call. *)
LEMMA ServerStep ==
  ASSUME Inv, NEW c \in Calls, Server(c)
  PROVE  Inv'
<1>0. TypeOK /\ (pc[c] # "idle" => sent[c] \in Call /\ Key(c) \in Keys)
  BY DEF Inv, Called, Call, Key
<1>a. \A l \in Running : l # "idle" /\ (l \in Concluded <=> l = "computed")
  BY DEF Running, Concluded
<1>1. CASE Acquire(c)
  <2>1. /\ pc[c] # "idle" /\ pc' = [pc EXCEPT ![c] = "claimed"]
        /\ holders' = holders \cup {c} /\ claim' = [claim EXCEPT ![Key(c)] = c]
        /\ UNCHANGED <<active, screen, sent, prior, todo, snapshot, result, stored, history>>
    BY <1>1 DEF Acquire, Goto, work
  <2>2. /\ prior' \in [Calls -> Context \cup {None}] /\ todo' \in [Calls -> SUBSET Intents]
        /\ holders' \subseteq Calls /\ claim' \in [Keys -> Calls \cup {None}]
    BY <1>0, <2>1 DEF TypeOK
  <2>3. "claimed" \in Running \cup Ended /\ "claimed" \notin Concluded
    BY DEF Running, Concluded
  <2>. QED BY <2>1, <2>2, <2>3, MoveEffect
<1>2. CASE Busy(c) \/ Consult(c)
  <2>1. PICK l \in {"claimed", "classifying"} : pc' = [pc EXCEPT ![c] = l]
    BY <1>2 DEF Busy, Consult, Goto
  <2>2. /\ pc[c] # "idle"
        /\ UNCHANGED <<active, screen, sent, prior, todo, snapshot, result, holders, claim, stored,
                       history>>
    BY <1>2 DEF Busy, Consult, work
  <2>3. /\ prior' \in [Calls -> Context \cup {None}] /\ todo' \in [Calls -> SUBSET Intents]
        /\ holders' \subseteq Calls /\ claim' \in [Keys -> Calls \cup {None}]
    BY <1>0, <2>2 DEF TypeOK
  <2>4. l \in Running \cup Ended /\ l \notin Concluded
    BY DEF Running, Concluded
  <2>. QED BY <2>1, <2>2, <2>3, <2>4, MoveEffect
<1>3. CASE Completed(c)
  <2>1. PICK ctx \in Contexts(c) :
          /\ prior' = [prior EXCEPT ![c] = ctx]
          /\ result' = [result EXCEPT ![c] = Replay(stored[Key(c)].answer, sent[c].region, ctx)]
    BY <1>3 DEF Completed
  <2>2. /\ pc[c] # "idle" /\ stored[Key(c)] # None /\ pc' = [pc EXCEPT ![c] = "replayed"]
        /\ UNCHANGED <<active, screen, sent, todo, snapshot, holders, claim, stored, history>>
    BY <1>3 DEF Completed, Goto
  <2> DEFINE a == stored[Key(c)].answer
             r == Replay(a, sent[c].region, ctx)
  <2>3. /\ a \in Answer /\ sent[c].region \in Regions \cup {None} /\ ctx \in Context \cup {None}
        /\ RestsOn(a, since[Key(c)])
    BY <1>0, <2>2 DEF TypeOK, Outcome, Call, Contexts, Inv, Rests
  <2>4. r \in Outcome /\ Coherent(r) /\ r.answer = a
    BY <2>3, ReplaySound
  <2>. HIDE DEF a, r
  <2>5. result' = [result EXCEPT ![c] = r]
    BY <2>1 DEF a, r
  <2>6. TypeOK'
    BY <1>0, <2>1, <2>2, <2>3, <2>4, <2>5 DEF TypeOK, screen, history, Ended
  <2>7. /\ result'[c] = r /\ \A d \in Calls \ {c} : snapshot'[d] = snapshot[d] /\ result'[d] = result[d]
        /\ RestsOn(r.answer, since[Key(c)])
    BY <1>0, <2>2, <2>3, <2>4, <2>5 DEF TypeOK
  <2>8. /\ snapshot'[c] \subseteq since[Key(c)]
        /\ \A k \in Keys : stored'[k] # None => k \in used /\ RestsOn(stored'[k].answer, since[k])
    BY <2>2 DEF Inv, Rests
  <2>9. "replayed" \in Running \cup Ended
    BY DEF Ended
  <2>. QED BY <2>2, <2>4, <2>6, <2>7, <2>8, <2>9, ServerEffect
<1>4. CASE Refuse(c)
  <2> DEFINE r == Fallback(None)
  <2>1. r \in Outcome /\ Coherent(r) /\ RestsOn(r.answer, since[Key(c)])
    BY DEF Fallback, Reply, Outcome, Answer, Statuses, Coherent, RestsOn
  <2>. HIDE DEF r
  <2>2. /\ pc[c] # "idle" /\ pc' = [pc EXCEPT ![c] = "computed"]
        /\ result' = [result EXCEPT ![c] = r]
        /\ UNCHANGED <<active, screen, sent, prior, todo, snapshot, holders, claim, stored, history>>
    BY <1>4 DEF Refuse, Goto, r
  <2>3. TypeOK'
    BY <1>0, <2>1, <2>2 DEF TypeOK, screen, history, Running
  <2>4. result'[c] = r /\ \A d \in Calls \ {c} : snapshot'[d] = snapshot[d] /\ result'[d] = result[d]
    BY <1>0, <2>2 DEF TypeOK
  <2>5. /\ snapshot'[c] \subseteq since[Key(c)]
        /\ \A k \in Keys : stored'[k] # None => k \in used /\ RestsOn(stored'[k].answer, since[k])
    BY <2>2 DEF Inv, Rests
  <2>6. "computed" \in Running \cup Ended
    BY DEF Running
  <2>. QED BY <2>1, <2>2, <2>3, <2>4, <2>5, <2>6, ServerEffect
<1>5. CASE Read(c)
  <2>1. PICK ctx \in Contexts(c) :
          /\ prior' = [prior EXCEPT ![c] = ctx]
          /\ todo' = [todo EXCEPT ![c] = Scope(sent[c].question, sent[c].region, ctx)]
    BY <1>5 DEF Read
  <2>2. /\ pc[c] # "idle" /\ pc' = [pc EXCEPT ![c] = "loading"]
        /\ UNCHANGED <<active, screen, sent, snapshot, result, holders, claim, stored, history>>
    BY <1>5 DEF Read, Goto
  <2>3. /\ sent[c].question \in Questions /\ sent[c].region \in Regions \cup {None}
        /\ ctx \in Context \cup {None}
    BY <1>0, <2>2 DEF Call, Contexts
  <2>4. Scope(sent[c].question, sent[c].region, ctx) \subseteq Intents
    BY <2>3, ScopeType
  <2>5. /\ prior' \in [Calls -> Context \cup {None}] /\ todo' \in [Calls -> SUBSET Intents]
        /\ holders' \subseteq Calls /\ claim' \in [Keys -> Calls \cup {None}]
    BY <1>0, <2>1, <2>2, <2>3, <2>4 DEF TypeOK
  <2>6. "loading" \in Running \cup Ended /\ "loading" \notin Concluded
    BY DEF Running, Concluded
  <2>. QED BY <2>2, <2>5, <2>6, MoveEffect
<1>6. CASE Choose(c) \/ Classify(c)
  BY <1>6, ChooseEffect
<1>7. ASSUME NEW i \in Intents, Load(c, i) PROVE Inv'
  <2>1. /\ pc[c] = "loading" /\ todo' = [todo EXCEPT ![c] = @ \ {i}]
        /\ snapshot' = [snapshot EXCEPT ![c] = @ \cup About(i, active)]
        /\ UNCHANGED <<active, screen, pc, sent, prior, result, holders, claim, stored, history>>
    BY <1>7 DEF Load
  <2>2. pc' = [pc EXCEPT ![c] = "loading"]
    BY <1>0, <2>1 DEF TypeOK
  <2>3. About(i, active) \subseteq active
    BY DEF About
  <2>4. TypeOK'
    BY <1>0, <2>1, <2>3 DEF TypeOK, screen, history
  <2>5. Key(c) \in used
    BY <2>1 DEF Inv, Called
  <2>6. snapshot'[c] \subseteq since[Key(c)]
    BY <1>0, <2>1, <2>3, <2>5 DEF TypeOK, Inv, Rests
  <2>7. \A d \in Calls \ {c} : snapshot'[d] = snapshot[d] /\ result'[d] = result[d]
    BY <1>0, <2>1 DEF TypeOK
  <2>8. \A k \in Keys : stored'[k] # None => k \in used /\ RestsOn(stored'[k].answer, since[k])
    BY <2>1 DEF Inv, Rests
  <2>9. "loading" \in Running \cup Ended /\ "loading" \notin Concluded /\ pc[c] # "idle"
    BY <2>1 DEF Running, Concluded
  <2>. QED BY <2>1, <2>2, <2>4, <2>6, <2>7, <2>8, <2>9, ServerEffect
<1>8. CASE Store(c)
  <2>1. /\ pc[c] = "computed" /\ stored' = [stored EXCEPT ![Key(c)] = result[c]]
        /\ pc' = [pc EXCEPT ![c] = "answered"]
        /\ UNCHANGED <<active, screen, sent, prior, todo, snapshot, result, holders, claim, history>>
    BY <1>8 DEF Store, Goto, work
  <2>2. /\ result[c] \in Outcome /\ Coherent(result[c]) /\ Key(c) \in used
        /\ RestsOn(result[c].answer, since[Key(c)]) /\ snapshot[c] \subseteq since[Key(c)]
    BY <2>1 DEF Inv, Called, Rests, Concluded
  <2>3. TypeOK'
    BY <1>0, <2>1, <2>2 DEF TypeOK, screen, history, Ended
  <2>4. \A k \in Keys : stored'[k] # None => k \in used /\ RestsOn(stored'[k].answer, since[k])
    BY <1>0, <2>1, <2>2 DEF TypeOK, Inv, Rests
  <2>5. "answered" \in Running \cup Ended /\ pc[c] # "idle"
    BY <2>1 DEF Ended
  <2>. QED BY <2>1, <2>2, <2>3, <2>4, <2>5, ServerEffect
<1>9. CASE Overtaken(c) \/ AnswerOnly(c) \/ Fail(c)
  <2>1. PICK l \in {"answered", "unavailable"} :
          pc' = [pc EXCEPT ![c] = l] /\ (l = "answered" => pc[c] = "computed")
    BY <1>9 DEF Overtaken, AnswerOnly, Fail, Goto
  <2>2. /\ pc[c] \in Running
        /\ claim' \in {claim, [k \in Keys |-> IF claim[k] = c THEN None ELSE claim[k]]}
        /\ UNCHANGED <<active, screen, sent, prior, todo, snapshot, result, holders, stored, history>>
    BY <1>9 DEF Overtaken, AnswerOnly, Fail, work, Running
  <2>3. /\ prior' \in [Calls -> Context \cup {None}] /\ todo' \in [Calls -> SUBSET Intents]
        /\ holders' \subseteq Calls /\ claim' \in [Keys -> Calls \cup {None}]
    BY <1>0, <2>2 DEF TypeOK
  <2>4. l \in Running \cup Ended /\ (l \in Concluded => pc[c] \in Concluded) /\ pc[c] # "idle"
    BY <1>a, <2>1, <2>2 DEF Ended, Concluded
  <2>. QED BY <2>1, <2>2, <2>3, <2>4, MoveEffect
<1>. QED
  BY <1>1, <1>2, <1>3, <1>4, <1>5, <1>6, <1>7, <1>8, <1>9 DEF Server

(* Every step keeps the invariant. *)
LEMMA NextInv == Inv /\ [Next]_vars => Inv'
<1>. SUFFICES ASSUME Inv, [Next]_vars PROVE Inv'
  OBVIOUS
<1>0. TypeOK
  BY DEF Inv
<1>1. CASE NewConversation
  BY <1>1, NewConversationEffect
<1>2. ASSUME NEW t \in Topics, Change(t) PROVE Inv'
  BY <1>2, ChangeEffect
<1>3. ASSUME NEW r \in Regions, SelectRegion(r) PROVE Inv'
  BY <1>3, SelectRegionEffect
<1>4. ASSUME NEW k \in Keys, Lapse(k) PROVE Inv'
  <2>1. /\ claim' = [claim EXCEPT ![k] = None]
        /\ UNCHANGED <<active, shown, token, region, open, draft, pc, sent, prior, todo, snapshot,
                       result, holders, stored, used, here, since, changes>>
    BY <1>4 DEF Lapse, screen, work, history
  <2>2. TypeOK'
    BY <1>0, <2>1 DEF TypeOK
  <2>3. Called' /\ Turns' /\ Matches' /\ Rests'
    BY <2>1 DEF Inv, Called, Turns, Matches, Last, Rests, GroundedWhileAsked,
                OneAnswerPerQuestion, Key
  <2>. QED BY <2>2, <2>3 DEF Inv
<1>5. ASSUME NEW c \in Calls, NEW k \in Keys, NEW q \in Questions, Ask(c, k, q) PROVE Inv'
  <2>1. region \in Regions \cup {None} /\ AskAbout(c, k, q, region) /\ region' = region
    BY <1>0, <1>5 DEF Ask, TypeOK
  <2>. QED BY <2>1, AskEffect
<1>6. ASSUME NEW c \in Calls, NEW k \in Keys, NEW r \in Regions,
             PickRegion(c, k, r) \/ \E i \in DOMAIN shown : ChangeRegion(c, k, i, r)
      PROVE  Inv'
  <2>1. PICK i \in DOMAIN shown : AskAbout(c, k, shown[i].question, r)
    BY <1>0, <1>6 DEF PickRegion, ChangeRegion, TypeOK
  <2>2. shown[i].question \in Questions
    <3>1. shown \in Seq(Message)
      BY <1>0 DEF TypeOK
    <3>2. shown[i] \in Message
      BY <3>1, ElementOfSeq
    <3>. QED BY <3>2 DEF Message
  <2>3. region' = r
    BY <1>6 DEF PickRegion, ChangeRegion
  <2>. QED BY <2>1, <2>2, <2>3, AskEffect
<1>7. ASSUME NEW c \in Calls, Retry(c) PROVE Inv'
  BY <1>7, RetryEffect
<1>8. ASSUME NEW c \in Calls, Hear(c) PROVE Inv'
  BY <1>8, HearEffect
<1>9. ASSUME NEW c \in Calls, Lose(c) PROVE Inv'
  BY <1>9, LoseEffect
<1>10. ASSUME NEW c \in Calls, Server(c) PROVE Inv'
  BY <1>10, ServerStep
<1>11. CASE UNCHANGED vars
  <2>1. UNCHANGED <<active, shown, token, region, open, draft, pc, sent, prior, todo, snapshot,
                    result, holders, claim, stored, used, here, since, changes>>
    BY <1>11 DEF vars, screen, server, work, history
  <2>2. TypeOK'
    BY <1>0, <2>1 DEF TypeOK
  <2>3. Called' /\ Turns' /\ Matches' /\ Rests'
    BY <2>1 DEF Inv, Called, Turns, Matches, Last, Rests, GroundedWhileAsked,
                OneAnswerPerQuestion, Key
  <2>. QED BY <2>2, <2>3 DEF Inv
<1>. QED
  BY <1>1, <1>2, <1>3, <1>4, <1>5, <1>6, <1>7, <1>8, <1>9, <1>10, <1>11 DEF Next, Screen

(* The invariant holds throughout. *)
LEMMA Invariant == Spec => []Inv
  BY InitInv, NextInv, PTL DEF Spec

(* Every variable keeps its type, for any knowledge, questions and calls.  *)
THEOREM TypeCorrect == Spec => []TypeOK
<1>1. Inv => TypeOK
  BY DEF Inv
<1>. QED BY <1>1, Invariant, PTL

(* No answer on the screen rests on a record that was not active while its *)
(* question was being asked, whatever the classifier answers.              *)
THEOREM AnswersAreGrounded == Spec => []GroundedWhileAsked
<1>1. Inv => GroundedWhileAsked
  BY DEF Inv, Rests
<1>. QED BY <1>1, Invariant, PTL

(* The next question is sent with the context of the last message, and     *)
(* nothing of an earlier conversation returns.                             *)
THEOREM ContextFollowsScreen == Spec => []ContextIsScreen
<1>1. Inv => ContextIsScreen
  BY DEF Inv, Matches, Turns, ContextIsScreen
<1>. QED BY <1>1, Invariant, PTL

(* However often a question is retried, it is answered once on the screen. *)
THEOREM AnsweredOnce == Spec => []OneAnswerPerQuestion
<1>1. Inv => OneAnswerPerQuestion
  BY DEF Inv, Turns
<1>. QED BY <1>1, Invariant, PTL
-----------------------------------------------------------------------------
(***************************************************************************)
(* The promise to callers.  The call that holds the key of a stored answer *)
(* has been answered, so nobody stores under that key again, and what a    *)
(* call was given under its key is the answer stored for it.               *)
(***************************************************************************)
Given(c) == pc[c] = "replayed" \/ (pc[c] = "answered" /\ c \in holders)

Kept ==
  /\ \A k \in Keys : stored[k] # None =>
       claim[k] \in holders /\ pc[claim[k]] = "answered" /\ sent[claim[k]].key = k
  /\ \A c \in Calls : Given(c) =>
       stored[Key(c)] # None /\ result[c].answer = stored[Key(c)].answer

Answering == {"answered", "replayed"}

(* A step that gives no answer under a key leaves the stored answers, and  *)
(* what was given of them, as they are.                                    *)
LEMMA NothingGiven ==
  ASSUME Inv, Kept, stored' = stored, holders \subseteq holders',
         \A k \in Keys : stored[k] # None => claim'[k] = claim[k],
         \A c \in Calls : pc[c] \in Answering =>
           pc'[c] = pc[c] /\ sent'[c] = sent[c] /\ result'[c] = result[c],
         \A c \in Calls : Given(c)' => Given(c)
  PROVE  Kept' /\ StoredBy' = StoredBy /\ Received' = Received
<1>1. \A c \in Calls : pc[c] # "idle" => Key(c) \in Keys
  BY DEF Inv, Called, Call, Key
<1>2. holders \subseteq Calls
  BY DEF Inv, TypeOK
<1>3. \A c \in Calls : Given(c) => pc[c] \in Answering /\ pc'[c] = pc[c] /\ Given(c)'
                                   /\ Key(c)' = Key(c) /\ result'[c] = result[c]
  BY DEF Given, Answering, Key
<1>4. Kept'
  <2>1. ASSUME NEW k \in Keys, stored'[k] # None
        PROVE  /\ claim'[k] \in holders' /\ pc'[claim'[k]] = "answered"
               /\ sent'[claim'[k]].key = k
    <3>1. /\ claim'[k] = claim[k] /\ claim[k] \in Calls /\ claim[k] \in holders
          /\ pc[claim[k]] = "answered" /\ sent[claim[k]].key = k
      BY <1>2, <2>1 DEF Kept
    <3>2. Given(claim[k])
      BY <3>1 DEF Given
    <3>. QED BY <1>3, <3>1, <3>2 DEF Key
  <2>2. ASSUME NEW c \in Calls, Given(c)'
        PROVE  stored'[Key(c)'] # None /\ result'[c].answer = stored'[Key(c)'].answer
    BY <1>3, <2>2 DEF Kept
  <2>. QED BY <2>1, <2>2 DEF Kept, Key
<1>5. StoredBy' = StoredBy
  BY DEF StoredBy
<1>6. ASSUME NEW c \in Calls
      PROVE  (IF pc'[c] = "answered" /\ c \in holders' THEN c
              ELSE IF pc'[c] = "replayed" THEN StoredBy'[Key(c)'] ELSE None)
             = (IF pc[c] = "answered" /\ c \in holders THEN c
                ELSE IF pc[c] = "replayed" THEN StoredBy[Key(c)] ELSE None)
  BY <1>3, <1>5, Zenon DEF Given
<1>7. Received' = Received
  BY <1>6 DEF Received, Key
<1>. QED BY <1>4, <1>5, <1>7

(* The first answer to be stored under a key. *)
LEMMA StoresOnce ==
  ASSUME Inv, Kept, NEW c \in Calls, Store(c)
  PROVE  Kept' /\ OnceOnly!Next
<1> DEFINE k == Key(c)
<1>1. /\ pc[c] = "computed" /\ c \in holders /\ claim[k] = c /\ k \in Keys
      /\ stored' = [stored EXCEPT ![k] = result[c]]
      /\ pc' = [pc EXCEPT ![c] = "answered"]
      /\ UNCHANGED <<sent, result, holders, claim>>
      /\ result[c] \in Outcome
  BY DEF Store, Goto, work, Inv, Called, Call, Key, Concluded
<1>2. /\ holders \subseteq Calls /\ pc \in [Calls -> {"idle"} \cup Running \cup Ended]
      /\ stored \in [Keys -> Outcome \cup {None}] /\ None \notin Calls
      /\ claim \in [Keys -> Calls \cup {None}] /\ None \notin Outcome
  BY ConversationAssumption, NoneAssumption DEF Inv, TypeOK
<1>3. stored[k] = None
  BY <1>1 DEF Kept
<1>4. \A d \in Calls : d # c => pc'[d] = pc[d]
  BY <1>1, <1>2
<1>5. \A d \in Calls : Key(d)' = Key(d)
  BY <1>1 DEF Key
<1>6. pc'[c] = "answered" /\ stored'[k] = result[c]
      /\ \A j \in Keys : j # k => stored'[j] = stored[j]
  BY <1>1, <1>2
<1>. HIDE DEF k
<1>7. Kept'
  <2>1. ASSUME NEW j \in Keys, stored'[j] # None
        PROVE  /\ claim'[j] \in holders' /\ pc'[claim'[j]] = "answered"
               /\ sent'[claim'[j]].key = j
    <3>1. CASE j = k
      BY <1>1, <1>6, <3>1 DEF k, Key
    <3>2. CASE j # k
      <4>1. /\ claim[j] \in holders /\ pc[claim[j]] = "answered" /\ sent[claim[j]].key = j
        BY <1>6, <2>1, <3>2 DEF Kept
      <4>2. claim[j] # c /\ claim[j] \in Calls
        BY <1>1, <1>2, <4>1
      <4>. QED BY <1>1, <1>4, <1>5, <4>1, <4>2
    <3>. QED BY <3>1, <3>2
  <2>2. ASSUME NEW d \in Calls, Given(d)'
        PROVE  stored'[Key(d)'] # None /\ result'[d].answer = stored'[Key(d)'].answer
    <3>1. CASE d = c
      BY <1>1, <1>2, <1>5, <1>6, <3>1 DEF k
    <3>2. CASE d # c
      <4>1. Given(d)
        BY <1>1, <1>4, <2>2, <3>2 DEF Given
      <4>2. stored[Key(d)] # None /\ result[d].answer = stored[Key(d)].answer
        BY <4>1 DEF Kept
      <4>3. Key(d) \in Keys
        BY <4>1 DEF Given, Inv, Called, Call, Key
      <4>. QED BY <1>1, <1>3, <1>5, <1>6, <4>2, <4>3
    <3>. QED BY <3>1, <3>2
  <2>. QED BY <2>1, <2>2 DEF Kept, Key
<1>8. StoredBy' = [StoredBy EXCEPT ![k] = c]
  BY <1>1, <1>2, <1>3, <1>6 DEF StoredBy
<1>9. StoredBy[k] = None /\ StoredBy \in [Keys -> Calls \cup {None}]
  BY <1>1, <1>2, <1>3 DEF StoredBy
<1>10. \A j \in Keys : StoredBy[j] # c
  <2>1. ASSUME NEW j \in Keys, StoredBy[j] = c PROVE FALSE
    <3>1. stored[j] # None /\ claim[j] = c
      BY <1>2, <2>1 DEF StoredBy
    <3>. QED BY <1>1, <3>1 DEF Kept
  <2>. QED BY <2>1
<1>11. {d \in Calls : \E j \in Keys : StoredBy'[j] = d}
         = {d \in Calls : \E j \in Keys : StoredBy[j] = d} \cup {c}
  BY <1>1, <1>2, <1>8, <1>9
<1>12. Received[c] = None /\ Received \in [Calls -> Calls \cup {None}]
  <2>1. ASSUME NEW d \in Calls PROVE pc[d] = "replayed" => StoredBy[Key(d)] \in Calls \cup {None}
    BY <1>9, <2>1 DEF Inv, Called, Call, Key
  <2>. QED BY <1>1, <2>1 DEF Received
<1>13. Received' = [Received EXCEPT ![c] = c]
  <2>1. ASSUME NEW d \in Calls, d # c
        PROVE  pc[d] = "replayed" => StoredBy'[Key(d)] = StoredBy[Key(d)]
    <3>1. ASSUME pc[d] = "replayed" PROVE Key(d) \in Keys /\ Key(d) # k
      BY <1>3, <3>1 DEF Kept, Given, Inv, Called, Call, Key
    <3>. QED BY <1>8, <1>9, <3>1
  <2>2. ASSUME NEW d \in Calls
        PROVE  (IF pc'[d] = "answered" /\ d \in holders' THEN d
                ELSE IF pc'[d] = "replayed" THEN StoredBy'[Key(d)'] ELSE None)
               = [Received EXCEPT ![c] = c][d]
    <3>1. CASE d = c
      BY <1>1, <1>6, <1>12, <3>1
    <3>2. CASE d # c
      <4>1. Received[d] = IF pc[d] = "answered" /\ d \in holders THEN d
                          ELSE IF pc[d] = "replayed" THEN StoredBy[Key(d)] ELSE None
        BY DEF Received
      <4>. QED BY <1>1, <1>4, <1>5, <1>12, <2>1, <3>2, <4>1
    <3>. QED BY <3>1, <3>2
  <2>. QED BY <1>12, <2>2 DEF Received, Key
<1>14. k \in Keys
  BY <1>1
<1>15. \E j \in Keys : OnceOnly!Store(c, j)
  BY <1>3, <1>8, <1>9, <1>10, <1>11, <1>12, <1>13, <1>14 DEF OnceOnly!Store
<1>16. OnceOnly!Next
  BY <1>15 DEF OnceOnly!Next
<1>. QED BY <1>7, <1>16

(* A retry gets the stored answer. *)
LEMMA ReplaysStored ==
  ASSUME Inv, Kept, NEW c \in Calls, Completed(c)
  PROVE  Kept' /\ OnceOnly!Next
<1> DEFINE k == Key(c)
<1>1. PICK ctx \in Contexts(c) :
        result' = [result EXCEPT ![c] = Replay(stored[k].answer, sent[c].region, ctx)]
  BY DEF Completed
<1>2. /\ pc[c] = "sent" /\ stored[k] # None /\ k \in Keys /\ sent[c] \in Call
      /\ pc' = [pc EXCEPT ![c] = "replayed"]
      /\ UNCHANGED <<sent, holders, claim, stored>>
  BY DEF Completed, Goto, Inv, Called, Call, Key
<1>3. /\ pc \in [Calls -> {"idle"} \cup Running \cup Ended] /\ None \notin Calls
      /\ stored \in [Keys -> Outcome \cup {None}] /\ holders \subseteq Calls
      /\ result \in [Calls -> Outcome \cup {None}]
  BY ConversationAssumption DEF Inv, TypeOK
<1>4. result'[c].answer = stored[k].answer
  <2>1. /\ stored[k].answer \in Answer /\ sent[c].region \in Regions \cup {None}
        /\ ctx \in Context \cup {None}
    BY <1>2, <1>3 DEF Outcome, Call, Contexts
  <2>2. Replay(stored[k].answer, sent[c].region, ctx).answer = stored[k].answer
    BY <2>1, ReplaySound
  <2>. QED BY <1>1, <1>3, <2>2
<1>5. \A d \in Calls : d # c => pc'[d] = pc[d] /\ result'[d] = result[d]
  BY <1>1, <1>2, <1>3
<1>6. pc'[c] = "replayed" /\ \A d \in Calls : Key(d)' = Key(d)
  BY <1>2, <1>3 DEF Key
<1>. HIDE DEF k
<1>7. Kept'
  <2>1. ASSUME NEW j \in Keys, stored'[j] # None
        PROVE  /\ claim'[j] \in holders' /\ pc'[claim'[j]] = "answered"
               /\ sent'[claim'[j]].key = j
    <3>1. /\ claim[j] \in holders /\ pc[claim[j]] = "answered" /\ sent[claim[j]].key = j
      BY <1>2, <2>1 DEF Kept
    <3>2. claim[j] # c /\ claim[j] \in Calls
      BY <1>2, <1>3, <3>1
    <3>. QED BY <1>2, <1>5, <1>6, <3>1, <3>2
  <2>2. ASSUME NEW d \in Calls, Given(d)'
        PROVE  stored'[Key(d)'] # None /\ result'[d].answer = stored'[Key(d)'].answer
    <3>1. CASE d = c
      BY <1>2, <1>4, <1>6, <3>1 DEF k
    <3>2. CASE d # c
      BY <1>2, <1>5, <1>6, <2>2, <3>2 DEF Kept, Given
    <3>. QED BY <3>1, <3>2
  <2>. QED BY <2>1, <2>2 DEF Kept, Key
<1>8. StoredBy' = StoredBy /\ StoredBy[k] = claim[k] /\ claim[k] \in Calls
  BY <1>2, <1>3 DEF StoredBy, Kept
<1>9. Received[c] = None
  BY <1>2 DEF Received
<1>10. Received' = [Received EXCEPT ![c] = StoredBy[k]]
  <2>1. ASSUME NEW d \in Calls
        PROVE  (IF pc'[d] = "answered" /\ d \in holders' THEN d
                ELSE IF pc'[d] = "replayed" THEN StoredBy'[Key(d)'] ELSE None)
               = [Received EXCEPT ![c] = StoredBy[k]][d]
    <3>1. DOMAIN Received = Calls
      BY DEF Received
    <3>2. CASE d = c
      BY <1>6, <1>8, <3>1, <3>2 DEF k
    <3>3. CASE d # c
      <4>1. Received[d] = IF pc[d] = "answered" /\ d \in holders THEN d
                          ELSE IF pc[d] = "replayed" THEN StoredBy[Key(d)] ELSE None
        BY DEF Received
      <4>. QED BY <1>2, <1>5, <1>6, <1>8, <3>1, <3>3, <4>1
    <3>. QED BY <3>2, <3>3
  <2>. QED BY <2>1 DEF Received, Key
<1>11. OnceOnly!Replay(c, k)
  BY <1>3, <1>8, <1>9, <1>10 DEF OnceOnly!Replay
<1>. QED BY <1>2, <1>7, <1>11 DEF OnceOnly!Next

(* Every step of a conversation stores the first answer to a key, replays  *)
(* a stored one or does nothing that a caller could tell.                  *)
LEMMA StepIsOnceOnly ==
  Inv /\ Kept /\ [Next]_vars => Kept' /\ [OnceOnly!Next]_(OnceOnly!vars)
<1>. SUFFICES ASSUME Inv, Kept, [Next]_vars
              PROVE  Kept' /\ [OnceOnly!Next]_(OnceOnly!vars)
  OBVIOUS
<1> DEFINE Same == Kept' /\ StoredBy' = StoredBy /\ Received' = Received
<1>0. /\ pc \in [Calls -> {"idle"} \cup Running \cup Ended]
      /\ claim \in [Keys -> Calls \cup {None}] /\ holders \subseteq Calls
      /\ sent \in [Calls -> Call \cup {None}] /\ result \in [Calls -> Outcome \cup {None}]
  BY DEF Inv, TypeOK
<1>1. ASSUME UNCHANGED server PROVE Same
  <2>1. UNCHANGED <<pc, sent, result, holders, claim, stored>>
    BY <1>1 DEF server, work
  <2>. QED BY <2>1, NothingGiven DEF Given
<1>2. ASSUME NEW k \in Keys, Lapse(k) PROVE Same
  <2>1. /\ stored[k] = None /\ claim' = [claim EXCEPT ![k] = None]
        /\ UNCHANGED <<pc, sent, result, holders, stored>>
    BY <1>2 DEF Lapse, work
  <2>. QED BY <1>0, <2>1, NothingGiven DEF Given
<1>3. ASSUME NEW c \in Calls, NEW call, Send(c, call) PROVE Same
  <2>1. /\ pc[c] = "idle" /\ pc' = [pc EXCEPT ![c] = "sent"]
        /\ sent' = [sent EXCEPT ![c] = call]
        /\ UNCHANGED <<result, holders, claim, stored>>
    BY <1>3 DEF Send, work
  <2>2. \A d \in Calls : d # c => pc'[d] = pc[d] /\ sent'[d] = sent[d]
    BY <1>0, <2>1
  <2>3. pc'[c] = "sent"
    BY <1>0, <2>1
  <2>. QED BY <2>1, <2>2, <2>3, NothingGiven DEF Given, Answering
<1>4. ASSUME NEW c \in Calls, NEW l, pc' = [pc EXCEPT ![c] = l], pc[c] \notin Answering,
             l # "replayed", l = "answered" => c \notin holders,
             UNCHANGED <<sent, stored>>, holders' = holders \/ l # "answered",
             holders \subseteq holders' /\ holders' \subseteq holders \cup {c},
             \A d \in Calls : d # c => result'[d] = result[d],
             \A k \in Keys : stored[k] # None => claim'[k] = claim[k]
      PROVE  Same
  <2>1. \A d \in Calls : d # c => pc'[d] = pc[d]
    BY <1>0, <1>4
  <2>2. pc'[c] = l
    BY <1>0, <1>4
  <2>3. \A d \in Calls : Given(d)' => Given(d)
    BY <1>4, <2>1, <2>2 DEF Given
  <2>4. \A d \in Calls : pc[d] \in Answering =>
          pc'[d] = pc[d] /\ sent'[d] = sent[d] /\ result'[d] = result[d]
    BY <1>4, <2>1
  <2>. QED BY <1>4, <2>3, <2>4, NothingGiven
<1>5. ASSUME NEW c \in Calls, Acquire(c) PROVE Same
  <2>1. /\ pc[c] = "sent" /\ stored[Key(c)] = None /\ pc' = [pc EXCEPT ![c] = "claimed"]
        /\ holders' = holders \cup {c} /\ claim' = [claim EXCEPT ![Key(c)] = c]
        /\ UNCHANGED <<sent, result, stored>>
    BY <1>5 DEF Acquire, Goto, work
  <2>2. \A k \in Keys : stored[k] # None => claim'[k] = claim[k]
    BY <1>0, <2>1
  <2>. QED BY <1>4, <2>1, <2>2 DEF Answering
<1>6. ASSUME NEW c \in Calls,
             \/ Busy(c) \/ Consult(c) \/ Refuse(c) \/ Read(c) \/ Choose(c) \/ Classify(c)
             \/ \E i \in Intents : Load(c, i)
             \/ Overtaken(c) \/ AnswerOnly(c)
      PROVE  Same
  <2>1. UNCHANGED <<sent, holders, claim, stored>>
    BY <1>6 DEF Busy, Consult, Refuse, Read, Choose, Classify, Decide, Load, Overtaken,
                AnswerOnly, work
  <2>2. \A d \in Calls : d # c => result'[d] = result[d]
    BY <1>0, <1>6 DEF Busy, Consult, Refuse, Read, Choose, Classify, Decide, Load, Overtaken,
                      AnswerOnly, work
  <2>3. pc[c] \notin Answering
    BY <1>6 DEF Busy, Consult, Refuse, Read, Choose, Classify, Load, Overtaken, AnswerOnly,
                Answering
  <2>4. PICK l \in {"claimed", "classifying", "computed", "loading", "unavailable", "answered"} :
          pc' = [pc EXCEPT ![c] = l] /\ (l = "answered" => c \notin holders)
    <3>1. CASE \E i \in Intents : Load(c, i)
      <4>1. pc' = pc /\ pc[c] = "loading"
        BY <3>1 DEF Load
      <4>. QED BY <1>0, <4>1
    <3>2. CASE Busy(c) \/ Consult(c) \/ Refuse(c) \/ Read(c) \/ Choose(c) \/ Classify(c)
               \/ Overtaken(c) \/ AnswerOnly(c)
      BY <3>2 DEF Busy, Consult, Refuse, Read, Choose, Classify, Decide, Goto, Overtaken,
                  AnswerOnly
    <3>. QED BY <1>6, <3>1, <3>2
  <2>. QED BY <1>4, <2>1, <2>2, <2>3, <2>4
<1>7. ASSUME NEW c \in Calls, Fail(c) PROVE Same
  <2>1. /\ pc[c] \in Running /\ pc' = [pc EXCEPT ![c] = "unavailable"]
        /\ claim' \in {claim, [k \in Keys |-> IF claim[k] = c THEN None ELSE claim[k]]}
        /\ UNCHANGED <<sent, result, holders, stored>>
    BY <1>7 DEF Fail, Goto, work
  <2>2. pc[c] \notin Answering
    BY <2>1 DEF Running, Answering
  <2>3. \A k \in Keys : stored[k] # None => claim'[k] = claim[k]
    BY <2>1, <2>2 DEF Kept, Answering
  <2>. QED BY <1>4, <2>1, <2>2, <2>3
<1>8. CASE Same
  <2>1. UNCHANGED OnceOnly!vars
    BY <1>8 DEF OnceOnly!vars
  <2>. QED BY <1>8, <2>1
<1>. HIDE DEF Same
<1>9. CASE NewConversation
  BY <1>1, <1>8, <1>9 DEF NewConversation
<1>10. CASE \E t \in Topics : Change(t)
  BY <1>1, <1>8, <1>10 DEF Change
<1>11. CASE \E r \in Regions : SelectRegion(r)
  BY <1>1, <1>8, <1>11 DEF SelectRegion
<1>12. CASE \E k \in Keys : Lapse(k)
  BY <1>2, <1>8, <1>12
<1>13. ASSUME NEW c \in Calls, Screen(c) PROVE Same
  <2>1. CASE Hear(c) \/ Lose(c)
    BY <1>1, <2>1 DEF Hear, Lose
  <2>2. CASE \E call : Send(c, call)
    BY <1>3, <2>2
  <2>3. Hear(c) \/ Lose(c) \/ \E call : Send(c, call)
    BY <1>13 DEF Screen, Ask, PickRegion, ChangeRegion, AskAbout, Retry
  <2>. QED BY <2>1, <2>2, <2>3
<1>14. ASSUME NEW c \in Calls, Server(c)
       PROVE  Kept' /\ [OnceOnly!Next]_(OnceOnly!vars)
  <2>1. CASE Store(c)
    BY <2>1, StoresOnce
  <2>2. CASE Completed(c)
    BY <2>2, ReplaysStored
  <2>. QED BY <1>5, <1>6, <1>7, <1>8, <1>14, <2>1, <2>2 DEF Server
<1>15. CASE UNCHANGED vars
  BY <1>1, <1>8, <1>15 DEF vars
<1>. QED BY <1>8, <1>9, <1>10, <1>11, <1>12, <1>13, <1>14, <1>15 DEF Next

(* Nobody has been given anything yet. *)
LEMMA InitKept == Init => Kept /\ OnceOnly!Init
<1>. SUFFICES ASSUME Init PROVE Kept /\ OnceOnly!Init
  OBVIOUS
<1>1. Kept
  BY DEF Init, Kept, Given
<1>2. StoredBy = [k \in Keys |-> None] /\ Received = [c \in Calls |-> None]
  BY DEF Init, StoredBy, Received
<1>3. {c \in Calls : \E k \in Keys : StoredBy[k] = c} = {}
  BY <1>2, ConversationAssumption
<1>. QED BY <1>1, <1>2, <1>3 DEF OnceOnly!Init

(* The conversation keeps the promise of OnceOnlyAnswer: nothing replaces  *)
(* a stored answer, each key has one, and a replay gives it,               *)
(* whatever leases lapse, replies are lost and calls overtake each other   *)
(* (ChatService._answer_idempotent).                                       *)
THEOREM ConversationIsOnceOnly == Spec => AnswersOnceOnly
<1>1. Init => Kept /\ OnceOnly!Init
  BY InitKept
<1>2. Inv /\ Kept /\ [Next]_vars => Kept' /\ [OnceOnly!Next]_(OnceOnly!vars)
  BY StepIsOnceOnly
<1>. QED BY <1>1, <1>2, Invariant, PTL DEF Spec, AnswersOnceOnly, OnceOnly!Spec

(* The answers given under one key from its stored row, the reply of the   *)
(* call that stored it and each replay, are one answer.  A call that finds *)
(* the key busy is answered from the template and may be told another one; *)
(* rows do not expire here (ChatService._answer_idempotent).               *)
THEOREM RetriesAgree ==
  Spec => [](\A c, d \in Calls :
               Given(c) /\ Given(d) /\ Key(c) = Key(d)
                 => result[c].answer = result[d].answer)
<1> DEFINE Agree == \A c, d \in Calls : Given(c) /\ Given(d) /\ Key(c) = Key(d)
                                          => result[c].answer = result[d].answer
<1>1. Kept => Agree
  BY DEF Kept
<1>2. Init => Kept
  BY InitKept
<1>3. Inv /\ Kept /\ [Next]_vars => Kept'
  BY StepIsOnceOnly
<1>. QED BY <1>1, <1>2, <1>3, Invariant, PTL DEF Spec
=============================================================================
