--------------------------- MODULE MCConversation ---------------------------
(* Two topics about bulky waste: a question that finds one of them, a      *)
(* context question about offices and one that is refused.                 *)
EXTENDS Conversation, TLC

CONSTANTS w1, w2, r1, r2

MCIntentOf == [t \in Topics |-> "WASTE"]
MCOffers == {<<w1, "FEE">>, <<w2, "OFFICE">>}

Scores(t) == [u \in Topics |-> IF u = t THEN 1 ELSE 0]
Open ==
  [kind |-> "OPEN", intent |-> None, detail |-> None, facet |-> None, region |-> None,
   moves |-> FALSE, explicit |-> FALSE, cancel |-> FALSE, generic |-> None,
   score |-> [u \in Topics |-> 0], exact |-> {}, anchored |-> {}, clash |-> {}, lacks |-> {}]
AboutWaste == [Open EXCEPT !.kind = "SUPPORTED", !.intent = "WASTE", !.explicit = TRUE]

Lookup == [AboutWaste EXCEPT !.score = Scores(w1), !.anchored = {w1}]
Where == [Open EXCEPT !.facet = "OFFICE"]
Personal == [Open EXCEPT !.kind = "PERSONAL_LOOKUP"]

Symmetry == Permutations(Calls) \cup Permutations(Keys) \cup Permutations(Regions)

(* What later steps and the invariants of a run can still see: not the     *)
(* locals of a call that has its result, nor the request of one no screen  *)
(* awaits, nor who held a key once that cannot matter, nor the token in a  *)
(* stored answer, which is made anew for each replay, nor, once no call is *)
(* left to read them, the region and the knowledge.                        *)
Done == Ended \cup {"computed"}
Seen(c) ==
  IF pc[c] \notin Done THEN <<sent[c], prior[c], todo[c], snapshot[c]>>
  ELSE IF c \in open THEN <<sent[c], result[c]>>
  ELSE IF pc[c] = "computed" THEN <<Key(c), result[c].answer>>
  ELSE <<>>
Holder(k) ==
  IF claim[k] = None \/ stored[k] # None THEN None
  ELSE IF pc[claim[k]] \in Ended THEN "ended" ELSE claim[k]
View ==
  <<IF \E c \in Calls : pc[c] = "idle" THEN region ELSE None,
    IF \E c \in Calls : pc[c] \in {"idle", "sent", "claimed", "loading"}
    THEN <<active, changes>> ELSE <<>>,
    shown, token, open, draft, pc, [c \in Calls |-> Seen(c)],
    {c \in holders : pc[c] \in Running}, [k \in Keys |-> Holder(k)],
    [k \in Keys |-> IF stored[k] = None THEN None ELSE stored[k].answer],
    used, here, since>>

TalkQuestions == {Lookup, Where, Personal}
ReplayQuestions == {Where}
=============================================================================
