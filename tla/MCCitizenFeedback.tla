------------------------- MODULE MCCitizenFeedback -------------------------
(* Details that mask to themselves, to one common text, or not at all. *)
EXTENDS CitizenFeedback, TLC

CONSTANTS c1, c2, c3, w1, w2

MCMasked == [d \in Details |->
  IF d = "secret" THEN Unresolved ELSE IF d = "plain" THEN "plain text" ELSE "text with a mask"]
MCAltered == Details \cap {"phone A", "phone B"}
MCTexts == {"plain text", "text with a mask"}
MCSymmetry == Permutations(Calls) \cup Permutations(Responses)
=============================================================================
