--------------------------- MODULE MCRetainedText ---------------------------
(* One citizen may ask any short text over an alphabet in which an address, a
   plate and numbers overlap, and questions that meet each gate of the
   redaction, each one written with hyphens and with spaces (telephone and
   resident numbers with dots, too); the other asks a plain question. *)
EXTENDS RetainedText, TLC

CONSTANTS r1, r2, a1, a2, v1

Plain(n) == Group(n, "plain", "space")
Card(n) == Group(n, "card", "space")
Four == Plain(4)
Two == Plain(2)

Plots == UNION {[1..n -> {Two, Four}] : n \in 1..3}
Overlapping ==
  {<<Word("road")>> \o x \o y : x \in Plots,
     y \in {<<>>, <<Word("unit")>>, <<Word("syllable"), Four>>}}
Resident == <<Group(6, "resident", "space"), Plain(7)>>
Mobile == <<Group(3, "mobile", "space"), Four, Four>>
Numbers == {a \o b : a \in {Resident, Mobile}, b \in {<<>>, <<Word("word")>> \o Resident, <<Four>>,
                                                     Mobile, <<Word("word")>> \o Mobile}}

\* A question per gate: the labels, tokens, names, tails and disguises.
Gates ==
  {<<Word("enquiry")>>, <<Label("phone"), Word("enquiry")>>,
   <<Word("blank"), Word("word")>>, <<Word("control"), Word("word")>>, <<Word("format")>>,
   <<Label("name"), Word("short"), Word("polite")>>, <<Word("name"), Word("word")>>,
   <<Word("short")>>, <<Word("word"), Word("unit")>>, <<Word("word"), Word("at")>>,
   <<Label("case"), Four, Two, Plain(6)>>, <<Four, Two, Plain(6)>>,
   <<Label("secret"), Word("latin")>>, <<Colon("account"), Two, Four, Word("word")>>,
   <<Label("address"), Word("road"), Two, Word("syllable"), Four>>,
   <<Word("road"), Two, Word("unit"), Word("polite"), Word("stop"), Word("unit")>>,
   <<Word("road"), Two, Word("word")>>, <<Word("self"), Word("health"), Word("polite")>>,
   <<Group(3, "mobile", "space"), Word("mark"), Four, Word("mark"), Four>>,
   <<Two, Word("mark"), Word("syllable"), Word("mark"), Four>>,
   <<Word("ext"), Two>>, <<Two, Word("combining"), Four>>,
   <<Two, Word("keycap"), Word("syllable"), Four>>,
   <<Word("word"), Word("stop"), Word("latin")>>, <<Label("phone"), Word("word"), Two>>,
   <<Token("PHONE"), Word("word")>>, <<Label("case"), Token("PHONE")>>,
   <<Card(4), Card(4), Card(4), Card(4), Two>>, <<Four, Card(4), Card(4), Card(4), Card(2)>>,
   <<Four, Four, Four>>, <<Group(4, "personal", "space"), Four, Four>>,
   <<Group(3, "messaging", "space"), Plain(5), Four>>,
   <<Word("email"), Word("word")>>, <<Word("coordinate"), Word("coordinate")>>,
   <<Label("name"), Word("bridge"), Label("phone"), Word("word")>>}

\* The same text with its groups of digits joined to one another by `sep`.
Written(t, sep) ==
  [i \in DOMAIN t |-> IF i > 1 /\ t[i].kind = "digits" /\ t[i - 1].kind = "digits"
                      THEN [t[i] EXCEPT !.sep = sep] ELSE t[i]]

MCQuestions ==
  [r \in Requests |->
     IF r = r1
     THEN {Written(t, sep) : t \in Overlapping \cup Numbers \cup Gates,
                             sep \in {"hyphen", "space"}}
          \cup {Written(t, "dot") : t \in Numbers}
     ELSE {<<Word("word")>>}]

MCSymmetry == Permutations(Approvers)
=============================================================================
