---------------------------- MODULE PersonalData ----------------------------
(***************************************************************************)
(* What privacy/redaction.py recognises as personal data.  A text is a     *)
(* sequence of pieces: a group of digits, or a word of a kind some pattern *)
(* tells apart.  A regular expression of the source is a rule: the shapes  *)
(* of the value it masks, the label that must stand before it, what may    *)
(* follow it, and the separators it accepts inside the value.  Of numbers  *)
(* written without separators only those with none at all are modelled.    *)
(*                                                                         *)
(* A group of digits carries how it is joined to what precedes it, a       *)
(* hyphen, a dot, a space or nothing (any other separator is a piece of    *)
(* its own, a "mark"), and as its tag what its first digits tell the       *)
(* patterns of the number they begin: "mobile", "area", "service",         *)
(* "personal" (050x) and "messaging" (030) are telephone prefixes,         *)
(* "resident" a number whose seventh digit is 1 to 8, "card" one that      *)
(* passes the card check with the groups beside it, "plain" none of these. *)
(***************************************************************************)
EXTENDS Naturals, Sequences

Heads == {"plain", "mobile", "area", "service", "personal", "messaging", "resident", "card"}

Piece(kind, tag, n, sep) == [kind |-> kind, tag |-> tag, n |-> n, sep |-> sep]

Group(n, head, sep) == Piece("digits", head, n, sep)
Word(kind)          == Piece(kind, "none", 0, "none")
Label(topic)        == Piece("label", topic, 0, "none")
Colon(topic)        == Piece("label", topic, 1, "none")   \* a label with a colon
Token(cat)          == Piece("token", cat, 0, "none")

\* The order in which overlapping findings win.
Priority == <<"RESIDENT", "CARD", "ACCOUNT", "SECRET", "PASSPORT", "PHONE", "EMAIL",
              "LOCATION", "PLATE", "CASE", "ADDRESS", "NAME", "HEALTH">>

\* The fixed token each label may stand before, by the label's topic.
LabelToken ==
    [account |-> "ACCOUNT", card |-> "CARD", secret |-> "SECRET", passport |-> "PASSPORT",
     phone |-> "PHONE", case |-> "CASE", address |-> "ADDRESS", name |-> "NAME",
     health |-> "HEALTH", self |-> "none"]

-----------------------------------------------------------------------------
\* Shapes: the kinds and lengths of the pieces of a value.
ShapeOf(p) == <<p.kind, p.n>>
D(n) == <<"digits", n>>
W(kind) == <<kind, 0>>
Short(n) == {D(k) : k \in 1..n}

\* seps: what may join two groups of the value; leads: what may join a group to
\* a word before it in the value; but: shapes that some heads may not begin.
Rule(cat, after, heads, shapes, next) ==
    [cat |-> cat, after |-> after, heads |-> heads, shapes |-> shapes, next |-> next,
     seps |-> {"hyphen", "dot", "space"}, leads |-> {"none", "space"}, but |-> {}]
Number(cat, heads, shapes) == Rule(cat, {}, heads, shapes, {})
Labelled(cat, topic, shapes) == Rule(cat, {topic}, Heads, shapes, {})
Joined(seps, r) == [r EXCEPT !.seps = seps]
Led(leads, r) == [r EXCEPT !.leads = leads]

ResidentRules ==
    {Joined({"hyphen", "space"}, Number("RESIDENT", {"resident"}, {<<D(6), D(7)>>, <<D(13)>>}))}

CardRules ==
    {Number("CARD", Heads,
        {<<D(4), D(4), D(4), D(4), D(n)>> : n \in 1..3} \cup {<<D(n)>> : n \in 13..19}
        \cup {<<D(4), D(4), D(4), D(4)>>, <<D(4), D(6), D(5)>>,
              <<D(4), D(4), D(4), D(2)>>, <<D(4), D(4), D(4), D(1)>>})}

\* An unlabelled account is written with hyphens, and is no 050x or 030 number.
AccountRules ==
    {Joined({"hyphen", "space"},
        Labelled("ACCOUNT", "account", UNION {[1..k -> {D(n) : n \in 2..6}] : k \in 2..5})),
     Joined({"hyphen"},
        [Number("ACCOUNT", Heads,
            {<<D(3), D(6), D(2), D(3)>>, <<D(3), D(3), D(6)>>, <<D(6), D(2), D(6)>>,
             <<D(3), D(6), D(5)>>, <<D(4), D(4), D(4)>>, <<D(3), D(2), D(6)>>,
             <<D(4), D(2), D(6)>>, <<D(3), D(6), D(3)>>})
         EXCEPT !.but = {"personal", "messaging"} \X {<<D(4), D(4), D(4)>>}])}

SecretRules ==
    {Labelled("SECRET", "secret", {<<D(n)>> : n \in 4..12} \cup {<<W("latin")>>}),
     Rule("SECRET", {"secret"}, Heads, {<<W("name")>>, <<W("short")>>}, {"polite", "stop", "end"})}

PassportRules ==
    {Joined({"hyphen"}, Led({"none"}, Labelled("PASSPORT", "passport",
        {<<W("latin"), D(8)>>, <<D(2), D(2), D(6), D(2)>>, <<D(2), D(6), D(2)>>}))),
     Joined({"hyphen"}, Number("PASSPORT", Heads,
        {<<W("latin"), D(7)>>, <<W("latin"), D(8)>>, <<D(2), D(2), D(6), D(2)>>}))}

PhoneRules ==
    {Number("PHONE", {"mobile"},
        {<<D(3), D(n), D(4)>> : n \in {3, 4}} \cup {<<D(10)>>, <<D(11)>>}),
     Number("PHONE", {"personal"},
        {<<D(4), D(n), D(4)>> : n \in {3, 4}} \cup {<<D(11)>>, <<D(12)>>}),
     Number("PHONE", {"messaging"}, {<<D(3), D(5), D(4)>>, <<D(12)>>}),
     Number("PHONE", {"area"},
        {<<D(m), D(n), D(4)>> : m \in {2, 3}, n \in {3, 4}} \cup {<<D(n)>> : n \in 9..11}),
     Number("PHONE", {"service"}, {<<D(4), D(4)>>, <<D(8)>>}),
     Labelled("PHONE", "phone", {<<D(3)>>, <<D(4)>>})}

PlaceRules ==
    {Number("EMAIL", Heads, {<<W("email")>>}),
     Number("LOCATION", Heads, {<<W("coordinate"), W("coordinate")>>}),
     Led({"none", "space", "hyphen"},
        Number("PLATE", Heads, {<<D(n), W("syllable"), D(4)>> : n \in {2, 3}})),
     Joined({"hyphen", "space"}, Number("PLATE", Heads, {<<W("mission"), D(3), D(3)>>}))}

CaseRules ==
    {Joined({"hyphen"}, Led({"hyphen"}, Labelled("CASE", "case",
        {<<D(4), D(6)>>, <<D(4), D(2), D(6)>>, <<D(6), D(7)>>,
         <<W("latin"), D(6)>>, <<W("latin"), D(4), D(6)>>}))),
     Joined({"hyphen"}, Led({"hyphen"}, Number("CASE", Heads, {<<W("latin"), D(4), D(6)>>})))}

\* A road with its number, a second number and a unit; a village; a building.
AddressRules ==
    LET plot == {<<d>> : d \in Short(4)} \cup (Short(4) \X Short(4))
        units == {<<>>, <<W("unit")>>}
    IN  {Joined({"hyphen"}, Number("ADDRESS", Heads,
            {<<W("road")>> \o p \o u : p \in plot, u \in units}
            \cup {<<W("village")>> \o p : p \in plot}
            \cup {<<W("town"), W("building"), W("unit")>>}))}

NameRules ==
    LET name == {<<W("name")>>, <<W("short")>>}
    IN  {Rule("NAME", {"name"}, Heads, name, {"polite", "stop", "end"}),
         Rule("NAME", {"self"}, Heads, name, {"polite"})}

HealthRules ==
    {Rule("HEALTH", {}, Heads, {<<W("health")>>}, {"polite"}),
     Rule("HEALTH", {"health"}, Heads, {<<W("health")>>, <<W("word")>>},
          {"polite", "stop", "end"})}

Rules == ResidentRules \cup CardRules \cup AccountRules \cup SecretRules \cup PassportRules
         \cup PhoneRules \cup PlaceRules \cup CaseRules \cup AddressRules \cup NameRules
         \cup HealthRules

=============================================================================
