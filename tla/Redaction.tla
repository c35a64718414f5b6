----------------------------- MODULE Redaction -----------------------------
(***************************************************************************)
(* privacy/redaction.py: what is stored or sent of a citizen's words.  The *)
(* text is normalized, what the rules recognise is replaced by a token of  *)
(* its category, and the result is refused ("closed", NULL here) when      *)
(* something sensitive may still be legible in it.                         *)
(*                                                                         *)
(* Kinds of pieces besides digits, labels and tokens: "word" (an ordinary  *)
(* word), "name" (one that reads as a person's full name), "short" (one    *)
(* that does in some places), "polite" (a closing such as "it is"),        *)
(* "enquiry" (a whole question that gives no value), "bridge" (words that  *)
(* join two labels), "stop" (the end of a sentence), "blank" (white space  *)
(* at an end), "mark" (an odd separator), "at" (an @ that makes no         *)
(* address), "ext" (an extension word), the values PersonalData names, and *)
(* the characters "format", "control", "combining" and "keycap".           *)
(***************************************************************************)
EXTENDS PersonalData, FiniteSets, SequencesExt

CONSTANTS MaxQuestion,  \* how many pieces a question may hold
          NULL

ASSUME MaxQuestionAssumption == MaxQuestion \in Nat

Kinds(t) == {t[i].kind : i \in DOMAIN t}

\* Zero-width characters vanish; a text that is empty, blank or long before or
\* after, and one with control or direction characters, is refused.
Normalize(raw) ==
    LET t == SelectSeq(raw, LAMBDA p : p.kind # "format")
        refused(s) == Len(s) \notin 1..MaxQuestion \/ Kinds(s) \subseteq {"blank"}
    IN  IF refused(raw) \/ refused(t) \/ "control" \in Kinds(t)
        THEN NULL
        ELSE t

-----------------------------------------------------------------------------
(***************************************************************************)
(* Findings: a category and the pieces it covers.                          *)
(***************************************************************************)
Overlaps(f, g) == f.from <= g.to /\ g.from <= f.to

\* The members of F a scan in the given order keeps: each one unless it
\* overlaps one that was kept before it.
Scan(F, before) ==
    CHOOSE S \in SUBSET F :
        \A f \in F : f \in S <=> ~ \E g \in S : <<g, f>> \in before /\ Overlaps(g, f)

\* How the groups of a value after its first piece are joined to what precedes them.
JoinedAs(r, t, i, j) ==
    \A k \in (i + 1)..j : t[k].kind = "digits" =>
        t[k].sep \in (IF t[k - 1].kind = "digits" THEN r.seps ELSE r.leads)

Recognises(r, t, i, j) ==
    /\ LET shape == [k \in 1..(j - i + 1) |-> ShapeOf(t[i + k - 1])]
       IN  shape \in r.shapes /\ <<t[i].tag, shape>> \notin r.but
    /\ JoinedAs(r, t, i, j)
    /\ t[i].kind = "digits" => t[i].tag \in r.heads
    /\ r.after # {} => i > 1 /\ t[i - 1].kind = "label" /\ t[i - 1].tag \in r.after
    /\ r.next # {} => (IF j = Len(t) THEN "end" ELSE t[j + 1].kind) \in r.next

Matches(r, t) ==
    {[cat |-> r.cat, from |-> s[1], to |-> s[2]] : s \in
        {s \in (1..Len(t)) \X (1..Len(t)) : s[1] <= s[2] /\ Recognises(r, t, s[1], s[2])}}

\* finditer: from the left, the longest match at each place.
FindIter(r, t) ==
    LET found == Matches(r, t)
        longest == {f \in found : ~ \E g \in found : g.from = f.from /\ g.to > f.to}
    IN  Scan(longest, {p \in longest \X longest : p[1].from < p[2].from})

LooksLikePaymentCard(t, from, to) == \A i \in from..to : t[i].tag = "card"

LabelBefore(t, i, topics) == i > 1 /\ t[i - 1].kind = "label" /\ t[i - 1].tag \in topics

\* An account shaped like a case number after a case label is left to the case
\* rule; a card must pass the card check or stand after a card label.
Counts(t, f) ==
    /\ f.cat = "ACCOUNT" =>
          ~ (LabelBefore(t, f.from, {"case"})
             /\ [i \in 1..(f.to - f.from + 1) |-> t[f.from + i - 1].n] = <<4, 2, 6>>)
    /\ f.cat = "CARD" =>
          LooksLikePaymentCard(t, f.from, f.to) \/ LabelBefore(t, f.from, {"card", "account"})

CollectFindings(t) == {f \in UNION {FindIter(r, t) : r \in Rules} : Counts(t, f)}

Rank(cat) == CHOOSE i \in DOMAIN Priority : Priority[i] = cat

\* By category, then the longer, then the earlier.
Wins(f, g) ==
    LET length(h) == h.to - h.from
    IN  \/ Rank(f.cat) < Rank(g.cat)
        \/ Rank(f.cat) = Rank(g.cat) /\ length(f) > length(g)
        \/ Rank(f.cat) = Rank(g.cat) /\ length(f) = length(g) /\ f.from < g.from

SelectFindings(t) ==
    LET F == CollectFindings(t) IN Scan(F, {p \in F \X F : Wins(p[1], p[2])})

\* From the right, so that the places of the findings not yet replaced stand:
\* masked[i] is what becomes of the text from its i-th piece on.
ApplyFindings(t, F) ==
    LET masked[i \in 1..(Len(t) + 1)] ==
          IF i > Len(t) THEN <<>>
          ELSE IF \E f \in F : f.from = i
          THEN LET f == CHOOSE f \in F : f.from = i
               IN  <<Token(f.cat)>> \o masked[f.to + 1]
          ELSE <<t[i]>> \o masked[i + 1]
    IN  masked[1]

\* The places in the masked text of the tokens that redaction itself put there.
GeneratedTokens(F) ==
    {[cat |-> f.cat,
      at |-> f.from - FoldSet(LAMBDA g, n : n + g.to - g.from, 0, {g \in F : g.to < f.from})]
         : f \in F}

-----------------------------------------------------------------------------
(***************************************************************************)
(* What no finding may leave uncovered: numbers of a risky shape, letters  *)
(* around an @, extensions and plates with odd separators, and characters  *)
(* that disguise an identifier.                                            *)
(***************************************************************************)
Covered(i, j, F) == \E f \in F : f.from <= i /\ j <= f.to

\* A run: digits and whatever is not a letter between them, as far as it goes.
NumericRuns(t) ==
    LET loose(i, j) == \A k \in i..j : t[k].kind \in {"digits", "mark", "stop", "blank"}
        runs == {s \in (1..Len(t)) \X (1..Len(t)) :
                    /\ s[1] <= s[2]
                    /\ t[s[1]].kind = "digits" /\ t[s[2]].kind = "digits"
                    /\ loose(s[1], s[2])}
    IN  {s \in runs : ~ \E r \in runs : r # s /\ r[1] <= s[1] /\ s[2] <= r[2]}

HasGroups(lengths, shape) ==
    \E i \in DOMAIN lengths : i + Len(shape) - 1 <= Len(lengths)
        /\ SubSeq(lengths, i, i + Len(shape) - 1) = shape

HighRiskShape(groups) ==
    LET lengths == [i \in DOMAIN groups |-> groups[i].n]
        total == FoldLeft(LAMBDA a, b : a + b, 0, lengths)
        head == groups[1].tag
    IN  \/ \E i \in DOMAIN lengths : lengths[i] >= 10
        \/ head = "mobile" /\ total \in {10, 11}
        \/ head = "personal" /\ total \in {11, 12}
        \/ head = "messaging" /\ total = 12
        \/ head = "area" /\ total \in {9, 10, 11}
        \/ head = "service" /\ total = 8
        \/ head = "resident" /\ total = 13
        \/ total \in 13..19 /\ \A i \in DOMAIN groups : groups[i].tag = "card"
        \/ \E shape \in {<<2, 2, 6, 2>>, <<3, 6, 2, 3>>, <<3, 3, 6>>, <<3, 2, 6>>, <<4, 6>>,
                         <<6, 7>>, <<4, 6, 5>>} : HasGroups(lengths, shape)
        \/ \E a \in {2, 3}, b \in {3, 4} : HasGroups(lengths, <<a, b, 4>>)
        \/ \E i \in 1..(Len(groups) - 3) : SubSeq(lengths, i, i + 3) = <<4, 4, 4, 4>>
               /\ \A k \in i..(i + 3) : groups[k].tag = "card"
        \/ \E i \in 1..(Len(groups) - 1) : SubSeq(lengths, i, i + 1) = <<4, 4>>
               /\ groups[i].tag = "service"

DigitsOf(t, i, j) == SelectSeq(SubSeq(t, i, j), LAMBDA p : p.kind = "digits")

RiskyNumbers(t) == {s \in NumericRuns(t) : HighRiskShape(DigitsOf(t, s[1], s[2]))}

\* The other patterns whose matches must lie inside a finding.
RiskyWords(t) ==
    {<<i, i>> : i \in {i \in DOMAIN t : t[i].kind \in {"at", "email"}}}
    \cup {<<i, i + 1>> : i \in {i \in 1..(Len(t) - 1) :
              t[i].kind = "ext" /\ t[i + 1].kind = "digits" /\ t[i + 1].n <= 6}}
    \cup {<<i, i + 4>> : i \in {i \in 1..(Len(t) - 4) :
              /\ [k \in 1..5 |-> ShapeOf(t[i + k - 1])] \in
                    {<<D(n), W("mark"), W("syllable"), W("mark"), D(4)>> : n \in {2, 3}}}}

SuspiciousMark(t) ==
    \E i \in DOMAIN t : t[i].kind = "combining"
        /\ \E k \in {i - 1, i + 1} \cap DOMAIN t :
              t[k].kind \notin {"stop", "blank", "mark", "at", "combining", "keycap"}

KeycapObscures(t) ==
    /\ "keycap" \in Kinds(t)
    /\ \E f \in CollectFindings(SelectSeq(t, LAMBDA p : p.kind # "keycap")) :
          f.cat \in {"LOCATION", "PLATE"}

HasUncoveredHighRiskSpan(t, F) ==
    \/ SuspiciousMark(t)
    \/ KeycapObscures(t)
    \/ \E s \in RiskyNumbers(t) \cup RiskyWords(t) : ~ Covered(s[1], s[2], F)

-----------------------------------------------------------------------------
(***************************************************************************)
(* What the masked text may still give away.                               *)
(***************************************************************************)
\* A question that asks about a kind of data and gives none, after a label or alone.
IsSafeExplicitInquiry(t) ==
    \/ t = <<Word("enquiry")>>
    \/ t[1].kind = "label" /\ t = <<t[1], Word("enquiry")>>

\* A bare address, unless it goes on from a masked one.
HasAmbiguousAddress(t) ==
    \E i \in DOMAIN t : t[i].kind = "unit" /\ ~ (i > 1 /\ t[i - 1] = Token("ADDRESS"))

\* A full name anywhere; a shorter one alone, before a closing or after a sentence.
HasAmbiguousName(t) ==
    \/ "name" \in Kinds(t)
    \/ \E i \in DOMAIN t : t[i].kind = "short" /\
          \/ \A k \in DOMAIN t : k # i => t[k].kind = "blank"
          \/ i < Len(t) /\ t[i + 1].kind = "polite"
          \/ i > 1 /\ t[i - 1].kind = "stop"

\* After a masked address or condition nothing else may follow in its sentence,
\* nothing may lead to it but its label, and no unit may follow at all.
HasUnsafeTail(t, tokens) ==
    \E m \in {m \in tokens : m.cat \in {"ADDRESS", "HEALTH"}} :
        LET sentence(i) == \A k \in (i + 1)..(m.at - 1) \cup (m.at + 1)..(i - 1) :
                              t[k].kind # "stop"
            before == {i \in 1..(m.at - 1) : t[i].kind # "stop" /\ sentence(i)}
            after == {i \in (m.at + 1)..Len(t) : t[i].kind # "token"}
            leads == IF m.cat = "ADDRESS" THEN {"address"} ELSE {"health", "self"}
        IN  \/ \E i \in before : t[i].kind # "blank" /\ ~ LabelBefore(t, i + 1, leads)
            \/ \E i \in after : sentence(i) /\ t[i].kind \notin {"polite", "stop", "blank"}
            \/ \E i \in after : t[i].kind \in {"unit", "building"}

\* A value written after a label that no rule took for one.
LooksLikeAssignment(label, content) ==
    LET cat == LabelToken[label.tag] IN
    \/ label.n = 1
    \/ Kinds(content) \cap {"digits", "latin", "at", "email"} # {}
    \/ cat = "HEALTH" /\ "health" \in Kinds(content)
    \/ cat = "NAME" /\ "name" \in Kinds(content)

\* Each label's segment, up to the next label: nothing, an enquiry, or a token
\* that stands right after it and is the label's own, followed by a closing.
HasUnsafeExplicitContext(t, tokens) ==
    LET labels == {i \in DOMAIN t : t[i].kind = "label"}
        next(i) == IF \E k \in labels : k > i
                   THEN CHOOSE k \in labels : k > i /\ \A l \in labels : l > i => k <= l
                   ELSE Len(t) + 1
        segment(i) == (i + 1)..(next(i) - 1)
        first(S) == CHOOSE k \in S : \A l \in S : k <= l
    IN  \E i \in labels :
          LET content == SubSeq(t, i + 1, next(i) - 1)
              placed == {k \in segment(i) : t[k].kind = "token"}
          IN  /\ ~ Kinds(content) \subseteq {"blank", "stop"}
              /\ content # <<Word("enquiry")>>
              /\ ~ (next(i) <= Len(t) /\ content = <<Word("bridge")>>)
              /\ IF placed = {}
                 THEN LooksLikeAssignment(t[i], content)
                 ELSE LET k == first(placed) IN
                      \/ SubSeq(t, i + 1, k - 1) # <<>>
                            /\ ~ (/\ [cat |-> "PLATE", at |-> k] \in tokens
                                  /\ t[i].tag = "address"
                                  /\ SubSeq(t, i + 1, k - 1) = <<Word("road")>>)
                      \/ (\A m \in tokens : m.at # k) /\ LabelToken[t[i].tag] # t[k].tag
                      \/ \E l \in segment(i) : l > k /\ t[l].kind \notin {"polite", "stop", "blank"}

HasCompactUnclassifiedTail(t) ==
    LET s == SelectSeq(t, LAMBDA p : p.kind # "blank")
        n == Len(s)
    IN  n > 1 /\ s[n - 1].kind = "stop" /\ s[n].kind # "token"

\* A label with something that holds digits, letters or an @ after it on its
\* line, other than a token right after it.
AmbiguousExplicitPII(t) ==
    \E i \in DOMAIN t : t[i].kind = "label" /\ i < Len(t)
        /\ t[i].tag \notin {"name", "self"}
        /\ t[i + 1].kind # "token"
        /\ Kinds(SubSeq(t, i + 1, Len(t))) \cap {"digits", "latin", "at", "email"} # {}

\* FAULTY VARIANT: the masked text is not searched again.
SecondLook_NumbersOnly(masked) == HasUncoveredHighRiskSpan(masked, {})

\* Masking one finding may leave the rest of another that overlapped it.
SecondLook(masked) ==
    \/ SelectFindings(masked) # {}
    \/ HasUncoveredHighRiskSpan(masked, {})

-----------------------------------------------------------------------------
(***************************************************************************)
(* The text to keep, or NULL.  A question must also be shaped like one.    *)
(***************************************************************************)
RedactText(raw, question) ==
    LET t == Normalize(raw) IN
    IF t = NULL THEN NULL
    ELSE IF IsSafeExplicitInquiry(t) THEN t
    ELSE LET F == SelectFindings(t)
             masked == ApplyFindings(t, F)
             tokens == GeneratedTokens(F)
         IN  IF \/ HasUncoveredHighRiskSpan(t, F)
                \/ HasAmbiguousAddress(masked)
                \/ question /\ HasUnsafeExplicitContext(masked, tokens)
                \/ HasAmbiguousName(masked)
                \/ HasUnsafeTail(masked, tokens)
                \/ question /\ HasCompactUnclassifiedTail(masked)
                \/ AmbiguousExplicitPII(masked)
                \/ SecondLook(masked)
             THEN NULL
             ELSE masked

RedactQuestion(raw) == RedactText(raw, TRUE)
RedactFeedbackDetail(raw) == RedactText(raw, FALSE)

=============================================================================
