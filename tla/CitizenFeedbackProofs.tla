----------------------- MODULE CitizenFeedbackProofs -----------------------
(***************************************************************************)
(* Proofs about CitizenFeedback, for any calls, answers, details, masking  *)
(* and retention time.                                                     *)
(*                                                                         *)
(* Keyed says what the unique constraint and the transactions guarantee;   *)
(* Sent says what the buttons can send and a transaction can hold; Timely  *)
(* relates the clock to the transactions and to the summary under way.     *)
(***************************************************************************)
EXTENDS CitizenFeedback, FiniteSetTheorems, TLAPS

Keyed ==
  \A c \in Calls :
    /\ pc[c] = "inserted" => owner[about[c]] = c /\ rows[about[c]] = NoRow
    /\ pc[c] = "skipped" => rows[about[c]] # NoRow

Sent ==
  /\ \A c \in Calls :
       /\ payload[c] \in Complaint \cup {Satisfied}
       /\ pc[c] \in Transaction => Write(payload[c]).text # Unresolved
  /\ \A w \in Responses :
       rows[w] # NoRow => (rows[w].text # NoText => rows[w].code = "OTHER")

Timely ==
  /\ \A c \in Calls : pc[c] \in Transaction => now < stamp[c] + Retention
  /\ admin.since =< now /\ (admin.step = "idle" => admin.shown = {})
  /\ \A w \in Responses :
       admin.step \in {"summarize", "list"} /\ rows[w] # NoRow =>
         (rows[w].text # NoText => rows[w].expires > admin.since)

Inv ==
  TypeOK /\ Keyed /\ Sent /\ Timely
    /\ RecordedIsStored /\ ConflictIsReal /\ VoteIsStored /\ ShownWasUnexpired

-----------------------------------------------------------------------------
Written == [rating : Ratings, code : Codes, text : Texts \cup {NoText, Unresolved}, altered : BOOLEAN]

(* What is written of a payload has the shape the CHECKs ask for.          *)
LEMMA WriteShape ==
  ASSUME NEW p \in Payload
  PROVE  /\ Write(p) \in Written
         /\ Write(p).rating = p.rating /\ Write(p).code = p.code
         /\ Write(p).rating = "SATISFIED" =>
              Write(p).code = "NONE" /\ Write(p).text = NoText /\ ~Write(p).altered
         /\ Write(p).rating = "DISSATISFIED" => Write(p).code # "NONE"
         /\ Write(p).code = "OTHER" \/ Write(p).altered => Write(p).text # NoText
         /\ p.detail = NoText <=> Write(p).text = NoText
<1>1. /\ p.rating \in Ratings /\ p.code \in Codes /\ p.detail \in Details \cup {NoText}
      /\ p.rating = "SATISFIED" => p.code = "NONE" /\ p.detail = NoText
      /\ p.rating = "DISSATISFIED" => p.code # "NONE"
      /\ p.rating # "SATISFIED" => (p.code = "OTHER" => p.detail # NoText)
  BY DEF Payload, Ratings
<1>2. p.detail # NoText => Masked[p.detail] \in Texts \cup {Unresolved} /\ Masked[p.detail] # NoText
  BY <1>1, FeedbackAssumption
<1>3. p.detail \in Altered => p.detail # NoText
  BY FeedbackAssumption
<1> DEFINE y == Write(p)
<1>4. y = [rating |-> p.rating, code |-> p.code,
           text |-> IF p.detail = NoText THEN NoText ELSE Masked[p.detail],
           altered |-> p.detail \in Altered]
  BY DEF Write
<1>5. /\ y.rating = p.rating /\ y.code = p.code /\ y.altered = (p.detail \in Altered)
      /\ y.text = IF p.detail = NoText THEN NoText ELSE Masked[p.detail]
  BY <1>4
<1>6. y \in Written
  BY <1>1, <1>2, <1>4 DEF Written
<1> HIDE DEF y
<1> QED BY <1>1, <1>2, <1>3, <1>5, <1>6 DEF y, Ratings

(* A new row is as its CHECKs allow, and says all of what is written.      *)
LEMMA NewRowShape ==
  ASSUME NEW c \in Calls, payload[c] \in Payload, stamp[c] \in Nat,
         Write(payload[c]).text # Unresolved
  PROVE  /\ NewRow(c) \in Row
         /\ Says(NewRow(c), Write(payload[c]))
         /\ NewRow(c).rating = payload[c].rating
         /\ NewRow(c).code = payload[c].code
         /\ NewRow(c).text = Write(payload[c]).text
         /\ NewRow(c).text # NoText => NewRow(c).expires = stamp[c] + Retention
<1> DEFINE y == Write(payload[c])
<1>1. /\ y \in Written /\ y.rating = payload[c].rating /\ y.code = payload[c].code
      /\ y.rating = "SATISFIED" => y.code = "NONE" /\ y.text = NoText /\ ~y.altered
      /\ y.rating = "DISSATISFIED" => y.code # "NONE"
      /\ y.code = "OTHER" \/ y.altered => y.text # NoText
  BY WriteShape
<1>2. NewRow(c) =
        [rating |-> y.rating, code |-> y.code, text |-> y.text, altered |-> y.altered,
         created |-> stamp[c], expires |-> IF y.text = NoText THEN Never ELSE stamp[c] + Retention, purged |-> Never]
  BY DEF NewRow
<1>3. y.text # Unresolved
  OBVIOUS
<1> HIDE DEF y
<1>4. Retention \in Nat /\ stamp[c] + Retention \in Nat
  BY FeedbackAssumption
<1>5. NewRow(c) \in Row
  BY <1>1, <1>2, <1>3, <1>4 DEF Row, Written, Never, Ratings
<1>6. NewRow(c).rating = y.rating /\ NewRow(c).code = y.code /\ NewRow(c).text = y.text
      /\ NewRow(c).altered = y.altered
      /\ (y.text # NoText => NewRow(c).expires = stamp[c] + Retention)
  BY <1>2
<1>7. Says(NewRow(c), y)
  BY <1>5, <1>6, NoRowAssumption DEF Says
<1> QED BY <1>1, <1>5, <1>6, <1>7 DEF y

(* Purging keeps a row a row, and what it says but for its text.           *)
LEMMA PurgedShape ==
  ASSUME NEW x \in Row, now \in Nat
  PROVE  /\ Purged(x) \in Row
         /\ Purged(x).rating = x.rating /\ Purged(x).code = x.code
         /\ Purged(x).altered = x.altered /\ Purged(x).expires = x.expires
         /\ \/ Purged(x) = x
            \/ /\ x.text # NoText /\ x.expires =< now
               /\ Purged(x).text = NoText /\ Purged(x).purged # Never
               /\ Purged(x) = [x EXCEPT !.text = NoText, !.purged = now]
         /\ Purged(x).text # NoText => Purged(x) = x /\ x.expires > now
<1>1. /\ x # NoRow
      /\ x \in [rating : Ratings, code : Codes, text : Texts \cup {NoText}, altered : BOOLEAN,
               created : Nat, expires : Nat \cup {Never}, purged : Nat \cup {Never}]
      /\ x.rating = "SATISFIED" => x.text = NoText
      /\ x.text # NoText => x.expires \in Nat /\ x.purged = Never
  BY NoRowAssumption DEF Row
<1>2. CASE x.text # NoText /\ x.expires =< now
  <2>1. Purged(x) = [x EXCEPT !.text = NoText, !.purged = now]
    BY <1>1, <1>2 DEF Purged
  <2>2. /\ Purged(x).rating = x.rating /\ Purged(x).code = x.code
        /\ Purged(x).altered = x.altered /\ Purged(x).expires = x.expires
        /\ Purged(x).text = NoText /\ Purged(x).purged = now
    BY <1>1, <2>1
  <2>3. Purged(x) \in
          [rating : Ratings, code : Codes, text : Texts \cup {NoText}, altered : BOOLEAN,
           created : Nat, expires : Nat \cup {Never}, purged : Nat \cup {Never}]
    BY <1>1, <2>1
  <2>4. Purged(x) \in Row
    BY <1>1, <1>2, <2>2, <2>3 DEF Row, Never, Ratings
  <2> QED BY <1>2, <2>1, <2>2, <2>4 DEF Never
<1>3. CASE ~(x.text # NoText /\ x.expires =< now)
  <2>1. Purged(x) = x
    BY <1>3 DEF Purged
  <2> QED BY <1>1, <1>3, <2>1
<1> QED BY <1>2, <1>3

(* What the buttons send has the shape of the contract.                    *)
LEMMA ButtonsSend ==
  /\ Satisfied \in Payload /\ Complaint \subseteq Payload
  /\ \A p \in Complaint \cup {Satisfied} :
       p.code # "OTHER" => p.detail = NoText
BY DEF Satisfied, Complaint, Payload, Ratings, Codes

(* The summary's counts are numbers.                                       *)
LEMMA Counts == \A S \in SUBSET Responses : Cardinality(S) \in Nat
BY FS_Subset, FS_CardinalityType, FeedbackAssumption

LEMMA StoredCounts ==
  /\ Cardinality(Stored) \in Nat
  /\ Cardinality({w \in Stored : rows[w].rating = "SATISFIED"}) \in Nat
<1>1. Stored \in SUBSET Responses /\ {w \in Stored : rows[w].rating = "SATISFIED"} \in SUBSET Responses
  BY DEF Stored
<1> QED BY <1>1, Counts

-----------------------------------------------------------------------------
(* A purge keeps every stored row, but for its text.                       *)
LEMMA PurgeKeeps ==
  ASSUME TypeOK, Purge
  PROVE  /\ rows' \in [Responses -> Row \cup {NoRow}]
         /\ \A w \in Responses :
              /\ rows[w] = NoRow <=> rows'[w] = NoRow
              /\ rows[w] # NoRow =>
                   /\ rows'[w].rating = rows[w].rating /\ rows'[w].code = rows[w].code
                   /\ rows'[w].altered = rows[w].altered
                   /\ \/ rows'[w] = rows[w]
                      \/ /\ rows[w].text # NoText /\ rows[w].expires =< now
                         /\ rows'[w].text = NoText /\ rows'[w].purged # Never
                         /\ rows'[w] = [rows[w] EXCEPT !.text = NoText, !.purged = now]
                   /\ rows'[w].text # NoText => rows'[w] = rows[w] /\ rows[w].expires > now
<1>1. rows' = [w \in Responses |-> Purged(rows[w])]
  BY DEF Purge
<1>2. Purged(NoRow) = NoRow
  BY DEF Purged
<1>3. ASSUME NEW w \in Responses
      PROVE  /\ rows'[w] = Purged(rows[w])
             /\ rows[w] \in Row \cup {NoRow}
  BY <1>1 DEF TypeOK
<1>4. ASSUME NEW w \in Responses, rows[w] = NoRow
      PROVE  rows'[w] = NoRow
  BY <1>2, <1>3, <1>4
<1>5. ASSUME NEW w \in Responses, rows[w] # NoRow
      PROVE  /\ rows[w] \in Row /\ rows'[w] \in Row /\ rows'[w] # NoRow
             /\ rows'[w].rating = rows[w].rating /\ rows'[w].code = rows[w].code
             /\ rows'[w].altered = rows[w].altered
             /\ \/ rows'[w] = rows[w]
                \/ /\ rows[w].text # NoText /\ rows[w].expires =< now
                   /\ rows'[w].text = NoText /\ rows'[w].purged # Never
                   /\ rows'[w] = [rows[w] EXCEPT !.text = NoText, !.purged = now]
             /\ rows'[w].text # NoText => rows'[w] = rows[w] /\ rows[w].expires > now
  <2>1. rows[w] \in Row /\ now \in Nat
    BY <1>3, <1>5 DEF TypeOK
  <2>2. rows'[w] \in Row /\ rows'[w] # NoRow
    BY <1>3, <2>1, PurgedShape, NoRowAssumption
  <2> QED BY <1>3, <2>1, <2>2, PurgedShape
<1> QED BY <1>1, <1>3, <1>4, <1>5

(* Every step keeps the types.                                             *)
LEMMA TypeStep == Inv /\ [Next]_vars => TypeOK'
<1> SUFFICES ASSUME Inv, [Next]_vars PROVE TypeOK'
  OBVIOUS
<1> USE FeedbackAssumption, ButtonsSend
<1> USE DEF Inv, TypeOK, Running, Transaction, Answers, database, calls, buttons
<1>1. CASE Tick BY <1>1 DEF Tick
<1>2. CASE PeriodicPurge BY <1>2, PurgeKeeps DEF PeriodicPurge
<1>3. CASE Admin
  <2>1. admin \in Summary OBVIOUS
  <2>2. CASE AdminArrives BY <2>1, <2>2 DEF AdminArrives, Turns, After, Summary
  <2>3. CASE AdminPurge BY <2>1, <2>3, PurgeKeeps DEF AdminPurge, Turns, After, Summary
  <2>4. CASE Summarize BY <2>1, <2>4, StoredCounts DEF Summarize, Turns, After, Summary
  <2>5. CASE List
    <3>1. PICK S \in SUBSET Responses :
            Newest(S) /\ Turns([admin EXCEPT !.shown = {[id |-> w, row |-> rows[w]] : w \in S}])
      BY <2>5 DEF List
    <3>2. {[id |-> w, row |-> rows[w]] : w \in S} \in SUBSET [id : Responses, row : Row]
      BY <3>1 DEF Newest, Stored
    <3>3. admin' \in Summary
      BY <2>1, <2>5, <3>1, <3>2 DEF List, Turns, After, Summary
    <3> QED BY <2>5, <3>3 DEF List
  <2>6. CASE AdminLeaves BY <2>6 DEF AdminLeaves, NoSummary, Summary
  <2> QED BY <1>3, <2>2, <2>3, <2>4, <2>5, <2>6 DEF Admin
<1>4. ASSUME NEW w \in Responses, OpenSheet(w) \/ CloseSheet(w) PROVE TypeOK'
  BY <1>4 DEF OpenSheet, CloseSheet
<1>5. ASSUME NEW c \in Calls, NEW w \in Responses, NEW p \in Payload, Post(c, w, p) PROVE TypeOK'
  BY <1>5 DEF Post
<1>6. ASSUME NEW c \in Calls, Refuse(c) \/ Match(c) PROVE TypeOK'
  BY <1>6 DEF Refuse, Match, Answer
<1>7. ASSUME NEW c \in Calls, Begin(c) \/ Insert(c) \/ Skip(c) PROVE TypeOK'
  BY <1>7 DEF Begin, Insert, Skip
<1>8. ASSUME NEW c \in Calls, Commit(c) PROVE TypeOK'
  <2>1. NewRow(c) \in Row
    BY <1>8, NewRowShape DEF Commit, Sent
  <2> QED BY <1>8, <2>1 DEF Commit, Answer
<1>9. ASSUME NEW c \in Calls, Abort(c) PROVE TypeOK'
  BY <1>9 DEF Abort, Answer, Released
<1>10. ASSUME NEW c \in Calls, Hear(c) PROVE TypeOK'
  <2>1. payload[c].rating \in Ratings
    BY DEF Payload
  <2> QED BY <1>10, <2>1 DEF Hear
<1>11. ASSUME NEW c \in Calls, Lose(c) PROVE TypeOK'
  BY <1>11 DEF Lose
<1>12. CASE UNCHANGED vars BY <1>12 DEF vars
<1> QED
  BY <1>1, <1>2, <1>3, <1>4, <1>5, <1>6, <1>7, <1>8, <1>9, <1>10, <1>11, <1>12
  DEF Next, Serve, LikeIt, Complain

-----------------------------------------------------------------------------
(* The initial state satisfies the invariant.                              *)
LEMMA InvInit == Init => Inv
<1> SUFFICES ASSUME Init PROVE Inv
  OBVIOUS
<1> USE FeedbackAssumption, ButtonsSend DEF Init
<1>a. EarlierOpinion \in Row /\ EarlierOpinion.text = NoText
  BY DEF EarlierOpinion, Row, Ratings, Codes, Never
<1>b. /\ rows \in [Responses -> Row \cup {NoRow}]
      /\ \A w \in Responses : rows[w] # NoRow => rows[w].text = NoText
  BY <1>a
<1>1. TypeOK
  BY <1>b DEF TypeOK, Running, Transaction, Answers, Summary, NoSummary
<1>2. Keyed BY DEF Keyed
<1>3. Sent BY <1>b DEF Sent, Transaction
<1>4. Timely BY <1>b DEF Timely, Transaction, NoSummary
<1>5. RecordedIsStored /\ ConflictIsReal /\ VoteIsStored
  BY DEF RecordedIsStored, ConflictIsReal, VoteIsStored
<1>6. ShownWasUnexpired BY DEF ShownWasUnexpired, NoSummary
<1> QED BY <1>1, <1>2, <1>3, <1>4, <1>5, <1>6 DEF Inv

(* The unique key: one uncommitted row, and none where one is stored.      *)
LEMMA KeyedStep == Inv /\ [Next]_vars => Keyed'
<1> SUFFICES ASSUME Inv, [Next]_vars PROVE Keyed'
  OBVIOUS
<1> USE FeedbackAssumption, NoRowAssumption
<1> USE DEF Inv, TypeOK, Keyed, database, calls, buttons
<1>1. CASE Tick BY <1>1 DEF Tick
<1>2. CASE PeriodicPurge BY <1>2, PurgeKeeps DEF PeriodicPurge
<1>3. CASE Admin
  <2>1. CASE AdminPurge BY <2>1, PurgeKeeps DEF AdminPurge
  <2>2. CASE ~AdminPurge
    BY <1>3, <2>2 DEF Admin, AdminArrives, Summarize, List, AdminLeaves
  <2> QED BY <2>1, <2>2
<1>4. ASSUME NEW w \in Responses, OpenSheet(w) \/ CloseSheet(w) PROVE Keyed'
  BY <1>4 DEF OpenSheet, CloseSheet
<1>5. ASSUME NEW c \in Calls, NEW w \in Responses, NEW p \in Payload, Post(c, w, p) PROVE Keyed'
  BY <1>5 DEF Post
<1>6. ASSUME NEW c \in Calls, Refuse(c) \/ Match(c) PROVE Keyed'
  <2>1. \A d \in Calls : pc'[d] \in {"inserted", "skipped"} => pc'[d] = pc[d]
    BY <1>6 DEF Refuse, Match, Answer
  <2> QED BY <1>6, <2>1 DEF Refuse, Match
<1>7. ASSUME NEW c \in Calls, Begin(c) \/ Skip(c) PROVE Keyed'
  BY <1>7 DEF Begin, Skip
<1>8. ASSUME NEW c \in Calls, Insert(c) PROVE Keyed'
  BY <1>8 DEF Insert, Free
<1>9. ASSUME NEW c \in Calls, Commit(c) PROVE Keyed'
  <2>1. NewRow(c) \in Row
    BY <1>9, NewRowShape DEF Commit, Sent, Transaction
  <2>2. \A d \in Calls : pc'[d] \in {"inserted", "skipped"} => pc'[d] = pc[d] /\ d # c
    BY <1>9 DEF Commit, Answer
  <2> QED BY <1>9, <2>1, <2>2 DEF Commit
<1>10. ASSUME NEW c \in Calls, Abort(c) PROVE Keyed'
  <2>1. \A d \in Calls : pc'[d] \in {"inserted", "skipped"} => pc'[d] = pc[d] /\ d # c
    BY <1>10 DEF Abort, Answer
  <2> QED BY <1>10, <2>1 DEF Abort, Released
<1>11. ASSUME NEW c \in Calls, Hear(c) \/ Lose(c) PROVE Keyed'
  BY <1>11 DEF Hear, Lose
<1>12. CASE UNCHANGED vars BY <1>12 DEF vars
<1> QED
  BY <1>1, <1>2, <1>3, <1>4, <1>5, <1>6, <1>7, <1>8, <1>9, <1>10, <1>11, <1>12, ButtonsSend
  DEF Next, Serve, LikeIt, Complain

(* A transaction holds what the buttons send and masking resolved.         *)
LEMMA SentStep == Inv /\ [Next]_vars => Sent'
<1> SUFFICES ASSUME Inv, [Next]_vars PROVE Sent'
  OBVIOUS
<1> USE FeedbackAssumption, NoRowAssumption
<1> USE DEF Inv, TypeOK, Sent, Transaction, database, calls, buttons
<1>1. CASE Tick BY <1>1 DEF Tick
<1>2. CASE PeriodicPurge BY <1>2, PurgeKeeps DEF PeriodicPurge
<1>3. CASE Admin
  <2>1. CASE AdminPurge BY <2>1, PurgeKeeps DEF AdminPurge
  <2>2. CASE ~AdminPurge
    BY <1>3, <2>2 DEF Admin, AdminArrives, Summarize, List, AdminLeaves
  <2> QED BY <2>1, <2>2
<1>4. ASSUME NEW w \in Responses, OpenSheet(w) \/ CloseSheet(w) PROVE Sent'
  BY <1>4 DEF OpenSheet, CloseSheet
<1>5. ASSUME NEW c \in Calls, NEW w \in Responses, NEW p \in Complaint \cup {Satisfied}, Post(c, w, p)
      PROVE  Sent'
  <2>1. \A d \in Calls : d # c => payload'[d] = payload[d] /\ pc'[d] = pc[d]
    BY <1>5 DEF Post
  <2>2. payload'[c] = p /\ pc'[c] = "sent"
    BY <1>5 DEF Post
  <2> QED BY <1>5, <2>1, <2>2 DEF Post
<1>6. ASSUME NEW c \in Calls, Refuse(c) \/ Match(c) PROVE Sent'
  <2>1. \A d \in Calls : pc'[d] \in Transaction => pc'[d] = pc[d]
    BY <1>6 DEF Refuse, Match, Answer
  <2> QED BY <1>6, <2>1 DEF Refuse, Match
<1>7. ASSUME NEW c \in Calls, Begin(c) \/ Skip(c) \/ Insert(c) PROVE Sent'
  BY <1>7 DEF Begin, Skip, Insert
<1>8. ASSUME NEW c \in Calls, Commit(c) PROVE Sent'
  <2>1. /\ NewRow(c).code = payload[c].code
        /\ NewRow(c).text = Write(payload[c]).text
    BY <1>8, NewRowShape DEF Commit
  <2>2. NewRow(c).text # NoText => NewRow(c).code = "OTHER"
    BY <2>1, ButtonsSend, WriteShape
  <2>3. \A d \in Calls : pc'[d] \in Transaction => pc'[d] = pc[d]
    BY <1>8 DEF Commit, Answer
  <2> QED BY <1>8, <2>2, <2>3 DEF Commit
<1>9. ASSUME NEW c \in Calls, Abort(c) PROVE Sent'
  <2>1. \A d \in Calls : pc'[d] \in Transaction => pc'[d] = pc[d]
    BY <1>9 DEF Abort, Answer
  <2> QED BY <1>9, <2>1 DEF Abort
<1>10. ASSUME NEW c \in Calls, Hear(c) \/ Lose(c) PROVE Sent'
  BY <1>10 DEF Hear, Lose
<1>11. CASE UNCHANGED vars BY <1>11 DEF vars
<1> QED
  BY <1>1, <1>2, <1>3, <1>4, <1>5, <1>6, <1>7, <1>8, <1>9, <1>10, <1>11
  DEF Next, Serve, LikeIt, Complain

(* No transaction outlives the retention time, so what is committed after  *)
(* a purge has not expired yet.                                            *)
LEMMA TimelyStep == Inv /\ [Next]_vars => Timely'
<1> SUFFICES ASSUME Inv, [Next]_vars PROVE Timely'
  OBVIOUS
<1> USE FeedbackAssumption, NoRowAssumption
<1> USE DEF Inv, TypeOK, Timely, Transaction, database, calls, buttons
<1>0. admin \in Summary /\ admin.since \in Nat
  BY DEF Summary
<1>1. CASE Tick BY <1>1, <1>0 DEF Tick
<1>2. CASE PeriodicPurge
  <2>1. \A w \in Responses : rows'[w] # NoRow /\ rows'[w].text # NoText =>
          rows[w] # NoRow /\ rows'[w] = rows[w]
    BY <1>2, PurgeKeeps DEF PeriodicPurge
  <2> QED BY <1>2, <2>1 DEF PeriodicPurge
<1>3. CASE Admin
  <2>1. CASE AdminArrives
    BY <1>0, <2>1 DEF AdminArrives, Turns, After, Summary
  <2>2. CASE AdminPurge
    <3>1. \A w \in Responses : rows'[w] # NoRow /\ rows'[w].text # NoText =>
            rows'[w] = rows[w] /\ rows[w] \in Row /\ rows[w].expires > now
      <4>1. Purge BY <2>2 DEF AdminPurge
      <4>2. \A w \in Responses : rows[w] \in Row \cup {NoRow}
        OBVIOUS
      <4>3. \A w \in Responses : rows'[w] # NoRow /\ rows'[w].text # NoText =>
              rows[w] # NoRow /\ rows'[w] = rows[w] /\ rows[w].expires > now
        BY <4>1, PurgeKeeps
      <4> QED BY <4>2, <4>3
    <3>2. \A w \in Responses : rows'[w] # NoRow /\ rows'[w].text # NoText =>
            rows'[w].expires \in Nat
      BY <3>1 DEF Row
    <3>3. /\ admin'.since = admin.since /\ admin'.shown = admin.shown
          /\ admin'.step = "summarize"
      BY <1>0, <2>2 DEF AdminPurge, Turns, After, Summary
    <3>4. UNCHANGED <<now, pc, stamp>>
      BY <2>2 DEF AdminPurge
    <3>5. ASSUME NEW w \in Responses, rows'[w] # NoRow, rows'[w].text # NoText
          PROVE  rows'[w].expires > admin.since
      BY <1>0, <3>1, <3>2, <3>5
    <3> QED BY <3>3, <3>4, <3>5
  <2>3. CASE Summarize
    BY <1>0, <2>3 DEF Summarize, Turns, After, Summary
  <2>4. CASE List
    BY <1>0, <2>4 DEF List, Turns, After, Summary
  <2>5. CASE AdminLeaves
    BY <2>5 DEF AdminLeaves, NoSummary
  <2> QED BY <1>3, <2>1, <2>2, <2>3, <2>4, <2>5 DEF Admin
<1>4. ASSUME NEW w \in Responses, OpenSheet(w) \/ CloseSheet(w) PROVE Timely'
  BY <1>4 DEF OpenSheet, CloseSheet
<1>5. ASSUME NEW c \in Calls, NEW w \in Responses, NEW p \in Payload, Post(c, w, p) PROVE Timely'
  BY <1>5 DEF Post
<1>6. ASSUME NEW c \in Calls, Refuse(c) \/ Match(c) PROVE Timely'
  <2>1. \A d \in Calls : pc'[d] \in Transaction => pc'[d] = pc[d]
    BY <1>6 DEF Refuse, Match, Answer
  <2> QED BY <1>6, <2>1 DEF Refuse, Match
<1>7. ASSUME NEW c \in Calls, Begin(c) PROVE Timely'
  BY <1>7 DEF Begin
<1>8. ASSUME NEW c \in Calls, Skip(c) \/ Insert(c) PROVE Timely'
  BY <1>8 DEF Skip, Insert
<1>9. ASSUME NEW c \in Calls, Commit(c) PROVE Timely'
  <2>1. NewRow(c).text # NoText => NewRow(c).expires = stamp[c] + Retention
    BY <1>9, NewRowShape DEF Commit, Sent
  <2>2. now < stamp[c] + Retention
    BY <1>9 DEF Commit
  <2>3. \A d \in Calls : pc'[d] \in Transaction => pc'[d] = pc[d]
    BY <1>9 DEF Commit, Answer
  <2> QED BY <1>0, <1>9, <2>1, <2>2, <2>3 DEF Commit
<1>10. ASSUME NEW c \in Calls, Abort(c) PROVE Timely'
  <2>1. \A d \in Calls : pc'[d] \in Transaction => pc'[d] = pc[d]
    BY <1>10 DEF Abort, Answer
  <2> QED BY <1>10, <2>1 DEF Abort
<1>11. ASSUME NEW c \in Calls, Hear(c) \/ Lose(c) PROVE Timely'
  BY <1>11 DEF Hear, Lose
<1>12. CASE UNCHANGED vars BY <1>12 DEF vars
<1> QED
  BY <1>1, <1>2, <1>3, <1>4, <1>5, <1>6, <1>7, <1>8, <1>9, <1>10, <1>11, <1>12, ButtonsSend
  DEF Next, Serve, LikeIt, Complain

-----------------------------------------------------------------------------
Told == RecordedIsStored /\ ConflictIsReal

(* A step that answers nobody and stores nothing keeps what was told.      *)
LEMMA QuietTold ==
  ASSUME Inv, UNCHANGED rows, UNCHANGED about,
         \A c \in Calls : pc'[c] \in {"RECORDED", "CONFLICT"} =>
           pc'[c] = pc[c] /\ payload'[c] = payload[c]
  PROVE  Told'
BY DEF Inv, Told, RecordedIsStored, ConflictIsReal

(* A purge takes nothing from what was told but a text.                    *)
LEMMA PurgeTold ==
  ASSUME Inv, Purge, UNCHANGED calls
  PROVE  Told'
<1> USE DEF calls
<1>1. TypeOK BY DEF Inv
<1>2. ASSUME NEW c \in Calls, pc[c] = "RECORDED"
      PROVE  Says(rows'[about[c]], Write(payload[c]))
  <2>1. Says(rows[about[c]], Write(payload[c])) /\ about[c] \in Responses
    BY <1>1, <1>2 DEF Inv, RecordedIsStored, TypeOK
  <2> QED BY <1>1, <2>1, PurgeKeeps DEF Says
<1>3. ASSUME NEW c \in Calls, pc[c] = "CONFLICT"
      PROVE  /\ rows'[about[c]] # NoRow
             /\ LET x == rows'[about[c]]
                    y == Write(payload[c])
                IN <<x.rating, x.code, x.text, x.altered>> # <<y.rating, y.code, y.text, y.altered>>
  <2> DEFINE w == about[c]
             y == Write(payload[c])
  <2>1. /\ rows[w] # NoRow /\ w \in Responses
        /\ \/ rows[w].rating # y.rating \/ rows[w].code # y.code
           \/ rows[w].text # y.text \/ rows[w].altered # y.altered
    BY <1>1, <1>3 DEF Inv, ConflictIsReal, TypeOK
  <2>2. y.code = "OTHER" => y.text # NoText
    BY <1>1, WriteShape DEF TypeOK
  <2>3. rows[w].text # NoText => rows[w].code = "OTHER"
    BY <2>1 DEF Inv, Sent
  <2> HIDE DEF w, y
  <2>4. /\ rows'[w] # NoRow
        /\ \/ rows'[w].rating # y.rating \/ rows'[w].code # y.code
           \/ rows'[w].text # y.text \/ rows'[w].altered # y.altered
    BY <1>1, <2>1, <2>2, <2>3, PurgeKeeps
  <2> QED BY <2>4 DEF w, y
<1> QED BY <1>2, <1>3 DEF Told, RecordedIsStored, ConflictIsReal

(* Every step keeps what the answers say of the stored opinion.            *)
LEMMA ToldStep == Inv /\ [Next]_vars => Told'
<1> SUFFICES ASSUME Inv, [Next]_vars PROVE Told'
  OBVIOUS
<1> USE FeedbackAssumption, NoRowAssumption
<1> USE DEF Inv, TypeOK, database, calls, buttons
<1>1. CASE Tick BY <1>1, QuietTold DEF Tick
<1>2. CASE PeriodicPurge BY <1>2, PurgeTold DEF PeriodicPurge
<1>3. CASE Admin
  <2>1. CASE AdminPurge BY <2>1, PurgeTold DEF AdminPurge
  <2>2. CASE ~AdminPurge
    BY <1>3, <2>2, QuietTold DEF Admin, AdminArrives, Summarize, List, AdminLeaves
  <2> QED BY <2>1, <2>2
<1>4. ASSUME NEW w \in Responses, OpenSheet(w) \/ CloseSheet(w) PROVE Told'
  BY <1>4, QuietTold DEF OpenSheet, CloseSheet
<1>5. ASSUME NEW c \in Calls, NEW w \in Responses, NEW p \in Payload, Post(c, w, p) PROVE Told'
  <2>1. \A d \in Calls : pc'[d] \in {"RECORDED", "CONFLICT"} => pc'[d] = pc[d] /\ payload'[d] = payload[d]
    BY <1>5 DEF Post
  <2> QED BY <1>5, <2>1, QuietTold DEF Post
<1>6. ASSUME NEW c \in Calls, Refuse(c) \/ Abort(c) PROVE Told'
  <2>1. \A d \in Calls : pc'[d] \in {"RECORDED", "CONFLICT"} => pc'[d] = pc[d] /\ payload'[d] = payload[d]
    BY <1>6 DEF Refuse, Abort, Answer
  <2> QED BY <1>6, <2>1, QuietTold DEF Refuse, Abort
<1>7. ASSUME NEW c \in Calls, Begin(c) \/ Skip(c) \/ Insert(c) PROVE Told'
  <2>1. \A d \in Calls : pc'[d] \in {"RECORDED", "CONFLICT"} => pc'[d] = pc[d] /\ payload'[d] = payload[d]
    BY <1>7 DEF Begin, Skip, Insert
  <2> QED BY <1>7, <2>1, QuietTold DEF Begin, Skip, Insert
<1>8. ASSUME NEW c \in Calls, Commit(c) PROVE Told'
  <2>1. Says(NewRow(c), Write(payload[c]))
    BY <1>8, NewRowShape DEF Commit, Sent, Transaction
  <2>2. rows[about[c]] = NoRow /\ about[c] \in Responses
    BY <1>8 DEF Commit, Keyed
  <2>3. \A d \in Calls : pc[d] \in {"RECORDED", "CONFLICT"} => about[d] # about[c]
    BY <2>2 DEF RecordedIsStored, ConflictIsReal, Says
  <2>4. \A d \in Calls : pc'[d] \in {"RECORDED", "CONFLICT"} =>
          \/ d = c /\ pc'[c] = "RECORDED"
          \/ pc'[d] = pc[d] /\ rows'[about[d]] = rows[about[d]]
    BY <1>8, <2>3 DEF Commit, Answer
  <2>5. rows'[about[c]] = NewRow(c) /\ UNCHANGED <<about, payload>>
    BY <1>8, <2>2 DEF Commit
  <2>6. ASSUME NEW d \in Calls, pc'[d] = "RECORDED"
        PROVE  Says(rows'[about[d]], Write(payload[d]))
    BY <2>1, <2>4, <2>5, <2>6 DEF RecordedIsStored
  <2>7. ASSUME NEW d \in Calls, pc'[d] = "CONFLICT"
        PROVE  pc[d] = "CONFLICT" /\ rows'[about[d]] = rows[about[d]]
    BY <2>4, <2>7
  <2> QED BY <2>5, <2>6, <2>7 DEF Told, RecordedIsStored, ConflictIsReal
<1>9. ASSUME NEW c \in Calls, Match(c) PROVE Told'
  <2> DEFINE x == rows[about[c]]
             y == Write(payload[c])
  <2>1. x # NoRow
    BY <1>9 DEF Match, Keyed
  <2>2. pc' = [pc EXCEPT ![c] = IF Same(x, y) THEN "RECORDED" ELSE "CONFLICT"]
    BY <1>9 DEF Match, Answer
  <2>3. UNCHANGED <<rows, about, payload>>
    BY <1>9 DEF Match
  <2>4. Same(x, y) => Says(x, y)
    BY <2>1 DEF Same, Says
  <2>5. ~Same(x, y) => <<x.rating, x.code, x.text, x.altered>> # <<y.rating, y.code, y.text, y.altered>>
    BY DEF Same
  <2> HIDE DEF x, y
  <2>6. \A d \in Calls : d # c => pc'[d] = pc[d]
    BY <2>2
  <2>7. pc'[c] = IF Same(x, y) THEN "RECORDED" ELSE "CONFLICT"
    BY <2>2
  <2>8. RecordedIsStored'
    BY <2>3, <2>4, <2>6, <2>7 DEF RecordedIsStored, x, y
  <2>9. ConflictIsReal'
    BY <2>1, <2>3, <2>5, <2>6, <2>7 DEF ConflictIsReal, x, y
  <2> QED BY <2>8, <2>9 DEF Told
<1>10. ASSUME NEW c \in Calls, Hear(c) \/ Lose(c) PROVE Told'
  BY <1>10, QuietTold DEF Hear, Lose
<1>11. CASE UNCHANGED vars BY <1>11, QuietTold DEF vars
<1> QED
  BY <1>1, <1>2, <1>3, <1>4, <1>5, <1>6, <1>7, <1>8, <1>9, <1>10, <1>11, ButtonsSend
  DEF Next, Serve, LikeIt, Complain

-----------------------------------------------------------------------------
(* Every step keeps the buttons' thanks true.                              *)
LEMMA VoteStep == Inv /\ [Next]_vars => VoteIsStored'
<1> SUFFICES ASSUME Inv, [Next]_vars PROVE VoteIsStored'
  OBVIOUS
<1> USE FeedbackAssumption, NoRowAssumption
<1> USE DEF Inv, TypeOK, VoteIsStored, database, calls, buttons
<1>1. CASE Tick \/ PeriodicPurge BY <1>1, PurgeKeeps DEF Tick, PeriodicPurge
<1>2. CASE Admin
  <2>1. CASE AdminPurge BY <2>1, PurgeKeeps DEF AdminPurge
  <2>2. CASE ~AdminPurge
    BY <1>2, <2>2 DEF Admin, AdminArrives, Summarize, List, AdminLeaves
  <2> QED BY <2>1, <2>2
<1>3. ASSUME NEW w \in Responses, OpenSheet(w) \/ CloseSheet(w) PROVE VoteIsStored'
  BY <1>3 DEF OpenSheet, CloseSheet
<1>4. ASSUME NEW c \in Calls, NEW w \in Responses, NEW p \in Payload, Post(c, w, p) PROVE VoteIsStored'
  BY <1>4 DEF Post
<1>5. ASSUME NEW c \in Calls, Refuse(c) \/ Match(c) \/ Abort(c) PROVE VoteIsStored'
  BY <1>5 DEF Refuse, Match, Abort
<1>6. ASSUME NEW c \in Calls, Begin(c) \/ Skip(c) \/ Insert(c) PROVE VoteIsStored'
  BY <1>6 DEF Begin, Skip, Insert
<1>7. ASSUME NEW c \in Calls, Commit(c) PROVE VoteIsStored'
  <2>1. rows[about[c]] = NoRow /\ voted[about[c]] = "NONE"
    BY <1>7 DEF Commit, Keyed
  <2> QED BY <1>7, <2>1 DEF Commit
<1>8. ASSUME NEW c \in Calls, Hear(c) PROVE VoteIsStored'
  <2>1. CASE Thanks(c)
    <3>1. Says(rows[about[c]], Write(payload[c]))
      BY <2>1 DEF Thanks, RecordedIsStored
    <3>2. rows[about[c]] # NoRow /\ rows[about[c]].rating = payload[c].rating
      BY <3>1, WriteShape DEF Says
    <3> QED BY <1>8, <2>1, <3>2 DEF Hear
  <2>2. CASE ~Thanks(c) BY <1>8, <2>2 DEF Hear
  <2> QED BY <2>1, <2>2
<1>9. ASSUME NEW c \in Calls, Lose(c) PROVE VoteIsStored'
  BY <1>9 DEF Lose
<1>10. CASE UNCHANGED vars BY <1>10 DEF vars
<1> QED
  BY <1>1, <1>2, <1>3, <1>4, <1>5, <1>6, <1>7, <1>8, <1>9, <1>10, ButtonsSend
  DEF Next, Serve, LikeIt, Complain

(* Every step keeps expired texts out of the summary.                      *)
LEMMA ShownStep == Inv /\ [Next]_vars => ShownWasUnexpired'
<1> SUFFICES ASSUME Inv, [Next]_vars PROVE ShownWasUnexpired'
  OBVIOUS
<1> USE DEF Inv, ShownWasUnexpired
<1>0. admin \in Summary
  BY DEF TypeOK
<1>1. CASE AdminArrives
  <2>1. admin'.shown = {}
    BY <1>0, <1>1 DEF AdminArrives, Turns, Summary, Timely
  <2> QED BY <2>1
<1>2. CASE AdminPurge \/ Summarize
  <2>1. admin'.shown = admin.shown /\ admin'.since = admin.since
    BY <1>0, <1>2 DEF AdminPurge, Summarize, Turns, Summary
  <2> QED BY <2>1
<1>3. CASE List
  <2>1. PICK S \in SUBSET Responses :
          Newest(S) /\ Turns([admin EXCEPT !.shown = {[id |-> w, row |-> rows[w]] : w \in S}])
    BY <1>3 DEF List
  <2>2. /\ admin'.shown = {[id |-> w, row |-> rows[w]] : w \in S}
        /\ admin'.since = admin.since /\ S \subseteq Stored
    BY <1>0, <2>1 DEF Turns, Summary, Newest
  <2>3. \A w \in Stored : rows[w].text # NoText => rows[w].expires > admin.since
    BY <1>3 DEF List, Timely, Stored
  <2>4. rows' = rows
    BY <1>3 DEF List, database
  <2> QED BY <2>3, <2>2, <2>4
<1>4. CASE AdminLeaves BY <1>4 DEF AdminLeaves, NoSummary
<1>5. CASE UNCHANGED admin BY <1>5
<1>6. AdminArrives \/ AdminPurge \/ Summarize \/ List \/ AdminLeaves \/ UNCHANGED admin
  BY DEF Next, Admin, Tick, PeriodicPurge, OpenSheet, CloseSheet, LikeIt, Complain, Post, Serve,
         Refuse, Begin, Insert, Skip, Commit, Match, Abort, Hear, Lose, vars
<1> QED BY <1>1, <1>2, <1>3, <1>4, <1>5, <1>6

(* The invariant holds in every reachable state.                           *)
THEOREM Invariance == Spec => []Inv
<1>1. Inv /\ [Next]_vars => Inv'
  BY TypeStep, KeyedStep, SentStep, TimelyStep, ToldStep, VoteStep, ShownStep DEF Inv, Told
<1> QED BY InvInit, <1>1, PTL DEF Spec

-----------------------------------------------------------------------------
(* Every variable keeps its type, and every row its CHECKed shape.         *)
THEOREM TypeCorrect == Spec => []TypeOK
<1>1. Inv => TypeOK BY DEF Inv
<1> QED BY Invariance, <1>1, PTL

(* RECORDED means: this opinion is stored, up to a text that was purged.   *)
THEOREM RecordedHolds == Spec => []RecordedIsStored
<1>1. Inv => RecordedIsStored BY DEF Inv
<1> QED BY Invariance, <1>1, PTL

(* CONFLICT means: another opinion is stored, or its text is gone.         *)
THEOREM ConflictHolds == Spec => []ConflictIsReal
<1>1. Inv => ConflictIsReal BY DEF Inv
<1> QED BY Invariance, <1>1, PTL

(* The buttons thank for the rating that is stored.                        *)
THEOREM VoteHolds == Spec => []VoteIsStored
<1>1. Inv => VoteIsStored BY DEF Inv
<1> QED BY Invariance, <1>1, PTL

(* The summary shows no text that had expired when it was asked for.       *)
THEOREM ShownHolds == Spec => []ShownWasUnexpired
<1>1. Inv => ShownWasUnexpired BY DEF Inv
<1> QED BY Invariance, <1>1, PTL

(* No step replaces a stored opinion.                                      *)
THEOREM FirstStays == Spec => FirstOpinionStays
<1> DEFINE Keeps ==
      \A w \in Responses :
        rows[w] # NoRow /\ rows'[w] # rows[w] =>
          /\ rows[w].text # NoText /\ rows[w].expires =< now
          /\ rows'[w] = [rows[w] EXCEPT !.text = NoText, !.purged = now]
<1>1. Inv /\ [Next]_vars => [Keeps]_vars
  <2> SUFFICES ASSUME Inv, Next PROVE Keeps
    BY DEF vars
  <2>1. CASE Purge BY <2>1, PurgeKeeps DEF Inv
  <2>2. ASSUME NEW c \in Calls, Commit(c) PROVE Keeps
    <3>1. rows[about[c]] = NoRow
      BY <2>2 DEF Commit, Inv, Keyed
    <3> QED BY <2>2, <3>1 DEF Commit, Inv, TypeOK
  <2>3. CASE UNCHANGED rows BY <2>3
  <2>4. Purge \/ (\E c \in Calls : Commit(c)) \/ UNCHANGED rows
    BY DEF Next, Admin, Tick, PeriodicPurge, AdminArrives, AdminPurge, Summarize, List, AdminLeaves,
           OpenSheet, CloseSheet, LikeIt, Complain, Post, Serve, Refuse, Begin, Insert, Skip, Match,
           Abort, Hear, Lose, database
  <2> QED BY <2>1, <2>2, <2>3, <2>4
<1>2. Inv /\ [Next]_vars => [\A w \in Responses :
        rows[w] # NoRow /\ rows'[w] # rows[w] =>
          /\ rows[w].text # NoText /\ rows[w].expires =< now
          /\ rows'[w] = [rows[w] EXCEPT !.text = NoText, !.purged = now]]_vars
  BY <1>1
<1> QED BY Invariance, <1>2, PTL DEF Spec, FirstOpinionStays


-----------------------------------------------------------------------------
(* The stored opinions that are good ones. *)
Content == {w \in Stored : rows[w].rating = "SATISFIED"}

(* Until the list is read, as many opinions are stored as were counted. *)
StillStored ==
  admin.step = "list" =>
    admin.total =< Cardinality(Stored) /\ admin.good =< Cardinality(Content)

(* No opinion goes, and none changes its rating. *)
LEMMA StoredStays ==
  ASSUME Inv, [Next]_vars
  PROVE  \A w \in Responses :
           rows[w] # NoRow => rows'[w] # NoRow /\ rows'[w].rating = rows[w].rating
<1>1. CASE Purge
  BY <1>1, PurgeKeeps DEF Inv
<1>2. ASSUME NEW c \in Calls, Commit(c), NEW w \in Responses, rows[w] # NoRow
      PROVE  rows'[w] = rows[w]
  <2>1. about[c] # w
    BY <1>2 DEF Commit, Inv, Keyed
  <2> QED
    BY <1>2, <2>1 DEF Commit, Inv, TypeOK
<1>3. CASE UNCHANGED rows
  BY <1>3
<1>4. Purge \/ (\E c \in Calls : Commit(c)) \/ UNCHANGED rows
  BY DEF Next, Admin, Tick, PeriodicPurge, AdminArrives, AdminPurge, Summarize, List, AdminLeaves,
         OpenSheet, CloseSheet, LikeIt, Complain, Post, Serve, Refuse, Begin, Insert, Skip, Match,
         Abort, Hear, Lose, database, vars
<1> QED
  BY <1>1, <1>2, <1>3, <1>4

(* A list of rows, each under its response, is as long as what it lists. *)
LEMMA ListIsAsLong ==
  ASSUME NEW S \in SUBSET Responses, NEW T,
         T = {[id |-> w, row |-> rows[w]] : w \in S}
  PROVE  Cardinality(T) = Cardinality(S)
<1> DEFINE f == [w \in S |-> [id |-> w, row |-> rows[w]]]
<1>1. f \in Bijection(S, T)
  <2>1. f \in [S -> T] /\ \A t \in T : \E w \in S : f[w] = t
    OBVIOUS
  <2>2. \A v, w \in S : f[v] = f[w] => v = w
    <3>1. \A w \in S : f[w].id = w
      OBVIOUS
    <3> QED BY <3>1
  <2>3. \A v, w \in DOMAIN f : f[v] = f[w] => v = w
    BY <2>2
  <2> HIDE DEF f
  <2> QED BY <2>1, <2>3 DEF Bijection, Injection, Surjection, IsInjective
<1>2. ExistsBijection(S, T)
  BY <1>1 DEF ExistsBijection
<1> QED
  BY <1>2, FS_Bijection, FS_Subset, FeedbackAssumption

LEMMA CountsStep ==
  Inv /\ StillStored /\ ListCoversTotals /\ [Next]_vars => StillStored' /\ ListCoversTotals'
<1> SUFFICES ASSUME Inv, StillStored, ListCoversTotals, [Next]_vars
             PROVE  StillStored' /\ ListCoversTotals'
  OBVIOUS
<1>0. admin \in Summary /\ admin' \in Summary
  BY TypeStep DEF Inv, TypeOK
<1>a. /\ Cardinality(Stored) \in Nat /\ Cardinality(Content) \in Nat
      /\ Cardinality(Stored) =< Cardinality(Stored')
      /\ Cardinality(Content) =< Cardinality(Content')
      /\ Cardinality(Stored') \in Nat /\ Cardinality(Content') \in Nat
  <2>1. Stored \subseteq Stored' /\ Content \subseteq Content'
    BY StoredStays DEF Stored, Content
  <2>2. Stored' \in SUBSET Responses /\ Content' \in SUBSET Responses
    BY DEF Stored, Content
  <2>3. IsFiniteSet(Stored') /\ IsFiniteSet(Content')
    BY <2>2, FS_Subset, FeedbackAssumption
  <2>4. IsFiniteSet(Stored) /\ IsFiniteSet(Content)
    BY <2>1, <2>3, FS_Subset
  <2>5. Cardinality(Stored) =< Cardinality(Stored') /\ Cardinality(Content) =< Cardinality(Content')
    BY <2>1, <2>3, FS_Subset
  <2> QED
    BY <2>3, <2>4, <2>5, FS_CardinalityType
<1>1. CASE AdminArrives \/ AdminPurge \/ AdminLeaves
  <2>1. admin'.step \in {"idle", "purge", "summarize"}
    <3>1. After("idle") = "purge" /\ After("purge") = "summarize"
      BY DEF After
    <3>2. AdminArrives => admin'.step = "purge"
      BY <1>0, <3>1 DEF AdminArrives, Turns, Summary
    <3>3. AdminPurge => admin'.step = "summarize"
      BY <1>0, <3>1 DEF AdminPurge, Turns, Summary
    <3>4. AdminLeaves => admin'.step = "idle"
      BY DEF AdminLeaves, NoSummary
    <3> QED BY <1>1, <3>2, <3>3, <3>4
  <2> QED
    BY <2>1 DEF StillStored, ListCoversTotals
<1>2. CASE Summarize
  <2>1. /\ admin'.step = "list" /\ admin'.total = Cardinality(Stored)
        /\ admin'.good = Cardinality(Content)
    BY <1>0, <1>2 DEF Summarize, Turns, After, Summary, Content
  <2> QED
    BY <1>a, <2>1 DEF StillStored, ListCoversTotals
<1>3. CASE List
  <2>1. PICK S \in SUBSET Responses :
          Newest(S) /\ Turns([admin EXCEPT !.shown = {[id |-> w, row |-> rows[w]] : w \in S}])
    BY <1>3 DEF List
  <2>2. /\ admin'.step = "done" /\ admin'.total = admin.total /\ admin'.good = admin.good
        /\ admin'.shown = {[id |-> w, row |-> rows[w]] : w \in S}
    BY <1>0, <1>3, <2>1 DEF List, Turns, After, Summary
  <2>3. Cardinality(admin'.shown) = Cardinality(S)
    BY <2>2, ListIsAsLong
  <2>4. CASE Cardinality(S) = Limit
    BY <2>2, <2>3, <2>4 DEF StillStored, ListCoversTotals
  <2>5. CASE Cardinality(S) # Limit
    <3>1. Cardinality(S) \in Nat /\ Limit \in Nat /\ Cardinality(S) =< Limit
      BY <2>1, Counts, FeedbackAssumption DEF Newest
    <3>2. S = Stored
      BY <2>1, <2>5, <3>1 DEF Newest
    <3>3. {x \in admin'.shown : x.row.rating = "SATISFIED"}
            = {[id |-> w, row |-> rows[w]] : w \in Content}
      BY <2>2, <3>2 DEF Content
    <3>4. Cardinality({x \in admin'.shown : x.row.rating = "SATISFIED"}) = Cardinality(Content)
      BY <3>3, ListIsAsLong DEF Content, Stored
    <3>5. admin.total =< Cardinality(Stored) /\ admin.good =< Cardinality(Content)
      BY <1>3 DEF List, StillStored
    <3> QED
      BY <2>2, <2>3, <3>2, <3>4, <3>5 DEF StillStored, ListCoversTotals
  <2> QED
    BY <2>4, <2>5
<1>4. CASE UNCHANGED admin
  <2>1. admin.total \in Nat /\ admin.good \in Nat
    BY <1>0 DEF Summary
  <2>2. StillStored'
    BY <1>4, <1>a, <2>1 DEF StillStored
  <2>3. ListCoversTotals'
    BY <1>4 DEF ListCoversTotals
  <2> QED
    BY <2>2, <2>3
<1>5. AdminArrives \/ AdminPurge \/ Summarize \/ List \/ AdminLeaves \/ UNCHANGED admin
  BY DEF Next, Admin, Tick, PeriodicPurge, OpenSheet, CloseSheet, LikeIt, Complain, Post, Serve,
         Refuse, Begin, Insert, Skip, Commit, Match, Abort, Hear, Lose, vars
<1> QED BY <1>1, <1>2, <1>3, <1>4, <1>5

(* Unless it is full, the list has at least as many opinions, and as many  *)
(* good ones, as the totals that were read before it.                      *)
THEOREM ListCovers == Spec => []ListCoversTotals
<1>1. Init => StillStored /\ ListCoversTotals
  BY DEF Init, StillStored, ListCoversTotals, NoSummary
<1>2. Inv /\ (StillStored /\ ListCoversTotals) /\ [Next]_vars => (StillStored /\ ListCoversTotals)'
  BY CountsStep
<1> QED BY Invariance, <1>1, <1>2, PTL DEF Spec
=============================================================================
