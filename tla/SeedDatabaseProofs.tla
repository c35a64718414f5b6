------------------------- MODULE SeedDatabaseProofs -------------------------
(***************************************************************************)
(* Proofs about the data release, for any draft, any number of commands,   *)
(* sessions, citizens and edits.  The invariant has a part about the files *)
(* (what a command still holds of the draft it captured) and a part about  *)
(* the locks (what a script's locks and an interaction's locks exclude).   *)
(***************************************************************************)
EXTENDS SeedDatabase, SequenceTheorems, FiniteSetTheorems, TLAPS

(***************************************************************************)
(* The readings of a command.                                              *)
(***************************************************************************)
Readings == [pass : {"hash", "value", "bytes", "count", "entry", "captured"},
             file : Staged \cup Sources]

(* Every staged file is captured.                                          *)
LEMMA DraftReadsAll ==
  \A f \in Staged : \E i \in 1..Len(DraftReads) :
    DraftReads[i] = Reading("captured", f)
<1> DEFINE q == <<"kb", "office", "mapping", "approval">>
<1>2. DraftReads = [i \in 1..4 |-> Reading("captured", q[i])]
  BY DEF DraftReads, Pass
<1>3. Len(DraftReads) = 4
  BY <1>2
<1>4. ASSUME NEW f \in Staged
      PROVE  \E i \in 1..4 : DraftReads[i] = Reading("captured", f)
  <2>1. \E i \in 1..4 : q[i] = f
    BY DEF Staged, Content
  <2> QED BY <2>1, <1>2
<1> QED BY <1>3, <1>4

(* The readings of the staging check: they capture nothing, and are not the *)
(* look at the manifest that is to be replaced.                            *)
Inspections == [pass : {"hash", "value", "bytes", "count", "entry"},
                file : Staged \cup Sources]

LEMMA InspectionReads ==
  StagingReads \in Seq(Inspections) /\ OverrideReads \in Seq(Inspections)
<1>1. ContentReads \in Seq(Inspections)
  BY DEF ContentReads, Inspections, Reading, Staged, Content, Sources
<1>2. ManifestReads \in Seq(Inspections)
  BY DEF ManifestReads, Inspections, Reading, Staged, Content, Sources
<1>3. AuditReads \in Seq(Inspections)
  BY DEF AuditReads, Inspections, Reading, Staged, Content, Sources
<1> QED BY <1>1, <1>2, <1>3 DEF StagingReads, OverrideReads

LEMMA ReadsTyped == DraftReads \in Seq(Readings) /\ StagingReads \in Seq(Readings)
<1>1. DraftReads \in Seq(Readings)
  <2> DEFINE q == <<"kb", "office", "mapping", "approval">>
  <2>1. DraftReads = [i \in 1..4 |-> Reading("captured", q[i])]
    BY DEF DraftReads, Pass
  <2>2. \A i \in 1..4 : q[i] \in Staged
    BY DEF Staged, Content
  <2>3. \A i \in 1..4 : Reading("captured", q[i]) \in Readings
    BY <2>2 DEF Readings, Reading
  <2> HIDE DEF q
  <2> QED BY <2>1, <2>3
<1>2. StagingReads \in Seq(Readings)
  <2>1. StagingReads \in Seq(Inspections)
    BY InspectionReads
  <2>2. Inspections \subseteq Readings
    BY DEF Inspections, Readings
  <2> QED BY <2>1, <2>2
<1> QED BY <1>1, <1>2

(* The staging check captures nothing.                                     *)
LEMMA StagingReadsOther ==
  \A i \in 1..Len(StagingReads) : StagingReads[i].pass # "captured"
<1>1. \A i \in 1..Len(StagingReads) : StagingReads[i] \in Inspections
  BY InspectionReads
<1> QED BY <1>1 DEF Inspections

(***************************************************************************)
(* The files' part of the invariant.                                       *)
(***************************************************************************)
Shape ==
  /\ DOMAIN stage = Commands
  /\ DOMAIN todo = Commands
  /\ DOMAIN got = Commands
  /\ DOMAIN payload = Commands
  /\ DOMAIN plan = Sessions

(* While it captures, a command has read a staged file or will.            *)
Capturing ==
  \A c \in Commands : stage[c] = "draft" =>
    /\ todo[c] \in Seq(Readings)
    /\ \A f \in Staged :
      \/ Reading("captured", f) \in DOMAIN got[c]
      \/ \E i \in 1..Len(todo[c]) : todo[c][i] = Reading("captured", f)

(* While the gate runs, it still holds what it captured, and that is the   *)
(* pinned draft.                                                           *)
GateKeeps ==
  \A c \in Commands : stage[c] = "gate" =>
    /\ todo[c] \in Seq(Readings)
    /\ \A i \in 1..Len(todo[c]) : todo[c][i].pass # "captured"
    /\ \A f \in Staged : /\ Reading("captured", f) \in DOMAIN got[c]
                         /\ got[c][Reading("captured", f)] = Pinned[f]

CarriesReviewed ==
  \A c \in Commands :
    stage[c] \in {"again", "regate", "loaded", "running"} => payload[c] = Committed

(* Only a running command has something to do with the database.           *)
PlansRunning == \A c \in Commands : plan[c] # <<>> => stage[c] = "running"

FilesInv == Shape /\ Capturing /\ GateKeeps /\ CarriesReviewed /\ PlansRunning

(* A command leaves the stages the invariant speaks of, or stays out.      *)
Outside == {"idle", "plan", "check", "exists", "compare", "write", "release",
            "passed", "failed"}

LEMMA LeavingKeeps ==
  ASSUME FilesInv, NEW c \in Commands, NEW n \in Outside, NEW reads, NEW learnt,
         stage[c] # "running",
         stage' = [stage EXCEPT ![c] = n],
         todo' = [todo EXCEPT ![c] = reads],
         got' \in {got, [got EXCEPT ![c] = learnt]},
         payload' = payload, plan' = plan
  PROVE  FilesInv'
<1> USE DEF FilesInv, Outside
<1>2. Shape'
  BY DEF Shape
<1>3. \A d \in Commands \ {c} :
         /\ stage'[d] = stage[d] /\ todo'[d] = todo[d] /\ got'[d] = got[d]
         /\ payload'[d] = payload[d] /\ plan'[d] = plan[d]
  BY DEF Shape
<1>4. stage'[c] = n /\ plan'[c] = plan[c]
  BY DEF Shape
<1>5. Capturing'
  BY <1>3, <1>4 DEF Capturing
<1>6. GateKeeps'
  BY <1>3, <1>4 DEF GateKeeps
<1>7. CarriesReviewed'
  BY <1>3, <1>4 DEF CarriesReviewed, Committed, Reviewable
<1>8. PlansRunning'
  BY <1>3, <1>4 DEF PlansRunning
<1> QED BY <1>2, <1>5, <1>6, <1>7, <1>8

LEMMA ReadKeeps ==
  ASSUME FilesInv, NEW c \in Commands, Read(c), UNCHANGED plan
  PROVE  FilesInv'
<1> DEFINE r == Head(todo[c])
<1> USE DEF FilesInv, Read
<1>1. Shape'
  BY DEF Shape
<1>2. \A d \in Commands \ {c} : todo'[d] = todo[d] /\ got'[d] = got[d]
  BY DEF Shape
<1>3. /\ todo'[c] = Tail(todo[c])
      /\ got'[c] = Learnt(got[c], r, disk[r.file])
  BY DEF Shape
<1>4. /\ DOMAIN got'[c] = DOMAIN got[c] \cup {r}
      /\ \A x \in DOMAIN got[c] : x # r => got'[c][x] = got[c][x]
  BY <1>3 DEF Learnt
<1>5. Capturing'
  <2>0. \A d \in Commands : stage[d] = "draft"
           => todo'[d] \in Seq(Readings)
    BY <1>2, <1>3 DEF Capturing
  <2> SUFFICES ASSUME NEW d \in Commands, stage[d] = "draft", NEW f \in Staged
               PROVE  \/ Reading("captured", f) \in DOMAIN got'[d]
                      \/ \E i \in 1..Len(todo'[d]) :
                           todo'[d][i] = Reading("captured", f)
    BY <2>0 DEF Capturing
  <2>1. CASE d # c
    BY <2>1, <1>2 DEF Capturing
  <2>2. CASE d = c
    <3>1. CASE Reading("captured", f) \in DOMAIN got[c]
      BY <3>1, <2>2, <1>4
    <3>2. CASE \E i \in 1..Len(todo[c]) : todo[c][i] = Reading("captured", f)
      <4>1. PICK i \in 1..Len(todo[c]) : todo[c][i] = Reading("captured", f)
        BY <3>2
      <4>2. CASE i = 1
        BY <4>1, <4>2, <2>2, <1>4
      <4>3. CASE i # 1
        <5>1. todo[c] \in Seq(Readings)
          BY <2>2 DEF Capturing
        <5>2. i - 1 \in 1..Len(Tail(todo[c])) /\ Tail(todo[c])[i - 1] = todo[c][i]
          BY <5>1, <4>1, <4>3
        <5> QED BY <5>2, <4>1, <2>2, <1>3
      <4> QED BY <4>2, <4>3
    <3> QED BY <3>1, <3>2, <2>2 DEF Capturing
  <2> QED BY <2>1, <2>2
<1>6. GateKeeps'
  <2> SUFFICES ASSUME NEW d \in Commands, stage[d] = "gate"
               PROVE  /\ todo'[d] \in Seq(Readings)
                      /\ \A i \in 1..Len(todo'[d]) : todo'[d][i].pass # "captured"
                      /\ \A f \in Staged :
                           /\ Reading("captured", f) \in DOMAIN got'[d]
                           /\ got'[d][Reading("captured", f)] = Pinned[f]
    BY DEF GateKeeps
  <2>1. CASE d # c
    BY <2>1, <1>2 DEF GateKeeps
  <2>2. CASE d = c
    <3>1. /\ todo[c] \in Seq(Readings)
          /\ \A i \in 1..Len(todo[c]) : todo[c][i].pass # "captured"
          /\ \A f \in Staged : /\ Reading("captured", f) \in DOMAIN got[c]
                               /\ got[c][Reading("captured", f)] = Pinned[f]
      BY <2>2 DEF GateKeeps
    <3>2. r.pass # "captured"
      BY <3>1
    <3>3. \A f \in Staged : Reading("captured", f) # r
      BY <3>2 DEF Reading
    <3>4. \A i \in 1..Len(Tail(todo[c])) : Tail(todo[c])[i] = todo[c][i + 1]
      BY <3>1
    <3> QED BY <2>2, <3>1, <3>3, <3>4, <1>3, <1>4
  <2> QED BY <2>1, <2>2
<1>7. CarriesReviewed' /\ PlansRunning'
  BY DEF CarriesReviewed, PlansRunning, Committed, Reviewable
<1> QED BY <1>1, <1>5, <1>6, <1>7

LEMMA SnapshotKeeps ==
  ASSUME FilesInv, NEW c \in Commands, SnapshotTaken(c), UNCHANGED plan
  PROVE  FilesInv'
<1> USE DEF FilesInv
<1>0. stage[c] \in {"draft", "again"} /\ todo[c] = <<>>
  BY DEF SnapshotTaken, At
<1>1. CASE ~ApprovedSnapshot(Captured(c), Pinned)
  BY <1>0, <1>1, LeavingKeeps DEF SnapshotTaken, Enter, Outside
<1>2. CASE ApprovedSnapshot(Captured(c), Pinned)
  <2> DEFINE n == IF stage[c] = "draft" THEN "gate" ELSE "regate"
  <2>1. /\ stage' = [stage EXCEPT ![c] = n]
        /\ todo' = [todo EXCEPT ![c] = StagingReads]
        /\ UNCHANGED <<got, payload>>
    BY <1>2 DEF SnapshotTaken, Enter
  <2>2. \A f \in Staged : got[c][Reading("captured", f)] = Pinned[f]
    <3>1. \A f \in Staged : Captured(c)[f] = got[c][Reading("captured", f)]
      BY DEF Captured, Of
    <3>2. \A f \in Staged : Captured(c)[f] = Pinned[f]
      BY <1>2 DEF ApprovedSnapshot, Staged
    <3> QED BY <3>1, <3>2
  <2>3. Shape'
    BY <2>1 DEF Shape
  <2>4. /\ \A d \in Commands \ {c} : stage'[d] = stage[d] /\ todo'[d] = todo[d]
        /\ stage'[c] = n /\ todo'[c] = StagingReads
    BY <2>1 DEF Shape
  <2>5. Capturing'
    BY <2>1, <2>4 DEF Capturing
  <2>6. GateKeeps'
    <3>1. stage[c] = "draft" => \A f \in Staged : Reading("captured", f) \in DOMAIN got[c]
      BY <1>0 DEF Capturing
    <3>2. CASE stage[c] = "draft"
      BY <3>1, <3>2, <2>1, <2>2, <2>4, StagingReadsOther, ReadsTyped DEF GateKeeps
    <3>3. CASE stage[c] # "draft"
      BY <3>3, <2>1, <2>4 DEF GateKeeps
    <3> QED BY <3>2, <3>3
  <2>7. CarriesReviewed'
    BY <1>0, <2>1, <2>4 DEF CarriesReviewed, Committed, Reviewable
  <2>8. PlansRunning'
    BY <1>0, <2>1, <2>4 DEF PlansRunning
  <2> QED BY <2>3, <2>5, <2>6, <2>7, <2>8
<1> QED BY <1>1, <1>2

(* The seven files were generated from the draft the command captured, and *)
(* that was the pinned one: so the scripts are those of the reviewed rows. *)
LEMMA MatchingIsReviewed ==
  ASSUME FilesInv, NEW c \in Commands, stage[c] = "gate", ReleaseMatches(c)
  PROVE  Summary(c) = Committed
<1>1. Captured(c) = Pinned
  BY PinnedAssumption DEF FilesInv, GateKeeps, Captured, Of
<1>2. Of(got[c], "release", Artifacts) = Bundle(Pinned)
  BY <1>1 DEF ReleaseMatches
<1>3. \A f \in Artifacts : got[c][Reading("release", f)] = Bundle(Pinned)[f]
  <2>1. \A f \in Artifacts : Of(got[c], "release", Artifacts)[f]
                                = got[c][Reading("release", f)]
    BY DEF Of
  <2> QED BY <2>1, <1>2
<1>4. /\ "release seed" \in Artifacts \ {"release manifest"}
      /\ "release compensation" \in Artifacts \ {"release manifest"}
  BY DEF Artifacts
<1>5. /\ Bundle(Pinned)["release seed"] = Script("seed", Reviewable)
      /\ Bundle(Pinned)["release compensation"] = Script("compensation", Reviewable)
  BY <1>4 DEF Bundle, BundleBody, Reviewable
<1>6. \A k, x : Script(k, x).body.rows = x
  BY DEF Script, Canonical
<1>7. /\ got[c][Reading("release", "release seed")] = Script("seed", Reviewable)
      /\ got[c][Reading("release", "release compensation")]
           = Script("compensation", Reviewable)
  BY <1>3, <1>4, <1>5
<1>8. /\ got[c][Reading("release", "release seed")].body.rows = Reviewable
      /\ got[c][Reading("release", "release compensation")].body.rows = Reviewable
  BY <1>6, <1>7, Zenon
<1> QED BY <1>1, <1>8 DEF Summary, Committed, Reviewable

LEMMA VerifiedKeeps ==
  ASSUME FilesInv, NEW c \in Commands, Verified(c), UNCHANGED plan
  PROVE  FilesInv'
<1> USE DEF FilesInv
<1>0. stage[c] = "gate"
  BY DEF Verified, At
<1>1. CASE ~ReleaseMatches(c)
  BY <1>0, <1>1, LeavingKeeps DEF Verified, Enter, Outside
<1>2. CASE ReleaseMatches(c)
  <2>1. /\ stage' = [stage EXCEPT ![c] = "again"]
        /\ todo' = [todo EXCEPT ![c] = DraftReads]
        /\ payload' = [payload EXCEPT ![c] = Committed]
        /\ got' = [got EXCEPT ![c] = <<>>]
    BY <1>0, <1>2, MatchingIsReviewed DEF Verified, Enter
  <2>2. Shape'
    BY <2>1 DEF Shape
  <2>3. /\ \A d \in Commands \ {c} :
             /\ stage'[d] = stage[d] /\ todo'[d] = todo[d] /\ got'[d] = got[d]
             /\ payload'[d] = payload[d]
        /\ stage'[c] = "again" /\ payload'[c] = Committed
    BY <2>1 DEF Shape
  <2>4. Capturing' /\ GateKeeps'
    BY <2>3 DEF Capturing, GateKeeps
  <2>5. CarriesReviewed'
    BY <2>3 DEF CarriesReviewed, Committed, Reviewable
  <2>6. PlansRunning'
    BY <1>0, <2>3 DEF PlansRunning
  <2> QED BY <2>2, <2>4, <2>5, <2>6
<1> QED BY <1>1, <1>2

(* A step that only moves a command outside of what the invariant covers.  *)
Moves(c) ==
  /\ stage[c] # "running" /\ UNCHANGED <<payload, plan>>
  /\ \E n \in Outside : \E reads : Enter(c, n, reads)
  /\ \E learnt : got' \in {got, [got EXCEPT ![c] = learnt]}

LEMMA MovesKeep ==
  ASSUME FilesInv, NEW c \in Commands, Moves(c)
  PROVE  FilesInv'
BY LeavingKeeps DEF Moves, Enter

LEMMA StepKeeps ==
  ASSUME FilesInv, NEW c \in Commands, Step(c), UNCHANGED plan
  PROVE  FilesInv'
<1> USE DEF At, Moves
<1>0. {"plan", "check", "exists", "compare", "write", "release", "passed", "failed"}
        \subseteq Outside
  BY DEF Outside
<1>1. ASSUME NEW o \in Staging \cup Loading, Start(c, o) PROVE Moves(c)
  BY <1>0, <1>1, Zenon DEF Start
<1>2. CASE Planned(c)
  <2>1. Moves(c)
    BY <1>0, <1>2, Zenon DEF Planned
  <2> QED BY <2>1, MovesKeep
<1>3. CASE Checked(c)
  <2> DEFINE n == IF ~Validated(c) THEN "failed"
                  ELSE IF op[c] = "validate" THEN "passed"
                  ELSE IF op[c] = "prepare" THEN "exists" ELSE "write"
  <2>1. n \in Outside
    BY <1>0
  <2>2. Enter(c, n, <<>>) /\ stage[c] = "check" /\ UNCHANGED <<got, payload>>
    BY <1>3 DEF Checked
  <2>3. Moves(c)
    BY <2>1, <2>2, Zenon
  <2> QED BY <2>3, MovesKeep
<1>4. CASE Exists(c)
  <2>1. Moves(c)
    BY <1>0, <1>4, Zenon DEF Exists
  <2> QED BY <2>1, MovesKeep
<1>5. CASE Compared(c)
  <2>1. Moves(c)
    BY <1>0, <1>5, Zenon DEF Compared
  <2> QED BY <2>1, MovesKeep
<1>6. CASE Write(c)
  <2>1. Moves(c)
    BY <1>0, <1>6, Zenon DEF Write
  <2> QED BY <2>1, MovesKeep
<1>7. CASE ReleaseRead(c)
  <2>1. CASE ~(\A f \in Artifacts : got[c][Reading("release", f)] # Absent)
    <3>1. Moves(c)
      BY <1>0, <1>7, <2>1, Zenon DEF ReleaseRead
    <3> QED BY <3>1, MovesKeep
  <2>2. CASE \A f \in Artifacts : got[c][Reading("release", f)] # Absent
    <3>1. /\ stage[c] = "release"
          /\ stage' = [stage EXCEPT ![c] = "draft"]
          /\ todo' = [todo EXCEPT ![c] = DraftReads]
          /\ UNCHANGED <<got, payload, plan>>
      BY <1>7, <2>2 DEF ReleaseRead, Enter
    <3>2. \A d \in Commands \ {c} : stage'[d] = stage[d] /\ todo'[d] = todo[d]
      BY <3>1 DEF FilesInv, Shape
    <3>3. stage'[c] = "draft" /\ todo'[c] = DraftReads
      BY <3>1 DEF FilesInv, Shape
    <3>4. Shape'
      BY <3>1 DEF FilesInv, Shape
    <3>5. Capturing'
      BY <3>1, <3>2, <3>3, DraftReadsAll, ReadsTyped DEF FilesInv, Capturing
    <3>6. GateKeeps'
      BY <3>1, <3>2, <3>3 DEF FilesInv, GateKeeps
    <3>7. CarriesReviewed' /\ PlansRunning'
      BY <3>1, <3>2, <3>3
         DEF FilesInv, CarriesReviewed, PlansRunning, Committed, Reviewable
    <3> QED BY <3>4, <3>5, <3>6, <3>7 DEF FilesInv
  <2> QED BY <2>1, <2>2
<1>8. CASE Loaded(c)
  <2>0. stage[c] = "regate"
    BY <1>8 DEF Loaded
  <2> DEFINE good == /\ StagingValid(got[c], PinnedMatrix)
                     /\ ProjectedRecords(Captured(c)) = payload[c].projection
  <2>1. CASE ~good
    <3>1. Moves(c)
      BY <1>0, <1>8, <2>1, Zenon DEF Loaded
    <3> QED BY <3>1, MovesKeep
  <2>2. CASE good
    <3>1. /\ stage' = [stage EXCEPT ![c] = "loaded"]
          /\ todo' = [todo EXCEPT ![c] = <<>>]
          /\ got' = [got EXCEPT ![c] = <<>>]
          /\ UNCHANGED <<payload, plan>>
      BY <1>8, <2>2 DEF Loaded, Enter
    <3>2. \A d \in Commands \ {c} :
            stage'[d] = stage[d] /\ todo'[d] = todo[d] /\ got'[d] = got[d]
      BY <3>1 DEF FilesInv, Shape
    <3>3. stage'[c] = "loaded"
      BY <3>1 DEF FilesInv, Shape
    <3>4. Shape'
      BY <3>1 DEF FilesInv, Shape
    <3>5. Capturing' /\ GateKeeps'
      BY <3>2, <3>3 DEF FilesInv, Capturing, GateKeeps
    <3>6. CarriesReviewed' /\ PlansRunning'
      BY <2>0, <3>1, <3>2, <3>3
         DEF FilesInv, CarriesReviewed, PlansRunning, Committed, Reviewable
    <3> QED BY <3>4, <3>5, <3>6 DEF FilesInv
  <2> QED BY <2>1, <2>2
<1> QED
  BY <1>1, <1>2, <1>3, <1>4, <1>5, <1>6, <1>7, <1>8, MovesKeep, ReadKeeps,
     SnapshotKeeps, VerifiedKeeps DEF Step

(* Nothing on the database side touches what a command holds of the files. *)
LEMMA OpenKeeps ==
  ASSUME FilesInv, NEW c \in Commands, Open(c)
  PROVE  FilesInv'
<1> USE DEF FilesInv, Open
<1>1. Shape'
  BY DEF Shape, Sessions
<1>2. /\ \A d \in Commands \ {c} : stage'[d] = stage[d] /\ plan'[d] = plan[d]
      /\ stage'[c] = "running"
  BY DEF Shape, Sessions
<1>3. Capturing' /\ GateKeeps'
  BY <1>2 DEF Capturing, GateKeeps
<1>4. CarriesReviewed' /\ PlansRunning'
  BY <1>2 DEF CarriesReviewed, PlansRunning, Committed, Reviewable
<1> QED BY <1>1, <1>3, <1>4

LEMMA OverKeeps ==
  ASSUME FilesInv, NEW s \in Sessions, NEW ok \in BOOLEAN, plan[s] # <<>>, Over(s, ok)
  PROVE  FilesInv'
<1> USE DEF FilesInv, Over
<1>1. Shape'
  BY DEF Shape
<1>2. \A d \in Sessions \ {s} : plan'[d] = plan[d]
  BY DEF Shape
<1>3. \A d \in Commands : stage'[d] # stage[d]
         => d = s /\ stage'[d] \in {"passed", "failed"} /\ plan'[d] = <<>>
  BY DEF Shape
<1>4. Capturing' /\ GateKeeps'
  BY <1>3 DEF Capturing, GateKeeps
<1>5. CarriesReviewed'
  BY <1>3 DEF CarriesReviewed, Committed, Reviewable
<1>6. PlansRunning'
  BY <1>2, <1>3 DEF PlansRunning, Sessions
<1> QED BY <1>1, <1>4, <1>5, <1>6

(***************************************************************************)
(* The locks' part of the invariant.                                       *)
(***************************************************************************)
Tables == Elements(LockTables)

LEMMA Eight ==
  /\ Len(LockTables) = 8
  /\ LockTables[1] = "kb_documents"
  /\ \A i \in 1..8 : LockTables[i] \in Tables
<1>1. Len(LockTables) = 8 /\ LockTables[1] = "kb_documents" /\ DOMAIN LockTables = 1..8
  BY DEF LockTables
<1> QED BY <1>1 DEF Tables, Elements

DbShape ==
  /\ advisory \in Sessions \cup {None}
  /\ DOMAIN exclusive = Tables
  /\ DOMAIN shared = Tables
  /\ at \in [Sessions -> Nat]
  /\ DOMAIN where = Citizens
  /\ DOMAIN cites = Citizens

(* Only the holder of the advisory lock is inside of a transaction, and it *)
(* has locked the tables up to where it is.                                *)
LocksHeld ==
  /\ advisory # None =>
       /\ Task(advisory) \in Transactions
       /\ \A i \in 1..8 : i <= at[advisory] => exclusive[LockTables[i]] = advisory
  /\ \A s \in Sessions : s # advisory /\ Task(s) \in Transactions => at[s] = 0
  /\ \A s \in Sessions : plan[s] = <<>> => at[s] = 0

Excluded == \A t \in Tables : exclusive[t] # None => shared[t] = {}

(* An interaction that has looked its documents up keeps a lock on them.   *)
SourcesHeld ==
  \A w \in Citizens : where[w] = "sound" =>
    /\ cites[w] \subseteq KbRowsOf(rows)
    /\ cites[w] = {} \/ w \in shared["kb_documents"]

RowsReviewed == rows \in {NoRows, Reviewable}

DbInv == /\ DbShape /\ LocksHeld /\ Excluded /\ SourcesHeld /\ RowsReviewed
         /\ EventsHaveSources

IInv == FilesInv /\ DbInv

LEMMA InitInv == Init => IInv
<1> SUFFICES ASSUME Init PROVE IInv
  OBVIOUS
<1> USE DEF Init, FileInit
<1>1. \A c \in Commands : plan[c] = <<>>
  BY SessionsAssumption DEF Sessions
<1>2. Shape
  BY DEF Shape
<1>3. FilesInv
  BY <1>1, <1>2 DEF FilesInv, Capturing, GateKeeps, CarriesReviewed, PlansRunning
<1>4. DbShape /\ Excluded /\ SourcesHeld /\ RowsReviewed /\ EventsHaveSources
  BY SessionsAssumption
     DEF DbShape, Tables, Excluded, SourcesHeld, RowsReviewed, EventsHaveSources
<1>5. advisory = None /\ at = [s \in Sessions |-> 0]
  OBVIOUS
<1>6. LocksHeld
  BY <1>5, Zenon DEF LocksHeld
<1> QED BY <1>3, <1>4, <1>6 DEF IInv, DbInv

(***************************************************************************)
(* The steps on the database.                                              *)
(***************************************************************************)
LEMMA AdvisoryKeeps ==
  ASSUME DbInv, NEW s \in Sessions, Advisory(s)
  PROVE  DbInv'
<1> USE DEF DbInv, Advisory
<1>1. s # None
  BY SessionsAssumption
<1>2. at[s] = 0
  BY <1>1 DEF LocksHeld
<1>3. \A d \in Sessions : Task(d)' = Task(d)
  BY DEF Task
<1>4. LocksHeld'
  <2>1. Task(advisory)' \in Transactions
    BY DEF Task
  <2>2. at' = at /\ plan' = plan /\ advisory' = s /\ exclusive' = exclusive
    OBVIOUS
  <2>3. \A i \in 1..8 : ~(i <= at[s])
    BY <1>2
  <2>4. \A d \in Sessions : d # s /\ Task(d)' \in Transactions => at[d] = 0
    BY <1>3, SessionsAssumption DEF LocksHeld
  <2> QED BY <2>1, <2>2, <2>3, <2>4 DEF LocksHeld
<1> QED BY <1>4 DEF DbShape, Excluded, SourcesHeld, RowsReviewed, EventsHaveSources,
              NoRows, Reviewable, KbRowsOf

LEMMA LockKeeps ==
  ASSUME DbInv, NEW s \in Sessions, Lock(s)
  PROVE  DbInv'
<1> USE DEF DbInv, Lock
<1> DEFINE t == LockTables[at[s] + 1]
<1>0. s # None /\ at[s] \in Nat
  BY SessionsAssumption DEF DbShape
<1>1. t \in Tables /\ at[s] + 1 \in 1..8
  BY <1>0, Eight
<1>2. DbShape'
  BY <1>0 DEF DbShape
<1>3. \A d \in Sessions : Task(d)' = Task(d)
  BY DEF Task
<1>4. /\ exclusive'[t] = s
      /\ \A u \in Tables : u # t => exclusive'[u] = exclusive[u]
      /\ at'[s] = at[s] + 1
      /\ \A d \in Sessions : d # s => at'[d] = at[d]
  BY <1>1 DEF DbShape
<1>5. LocksHeld'
  <2>1. \A i \in 1..8 : i <= at'[s] => exclusive'[LockTables[i]] = s
    <3> SUFFICES ASSUME NEW i \in 1..8, i <= at[s] + 1
                 PROVE  exclusive'[LockTables[i]] = s
      BY <1>4
    <3>1. CASE i <= at[s]
      BY <3>1, <1>0, <1>4, Eight DEF LocksHeld
    <3>2. CASE i = at[s] + 1
      BY <3>2, <1>4
    <3> QED BY <3>1, <3>2, <1>0
  <2>2. Task(s) \in Transactions
    BY <1>0 DEF LocksHeld
  <2>3. plan[s] # <<>>
    BY <2>2 DEF Task, Transactions
  <2> QED BY <2>1, <2>2, <2>3, <1>3, <1>4 DEF LocksHeld
<1>6. Excluded'
  BY <1>1, <1>4 DEF Excluded
<1> QED BY <1>2, <1>5, <1>6 DEF SourcesHeld, RowsReviewed, EventsHaveSources,
              NoRows, Reviewable, KbRowsOf

(* Whoever has nothing but its own place to lose.                          *)
LEMMA OverLocks ==
  ASSUME DbInv, NEW s \in Sessions, NEW ok \in BOOLEAN, DOMAIN plan = Sessions,
         Over(s, ok),
         \/ s = advisory /\ advisory' = None
         \/ s # advisory /\ advisory' = advisory /\ exclusive' = exclusive
  PROVE  LocksHeld' /\ at' \in [Sessions -> Nat]
<1> USE DEF DbInv
<1>1. at' \in [Sessions -> Nat] /\ at'[s] = 0
  BY DEF Over, DbShape
<1>2. \A d \in Sessions : d # s => Task(d)' = Task(d) /\ at'[d] = at[d]
                                 /\ plan'[d] = plan[d]
  BY DEF Over, DbShape, Task
<1>3. s # None
  BY SessionsAssumption
<1>4. CASE s = advisory /\ advisory' = None
  BY <1>1, <1>2, <1>3, <1>4 DEF LocksHeld
<1>5. CASE s # advisory /\ advisory' = advisory /\ exclusive' = exclusive
  <2>1. advisory # None => advisory \in Sessions
    BY DEF DbShape
  <2> QED BY <1>1, <1>2, <1>5, <2>1 DEF LocksHeld
<1> QED BY <1>4, <1>5

LEMMA ExecuteKeeps ==
  ASSUME FilesInv, DbInv, NEW s \in Sessions, Execute(s)
  PROVE  DbInv'
<1> USE DEF DbInv
<1> DEFINE task == Task(s)
           commits == \/ task \in {"seed", "seed again"} /\ SeedAllowed
                      \/ task = "compensation" /\ CompensationAllowed(s)
           planned == \/ task \in {"seed", "compensation"} /\ commits
                      \/ task = "seed again" /\ ~commits
                      \/ task = "forced" /\ SeedAllowed
                      \/ task = "blocked"
<1>1. /\ advisory = s /\ at[s] = 8 /\ advisory' = None
      /\ exclusive' = [t \in Tables |-> IF exclusive[t] = s THEN None ELSE exclusive[t]]
      /\ UNCHANGED <<shared, events, where, cites>>
      /\ rows' = IF ~commits THEN rows
                  ELSE IF task = "compensation" THEN NoRows ELSE Carried(s).seed
      /\ Over(s, planned)
  BY Eight DEF Execute, Unlocked, DbShape
<1>a. advisory = s /\ at[s] = 8
  BY <1>1
<1>2. s # None /\ Task(s) \in Transactions /\ exclusive["kb_documents"] = s
  <2> HIDE DEF task, commits, planned
  <2>1. s # None /\ Task(s) \in Transactions
    BY <1>a, SessionsAssumption DEF LocksHeld
  <2>2. 1 \in 1..8 /\ 1 <= at[s]
    BY <1>a
  <2> QED BY <2>1, <2>2, <1>a, Eight DEF LocksHeld
<1>3. shared["kb_documents"] = {}
  <2>1. "kb_documents" \in Tables
    BY Eight
  <2> QED BY <2>1, <1>2 DEF Excluded
<1>4. plan[s] # <<>>
  BY <1>2 DEF Task, Transactions
<1>5. Carried(s).seed = Reviewable
  <2>1. CASE s \in Commands
    BY <2>1, <1>4 DEF FilesInv, PlansRunning, CarriesReviewed, Carried, Committed
  <2>2. CASE s \notin Commands
    BY <2>2 DEF Carried, Committed
  <2> QED BY <2>1, <2>2
<1>6. RowsReviewed'
  BY <1>1, <1>5 DEF RowsReviewed, NoRows, Reviewable
<1>7. commits => events = {}
  BY DEF SeedAllowed, AllEmpty, CompensationAllowed
<1>8. EventsHaveSources'
  BY <1>1, <1>7 DEF EventsHaveSources, KbRowsOf
<1>9. SourcesHeld'
  <2>1. \A w \in Citizens : where[w] = "sound" => cites[w] = {}
    BY <1>3 DEF SourcesHeld
  <2> QED BY <2>1, <1>1 DEF SourcesHeld
<1>10. LocksHeld' /\ at' \in [Sessions -> Nat]
  BY <1>1, OverLocks DEF FilesInv, Shape
<1>11. DbShape'
  BY <1>1, <1>10 DEF DbShape
<1>12. Excluded'
  BY <1>1 DEF Excluded, DbShape
<1> QED BY <1>6, <1>8, <1>9, <1>10, <1>11, <1>12

LEMMA GiveUpKeeps ==
  ASSUME FilesInv, DbInv, NEW s \in Sessions, GiveUp(s)
  PROVE  DbInv'
<1> USE DEF DbInv
<1>1. /\ Over(s, FALSE)
      /\ UNCHANGED <<shared, events, where, cites, rows>>
      /\ \/ /\ s = advisory /\ advisory' = None
            /\ exclusive' = [t \in Tables |-> IF exclusive[t] = s THEN None
                                             ELSE exclusive[t]]
         \/ s # advisory /\ advisory' = advisory /\ exclusive' = exclusive
  BY DEF GiveUp, Unlocked, DbShape
<1>2. LocksHeld' /\ at' \in [Sessions -> Nat]
  BY <1>1, OverLocks DEF FilesInv, Shape
<1>3. DbShape' /\ Excluded'
  BY <1>1, <1>2 DEF DbShape, Excluded
<1> QED BY <1>1, <1>2, <1>3
           DEF SourcesHeld, RowsReviewed, EventsHaveSources, NoRows, Reviewable, KbRowsOf

LEMMA ObserveKeeps ==
  ASSUME FilesInv, DbInv, NEW s \in Sessions, Observe(s)
  PROVE  DbInv'
<1> USE DEF DbInv
<1>0. /\ Task(s) \in {"exact", "note", "same", "empty", "quiet"}
      /\ UNCHANGED <<rows, events, advisory, exclusive, shared, where, cites>>
  BY DEF Observe
<1>1. s # advisory
  <2>1. s # None
    BY SessionsAssumption
  <2> QED BY <2>1, <1>0 DEF LocksHeld, Transactions
<1>2. LocksHeld' /\ at' \in [Sessions -> Nat]
  <2> DEFINE t == Asserted(s)[at[s] + 1]
  <2>1. CASE Holds(s, t) /\ at[s] + 1 < Len(Asserted(s))
    <3>1. at' = [at EXCEPT ![s] = at[s] + 1] /\ UNCHANGED plan
      BY <2>1 DEF Observe
    <3>2. /\ at' \in [Sessions -> Nat]
          /\ \A d \in Sessions : d # s => at'[d] = at[d]
      BY <3>1 DEF DbShape
    <3>3. \A d \in Sessions : Task(d)' = Task(d) /\ plan'[d] = plan[d]
      BY <3>1 DEF Task
    <3>4. plan[s] # <<>> /\ Task(s) \notin Transactions
      BY <1>0 DEF Task, Transactions
    <3>5. advisory # None => advisory \in Sessions
      BY DEF DbShape
    <3>6. advisory # None => at'[advisory] = at[advisory]
      BY <3>2, <3>3, <3>5, <1>1
    <3>7. Task(advisory)' = Task(advisory)
      BY <1>0, <3>1 DEF Task
    <3> QED BY <1>0, <3>2, <3>3, <3>4, <3>6, <3>7 DEF LocksHeld
  <2>2. CASE ~(Holds(s, t) /\ at[s] + 1 < Len(Asserted(s)))
    <3>1. Over(s, Holds(s, t))
      BY <2>2 DEF Observe
    <3>2. Over(s, TRUE) \/ Over(s, FALSE)
      BY <3>1 DEF Over
    <3> QED BY <3>2, <1>0, <1>1, OverLocks DEF FilesInv, Shape
  <2> QED BY <2>1, <2>2
<1>3. DbShape' /\ Excluded'
  BY <1>0, <1>2 DEF DbShape, Excluded
<1> QED BY <1>0, <1>2, <1>3
           DEF SourcesHeld, RowsReviewed, EventsHaveSources, NoRows, Reviewable, KbRowsOf

(* A citizen's step leaves the sessions and their locks alone.             *)
LEMMA CitizenKeeps ==
  ASSUME DbInv, NEW w \in Citizens, CitizenStep(w)
  PROVE  DbInv'
<1> USE DEF DbInv
<1>1. UNCHANGED <<rows, advisory, exclusive, plan, at>>
  BY DEF CitizenStep, Answer, LockEvents, LockSources, UseTable, Finish
<1>2. LocksHeld'
  BY <1>1 DEF LocksHeld, Task
<1>3. RowsReviewed'
  BY <1>1 DEF RowsReviewed, NoRows, Reviewable
<1>4. DbShape'
  BY <1>1 DEF DbShape, CitizenStep, Answer, LockEvents, LockSources, UseTable, Finish,
              Move
<1>5. Excluded' /\ SourcesHeld' /\ EventsHaveSources'
  <2>1. CASE Answer(w)
    BY <2>1, <1>1 DEF Answer, Move, DbShape, Excluded, SourcesHeld, EventsHaveSources,
                      KbRowsOf
  <2>2. CASE LockEvents(w)
    <3>1. /\ exclusive["interaction_events"] = None
          /\ shared' = [shared EXCEPT !["interaction_events"] = @ \cup {w}]
          /\ where' = [where EXCEPT ![w] = "recording"]
          /\ UNCHANGED <<events, cites>>
      BY <2>2 DEF LockEvents, UseTable, Move
    <3>2. Excluded'
      BY <3>1, <1>1 DEF Excluded, DbShape
    <3>3. SourcesHeld'
      BY <3>1, <1>1 DEF SourcesHeld, DbShape, KbRowsOf
    <3> QED BY <3>1, <3>2, <3>3, <1>1 DEF EventsHaveSources, KbRowsOf
  <2>3. CASE LockSources(w)
    <3> DEFINE t == IF cites[w] = {} THEN "failed_questions" ELSE "kb_documents"
    <3>1. /\ exclusive[t] = None
          /\ shared' = [shared EXCEPT ![t] = @ \cup {w}]
          /\ where' = [where EXCEPT ![w] = IF cites[w] \subseteq KbRowsOf(rows)
                                           THEN "sound" ELSE "unsound"]
          /\ UNCHANGED <<events, cites>>
      BY <2>3 DEF LockSources, UseTable, Move
    <3>2. Excluded'
      BY <3>1, <1>1 DEF Excluded, DbShape
    <3>3. "kb_documents" \in Tables
      BY Eight
    <3>4. SourcesHeld'
      BY <3>1, <3>3, <1>1 DEF SourcesHeld, DbShape, KbRowsOf
    <3> QED BY <3>1, <3>2, <3>4, <1>1 DEF EventsHaveSources, KbRowsOf
  <2>4. CASE Finish(w)
    <3>1. /\ shared' = [t \in Tables |-> shared[t] \ {w}]
          /\ UNCHANGED cites
          /\ \E to \in {"recorded", "refused"} : where' = [where EXCEPT ![w] = to]
      BY <2>4 DEF Finish, Move, DbShape
    <3>2. Excluded'
      BY <3>1, <1>1 DEF Excluded, DbShape
    <3>3. "kb_documents" \in Tables
      BY Eight
    <3>4. SourcesHeld'
      BY <3>1, <3>3, <1>1 DEF SourcesHeld, DbShape, KbRowsOf
    <3>5. \A e \in events' : e \in events \/ (e.cites = cites[w] /\ where[w] = "sound")
      BY <2>4 DEF Finish
    <3>6. EventsHaveSources'
      BY <3>5, <1>1 DEF EventsHaveSources, SourcesHeld, KbRowsOf
    <3> QED BY <3>2, <3>4, <3>6
  <2> QED BY <2>1, <2>2, <2>3, <2>4 DEF CitizenStep
<1> QED BY <1>2, <1>3, <1>4, <1>5

LEMMA DbUntouched ==
  ASSUME DbInv, UNCHANGED <<rows, events, advisory, exclusive, shared, plan, at, where,
                            cites>>
  PROVE  DbInv'
BY DEF DbInv, DbShape, LocksHeld, Task, Excluded, SourcesHeld, RowsReviewed,
       EventsHaveSources, NoRows, Reviewable, KbRowsOf

LEMMA FilesUntouched ==
  ASSUME FilesInv, UNCHANGED <<stage, todo, got, payload, plan>>
  PROVE  FilesInv'
BY DEF FilesInv, Shape, Capturing, GateKeeps, CarriesReviewed, PlansRunning, Committed,
       Reviewable

LEMMA OpenLocks ==
  ASSUME FilesInv, DbInv, NEW c \in Commands, Open(c)
  PROVE  DbInv'
<1> USE DEF DbInv
<1>1. /\ stage[c] = "loaded" /\ \A d \in Sessions : d # c => plan'[d] = plan[d]
      /\ UNCHANGED <<rows, events, advisory, exclusive, shared, at, where, cites>>
  BY DEF Open, FilesInv, Shape
<1>2. plan[c] = <<>> /\ c \in Sessions
  BY <1>1 DEF FilesInv, PlansRunning, Sessions
<1>3. at[c] = 0
  BY <1>2 DEF LocksHeld
<1>4. advisory # c
  BY <1>2, SessionsAssumption DEF LocksHeld, Task, Transactions
<1>5. \A d \in Sessions : d # c => Task(d)' = Task(d)
  BY <1>1 DEF Task
<1>6. advisory # None => Task(advisory)' = Task(advisory)
  <2>1. advisory # None => plan'[advisory] = plan[advisory]
    BY <1>1, <1>4 DEF DbShape
  <2> QED BY <2>1, <1>1 DEF Task
<1>7. LocksHeld'
  BY <1>1, <1>3, <1>4, <1>5, <1>6 DEF LocksHeld
<1> QED BY <1>1, <1>7 DEF DbShape, Excluded, SourcesHeld, RowsReviewed,
              EventsHaveSources, NoRows, Reviewable, KbRowsOf

LEMMA NextKeeps == IInv /\ [Next]_vars => IInv'
<1> SUFFICES ASSUME IInv, [Next]_vars PROVE IInv'
  OBVIOUS
<1> USE DEF IInv
<1>1. CASE FileNext /\ UNCHANGED dbVars
  <2>1. DbInv'
    BY <1>1, DbUntouched DEF dbVars
  <2>2. ASSUME NEW c \in Commands, Step(c) PROVE FilesInv'
    BY <1>1, <2>2, StepKeeps DEF dbVars
  <2>3. ASSUME NEW f \in Files, Edit(f) PROVE FilesInv'
    BY <1>1, <2>3, FilesUntouched DEF Edit, dbVars
  <2> QED BY <1>1, <2>1, <2>2, <2>3 DEF FileNext
<1>2. ASSUME NEW c \in Commands, Open(c) PROVE IInv'
  BY <1>2, OpenKeeps, OpenLocks
<1>3. ASSUME NEW s \in Sessions, SessionStep(s) PROVE IInv'
  <2>0. Task(s) \in Transactions \cup {"exact", "note", "same", "empty", "quiet"}
          => plan[s] # <<>>
    BY DEF Task, Transactions
  <2>1. CASE Advisory(s)
    BY <2>1, AdvisoryKeeps, FilesUntouched DEF Advisory, fileVars
  <2>2. CASE Lock(s)
    BY <2>2, LockKeeps, FilesUntouched DEF Lock, fileVars
  <2>3. CASE Execute(s)
    <3>1. s # None
      BY SessionsAssumption
    <3>2. plan[s] # <<>>
      BY <2>3, <2>0, <3>1 DEF Execute, DbInv, LocksHeld
    <3>3. \E ok \in BOOLEAN : Over(s, ok)
      <4> DEFINE ok == LET commits == \/ Task(s) \in {"seed", "seed again"} /\ SeedAllowed
                                      \/ Task(s) = "compensation" /\ CompensationAllowed(s)
                       IN \/ Task(s) \in {"seed", "compensation"} /\ commits
                          \/ Task(s) = "seed again" /\ ~commits
                          \/ Task(s) = "forced" /\ SeedAllowed
                          \/ Task(s) = "blocked"
      <4>1. Over(s, ok)
        BY <2>3 DEF Execute
      <4>2. ok \in BOOLEAN
        OBVIOUS
      <4> QED BY <4>1, <4>2
    <3>4. FilesInv'
      BY <3>2, <3>3, OverKeeps
    <3> QED BY <2>3, <3>4, ExecuteKeeps
  <2>4. CASE GiveUp(s)
    <3>1. FilesInv'
      BY <2>4, <2>0, OverKeeps DEF GiveUp
    <3> QED BY <2>4, <3>1, GiveUpKeeps
  <2>5. CASE Observe(s)
    <3>1. FilesInv'
      <4> DEFINE t == Asserted(s)[at[s] + 1]
      <4>1. CASE Holds(s, t) /\ at[s] + 1 < Len(Asserted(s))
        BY <2>5, <4>1, FilesUntouched DEF Observe, fileVars
      <4>2. CASE ~(Holds(s, t) /\ at[s] + 1 < Len(Asserted(s)))
        <5>1. Over(s, Holds(s, t))
          BY <2>5, <4>2 DEF Observe
        <5>2. Over(s, TRUE) \/ Over(s, FALSE)
          BY <5>1 DEF Over
        <5>3. plan[s] # <<>>
          BY <2>5, <2>0 DEF Observe
        <5> QED BY <5>2, <5>3, OverKeeps
      <4> QED BY <4>1, <4>2
    <3> QED BY <2>5, <3>1, ObserveKeeps
  <2> QED BY <1>3, <2>1, <2>2, <2>3, <2>4, <2>5 DEF SessionStep
<1>4. ASSUME NEW w \in Citizens, CitizenStep(w) PROVE IInv'
  <2>1. UNCHANGED <<stage, todo, got, payload, plan>>
    BY <1>4 DEF CitizenStep, Answer, LockEvents, LockSources, UseTable, Finish, fileVars
  <2> QED BY <1>4, <2>1, CitizenKeeps, FilesUntouched
<1>5. CASE UNCHANGED vars
  BY <1>5, DbUntouched, FilesUntouched DEF vars, fileVars, dbVars
<1> QED BY <1>1, <1>2, <1>3, <1>4, <1>5 DEF Next

(***************************************************************************)
(* Theorems.                                                               *)
(***************************************************************************)
(* Whatever is edited while the commands read, and whoever else applies a  *)
(* script, what is in the database is the reviewed draft or nothing.       *)
THEOREM OnlyReviewedRows == Spec => []SeedIsReviewed
<1>1. IInv => SeedIsReviewed
  BY DEF IInv, FilesInv, CarriesReviewed, DbInv, RowsReviewed, SeedIsReviewed
<1> QED BY <1>1, InitInv, NextKeeps, PTL DEF Spec

(* A recorded answer keeps its documents, however compensation, seeding    *)
(* and recording are interleaved.                                          *)
THEOREM SourcesKept == Spec => []EventsHaveSources
<1>1. IInv => EventsHaveSources
  BY DEF IInv, DbInv
<1> QED BY <1>1, InitInv, NextKeeps, PTL DEF Spec

(* Decisions that are exactly the recommended ones keep the withheld       *)
(* document and the refused mappings out of every release.                 *)
THEOREM ExcludedStayOut ==
  ASSUME NEW captured, ExactDecisions(captured["approval"].body)
  PROVE  LET p == ProjectedRecords(captured) IN
         /\ \A row \in p.kb_documents : row.id # Withheld
         /\ \A row \in p.office_service_mappings :
              <<row.office, row.intent>> \notin Refused
<1> DEFINE m == captured["approval"].body
           projected == ProjectedRecords(captured)
<1>1. ASSUME NEW type, NEW id, Approves(m, type, id)
      PROVE  Recommended(type, id) = "APPROVE"
  <2>1. PICK i \in DOMAIN m.decisions :
          m.decisions[i].key = Key(type, id) /\ m.decisions[i].decision = "APPROVE"
    BY <1>1 DEF Approves
  <2>2. m.decisions[i].decision
          = Recommended(m.decisions[i].key.type, m.decisions[i].key.id)
    BY <2>1 DEF ExactDecisions
  <2> QED BY <2>1, <2>2 DEF Key
<1>2. ASSUME NEW row \in projected.kb_documents PROVE row.id # Withheld
  <2>1. PICK r : Approves(m, "KB", <<r.id>>) /\ row = KbRow(r)
    BY <1>2 DEF ProjectedRecords
  <2>2. Recommended("KB", <<r.id>>) = "APPROVE"
    BY <2>1, <1>1
  <2> QED BY <2>1, <2>2 DEF KbRow, Recommended
<1>3. ASSUME NEW row \in projected.office_service_mappings
      PROVE  <<row.office, row.intent>> \notin Refused
  <2>1. PICK x : Approves(m, "MAPPING", KeyOf(x)) /\ row = MappingRow(x)
    BY <1>3 DEF ProjectedRecords
  <2>2. Recommended("MAPPING", KeyOf(x)) = "APPROVE"
    BY <2>1, <1>1
  <2> QED BY <2>1, <2>2 DEF MappingRow, KeyOf, Recommended
<1> QED BY <1>2, <1>3

(***************************************************************************)
(* The manifest a command replaces.  A command that writes without looking *)
(* again (migrate) looked before it planned, and what it saw then was the  *)
(* pending manifest it had just worked out; one that looks again (prepare) *)
(* writes only where nothing was.                                          *)
(***************************************************************************)
Look == Reading("look", "approval")

SawNoReview(g) == ~ (Parses(g[Look]) /\ Reviewed(g[Look].body))

LookedFirst(c) ==
  /\ stage[c] \in {"plan", "check"} => op[c] \in Staging
  /\ stage[c] = "plan" /\ op[c] = "migrate"
       => Look \in DOMAIN got[c] \/ (todo[c] # <<>> /\ Head(todo[c]) = Look)
  /\ stage[c] = "check" /\ op[c] = "migrate"
       => /\ todo[c] \in Seq(Inspections)
          /\ Look \in DOMAIN got[c] /\ SawNoReview(got[c])
  /\ stage[c] = "write" => todo[c] = <<>> /\ SawNoReview(got[c])

Places == /\ DOMAIN stage = Commands /\ DOMAIN todo = Commands
          /\ DOMAIN got = Commands /\ DOMAIN op = Commands

WritersLooked == Places /\ \A c \in Commands : LookedFirst(c)

(* A step that leaves the files alone moves a command to its end at most.  *)
LEMMA ElsewhereKeepsLook ==
  ASSUME WritersLooked, UNCHANGED <<op, todo, got>>, DOMAIN stage' = Commands,
         \A d \in Commands : stage'[d] = stage[d] \/ stage'[d] \in {"running", "passed", "failed"}
  PROVE  WritersLooked'
<1>1. Places'
  BY DEF WritersLooked, Places
<1>2. ASSUME NEW d \in Commands PROVE LookedFirst(d)'
  BY <1>2 DEF WritersLooked, LookedFirst, SawNoReview
<1> QED BY <1>1, <1>2 DEF WritersLooked

(* A step of one command leaves the others' readings alone.                *)
LEMMA OthersKeepLook ==
  ASSUME WritersLooked, NEW c \in Commands, LookedFirst(c)',
         NEW n, NEW reads, NEW learnt, NEW o,
         stage' \in {stage, [stage EXCEPT ![c] = n]},
         todo' \in {todo, [todo EXCEPT ![c] = reads]},
         got' \in {got, [got EXCEPT ![c] = learnt]},
         op' \in {op, [op EXCEPT ![c] = o]}
  PROVE  WritersLooked'
<1>1. Places'
  BY DEF WritersLooked, Places
<1>2. ASSUME NEW d \in Commands, d # c PROVE LookedFirst(d)'
  <2>1. stage'[d] = stage[d] /\ todo'[d] = todo[d] /\ got'[d] = got[d] /\ op'[d] = op[d]
    BY <1>2 DEF WritersLooked, Places
  <2> QED BY <2>1 DEF WritersLooked, LookedFirst, SawNoReview
<1> QED BY <1>1, <1>2 DEF WritersLooked

(* The manifest a migration expects to find is pending.                    *)
LEMMA LegacyUnreviewed ==
  ASSUME NEW counted, NEW listed, NEW hashed, NEW existing,
         LegacyPending(existing, PendingManifest(counted, listed, hashed, Submitted))
  PROVE  ~ Reviewed(existing.body)
<1> DEFINE m == PendingManifest(counted, listed, hashed, Submitted)
<1>1. existing.body = Legacy(m)
  BY DEF LegacyPending, Canonical
<1>2. m.state = "PENDING" /\ DOMAIN m = {"state", "author", "submitted", "reviewer",
                                         "reviewed", "text", "entries", "decisions"}
  BY DEF PendingManifest
<1> HIDE DEF m
<1>3. Legacy(m).state = "PENDING"
  BY <1>2 DEF Legacy
<1> QED BY <1>1, <1>3 DEF Reviewed

LEMMA StartLooks ==
  ASSUME WritersLooked, NEW c \in Commands, NEW o \in Staging \cup Loading, Start(c, o)
  PROVE  WritersLooked'
<1>1. PICK n, reads : stage' = [stage EXCEPT ![c] = n] /\ todo' = [todo EXCEPT ![c] = reads]
  BY DEF Start, Enter
<1>2. stage'[c] = n /\ todo'[c] = reads /\ op'[c] = o
  BY <1>1 DEF Start, WritersLooked, Places
<1>3. n \notin {"check", "write"} \/ (n = "check" /\ o = "validate")
  BY <1>1, <1>2 DEF Start, Enter, WritersLooked, Places
<1>4. ASSUME n = "plan", o = "migrate" PROVE reads # <<>> /\ Head(reads) = Look
  <2>1. reads = <<Look>> \o PlanReads
    BY <1>1, <1>2, <1>4 DEF Start, Enter, Look, WritersLooked, Places, Staging, Loading
  <2>2. PlanReads \in Seq([pass : {"counted", "listed", "hashed"}, file : Staged])
    <3> DEFINE R == [pass : {"counted", "listed", "hashed"}, file : Staged]
    <3>1. ASSUME NEW p \in {"counted", "listed", "hashed"} PROVE Pass(p, InOrder) \in Seq(R)
      <4>1. Pass(p, InOrder) = <<Reading(p, "kb"), Reading(p, "office"), Reading(p, "mapping")>>
        BY DEF Pass, InOrder
      <4> QED BY <4>1 DEF Reading, Staged, Content
    <3> HIDE DEF R
    <3>2. /\ Pass("counted", InOrder) \in Seq(R) /\ Pass("listed", InOrder) \in Seq(R)
          /\ Pass("hashed", InOrder) \in Seq(R)
      BY <3>1
    <3>3. PlanReads \in Seq(R)
      BY <3>2 DEF PlanReads
    <3> QED BY <3>3 DEF R
  <2> QED BY <2>1, <2>2
<1>5. n \in {"plan", "check"} => o \in Staging
  BY <1>1, <1>2 DEF Start, Enter, WritersLooked, Places, Staging
<1>6. LookedFirst(c)'
  BY <1>2, <1>3, <1>4, <1>5 DEF LookedFirst
<1>7. /\ stage' \in {stage, [stage EXCEPT ![c] = n]} /\ todo' \in {todo, [todo EXCEPT ![c] = reads]}
      /\ got' \in {got, [got EXCEPT ![c] = reads]} /\ op' \in {op, [op EXCEPT ![c] = o]}
  BY <1>1 DEF Start
<1> QED BY <1>6, <1>7, OthersKeepLook

LEMMA ReadLooks ==
  ASSUME WritersLooked, NEW c \in Commands, Read(c)
  PROVE  WritersLooked'
<1> DEFINE r == Head(todo[c])
           g == Learnt(got[c], r, disk[r.file])
<1>1. /\ todo[c] # <<>> /\ todo'[c] = Tail(todo[c]) /\ got'[c] = g
      /\ stage'[c] = stage[c] /\ op'[c] = op[c]
  BY DEF Read, WritersLooked, Places
<1>2. /\ DOMAIN g = DOMAIN got[c] \cup {r}
      /\ \A x \in DOMAIN got[c] : x # r => g[x] = got[c][x]
  BY DEF Learnt
<1> HIDE DEF g
<1>3. ASSUME stage[c] = "plan", op[c] = "migrate" PROVE Look \in DOMAIN g
  BY <1>2, <1>3, <1>1 DEF WritersLooked, LookedFirst
<1>4. ASSUME stage[c] = "check", op[c] = "migrate"
      PROVE  Tail(todo[c]) \in Seq(Inspections) /\ Look \in DOMAIN g /\ SawNoReview(g)
  <2>1. todo[c] \in Seq(Inspections) /\ Look \in DOMAIN got[c] /\ SawNoReview(got[c])
    BY <1>4 DEF WritersLooked, LookedFirst
  <2>2. r \in Inspections /\ Tail(todo[c]) \in Seq(Inspections)
    BY <1>1, <2>1
  <2>3. r # Look
    BY <2>2 DEF Inspections, Look, Reading
  <2> QED BY <1>2, <2>1, <2>2, <2>3 DEF SawNoReview
<1>5. stage[c] # "write"
  BY <1>1 DEF WritersLooked, LookedFirst
<1>6. LookedFirst(c)'
  BY <1>1, <1>3, <1>4, <1>5 DEF LookedFirst, WritersLooked
<1>7. got' = [got EXCEPT ![c] = g] /\ todo' = [todo EXCEPT ![c] = Tail(@)]
      /\ UNCHANGED <<stage, op>>
  BY DEF Read, g
<1> QED BY <1>6, <1>7, OthersKeepLook

LEMMA PlannedLooks ==
  ASSUME WritersLooked, NEW c \in Commands, Planned(c)
  PROVE  WritersLooked'
<1>1. PICK n, reads : /\ stage' = [stage EXCEPT ![c] = n] /\ todo' = [todo EXCEPT ![c] = reads]
                      /\ UNCHANGED <<got, op>>
                      /\ n \in {"check", "failed"}
  BY DEF Planned, Enter
<1>2. stage'[c] = n /\ todo'[c] = reads
  BY <1>1 DEF WritersLooked, Places
<1>3. ASSUME n = "check", op[c] = "migrate"
      PROVE  reads \in Seq(Inspections) /\ Look \in DOMAIN got[c] /\ SawNoReview(got[c])
  <2>1. Look \in DOMAIN got[c]
    BY <1>3 DEF Planned, At, WritersLooked, LookedFirst
  <2>2. /\ reads = OverrideReads
        /\ LegacyPending(got[c][Look],
             PendingManifest(Of(got[c], "counted", Content), Of(got[c], "listed", Content),
                             Of(got[c], "hashed", Content), Submitted))
    BY <1>1, <1>2, <1>3 DEF Planned, Enter, Look, WritersLooked, Places
  <2> QED BY <2>1, <2>2, LegacyUnreviewed, InspectionReads DEF SawNoReview
<1>4. stage[c] = "plan" /\ op'[c] = op[c] /\ got'[c] = got[c]
  BY <1>1 DEF Planned, At
<1>5. LookedFirst(c)'
  BY <1>1, <1>2, <1>3, <1>4 DEF LookedFirst, WritersLooked
<1> QED BY <1>1, <1>5, OthersKeepLook

LEMMA CheckedLooks ==
  ASSUME WritersLooked, NEW c \in Commands, Checked(c)
  PROVE  WritersLooked'
<1> DEFINE n == IF ~Validated(c) THEN "failed"
                ELSE IF op[c] = "validate" THEN "passed"
                ELSE IF op[c] = "prepare" THEN "exists" ELSE "write"
<1>1. /\ stage[c] = "check" /\ stage' = [stage EXCEPT ![c] = n]
      /\ todo' = [todo EXCEPT ![c] = <<>>] /\ UNCHANGED <<got, op>>
  BY DEF Checked, Enter, At
<1>2. n \notin {"plan", "check"} /\ (n = "write" => op[c] \notin {"validate", "prepare"})
  OBVIOUS
<1> HIDE DEF n
<1>3. stage'[c] = n /\ todo'[c] = <<>> /\ got'[c] = got[c]
  BY <1>1 DEF WritersLooked, Places
<1>4. n = "write" => SawNoReview(got[c])
  BY <1>1, <1>2 DEF WritersLooked, LookedFirst, Staging
<1>5. LookedFirst(c)'
  BY <1>2, <1>3, <1>4 DEF LookedFirst, SawNoReview
<1> QED BY <1>1, <1>5, OthersKeepLook

LEMMA ExistsLooks ==
  ASSUME WritersLooked, NEW c \in Commands, Exists(c)
  PROVE  WritersLooked'
<1> DEFINE g == Learnt(got[c], Look, disk["approval"])
<1>1. PICK n, reads :
        /\ stage' = [stage EXCEPT ![c] = n] /\ todo' = [todo EXCEPT ![c] = reads]
        /\ n \in {"write", "compare"}
        /\ n = "write" => reads = <<>> /\ disk["approval"] = Absent
  <2>1. CASE disk["approval"] = Absent
    BY <2>1 DEF Exists, Enter
  <2>2. CASE disk["approval"] # Absent
    <3>1. /\ stage' = [stage EXCEPT ![c] = "compare"]
          /\ todo' = [todo EXCEPT ![c] = <<Reading("value", "approval"),
                                           Reading("bytes", "approval")>>]
      BY <2>2 DEF Exists, Enter
    <3>2. "compare" \in {"write", "compare"} /\ "compare" # "write"
      OBVIOUS
    <3> QED BY <3>1, <3>2, Zenon
  <2> QED BY <2>1, <2>2
<1>2. got' = [got EXCEPT ![c] = g] /\ op' = op
  BY DEF Exists, Look
<1>3. stage'[c] = n /\ todo'[c] = reads /\ got'[c] = g
  BY <1>1, <1>2 DEF WritersLooked, Places
<1>4. g[Look] = disk["approval"]
  BY DEF Learnt
<1>5. n = "write" => SawNoReview(g)
  BY <1>1, <1>4 DEF SawNoReview, Absent, Parses
<1> HIDE DEF g
<1>6. LookedFirst(c)'
  BY <1>1, <1>3, <1>5 DEF LookedFirst, SawNoReview
<1> QED BY <1>1, <1>2, <1>6, OthersKeepLook

(* The other steps end the command, or belong to the loading of a release. *)
LEMMA OtherStepsLook ==
  ASSUME WritersLooked, NEW c \in Commands,
         Compared(c) \/ Write(c) \/ ReleaseRead(c) \/ SnapshotTaken(c) \/ Verified(c) \/ Loaded(c)
  PROVE  WritersLooked'
<1> USE DEF Enter
<1>1. PICK n : /\ stage' = [stage EXCEPT ![c] = n] /\ n \notin {"plan", "check", "write"}
               /\ \E reads : todo' = [todo EXCEPT ![c] = reads]
               /\ \E learnt : got' \in {got, [got EXCEPT ![c] = learnt]}
               /\ op' = op
  <2>1. CASE Compared(c) \/ Write(c) \/ ReleaseRead(c)
    BY <2>1 DEF Compared, Write, ReleaseRead
  <2>2. CASE SnapshotTaken(c)
    BY <2>2 DEF SnapshotTaken
  <2>3. CASE Verified(c) \/ Loaded(c)
    BY <2>3 DEF Verified, Loaded
  <2> QED BY <2>1, <2>2, <2>3
<1>2. stage'[c] = n
  BY <1>1 DEF WritersLooked, Places
<1>3. LookedFirst(c)'
  BY <1>1, <1>2 DEF LookedFirst
<1> QED BY <1>1, <1>3, OthersKeepLook

LEMMA NextLooks == WritersLooked /\ [Next]_vars => WritersLooked'
<1> SUFFICES ASSUME WritersLooked, [Next]_vars PROVE WritersLooked'
  OBVIOUS
<1>1. ASSUME NEW c \in Commands, Step(c) PROVE WritersLooked'
  BY <1>1, StartLooks, ReadLooks, PlannedLooks, CheckedLooks, ExistsLooks, OtherStepsLook DEF Step
<1>2. ASSUME UNCHANGED <<op, stage, todo, got>> PROVE WritersLooked'
  BY <1>2, ElsewhereKeepsLook DEF WritersLooked, Places
<1>3. ASSUME NEW c \in Commands, Open(c) PROVE WritersLooked'
  BY <1>3, ElsewhereKeepsLook DEF Open, WritersLooked, Places
<1>4. ASSUME NEW s, NEW ok, Over(s, ok) PROVE WritersLooked'
  BY <1>4, ElsewhereKeepsLook DEF Over, WritersLooked, Places
<1>5. ASSUME NEW f \in Files, Edit(f) PROVE WritersLooked'
  BY <1>2, <1>5 DEF Edit
<1>6. ASSUME NEW s \in Sessions, SessionStep(s) PROVE WritersLooked'
  <2>1. UNCHANGED fileVars \/ \E ok : Over(s, ok)
    <3>1. CASE Advisory(s) \/ Lock(s)
      BY <3>1 DEF Advisory, Lock
    <3>2. CASE Execute(s)
      BY <3>2, Zenon DEF Execute
    <3>3. CASE GiveUp(s)
      BY <3>3, Zenon DEF GiveUp
    <3>4. CASE Observe(s)
      BY <3>4, Zenon DEF Observe
    <3> QED BY <1>6, <3>1, <3>2, <3>3, <3>4 DEF SessionStep
  <2> QED BY <1>2, <1>4, <2>1 DEF fileVars
<1>7. ASSUME NEW w \in Citizens, CitizenStep(w) PROVE WritersLooked'
  BY <1>2, <1>7 DEF CitizenStep, Answer, LockEvents, LockSources, UseTable, Finish, fileVars
<1> QED BY <1>1, <1>2, <1>3, <1>5, <1>6, <1>7 DEF Next, FileNext, vars, fileVars

(* A command that writes a manifest over a reviewed one looked before the  *)
(* review was there: no review it saw is lost, whatever is edited while it *)
(* runs and however many commands run at once.                             *)
THEOREM SeenReviewsAreKept == Spec => ReviewLostOnlyInRace
<1>1. Init => WritersLooked
  BY DEF Init, FileInit, WritersLooked, Places, LookedFirst
<1>2. WritersLooked /\ [Next]_vars
        => [\A c \in Commands :
              Wrote(c) /\ Parses(disk["approval"]) /\ Reviewed(disk["approval"].body)
                => got[c][Reading("look", "approval")] # disk["approval"]]_disk
  BY DEF WritersLooked, LookedFirst, SawNoReview, Wrote, Look
<1> QED BY <1>1, <1>2, NextLooks, PTL DEF Spec, ReviewLostOnlyInRace


(***************************************************************************)
(* The two scripts' rules for a reviewed manifest, compared.               *)
(***************************************************************************)
(* The parts of StaticKeys can be found in it. *)
LEMMA KeysListed ==
  ASSUME KbIds \in Seq(Nat), OfficeIds \in Seq(Nat), Len(Intents) \in Nat
  PROVE  /\ \A j \in DOMAIN KbIds : \E i \in DOMAIN StaticKeys :
              StaticKeys[i] = Key("KB", <<KbIds[j]>>)
         /\ \A j \in DOMAIN OfficeIds : \E i \in DOMAIN StaticKeys :
              StaticKeys[i] = Key("OFFICE", <<OfficeIds[j]>>)
<1> DEFINE pairs == [i \in 1..(Len(OfficeIds) * Len(Intents)) |->
                       <<OfficeIds[((i - 1) \div Len(Intents)) + 1],
                         Intents[((i - 1) % Len(Intents)) + 1]>>]
           A == [i \in DOMAIN KbIds |-> Key("KB", <<KbIds[i]>>)]
           B == [i \in DOMAIN pairs |-> Key("MAPPING", pairs[i])]
           C == [i \in DOMAIN OfficeIds |-> Key("OFFICE", <<OfficeIds[i]>>)]
           S == Elements(A) \cup Elements(B) \cup Elements(C)
<1>1. StaticKeys = A \o B \o C
  BY DEF StaticKeys
<1>2. Len(OfficeIds) * Len(Intents) \in Nat
  <2>1. \A x, y \in Nat : x * y \in Nat
    OBVIOUS
  <2> QED BY <2>1, LenProperties
<1>3. DOMAIN A = 1..Len(KbIds) /\ DOMAIN C = 1..Len(OfficeIds)
      /\ DOMAIN B = 1..(Len(OfficeIds) * Len(Intents))
  BY LenProperties
<1>4. /\ \A i \in DOMAIN A : A[i] \in S
      /\ \A i \in DOMAIN B : B[i] \in S
      /\ \A i \in DOMAIN C : C[i] \in S
  BY DEF Elements
<1>5. /\ \A j \in DOMAIN KbIds : A[j] = Key("KB", <<KbIds[j]>>)
      /\ \A j \in DOMAIN OfficeIds : C[j] = Key("OFFICE", <<OfficeIds[j]>>)
      /\ DOMAIN A = DOMAIN KbIds /\ DOMAIN C = DOMAIN OfficeIds
      /\ A = [i \in DOMAIN A |-> A[i]] /\ B = [i \in DOMAIN B |-> B[i]]
      /\ C = [i \in DOMAIN C |-> C[i]]
  OBVIOUS
<1> HIDE DEF A, B, C, S, pairs
<1>6. A \in Seq(S) /\ B \in Seq(S) /\ C \in Seq(S)
  <2>1. ASSUME NEW n \in Nat, NEW F, F = [i \in 1..n |-> F[i]], \A i \in 1..n : F[i] \in S
        PROVE  F \in Seq(S)
    <3>1. F \in [1..n -> S]
      BY <2>1
    <3> QED BY <3>1, SeqDef
  <2>2. Len(KbIds) \in Nat /\ Len(OfficeIds) \in Nat
    BY LenProperties
  <2> QED BY <1>2, <1>3, <1>4, <1>5, <2>1, <2>2
<1>7. A \o B \in Seq(S) /\ Len(A \o B) = Len(A) + Len(B)
      /\ \A i \in 1..Len(A) : (A \o B)[i] = A[i]
  BY <1>6, ConcatProperties
<1>8. /\ Len(A \o B \o C) = Len(A \o B) + Len(C) /\ A \o B \o C \in Seq(S)
      /\ \A i \in 1..Len(A \o B) : (A \o B \o C)[i] = (A \o B)[i]
      /\ \A i \in 1..Len(C) : (A \o B \o C)[Len(A \o B) + i] = C[i]
  <2>1. \A i \in (Len(A \o B) + 1)..(Len(A \o B) + Len(C)) :
          (A \o B \o C)[i] = C[i - Len(A \o B)]
    BY <1>6, <1>7, ConcatProperties
  <2>2. Len(A \o B) \in Nat /\ Len(C) \in Nat
    BY <1>6, <1>7, LenProperties
  <2>3. ASSUME NEW i \in 1..Len(C) PROVE (A \o B \o C)[Len(A \o B) + i] = C[i]
    <3>1. Len(A \o B) + i \in (Len(A \o B) + 1)..(Len(A \o B) + Len(C))
          /\ Len(A \o B) + i - Len(A \o B) = i
      BY <2>2
    <3> QED BY <2>1, <3>1
  <2> QED BY <1>6, <1>7, <2>3, ConcatProperties
<1>9. /\ Len(A) \in Nat /\ Len(B) \in Nat /\ Len(C) \in Nat
      /\ DOMAIN A = 1..Len(A) /\ DOMAIN C = 1..Len(C)
      /\ DOMAIN (A \o B \o C) = 1..Len(A \o B \o C)
  BY <1>6, <1>8, LenProperties
<1>10. ASSUME NEW j \in DOMAIN KbIds
       PROVE  \E i \in DOMAIN StaticKeys : StaticKeys[i] = Key("KB", <<KbIds[j]>>)
  <2>1. j \in 1..Len(A)
    BY <1>5, <1>9
  <2>2. j \in 1..Len(A \o B) /\ j \in 1..Len(A \o B \o C)
    BY <1>7, <1>8, <1>9, <2>1
  <2> QED BY <1>1, <1>5, <1>7, <1>8, <1>9, <2>1, <2>2
<1>11. ASSUME NEW j \in DOMAIN OfficeIds
       PROVE  \E i \in DOMAIN StaticKeys : StaticKeys[i] = Key("OFFICE", <<OfficeIds[j]>>)
  <2>1. j \in 1..Len(C)
    BY <1>5, <1>9
  <2>2. Len(A \o B) + j \in 1..Len(A \o B \o C)
    BY <1>7, <1>8, <1>9, <2>1
  <2> QED BY <1>1, <1>5, <1>8, <1>9, <2>1, <2>2
<1> QED BY <1>10, <1>11

(* The release gate asks for no less than the review rules of staging: a   *)
(* manifest with exactly the recommended decisions is a complete review    *)
(* that keeps the approval policy, so the two scripts cannot disagree on   *)
(* what may be released (data_seed_release.py against                      *)
(* data_staging_validation.py, for any identifiers and refusals).          *)
THEOREM GateKeepsPolicy ==
  ASSUME KbIds \in Seq(Nat), OfficeIds \in Seq(Nat), NEW Name, Intents \in Seq(Name),
         IsFiniteSet(Refused), None \notin {"APPROVE", "REJECT", "WITHHOLD"},
         NEW m, ExactDecisions(m)
  PROVE  ReviewComplete(m) /\ ApprovedPolicy(m)
<1>0. Len(Intents) \in Nat
  BY LenProperties
<1>1. ASSUME NEW i \in DOMAIN m.decisions
      PROVE  /\ m.decisions[i].decision
                  = Recommended(m.decisions[i].key.type, m.decisions[i].key.id)
             /\ m.decisions[i].comment
  BY <1>1 DEF ExactDecisions
<1>2. DOMAIN m.decisions = DOMAIN StaticKeys
      /\ \A i \in DOMAIN StaticKeys : m.decisions[i].key = StaticKeys[i]
  <2> DEFINE keys == [i \in DOMAIN m.decisions |-> m.decisions[i].key]
  <2>1. keys = StaticKeys
    BY DEF ExactDecisions
  <2>2. DOMAIN keys = DOMAIN m.decisions
        /\ \A i \in DOMAIN m.decisions : keys[i] = m.decisions[i].key
    OBVIOUS
  <2> HIDE DEF keys
  <2> QED BY <2>1, <2>2
<1>3. ReviewComplete(m)
  <2>1. ASSUME NEW i \in DOMAIN m.decisions
        PROVE  /\ m.decisions[i].comment
               /\ m.decisions[i].decision # None
               /\ m.decisions[i].key.type \in {"OFFICE", "MAPPING"}
                    => m.decisions[i].decision # "WITHHOLD"
    BY <1>1, <2>1 DEF Recommended
  <2> QED BY <2>1 DEF ReviewComplete
<1>4. ASSUME NEW n \in Elements(KbIds)
      PROVE  \E i \in DOMAIN m.decisions :
               /\ m.decisions[i].key.type = "KB" /\ m.decisions[i].key.id = <<n>>
               /\ m.decisions[i].decision = Recommended("KB", <<n>>)
  <2>1. PICK j \in DOMAIN KbIds : n = KbIds[j]
    BY <1>4 DEF Elements
  <2>2. PICK i \in DOMAIN StaticKeys : StaticKeys[i] = Key("KB", <<n>>)
    BY <1>0, <2>1, KeysListed
  <2>3. m.decisions[i].key.type = "KB" /\ m.decisions[i].key.id = <<n>>
    BY <1>2, <2>2 DEF Key
  <2> QED BY <1>1, <1>2, <2>3
<1>5. ASSUME NEW n \in Elements(OfficeIds)
      PROVE  \E i \in DOMAIN m.decisions :
               /\ m.decisions[i].key.type = "OFFICE" /\ m.decisions[i].key.id = <<n>>
               /\ m.decisions[i].decision = "APPROVE"
  <2>1. PICK j \in DOMAIN OfficeIds : n = OfficeIds[j]
    BY <1>5 DEF Elements
  <2>2. PICK i \in DOMAIN StaticKeys : StaticKeys[i] = Key("OFFICE", <<n>>)
    BY <1>0, <2>1, KeysListed
  <2>3. m.decisions[i].key.type = "OFFICE" /\ m.decisions[i].key.id = <<n>>
    BY <1>2, <2>2 DEF Key
  <2>4. m.decisions[i].decision = Recommended("OFFICE", <<n>>)
    BY <1>1, <1>2, <2>3
  <2> QED BY <1>2, <2>3, <2>4 DEF Recommended
<1>6. ASSUME NEW i \in DOMAIN m.decisions, m.decisions[i].key.type = "MAPPING"
      PROVE  m.decisions[i].decision \in {"APPROVE", "REJECT"}
  BY <1>1, <1>6 DEF Recommended
<1>7. LET approved == {i \in {d \in DOMAIN m.decisions : m.decisions[d].key.type = "MAPPING"} :
                         m.decisions[i].decision = "APPROVE"}
      IN  Cardinality(approved) >= InitialProjection.mapping
  <2> DEFINE approved == {i \in {d \in DOMAIN m.decisions : m.decisions[d].key.type = "MAPPING"} :
                            m.decisions[i].decision = "APPROVE"}
  <2>1. ProjectionOf(m, "decision").mapping = InitialProjection.mapping
    BY DEF ExactDecisions
  <2>2. Disposed(m, "MAPPING", "APPROVE", "decision") = InitialProjection.mapping
    BY <2>1 DEF ProjectionOf
  <2>3. {i \in DOMAIN m.decisions : m.decisions[i].key.type = "MAPPING"
                                    /\ m.decisions[i]["decision"] = "APPROVE"} = approved
    OBVIOUS
  <2>4. Cardinality(approved) = InitialProjection.mapping
    BY <2>2, <2>3, Zenon DEF Disposed
  <2>5. InitialProjection.mapping \in Int
    <3>1. Cardinality(Refused) \in Nat
      BY FS_CardinalityType
    <3>2. Len(OfficeIds) \in Nat
      BY LenProperties
    <3>3. \A x, y, z \in Nat : x * y - z \in Int
      OBVIOUS
    <3>4. InitialProjection.mapping = Len(OfficeIds) * Len(Intents) - Cardinality(Refused)
      BY DEF InitialProjection
    <3> QED BY <1>0, <3>1, <3>2, <3>3, <3>4
  <2> HIDE DEF approved
  <2>6. Cardinality(approved) >= InitialProjection.mapping
    BY <2>4, <2>5
  <2> QED BY <2>6 DEF approved
<1>8. ApprovedPolicy(m)
  BY <1>4, <1>5, <1>6, <1>7 DEF ApprovedPolicy
<1> QED BY <1>3, <1>8

(***************************************************************************)
(* The types of the variables.                                             *)
(***************************************************************************)
Stages == {"idle", "plan", "check", "exists", "compare", "write", "release", "draft",
           "gate", "again", "regate", "loaded", "running", "passed", "failed"}
Whereabouts == {"idle", "answered", "recording", "sound", "unsound", "recorded",
                       "refused"}

(* A command goes from one stage to another. *)
LEMMA StagesTyped ==
  ASSUME TypeOK, FileNext
  PROVE  stage' \in [Commands -> Stages] /\ op' \in [Commands -> Staging \cup Loading \cup {"none"}]
<1>0. /\ stage \in [Commands -> Stages]
      /\ op \in [Commands -> Staging \cup Loading \cup {"none"}]
  BY DEF TypeOK, Stages
<1>1. CASE \E f \in Files : Edit(f)
  BY <1>0, <1>1 DEF Edit
<1>2. ASSUME NEW c \in Commands, Step(c)
      PROVE  /\ stage' \in [Commands -> Stages]
             /\ op' \in [Commands -> Staging \cup Loading \cup {"none"}]
  <2>1. CASE \E o \in Staging \cup Loading : Start(c, o)
    <3>1. PICK o \in Staging \cup Loading : Start(c, o)
      BY <2>1
    <3>2. op' = [op EXCEPT ![c] = o]
          /\ \E n \in Stages : stage' = [stage EXCEPT ![c] = n]
      BY <3>1 DEF Start, Enter, Stages
    <3> QED BY <1>0, <3>2
  <2>2. CASE Read(c)
    BY <1>0, <2>2 DEF Read
  <2>3. CASE \/ Planned(c) \/ Checked(c) \/ Exists(c) \/ Compared(c) \/ Write(c)
             \/ ReleaseRead(c) \/ SnapshotTaken(c) \/ Verified(c) \/ Loaded(c)
    <3>1. op' = op
      BY <2>3 DEF Planned, Checked, Exists, Compared, Write, ReleaseRead, SnapshotTaken,
                  Verified, Loaded
    <3>2. \E n \in Stages : stage' = [stage EXCEPT ![c] = n]
      <4>1. CASE Checked(c)
        BY <4>1 DEF Checked, Enter, Stages
      <4>2. CASE SnapshotTaken(c)
        BY <4>2 DEF SnapshotTaken, Enter, Stages
      <4>3. CASE Planned(c) \/ Exists(c) \/ Compared(c) \/ Write(c)
        BY <4>3, Zenon DEF Planned, Exists, Compared, Write, Enter, Stages
      <4>4. CASE ReleaseRead(c) \/ Verified(c) \/ Loaded(c)
        BY <4>4, Zenon DEF ReleaseRead, Verified, Loaded, Enter, Stages
      <4> QED BY <2>3, <4>1, <4>2, <4>3, <4>4
    <3> QED BY <1>0, <3>1, <3>2
  <2> QED BY <1>2, <2>1, <2>2, <2>3 DEF Step
<1> QED BY <1>1, <1>2 DEF FileNext

(* So does a session that opens, or is over with a task. *)
LEMMA OverTyped ==
  ASSUME TypeOK, NEW s \in Sessions, NEW ok, Over(s, ok)
  PROVE  /\ stage' \in [Commands -> Stages] /\ op' = op
         /\ at' \in [Sessions -> 0..Len(LockTables)]
<1>1. 0 \in 0..Len(LockTables)
  BY Eight
<1>2. stage' = stage \/ \E n \in {"passed", "failed"} : stage' = [stage EXCEPT ![s] = n]
  BY DEF Over
<1> QED BY <1>1, <1>2 DEF Over, TypeOK, Stages

LEMMA SessionTyped ==
  ASSUME TypeOK, NEW s \in Sessions, SessionStep(s)
  PROVE  TypeOK'
<1>0. /\ Len(LockTables) = 8 /\ at \in [Sessions -> 0..8]
      /\ exclusive \in [Tables -> Sessions \cup {None}]
  BY Eight DEF TypeOK, Tables
<1>1. CASE Advisory(s)
  BY <1>1 DEF Advisory, TypeOK, fileVars
<1>2. CASE Lock(s)
  <2>1. at' = [at EXCEPT ![s] = at[s] + 1] /\ at[s] < 8
    BY <1>0, <1>2 DEF Lock
  <2>2. \E t : exclusive' = [exclusive EXCEPT ![t] = s]
    BY <1>2 DEF Lock
  <2>3. at' \in [Sessions -> 0..8]
    BY <1>0, <2>1
  <2>4. exclusive' \in [Tables -> Sessions \cup {None}]
    BY <1>0, <2>2
  <2> QED BY <1>0, <1>2, <2>3, <2>4 DEF Lock, TypeOK, Tables, fileVars
<1>3. CASE Execute(s) \/ GiveUp(s)
  <2>1. \E ok : Over(s, ok)
    BY <1>3 DEF Execute, GiveUp
  <2>2. /\ advisory' \in {None, advisory} /\ UNCHANGED <<shared, where>>
        /\ \/ exclusive' = exclusive
           \/ exclusive' = [t \in Tables |-> IF exclusive[t] = s THEN None ELSE exclusive[t]]
    BY <1>0, <1>3 DEF Execute, GiveUp, Unlocked
  <2>3. exclusive' \in [Tables -> Sessions \cup {None}]
    BY <1>0, <2>2
  <2>4. /\ stage' \in [Commands -> Stages] /\ op' = op
        /\ at' \in [Sessions -> 0..Len(LockTables)]
    BY <2>1, OverTyped
  <2> QED BY <2>2, <2>3, <2>4 DEF TypeOK, Tables, Stages
<1>4. CASE Observe(s)
  <2>1. UNCHANGED <<advisory, exclusive, shared, where>>
    BY <1>4 DEF Observe
  <2>2. Len(Asserted(s)) \in {4, 8}
    <3>1. Len(SeedTables) = 4
      BY DEF SeedTables
    <3>2. Asserted(s) = SeedTables \/ Asserted(s) = LockTables
      BY DEF Asserted
    <3>3. Len(Asserted(s)) = 4 \/ Len(Asserted(s)) = 8
      BY <1>0, <3>1, <3>2, Zenon
    <3> QED BY <3>3
  <2>3. CASE at' = [at EXCEPT ![s] = at[s] + 1] /\ at[s] + 1 < Len(Asserted(s))
             /\ UNCHANGED fileVars
    <3>1. at[s] + 1 \in 0..8
      <4>1. at[s] \in 0..8
        BY <1>0
      <4>2. at[s] + 1 < 4 \/ at[s] + 1 < 8
        BY <2>2, <2>3, Zenon
      <4> QED BY <4>1, <4>2
    <3>2. at' \in [Sessions -> 0..8]
      BY <1>0, <2>3, <3>1
    <3> QED BY <1>0, <2>1, <2>3, <3>2 DEF TypeOK, fileVars
  <2>4. CASE \E ok : Over(s, ok)
    BY <2>1, <2>4, OverTyped DEF TypeOK, Stages
  <2> QED BY <1>4, <2>3, <2>4 DEF Observe
<1> QED BY <1>1, <1>2, <1>3, <1>4 DEF SessionStep

LEMMA CitizenTyped ==
  ASSUME TypeOK, NEW w \in Citizens, CitizenStep(w)
  PROVE  TypeOK'
<1>1. UNCHANGED <<stage, op, advisory, exclusive, at>>
  BY DEF CitizenStep, Answer, LockEvents, LockSources, Finish, fileVars
<1>2. \E l \in Whereabouts : where' = [where EXCEPT ![w] = l]
  BY DEF CitizenStep, Answer, LockEvents, LockSources, Finish, Move, Whereabouts
<1>3. where' \in [Citizens -> Whereabouts]
  BY <1>2 DEF TypeOK, Whereabouts
<1>4. \/ shared' = shared
      \/ \E t : shared' = [shared EXCEPT ![t] = @ \cup {w}]
      \/ shared' = [t \in DOMAIN shared |-> shared[t] \ {w}]
  BY DEF CitizenStep, Answer, LockEvents, LockSources, Finish, UseTable
<1>5. shared' \in [Elements(LockTables) -> SUBSET Citizens]
  <2>1. shared \in [Elements(LockTables) -> SUBSET Citizens]
    BY DEF TypeOK
  <2>2. CASE \E t : shared' = [shared EXCEPT ![t] = @ \cup {w}]
    BY <2>1, <2>2
  <2>3. CASE shared' = [t \in DOMAIN shared |-> shared[t] \ {w}]
    BY <2>1, <2>3
  <2> QED BY <1>4, <2>1, <2>2, <2>3
<1> QED BY <1>1, <1>3, <1>5 DEF TypeOK, Whereabouts

(* Stages, locks and places keep their types, for any number of commands,  *)
(* sessions and citizens (the commands and transactions of the release     *)
(* scripts, and record_interaction).                                       *)
THEOREM Typed == Spec => []TypeOK
<1>1. Init => TypeOK
  <2> SUFFICES ASSUME Init PROVE TypeOK
    OBVIOUS
  <2>1. at = [s \in Sessions |-> 0] /\ 0 \in 0..Len(LockTables)
    BY Eight DEF Init
  <2> QED BY <2>1 DEF Init, FileInit, TypeOK
<1>2. TypeOK /\ [Next]_vars => TypeOK'
  <2> SUFFICES ASSUME TypeOK, [Next]_vars PROVE TypeOK'
    OBVIOUS
  <2>1. CASE FileNext /\ UNCHANGED dbVars
    BY <2>1, StagesTyped DEF TypeOK, Stages, dbVars
  <2>2. ASSUME NEW c \in Commands, Open(c) PROVE TypeOK'
    <3>1. stage' \in [Commands -> Stages]
      BY <2>2 DEF Open, TypeOK, Stages
    <3> QED BY <2>2, <3>1 DEF Open, TypeOK, Stages
  <2>3. ASSUME NEW s \in Sessions, SessionStep(s) PROVE TypeOK'
    BY <2>3, SessionTyped
  <2>4. ASSUME NEW w \in Citizens, CitizenStep(w) PROVE TypeOK'
    BY <2>4, CitizenTyped
  <2>5. CASE UNCHANGED vars
    BY <2>5 DEF vars, fileVars, dbVars, TypeOK
  <2> QED BY <2>1, <2>2, <2>3, <2>4, <2>5 DEF Next
<1> QED BY <1>1, <1>2, PTL DEF Spec
=============================================================================
