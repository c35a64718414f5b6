---------------------------- MODULE DataRelease ----------------------------
(***************************************************************************)
(* The commands that work on the files of the official data: prepare,      *)
(* migrate-pending and validate (scripts/validate_data_staging.py), and    *)
(* the loading of a verified release with which every command of           *)
(* scripts/verify_data_seed_db.py begins (scripts/data_seed_release.py).   *)
(*                                                                         *)
(* A command reads one file at a time; todo[c] is what it reads next and   *)
(* got[c] what the readings of its stage returned.  People edit the files  *)
(* between any two readings: disk changes under the command.  An           *)
(* exception and a reported issue both end a command as failed.  A reading *)
(* of the matrix's value stands for the loading and the comparison of its  *)
(* bytes.                                                                  *)
(***************************************************************************)
EXTENDS StagingRules

CONSTANTS
  Commands,      \* invocations of a script
  Pinned,        \* the staged files whose hashes the code names
  PinnedMatrix,  \* the source matrix whose hash the code names
  Version,       \* the release version the scripts accept
  Submitted,     \* the time a manifest is prepared with
  Variants,      \* [Files -> what an edit may leave there]
  MaxEdits,      \* bound on edits
  Checkouts      \* the working copies the commands may begin with

Sources == {"matrix", "registry", "audits", "tracked"}

(* The seven files of a release directory.                                 *)
Artifacts == {"release approval", "release compensation", "release kb",
              "release mapping", "release office", "release manifest",
              "release seed"}
Files == Staged \cup Sources \cup Artifacts

VARIABLES
  disk,     \* [Files -> file]
  edits,    \* number of edits so far
  op,       \* [Commands -> what the command is]
  stage,    \* [Commands -> where it is]
  todo,     \* [Commands -> Seq(Reading)]
  got,      \* [Commands -> what was read, by reading]
  made,     \* [Commands -> the manifest it prepared, or None]
  payload   \* [Commands -> what the verified release carries, or None]

fileVars == <<disk, edits, op, stage, todo, got, made, payload>>

Staging == {"prepare", "migrate", "validate"}
Loading == {"cycle", "rollback", "evidence"}

(***************************************************************************)
(* A release: the content of its seven files follows from the staged files *)
(* it was built from (build_release_bundle).                               *)
(***************************************************************************)
Script(kind, rows) == Canonical([kind |-> kind, version |-> Version, rows |-> rows])

Table(records) == Canonical([version |-> Version, records |-> records])

BundleBody(captured) ==
  LET rows == ProjectedRecords(captured) IN
  [f \in Artifacts \ {"release manifest"} |->
     CASE f = "release approval" -> captured["approval"]
       [] f = "release kb" -> Table(rows.kb_documents)
       [] f = "release office" -> Table(rows.offices)
       [] f = "release mapping" -> Table(rows.office_service_mappings)
       [] f = "release seed" -> Script("seed", rows)
       [] f = "release compensation" -> Script("compensation", rows)]

Bundle(captured) ==
  LET body == BundleBody(captured) IN
  [f \in Artifacts |->
     IF f = "release manifest"
       THEN Canonical([version |-> Version, artifacts |-> body,
                       reviewer |-> Reviewer])
       ELSE body[f]]

Reviewable == ProjectedRecords(Pinned)

(***************************************************************************)
(* Readings.                                                               *)
(***************************************************************************)
InOrder == <<"kb", "office", "mapping">>
Pass(pass, files) == [i \in DOMAIN files |-> Reading(pass, files[i])]

PlanReads == Pass("counted", InOrder) \o Pass("listed", InOrder)
               \o Pass("hashed", InOrder)
DraftReads == Pass("captured", <<"kb", "office", "mapping", "approval">>)
ReleaseReads ==
  Pass("release", <<"release approval", "release compensation", "release kb",
                    "release mapping", "release office", "release manifest",
                    "release seed">>)

(* With a manifest to be written, validate_staging does not read the one   *)
(* on disk.                                                                *)
OverrideReads == ContentReads \o AuditReads

Learnt(g, r, file) == [x \in DOMAIN g \cup {r} |-> IF x = r THEN file ELSE g[x]]
Of(g, pass, files) == [f \in files |-> g[Reading(pass, f)]]

(* _canonical_inputs_are_trusted: every input is there.                    *)
Trusted(o) ==
  \A f \in Content \cup {"matrix", "registry", "audits"}
             \cup (IF o = "prepare" THEN {} ELSE {"approval"}) :
    disk[f] # Absent

FileInit ==
  /\ disk \in Checkouts
  /\ edits = 0
  /\ op = [c \in Commands |-> "none"]
  /\ stage = [c \in Commands |-> "idle"]
  /\ todo = [c \in Commands |-> <<>>]
  /\ got = [c \in Commands |-> <<>>]
  /\ made = [c \in Commands |-> None]
  /\ payload = [c \in Commands |-> None]

(* An edit, a checkout or the PM's review: a file gets other contents.     *)
Edit(f) ==
  /\ edits < MaxEdits
  /\ edits' = edits + 1
  /\ \E v \in Variants[f] \ {disk[f]} : disk' = [disk EXCEPT ![f] = v]
  /\ UNCHANGED <<op, stage, todo, got, made, payload>>

(***************************************************************************)
(* Steps of a command.                                                     *)
(***************************************************************************)
Enter(c, next, reads) ==
  /\ stage' = [stage EXCEPT ![c] = next]
  /\ todo' = [todo EXCEPT ![c] = reads]

Start(c, o) ==
  /\ stage[c] = "idle"
  /\ op' = [op EXCEPT ![c] = o]
  /\ \/ o \in Staging /\ ~Trusted(o) /\ Enter(c, "failed", <<>>)
     \/ o = "prepare" /\ Trusted(o) /\ Enter(c, "plan", PlanReads)
     \/ /\ o = "migrate" /\ Trusted(o)
        /\ Enter(c, "plan", <<Reading("look", "approval")>> \o PlanReads)
     \/ o = "validate" /\ Trusted(o) /\ Enter(c, "check", StagingReads)
     \/ o \in Loading /\ Enter(c, "release", ReleaseReads)
  /\ UNCHANGED <<disk, edits, got, made, payload>>

Read(c) ==
  /\ todo[c] # <<>>
  /\ LET r == Head(todo[c]) IN
       got' = [got EXCEPT ![c] = Learnt(@, r, disk[r.file])]
  /\ todo' = [todo EXCEPT ![c] = Tail(@)]
  /\ UNCHANGED <<disk, edits, op, stage, made, payload>>

At(c, s) == stage[c] = s /\ todo[c] = <<>>

(* The manifest that was there before the recommendations had a field of   *)
(* their own: pending, the recommendation in the place of the decision.    *)
Legacy(candidate) ==
  [candidate EXCEPT
     !.submitted = None,
     !.decisions = [i \in DOMAIN candidate.decisions |->
                      [candidate.decisions[i] EXCEPT
                         !.decision = candidate.decisions[i].recommended,
                         !.recommended = None]]]

(* FAULTY VARIANT: whatever manifest names the same content is migrated.   *)
LegacyPendingAny(existing, candidate) ==
  existing.form = "canonical" /\ existing.body.entries = candidate.entries

LegacyPending(existing, candidate) == existing = Canonical(Legacy(candidate))

Planned(c) ==
  /\ At(c, "plan")
  /\ LET counted == Of(got[c], "counted", Content)
         listed == Of(got[c], "listed", Content)
         candidate == PendingManifest(counted, listed,
                                      Of(got[c], "hashed", Content), Submitted)
     IN IF /\ \A f \in Content : Parses(counted[f]) /\ Parses(listed[f])
           /\ op[c] = "migrate"
                => LegacyPending(got[c][Reading("look", "approval")], candidate)
          THEN /\ made' = [made EXCEPT ![c] = candidate]
               /\ Enter(c, "check", OverrideReads)
          ELSE /\ Enter(c, "failed", <<>>)
               /\ UNCHANGED made
  /\ UNCHANGED <<disk, edits, op, got, payload>>

(* What validate_staging concludes: of the manifest on disk, or of the one *)
(* that is to be written.                                                  *)
Validated(c) ==
  LET s == IF made[c] = None THEN got[c]
           ELSE Learnt(Learnt(got[c], Reading("value", "approval"),
                              Canonical(made[c])),
                       Reading("bytes", "approval"), Canonical(made[c]))
  IN StagingValid(s, PinnedMatrix)

Checked(c) ==
  /\ At(c, "check")
  /\ Enter(c, IF ~Validated(c) THEN "failed"
              ELSE IF op[c] = "validate" THEN "passed"
              ELSE IF op[c] = "prepare" THEN "exists" ELSE "write", <<>>)
  /\ UNCHANGED <<disk, edits, op, got, made, payload>>

Exists(c) ==
  /\ At(c, "exists")
  /\ got' = [got EXCEPT ![c] = Learnt(@, Reading("look", "approval"),
                                      disk["approval"])]
  /\ IF disk["approval"] = Absent
       THEN Enter(c, "write", <<>>)
       ELSE Enter(c, "compare", <<Reading("value", "approval"),
                                  Reading("bytes", "approval")>>)
  /\ UNCHANGED <<disk, edits, op, made, payload>>

HasReviewEvidence(m) ==
  \/ Reviewed(m) \/ m.reviewer # None \/ m.reviewed
  \/ \E i \in DOMAIN m.decisions :
       m.decisions[i].decision # None \/ m.decisions[i].comment

(* prepare leaves a manifest alone: one with review evidence and one with  *)
(* other bytes are refused, an equal one needs no writing.                 *)
Compared(c) ==
  /\ At(c, "compare")
  /\ LET existing == got[c][Reading("value", "approval")] IN
       IF /\ Parses(existing)
          /\ ~HasReviewEvidence(existing.body)
          /\ got[c][Reading("bytes", "approval")] = Canonical(made[c])
         THEN Enter(c, "passed", <<>>)
         ELSE Enter(c, "failed", <<>>)
  /\ UNCHANGED <<disk, edits, op, got, made, payload>>

(* _write_json_atomic replaces the file, whatever it is by now.            *)
Write(c) ==
  /\ At(c, "write")
  /\ disk' = [disk EXCEPT !["approval"] = Canonical(made[c])]
  /\ Enter(c, "passed", <<>>)
  /\ UNCHANGED <<edits, op, got, made, payload>>

(***************************************************************************)
(* Loading a release.  Stages "release" (the seven files, each once),      *)
(* "draft" (the staged files, each once), "gate" (validate_staging of what *)
(* is there by then), and once more "again" and "regate" for the           *)
(* projection, which load_verified_release compares by its hash.           *)
(***************************************************************************)
ReleaseRead(c) ==
  /\ At(c, "release")
  /\ IF \A f \in Artifacts : got[c][Reading("release", f)] # Absent
       THEN Enter(c, "draft", DraftReads)
       ELSE Enter(c, "failed", <<>>)
  /\ UNCHANGED <<disk, edits, op, got, made, payload>>

Captured(c) == Of(got[c], "captured", Staged)

SnapshotTaken(c) ==
  /\ At(c, "draft") \/ At(c, "again")
  /\ IF ApprovedSnapshot(Captured(c), Pinned)
       THEN Enter(c, IF stage[c] = "draft" THEN "gate" ELSE "regate", StagingReads)
       ELSE Enter(c, "failed", <<>>)
  /\ UNCHANGED <<disk, edits, op, got, made, payload>>

(* FAULTY VARIANT: the directory is compared by its manifest alone.        *)
ReleaseMatchesManifest(c) ==
  /\ StagingValid(got[c], PinnedMatrix)
  /\ ProjectionComplete(ProjectedRecords(Captured(c)))
  /\ got[c][Reading("release", "release manifest")]
       = Bundle(Captured(c))["release manifest"]

(* Each of the seven files is what the captured draft generates.           *)
ReleaseMatches(c) ==
  /\ StagingValid(got[c], PinnedMatrix)
  /\ ProjectionComplete(ProjectedRecords(Captured(c)))
  /\ Of(got[c], "release", Artifacts) = Bundle(Captured(c))

(* The scripts of the directory, and the projection whose hash the bundle  *)
(* generated from the draft has.                                           *)
Summary(c) ==
  [seed |-> got[c][Reading("release", "release seed")].body.rows,
   compensation |-> got[c][Reading("release", "release compensation")].body.rows,
   projection |-> ProjectedRecords(Captured(c))]

Verified(c) ==
  /\ At(c, "gate")
  /\ IF ReleaseMatches(c)
       THEN /\ Enter(c, "again", DraftReads)
            /\ payload' = [payload EXCEPT ![c] = Summary(c)]
       ELSE Enter(c, "failed", <<>>) /\ UNCHANGED payload
  /\ got' = [got EXCEPT ![c] = <<>>]
  /\ UNCHANGED <<disk, edits, op, made>>

Loaded(c) ==
  /\ At(c, "regate")
  /\ IF /\ StagingValid(got[c], PinnedMatrix)
        /\ ProjectedRecords(Captured(c)) = payload[c].projection
       THEN Enter(c, "loaded", <<>>)
       ELSE Enter(c, "failed", <<>>)
  /\ got' = [got EXCEPT ![c] = <<>>]
  /\ UNCHANGED <<disk, edits, op, made, payload>>

Step(c) ==
  \/ \E o \in Staging \cup Loading : Start(c, o)
  \/ Read(c) \/ Planned(c) \/ Checked(c) \/ Exists(c) \/ Compared(c) \/ Write(c)
  \/ ReleaseRead(c) \/ SnapshotTaken(c) \/ Verified(c) \/ Loaded(c)

FileNext == (\E c \in Commands : Step(c)) \/ (\E f \in Files : Edit(f))

(***************************************************************************)
(* Properties.                                                             *)
(***************************************************************************)
(* A command that writes a manifest loses the PM's review only when the    *)
(* review arrived after the command had looked: whoever is replaced was    *)
(* not the manifest it saw (validate_data_staging.py checks first and      *)
(* replaces later, with a whole validation in between).                    *)
Wrote(c) == stage[c] = "write" /\ stage'[c] = "passed"

ReviewLostOnlyInRace ==
  [][\A c \in Commands :
       Wrote(c) /\ Parses(disk["approval"]) /\ Reviewed(disk["approval"].body)
         => got[c][Reading("look", "approval")] # disk["approval"]]_disk
=============================================================================
