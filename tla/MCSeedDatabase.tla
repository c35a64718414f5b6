--------------------------- MODULE MCSeedDatabase ---------------------------
(***************************************************************************)
(* A small draft for TLC: two documents of which the second is withheld,   *)
(* one office, two intents of which the second is refused for the office.  *)
(***************************************************************************)
EXTENDS SeedDatabase, TLC

MCKbIds == <<1, 2>>
MCOfficeIds == <<1>>
MCIntents == <<1, 2>>
MCIntentOf == [k \in {1, 2} |-> k]
MCRefused == {<<1, 2>>}

(* Contact 9 looks like a citizen's number and is the office's own.        *)
Doc(k, status) ==
  [id |-> k, category |-> k, status |-> status, approver |-> None, source |-> k,
   host |-> "gov", map |-> None, text |-> {}, examples |-> {k}]
Kb(status) == Canonical(<<Doc(1, status), Doc(2, "DRAFT")>>)
Office ==
  Canonical(<<[id |-> 1, host |-> "gov", map |-> "map", source |-> 1,
               contact |-> 9, text |-> {}]>>)
Mapping ==
  Canonical([i \in 1..2 |->
    [id |-> 1, intent |-> i, host |-> "gov", map |-> None, source |-> 1,
     text |-> {}]])

Draft == [f \in Content |->
            CASE f = "kb" -> Kb("DRAFT") [] f = "office" -> Office
              [] f = "mapping" -> Mapping]

Pending == PendingManifest(Draft, Draft, Draft, Submitted)
Review(state, who) ==
  [Pending EXCEPT !.state = state, !.reviewer = who, !.reviewed = TRUE,
     !.decisions = [i \in DOMAIN Pending.decisions |->
                      [Pending.decisions[i] EXCEPT !.decision = Pending.decisions[i].recommended,
                                              !.comment = TRUE]]]
Approved == Review("APPROVED", Reviewer)

MCPinned ==
  [f \in Staged |-> IF f = "approval" THEN Canonical(Approved) ELSE Draft[f]]

Registry ==
  Canonical([columns |-> TRUE, text |-> {},
             rows |-> [i \in 1..2 |-> [id |-> i, source |-> i, filled |-> TRUE,
                                       pending |-> TRUE]]])
Audits == Canonical("audits")
MCPinnedMatrix ==
  Canonical([kb |-> [i \in 1..2 |-> KbSource(Draft["kb"].body[i])],
             offices |-> <<OfficeSource(Office.body[1])>>,
             mappings |-> [i \in 1..2 |-> MappingSource(Mapping.body[i])],
             registry |-> Registry, audits |-> Audits, content |-> Draft])

Tracked(refers) ==
  Canonical({[runtime |-> TRUE, allowed |-> FALSE, trusted |-> TRUE,
              refers |-> refers]})

(* A seed script that was changed after the release was built.             *)
Tampered == Script("seed", [Reviewable EXCEPT !.kb_documents = {}])

(* The working copies: with the release, and before it with the manifest   *)
(* to be prepared, prepared, to be migrated, or rejected.                     *)
Copy(approval, released) ==
  [f \in Files |->
     CASE f = "approval" -> approval
       [] f \in Content -> Draft[f]
       [] f = "matrix" -> MCPinnedMatrix
       [] f = "registry" -> Registry
       [] f = "audits" -> Audits
       [] f = "tracked" -> Tracked(FALSE)
       [] f \in Artifacts -> IF released THEN Bundle(MCPinned)[f] ELSE Absent]

MCCheckouts ==
  {Copy(Canonical(Approved), TRUE), Copy(Absent, FALSE),
   Copy(Canonical(Pending), FALSE),
   Copy(Canonical(Legacy(Pending)), FALSE),
   Copy(Canonical(Review("REJECTED", Reviewer)), FALSE)}

(* What an edit may leave in a file: everything not named stays as it is.  *)
MCVariants ==
  [f \in Files |->
     CASE f = "approval" -> {Absent, Canonical(Approved)}
       [] f = "kb" -> {Kb("DRAFT"), Kb("ACTIVE")}
       [] f = "tracked" -> {Tracked(TRUE)}
       [] f = "release seed" -> {Script("seed", Reviewable), Tampered}
       [] OTHER -> {}]
=============================================================================
